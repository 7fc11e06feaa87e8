# FOL: models and proofs of its run-time system

FOL is a Clojure-like Lisp that compiles to Common Lisp (SBCL).  What is hard to
test in it is the state that outlives a call and is shared: refs and
transactions, agents, atoms, futures and promises, a work-stealing pool, the
channels of `core-async` and the networks built of them; the validity cells of
optimised code in a live image; nodes of collections that transients write in
place; objects whose class is redefined under them.  This directory holds TLA+
models of these parts, the TLC configurations that check them, and TLAPS proofs.

`PROJECT.json` is the machine-readable side of this file: the runs, the map
from definitions to source lines, the mutants, the hazards, the theorems.

Contents: 1 Inventory; 2 Modules; 3 Runs; 4 Bounds; 5 Fairness; 6 Proofs;
7 Limits of the code; 8 What is not modelled; 9 Plan.

## 1. Inventory

| Component | State | Operations | Interaction |
|---|---|---|---|
| Atoms, `src/mutable.lisp` 22-139, `src/mutable-functions.lisp` 13-121 | value, validator, watch list | `deref`, `reset!`, `swap!`, `compare-and-set!`, `swap-vals!`, `reset-vals!`, `add-watch`, `remove-watch`, `set-validator!` | no lock: compare-and-swap on slots; watches run on the caller's thread |
| Refs and transactions, `src/mutable.lisp` 142-395 | per ref a value, a version, a lock; per thread a transaction with read, write, commute and ensure tables | `deref`, `ref-set`, `alter`, `commute`, `ensure`, `dosync` | commits lock all refs involved, in address order |
| Threads, 397-513 | state, native thread | `start`, `suspend`, `resume`, `halt`, `thread-join` | futures use `start` and `halt` |
| Agents, 515-757 | value, queue, active flag, idle flag, error, error mode | `send`, `send-off`, `await`, `restart-agent`, `set-error-mode!`, the worker loop | one lock per agent, condition variable `idle-cv` |
| Pool, 760-1005 | one circular deque per worker, submission counter, idle condition variable | `submit-work`, `wait-for-work`, the worker loop | `lib/parallel.lisp` and `lib/reducers.lisp` submit and wait |
| Futures and promises, `src/mutable-functions.lisp` 193-299 | state, value, condition variable | `future-call`, `future-cancel`, `deliver`, `deref` | `pmap`, `pvalues`, `pcalls` |
| Channels, `src/lib/core-async.lisp` 60-433 | buffer, closed flag, pending puts, pending takes, two condition variables | `>!!`, `<!!`, `offer!`, `poll!`, `close!` | everything else in `core-async` |
| Channel networks, 435-796 | threads and channels | `go`, `thread`, `alts!!`, `timeout`, `onto-chan`, `pipe`, `pipeline`, `pipeline-async`, `merge`, `pub`, `sub`, `unsub` | built from channel operations |
| World state, `src/world.lisp`, with what `src/compiler.lisp` emits for it | validity cells of optimised regions, an index of them by assumed name, summaries, counters | `register-region`, the load-time trust check, `note-redefinition`, `invalidate-all-regions`, `reset-world` | compiled definitions call `note-redefinition`; guards read cells without a lock |
| Collections and transients, `src/collection-primitives.lisp`, `src/transients.lisp` | hash tries and vector tries with owner tokens | `assoc`, `dissoc`, `conj`, `pop`, `transient`, `assoc!`, `conj!`, `dissoc!`, `persistent!`, bulk load | transients share nodes with the collections they come from |
| Persistent objects, `src/persistence.lisp` | per class a version counter, snapshots, alias and index maps, a keyword cache; per object native slots, a vector, a version stamp | redefinition, migration, construction, `update-slots`, `dissoc-slots`, transients of objects, keyword lookup | objects migrate when they are first used after a redefinition |
| Lazy sequences, transducers | thunks | | sequential; a transducer on a channel runs under its lock |
| Compiler, reader, library functions | none that outlives a call | | |

(Paths are relative to the repository; the sources are in its directory `src`.)

What is hard here, and what makes each component correct:

* **Transactions.**  `deref` reads a version and a value without a lock and in
  two steps; other commits come between any two steps of a body.  Correct
  means: a transaction takes effect at one instant, with reads that are current
  then and with all of its writes or none; commits do not wait for each other
  in a cycle; a retry has a cause; every `dosync` ends.
* **Agents.**  Workers start and exit while sends arrive; actions and watches
  fail; several threads wait.  Correct means: one worker at a time, actions
  once and in order, no update lost, `await` returns and means what it says.
* **Pool.**  Owners and thieves share deques; workers go to sleep while work
  arrives; items wait for items.  Correct means: no item lost or run twice,
  and every wait returns.
* **Atoms.**  Compare-and-swap loops against each other and against `reset!`.
  Correct means: no swap lost, watches are told of transitions that happened.
* **Futures and promises.**  Delivery, cancellation and several readers race.
* **Channels.**  Handoff cells, buffers and two condition variables that wake
  one arbitrary sleeper.  Correct means: first in first out, nothing accepted
  is lost, nothing refused is taken, nobody sleeps beside a partner.
* **Networks.**  Workers finish in any order, consumers stop early, sources end
  while subscriptions change.  Correct means: results in the order of the
  source, a close after the last value and never before it, and the end reaches
  everybody who waits for it.
* **World.**  A region is compiled, loaded and entered at different times, and
  other threads redefine what it assumes in between.  Correct means: a guard
  lets optimised code run only while its assumptions hold.
* **Transients.**  In-place writes to nodes that may be shared.  Correct means: a
  persistent collection never changes, whatever is done to transients of it.
* **Persistent objects.**  An object sleeps through several redefinitions, and is
  updated between others.  Correct means: its values come up under the names
  the declared renames give them.

## 2. Modules

| Module | Models | Abstract specification it is shown to implement |
|---|---|---|
| `Stm` | refs and `dosync` | `AtomicRefs`: a store on which whole transactions happen in one step |
| `StmProofs` | theorems about `Stm` | |
| `Agent`, `AgentProofs` | one agent; theorems | |
| `Deque` | a worker's circular buffer | `DequeSpec`: a sequence |
| `WorkPool` | workers, clients, forked items | uses the sequences of `DequeSpec` for its deques |
| `WorkPoolProofs` | theorems about `WorkPool` and `Deque` | |
| `Channel` | one channel and its callers | `FifoChannel`: a bounded queue that may evict |
| `ChannelProofs` | theorems about `Channel` | |
| `Deferred` | one promise, or one future with its worker | |
| `DeferredProofs` | theorems about `Deferred` | |
| `Atom`, `AtomProofs` | one atom; theorems | |
| `World`, `WorldProofs` | validity cells of optimised regions; theorems | |
| `Heap`, `HamtOps`, `VecOps` | cells of the heap; the algorithms on hash tries and vector tries | functions and sequences: `Transients` keeps each collection with the mapping it should be |
| `Transients` | persistent and transient collections of several threads, over the three above | |
| `Chans` | the channels of a network and the steps of `>!!` and `<!!` on them | |
| `Pipeline`, `Merge`, `Publication`, `Select` | bodies of the threads that `core-async` starts, over `Chans` | |
| `Network` | composes the four with feeders and consumers | |
| `Schema`, `SchemaProofs` | persistent objects and the versions of their class; theorems | |
| `MC*` | values of constants for TLC, symmetry sets | |

How state and actions correspond to the code:

**Stm.**  A ref's value, version and lock holder are `val`, `ver`, `owner`.  A
transaction's four hash tables are functions of the refs (absent = `NIL`).
Every access of a shared slot is a step: the two reads of `deref`
(`BeginDeref`, `DerefValue`), one `acquire-lock` (`AcquireLock`), the version
checks under the locks (`Validate`), one application of a commute, the
validators, and for each ref of the write-set the store of the value, of the
version, and the call of the watches (`WriteValue`, `BumpVersion`,
`NotifyWatches`).  A body is any sequence of at most `MaxOps` operations.
`sortKey` is the addresses that a thread sorted its refs by; `MoveObjects` is
the collector, which changes addresses (external: SBCL's collector copies).

**Agent.**  One `with-lock-held` form is one step; an action runs between two
of them.  The agent's value is the sequence of actions it results from, so that
order and loss can be read off it.

**WorkPool.**  A worker's round is: pop its own deque, try to steal from every
other one, starting anywhere, then sleep.  Each try takes one deque's lock and
is a step, and so is the `condition-wait`: that a submission fits in between is
the point.  An item may fork another and wait for it (`fold-recursive`).

**Channel.**  A call runs under the channel's lock except while it sleeps, so a
step is a call, or what follows a wake-up, up to the next sleep.
`condition-notify` wakes one sleeper, whichever (`Woken`).  A cell in
`pending-takes` or `pending-puts` is named by its thread, and by `Abandoned`
once that thread has turned to another cell: what is stored there is lost.
`condition-wait` may also return without a notification; `Stray` is that, at most
`setup.strays` times for each thread.  The transducer is a filter (`Filtered`).  The buffer and who calls what are
picked from `Setups` in the initial state and stay, so that one run covers every
kind of buffer.

**Deferred.**  Steps as for channels; `kind` says which of the two it is, and both
have the same loop in `deref`.  A promise's delivered flag is the state "done".
`halt` unwinds the worker wherever it is: out of the function into the cleanup
form, or out of the cleanup form.

**Atom.**  Reads, writes and compare-and-swaps of slots are the steps.

**World.**  A region goes from source to compiled, registered and loaded; the
conversion's look at the method tables and the second look at load time are
steps of their own, outside of the world's lock, and a definer's change of a
definition and its `note-redefinition` are two steps.  For a class the order is
the other one, since `emit-defclass` notes when it emits.  `index` maps a name to
the cells registered under it, `cell` is the car that guards read.

**Transients.**  The heap is a sequence of cells with tags, so that sharing and
in-place writes are visible.  `HamtOps` and `VecOps` are the recursive algorithms
of the source as operators from heaps to heaps; `Transients` calls them on
handles of two threads and keeps beside each handle what the collection should
contain.  A level stands for five bits of shift.

**Network.**  Every thread of a network is a program counter over calls of
`Chans`.  A call may sleep and go on as in `Channel`.  The setup, picked in the
initial state, says which network, its inputs, buffer sizes, scripts of
subscriptions and whether sleepers are woken in the order they went to sleep.
Here a `condition-wait` returns only when notified: what the runs of `Network` say
holds as long as none returns without, since a take then loses a value
(`AcceptedNotLost`).  The other waits of the code (`await`, promises and futures,
the pool) test their condition again in a loop and go back to sleep; that a timed
`await` may then return early is part of `AwaitTimesOut`.

**Schema.**  A redefinition is three steps: the snapshot and the counter
(`Snapshot`), the reset of the keyword cache (`ResetCache`), the maps and the
layout (`NewLayout`).  An object keeps the number of the definition that gave it
its CLOS slots apart from its stamp, since the two may differ.  A vector that is
not there is "nil" after `make-instance` and "unset" (an unbound slot) after a
constructor or an update of a narrow class; reading the latter is an error, and
an error makes the object `Failed`.  `means` is what the declared renames, hop
by hop, say the object holds; `careful` whether only redefinitions of section 7's
safe kind have met it.  That an instance is obsolete only if the list of its
CLOS slots changes or their order, as when a class crosses the native limit
(`SameLayout`), and that CLOS keeps shared slots and runs initforms of added ones, is
SBCL's part.  An update may go by any keyword, that of an old name included.

## 3. Runs

Passing runs:

| Run | Properties | Shows |
|---|---|---|
| `stm_safety` | `ReadsCurrent`, `ConflictHasCause`, `AtomicTransactions` | transactions are atomic and retry with a cause while watches do not fail |
| `stm_faults` | `NoWaitCycle`, `DosyncEnds` | with failing watches, a moving collector and no retries, commits wait for each other in a circle only if two of them have sorted refs in opposite orders, and every `dosync` commits, fails or gives up unless that happens; it can (section 7) |
| `agent` | `OneWorker`, `InOrderOnce`, `NoLostUpdate`, `AwaitMeansDone`, `NobodyStuck` (`AwaitReturns` and `WorkerDrains`) | one worker, order, no lost update, with errors, restarts and mode changes; `await` returns only when the pending actions are done, and always but for one case: of several awaiters one stays asleep if its wake-up went to another |
| `deque` | `SequenceDeque` | the circular buffer is a sequence, through wrap-around and growth |
| `pool` | `ItemsKept` (`OnePlace`, `WaitedItemExists` and `NoMissedCompletion`), `AwakeWorkerFindsWork`, `WaitReturnsOrStranded` | no item lost, run twice or finished unnoticed; an awake worker's rotation misses no deque; a wait returns, unless all workers sleep or wait beside a queued item |
| `channel` | `FifoOrder`, `RefusedNeverTaken`, `AcceptedNotLost`, `PutSeesSpace`, `PairMeets`, `CloseFreesPutters` | order, capacity and the close for each kind of buffer; what was accepted is held or leaves; what leaves arrives at a single taker that was woken by notifications only; with one putter and one taker nobody is stuck |
| `atom` | `NoLostSwap`, `ValueValid`, `WatchSeesTransitions`, `WatchesExact` | compare-and-swap loops lose nothing |
| `deferred` | `WinnersValue`, `CancelIsFinal`, `DerefReturns` | one deliver wins; cancel against completion; a reader returns |
| `world` | `GuardSound`, `NotedIsOff` | no guard outlives an assumption, and a note turns off every region that assumes its name |
| `transients` | `PersistentKeeps`, `TransientExact`, `NotShared` | a persistent collection never changes, whatever is built from it, a transient is what its calls make it, what is written in place is reached from one transient only |
| `network` | `DeliversInOrder` (`PipelineInOrder`, `SourcesInOrder` and `SubscriberSeesRun`), `ClosedMeansAll`, `UnsubscribedIsQuiet`, `EndReaches`, `AltsReturn` | order, closing, subscriptions without gaps, nothing after `unsub`, the end reaches the consumers, `alts!!` returns when an operation stays possible |
| `schema` | `CacheRight`, `NoForeignValue`, `NothingLost` | careful redefinitions lose no value over several hops, no value comes up under an unrelated name, the keyword cache is right unless a lookup overlaps a redefinition |

The type invariants of `Agent`, `WorkPool`, `Channel`, `Network` and `Schema` are
conjuncts of `OneWorker`, `ItemsKept`, `AcceptedNotLost`, `DeliversInOrder` and
`NothingLost`; those of `Stm`, `Atom`, `Deferred`, `World` and `Schema` are proved (section 6),
as are `PublishesOwnLocks`, `InvalidHasCause` and `StatsExact`.

Every property of a passing run has a mutant: a definition of the model changed
as a slip in the code might (operators marked `Mutant:` beside the definition
they stand for), under which TLC finds the property violated.

Several properties except a case or are promised to a lone waiter only.  That is
a limit of the code, not a choice to make them pass: without the exception TLC
finds a counterexample.  Section 7 lists these limits.

## 4. Bounds

* `Stm`: two threads, two refs, three values of which the validators reject
  one, bodies of two operations, one `dosync` per thread, one retry; threads and
  refs are symmetric (2,260,000 states).  Two refs are needed for a lock cycle and for
  partial commits, two operations for a read followed by a dependent write; a
  retry brings in a second attempt with a fresh transaction.  `stm_faults`
  allows no retry so that giving up happens (88,000 states); the collector may move
  the refs before every sort, which is as good as during one: a sort keyed by the
  addresses of two moments is in no order that two sorts could not give.
* `Agent`: two sends, one restart, two workers (a second worker is what
  `OneWorker` excludes), two awaiters, one of
  them with a timeout.  (With three sends the run also passes, in 424,000 states.)
* `Deque`: a buffer of two slots that may double twice: growth from a wrapped
  window happens at each size.
* `WorkPool`: two workers, two clients, three items, one of them forking: the
  forked item, a client's item and an idle worker can all meet.
* `Channel`: two putters, two takers, one thread that polls and closes; capacity 1
  (2 for sliding and dropping, so that a window can move), four values on the
  fixed buffer and three on the others.  Pairs of one putter and one taker have
  four values.  Each value is put once; takes are unbounded.  Each thread of a
  pair may wake twice without a notification, each of the sliding and dropping
  crowds once: the first wake-up leaves a cell behind, the second a further one.
  The fixed and the unbuffered crowd have none of these, since their several takers
  already leave cells behind (264,000 states).
* `Deferred`: three readers, three deliverers, two cancellers, two values.
* `Atom`: three threads with three calls, which is what it takes to store a
  value back between a swap's read and its compare-and-swap, and to have a watch
  told of one of two swaps.  `MaxValue` bounds the values swapped.
* `World`: two regions that share an assumed name, three names (an operation with
  methods, an inlined helper, a class), two definers, three notes: a note, a
  panic and a registration can fall between any two steps of a load (690,000
  states).
* `Transients`: branch factor 2, so that vectors of 3 and 8 elements sit at the
  boundary of a tail and of a level; keys of which two share a hash, a third the
  first chunk, a fourth nothing; two transient handles, and one persistent handle and
  five calls or two and four: with two the source of an update survives beside its
  result (151,000 states).
* `Network`: nineteen setups with one or two sources, up to three values, two
  workers, buffers of one or two (273,000 states).
* `Schema`: a native limit of 1 in place of 8, so that a class of two slots is wide;
  eight slot lists, in which one slot is renamed `na` to `nb` to `nc`, before or after a
  slot `nx` with an initform, or alone; three definitions, which is what a
  two-hop migration takes; one object, two calls of updates or lookups
  by three keywords (1,950,000 states).  Two objects would share nothing but the class.

`CHECK_DEADLOCK FALSE` is given where a program may really stop: channel and
pool users with nothing left to do, atoms after the last call, definers, holders
of collections and users of objects without another call, networks at their end,
and the `Stm` run with a moving collector, where the deadlock of section 7 is
reachable.

## 5. Fairness

Weak fairness of a thread's own steps, nothing else: the operating system runs
every thread that is not blocked.  No fairness of callers (nobody need call),
of which sleeper a notification picks, or of errors.  For futures it covers
the worker's function, which is taken to end; for `Agent` the actions.  For
`Channel` and promises only calls under way, once woken, are fair.  `Network`
asks less: that some thread other than a client goes on while one can, and some
feeder; its liveness properties need no fairness between the threads of a
network, since all of its waits are on each other.

## 6. Proofs

`StmProofs` proves, for any threads, refs, values, functions and bounds:

* `TypeCorrect`.  `TypeOK` is not inductive: a value comes from a function of
  the call in progress, and phase 6 stores entries of the write-set.
  `CallInv` adds that the call names a ref and a function and that what is left
  to publish has an entry.
* `LocksCoverWrites`.  `PublishesOwnLocks` needs to know where the locks come
  from: `LockInv` says that the refs of all tables are owned by the thread or
  still in `toLock`, and that nothing is left to lock after the lock phase.
  Commuted refs are in the tables from the start, so phase 4 adds none.
* `ValidationSound`.  `ReadInv` relates what the body saw to the version it
  recorded: as long as the recorded version is the current one and nobody is
  between the store of the value and that of the version, the values seen are
  the current one.  Version numbers only grow, and values change only under the
  lock, so a check of versions under the locks suffices (`ValidInv`), although
  `deref` itself takes no lock.
* `Atomicity`: `Spec => AtomicTransactions` if no watch function fails.  The
  refinement mapping `AbsStore` shows the write-set of a commit that has passed
  its validators as already stored.  A transaction takes effect when its
  validators have accepted; the stores that follow map to stuttering.  Without
  the assumption it is false (section 7).
* `DeadlockNeedsOppositeOrders`: `NoWaitCycle`, if the set of refs is finite, whenever
  the collector moves refs.  `OrderInv` says that the addresses a thread has sorted by
  differ, and that what it still has to lock lies above what it holds.  A thread that
  waits for a lock holds only lower ones.  If no two threads of a circle had sorted two
  refs in opposite orders, the one that wants the highest ref would wait for a thread
  that holds it and wants a higher one (`IntervalMax` gives the highest).  So the sort
  is all that keeps commits from deadlocking: enough where objects stay, and not
  where they move (section 7).
* `RetriesHaveCause`: `ConflictHasCause`.  By `CauseInv` a recorded version is behind
  its ref only if a commit was published since the attempt began, or one is half
  published and still holds the ref's lock; validation holds that lock itself, so
  it sees only the first case.

`AtomProofs` proves for any threads, keys, values and number of calls:

* `SwapsCount`.  A swap at its compare-and-swap holds `new = old + 1`
  (`SwapInv`), so that a successful comparison makes the step one of the value
  the atom has.  `ArgsInv` keeps unconditional stores to `reset!`.
* `WatchEditsCount`.  A call that still has the present version of the list has
  the present list (`ListInv`), versions only grow.
* `ValuesAccepted`.  Until `set-validator!` is called, a call that is about to
  store has asked the one validator there is (`ValidInv`).
* `WatchesToldTruly`: `WatchSeesTransitions`, from `ToldInv`: a call that is
  between its compare-and-swap and its watches carries a pair of values that the
  atom has gone through.
* `TypeCorrect`.

`AgentProofs` proves for any number of sends, restarts, workers and awaiters:

* `WorkersAreSerial`: `OneWorker`.  The active flag is set exactly while a worker is
  about to start, runs or has not yet found the queue empty, whichever of send,
  `restart-agent` and the worker's own exit comes first.
* `UpdatesKept` (`NoLostUpdate`) and `ActionsInOrder` (`InOrderOnce`): what has been
  called, what is being called and the queue are together the sends in their
  order, less what a restart cleared.
* `AwaitIsTrue`: `AwaitMeansDone`.

`WorkPoolProofs` proves

* `DequeIsSequence`: for every initial capacity of two or more, the circular buffer
  implements the sequence of `DequeSpec`.  The items are the window from the top
  index to the bottom index modulo the size; growth copies the window to other
  places of a larger array.  The proof needs that no two indices of a window no
  longer than the array fall on the same slot.
* `ItemsNeverLost`: `ItemsKept`, for any numbers of workers, clients and items.
  `PoolInv` says where each item is by the steps of those who hold it (`WorkerShape`,
  `ClientShape`), that no two hold the same one (`Exclusive`), that it was called as
  often as its place says (`RunsCount`), that items submitted by clients and by
  items are at some place (`RootsPlaced`, `ForksPlaced`), and that a completion
  is not announced before it has happened (`NoMissedCompletion`).

`ChannelProofs` proves for any values, buffers, capacities and programs, over any
finite set of threads:

* `AcceptedNeverLost`: `AcceptedNotLost`, for any number of takers and of wake-ups
  without a notification.  An accepted value is in the buffer or has left
  (`AcceptedSeen`), which needs that a put is resolved only by the take of its value
  (`CellsHeld`).  That what leaves arrives is proved for a single taker that has been
  woken by notifications only: an open channel then holds no abandoned cell, and the
  taker sleeps until its cell is filled (`OneTakerSeen`), so a handoff reaches it
  (`OneTakerKeeps`).  Why that is: a notification on `not-empty` is sent only by a
  handoff, or when nobody waits with an empty cell.
* `RefusedStaysOut`: `RefusedNeverTaken`.  What a buffered channel holds or has given
  away was accepted (`HeldAccepted`); a value about to be refused is unanswered and
  of one call only (`PutsOpen`).
* `ChannelIsFifo`: the refinement `FifoOrder`.  The values held are the buffer, or on
  an unbuffered channel the pending puts, of which each putter has at most one
  (`PutsPending`): that is why there is room for another.  A handoff overtakes
  nothing because a take is pending only while there is nothing to take
  (`NothingToTake`).

  The proof first reduces the actions to the stray wake-up and the thirteen effects
  a call can have in a state of the invariant (`EffectsCover`).  By it two branches of `<!!` are never
  taken on such a channel: a pending put is not moved up into a buffer (a put on a
  full buffer is not listed among the pending ones), and a take that wakes to an
  empty cell finds no value (its own cell is still pending).

`DeferredProofs` proves for any threads and values:

* `OneWinner` and `CancelWins`.  The argument is that a state other than pending
  is never left: the worker has something to publish only while the state is
  pending or cancelled (`WorkerInv`), so what a deref returned once is what the
  object holds ever after (`OutcomeInv`), and whoever made the object leave
  pending is the only one (`WinnerInv`, `CancelInv`).
* `TypeCorrect`.

`WorldProofs` proves for any regions, names and definers:

* `GuardsAreSound` and `NotesReachRegions`.  A cell that is still valid must be
  found under each name its region assumes (`ValidIndexed`), although
  `note-redefinition` drops only the entry of the name it is called with; for that
  the index must lead to registered cells only (`IndexInv`), and cells must exist
  exactly from the registration on (`CellInv`).  A change between the compiler's
  look at the method tables and the registration is caught by the second look;
  `EmittedInv` says what the first has established.
* `NothingElseInvalidates`, `CountersAreExact` (the counters equal the numbers of
  cells made and turned off since the last reset; with the theorems on finite
  sets of the library), `TypeCorrect`.

`SchemaProofs` proves for any names, definitions, native limit, objects, readers and
number of redefinitions and calls:

* `CacheSafe`.  `CacheRight` alone is not inductive: a lookup in progress holds a
  pair that it will store.  `CacheInv` adds that such a pair agrees with the present
  map and that nothing is cached between the two steps of `compute-slots`, both
  unless a lookup overlapped the redefinition.
* `SchemaTypes` (`TypeOK`), from `SchemaInv`.  Its parts: the definitions, the index
  map and the keyword map fit each other (`ClassInv`: the index map is that of some
  definition, of the present one if that is wide), an answer in the cache or under
  way to a lookup names a linked slot (`AnswerInv`), and every object has the shape of its layout (`ObjectInv`).
* `NoValueStrays`: `NoForeignValue`, for careful and careless redefinitions alike.
  Every value in a slot is linked to it by the aliases of some definitions
  (`Sound`).  A redefinition only adds links; a migration moves values along the
  aliases it has chased (`ComposedIs`).
* `RenamesRecovered`: `NothingLost`.  While an object sleeps, its values are not where
  the present names say, so the invariant says where the migration will find them
  (`Keeps`): a trace takes every name of each version back to a name of the version
  that the object was built or copied in (`IsTrace`), and what was promised for a
  slot is what the object holds at the end of its trace (`Held`), provided the name
  there is no slot any more (`Follows`).  A slot comes through a redefinition in
  three ways, by staying, being added or being renamed (`KeepsNext`, `AddsNext`,
  `RenamesNext`); the chase of a migration follows the trace (`ComposedTraces`), so the
  migration gives every slot what was promised (`MigratedKeeps`); an update, `dissoc`,
  a copy and the transient forms change what is shown as they change the promise
  (`WriteShows`, `DissocShows`, `CopyShows`, `OwnerShows`).

  The chase is a recursive function over the versions an object slept through.  That
  it exists and where it leads is shown by descending through the set of the
  versions for which it holds: a set of naturals that contains the last version, and
  with each version the one before, contains them all.  (The induction theorems of
  the library quantify over operators, which the provers cannot instantiate; a set
  they can.)

The proofs rest on the named assumptions of the modules, which TLC evaluates, and on
the hypotheses named above, and on nothing else.  One of these is a switch of `Stm`
(`FaultyWatch = {}`, for `Atomicity`); the others say that a program has finitely many
refs and threads.  `FreshItems` of `WorkPool` says that no two submissions push the
same item: `submit-work` makes the item it pushes.

Only model-checked: everything temporal beyond invariants and refinement
(`DosyncEnds`, `NobodyStuck`, `AwakeWorkerFindsWork`, `WaitReturnsOrStranded`,
`PutSeesSpace`, `PairMeets`, `CloseFreesPutters`, `DerefReturns`, `EndReaches`,
`AltsReturn`; liveness is out of the prover's reach); the safety properties of
`Network` (`DeliversInOrder`, `ClosedMeansAll` and `UnsubscribedIsQuiet`), whose streams are
compared with folds over sequences (`SelectSeq`, `FlattenSeq`) that need induction over
data and which has no proof module; and `PersistentKeeps`, `TransientExact` and
`NotShared` of `Transients`, which rests on recursive operators, about which the
prover has no induction.

## 7. Limits of the code

Where the model of the code contradicts what a comment, docstring or message of
the repository says, an instance shows it.  These are not among the runs; to see
one, change the constants as given and check the property named.

| Module, constants | Property | What the code does |
|---|---|---|
| `MCStm`, `stm_faults` | `DeadlockFree` | the lock order is by address, "a stable sort key" (`mutable.lisp:304`), and objects move: two threads sort in opposite orders and wait for each other |
| `Stm`, `stm_safety` with `FaultyWatch = {r1, r2}` | `AtomicTransactions` | a failing watch leaves a transaction half published |
| `MCWorkPool`, `pool` with `Clients = {c1}`, `Items = {i1, i2}`, `Roots <- OneClient`, `Fork <- Flat` | `WaitReturns` | a submission between a worker's scan and its sleep notifies nobody; all workers sleep beside the item, against `mutable.lisp:999`, "Block until WORK-ITEM is complete and return its result." |
| `MCChannel`, `channel` | `OneTakerReceives` | a taker that wakes without a notification registers a second cell and leaves the first in the list (`core-async.lisp:359-365`); the next `>!!` fills the first and answers true ("true if the value was accepted"), the value is lost, and so are all that find the list one cell ahead |
| `MCSchema`, `schema` | `OldNamesReadOnly` | `update-slots` looks its keywords up in the map that has the aliases, so an update under an old name changes the new slot, against `docs/caching/schema-evolution-edge-cases.md:149-153` ("ERROR", "Old slot names are read-only") and 209 |
| `MCChannel`, `channel` with `Setups <- TwoPutters` | `Rendezvous` | a freed slot's wake-up is used by a handoff; a put and a take sleep beside each other |
| `Schema`, `schema` | `CacheRight` without `~overlap` | a lookup that overlaps a redefinition caches the old answer for good, against `persistence.lisp:66`, "a stale entry from a prior schema version can never survive past it" |

Behaviours that a property excepts, or that its instance leaves out, because
the code does not promise more than the property says:

| Property | Limit of the code |
|---|---|
| `ReadsCurrent` | before validation a body may see two values of one ref: no snapshot; and `commute` calls `deref`, so transactions that only commute conflict |
| `AwaitReturns` | one notification for each time the agent goes idle, so of several waiting threads one returns and the others may wait for ever; exactly that (`LeftAsleep`) is excepted, although the docstring of `await` (`mutable.lisp:703-705`) promises the return to every caller |
| `NoWaitCycle`, `DosyncEnds` | opposite orders of the locks, as above |
| `DerefReturns` | one notification, so of several waiting threads one returns |
| `AwaitMeansDone` | after an error in `:fail` mode `await` returns T with actions pending; a timed `await` may return NIL before its time |
| `OneWorker` | a failed agent switched to `:continue` does not go on by itself |
| `AcceptedNotLost` | with several takers, or after a wake-up nobody sent, a value may be stored in a cell its taker has left: its second part (`Received`) is for a single taker that this has not happened to (`TakerUndisturbed`) |
| `PutSeesSpace` | `poll!` frees a slot without a wake-up |
| `CloseFreesPutters` | `close!` does not wake puts blocked on a full buffer |
| `RefusedNeverTaken` | an unbuffered put may return nil although its value is taken |
| `PairMeets` | with several putters the wake-up for a finished put may reach another put; `(chan 0)`, a fixed buffer of no capacity and the default of `merge`, cannot rendezvous |
| `WatchSeesTransitions` | a watch may be told of a transition that `reset!` did not make |
| `ValueValid` | `set-validator!` does not look at the value or at calls under way |
| `WaitReturnsOrStranded` | besides the lost wake-up: as many forking items as workers exhaust the pool |
| `GuardSound` | only operations are looked at again when a region is loaded: an inlined helper, a stack-allocated closure, a class or an inferred summary that is redefined between compilation and load goes unnoticed.  `emit-defclass` notes a class when it is emitted, not when its code runs (`scalar-replacement-design.md:115` says otherwise).  The trust check exempts `assoc` on persistent objects |
| `StatsExact` | a region rejected by the second look is not counted as invalidated |
| `NotedIsOff` | `reset-world` forgets cells and leaves them valid for ever; an inferred summary is cleared as soon as its definition is evaluated |
| `TransientExact` | `assoc-node!` has no case for a bucket of colliding keys: a type error.  `hamt-dissoc!` only checks that a token exists; the token is the thread, not the transient.  After the transfer of an edited transient its new owner gets type errors.  The generic `transfer-ownership!` does nothing, where `tests/test-transients.lisp:104-135` expect an error |
| `PersistentKeeps` | `%vec-t-assoc` checks no bounds under `(safety 0)`; vectors of floats with 33 to 64 elements put a typed leaf in a root slot; a bucket takes keys of any hash (all outside the instances) |
| `EndReaches` | promised for outputs that hold what is left: `merge` with two sources and a buffer of one can hang, its default `(chan 0)` hangs with one source; `pipeline` hangs if sleepers are woken out of order, if a transducer signals in a worker, or if its consumer closes the output while the sequencer sleeps on it; a subscription made after the source's end is never closed; a subscriber that unsubscribes instead of taking waits for the dispatcher that waits for it |
| `PipelineInOrder` | of several results for one value the first is used |
| `AltsReturn` | a closed channel never makes `alts!!` return, so the timeout example of `docs/manual/core-async.md:219` never times out; a put answers its value, not true; the back-off stays 0 |
| `NothingLost` | see below |
| `NoForeignValue` | an overflow slot is a position: if a redefinition gives the position to another slot, that slot shows the value |

A redefinition is *careful* (`LosesNothing` in `Schema`), and then loses nothing, if
no alias is a slot of the same class or is left in the index map of a class that
was wide; a kept slot keeps its place and its alias; a new slot has a name, and in
the vector a place, that was never used; a renamed slot has no initform, and if it
has an alias itself it has just got it.  And no update goes by an old name, which the
documentation calls an error.  Otherwise the code loses values, in crossing the native
limit too, where the same document promises that "correctness is preserved"
(`docs/caching/schema-evolution-edge-cases.md:170`): an alias
that a later definition drops is not there for objects that slept since before it;
one that is kept while its slot is renamed again is chased too far for objects born
with it; a slot that moves across the native limit without an alias is dropped; an
initform of a renamed slot wins over the recovered value.  An object without
`%persistent-vector` (from a constructor, or updated while the class was narrow)
fails when the class becomes wide, one with a short vector when it becomes wider.
An object made or copied between the increment of the counter and the new layout
is stamped with a version it does not have and misses a rename, where
`docs/caching/schema-evolution-edge-cases.md` says that the stamp "cannot become
out-of-sync"; the same document describes a cycle detection for aliases that the
code does not have.

A handoff also bypasses the transducer; `AcceptedNotLost` counts a filtered value
as dealt with either way.

## 8. What is not modelled

* The compiler, the reader and the function libraries: sequential functions
  over unbounded data.  The bootstrap interpreter and vendored code.
* Formatting, names, printing; the generation counter of channels, which
  nothing reads; transducers other than filters, and their error handlers.
* Sorted dictionaries, typed vectors and iterators; inheritance of slots and
  metadata of persistent objects; the result channel of `go`.
* The analyses that decide what a region assumes.
* `suspend` and `resume` of threads, which interrupt a thread anywhere with any
  lock held; the code promises nothing for it.
* Threads that are destroyed in the middle of a commit; transactions inside
  watch functions (they join the commit under way and are lost); sends inside
  transactions, which are dispatched at once and again on a retry.
* The initialisation of the pool: two first submissions at once replace its
  deques and locks under the workers' feet (beside a second initialisation a push
  is a data race).
* Weak memory: slot accesses are taken to be sequentially consistent, as on the
  x86-64 target with SBCL's compare-and-swap as a full barrier.

## 9. Plan

Modelled so far, in the order of the first plan: transactions, agents, pool,
channels, futures, atoms; world state; transients; channel networks; the
versions of persistent objects.  What is left:

1. A proof module for `Network`: `UnsubscribedIsQuiet` first, which needs no fold (the
   dispatcher holds the lock while any channel it will still put on is subscribed),
   then `SourcesInOrder`.
2. Pool initialisation, with generations of the pool's globals, if the code comes
   to promise something for it.
3. Sorted dictionaries as operators beside `HamtOps` and `VecOps`.
