# Verification of the ID1206 laboratory programs

Three C programs live in this repository: a user-level memory allocator
(`seminarium2/`), a user-level thread library (`seminarium 3/`) and a small boot
image (`seminarium1/`); `mymalloc/` holds a first allocator on `sbrk()`. This
directory holds TLA+ models of the first two, TLC configurations that check them
on small instances, and proofs checked by TLAPS about the allocators, the green
threads and the producer-consumer benchmark.

## 1. Inventory

| Part | State it keeps | Operations | Who it interacts with |
|---|---|---|---|
| Coalescing allocator: `seminarium2/final/dlmall.c`, `seminarium2/mergé/dlmall.c` | `arena`; a `struct head` in front of every block (`bfree bsize free size next prev`); `flist` | `init`, `dalloc` (`adjust`, `find`, `split`, `detach`, `insert`), `dfree` (`merge`); read-only: `sanity`, `traverse`, `block_sizes`, `flist_size` | a sequential client: `test.c`, `benchmark.c` |
| Allocators without coalescing: `seminarium2/dlmall.c`, `seminarium2/August/*.c` | the same | the same but `dfree` only inserts | their benchmarks |
| Green threads: `seminarium 3/green.c` | `running`, `readyq`; per thread `context join zombie next`; per mutex `taken suspthreads`; per condition `suspthreads`; the signal mask inside each context | `green_create green_yield green_join green_thread`, `green_mutex_*`, `green_cond_*`, `timer_handler` | the threads, through one processor; the kernel, through `SIGVTALRM` every 100 µs |
| Thread drivers: `test.c test-mutex.c test-cond.c test-final-touch.c` | `flag`, `loop`, `mutex`, `cond` | `main`, `test` | the library |
| Producer-consumer benchmark: `seminarium 3/benchmark.c` | `buffer`; `mutex full empty` for the green threads, `mutexP fullP emptyP` for the POSIX threads | `testGreen` with `produce`, `consume`; `testPthread` with `produceP`, `consumeP` | the library; the POSIX threads, which run at the same time |
| Allocator benchmarks: `final/benchmark.c`, the one inside `mergé/dlmall.c`, `August/benchDlmall.c` | an array of blocks | free a random slot, or fill it; ask for the state of the free list | their allocator |
| `mymalloc/mylloc.c` | the program break | `malloc`, `free` | `sbrk` |
| Boot image: `seminarium1/*.asm` | – | straight-line | – |

What is hard, and the properties that answer it:

* **Allocator.** Nothing runs concurrently. What is hard is that each fact is
  written down twice (a block's size and status also in its successor's header, a link
  also in the neighbour's), and that a copy left stale by one call is read
  several calls later. Correct means: the headers tile the arena and agree
  (`BoundaryTags`), the free list holds exactly the free blocks
  (`FreeListLinked`), no two free blocks touch (`NoAdjacentFree`), no block is
  lost or given twice (`TakenBlocksAreOwned`, `ImplementsBlockStore`), a request
  is refused only when nothing fits (`RefusesOnlyWhenFull`), and each call ends
  (`CallsReturn`). Sizes live in `uint16_t` and `int`, and requests in `size_t`.
* **Allocators that never merge.** Nothing joins what a split has left, and neither
  copy of `find` survives the end of the list: the first one prints through a null
  pointer, August's has no `return` there. Correct means: headers and list agree
  although free blocks may touch (`BoundaryTags`, `ListHoldsFree`), the end is
  reached only when nothing fits (`FailsOnlyWhenFull`), and the `sanity()` with which
  August's benchmark ends finds nothing wrong with what its rounds have left
  (`BenchSanityQuiet`).
* **Green threads.** The timer can switch threads between any two statements of
  user code, and every function that blocks must leave its thread in exactly one
  queue. Correct means: no thread lost or queued twice (`OneHome`), each wakes the one
  that waits for just that (`WaitsWhereItShould`), one owner per mutex
  (`MutualExclusion`, `TakenHasOneOwner`), the order of waiters
  (`ImplementsLock`), nobody starves as long as no thread keeps the timer blocked
  (`LockIsGranted`, `ReadyRuns`), somebody can always run (`NeverDies`), and a freed context is never used
  (`FreedHaveEnded`). `green_yield`, `green_join` and the end of `green_thread` do
  not block the timer: there the lists themselves (`ListsSound`), the variable
  `running` (`RunningRuns`), the thread that waits in `green_join` (`JoinerIsReady`)
  and the program (`NeverStuck`) are at stake.
* **Producer and consumer.** Two threads take turns through one cell, over a
  mutex that does not always exclude. Correct means: no item is overwritten
  or read twice (`NothingOverwritten`), and the second half of the run, which takes
  the buffer as the first has left it, comes to its end (`PosixRunEnds`).

`PROJECT.json` lists the components and, under `hazards`, every place where this
code is hard to test, with the properties that watch it or the reason why none
does.

## 2. Modules

### Allocator

| Module | Contents |
|---|---|
| `Heap` | The arena as a value `[mem, flist]`: `mem` maps a block's address to its header. `Split`, `Detach`, `Insert`, `Merge`, and the parts of `find` and `dfree` that write headers (`TakeWhole`, `TakeTail`, `GiveBack`) are operators on it. |
| `Adjust` | `adjust()`, with C's conversions to `int` and C's remainder. `Version` picks one of the two copies, which differ in one word. |
| `HeapInvariants` | What a well-formed heap is: `Layout`, `Flags`, `Coalesced`, `Linked`. |
| `Dlmall` | The state machine. `dalloc` enters the loop of `find` and looks at one block per step (`FindAdvance`, `FindSplit`, `FindWhole`, `FindNothing`); `init` and `dfree`, which nothing can interrupt, are a step each. `owned` records the client's pointers. |
| `BlockStore` | The abstract promise: disjoint regions, large enough, that stay where they are until they are freed. `Dlmall` implements it with `held` read off the headers. |
| `MCDlmall` | Small arenas, and the code's own checkers `sanity()` and `traverse()` evaluated in every state. |
| `DlmallLazy` | The two allocators that never merge, over the same heap: `copy` picks `seminarium2/dlmall.c` ("base"), under the client of `Dlmall`, or `August/`, under its own benchmark. `process` says how the process ended. Also `adjust()` in its three versions against the least aligned size. |
| `Benchmark` | `benchmark()` round by round over `Dlmall`, with the random choices left open, and what `block_sizes()` reads. |
| `HeapLemmas`, `Walks`, `DlmallProofs`, `DlmallLazyProofs` | The proofs (section 5). |

Addresses are byte offsets. Payload is not modelled, except that a header that
becomes payload leaves the domain of `mem`: an access through a stale pointer is
an access outside the domain, which TLC reports. `NewArena` has null links because
`mmap` returns zeroed pages, and a new header made by `split` has `JUNK` links,
whatever the payload held.

### Green threads

| Module | Contents |
|---|---|
| `Green` | The library. Each function is an action of the running thread up to its `swapcontext()`, and what it does when it runs again is an action of its own, chosen by `at[t]`: `green_cond_wait` is `CondWait`, then `WaitReturns` or `WaitsAgain` and `Wait2Returns`. `Tick` and `TickReturns` are `timer_handler`. A list threaded through `next` is a sequence. The signal mask belongs to the context: `masked[t]`. |
| `GreenClient` | The most general client that keeps the library's rules, with `holds`, the mutexes a thread may believe it has. The properties are here. |
| `GreenLock` | What a mutex promises: one owner, waiters in order. `GreenClient` implements it. |
| `MCGreen` | The small instances. |
| `GreenPreempt` | `green.c` one level below `Green`: `next` pointers, `running` apart from the stack in use (`cpu`), and, in the three functions that leave the timer on, a step for each store to what the threads share and each load that a later step uses. `Windows` names the steps before which it may fire. Shown to implement `Green`. |
| `GreenDriver` | The `main()` of the test programs: create two, join two, return. |
| `FinalTouch`, `TestCond`, `ProducerConsumer` | `test-final-touch.c`, `test-cond.c` and `benchmark.c`, one action per statement that reads or writes what threads share, or calls the library. `ProducerConsumer` goes on with the POSIX half, with POSIX mutexes and conditions as the standard allows: waits may return without a signal, and the mutex goes to whoever asks next. |
| `GreenQueues`, `GreenProofs`, `GreenPreemptProofs`, `ProducerConsumerProofs` | The proofs (section 5). |

`test.c` and `test-mutex.c` only yield, or lock and unlock: `GreenClient` makes
all their calls in every order.

Which lines each definition stands for is in `PROJECT.json` under `map`.

**The timer inside calls.** `green_yield`, `green_join`, `green_create` before
its `sigprocmask`, and the end of `green_thread` do not block the timer. `Green`
lets it fire between calls but not inside these, and `GreenPreempt` opens the
functions up. A name in its `Windows` is a place in a thread's code: `user` between
calls, `walk` before the loop of `enq` in `green_yield`, `wake` before that of
the end of `green_thread`, `link` before the store of `enq`, `pop` before `deq` reads
the head, `take` and `cut` before its two stores, `run` before `running = next`,
`switch` before the context switch, `test` and `note` in `green_join`, `zombie` in
`green_thread`, `free` before the joiner frees the context. One place, one tick: the
loads of a statement are taken together with its store, and the loop of `enq` is one
step, so a tick in the middle of a walk is not modelled.

`green_yield` enters `enq` with `running`, and no tick changes who that is; the end
of `green_thread` enters it with `this->join`, which `green_join` may set
meanwhile. So `walk` and `wake` are two places, and `Exit` loads `join` before `wake`.
The ticks at `user`, `walk`, `test` and `free` fall outside the accesses a call
makes to shared state: with them each function is still the one step that `Green`
makes of it (`ImplementsGreen`), which also justifies the sequences of `Green`.
With any one of the others but the two below it is not; section 4 says what happens
then. Two places remain: `new`, before a thread's first
`sigprocmask` (`green.c:81`), and `swapped`, before a function returns from
`swapcontext`. A tick there moves the thread to the end of the ready queue, which
disturbs no list, but is no step of `Green`, whose threads have left these
places when they can be interrupted; so the refinement is stated without them. The
end of `green_thread`, `green_yield` and `green_join` are therefore right only if the
timer keeps out of the other places, which nothing in the code ensures: the run
`preempt_race` shows the program with the timer in them. A tick
inside the `malloc()` of `green_create` depends on the C library and is not
modelled. Return values of threads, `printf` and stack sizes are left out.

## 3. Runs

| Run | Shows | Instance |
|---|---|---|
| `dlmall` | the allocator is right, between and inside calls, and implements `BlockStore` | arena 192 bytes, headers 24, requests 3, 20, 40 |
| `lazy` | what is left of these promises without merging, that the `sanity()` at the end of August's benchmark is quiet, and that the versions of `adjust` find the least aligned size | arena 192 bytes; requests 3, 20, 40 for base, 3 slots of 3 or 20 bytes for August; `adjust` for 1 .. 800 with `INT` = 192 |
| `green` | queues, mutexes and liveness under the most general client, conditions waited on without a mutex | 3 threads, a mutex, a condition |
| `preempt` | the lists stay lists, who joins a thread that ends is made ready, and each function is a step of `Green`, with the timer at `user`, `walk`, `test` and `free` | 3 threads, 2 mutexes |
| `producer_consumer` | the benchmark's two threads never overwrite or reread an item, no thread is queued twice, and the POSIX half ends | 2 workers, 4 items each |
| `unaligned` (violation) | `final/` grants blocks that its own `sanity()` rejects | request 3 |
| `bench_sizes` (violation) | `block_sizes()` leaves the arena | arena 240 bytes, requests 8, 24, 4 slots |
| `green_forgotten` (violation) | `green_cond_wait` forgets the mutex's other waiters | 3 threads |
| `preempt_race` (violation) | a tick inside `green_yield` and the like ruins the ready queue | 3 threads, a mutex, all windows |
| `final_touch` (violation) | two workers inside the protected section | 2 workers, 3 turns |
| `producer_consumer_assert` (violation) | a lost wake-up ends in the failed assertion of `green_cond_wait` | 2 workers, 4 items each |
| `test_cond` (violation) | a worker spins for ever with the timer blocked | 2 workers, 2 turns |

**Bounds.** The arena of 192 bytes holds up to five blocks, sentinel aside: a
merge with neither, either and both neighbours happens, at either end of the
arena, with the free list empty, of one block and longer, and with the detached
block first, last and in the middle. The requests make both outcomes of the
split test and both roundings happen, and 3 is below the minimum. `WORD` equals the
arena, as in the code, where 64 KiB is 2^16: a wrap would show. In `lazy`, `INT` is
small enough for requests beyond it to wrap, `adjust` is looked at before `init()`
only (it reads no state), and three slots are enough for August's benchmark to use the
arena up, so that its `find` comes to the end of the list and its `sanity()` meets lists
of every shape. `Benchmark` needs an
arena in which the head of the free list can lie near the end with more blocks free.
With three threads a mutex has an owner and two waiters, which is what the order of
waiters and the forgotten ones need; in `preempt` the second mutex lets two queues
of waiters exist beside the ready queue, so that a `next` left behind would
tie them together. Sequences grow no longer than there are threads. The client
creates each thread once and joins it once, as every driver does. Four items let
each side of `ProducerConsumer` meet the buffer full and empty in either order.

**Deadlock.** Checked for the allocator. The green runs set `CHECK_DEADLOCK
FALSE` because a program that has exited, or died, stops; that it dies for
no reason is what `NeverDies`, `NeverStuck` and `AssertionHolds` are for; and so does
`lazy`, where August's benchmark ends, a process can die in `find` (only when nothing
fits: `FailsOnlyWhenFull`), and `sanity()` dies of an empty list.

**Fairness.** `Dlmall` and `DlmallLazy`: weak fairness of the search, since the
process is sequential.
`GreenClient`: weak fairness of `Return`, that is of what a library function does
when its thread has been switched to, since the processor runs on; strong
fairness of each thread's `Interrupt`, since the virtual timer counts on while its
signal is blocked and a pending signal is delivered when it is unblocked, so a
thread that unblocks it again and again is interrupted; and strong fairness of
`UnlockCall`, which is the client's part: a holder that keeps running unlocks. No thread
is made to call anything else: it may stay in its own code for ever, and if the signal
is blocked there (`green.c:81`, `green.c:233`) nobody else runs. That is what
`test-cond.c` does (`test_cond`), so `LockIsGranted` and `ReadyRuns` have the hypothesis
`Preemptible`: a thread that runs in its own code with the signal blocked does not stay there
for ever. Without it both are false.
The drivers add strong fairness of each worker's own steps: a thread that gets
the processor again and again executes its next statement. In `ProducerConsumer`
this covers `main` and the POSIX threads, for which it says that a thread that finds
`mutexP` free again and again gets it in the end; wake-ups without a signal have no
fairness, so `PosixRunEnds` does not rest on them. `GreenPreempt` claims no
liveness and assumes no fairness. Nothing is assumed of
who is chosen to run: that is the ready queue, and it is modelled.

## 4. What the violations say

* `mergé/` and `final/` differ in what `adjust()` returns for a size that needs
  no rounding (`min` or `request`). In `final/` a request of 3 yields a block of 3
  bytes. The heap stays consistent: the theorems below hold for both copies. But
  its sizes are no multiples of 8.
* `block_sizes()` follows the blocks in memory from `flist` on, not the free list, and is
  asked for as many sizes as the list is long: it reports sizes of taken blocks, and
  reads past the arena when `flist` lies near its end.
* `green_cond_wait()` with a mutex is wrong in three ways. It forgets all but one of
  the threads that wait for the mutex. It marks the mutex free although the waiter
  it wakes goes on as its owner. And a thread that finds the mutex taken after a
  signal waits for a second signal that may never come. The second breaks
  mutual exclusion in `test-final-touch.c`; the third ends
  `benchmark.c` in a failed assertion. With its two threads the benchmark still loses
  no item (`producer_consumer`), because each side waits for the other's value.
* Threads start with the timer blocked and stay so until they call a function that
  unblocks it; `green_cond_signal()` returns with it blocked when nobody
  waits. `test-cond.c` then never ends.
* With the timer at any of the places inside the three unprotected functions
  something breaks. One place at a time: `wake` lets a thread start to wait for one
  that has already looked for who waits, so that it is never made ready, and a null
  pointer enters the queue in its place (added to the `Windows` of run `preempt`, it
  breaks `NeverStuck` and `JoinerIsReady`); `link` links a
  thread that is already in the queue, or overwrites a link, and ends in a null pointer;
  `pop`, `take`, `cut` and `run` put the thread into the queue twice, which makes it a
  cycle (`ListsSound`, then an `enq` that never ends: `preempt_race`); `switch` saves one thread's stack in the
  context of another; `zombie` lets the joiner free the context that is still in
  use; `note` lets the thread end before it knows who waits for it, and the joiner is
  lost.

Not among the runs, because no comment or test of the repository speaks of it: when no block is
large enough, `seminarium2/dlmall.c` does not return `NULL` but dies at line 173 (unless
the list was empty to begin with), and August's `find` returns whatever is in the
register. `DlmallLazy` models both as the end of the process, and in its small arena the
benchmark gets there. `benchDlmall.c` as it stands does not: its seed is fixed, and a
simulation of its 10000 rounds leaves some hundred blocks in the list. Other draws
would: with 100 slots in 64 KiB,
filling the empty slots with requests of 8, freeing these, then asking for 16,
which brings the block that is split to the front of the list, leaves a hundred blocks of
8 behind it that nobody looks at again; two dozen repetitions, about 4300 of its
10000 rounds, use up the arena. This is arithmetic with the list's order, not a run, and
no property says that the benchmark is always fed: it depends on the draws.

## 5. Proofs

Every theorem holds for all values of the constants that satisfy the named
assumptions of the modules, under the hypotheses it states.

### Coalescing allocator

`HeapLemmas` has one operation on headers or links at a time, then the compound
steps of `find`, `merge` and `dfree`; `DlmallProofs` has the specification. They hold for
every arena, header size, alignment and set of requests, and for both copies of the
file, from these assumptions:

* `HeapAssumption`: positive header size, alignment and minimum; an arena with
  room for two headers whose size fits a `uint16_t`'s 2^16; null and junk links are
  no addresses. `AdjustAssumption`: the arena and `ALIGN` fit an `int`.
  `RequestAssumption`: requests are positive.
* `SmallRequests`, the hypothesis of the theorems: a request can be rounded up
  inside an `int`. It cannot be dropped: a `size_t` near 2^31 or beyond comes back
  from `adjust` as another number, and the block found is smaller than what was asked
  for. `AdjustIsLeast` stops at `INT - ALIGN` for the same reason.

`BoundaryTags` and the other properties are not inductive: `merge` trusts
`Flags`, `detach` trusts the list, and `find` trusts its cursor. The invariant is

    IInv  ==  WellFormed heap (typing, Layout, Flags, Coalesced, Linked)
              /\ every block free or held, and large enough
              /\ the cursor on the free list,
                 with every block that would do at or behind it

Two parts took thought. A free list that is acyclic and complete is stated by an
order `R` on the free blocks that `next` follows (`ListOrder`), so that `Detach` and
`Insert` are shown to preserve it by giving the new order, with no induction.
And inside `merge` the heap is not well formed: `HeapLemmas` carries a weaker
predicate through the two absorptions, in which one block is allowed to be off the
list. The last conjunct (`SearchLeft`) is what `RefusesOnlyWhenFull` needs: it says
that blocks the cursor has passed were too small.

The refinement of `BlockStore` reads the abstract regions off the headers
(`Payload`). A grant is vacant because blocks of a well laid out arena do not overlap
and the new one was not held (`GrantStep`); a release leaves the other regions alone
because `merge` changes the size of no block in use (`ReleaseRegion`).

| Theorem of `DlmallProofs` | Establishes |
|---|---|
| `Invariance` | `IInv` |
| `TypeCorrect` | `TypeOK`: no `uint16_t` arithmetic wraps |
| `TagsAgree` | `BoundaryTags` |
| `Coalescing` | `NoAdjacentFree` |
| `ListIntact` | `FreeListLinked` |
| `NothingLost` | `TakenBlocksAreOwned` |
| `CursorSafe` | `CursorOnList` |
| `NeverFragmented` | `WholeAgain` |
| `FindIsComplete` | `RefusesOnlyWhenFull` |
| `Implementation` | `ImplementsBlockStore` |

### The walks

`FirstFit`, `SanityQuiet` and `TraverseQuiet` follow the loops of `find`, `sanity` and
`traverse` block by block, and `MCDlmall` writes these walks as functions on `Nat`
defined by recursion (`NextWalk`, `AfterWalk`). `Walks` says what such a function is. The
library's induction theorems cannot be used here, so it starts from the least
element of a set of naturals (well-foundedness of `<`), gets induction for a *set* of
numbers from it (`Induction`), and with that the existence of a function given by its
first value and a step (`IteratesExists`), which is what makes the recursive definition
mean anything. A `Chain` is a set of nodes with a first, a last, a successor and the
order in which it meets them. A walk along it remembers what it has met
(`Walk`: distinct, in order, nothing before the last left out), and by counting it
is at the end after as many steps as there are nodes (`WalkEnds`).

The second half of `DlmallProofs` shows that the free list, by the `R` of `ListOrder` and with null behind
every block, and the blocks of the arena, by their addresses, are chains. For `sanity`
it needs one more invariant: `SpacedInv`, the headers stand on multiples of `ALIGN`
and at least a smallest block apart. Stated of addresses it is trivial for `merge`,
which only removes headers; `split` keeps it because `LIMIT` leaves room for a
smallest block and `adjust` rounds. Its hypothesis

    Rounding  ==  Version = "merge", ALIGN divides HEAD and ARENA,
                  and a smallest block fits the arena

holds of the code in "mergé" (24, 8, 65536); for `final/` the theorem would be false
(`unaligned`).

| Theorem of `DlmallProofs` | Establishes | Hypothesis |
|---|---|---|
| `FindIsFirstFit` | `FirstFit` | `SmallRequests` |
| `TraverseFindsNothing` | `TraverseQuiet` | `SmallRequests` |
| `SanityFindsNothing` | `SanityQuiet` | `SmallRequests`, `Rounding` |

### Allocators that never merge

`DlmallLazyProofs` takes over what does not depend on merging: `Sound` is
`WellFormed` without `Coalesced`, and the lemmas of `HeapLemmas` about taking a whole
block, shrinking one and listing one again are stated for `Sound` heaps. `LazyInv` is
`IInv` without `NoAdjacentFree` and with the block these copies look for (`Meets`).
What is new: `find` marks the successor of the block it has split off as taken only in
its copy of the status, which is right because the successor of a free block that is
split may be free itself (`SplitTailSound`); and for a block that is free the two
versions of `split` do the same (`SplitsAgree`). Both ways to hand out a block come
down to `HandsOut`, from which the invariant and the refinement follow. August's
`sanity()` needs `SpacedInv` again; without merging no header ever goes away, and the two
ways of splitting place the new one as `split` of the other allocators does.

| Theorem of `DlmallLazyProofs` | Establishes | Hypothesis |
|---|---|---|
| `LazyInvariance` | `LazyInv` | `SmallRequests` |
| `LazyTagsAgree` | `BoundaryTags` | `SmallRequests` |
| `LazyListIntact` | `FreeListLinked` | `SmallRequests` |
| `LazyWalkIsComplete` | `ListHoldsFree` | `SmallRequests` |
| `LazyNothingLost` | `TakenBlocksAreOwned` | `SmallRequests` |
| `BenchSanityFindsNothing` | `BenchSanityQuiet` | `SmallRequests`, `Rounding` |
| `LazyFindIsComplete` | `FailsOnlyWhenFull` | `SmallRequests` |
| `LazyImplementation` | `ImplementsBlockStore` | `SmallRequests` |
| `AlwaysAligned` | `AdjustIsAligned` | `Version = "merge"`, `ALIGN` divides `INT` |
| `NothingWasted` | `AdjustIsLeast` | `Version = "merge"`, `MINIMUM <= INT - ALIGN` |

`AlwaysAligned` and `NothingWasted` are arithmetic: a conversion to `int` adds or takes away a multiple of
2^32, and C's remainder, negative or not, takes a number to a multiple. `final/` is
left out because it does not do what they say (`unaligned`). Both extra hypotheses are
true of the code, where `INT` is 2^31 and `ALIGN` and `MINIMUM` are 8.

### Green threads

The proofs in this part are about any number of threads, mutexes and conditions, and
about a timer that strikes between any two calls, as in `Green`.

`QueueInv` says that a thread that has been switched away from is in the one queue
which its own point of the code (`at`, `arg`) names, once, and that the running thread
is in none. It speaks of the library only, and every call and return of the
library keeps it (`QueuesKept`, over `LibraryStep`): it holds under any program, so
`GreenProofs` and `ProducerConsumerProofs` both rest on it.

`GreenProofs` needs nothing else of the client than its rules. `JoinInv` adds that
only Main joins, and that it waits for a thread which has not ended or has noted
it. For what it says of mutexes the client must not wait for a condition with a mutex:

    NoMutexWaits  ==  WaitWith \subseteq {NULL}

Without it the properties are false, as `green_forgotten` and `final_touch` show
(section 4), so the hypothesis is the boundary between what the library keeps and
what it does not. The invariants build on one another: `MutexInv` (a mutex that is taken
has one owner, who is in it or has been handed it; one that is not has neither owner
nor waiters), `HomeInv` (a thread that lives runs, is ready, or waits for a mutex, a
signal or the end of a thread), and `DeathInv` (a program that has failed an assertion
or met a null thread has a thread that waits for a signal). For `NeverDies` one has to
see who can be left when the ready queue is empty: an owner of a mutex is always
ready or running, and Main, who may be joining, waits for a thread that is not.

| Theorem | Module | Establishes | Hypothesis |
|---|---|---|---|
| `QueuesKept` | `GreenQueues` | every step of the library keeps `QueueInv` | |
| `QueuedOnceFollows` | `GreenQueues` | `QueueInv` gives `QueuedOnce` | |
| `TypeCorrect` | `GreenProofs` | `TypeOK` | |
| `NeverQueuedTwice` | `GreenProofs` | `QueuedOnce` | |
| `RightPlace` | `GreenProofs` | `WaitsWhereItShould` | |
| `FreedOnlyWhenEnded` | `GreenProofs` | `FreedHaveEnded` | |
| `MutexesHold` | `GreenProofs` | `MutexInv` | `NoMutexWaits` |
| `Exclusion` | `GreenProofs` | `MutualExclusion` | `NoMutexWaits` |
| `TakenIsOwned` | `GreenProofs` | `TakenHasOneOwner` | `NoMutexWaits` |
| `LocksImplemented` | `GreenProofs` | `ImplementsLock` | `NoMutexWaits` |
| `NoThreadLost` | `GreenProofs` | `OneHome` | `NoMutexWaits` |
| `NobodyLeftBehind` | `GreenProofs` | `NeverDies` | `NoMutexWaits` |
| `BufferHolds` | `ProducerConsumerProofs` | `QueueInv` and `BufferInv` | |
| `QueuedOnceHere` | `ProducerConsumerProofs` | `QueuedOnce` | |
| `NoItemLost` | `ProducerConsumerProofs` | `NothingOverwritten` | |

The benchmark does wait with a mutex, and mutual exclusion is not available to its
proof. `BufferInv` shows why no item is lost all the same: a thread that is about to
set the buffer has seen a value that is fit for it (`Ready`), and a value fit for one is
unfit for the other, so the two are never about to set it at once. The rest of `BufferInv` follows `main`
through its creates and joins, since the POSIX threads, which share the buffer, start only
when both green ones have ended.

### The timer inside calls

`GreenPreemptProofs` is about `GreenPreempt`: any number of threads and mutexes, queues
threaded through `next`, and a timer that strikes inside calls too. Its hypotheses say
where:

    SafeWindows   ==  Windows \subseteq {"user", "new", "walk", "test", "swapped", "free"}
    QuietWindows  ==  Windows \subseteq {"user", "walk", "test", "free"}

`SafeWindows` are all the places but those between the first and the last access of a
call to what threads share; each of the nine that it leaves out breaks something (section
4), so for the invariant it cannot be widened. One of the nine is `wake`: between the
load of `this->join` and the walk at the end of `green_thread` the timer may not strike,
and the theorems say nothing of a program in which it does. `QuietWindows` are those that
`preempt` checks; the refinement needs it because `new` and `swapped` are no steps of
`Green` (section 2).

*Lists.* `Threaded(l, s)` says that the sequences `s` are what the pointers `l` hold:
each head is the first entry, each `next` the following one, null at the end, and no
thread is in two sequences or twice in one. From this and the `Iterates` of `Walks` follows
what the model's walks compute (`ListsAre`): `enq` finds the end, the n-th thread of the
walk is the n-th entry, and, since there are no more entries than threads, no walk is
endless. `EnqLists`, `PopLists`, `CutLists` and `DeqLists` say what each store does to
the sequences: append, or drop the first. From there on the proofs speak of sequences.

*The invariant* `Sound` has six parts. `Typed`; `Errands`, which function has which steps;
`Processor`, that only the thread with the processor is inside the part of a call that
others can see, and that what it keeps in local variables (`item`, `last`, `nxt`, and
`running`) is up to date, which is what a tick at one of the excluded places would
break; `Places`, that the pointers form lists, that each
thread is in the queue in which its step says that it belongs, or runs, or waits in
`green_join` for a thread that has not ended, and that no other has a `next` left
behind; `Joins`, that Main is noted by the thread it waits for until that thread has made it
ready, and that a thread's context is freed only when it has ended; `Locks`, that a mutex
that is taken belongs to a thread that has it or was handed it, and only such a one has
waiters.

*Why somebody can always run.* `deq` meets an empty ready queue only if every thread has
ended or waits (`PopFinds`). A thread that waits for a mutex waits for its owner, and an owner
can run, since it holds nothing when it joins and only one mutex at a time (`HolderRuns`,
`WaiterRuns`); Main, if it joins, waits for a thread that has not ended, and that one
can run or waits for a mutex.

*The refinement.* `view` is what `GreenClient` sees of a state. The steps of a
call before its context switch leave it as it is (`YieldQuiet` and the other lemmas named
so): what they do to the queue, `Ready` takes back. The context switch changes all that the
call changes (`SwitchRefines`). This needs one more invariant, `Trailing`: what a call has
added is still the last of the queue, and Main joins only threads it has not joined before.

| Theorem of `GreenPreemptProofs` | Establishes | Hypothesis |
|---|---|---|
| `PreemptSound` | `PreemptInv` | `SafeWindows` |
| `PreemptJoinerIsReady` | `JoinerIsReady` | `SafeWindows` |
| `PreemptNeverStuck` | `NeverStuck` | `SafeWindows` |
| `PreemptListsSound` | `ListsSound` | `SafeWindows` |
| `PreemptRunningRuns` | `RunningRuns` | `SafeWindows` |
| `PreemptImplements` | `ImplementsGreen` | `QuietWindows` |

### Only model-checked

* Liveness, which needs fairness and `ENABLED`, both out of the provers' reach:
  `CallsReturn`, `SearchEnds`, `LockIsGranted`, `ReadyRuns`, `PosixRunEnds`.

## 6. Not modelled

* `seminarium1/`: straight-line assembly.
* `mymalloc/mylloc.c`: the file does not compile as it stands, its `malloc` is one `sbrk`
  and its `free` does nothing, so there is no state to go wrong.
* What `seminarium2/test.c:135` (an index of `rand() * requested`) and `final/test.c:63`
  (`dfree` of an array nobody has filled) do: addresses outside every object, about
  which nothing in the code says anything. Other than that, the allocators' test
  programs make fixed sequences of the calls that the modelled clients make in any order.
* The timing of the benchmarks and their random generator: the choices are left open.
* `merge()` and `before()` of the copies that never call them.
* `timer_handler()` on a POSIX thread: the timer is still set when `testPthread`
  runs, and the handler then swaps contexts of another kernel thread. Two of them
  in it at once would need the inside of `swapcontext()`.
* The moment inside `swapcontext()` between restoring the signal mask and the registers,
  which belongs to the C library; a tick there acts like one at `switch`.
* `dalloc(0)` and `dfree(NULL)` change nothing, so they are stuttering steps; a second
  `init()`, a double free or a foreign pointer kills the program or is the caller's
  error, and the modelled client commits neither.

## 7. How it came about, and what is left

Written in this order: `Heap`, `Adjust`, `Dlmall` and its proofs; `Green`,
`GreenClient`, `GreenLock`; the drivers; `GreenPreempt`; `DlmallLazy` and `Benchmark`;
the POSIX half of `ProducerConsumer`; the proofs about `GreenClient`,
`ProducerConsumer`, `DlmallLazy`, the refinement of `BlockStore`, the walks and
`GreenPreempt`. Every safety property and every refinement that a run shows to hold is also a
theorem. What could be added:

* a bound on the arena, in terms of the number of slots and of sizes, above which
  August's `find` never comes to the end of the list: with `k` slots and one size the
  blocks split off are at most `k`, and each further size multiplies this by about `k`;
* the loop of `enq` one `next` at a time, with the timer inside it;
* condition variables in `GreenPreempt`, whose functions block the timer and would be a step
  each;
* the inside of `swapcontext()`, and with it the hazards listed without a property.
