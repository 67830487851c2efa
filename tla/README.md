# membridge in TLA+

membridge is a Python extension in Rust that gives processes a named shared
memory segment, and two ways to use one: `MappedView`, bytes under a
reader-writer lock that lives in the segment, and `SpscRingBuffer`, a lock-free
queue between one producer and one consumer.  This directory specifies both, the
codec they share and the segments they live in, on Unix and on Windows; checks the
modules with TLC; and proves the safety of the lock, the queue, the views, the
segments and the codec with TLAPS.  Source paths below are those of the repository
(`src/rwlock.rs` and so on).

## 1. The system

| Part | State | Operations | Talks to |
|------|-------|------------|----------|
| `ShmRwLock` (`src/rwlock.rs`) | one `AtomicI32` in the segment: -1 written, 0 free, n read | `init`, `read_lock`, `read_unlock`, `write_lock`, `write_unlock`, `reader_count`, `is_write_locked`, two RAII guards | every `MappedView` on the segment |
| `MappedView` (`src/mapped_view.rs`) | pointer and size of a mapping; `cursor`, an `AtomicUsize` of the object, not in the segment | `write`, `write_mixed`, `read`, `read_mixed`, `read_range`, `read_all`, `zero`, `seek`, `tell`, queries, `new`, `drop` | the lock, `mixed`, the data area |
| `mixed` (`src/mixed.rs`) | none | `pack_value`, `pack_mixed`, `unpack_one`, `unpack_mixed_counted` | called by views and rings |
| `SpscRingBuffer` (`src/spsc.rs`) | in the segment: `head`, `tail`, `capacity`, the data area | `push`, `pop`, `pop_mixed`, `used`, `free`, `is_empty`, `is_full`, `new` | its peer through the segment |
| `SharedMemory` (`src/shared_memory.rs`) | a platform handle, `is_creator` | `create`, `open`, `remove`, `map`, `spsc` | `PlatformHandle`, makes views and rings |
| `PlatformHandle` (`src/platform/*.rs`) | descriptor or `HANDLE`, the size it believes, the name | `create`, `open`, `remove`, `map`, `unmap` | the kernel |
| `ShmError`, `lib.rs`, stubs, CI | none | | |

What is hard here:

* **Concurrency without a runtime.**  The lock is a compare-and-swap loop
  between processes; the queue has no lock; the cursor of a view is outside
  the view's lock.
* **Death.**  A killed process drops no guard and finishes no frame; the
  segment stays as it was, and another process opens it again.
* **Two locks.**  A thread spins on the segment's lock with the interpreter lock in
  its hand, and a reader may run Python code while it has both.
* **Memory order.**  The queue's two sides share nothing but two counters, whose
  acquire and release are all that orders their accesses to the bytes.
* **Numbers.**  Counters that wrap, a ring exactly full, an area exactly used up,
  lengths read from shared memory.
* **Lifecycle.**  Every handle from `create` is a "creator", `create` succeeds on
  a name that exists, and each `map()`/`spsc()` of a creator re-initialises
  the header.

What makes each part correct:

* lock: a writer is alone, the word always counts the holders, nobody waits for a
  free lock, a dead holder is never overrun;
* view: calls are atomic, reads are never torn, the cursor moves by exactly what a
  successful call transferred and never leaves the area, every call returns;
* queue: messages come out whole, once and in order; the two sides never touch the
  same byte; nothing published is stuck and a full ring accepts again;
* segment: every mapping is backed by its object, and all who share a segment agree on its
  size and on the capacity of the ring in it;
* codec: what is unpacked with the matching schema is what was packed, and what is cut short is refused.

`PROJECT.json` lists the hazards line by line, with the properties that cover
each and the reason where none does yet.

## 2. The modules

```
AbstractRwLock <--refines-- RwLock
      |                       |
      | extends               +--- RwLockRemap            (map() again)
      v                                 |
  MappedView --refines--> AbstractArea  +--- RwLockGil    (interpreter lock) --- MC_RwLockGil
      |  |                                        +----- RwLockProofs
      |  +-- MappedViewProofs
      +----- MC_MappedView

AbstractQueue <--refines-- SpscRing
                              |
                              +--- SpscOrder     (memory order) --- MC_SpscRing
                                        |
                                        +--- SpscObserver  (queries, liveness) --- MC_SpscObserver
                     ModularArithmetic -+- SpscProofs  |
                                              +--------+- SpscObserverProofs

SharedMemory
      +--- Segment (Unix) --- MC_Segment, SegmentProofs
      +--- SegmentWin32   --- MC_SegmentWin32, SegmentWin32Proofs

Mixed (codec) --- MixedStream (a writer and a reader with it) --- MC_MixedStream
                       +--- MixedProofs (and ModularArithmetic)
```

A line is EXTENDS.  `MappedView` stands on the abstract lock and not on the word.

### RwLock (`src/rwlock.rs`)

`state` is the `AtomicI32`.  `pc[t]` says where thread `t` stands, `cur[t]` is
the local `cur` of `read_lock`, `alive[t]` turns false when its process is
killed.  Each atomic access is a step: `ReadLoad` is the load and the test for
a writer, `ReadCas` the compare-exchange that succeeds or starts over,
`WriteCas` the whole loop body of `write_lock`, `ReadUnlock` the `fetch_sub`,
`WriteUnlock` the store of 0.  The guards add nothing but the unlock on drop
(`Unlock`).  The exchanges are the
strong ones, which fail only when the word differs.  All accesses are to one
atomic word, for which every memory ordering gives one modification order:
interleaving loses nothing.

`AbstractRwLock` has one variable, who holds the lock how.  `RwLock` refines it
with `hold` read off the program counters: taking effect at the successful
compare-exchange, ending at the unlock.

`RwLockRemap` adds `SharedMemory::map()` on a creator handle, which runs
`MappedView::new` and so `ShmRwLock::init` again: the word becomes 0 whoever is
inside.  `WhileHeld` says whether that may happen while somebody alive holds
the lock.

`RwLockGil` puts the threads into processes and gives each process an interpreter
lock.  No method lets go of it, neither to spin nor to copy; the only way out is
the `__index__` of a count in a schema, which `read_mixed` calls with the read lock
held.  There other threads of the process can get the GIL (`TakeGil`), and the code
itself may call `write` on the view it is reading (`Reenters`), which spins on
itself.  (Reads from there are second holds of the reader, over before it goes on; they are in `MappedView` only.)  A kill takes all threads of a process.  A free-threaded interpreter is the layout with
every thread in a process of its own.

### SpscRing (`src/spsc.rs`)

`head`, `tail` and `data` are the segment; `p...` and `c...` the locals of `push`
and of `pop`.  Every shared access is a step, each copied byte included, so the
other side may run in the middle of a length prefix.  `pop` and `pop_mixed` differ
only in how they decode the payload after `head` has moved (`PopReturn`).  The
counters live modulo `UsizeMod`, a scaled 2^64, and wrap within the runs.
`ProducerCrash` and `ConsumerCrash` kill a process anywhere and put a new one in its
place, which opens the segment and starts from the counters it finds, as
`SharedMemory::open` does.  `sent`, `consumed` and `marks` are history.

`AbstractQueue` is a bounded FIFO of whole messages.  The ring refines it: a push
takes effect at its store of `tail`, a pop at its store of `head`.

`SpscOrder` replaces the loads.  `heads` and `tails` are all values that were ever
stored in the counters; a load finds any of them that is not older than what the
role has seen before.  A byte carries the number of the counter store that comes
after its last write (`wstamp`) and after its last read (`rstamp`); a role may touch
it if its acquire loads have reached that store, provided that the store was a
release.  `HeadLoad`, `TailStore` and so on are the `Ordering` arguments of the code.
Plain and sequentially consistent interleavings are the special case in which every
load finds the last value.

`SpscObserver` adds the queries to `SpscOrder`: two loads each, asked by one of the two sides, and
what `used` answered; and the fairness of the two loops in `examples/`.  A query's load of the
other side's counter may find an old value, like a load of `push` or `pop`, and later loads of
the same role find nothing older (`pseen`, `cseen`).

### MappedView (`src/mapped_view.rs`, and what `src/mixed.rs` does to its reads)

`area` is the data area, `cursor[v]` the `AtomicUsize` of a view, `call[t]` the
locals of the call that `t` is in.  It extends `AbstractRwLock`, which is what
`RwLock` was shown to implement.  A call is one step up to the lock (checks and
position), then the lock, then a step per byte, then the cursor's `fetch_add`,
then the drop of the guard.  `Calls` is the call itself, `Begins` the methods, `Runs`
the rest.  A `Thread` of this module is one flow of calls: those of a thread, or those of the Python code
that a count of a thread's `read_mixed` runs through `__index__` (`Within`).  Such code runs under the read
lock, between the load of the cursor and its `fetch_add` (`CallsPython` to `PythonReturns` or `PythonRaises`), may
make any calls itself, and may raise.  A read is driven by the fields of a schema: a number of some width, a
length prefix followed by the string it announces, or a tag that `unpack_one`
refuses.  The announced length comes out of the bytes that were read (`LastNumber`),
as in the code.  `read` checks nothing and takes `data_size - pos` bytes under the
lock; with `pos` beyond the end that is an underflow and what follows is
undefined (`ReadBeyondEnd` ends in `"undefined"`, with nothing after it).  A read
that fails returns through `?`, which drops the guard and skips the `fetch_add`
(`ReadFails`).

`AbstractArea` is a file read and written in one piece, with a position per view
(`AbsSpec`), or the file alone (`MemSpec`).  The mapping makes a write take effect when it
gets the lock and a read when its last byte is there.

### SharedMemory, Segment, SegmentWin32 (`src/shared_memory.rs`, `src/platform/*.rs`)

`SharedMemory` has what both platforms share.  One name; `link` is the object it leads
to.  A handle, a view and a ring come and go independently; `lost` holds the
mappings that nothing in a process refers to: those of a `map` or `spsc` that fails after
the kernel has mapped, and those of rings, which have no `Drop`.  Of the contents only
the ring's capacity field is kept (`cap`).  A caller may hold several handles in Python;
here each process has at most one of each kind, and other processes stand for the others.

In `Segment`, `create` and `open` are two kernel calls each, so another process may open
between the creator's `shm_open` and `ftruncate` (and cache size 0), or remove the name
in between.  `create` takes an existing object, as the code has no `O_EXCL`.  Kernel
calls may fail, and a process may end anywhere (`Exit`), after which another one takes its
place.  `asked` records what the first creator of an object asked for, so that the
assumption "those who share a segment ask for one size" (`AgreedSize`) can be made or dropped.

In `SegmentWin32`, `create` and `open` are one kernel call each; a handle has the size its
caller passed, whatever the object's is; `MapViewOfFile` grants what fits the object's
pages; `remove` does nothing.  An object lives as long as something in some process is on it, and once
no handle is left the kernel may drop the name (`NameDropped`) or not.

### Mixed and MixedStream (`src/mixed.rs`, and `src/mapped_view.rs` as its caller)

`Mixed` is pure: `PackValue` tries the types in the code's order, with `bool` a
subclass of `int`; `PackMixed` puts one value after another, and refuses a list with a value that it
refuses; `UnpackOne` and `UnpackMixed` are the two unpackers, written apart as in the code, each with its
own table of tags and its own checks.  The loops of `unpack_mixed_counted` are recursive functions over the
rounds (`read` in `UnpackEntry`, `entries` in `UnpackMixed`), in which a round that failed is the last one that does
anything.  Bytes are digits of a base, words and longs have a number of them (`Span[w]`: how many numbers have
`w` digits), the arithmetic is the code's.  `PyValue` is what a program can hand over: a value of any type with
any contents, except that a string is shorter than its prefix can count (4 GiB) and, being UTF-8, has no byte that
UTF-8 never has.  `MixedStream` has a writer (`write`, `write_mixed`) and a reader
(`read` with a tag, `read_mixed` with a schema) on one area that held other bytes
before, each cutting the stream of values into calls of its own choice.

## 3. What is checked

| Run | Question | Result |
|-----|----------|--------|
| `rwlock` | Is the lock a lock, whoever is killed when, and does somebody get in? | holds |
| `rwlock_recovery` | With interpreter locks and Python code under the read lock: does every holder leave, does the deadlock that such code can make last, and does mapping a creator handle again free a lock that a killed holder left? | holds, unless the Python code is stuck; and if nobody alive is inside |
| `rwlock_remap_held` | And mapping it while somebody is inside? | **violated**: two writers |
| `spsc_ring` | With counters as stale as their orderings allow: does the ring hand over messages whole and in order, keep both sides apart, and order their accesses? | holds |
| `spsc_queries` | With queries answered from old counters too: is what a query said still true when it is used; is what was published consumed, and does a full ring accept again? | holds, for the side that asked |
| `mapped_view` | Is each call atomic, with the cursor a file position, one view per thread and one for the Python code of a count, and does every call, failing or not, return and give the lock back? | holds |
| `mapped_view_race` | With a shared view, are at least the bytes right? | holds |
| `mapped_view_shared` | With a shared view, do reads stay in the area? | **violated** |
| `segment` | Unix, one size per segment: is every mapping backed, and do all sides agree on sizes and capacity? | holds |
| `segment_panic` | Do `map` and `spsc` raise the documented errors only? | **violated**: they panic on size 0 |
| `segment_win32` | Windows, creators and openers with any size: does the capacity of a ring stay within its segment's pages, and does a name in use lead everybody to one segment? | holds, while handles are kept |
| `mixed` | Does every value come back, from whatever calls, and do the two unpackers agree? | holds |

### Bounds

* Lock: three threads.  A reader between load and exchange, a second one that
  changes the word meanwhile, and a writer are all it takes to reach each branch; `MaxI32 = 3`
  lets the reader count reach its top.  There is no bound on the number of lock calls.
  `rwlock_recovery` has two of the threads in one process, or each in its own; one of
  them may read with a count that is Python code.
* Ring: 16 bytes with counters modulo 32.  Three pushes of frames between 4 and 16 bytes
  wrap the data area within a prefix and within a payload, wrap the counters, and fill
  the ring exactly; a payload of 13 can never fit.  The queries and the liveness use
  8 bytes modulo 16, where two empty messages fill the ring, and two pushes, so that the second
  one can be refused, succeed, or be asked about in between.  `MaxPushes` is the length of
  the history; the code has no other unbounded state.  `MaxCrashes = 1` kills either
  side once, at any step.  Deadlock is checked: the consumer can always poll.
* View: three bytes and a length prefix of one byte (four in the code).  The payloads
  end in the middle or, written at offset 1, exactly at the end, and are a byte that, read as a prefix, asks
  for more than there is.  `mapped_view` has three flows: two threads, and the Python code of the first one's
  counts.  Three calls make two threads overlap with that code in the middle, or two overlap and a third
  call see what they left.  Any process may be killed in any call.  Deadlock is not checked there: the calls
  come to an end, and all threads may be dead.
* Segment: two processes (interchangeable, hence the symmetry) and two objects, so that a name can
  lead to a second one while the first is still mapped.  Sizes 1, 4 and 5 over
  headers of 1 and 2 bytes: too small for a lock, a ring of two bytes, and a data area
  that is no power of two.  `MaxLost = 2` mappings without an owner in a process are enough for one that
  is older than the other.  On Windows sizes 1, 3 and 4 with pages of 2 bytes: 3 and 4 share
  their last page, so that a creator of 4 can put its capacity into a segment of 3, and neither fits a segment of 1; there a process has a view or a ring, not
  both (`Unmapped`), and one lost mapping.
* Codec: four byte values, words of 2 and longs of 3 bytes in an area of eight: enough for
  every type, both ends of the i64 range and beyond, for strings and lists that end
  exactly at the end, and for a length that does not fit.  A byte of junk asks for more than there is.

### Fairness

* `RwLock`: a live thread inside `read_lock` or `write_lock` keeps executing, and a
  guard is dropped at the end of the call that made it.  Weak fairness per
  thread, nothing about calling the lock.  `SomeoneGetsIn` and `LoneThreadGetsIn` hold
  under that; freedom from starvation does not, because the loops have no queue and a writer
  can see overlapping readers for ever.  That is why it is not stated.
* `RwLockGil`: the same, for a thread that has the GIL of its process; the interpreter passes
  the GIL on to a thread that asks for it again and again (strong fairness of
  `TakeGil`), and the Python code under a read lock comes to its end or to a call
  that never returns.  And somebody maps a creator handle again sooner or
  later, which is a deployment's choice and not the code's.
* `SpscObserver` (`FairObsSpec`): the loops of `examples/spsc_producer.py` and `spsc_consumer.py`, which
  retry a refused push and poll for ever, whatever they ask in between.  Calls run to their end (weak
  fairness); a counter that is loaded again and again is found as it is sooner or later (strong fairness
  of `NewHeadLoaded` and `NewTailLoaded`), which is what coherent memory gives any atomic; pushing and popping go on although a query may come first each time (strong
  fairness).  It is of some push, not of a particular one, so the behaviours in which the
  same message is retried until it is accepted are among those checked.
* `MappedView`: a live thread inside a call keeps executing, and so does Python code of a count, which comes to its end
  unless a call of its own does not (`CallsReturn` names that case; code that loops is excluded, as in `RwLockGil`).

### Disagreements between code and comments

1. `rwlock_remap_held`: `map()` on a creator handle resets the lock word each
   time (`src/mapped_view.rs:343-345`), although `init` "Must be called exactly once ...
   before any reader or writer acquires the lock" (`src/rwlock.rs:59-60`).  One creator
   handle mapped twice is the pattern of `examples/single_process.py`.
2. `mapped_view_shared`: the comment of `unsafe impl Sync` (`src/mapped_view.rs:61-62`)
   says that concurrent access from several threads is safe because "the lock enforces the
   necessary exclusion internally".  The cursor is read before the lock is taken and
   added to after the copy, so two calls can both advance it from one old value, past the end; `read`
   then computes `data_size - pos` unchecked (line 187).  It takes methods of one object that run in
   parallel, as on a free-threaded interpreter; or, with a GIL, a `read_mixed` whose count has an `__index__`
   that uses the same view, where one thread is enough (with `Uses <- OneView` one thread and the code of its
   counts violate `ReadsStayInArea`, `CallsFitArea`, `CursorFollowsCalls` and `ImplementsArea`).  `mapped_view` shows
   that one view per flow is enough to be safe: no two threads share a view, and no `__index__` uses the view that
   it is called from.
3. `segment_panic`: `open` between the two steps of `create` gives a handle of size 0, and
   `NonZeroUsize::new(0).unwrap()` panics (`src/platform/unix.rs:65`), where the documentation of `map`
   names the errors it raises.

More that the models make plain, without a run of its own:

* Creators that do not agree on a size (`AgreedSize = FALSE`) break all four properties of `segment`: the second one
  shrinks the object under the first one's mappings, or its `spsc()` writes a capacity that they do not have.
  On Windows the object keeps its size and what is left is `RingFitsPages`.
* A process in which the Python code of a count writes to the view that is reading, or in which another thread writes
  meanwhile, is deadlocked until it is killed, and nobody in any process writes until then, and after it not before the
  next `map()` (`Deadlocked`, `DeadlockLasts`).
* A `create` whose `ftruncate` fails unlinks a segment that it may not have made (`CreateUnlinks`).
* A ring's mapping is never given back, nor that of a `map` or `spsc` that fails after `mmap` (`lost`).
* The layout comment of `src/spsc.rs:14-24` has the capacity "written once at init, then read-only" and
  the indices "grow monotonically"; every `spsc()` on a creator handle stores 0, 0 and the
  capacity again (`src/spsc.rs:249-256`), whoever is in the ring.
* `read_mixed` "Returns a `list` of `list`" (`src/mapped_view.rs:217`, `src/mixed.rs:207`);
  a count of 1 gives the bare value (`UnpackEntry`).  `write_mixed` takes lists of values, not the
  `(type_tag, values)` tuples of its comment (`src/mapped_view.rs:197`), and there is no tag
  `"str16"` (`src/mapped_view.rs:223`).
* On Windows a view or a ring alone keeps its object but perhaps not its name, so that a later
  `create` makes a second segment (`OneSegmentPerName` speaks of handles only); nobody checks the
  size that `open` is given, and a smaller one makes a mapping shorter than the ring in it.

## 4. What is proved

For every value of the constants that the named assumptions admit.

**`RwLockProofs`**, from `ThreadAssumption` (finitely many threads) and `WidthAssumption` (no
more threads than an `i32` counts).  The word is not told apart from its loaded
copy by mutual exclusion alone, so the inductive invariant `IInv` says in addition that the word counts
the holders (`LockWordCountsHolders`) and that no exchange is tried from a
value that meant a writer (`CasFromReaderCount`): without the latter the exchange -1 to 0
would be possible.  The counting steps need a few facts about cardinality.  From `IInv`:

* `LockTypes`, `LockWordInvariant`: the types, the documented range of the word, and its truth;
* `WriterIsAlone`: mutual exclusion;
* `DeadHolderKeepsLock`: the action property `DeadHolderBlocks`;
* `LockRefinesAbstract`: each step of the lock is a step of `AbstractRwLock` or leaves it alone.

`map()` on a creator handle and the killing of a whole process are further steps that keep `IInv`
(`MapOK`, `KillOK`), the first on the hypothesis `WhileHeld = FALSE` that nobody alive is inside, which
`rwlock_remap_held` shows to be needed.  Steps of `RwLockGil` in the lock's code are steps of
`RwLock` (`GilNextIInv`).  So

* `MapKeepsLock`, `GilKeepsLock`: the word's truth and mutual exclusion survive mapping again,
  killed processes, interpreter locks and Python code under the read lock;
* `DeadlockIsForEver`: `DeadlockLasts`.  It needs an invariant of its own, `GilInv`: a process with live threads has its
  GIL with one of them (`SomebodyHasGil`), and Python code runs in readers only (`CallbacksRead`).  With `IInv` the
  word then counts the reader, the exchange of the spinning writer fails, nobody may map, and nobody else gets the GIL
  (`DeadlockedStep`).

**`MappedViewProofs`**, from `SizeAssumption`, `UsesAssumption`, `CallAssumption` and the
hypothesis `PrivateViews` (no two flows use one view, the Python code that a count runs being a flow of its own; without
it the statements are false, as `mapped_view_shared` shows).  `Parts` splits the invariant in what
is said of the common state and what is said of one thread, and `OtherThread` shows that a
thread's part survives every step of another thread because they share no
cursor.  So each action needs only its own thread's part.  The difficult part is
the read: `FieldsOK` says that a field still to read takes at least a byte and that
when a length prefix is complete its bytes are there to be decoded, and
`FieldsAfterByteOK` that reading a byte keeps it.

* `ReadsAreInArea`: `read` never starts beyond the end;
* `CallsFit`: the type invariant, and what a call checked before it had the lock is true until it
  gives it back;
* `CursorFollows`: the action property `CursorFollowsCalls`;
* `ViewTypes`: the type invariant alone.

In its second half `AtomicInv` needs no `PrivateViews`: the lock is
held as each thread's place in its call says, a thread that writes is alone in the lock,
and what is copied already is where it belongs (`CopiesOK`: a writer's bytes in the area, the
area's bytes in a reader).  `QuietMemory` and `BusyMemory` say what the memory that everybody may think of is
while nobody writes and while somebody does; so a write takes effect at once when it gets
the lock (`WriteLockedMemory`), its last byte changes nothing any more (`WriteByteMemory`),
and a read returns what is there (`ReadEndsMemory`).

* `AreaIsAtomic`: reads and writes of the area are steps of a file, whoever shares views: the sharing that
  `mapped_view_shared` shows to be harmful harms the positions only;
* `CallsAreAtomic`, under `PrivateViews` and with `Parts`: the calls are steps of a file with a
  position per view.

**`SpscProofs`**, over `SpscOrder`, from `CapacityAssumption` (the capacity divides the number of values of a
counter), `PayloadAssumption` (lengths fit the prefix) and `BoundAssumption`.  `marks` are the
positions at which frames start, counters that never wrap; everything is said in
terms of them and carried over to the counters and slots by a few lemmas on remainders
(`SlotOf`, `DistanceOf`, `DifferentSlots`), which rest on **`ModularArithmetic`**.  The
inductive invariant has five parts besides the types.  `CountersOK`: the stored and loaded
counters are the marks of the history, and what was pushed lies at most a capacity
beyond the oldest head the producer may still believe in.  That is
why stale heads are harmless: they only make it more careful.  `DataOK`: between `head`
and `tail`, and behind `tail` as far as the producer has written, the bytes are those of
the frames.  `ProducerOK` and `ConsumerOK`: where a call stands.  `StampsOK`: the last read of
a byte was by the pop of a frame that covers it, its last write by a push that had
room; together with `CountersOK` that gives the race freedom.

* `RingTypes`, `RingIsFifo`, `RingNeverOverfull`, `WriterOutside`, `ReaderInside`: the invariants of
  `spsc_ring`;
* `NoDataRace`: acquire and release on the two counters suffice;
* `RingRefinesQueue`: the ring implements `AbstractQueue`.

**`SpscObserverProofs`**, over `SpscObserver`, from the same assumptions.  A query changes nothing but what
its asker has seen of the other side's counter, and a load of old values keeps `IInv` (`HeadSeen`, `TailSeen`).  To
that, `ObsInv` adds what an answer is a distance of as long as it counts (`AnswerOK`): for the producer, from a head that
is not newer than the newest it has seen to its own tail; for the consumer, from its own head to a tail
that is not newer than the newest it has seen.  Marks only grow, so the room can only have become more than the
producer was told, and the messages more than the consumer was told.

* `QueriesDisturbNothing`, `QueriesRefineQueue`: beside queries the ring keeps its invariant, and implements
  `AbstractQueue`;
* `FreeRoomIsKept`, `EmptyIsDrained`, `MessageIsKept`, `FullRingStaysFull`: the properties of `spsc_queries` that say
  what an answer is good for.

**`SegmentProofs`**, under `AgreedSize`.  An object is empty until its first `ftruncate` and has
the one size that was asked for ever after (`ObjectsOK`), so the size in a handle is 0, which cannot be mapped, or the
object's (`HandlesOK`), hence a mapping is as long as its object (`MappingsOK`).  From that
`SegmentTypes`, `MappingsBacked`, `RingFits`, `ViewsAreEqual` and `CapacityNeverChanges`.

**`SegmentWin32Proofs`**.  Every handle is on the object that the name leads to (`NameKept`), so that a new object
is made only when there is no handle.  From that `Win32Types`, `NameLeadsToOne`
and, because the kernel has let a ring's creator map what it asked for, `CapacityFits`, for any sizes that callers
pass; and `CapacityStays` under `AgreedSize`.

**`MixedProofs`**, over `MixedStream`, from `WidthAssumption` (a byte has at least two values, a prefix at least two
bytes, a long more) and `StreamAssumption` (values are `PyValue`s, schemas have tags that the code knows).  The
provers cannot use the library's induction theorems, which take an operator; induction is over a set of numbers
instead (`NatSetInduction`, from the well-foundedness of `<` on a set), and the recursive functions of the model
exist and compute what their definitions say by `Iteration`.  In the order of the module:

* numbers: what `Digits` writes `Unsigned` reads, and `Signed` if it fits (`IsI64`);
* the two unpackers on any bytes: a round of one and a call of the other agree (`ElementsAgree`), so that two calls
  agree with two entries (`TwoAgree`);
* one value: `Code` is what `pack_value` writes for it, and where a code begins both unpackers read the
  value and move by the code's length (`DecodeElement`, `OneReads`), or refuse if it is cut;
* many: `Places` says where the codes of a sequence of values are in its bytes.  `write` and `write_mixed` write such bytes
  (`CodedValue`, `CodedMixed`), a schema whose tags are those of the next values reads them
  (`SchemaDecodes`), and one that ends beyond the data is refused (`SchemaCut`).

`ReadsWhatWasWritten` alone is not inductive: it does not say what is in the area.  `StreamInv` says it: the bytes up to
the writer's cursor are the codes of the values sent, at some places, and the reader's cursor is the place at which the
next unread value begins.  A write appends places and moves none (`WrittenStep`); a read moves from one place to a later one
(`TakenStep`); the area's older bytes do not matter.

* `StreamIsInOrder`: `StreamInv` always holds;
* `StreamReadsBack`: `ReadsWhatWasWritten`, for every way to cut the stream into calls on either side;
* `StreamRefusesCuts`: `CutIsRefused`;
* `UnpackersAgree`: `OneAgreesWithMixed`.

Only model-checked: liveness, which the prover does not reach (`SomeoneGetsIn`, `LoneThreadGetsIn`, `HoldersLeave`,
`MapRecoversLock`, `PublishedIsConsumed`, `RefusedThenAccepted`, `CallsReturn`).  Every safety property of a passing run is
a theorem.

## 5. What is not modelled, and why

* A segment used as a view and as a ring at once: their headers overlap, and nothing in the code
  supports it.
* The reset of a ring in use by another `spsc()` on a creator handle, as three stores
  in the middle of a push or pop: what was in the ring is lost or read again, and no
  property of the queue survives.  `Segment` has its effect on the capacity.
* For the lock, memory orderings make no difference to the word itself; that
  its acquire and release order the data under it is taken from the way it is used, one
  step per byte between lock and unlock.
* Two segments at a time: nothing connects them.
* Messages and strings of 4 GiB and more, whose prefix is cut to 32 bits: `PayloadAssumption`, `Text` and the bounds leave
  them out.
* Error messages, `__repr__`, type stubs, packaging.

## 6. Plan

What exists, in the order in which it was built: the lock, the queue, the views, the segments on Unix;
then the orderings, the interpreter lock, Windows, the codec, and the proofs of queue, segments
and atomic calls; then those of the queries, the interpreter lock and the codec.

Left, most important first:

1. The views on the concrete lock instead of the abstract one.
2. `SpscReinit`: which properties are left when both sides stop before `spsc()` is called again.
3. `MappedView` and the rings with the codec of `Mixed` in place of field widths.
