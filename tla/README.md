# VitaArc in TLA+

VitaArc runs an Android (ARM, Bionic, JNI, cocos2d-x) game on the PlayStation
Vita.  It loads the game's shared objects, resolves their imports to *bridges*
that re-implement the Android interfaces on the native system, and plays the
part of the Java machine.  This directory models the parts of that program whose
correctness depends on the order in which things happen, and the conversions
whose results are hard to enumerate by hand, checks the models with TLC and
proves the safety of most of them with TLAPS for all values of their constants.

Source paths below are relative to `src/src/`.

## 1. Inventory

| Component (source) | State it keeps | Operations | Hard behaviour | What makes it correct |
|---|---|---|---|---|
| Synchronisation objects (`bridges/libc/sync.c`) | a table of native mutexes and conditions keyed by guest address; `users`, `holds` per entry | lock, try, timed lock, unlock, wait, timed wait, signal, broadcast, init, destroy, range destroy | three-phase calls with the table unlocked in the middle; guest memory reused; cancellation; sliced timed waits | no freed entry is used; counters exact; no wake-up lost |
| Read-write locks (`bridges/libc/rwlock.c`) | the same, `users`, `holds` | read, write, try, unlock, destroy, range destroy | as above, no owner recorded | as above |
| One-time initialisation (`bridges/libc/once.c`) | the guest word, a registry entry, a count of waiters | `pthread_once`, two cleanup handlers | nested initialisers, exits in the initialiser or the wait | once means once; nobody sleeps for ever |
| Threads and attributes (`pthread.c`, `thread_attributes.c`) | attribute objects of the guest | forwarding | - | conversions |
| JNI threads (`bridges/jni/thread.c`) | one runtime lock with a depth per thread, thread records, the destroyer | attach, detach, enter, leave, wait, notify, destroy | the lock is given up around native methods and waits | collection only at a boundary; destruction waits for all |
| JNI heap (`jni/runtime/heap.c`) | objects, marks, monitors | allocate, collect, monitor enter and exit | roots spread over frames, globals, pins, native calls, waiters | live objects survive, dead ones go, monitors exact |
| JNI references (`jni/references.c`, `runtime/reference.c`) | frames of local references, global and weak lists | new, delete, push, pop, query | references deleted while a native method runs | a handle never names another object |
| JNI native calls and exceptions (`runtime/native.c`, `native_call.c`, `exception.c`) | a stack of roots, the pending exception | run, throw, clear | nested calls, an exception in the middle | roots balanced |
| Classes, methods, fields, arrays, strings (`jni.c`, `runtime/*.c`) | registries | define, look up, copy | IDs asked for before or after natives are registered | a call reaches the native it means, now and later |
| Application services (`preferences.c`, `cocos.c`, `bitmap.c`) | settings on disk, what was delivered to the game | get, put, save, deliver, draw | failure between temporary file and rename; services that call the game from inside it | the last settings survive; nothing is delivered twice |
| Audio feed (`bridges/audio/feed.c`, `stream.c`) | a ring of decoded blocks, a worker, a command cell | open, seek, start, read, park, reopen, close | decoder used with no lock; failed seeks; last close | samples in order; a seek is atomic; callers are answered |
| Music and mixer (`bgm.c`, `mixer.c`) | channels, the idle feed | load, play, pause, seek, unload, render | the channel is changed while the feed works | channel and feed agree |
| Sound effects (`sfx.c`) | assets, voices, events | preload, unload, play, stop, render | slots reused, voices stolen | a voice plays its own asset |
| Decoders and output (`mp3*.c`, `wav.c`, `provider.c`, `backend.c`, `common.c`) | file position, seek marks | open, decode, seek | limits, damaged input | seeking equals decoding from the start |
| Assets (`bridges/android/*.c`) | listings of asset folders, least recently used first | exists, clear | listing outside the lock | answers agree with the disk |
| Memory (`libc/memory.c`) | table of mappings, a flag per page | mmap, munmap, mremap | partial unmap, table published after creation | mappings disjoint |
| Files (`libc/file*.c`, `directory.c`, `poll.c`, ...) | flags beside the native descriptor table, positions of directories | open, dup, close, poll, seekdir, rename, fnmatch | a number reused while the descriptor is in use; crash or failure between two renames | handles live as long as their users; no file is lost |
| Process services (`libc/cxx.c`, ...) | list of exit callbacks | register, finalise | callbacks that register or finalise | each runs once |
| Loader and patcher (`loader.c`, `loader/*.c`, `patcher.c`, `init.c`) | loaded libraries, blocks, reference counts | validate, map, relocate, bind, initialise, clone, free | damaged images; objects in use when an image goes; an unload put off and tried again | accepted images stay in their blocks; nothing of an unmapped image is referenced |
| OpenGL (`bridges/opengl/*.c`) | virtual buffer names, retired buffers | gen, bind, delete, attach | deletion deferred by vertex arrays | a name means one buffer |
| cocos2d-x (`bridges/cocos2dx/*.c`) | a hook, what to free after the destructors | patch, configure, clean up | unknown games, failures, an unload tried again | what is recognised is freed once, the rest left alone |
| Input and loop (`platform/input.c`, `loop.c`, `jni/jni.c`) | the last poll, whether the game is paused | poll, frame, start, stop | failed polls, pauses and exceptions between events | the game is called in an order that makes sense |
| ABI, platform, log | - | forwarding and I/O | - | - |

Interactions.  The loader asks `sync.c` and `rwlock.c` whether an image is still
in use, runs the callbacks of `cxx.c`, and destroys what the tables keep in the
image's address range.  Guest code calls every bridge from any thread.  The JNI
runtime calls guest native methods with its lock given up, and they call back
into it.  `bgm.c` and `mixer.c` share feeds with the feed's own worker by a
reference count.  `cocos.c` drives audio, assets and preferences.

The hazards, each at its line and with the properties that cover it, are listed
under `hazards` in `PROJECT.json`.

## 2. What is modelled

| Module | Code | Role |
|---|---|---|
| `SyncTable` | `bridges/libc/sync.c` | mutex and condition table |
| `SyncTableProofs`, `OnceProofs`, `JniThreadsProofs`, `JniHeapProofs`, `AudioFeedProofs`, `ImageUnloadProofs` | | theorems about the module so named (the last also about `RwLocks`) |
| `CountingLemmas` | | what their proofs share |
| `OnceCell` | `pthread_once` as POSIX promises it | abstract specification |
| `Once` | `bridges/libc/once.c` | implements `OnceCell` |
| `JniThreads` | `bridges/jni/thread.c`, monitors of `runtime/heap.c`, `runtime/native.c` | runtime lock, attachment, monitors, DestroyJavaVM |
| `JniHeap` | `bridges/jni/references.c`, `runtime/reference.c`, `heap.c`, `native.c`, `exception.c`, and what `array.c`, `string.c`, `field.c` do to objects | references, frames, native calls, collector |
| `AudioFeed` | `bridges/audio/feed.c` with its use in `bgm.c` and `mixer.c` | feed, worker, mixer, references |
| `RwLocks` | `bridges/libc/rwlock.c` | read-write lock table |
| `ImageUnload` (extends `RwLocks`) | `loader.c`, `bridges/libc/cxx.c`, ranges of `sync.c`, hooks of `bridges/cocos2dx/cocos2dx.c` | loading, exit callbacks, unloading |
| `ElfLoad` | `loader/validation.c`, `image.c`, `relocation.c`, unwind tables of `loader.c` | what becomes of an image |
| `JniMembers` | `bridges/jni/runtime/class.c`, `method.c`, `native.c` | method IDs, natives, dispatch |
| `CocosApp` | `bridges/jni/jni.c`, `platform/input.c`, `loop.c`, two services of `cocos.c` | calls of the game |
| `GameServices` | `bridges/cocos2dx/*.c` with `init.c` and the unload of `loader.c` | hook, start and teardown of the game |
| `Tracks` | `bridges/audio/bgm.c`, `backend.c`, `provider.c` | channels and who owns a feed |
| `Effects` | `bridges/audio/sfx.c`, `mixer.c` | samples, voices, events, blocks |
| `AudioStreams` | `bridges/audio/mp3.c`, `mp3_index.c`, `mp3_marks.c`, `stream.c` | decoding and seeking |
| `Conversions` | `bridges/jni/descriptor.c`, `native_call.c`, `runtime/string.c`, `opengl/pixel_store.c`, `cocos2dx/texture_size.c` | pure functions and their references |
| `Matching` | `bridges/libc/match.c` | `fnmatch` and what a pattern means |
| `TextLayout` | `bridges/jni/bitmap.c` | placing of glyphs |
| `Descriptors` | `bridges/libc/file.c`, `directory.c`, `poll.c`, `posix.c` | descriptors beside newlib's table |
| `Rename` | `bridges/libc/file/rename.c` | replacing a file through a backup |
| `Preferences` (extends `Rename`) | `bridges/jni/preferences.c` | settings through a second file |
| `GuestMaps` | `bridges/libc/memory.c` | memory mappings |
| `GlBuffers` | `bridges/opengl/buffers.c` | buffer names and vertex arrays |
| `Assets` | `bridges/android/asset_cache.c`, `assetmgr.c` | directory cache, open assets |
| `Services` | instances of the nine modules listed in the row `Services` of section 3 | their composition, with the assumptions about their constants |
| `ServicesInvariants` | | their inductive invariants |
| `ServicesProofs` | | theorems about these nine |
| `MC...` | | small instances for TLC |

The atomic step is everywhere the same: what the code does while it holds the
component's own mutex is one step, and so is one call of a native primitive.
Between such steps any other thread may run.  A call that returns an error
before it changed anything is a stutter.

**SyncTable.**  `word`, `live`, `type`, `users` and `holds` are the guest word
and the fields of `sync_entry_t`; `owner` and `depth` are the state inside the
native mutex, which the code cannot see; `stage`, `op`, `mutex` and `cond` are
the program counter and the entry pointers of the call a thread is in.  `Acquire`
is `__acquire` (find, or create from a static initialiser, and count a user).
Each call is a chain of steps, for instance `LockCall` -> `NativeLock` or
`NativeLockFails` -> `LockFinish`.  `DestroyEntry` and `Rewrite` let the guest
destroy an object and reuse its memory between any two of them.  `SliceExpires`
is one 100 ms slice of a timed wait on a monotonic condition.  `due` is
auxiliary: who was waiting when a broadcast came.

**Once.**  `control` is the guest word, `entry`, `running`, `users` and `waiters`
the registry; `stack[t]` are the initialisers thread `t` is inside, so an
initialiser can call `pthread_once` again (`MayNest`).  `ThreadExits` starts the
unwinding of a thread and `InitializerExited`, `WaiterExited` are the two
cleanup handlers of the code.  The mapping to `OnceCell` reads the phase from
the guest word and the runners from the stacks.

**JniThreads.**  `holder` is the runtime mutex, `depth`, `calls` and `saved` the
fields of `jni_thread_t`.  `Lock` and `Unlock` are `jni_thread_lock` and
`jni_thread_unlock` of the bridge's own services (`__get_service` in `cocos.c`),
which raise the depth but are no call, and use JNI entries in between: `section`
is the depth at which a thread did so.  The entries inside are left at depth two
with no other call active, and collect: what must hold there is that the thread is
in no other *entry* since its last native boundary (`Entries`), since only those
keep raw pointers.  `NativeCall` and `NativeReturn` give the lock up and
take it back around a native method.  `MonitorBlock` and `MonitorRetry` are the
two sides of the wait in `jni_entry_monitor_enter`, `Destroy` and `DestroyRetry`
those of `jni_thread_destroy`, and `Remove` is what leaves with a thread.
`SleepersWait`, a part of `MonitorsExact`, says that a thread asleep for a monitor
sleeps while another thread has it, so no release or exit forgets to wake it.

**JniHeap.**  It starts where `JniThreads` ends: a call from guest code holds the
runtime lock until it leaves and collects, so a call is one step (`Call` and one
of the operations), followed by the steps of the collector, and only native
methods and waits for a monitor let other threads in between.  `ref[h]` is the
reference at address `h`; `frames` are the chains of `jni_frame_t` with the
slots of their blocks, `roots` the operands of `jni_native_roots_t`, `pins` the
list of `jni_pin_t`, `owner` and `waiting` the monitors, `mark` and `gray` the
marks and the mark stack.  An object has one member, a field or an element; the
class objects, which are never freed, are left out.

**AudioFeed.**  The fields keep their names in `audio_feed_t`; the ring of
blocks is the sequence `queue`.  The worker is a program counter over the
sections of `__worker`, `__fill`, `__open`, `__seek` and `__prime`, split
wherever the code gives up the feed mutex to decode.  A block is the positions
where it starts and ends and its number of frames; the decoder is a position in
a file of `Length` frames that wraps when looping and may fail.  The game may ask
for any place up to `MaxTarget`, behind the end too, where the codecs go to the end
and succeed (`Clamped`).  `track` and
`playing` are the channel of `bgm.c`, `Read` is the mixer.

**ImageUnload.**  `lib` are the fields of `dynalib_t`, `exits` the list of
`cxx.c`, `entry` and `mutex` the tables of locks that lie in images, and `stack`
what the main thread is inside of: loads, constructors, callbacks and unloads
nest, since guest code run by any of them may call `dlopen`, `dlclose`,
`__cxa_atexit` and `__cxa_finalize`.  `Free`, `Defer`, `CheckLocks`,
`CheckMutexes`, `Prepare`, `Destruct`, `Finish`, `DestroyLocks`, `Unmap` are the
sections of `loader_free_library` in their order; two guest threads take and
release locks between any two.  `ghost` is history.

**ElfLoad.**  A file is a record of program headers, symbols, relocations and
tables; sizes are counted in bytes of a small address space with pages of 4.
`Check` is the whole of validation, `MapSegment`, `Relocate` and `Bind` its use,
step by step; damaged files are among the inputs.

**JniMembers.**  One name and signature in classes above each other.  `methods`
are the IDs handed out with what they are aliases of, `natives` the bindings;
`GetMethodID`, `Register`, `Unregister` and the three kinds of call come in any
order.

**CocosApp.**  The calls of the game in progress are a stack, since the services
the game uses from inside may call it again.  `guest` is what it has been told.
Polls fail or report any touches and keys; the game throws, or clears, at will.

**GameServices.**  `phase` follows `__boot`, `__stop` and `loader_free_library`.
A game is a choice of what it has and of what the fingerprints recognise.

**Tracks, Effects, AudioStreams.**  Around `AudioFeed`: several threads and
feeds with counts only; samples, voices and a queue of events against the blocks
of the mixer; and one decoder in detail, with frames whose data lies partly in
earlier ones, so that too little history shows.  A block of `Effects` is two steps
under the mutex of the mixer: `Look` reads the position of the main track and starts
what is due, `Consume` reads the track and adds the voices.  In between the feed's
worker may move the track (`Command`, `Land`, `Answer`); the read gets nothing while
it does, or less than a block, or wraps or ends.  While output is suspended the mixer
takes no step.

**Descriptors.**  `fdmap` and `desc` are newlib's table, which is outside but
cannot be left out: `flags` lie beside it.  The two mutexes are `locks`; reads,
`poll` and `fstat` hold references across their native calls: a call has the pairs
`<<fd, d>>` it took, one for a number, and a poll may end before it took them all.
A call that works on the native handle has read it at the start (`uid`), with no
mutex.  For files the reference is enough.  `__seek` of a directory however closes the
handle before it stores the next (`directory.c:346`), and `fstat` (`metadata.c:237`)
does not take the directory mutex: `HandlesUsed` excepts it, and TLC reaches states in
which its handle is another file's.  `FdOpenDir` makes a stream for any directory
number; two numbers of one descriptor have a stream each and move one handle, and a
stream whose handle was moved under it is `Astray`: it counts entries from where it
thinks it is, and only a seek of its own puts that right.  `wanted` is history.

**Rename, Preferences.**  Every native call is a step, may fail, and may be the
last before the program is killed; any other code may make and remove files in
between.  `Preferences` runs whole renames inside its own calls.

**GuestMaps, GlBuffers, Assets.**  The tables with their operations; `view` is
what the guest is owed at each address, `gl` what vitaGL has bound, `Disk` what
is on the drive.

**Conversions, Matching, TextLayout.**  The loops of the code as operators, and
beside each a definition of what it means written from the interface (the
JNI grammar, the procedure call standard, the GL formula, a recursive match).

## 3. What the runs show

| Run | Instance | Shows |
|---|---|---|
| `SyncTable` | 3 threads, 2 words, depth 2 | `NoDanglingEntry`, `CountersExact`, `RealtimeBroadcastReleases`, `HeldObjectSurvives` |
| `SyncTimedWait` | 2 threads, 2 words | **violated**: `BroadcastReleases` (finding 1) |
| `Once` | 3 threads, 2 controls, the first may nest the second | `TableExact` (types, `RunningAgrees`, `CountersExact`), refinement of `OnceCell`, `WaitersReturn` |
| `JniThreads` | 3 threads, 1 monitor | `MonitorsExact`, `HeapOutlivesThreads`, `CollectsAtBoundary`, `DestroyWaits` |
| `JniThreadsLive` | 2 threads, 1 monitor | `DestroyReleasesWaiters`, `DestroyCompletes` |
| `JniHeap` | 2 threads, 2 objects, 2 handles, 2 frames | `NothingDangles`, `HeapExact`, `FramesExact` (with `BoundariesMatch`), `LocalsPrivate` |
| `AudioFeed` | 2 threads, 3 frames, blocks of 2, queue of 2 | `PlaysInOrder`, `RefsExact`, `SeekIsAtomic` |
| `AudioFeedLive` | 1 thread, 2 frames, blocks of 1 | `CallersReturn`, `NeverStalls` |
| `ImageUnload` | 2 guest threads, 2 images, one lock each of a kind, 2 callbacks | `NothingDangles`, `EntriesOutliveUsers`, `OpenMeansWhole`, `CleanedBeforeUnmap` |
| `Machine` | `ElfLoad`, `CocosApp`, `Effects`, `AudioStreams`, `Conversions`, `Matching`, `TextLayout`, one at a time | `ElfLoadsSoundly`, `GameIsCalledSensibly`, `EventsPlayOnce`, `PlaysWhatWasAsked`, `ConversionsExact` |
| `Services` | `GuestMaps`, `GlBuffers`, `Rename`, `Preferences`, `Descriptors`, `Assets`, `JniMembers`, `GameServices`, `Tracks`, one at a time | `MapsAccounted`, `BuffersTracked`, `NothingLost`, `DescriptorsSound`, `AssetsFound`, `CallsReachOverride`, `MeaningKept`, `GameFreedOnce`, `FeedsAccounted` |
| `FeedFailedSeek` | as `AudioFeed` | **violated**: `FailedSeekKeepsPlace` (finding 2) |

`Machine` and `Services` put modules side by side that share no state.  The
variable `about` says which one a behaviour is about; a property says
`about = "..." => ...` of each module it is about.  In `MCMachine` all modules keep
their state in the same variables, `v1`, `v2`, ...  `Services` is for any values of
the constants and is what the proofs are about; there each module has variables of
its own, and the steps of one leave those of the others as they are.  Nothing is
composed by this but the list of runs.  `PlaysWhatWasAsked` has two parts: voices
and events have their samples, and a stream sounds as from its start.

Bounds.  Two words are enough for a mutex and a condition, or two mutexes, to be
confused; three threads for a waiter, a signaller and a destroyer.  The native
recursion limit is 2 so that it is reached.  In `JniThreads` the lock is three deep (an
entry in a service in an entry), native methods nest once, and the monitor's limit
stands for `UINT32_MAX`.  In `JniHeap` two objects can refer to
each other and to themselves, two frames are two threads with one each, or a
native method in or above a frame of its caller, and one pin (counted up to
one), monitor or exception at a time is started besides a thread that waits;
three handles in one thread, three frames, and an array retained twice find
nothing else but take too long for the list, and the proofs of section 4 hold
for every bound.  The audio file has an odd number of frames and the
blocks are of two, so that blocks are full, short and cut by a wrap; the queue
is filled and emptied, and a seek may ask for one place behind the end.  Threads are symmetric in the safety runs, `Services` among them; liveness runs
use no symmetry.  Deadlock is not checked: a guest program may deadlock on its
own mutexes, and every thread may have exited.

`ImageUnload`: an image with hooks and one without, a read-write lock in one and
a mutex in the other, two callbacks that belong to the first, of which one lies in
the second; each image is loaded once and two handles are open.  `ElfLoad`: two segments over
eight pages with every small address, size and offset, good and bad; the
relocations take each kind against each kind of symbol.  `JniMembers`: three
classes above each other, so that a native can appear between an ID and what it
meant.  `CocosApp`: two fingers, one key, three calls inside each other, two
starts.  `Tracks`: two threads, two channels, three feeds, so that one is pushed
out of the idle slot while another is opened.  `Effects`: once two threads and two
samples on two slots and one voice, once one thread, one sample, two events and
blocks of two frames along a track of three, in which that thread also seeks.  `AudioStreams`: seven files, seeks to before, at and behind what the
index covers; a pre-roll of 5 and a reservoir of 3 for 10 and 511.
`Descriptors`: two threads, two numbers, two descriptors, two native handles: a
number is closed, given away and still in use, a directory has the handle it
is moving to, and both numbers of one directory have a stream.  `Rename`: two names and a directory inside; `Preferences`: two
keys, three saves.  `GuestMaps`: four pages, maps of one to three pages at two
offsets.  `GlBuffers`: two names, so that the counter wraps at once, two objects
and two arrays.  `Assets`: three directories, one too big, and two slots.
`Conversions`: all signatures up to 5 symbols, with limits of 4 arguments, 5
slots and 1 dimension for the code's; strings up to 3 units around each change of
length; rows up to 3 by 3 under all alignments; textures around each limit;
patterns up to 3 units (4 with stars) on texts up to 4; lines up to 5 glyphs.

Fairness.  `Once`: the steps of the bridge itself under a mutex that is held for
a few instructions (weak), and the return of guest initialisers (strong, because
they may call once again in between).  `JniThreads`: a runtime entry ends, and a
thread that wants the runtime mutex gets it although others take it again and
again (strong: the native mutex queues its waiters); nothing is assumed of guest
code.  `AudioFeed`: the worker runs whenever it can, and so do guest threads
that are inside a call; the mixer need not run.

Findings.

1. `SyncTimedWait` - `bridges/libc/sync.c:418`.  A timed wait on a monotonic
   condition is a loop of slices.  A thread whose slice has expired is out of
   the native queue but still has to retake the mutex.  A broadcast sent then
   does not reach it, and the loop waits again: the guest does not re-read its
   predicate until the deadline or another pulse.  `src/tests/test_sync.c`
   expects a broadcast to release every waiter.  Conditions on the realtime
   clock are not affected (`RealtimeBroadcastReleases`).
2. `FeedFailedSeek` - `bridges/audio/feed.c:199`.  When a seek fails and the
   return to the previous position fails too, the position the game reads comes
   from the decoder, against `src/.llm/audio-streaming.md`.

## 4. What is proved

Eight modules hold theorems.  Each is about every value of the constants, under
the named assumption of its component only: sets of threads, objects and
libraries are finite where something counts them, the marker values (`NoThread`,
`Nobody`, `"none"`, ...) are not elements of the sets they are added to, and
sizes and limits are natural numbers, where the code divides or waits by them not
zero.  The bounds that keep TLC's runs finite (`MaxEntries`, `MaxFrames`,
`MaxLoads`, `MaxUses`, ...) are constants like the others, so the theorems hold
for any.

| Module | Theorem | Statement |
|---|---|---|
| `SyncTableProofs` | `TypeCorrect` | `Spec => []TypeOK`; no counter goes below zero |
| | `NeverDangling` | `Spec => []NoDanglingEntry` |
| | `CountersAreExact` | `Spec => []CountersExact` |
| | `HeldObjectsSurvive` | `Spec => HeldObjectSurvives` |
| | `BroadcastsReachRealtimeWaiters` | `Spec => []RealtimeBroadcastReleases` |
| `OnceProofs` | `TableStaysExact` | `Spec => []TableExact` |
| | `BridgeImplementsCell` | `Spec => Implements`: the refinement of `OnceCell` |
| `JniThreadsProofs` | `MonitorsStayExact` | `Spec => []MonitorsExact` |
| | `HeapStays` | `Spec => []HeapOutlivesThreads` |
| | `CollectionsAtBoundary` | `Spec => CollectsAtBoundary` |
| | `DestroyWaitsForUsers` | `Spec => DestroyWaits` |
| `JniHeapProofs` | `HandlesSound` | `Spec => []NothingDangles` |
| | `FramesStayExact` | `Spec => []FramesExact` |
| | `LocalsStayPrivate` | `Spec => LocalsPrivate` |
| | `HeapStaysExact` | `Spec => []HeapExact` |
| `AudioFeedProofs` | `ReferencesStayExact` | `Spec => []RefsExact` |
| | `TracksPlayInOrder` | `Spec => []PlaysInOrder` |
| | `SeeksHappenAsAWhole` | `Spec => SeekIsAtomic` |
| `ImageUnloadProofs` | `LocksOutliveUsers` | `RwSpec => []EntriesOutliveUsers` |
| | `LocksOutliveUnloads` | `Spec => []EntriesOutliveUsers` |
| | `NothingRefersToUnmapped` | `Spec => []NothingDangles` |
| | `OpenLibrariesWhole` | `Spec => []OpenMeansWhole` |
| | `UnmapsCleaned` | `Spec => CleanedBeforeUnmap` |
| `ServicesProofs` | `MapsAreAccounted` | `Spec => []MapsAccounted` |
| | `BuffersAreTracked` | `Spec => []BuffersTracked` |
| | `NothingIsLost` | `Spec => []NothingLost` |
| | `AssetsAreFound` | `Spec => []AssetsFound` |
| | `DescriptorsStaySound` | `Spec => []DescriptorsSound` |
| | `CallsReachNatives` | `Spec => []CallsReachOverride` |
| | `IdsKeepMeaning` | `Spec => MeaningKept` |
| | `GameIsFreedOnce` | `Spec => []GameFreedOnce` |
| | `FeedsStayAccounted` | `Spec => []FeedsAccounted` |

So every safety property of the six concurrent components and of the nine services
is proved; the runs show the same on a small instance.  `CountingLemmas` is shared:
how the size of a set moves when one element enters or leaves it (every counter of
this code is the size of a set of threads or handles), induction up to a bound,
stated over a set instead of an operator, and what a recursion computes that goes
up a table of parents.

The assumptions of the services say what the code has by construction:
`MapsAssumption` (a page is not empty), `BuffersAssumption` (there is a name, and
finitely many native handles), `RenameAssumption` (other programs make files under
the names of the guest, not under those of its backups), `SettingsAssumption`,
`AssetsAssumption` (the empty path marks a free slot), `DescriptorsAssumption`,
`MembersAssumption` (a class is not above itself in the table of parents),
`GamesAssumption` (only a shop has a listener of purchases, in a wrapper of its
own) and `TracksAssumption`.  TLC evaluates them with the constants of the run.

Arguments.  None of the properties is inductive as it stands.  In each module
`IInv` is the inductive invariant, there is one lemma per action, and `InitIInv`
and `NextIInv` put them together.

*SyncTable.*  A destroy is harmless only because `users` counts exactly the
threads with a pointer to the entry, and `users` stays exact only while pointers
and stages agree.

    IInv == TypeOK /\ NoDanglingEntry /\ StageArgs /\ OwnersExact /\ CountersExact

`StageArgs` says at which stages a call has which pointer, `OwnersExact` that
free mutexes have depth zero and that a granted lock belongs to the caller.  The
second half of `CountersExact` is a balance, `holds` + locks in flight = `depth`
+ waiters + unlocks in flight, over sets of threads.  `RealtimeBroadcastReleases`
needs `PInv` on top: slices exist on the monotonic clock only, the clock of a
condition does not change while it is used, and a thread a broadcast found is
past the native queue.

*Once.*  `TableExact` speaks of all threads together; the step of one thread needs
that it has a control exactly while it is in a call, and that it is not twice
inside one initialiser (a nested call of the same control fails), so that leaving
it once leaves it.  The refinement is step by step: each action of `Once` is one
of `OnceCell` or a stutter under the mapping.

*JniThreads.*  `ThreadSound` ties the record of a thread (attached or not, depth,
active calls, suspended depths) to where the thread is.  `calls` is the entries
under the lock (`depth`, less one in a service) plus the sum of the suspended depths;
the sum is a function over the rests of the
sequence, with lemmas for a push and a pop.  `SleepersWait` is inductive on top of
it: a step leaves the sleepers alone, wakes them all, or gives a monitor to a thread
that had it.

*JniHeap.*  The classical invariant of marking: what is marked is on the heap, what
is in use is marked once anything is, and an object that left the stack has what
it refers to marked; so when the stack is empty the marked set is closed.  That
nothing else is kept is the dual: the marked objects lie in every closed set that
has the roots.  `Reach` of the model is a recursive function of a number of steps, so
`HeapExact` follows by an induction over a set of numbers.  `InFrames` gives every
local one frame; without it, popping a frame could free the local of another.

*AudioFeed.*  `Owned` accounts for the references.  `Commanded` follows a command from
its caller through the worker, until the queue is primed and the answer given;
`Ordered` is `PlaysInOrder` for the states within a fill, while the queue and the
decoder move apart.

*RwLocks and ImageUnload.*  `RwInv`: `users` is the number of threads inside an
acquisition, and `holds` the number of native holds (counted by tokens, one for
each time a thread has the read lock and one for the writer).  Unloading calls
back into the game, and the proof rests on what the stack of calls looks like
(`Stacked`): a call that works on a library is the outermost call about it, so
while it is innermost nothing else of that library is going on, and what it found
out at one stage still holds at the next (`Fits`).  `Lives` follows the
constructors, destructors, application and services of a library over every
attempt that was put off, `Registered` its callbacks in the list or on the stack,
`Quiet` the entries in its range.  The guard that no other thread uses an object
of a finalised library for the first time, which is an assumption about the game
(head of the module), is what keeps the locks destroyed by the first half of
`bridge_sync_destroy_range` from coming back before the second.

*GuestMaps.*  `MapsInv` says that the blocks of the mappings in the table and of
those a thread is making do not overlap (`Registry`, with `Apart`), that no two
threads are making the same one and that what is being made is still fresh
(`MakingApart`), that the allocated blocks and the open duplicates are exactly theirs,
and that the page under each live address is what `view` owes (`ViewExact`).  Each operation changes the pages of one
span; the lemmas about spans say what an unmap of part of it leaves.  A mapping that
moves is in two places between its native calls.

*GlBuffers.*  A deleted object is kept while a binding or a vertex array refers to
it, and no longer.  `Tracked`: whatever is referred to has a native handle, no two
objects have one (`Distinct`), vitaGL's live handles are exactly those, and what
vitaGL has bound is what the bridge believes (`Agree`).

*Rename and Preferences.*  `RenameInv` says at each stage of a rename where the file
that was there and the new one are, given that any step may fail and other programs
may make and remove files; that at the stages before and after it they are under one
of three names is `NothingLost`.  `SettingsInv` follows the newest saved version and
the one before through a whole save with its rename inside.

*Assets.*  `CacheInv`: a listing in the cache, or found by a thread that has not
published it yet (`ProbeSound`), is the whole directory, and no two slots hold one
path or have one age; `OpenSound` says where an opened asset is.

*Descriptors.*  `CountedIn` counts the references of a descriptor as numbers and
calls in progress; `HandlesIn` gives every open descriptor a native handle of its
own, also while a directory has two; `DirsIn` and `CallsIn` say what a call that
gave up its mutex can rely on, `UsesIn` that the handle a call read for a file is
still the file's; `FlagsIn` ties the flags beside the table to the
number they were set for, although the number may be another file's by then.

*JniMembers.*  `Above` is a recursive function; that it is the least set of classes
that holds the parents of its members follows from `UpsExist` and `UpsLeast`, since
going up ends.  So the classes above one stand in a line, a set of them has a lowest
(`LowestThere`), and the native that is found is that.  `MembersInv`: the IDs of a
class are numbered, so that a new one is new, and an alias is of a method that has a
native and an ID of its own.  `KeepsIds` is the step: no ID is
removed, and what it is an alias of changes only once, from nothing, when its own
class declares no such method.

*GameServices.*  `FreedInOrder` relates what is freed to what the teardown has
set aside and to the listener, by phase, for any part of the game recognised; `HookedWhileRun` when the hook is in place.

*Tracks.*  Who has a feed: `FeedRefs` is the property over all holders; `HeldAlone`
says that a call that opens, publishes or parks one is its only holder, and
`CallsStand` what the other stages have.  From one reference it follows that no
channel and no other call has the feed (`FeedHolders`), which is why `__retire` may
look at the count once and park afterwards.

Only model-checked: the liveness properties (`WaitersReturn`,
`DestroyReleasesWaiters`, `DestroyCompletes`, `CallersReturn`, `NeverStalls`), since
fairness and ENABLED are out of the prover's reach, and the properties of `Machine`.
`Conversions`, `Matching` and `TextLayout` are recursive, and what they compute for
every input is a matter of induction over data; so are the samples of a stream in
`AudioStreams` and the relocated words of an image in `ElfLoad`.  `CocosApp` and
`Effects` are small state machines whose inputs (polls, events of one block) TLC
enumerates; they are not proved for other sizes.

## 5. Plan

1. Proofs of `CocosApp` (`GameIsCalledSensibly`) and `Effects` (`EventsPlayOnce`).
2. `bridges/audio/wav.c` and the glue of `provider.c`; the walk of a tree in
   `libc/walk.c`; the on-disk shader cache.

## 6. Not modelled

Forwarding without state (ABI adapters, locale, errno tables, GL calls, log
output, thread attributes), vendored headers (`elf.h`, `jni/aosp/jni.h`), and
timing as such: a deadline is a step that may happen.  Contents of files, of
primitive arrays and fields, volumes, pixels and the glyphs themselves are data
no property is about.  Undefined behaviour of the guest program (unlocking
another thread's normal mutex, waiting with a recursive mutex held twice) is
excluded by guards named in the modules.

Met while modelling and left to no property:

- `bridges/jni/preferences.c:210` says that readers see the last committed file.
  When both native renames of a replacement fail, or the program is killed
  between them, the next reader finds no file; the committed one is in a backup
  nobody reads (`NothingLost` says it is there).
- `init.c:211` gives the texture hook back although unloading may have been put
  off; a guest thread that still creates a texture would call it
  (`GameFreedOnce` is about the hook only while the game is run).
- `bridges/libc/directory.c:346` closes the handle of a directory before it stores the
  next one, so `fstat` of it in another thread can fail, or describe another file; and
  streams on two numbers of one descriptor count their positions apart although they
  move one handle (`DescriptorsSound` excepts both).
- `bridges/libc/file.c:358` goes to the end and writes in two native calls, so two
  appending descriptors of one file can overwrite each other.
- `bridges/audio/mp3.c:343`: a rewind that fails in the middle leaves a stream
  whose history is unknown; `PlaysAsFromStart` excludes it (`lost`).
- `bridges/android/assetmgr.c:221` takes an error of `readdir` for the end of the
  directory.
