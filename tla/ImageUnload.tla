----------------------------- MODULE ImageUnload -----------------------------
(***************************************************************************)
(* Loading and unloading of native libraries: loader.c, dlopen and dlclose *)
(* of bridges/libc/libc.c, the exit callbacks of bridges/libc/cxx.c, the   *)
(* range operations of bridges/libc/sync.c and rwlock.c, and the hooks     *)
(* that bridges/cocos2dx/cocos2dx.c puts on the game's library.            *)
(*                                                                         *)
(* Unloading calls back into the game: destructors, exit callbacks and the *)
(* hooks run code that may register callbacks, close other libraries and   *)
(* finalise its own.  The loader runs on one thread, whose nested calls    *)
(* are `stack`, innermost first; other threads use the synchronisation     *)
(* objects that lie in the library meanwhile.  The mutexes and conditions  *)
(* of an image are one object each here (SyncTable has their detail).      *)
(*                                                                         *)
(* A thread that still runs the code of a library when it is unmapped has  *)
(* no defined behaviour; what is assumed of the game is that, once the     *)
(* destructors of a library have run, no other thread uses an object of it *)
(* for the first time or registers a callback of it.                       *)
(***************************************************************************)
EXTENDS RwLocks, Sequences
Seqs == INSTANCE SequencesExt

CONSTANTS
  Image,          \* libraries, by name
  HasHooks,       \* those bridge_patch_cocos2dx puts hooks on
  Mutex,          \* mutexes and conditions of the game
  Callback,       \* exit callbacks
  LocksOf, MutexesOf,  \* the objects that lie in each library
  CodeOf, DsoOf,  \* the library a callback lies in, and the one it belongs to
  MaxLibrary,     \* MAX_LIBRARY
  Segments,       \* blocks a library is mapped into
  MaxHandles,     \* bound: handles of a library at once
  MaxLoads,       \* bound: times a library is loaded
  MaxUses         \* bound: locks the threads begin to take

ASSUME LoaderAssumption ==
  /\ IsFiniteSet(Image) /\ "none" \notin Mutex
  /\ MaxLibrary \in Nat \ {0} /\ Segments \in Nat \ {0}
  /\ LocksOf \in [Image -> SUBSET Lock] /\ MutexesOf \in [Image -> SUBSET Mutex]
  /\ CodeOf \in [Callback -> Image] /\ DsoOf \in [Callback -> Image]

VARIABLES
  lib,      \* lib[i]: the dynalib_t of i
  count,    \* __count
  stack,    \* the calls of the loader's thread, innermost first
  exits,    \* __exit_entries
  mutex,    \* mutex[m]: the entry of m, as in RwLocks
  locking,  \* locking[g]: the mutex whose acquisition g is inside
  ghost     \* what has been run, mapped and owned; uses counts the bounds

loaderVars == <<lib, count, exits, ghost>>
mutexVars == <<mutex, locking>>
vars == <<rwVars, lib, count, stack, exits, mutex, locking, ghost>>

NoLibrary == [slot |-> FALSE, refs |-> 0, initialized |-> FALSE, finalized |-> FALSE,
              unloading |-> FALSE, prepare |-> FALSE, finish |-> FALSE,
              image |-> FALSE, blocks |-> 0]

\* An application object and the services handed to it, of a library with hooks.
NoOwned == [application |-> FALSE, services |-> FALSE]

TypeOK ==
  /\ RwTypeOK
  /\ lib \in [Image -> [slot : BOOLEAN, refs : Nat, initialized : BOOLEAN,
                        finalized : BOOLEAN, unloading : BOOLEAN, prepare : BOOLEAN,
                        finish : BOOLEAN, image : BOOLEAN, blocks : 0..Segments]]
  /\ count \in 0..MaxLibrary
  /\ exits \in Seq(Callback)
  /\ mutex \in [Mutex -> [listed : BOOLEAN, users : Nat, holds : Nat]]

Init ==
  /\ RwInit
  /\ lib = [i \in Image |-> NoLibrary]
  /\ count = 0
  /\ stack = <<>>
  /\ exits = <<>>
  /\ mutex = [m \in Mutex |-> NoEntry]
  /\ locking = [g \in Guest |-> "none"]
  /\ ghost = [loads |-> [i \in Image |-> 0], uses |-> 0,
              owned |-> [i \in Image |-> NoOwned],
              started |-> [i \in Image |-> 0], ended |-> [i \in Image |-> 0],
              pending |-> [c \in Callback |-> FALSE]]

-----------------------------------------------------------------------------
Frame(kind, i, at) == [kind |-> kind, of |-> i, at |-> at]
Top == IF stack = <<>> THEN Frame("main", "none", "game") ELSE Head(stack)
At(kind, at) == Top.kind = kind /\ Top.at = at
Goto(at) == stack' = <<[Top EXCEPT !.at = at]>> \o Tail(stack)
Push(frame) == stack' = <<frame>> \o stack
Return == stack' = Tail(stack)

\* The thread is in code of the game: its main loop, or something called back.
InGame == Top.at = "game"
Listed(i) == lib[i].slot
\* Its code can run: it is listed, and not still being loaded.
Usable(i) == Listed(i) /\ ~(At("load", "sections") /\ Top.of = i)
OnStack(i) == \E k \in DOMAIN stack :
  IF stack[k].kind = "callback" THEN CodeOf[stack[k].of] = i ELSE stack[k].of = i

\* loader_load_library of a name that is not loaded.  Every failure before the
\* slot is taken unwinds to nothing; the window is only probed for.
Load(i) ==
  /\ InGame /\ ~Listed(i) /\ ~OnStack(i)
  /\ count < MaxLibrary
  /\ ghost.loads[i] < MaxLoads
  /\ lib' = [lib EXCEPT ![i].image = TRUE, ![i].slot = TRUE]
  /\ count' = count + 1
  /\ ghost' = [ghost EXCEPT !.loads[i] = @ + 1]
  /\ Push(Frame("load", i, "sections"))
  /\ UNCHANGED <<rwVars, mutexVars, exits>>

\* loader_load_sections maps one block more.
LoadSection(i) ==
  /\ At("load", "sections") /\ Top.of = i
  /\ lib[i].blocks < Segments
  /\ lib' = [lib EXCEPT ![i].blocks = @ + 1]
  /\ UNCHANGED <<rwVars, mutexVars, stack, count, exits, ghost>>

\* A block, a relocation, the binding or the patch failed: the slot is given
\* back and everything that was allocated is freed.
LoadFail(i) ==
  /\ At("load", "sections") /\ Top.of = i
  /\ lib' = [lib EXCEPT ![i] = NoLibrary]
  /\ count' = count - 1
  /\ Return
  /\ UNCHANGED <<rwVars, mutexVars, exits, ghost>>

\* Everything is mapped and bound: the caller gets the first handle, and the
\* boot code puts the hooks on the game's library.  Its application will exist.
LoadDone(i) ==
  /\ At("load", "sections") /\ Top.of = i
  /\ lib[i].blocks = Segments
  /\ lib' = [lib EXCEPT ![i].refs = 1, ![i].prepare = i \in HasHooks]
  /\ ghost' = [ghost EXCEPT !.owned[i] = [application |-> i \in HasHooks, services |-> FALSE]]
  /\ Return
  /\ UNCHANGED <<rwVars, mutexVars, count, exits>>

\* loader_clone_handle, through dlopen of a library that is loaded.
Clone(i) ==
  /\ InGame /\ Listed(i) /\ ~lib[i].unloading /\ ~OnStack(i)
  /\ lib[i].refs \in 1..MaxHandles - 1
  /\ lib' = [lib EXCEPT ![i].refs = @ + 1]
  /\ UNCHANGED <<rwVars, mutexVars, stack, count, exits, ghost>>

\* loader_init_library: the constructors run once, as code of the game.
Construct(i) ==
  /\ InGame /\ Listed(i) /\ ~lib[i].unloading /\ ~lib[i].initialized /\ ~OnStack(i)
  /\ ghost' = [ghost EXCEPT !.started[i] = @ + 1]
  /\ Push(Frame("construct", i, "game"))
  /\ UNCHANGED <<rwVars, mutexVars, lib, count, exits>>

ConstructReturn(i) ==
  /\ At("construct", "game") /\ Top.of = i
  /\ lib' = [lib EXCEPT ![i].initialized = TRUE]
  /\ Return
  /\ UNCHANGED <<rwVars, mutexVars, count, exits, ghost>>

-----------------------------------------------------------------------------
\* bridge_cxa_atexit, by any thread.  Each callback is registered once at a time.
Register(c) ==
  /\ \A i \in {CodeOf[c], DsoOf[c]} : Usable(i) /\ ~lib[i].finalized
  /\ ~ghost.pending[c]
  /\ exits' = <<c>> \o exits
  /\ ghost' = [ghost EXCEPT !.pending[c] = TRUE]
  /\ UNCHANGED <<rwVars, mutexVars, stack, lib, count>>

\* bridge_cxa_finalize of one library, as its own fini array calls it.
FinalizeCall(i) ==
  /\ At("unload", "game") /\ Top.of = i
  /\ Push(Frame("finalize", i, "drain"))
  /\ UNCHANGED <<rwVars, mutexVars, loaderVars>>

\* Mutant: the range is compared with the owner of a callback only.
MatchesOwner(c, i, range) == DsoOf[c] = i

\* What __finalize takes: callbacks of the library, and for a range also those
\* whose code lies in it.
Matches(c, i, range) == DsoOf[c] = i \/ (range /\ CodeOf[c] = i)
Draining == At("unload", "drain") \/ At("finalize", "drain")
Due == {k \in DOMAIN exits : Matches(exits[k], Top.of, Top.kind = "unload")}

\* __finalize: the newest match leaves the list, then it is called.
RunCallback ==
  /\ Draining /\ Due # {}
  /\ LET k == CHOOSE k \in Due : \A j \in Due : k <= j IN
     /\ exits' = Seqs!RemoveAt(exits, k)
     /\ Push(Frame("callback", exits[k], "game"))
  /\ UNCHANGED <<rwVars, mutexVars, lib, count, ghost>>

CallbackReturn(c) ==
  /\ At("callback", "game") /\ Top.of = c
  /\ ghost' = [ghost EXCEPT !.pending[c] = FALSE]
  /\ Return
  /\ UNCHANGED <<rwVars, mutexVars, lib, count, exits>>

FinalizeReturn ==
  /\ At("finalize", "drain") /\ Due = {}
  /\ Return
  /\ UNCHANGED <<rwVars, mutexVars, loaderVars>>
-----------------------------------------------------------------------------
\* loader_free_library: only the last handle unloads.  A call for a library that
\* is being unloaded further out finds refs = 0 and returns.
Free(i) ==
  /\ InGame /\ Listed(i) /\ lib[i].refs > 0 /\ ~OnStack(i)
  /\ lib' = [lib EXCEPT ![i].refs = @ - 1]
  /\ IF lib[i].refs > 1 THEN UNCHANGED stack ELSE Push(Frame("unload", i, "check"))
  /\ UNCHANGED <<rwVars, mutexVars, count, exits, ghost>>

\* An unload that is given up keeps one reference, with nobody's name on it.
Defer(i) ==
  /\ lib' = [lib EXCEPT ![i].refs = 1]
  /\ Return

MutexBusy(i) == \E m \in MutexesOf[i] : mutex[m].users > 0 \/ mutex[m].holds > 0

\* bridge_sync_range_busy, in its two sections: first the read-write locks, then
\* the mutexes.  It is asked before the destructors and again after them.
CheckLocks(i) ==
  /\ Top.of = i
  /\ At("unload", "check") \/ At("unload", "recheck")
  /\ IF RangeBusy(LocksOf[i]) THEN Defer(i)
     ELSE Goto(IF Top.at = "check" THEN "checkMutexes" ELSE "recheckMutexes") /\ UNCHANGED lib
  /\ UNCHANGED <<rwVars, mutexVars, count, exits, ghost>>

CheckMutexes(i) ==
  /\ At("unload", "checkMutexes") /\ Top.of = i
  /\ IF MutexBusy(i) THEN Defer(i)
     ELSE Goto("prepare") /\ lib' = [lib EXCEPT ![i].unloading = TRUE]
  /\ UNCHANGED <<rwVars, mutexVars, count, exits, ghost>>

RecheckMutexes(i) ==
  /\ At("unload", "recheckMutexes") /\ Top.of = i
  /\ IF MutexBusy(i) THEN Defer(i) ELSE Goto("locks") /\ UNCHANGED lib
  /\ UNCHANGED <<rwVars, mutexVars, count, exits, ghost>>

\* Mutant: the services are looked at after the application was deleted.
PrepareFailsLate(i) ==
  /\ At("unload", "prepare") /\ Top.of = i
  /\ lib[i].prepare
  /\ lib' = [lib EXCEPT ![i].unloading = FALSE, ![i].refs = 1]
  /\ ghost' = [ghost EXCEPT !.owned[i].application = FALSE]
  /\ Return
  /\ UNCHANGED <<rwVars, mutexVars, count, exits>>

\* __cleanup_cocos fails before it has destroyed anything, when the purchase
\* service is not one it knows or memory is short; the library goes on living.
PrepareFails(i) ==
  /\ At("unload", "prepare") /\ Top.of = i
  /\ lib[i].prepare
  /\ lib' = [lib EXCEPT ![i].unloading = FALSE, ![i].refs = 1]
  /\ Return
  /\ UNCHANGED <<rwVars, mutexVars, count, exits, ghost>>

\* Else it deletes the application and remembers those of its services that it
\* knows how to free.  A library without the hook goes straight on.
Prepare(i) ==
  /\ At("unload", "prepare") /\ Top.of = i
  /\ \E services \in BOOLEAN :
       /\ services => lib[i].prepare
       /\ lib' = [lib EXCEPT ![i].prepare = FALSE, ![i].finish = @ \/ services]
       /\ ghost' = IF lib[i].prepare
            THEN [ghost EXCEPT !.owned[i] = [application |-> FALSE, services |-> services]]
            ELSE ghost
  /\ Goto("destructors")
  /\ UNCHANGED <<rwVars, mutexVars, count, exits>>

\* The destructors, if the constructors have run, as code of the game.
Destruct(i) ==
  /\ At("unload", "destructors") /\ Top.of = i
  /\ IF lib[i].initialized
       THEN Goto("game") /\ ghost' = [ghost EXCEPT !.ended[i] = @ + 1]
       ELSE Goto("drain") /\ UNCHANGED ghost
  /\ UNCHANGED <<rwVars, mutexVars, lib, count, exits>>

DestructReturn(i) ==
  /\ At("unload", "game") /\ Top.of = i
  /\ Goto("drain")
  /\ UNCHANGED <<rwVars, mutexVars, loaderVars>>

\* Mutant: the library still counts as initialised.
FinishInitialized(i) ==
  /\ At("unload", "drain") /\ Top.of = i /\ Due = {}
  /\ lib' = [lib EXCEPT ![i].finish = FALSE, ![i].finalized = TRUE]
  /\ ghost' = IF lib[i].finish THEN [ghost EXCEPT !.owned[i].services = FALSE] ELSE ghost
  /\ Goto("recheck")
  /\ UNCHANGED <<rwVars, mutexVars, count, exits>>

\* No callback of the range is left: the finish hook frees the services it has
\* captured (__cleanup_cocos_services), and the library counts as finalised.
Finish(i) ==
  /\ At("unload", "drain") /\ Top.of = i /\ Due = {}
  /\ lib' = [lib EXCEPT ![i].finish = FALSE, ![i].initialized = FALSE, ![i].finalized = TRUE]
  /\ ghost' = IF lib[i].finish THEN [ghost EXCEPT !.owned[i].services = FALSE] ELSE ghost
  /\ Goto("recheck")
  /\ UNCHANGED <<rwVars, mutexVars, count, exits>>

\* bridge_sync_destroy_range frees the read-write locks ...
DestroyLocks(i) ==
  /\ At("unload", "locks") /\ Top.of = i
  /\ IF RangeBusy(LocksOf[i])
       THEN Defer(i) /\ UNCHANGED rwVars
       ELSE RangeDestroy(LocksOf[i]) /\ Goto("mutexes") /\ UNCHANGED lib
  /\ UNCHANGED <<mutexVars, count, exits, ghost>>

\* ... and may then find a mutex taken, and keep the library without them.
KeepForMutex(i) ==
  /\ At("unload", "mutexes") /\ Top.of = i /\ MutexBusy(i)
  /\ Defer(i)
  /\ UNCHANGED <<rwVars, mutexVars, count, exits, ghost>>

\* Its last section frees the mutexes; the slot, the segments and the image go
\* at once, and a later load brings fresh words.
Unmap(i) ==
  /\ At("unload", "mutexes") /\ Top.of = i /\ ~MutexBusy(i)
  /\ mutex' = [m \in Mutex |-> IF m \in MutexesOf[i] THEN NoEntry ELSE mutex[m]]
  /\ word' = [l \in Lock |-> IF l \in LocksOf[i] THEN "zero" ELSE word[l]]
  /\ lib' = [lib EXCEPT ![i] = NoLibrary]
  /\ count' = count - 1
  /\ ghost' = [ghost EXCEPT !.started[i] = 0, !.ended[i] = 0]
  /\ Return
  /\ UNCHANGED <<entry, reads, writer, wait, locking, exits>>

-----------------------------------------------------------------------------
\* A thread of the game uses an object that lies in mapped memory.
MayUse(homes, used) ==
  /\ ghost.uses < MaxUses
  /\ \A i \in homes : Usable(i) /\ (lib[i].finalized => used)
HomeOfLock(l) == {i \in Image : l \in LocksOf[i]}
HomeOfMutex(m) == {i \in Image : m \in MutexesOf[i]}
Use == ghost' = [ghost EXCEPT !.uses = @ + 1]

GuestLock(g, l, write) ==
  /\ MayUse(HomeOfLock(l), word[l] # "zero") /\ locking[g] = "none"
  /\ AcquireBegin(g, l, write) /\ Use
  /\ UNCHANGED <<mutexVars, stack, lib, count, exits>>

GuestRw(g) ==
  /\ AcquireEnd(g) \/ AcquireFail(g) \/ \E l \in Lock : RwLockUnlock(g, l)
  /\ UNCHANGED <<mutexVars, stack, loaderVars>>

GuestInitDestroy(l) ==
  /\ MayUse(HomeOfLock(l), FALSE)
  /\ RwLockInit(l) \/ RwLockDestroy(l)
  /\ Use
  /\ UNCHANGED <<mutexVars, stack, lib, count, exits>>

GuestMutexBegin(g, m) ==
  /\ MayUse(HomeOfMutex(m), mutex[m].listed) /\ locking[g] = "none" /\ wait[g] = Idle
  /\ mutex' = [mutex EXCEPT ![m].listed = TRUE, ![m].users = @ + 1]
  /\ locking' = [locking EXCEPT ![g] = m]
  /\ Use
  /\ UNCHANGED <<rwVars, stack, lib, count, exits>>

GuestMutexEnd(g) ==
  LET m == locking[g] IN
  /\ m \in Mutex /\ mutex[m].holds = 0
  /\ mutex' = [mutex EXCEPT ![m].users = @ - 1, ![m].holds = 1]
  /\ locking' = [locking EXCEPT ![g] = "none"]
  /\ UNCHANGED <<rwVars, stack, loaderVars>>

GuestMutexUnlock(m) ==
  /\ mutex[m].holds > 0
  /\ mutex' = [mutex EXCEPT ![m].holds = 0]
  /\ UNCHANGED <<rwVars, locking, stack, loaderVars>>

Loading ==
  \/ \E i \in Image : Load(i) \/ LoadSection(i) \/ LoadFail(i) \/ LoadDone(i)
  \/ \E i \in Image : Clone(i) \/ Construct(i) \/ ConstructReturn(i)
  \/ \E c \in Callback : Register(c) \/ CallbackReturn(c)
  \/ RunCallback \/ FinalizeReturn \/ \E i \in Image : FinalizeCall(i)

Unloading ==
  \E i \in Image :
    \/ Free(i) \/ CheckLocks(i) \/ CheckMutexes(i) \/ RecheckMutexes(i) \/ PrepareFails(i)
    \/ Prepare(i)
    \/ Destruct(i) \/ DestructReturn(i) \/ Finish(i) \/ DestroyLocks(i)
    \/ KeepForMutex(i) \/ Unmap(i)

Threads ==
  \/ \E g \in Guest : GuestRw(g) \/ GuestMutexEnd(g)
  \/ \E g \in Guest, l \in Lock, w \in BOOLEAN : GuestLock(g, l, w)
  \/ \E g \in Guest, m \in Mutex : GuestMutexBegin(g, m)
  \/ \E l \in Lock : GuestInitDestroy(l)
  \/ \E m \in Mutex : GuestMutexUnlock(m)

Next == Loading \/ Unloading \/ Threads
Spec == Init /\ [][Next]_vars

-----------------------------------------------------------------------------
\* Nothing refers into a library that is not mapped: no entry of a lock or a
\* mutex, no thread inside or holding one, no callback still to be called, and
\* no call in progress, however often an unload was refused and tried again.
NothingDangles ==
  \A i \in Image : ~Listed(i) =>
     /\ ~OnStack(i)
     /\ \A l \in LocksOf[i] : ~entry[l].listed
     /\ \A m \in MutexesOf[i] : ~mutex[m].listed
     /\ \A g \in Guest : locking[g] \notin MutexesOf[i]
     /\ \A k \in DOMAIN exits : i \notin {CodeOf[exits[k]], DsoOf[exits[k]]}

\* Slots, blocks and images of libraries are accounted for through every failed
\* load and deferred unload, so loading and unloading can go on for ever.
SlotsExact ==
  /\ count = Cardinality({i \in Image : Listed(i)})
  /\ \A i \in Image : lib[i].image \/ lib[i].blocks > 0 => Listed(i)

\* A library dlopen would hand out again is whole: an unload that was refused,
\* by a lock in use or by its hook, has destroyed nothing yet; and the slots of the
\* others can be used, whatever load failed and whatever unload was put off.
OpenMeansWhole ==
  /\ TypeOK /\ SlotsExact
  /\ \A i \in Image : Usable(i) /\ ~lib[i].unloading =>
       /\ ghost.ended[i] = 0 /\ ~lib[i].finalized
       /\ i \in HasHooks => lib[i].prepare /\ ghost.owned[i].application

\* A library is unmapped only when its constructors and destructors have both
\* run, once, its application and services are gone and all its callbacks have
\* returned, although each of these may have happened in an earlier attempt.
CleanedBeforeUnmap ==
  [][\A i \in Image : Usable(i) /\ ~Listed(i)' =>
       /\ ghost.started[i] = ghost.ended[i] /\ ghost.ended[i] <= 1
       /\ ghost.owned[i] = NoOwned
       /\ \A c \in Callback : CodeOf[c] = i => ~ghost.pending[c]]_vars
=============================================================================
