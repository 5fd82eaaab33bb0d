------------------------------ MODULE SyncTable ------------------------------
(***************************************************************************)
(* The guest mutex and condition bridge of src/src/bridges/libc/sync.c.    *)
(*                                                                         *)
(* A Bionic mutex or condition is one 32-bit word of guest memory.  The    *)
(* native object lives in a heap entry of a table keyed by the address of  *)
(* the word and guarded by __sync_mutex.  Every call runs in three phases: *)
(* find or create the entry under the table mutex and count a user, call   *)
(* the native primitive outside the table mutex, and settle the counters   *)
(* under the table mutex.  Between the phases other threads run: destroy,  *)
(* lock, unlock, signal and wait on the same word.                         *)
(*                                                                         *)
(* A call that returns an error before it changed anything is a stutter.   *)
(* The build modelled is the Vita one: a timed wait on a monotonic         *)
(* condition is a loop of bounded native waits.                            *)
(*                                                                         *)
(* Guest obligations assumed (Bionic leaves the rest undefined): only its  *)
(* owner unlocks a normal mutex, and a thread waits with a mutex it owns   *)
(* exactly once.                                                           *)
(***************************************************************************)
EXTENDS Naturals, FiniteSets

CONSTANTS
  Threads,    (* guest threads                                             *)
  Words,      (* addresses of guest synchronisation words                  *)
  NoThread,   (* no native owner                                           *)
  NoWord,     (* the call references no entry                              *)
  MaxDepth    (* native limit of recursive acquisitions (EAGAIN above it)  *)

ASSUME SyncAssumption ==
  /\ IsFiniteSet(Threads)
  /\ NoThread \notin Threads
  /\ NoWord \notin Words
  /\ MaxDepth \in Nat \ {0}

Kinds == {"mutex", "cond"}

MutexTypes == {"normal", "recursive", "errorcheck"}
Types == MutexTypes \cup {"realtime", "monotonic"}

(* What a guest word holds: a static initialiser, a marker or DESTROYED.   *)
Markers == {"mutex marker", "cond marker"}
WordValues ==
  {"zero", "recursive", "errorcheck", "monotonic", "shared", "destroyed"}
    \cup Markers

Marker(k) == IF k = "mutex" THEN "mutex marker" ELSE "cond marker"

LockOps == {"lock", "trylock", "timedlock"}
WaitOps == {"wait", "timedwait"}
PulseOps == {"signal", "broadcast"}
Ops == LockOps \cup WaitOps \cup PulseOps \cup {"unlock"}

(* Where a thread is.  "blocked" is inside the native condition queue,     *)
(* "sliced" left it because one bounded slice of a longer wait expired.    *)
Stages == {"idle", "locking", "locked", "refused", "unlocking", "unlocked",
           "pulsing", "pulsed", "entering", "blocked", "sliced", "woken",
           "waited"}

VARIABLES
  word,    (* word[w]:  the guest memory                                   *)
  live,    (* live[w]:  the kind of the table entry of w, or "none"        *)
  type,    (* type[w]:  attributes the native object was created with      *)
  users,   (* users[w]: the entry's count of calls in progress             *)
  holds,   (* holds[w]: the entry's count of acquisitions                  *)
  owner,   (* owner[w]: thread that natively owns the mutex                *)
  depth,   (* depth[w]: its native recursion depth                         *)
  stage,   (* stage[t]: where the call of t is                             *)
  op,      (* op[t]:    the operation t is in                              *)
  mutex,   (* mutex[t]: the word whose mutex entry t has a pointer to      *)
  cond,    (* cond[t]:  the word whose condition entry t has a pointer to  *)
  due      (* auxiliary: threads a broadcast found waiting, not yet back   *)

table == <<word, live, type>>
native == <<owner, depth>>
call == <<stage, op, mutex, cond>>
vars == <<word, live, type, users, holds, owner, depth,
          stage, op, mutex, cond, due>>

-----------------------------------------------------------------------------
(* The table. *)

(* __static_attributes: the static initialisers each kind accepts.         *)
StaticValues(k) ==
  IF k = "mutex" THEN {"zero", "recursive", "errorcheck"}
                 ELSE {"zero", "monotonic"}

StaticType(k, v) ==
  IF v = "zero" THEN (IF k = "mutex" THEN "normal" ELSE "realtime") ELSE v

TypesOf(k) == IF k = "mutex" THEN MutexTypes ELSE {"realtime", "monotonic"}

(* __acquire succeeds: an entry of the kind, or a word it can create from. *)
CanAcquire(w, k) ==
  \/ live[w] = k
  \/ live[w] = "none" /\ word[w] \in StaticValues(k)

(* __create: a zeroed entry around a fresh native object.                  *)
Publish(w, k, ty) ==
  /\ live' = [live EXCEPT ![w] = k]
  /\ type' = [type EXCEPT ![w] = ty]
  /\ word' = [word EXCEPT ![w] = Marker(k)]

(* __acquire: find or create the entry of w and count one user more.       *)
Acquire(w, k) ==
  /\ CanAcquire(w, k)
  /\ IF live[w] = k THEN UNCHANGED table
                    ELSE Publish(w, k, StaticType(k, word[w]))

Goto(t, s, o, m, c) ==
  /\ stage' = [stage EXCEPT ![t] = s]
  /\ op' = [op EXCEPT ![t] = o]
  /\ mutex' = [mutex EXCEPT ![t] = m]
  /\ cond' = [cond EXCEPT ![t] = c]

Advance(t, s) ==
  /\ stage' = [stage EXCEPT ![t] = s]
  /\ UNCHANGED <<op, mutex, cond>>

Return(t) == Goto(t, "idle", "unlock", NoWord, NoWord)

-----------------------------------------------------------------------------
Init ==
  /\ word \in [Words -> WordValues \ Markers]
  /\ live = [w \in Words |-> "none"]
  /\ type = [w \in Words |-> "normal"]
  /\ users = [w \in Words |-> 0]
  /\ holds = [w \in Words |-> 0]
  /\ owner = [w \in Words |-> NoThread]
  /\ depth = [w \in Words |-> 0]
  /\ stage = [t \in Threads |-> "idle"]
  /\ op = [t \in Threads |-> "unlock"]
  /\ mutex = [t \in Threads |-> NoWord]
  /\ cond = [t \in Threads |-> NoWord]
  /\ due = {}

(* The guest reuses the memory of a word the table does not know.          *)
Rewrite(t, w, v) ==
  /\ stage[t] = "idle"
  /\ live[w] = "none"
  /\ v \in WordValues \ Markers
  /\ word' = [word EXCEPT ![w] = v]
  /\ UNCHANGED <<live, type, users, holds, native, call, due>>

(* __init: pthread_mutex_init, pthread_cond_init.                          *)
InitObject(t, w, k, ty) ==
  /\ stage[t] = "idle"
  /\ live[w] = "none"
  /\ ty \in TypesOf(k)
  /\ Publish(w, k, ty)
  /\ UNCHANGED <<users, holds, native, call, due>>

(* Mutations of Idle: destroy looks at one of the two counters only.       *)
IdleWithUsers(w) == holds[w] = 0
IdleWhileHeld(w) == users[w] = 0

Idle(w) == users[w] = 0 /\ holds[w] = 0

(* __destroy and __destroy_entry: the entry is unlinked and freed when no  *)
(* call uses it and nobody holds it; its counters and its native object    *)
(* go with it.                                                             *)
DestroyEntry(t, w, k) ==
  /\ stage[t] = "idle"
  /\ live[w] = k
  /\ Idle(w)
  /\ word' = [word EXCEPT ![w] = "destroyed"]
  /\ live' = [live EXCEPT ![w] = "none"]
  /\ users' = [users EXCEPT ![w] = 0]
  /\ holds' = [holds EXCEPT ![w] = 0]
  /\ owner' = [owner EXCEPT ![w] = NoThread]
  /\ depth' = [depth EXCEPT ![w] = 0]
  /\ UNCHANGED <<type, call, due>>

(* __destroy of a static word no call ever reached the table with.         *)
DestroyStatic(t, w, k) ==
  /\ stage[t] = "idle"
  /\ live[w] = "none"
  /\ word[w] \in StaticValues(k)
  /\ word' = [word EXCEPT ![w] = "destroyed"]
  /\ UNCHANGED <<live, type, users, holds, native, call, due>>

-----------------------------------------------------------------------------
(* __lock: pthread_mutex_lock, trylock and timedlock. *)

LockCall(t, w, o) ==
  /\ stage[t] = "idle"
  /\ Acquire(w, "mutex")
  /\ users' = [users EXCEPT ![w] = @ + 1]
  /\ Goto(t, "locking", o, w, NoWord)
  /\ UNCHANGED <<holds, native, due>>

OwnedRecursive(t, w) == owner[w] = t /\ type[w] = "recursive"

(* The native primitive grants the mutex.                                  *)
NativeLock(t) ==
  LET w == mutex[t] IN
  /\ stage[t] = "locking"
  /\ \/ owner[w] = NoThread
     \/ OwnedRecursive(t, w) /\ depth[w] < MaxDepth
  /\ owner' = [owner EXCEPT ![w] = t]
  /\ depth' = [depth EXCEPT ![w] = @ + 1]
  /\ Advance(t, "locked")
  /\ UNCHANGED <<table, users, holds, due>>

(* It returns an error: EBUSY, ETIMEDOUT, EDEADLK or EAGAIN.               *)
NativeLockFails(t) ==
  LET w == mutex[t] IN
  /\ stage[t] = "locking"
  /\ \/ op[t] # "lock" /\ owner[w] # NoThread /\ ~OwnedRecursive(t, w)
     \/ owner[w] = t /\ type[w] = "errorcheck"
     \/ OwnedRecursive(t, w) /\ depth[w] = MaxDepth
  /\ Advance(t, "refused")
  /\ UNCHANGED <<table, users, holds, native, due>>

LockFinish(t) ==
  LET w == mutex[t] IN
  /\ stage[t] \in {"locked", "refused"}
  /\ op[t] \in LockOps
  /\ holds' = [holds EXCEPT ![w] = IF stage[t] = "locked" THEN @ + 1 ELSE @]
  /\ users' = [users EXCEPT ![w] = @ - 1]
  /\ Return(t)
  /\ UNCHANGED <<table, native, due>>

-----------------------------------------------------------------------------
(* pthread_mutex_unlock. *)

(* The type the native mutex of w has, or will be created with.            *)
EffectiveType(w) ==
  IF live[w] = "none" THEN StaticType("mutex", word[w]) ELSE type[w]

UnlockCall(t, w) ==
  /\ stage[t] = "idle"
  /\ EffectiveType(w) = "normal" => owner[w] = t
  /\ Acquire(w, "mutex")
  /\ users' = [users EXCEPT ![w] = @ + 1]
  /\ Goto(t, "unlocking", "unlock", w, NoWord)
  /\ UNCHANGED <<holds, native, due>>

NativeUnlock(t) ==
  LET w == mutex[t] IN
  /\ stage[t] = "unlocking"
  /\ owner[w] = t
  /\ depth' = [depth EXCEPT ![w] = @ - 1]
  /\ owner' = [owner EXCEPT ![w] = IF depth[w] = 1 THEN NoThread ELSE t]
  /\ Advance(t, "unlocked")
  /\ UNCHANGED <<table, users, holds, due>>

(* EPERM from a recursive or error-checking mutex of another thread.       *)
NativeUnlockFails(t) ==
  /\ stage[t] = "unlocking"
  /\ owner[mutex[t]] # t
  /\ Advance(t, "refused")
  /\ UNCHANGED <<table, users, holds, native, due>>

UnlockFinish(t) ==
  LET w == mutex[t]
      released == stage[t] = "unlocked" /\ holds[w] > 0
  IN
  /\ stage[t] \in {"unlocked", "refused"}
  /\ op[t] = "unlock"
  /\ holds' = [holds EXCEPT ![w] = IF released THEN @ - 1 ELSE @]
  /\ users' = [users EXCEPT ![w] = @ - 1]
  /\ Return(t)
  /\ UNCHANGED <<table, native, due>>

-----------------------------------------------------------------------------
(* __pulse: pthread_cond_signal and pthread_cond_broadcast. *)

PulseCall(t, c, o) ==
  /\ stage[t] = "idle"
  /\ live[c] = "cond"
  /\ users' = [users EXCEPT ![c] = @ + 1]
  /\ Goto(t, "pulsing", o, NoWord, c)
  /\ UNCHANGED <<table, holds, native, due>>

Blocked(c) == {t \in Threads : stage[t] = "blocked" /\ cond[t] = c}
Sliced(c) == {t \in Threads : stage[t] = "sliced" /\ cond[t] = c}

(* The native condition wakes one waiter of its queue, or all of them.  A  *)
(* broadcast owes a return to every thread that is in its guest wait.      *)
NativePulse(t) ==
  LET c == cond[t] IN
  /\ stage[t] = "pulsing"
  /\ \E woken \in SUBSET Blocked(c) :
       /\ IF op[t] = "broadcast" THEN woken = Blocked(c)
          ELSE Cardinality(woken) = IF Blocked(c) = {} THEN 0 ELSE 1
       /\ stage' = [s \in Threads |->
                      IF s = t THEN "pulsed"
                      ELSE IF s \in woken THEN "woken" ELSE stage[s]]
  /\ due' = IF op[t] = "broadcast" THEN due \cup Blocked(c) \cup Sliced(c)
            ELSE due
  /\ UNCHANGED <<table, users, holds, native, op, mutex, cond>>

PulseFinish(t) ==
  /\ stage[t] = "pulsed"
  /\ users' = [users EXCEPT ![cond[t]] = @ - 1]
  /\ Return(t)
  /\ UNCHANGED <<table, holds, native, due>>

-----------------------------------------------------------------------------
(* __wait, __timed_wait and __wait_finished: pthread_cond_(timed)wait. *)

WaitCall(t, c, m, o) ==
  /\ stage[t] = "idle"
  /\ live[m] = "mutex"
  /\ holds[m] > 0
  /\ owner[m] = t /\ depth[m] = 1
  /\ Acquire(c, "cond")
  /\ users' = [w \in Words |->
                 IF w \in {m, c} THEN users[w] + 1 ELSE users[w]]
  /\ Goto(t, "entering", o, m, c)
  /\ UNCHANGED <<holds, native, due>>

(* The native wait queues the thread and releases the mutex in one step.   *)
NativeWait(t) ==
  LET m == mutex[t] IN
  /\ stage[t] = "entering"
  /\ owner' = [owner EXCEPT ![m] = NoThread]
  /\ depth' = [depth EXCEPT ![m] = 0]
  /\ Advance(t, "blocked")
  /\ UNCHANGED <<table, users, holds, due>>

(* The wait ends without a pulse: deadline, spurious wake or cancellation. *)
WaitEnds(t) ==
  /\ stage[t] = "blocked"
  /\ Advance(t, "woken")
  /\ UNCHANGED <<table, users, holds, native, due>>

(* Mutation of SliceExpires: every timed wait is sliced.                   *)
SliceAlwaysExpires(t) ==
  /\ stage[t] = "blocked"
  /\ op[t] = "timedwait"
  /\ Advance(t, "sliced")
  /\ UNCHANGED <<table, users, holds, native, due>>

(* One 100 ms slice of a monotonic timed wait expired before the deadline. *)
SliceExpires(t) ==
  /\ stage[t] = "blocked"
  /\ op[t] = "timedwait"
  /\ type[cond[t]] = "monotonic"
  /\ Advance(t, "sliced")
  /\ UNCHANGED <<table, users, holds, native, due>>

(* The native wait takes the mutex back before it returns; the slice loop  *)
(* then waits again, any other wait returns to the guest.                  *)
Reacquire(t) ==
  LET m == mutex[t] IN
  /\ stage[t] \in {"woken", "sliced"}
  /\ owner[m] = NoThread
  /\ owner' = [owner EXCEPT ![m] = t]
  /\ depth' = [depth EXCEPT ![m] = 1]
  /\ Advance(t, IF stage[t] = "sliced" THEN "entering" ELSE "waited")
  /\ UNCHANGED <<table, users, holds, due>>

(* Mutation of WaitFinish: the mutex stays counted as used.                *)
LeakyWaitFinish(t) ==
  /\ stage[t] = "waited"
  /\ users' = [users EXCEPT ![cond[t]] = @ - 1]
  /\ due' = due \ {t}
  /\ Return(t)
  /\ UNCHANGED <<table, holds, native>>

WaitFinish(t) ==
  /\ stage[t] = "waited"
  /\ users' = [w \in Words |->
                 IF w \in {mutex[t], cond[t]} THEN users[w] - 1 ELSE users[w]]
  /\ due' = due \ {t}
  /\ Return(t)
  /\ UNCHANGED <<table, holds, native>>

-----------------------------------------------------------------------------
GuestCall(t) ==
  \/ \E w \in Words, v \in WordValues : Rewrite(t, w, v)
  \/ \E w \in Words, k \in Kinds, ty \in Types : InitObject(t, w, k, ty)
  \/ \E w \in Words, k \in Kinds : DestroyEntry(t, w, k)
  \/ \E w \in Words, k \in Kinds : DestroyStatic(t, w, k)
  \/ \E w \in Words, o \in LockOps : LockCall(t, w, o)
  \/ \E w \in Words : UnlockCall(t, w)
  \/ \E c \in Words, o \in PulseOps : PulseCall(t, c, o)
  \/ \E c, m \in Words, o \in WaitOps : WaitCall(t, c, m, o)

NativeStep(t) ==
  \/ NativeLock(t) \/ NativeLockFails(t)
  \/ NativeUnlock(t) \/ NativeUnlockFails(t)
  \/ NativePulse(t)
  \/ NativeWait(t) \/ WaitEnds(t) \/ SliceExpires(t) \/ Reacquire(t)

Settle(t) ==
  LockFinish(t) \/ UnlockFinish(t) \/ PulseFinish(t) \/ WaitFinish(t)

Next == \E t \in Threads : GuestCall(t) \/ NativeStep(t) \/ Settle(t)

Spec == Init /\ [][Next]_vars

-----------------------------------------------------------------------------
TypeOK ==
  /\ word \in [Words -> WordValues]
  /\ live \in [Words -> Kinds \cup {"none"}]
  /\ type \in [Words -> Types]
  /\ users \in [Words -> Nat]
  /\ holds \in [Words -> Nat]
  /\ owner \in [Words -> Threads \cup {NoThread}]
  /\ depth \in [Words -> 0..MaxDepth]
  /\ stage \in [Threads -> Stages]
  /\ op \in [Threads -> Ops]
  /\ mutex \in [Threads -> Words \cup {NoWord}]
  /\ cond \in [Threads -> Words \cup {NoWord}]
  /\ due \in SUBSET Threads

(* The threads that have a pointer to the entry of w.                      *)
Refs(w) == {t \in Threads : mutex[t] = w \/ cond[t] = w}

(* A thread in the middle of a call never has a pointer to a freed entry,  *)
(* or to one of the other kind, whatever destroy, init and memory reuse    *)
(* run between its phases.                                                 *)
NoDanglingEntry ==
  \A t \in Threads :
    /\ mutex[t] # NoWord => live[mutex[t]] = "mutex"
    /\ cond[t] # NoWord => live[cond[t]] = "cond"

(* Threads whose native acquisition or release is not counted yet, and     *)
(* threads that wait with an acquisition still counted.                    *)
Unsettled(w, s) == {t \in Threads : stage[t] = s /\ mutex[t] = w}
Waiting(w) ==
  {t \in Threads : stage[t] \in {"blocked", "sliced", "woken"} /\ mutex[t] = w}

(* The counters are exact in every interleaving: users counts the calls in *)
(* progress, and holds is the native depth up to the acquisitions and      *)
(* releases in flight and the waiters; so neither leaks (a destroy that    *)
(* fails for ever) nor falls short (an early free).                        *)
CountersExact ==
  \A w \in Words :
    /\ users[w] = Cardinality(Refs(w))
    /\ holds[w] + Cardinality(Unsettled(w, "locked"))
         = depth[w] + Cardinality(Waiting(w))
             + Cardinality(Unsettled(w, "unlocked"))

(* What the code relies on besides: which entries a call has a pointer to  *)
(* in which phase, and that a granted lock, and a mutex about to be waited *)
(* with, belong to the caller.                                             *)
MutexStages == {"locking", "locked", "refused", "unlocking", "unlocked"}
PulseStages == {"pulsing", "pulsed"}
WaitStages == {"entering", "blocked", "sliced", "woken", "waited"}

StageArgs ==
  \A t \in Threads :
    /\ mutex[t] # NoWord <=> stage[t] \in MutexStages \cup WaitStages
    /\ cond[t] # NoWord <=> stage[t] \in PulseStages \cup WaitStages

OwnersExact ==
  /\ \A w \in Words : owner[w] = NoThread <=> depth[w] = 0
  /\ \A t \in Threads :
       /\ stage[t] \in {"locked", "entering"} => owner[mutex[t]] = t
       /\ stage[t] = "entering" => depth[mutex[t]] = 1

(* The inductive invariant.                                                *)
IInv ==
  TypeOK /\ NoDanglingEntry /\ StageArgs /\ OwnersExact /\ CountersExact

(* No step frees the entry of a mutex somebody owns, or of a condition     *)
(* somebody waits on.                                                      *)
HeldObjectSurvives ==
  [][\A w \in Words :
       live[w] # "none" /\ live'[w] = "none"
         => owner[w] = NoThread /\ Refs(w) = {}]_vars

(* A broadcast releases every thread it finds waiting: none of them is     *)
(* back in the native queue before its guest wait returned.                *)
BroadcastReleases == \A t \in due : stage[t] # "blocked"

(* The same for conditions on the realtime clock.                          *)
RealtimeBroadcastReleases ==
  \A t \in due :
    type[cond[t]] = "realtime" => stage[t] # "blocked"
=============================================================================
