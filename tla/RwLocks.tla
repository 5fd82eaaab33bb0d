------------------------------- MODULE RwLocks -------------------------------
(***************************************************************************)
(* The read-write locks given to the game (bridges/libc/rwlock.c).  A lock *)
(* of the game is one word of its memory; the object behind it is an entry *)
(* of a list guarded by one mutex.  Every step below is one section under  *)
(* that mutex, except AcquireEnd, which also takes the native lock: that   *)
(* is done with the list unlocked, and only `users` keeps the entry alive. *)
(***************************************************************************)
EXTENDS Naturals, FiniteSets

CONSTANTS Guest,    \* threads of the game
          Lock      \* words the game uses as read-write locks

ASSUME RwAssumption ==
  IsFiniteSet(Guest) /\ "nobody" \notin Guest /\ "none" \notin Lock

VARIABLES word,     \* the word itself: "zero" (static), "mark" or "dead"
          entry,    \* the entry of a word, or NoEntry
          reads,    \* how many times each thread holds the native read lock
          writer,   \* the thread holding the native write lock, or Nobody
          wait      \* the acquisition a thread is inside, or Idle

rwVars == <<word, entry, reads, writer, wait>>

NoEntry == [listed |-> FALSE, users |-> 0, holds |-> 0]
Fresh == [listed |-> TRUE, users |-> 0, holds |-> 0]
Nobody == "nobody"
Idle == [lock |-> "none", write |-> FALSE]

RwTypeOK ==
  /\ word \in [Lock -> {"zero", "mark", "dead"}]
  /\ entry \in [Lock -> [listed : BOOLEAN, users : Nat, holds : Nat]]
  /\ reads \in [Guest -> [Lock -> Nat]]
  /\ writer \in [Lock -> Guest \cup {Nobody}]
  /\ wait \in [Guest -> {Idle} \cup [lock : Lock, write : BOOLEAN]]

RwInit ==
  /\ word = [l \in Lock |-> "zero"]
  /\ entry = [l \in Lock |-> NoEntry]
  /\ reads = [g \in Guest |-> [l \in Lock |-> 0]]
  /\ writer = [l \in Lock |-> Nobody]
  /\ wait = [g \in Guest |-> Idle]

\* Mutant: only a held lock is busy.
BusyHeld(l) == entry[l].holds > 0

\* Whether an entry may not be freed.
Busy(l) == entry[l].users > 0 \/ entry[l].holds > 0
Removable(l) == entry[l].listed /\ ~Busy(l)
Holds(g, l) == reads[g][l] > 0 \/ writer[l] = g

\* bridge_rwlock_init: a word that has an entry is refused, any other is taken.
RwLockInit(l) ==
  /\ ~entry[l].listed
  /\ entry' = [entry EXCEPT ![l] = Fresh]
  /\ word' = [word EXCEPT ![l] = "mark"]
  /\ UNCHANGED <<reads, writer, wait>>

\* bridge_rwlock_destroy: an idle entry is removed; a static lock that was
\* never used has none, and only its word is marked.
RwLockDestroy(l) ==
  /\ Removable(l) \/ (~entry[l].listed /\ word[l] = "zero")
  /\ entry' = [entry EXCEPT ![l] = NoEntry]
  /\ word' = [word EXCEPT ![l] = "dead"]
  /\ UNCHANGED <<reads, writer, wait>>

\* __acquire up to its unlock: the entry is found, or made for a zero word, and
\* counted as used (one that is made starts from NoEntry's zeros).  A word that
\* is not zero and has no entry is refused.
AcquireBegin(g, l, write) ==
  /\ wait[g] = Idle
  /\ entry[l].listed \/ word[l] = "zero"
  /\ entry' = [entry EXCEPT ![l].listed = TRUE, ![l].users = @ + 1]
  /\ word' = [word EXCEPT ![l] = "mark"]
  /\ wait' = [wait EXCEPT ![g] = [lock |-> l, write |-> write]]
  /\ UNCHANGED <<reads, writer>>

\* The native lock as pthread_rwlock_rdlock and _wrlock grant it.
Grantable(l, write) ==
  /\ writer[l] = Nobody
  /\ write => \A g \in Guest : reads[g][l] = 0

\* __acquire from its second lock on, once the native lock has been granted.
AcquireEnd(g) ==
  LET l == wait[g].lock IN
  /\ wait[g] # Idle
  /\ Grantable(l, wait[g].write)
  /\ IF wait[g].write
       THEN writer' = [writer EXCEPT ![l] = g] /\ UNCHANGED reads
       ELSE reads' = [reads EXCEPT ![g][l] = @ + 1] /\ UNCHANGED writer
  /\ entry' = [entry EXCEPT ![l].users = @ - 1, ![l].holds = @ + 1]
  /\ wait' = [wait EXCEPT ![g] = Idle]
  /\ UNCHANGED word

\* The other ending: the native call failed (the thread holds the lock already,
\* or the read count is at its limit), and the entry is only given back.
AcquireFail(g) ==
  /\ wait[g] # Idle
  /\ Holds(g, wait[g].lock)
  /\ entry' = [entry EXCEPT ![wait[g].lock].users = @ - 1]
  /\ wait' = [wait EXCEPT ![g] = Idle]
  /\ UNCHANGED <<word, reads, writer>>

\* bridge_rwlock_unlock by a thread that holds the lock.
RwLockUnlock(g, l) ==
  /\ wait[g] = Idle /\ Holds(g, l)
  /\ entry[l].listed /\ entry[l].holds > 0
  /\ IF writer[l] = g
       THEN writer' = [writer EXCEPT ![l] = Nobody] /\ UNCHANGED reads
       ELSE reads' = [reads EXCEPT ![g][l] = @ - 1] /\ UNCHANGED writer
  /\ entry' = [entry EXCEPT ![l].holds = @ - 1]
  /\ UNCHANGED <<word, wait>>

\* bridge_rwlock_range over the words R of an image: busy if one of them is.
RangeBusy(R) == \E l \in R : Busy(l)

\* The same with destroy set, when no word is busy: all the entries go at once.
RangeDestroy(R) ==
  /\ ~RangeBusy(R)
  /\ entry' = [l \in Lock |-> IF l \in R THEN NoEntry ELSE entry[l]]
  /\ word' = [l \in Lock |-> IF l \in R /\ entry[l].listed THEN "dead" ELSE word[l]]
  /\ UNCHANGED <<reads, writer, wait>>

RwNext ==
  \/ \E l \in Lock : RwLockInit(l) \/ RwLockDestroy(l)
  \/ \E g \in Guest, l \in Lock, w \in BOOLEAN : AcquireBegin(g, l, w)
  \/ \E g \in Guest : AcquireEnd(g) \/ AcquireFail(g)
  \/ \E g \in Guest, l \in Lock : RwLockUnlock(g, l)
  \/ \E R \in SUBSET Lock : RangeDestroy(R)

RwSpec == RwInit /\ [][RwNext]_rwVars

-----------------------------------------------------------------------------
\* The entry a thread went to sleep in is still the one in the list when it
\* wakes, and the lock a thread holds still has its entry: no destruction, of
\* one lock or of a whole image, frees what a thread outside the mutex uses.
EntriesOutliveUsers ==
  \A g \in Guest, l \in Lock :
     wait[g].lock = l \/ Holds(g, l) => entry[l].listed
=============================================================================
