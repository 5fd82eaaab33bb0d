-------------------------- MODULE ImageUnloadProofs --------------------------
(***************************************************************************)
(* Proofs about RwLocks and ImageUnload for any finite sets of threads and *)
(* libraries, any locks, mutexes and callbacks, and any bounds.            *)
(*                                                                         *)
(* RwInv is the invariant of the lock table: an entry counts exactly the   *)
(* acquisitions under way and the native holds.  IInv adds what the loader *)
(* does with it.  Stacked says what the calls of the loader's thread look  *)
(* like, and that under a call that works on a library nothing else of     *)
(* this library is going on; Lives follows each library from one load to   *)
(* the unload, over every attempt that was put off; Registered and Quiet   *)
(* say what can no longer refer to a library that is going or gone.        *)
(***************************************************************************)
EXTENDS ImageUnload, CountingLemmas, SequenceTheorems

Waiters(l) == {g \in Guest : wait[g].lock = l}

(* One token for every hold of the native lock.                            *)
TokensOf(row, w) ==
  (UNION {{g} \X (1..row[g]) : g \in Guest}) \cup ({w} \ {Nobody}) \X {0}
Tokens(l) == TokensOf([g \in Guest |-> reads[g][l]], writer[l])

Counted(l) ==
  /\ ~entry[l].listed => entry[l] = NoEntry
  /\ entry[l].users = Cardinality(Waiters(l))
  /\ IsFiniteSet(Tokens(l)) /\ entry[l].holds = Cardinality(Tokens(l))

RwInv == RwTypeOK /\ \A l \in Lock : Counted(l)

-----------------------------------------------------------------------------
UnloadStages == {"check", "checkMutexes", "prepare", "destructors", "game", "drain",
                 "recheck", "recheckMutexes", "locks", "mutexes"}

Frames ==
  [kind : {"load"}, of : Image, at : {"sections"}]
    \cup [kind : {"construct"}, of : Image, at : {"game"}]
    \cup [kind : {"unload"}, of : Image, at : UnloadStages]
    \cup [kind : {"finalize"}, of : Image, at : {"drain"}]
    \cup [kind : {"callback"}, of : Callback, at : {"game"}]

(* The library a call is about.                                            *)
About(f) == IF f.kind = "callback" THEN CodeOf[f.of] ELSE f.of
Owning == {"load", "construct", "unload"}

(* The calls s, innermost first: those that called something are in code   *)
(* of the game or call callbacks, and one that works on a library is the   *)
(* outermost about it.                                                     *)
Framed(s) ==
  /\ s \in Seq(Frames)
  /\ \A k \in 2..Len(s) : s[k].at \in {"game", "drain"}
  /\ \A k \in 1..Len(s), j \in 1..Len(s) :
       k < j /\ s[k].kind \in Owning => About(s[j]) # s[k].of

Elems(s) == {s[k] : k \in 1..Len(s)}
Calls == Elems(stack)

Prepared == {"prepare", "destructors", "game", "drain",
             "recheck", "recheckMutexes", "locks", "mutexes"}
Deleted == Prepared \ {"prepare"}
Finished == {"recheck", "recheckMutexes", "locks", "mutexes"}

(* What the call f knows of its library.                                   *)
Fits(f) ==
  /\ Listed(About(f))
  /\ f.kind = "load" =>
       /\ lib[f.of] = [NoLibrary EXCEPT !.slot = TRUE, !.image = TRUE,
                                        !.blocks = lib[f.of].blocks]
       /\ ghost.ended[f.of] = 0
  /\ f.kind = "construct" => ~lib[f.of].initialized
  /\ f.kind = "unload" =>
       /\ f.at \in Prepared => lib[f.of].unloading
       /\ f.at \in Deleted => ~lib[f.of].prepare
       /\ f.at \in Finished =>
            lib[f.of].finalized /\ ~lib[f.of].initialized /\ ~lib[f.of].finish
       /\ f.at = "mutexes" => \A l \in LocksOf[f.of] : ~entry[l].listed

Stacked == Framed(stack) /\ \A f \in Calls : Fits(f)

-----------------------------------------------------------------------------
Constructing(i) == \E f \in Calls : f.kind = "construct" /\ f.of = i
Destructed(i) ==
  \E f \in Calls : f.kind = "unload" /\ f.of = i /\ f.at \in {"game", "drain"}
(* The constructors of i have begun and its destructors have not.          *)
Alive(i) == Constructing(i) \/ (lib[i].initialized /\ ~Destructed(i))

LivesAt(i) ==
  /\ ~Listed(i) => lib[i] = NoLibrary
  /\ IF Alive(i) THEN ghost.started[i] = 1 /\ ghost.ended[i] = 0
     ELSE ghost.started[i] = ghost.ended[i] /\ ghost.ended[i] \in {0, 1}
  /\ ghost.owned[i].application <=> lib[i].prepare
  /\ ghost.owned[i].services => lib[i].finish
  /\ ~lib[i].unloading \/ lib[i].prepare => ghost.ended[i] = 0 /\ ~lib[i].finalized
  /\ Usable(i) /\ ~lib[i].unloading /\ i \in HasHooks => lib[i].prepare

Ghosts ==
  [loads : [Image -> Nat], uses : Nat,
   owned : [Image -> [application : BOOLEAN, services : BOOLEAN]],
   started : [Image -> Nat], ended : [Image -> Nat], pending : [Callback -> BOOLEAN]]

Lives ==
  /\ ghost \in Ghosts
  /\ count = Cardinality({i \in Image : Listed(i)})
  /\ \A i \in Image : LivesAt(i)

(* Callbacks, and the entries of the objects that lie in a library.        *)
Registered ==
  /\ \A k \in 1..Len(exits) : \A i \in {CodeOf[exits[k]], DsoOf[exits[k]]} :
       Usable(i) /\ ~lib[i].finalized
  /\ \A c \in Callback : ghost.pending[c] =>
       \/ \E k \in 1..Len(exits) : exits[k] = c
       \/ \E f \in Calls : f.kind = "callback" /\ f.of = c

Quiet ==
  /\ locking \in [Guest -> Mutex \cup {"none"}]
  /\ \A m \in Mutex :
       /\ ~mutex[m].listed => mutex[m] = NoEntry
       /\ mutex[m].users = Cardinality({g \in Guest : locking[g] = m})
  /\ \A i \in Image : ~Usable(i) =>
       /\ \A l \in LocksOf[i] : ~entry[l].listed
       /\ \A m \in MutexesOf[i] : ~mutex[m].listed

IInv ==
  /\ TypeOK
  /\ RwInv
  /\ Stacked
  /\ Lives
  /\ Registered
  /\ Quiet

-----------------------------------------------------------------------------
(* The read-write locks. *)

LEMMA RwFacts == IsFiniteSet(Guest) /\ Nobody \notin Guest /\ "none" \notin Lock
BY RwAssumption DEF Nobody

LEMMA TokenIn ==
  ASSUME NEW row, NEW w, NEW x
  PROVE  x \in TokensOf(row, w) <=>
           \/ \E g \in Guest : \E k \in 1..row[g] : x = <<g, k>>
           \/ w # Nobody /\ x = <<w, 0>>
<1>1. x \in UNION {{g} \X (1..row[g]) : g \in Guest}
        <=> \E g \in Guest : \E k \in 1..row[g] : x = <<g, k>>
  <2>1. \A g \in Guest : x \in {g} \X (1..row[g]) <=> \E k \in 1..row[g] : x = <<g, k>>
    OBVIOUS
  <2>2. x \in UNION {{g} \X (1..row[g]) : g \in Guest}
          <=> \E g \in Guest : x \in {g} \X (1..row[g])
    BY Zenon
  <2> QED
    BY <2>1, <2>2
<1>2. x \in ({w} \ {Nobody}) \X {0} <=> w # Nobody /\ x = <<w, 0>>
  OBVIOUS
<1> QED
  BY <1>1, <1>2 DEF TokensOf

(* B has one element more than A.                                          *)
OneMore(A, B) ==
  /\ IsFiniteSet(A) /\ IsFiniteSet(B)
  /\ Cardinality(A) \in Nat /\ Cardinality(B) = Cardinality(A) + 1

LEMMA AddsOne ==
  ASSUME NEW A, NEW B, NEW e, e \notin A, \A x : x \in B <=> x \in A \/ x = e,
         IsFiniteSet(A) \/ IsFiniteSet(B)
  PROVE  OneMore(A, B)
<1>1. B = A \cup {e} /\ A \subseteq B
  OBVIOUS
<1>2. IsFiniteSet(A)
  BY <1>1, FS_Subset
<1> QED
  BY <1>1, <1>2, FS_AddElement, FS_CardinalityType DEF OneMore

(* A native read lock is taken, or read from right to left, given back.    *)
LEMMA ReadTaken ==
  ASSUME NEW row \in [Guest -> Nat], NEW next \in [Guest -> Nat], NEW g \in Guest,
         NEW w, next[g] = row[g] + 1, \A h \in Guest \ {g} : next[h] = row[h],
         IsFiniteSet(TokensOf(row, w)) \/ IsFiniteSet(TokensOf(next, w))
  PROVE  OneMore(TokensOf(row, w), TokensOf(next, w))
<1> DEFINE e == <<g, next[g]>>
<1>1. e \notin TokensOf(row, w)
  <2>1. ~ \E h \in Guest : \E k \in 1..row[h] : e = <<h, k>>
    OBVIOUS
  <2>2. e # <<w, 0>>
    OBVIOUS
  <2> QED
    BY <2>1, <2>2, TokenIn
<1>2. ASSUME NEW x PROVE x \in TokensOf(next, w) <=> x \in TokensOf(row, w) \/ x = e
  <2>1. (\E h \in Guest : \E k \in 1..next[h] : x = <<h, k>>)
          <=> (\E h \in Guest : \E k \in 1..row[h] : x = <<h, k>>) \/ x = e
    <3>1. ASSUME NEW h \in Guest, NEW k \in 1..next[h], x = <<h, k>>
          PROVE  (\E j \in Guest : \E i \in 1..row[j] : x = <<j, i>>) \/ x = e
      <4>1. h # g => k \in 1..row[h]
        OBVIOUS
      <4>2. h = g => k \in 1..row[h] \/ k = next[g]
        OBVIOUS
      <4> QED
        BY <3>1, <4>1, <4>2
    <3>2. ASSUME NEW h \in Guest, NEW k \in 1..row[h], x = <<h, k>>
          PROVE  \E j \in Guest : \E i \in 1..next[j] : x = <<j, i>>
      <4>1. k \in 1..next[h]
        OBVIOUS
      <4> QED
        BY <3>2, <4>1
    <3>3. next[g] \in 1..next[g]
      OBVIOUS
    <3> QED
      BY <3>1, <3>2, <3>3
  <2> QED
    BY <2>1, TokenIn
<1> HIDE DEF e
<1> QED
  BY <1>1, <1>2, AddsOne

(* The same for the native write lock.                                     *)
LEMMA WriteTaken ==
  ASSUME NEW row \in [Guest -> Nat], NEW g \in Guest,
         IsFiniteSet(TokensOf(row, Nobody)) \/ IsFiniteSet(TokensOf(row, g))
  PROVE  OneMore(TokensOf(row, Nobody), TokensOf(row, g))
<1> DEFINE e == <<g, 0>>
<1>1. g # Nobody
  BY RwFacts
<1>2. e \notin TokensOf(row, Nobody)
  <2>1. ~ \E h \in Guest : \E k \in 1..row[h] : e = <<h, k>>
    OBVIOUS
  <2> QED
    BY <2>1, TokenIn
<1>3. \A x : x \in TokensOf(row, g) <=> x \in TokensOf(row, Nobody) \/ x = e
  BY <1>1, TokenIn
<1> HIDE DEF e
<1> QED
  BY <1>2, <1>3, AddsOne

Acquisitions == {Idle} \cup [lock : Lock, write : BOOLEAN]
Entries == [listed : BOOLEAN, users : Nat, holds : Nat]

(* A thread enters an acquisition, or leaves one.                          *)
LEMMA WaiterMoves ==
  ASSUME RwTypeOK, NEW g \in Guest, NEW a \in Acquisitions,
         wait' = [wait EXCEPT ![g] = a], NEW k \in Lock
  PROVE  /\ wait' \in [Guest -> Acquisitions]
         /\ Swaps(g, Waiters(k), Waiters(k)')
         /\ g \in Waiters(k) <=> wait[g].lock = k
         /\ g \in Waiters(k)' <=> a.lock = k
<1>1. /\ wait' \in [Guest -> Acquisitions] /\ wait'[g] = a
      /\ \A h \in Guest \ {g} : wait'[h] = wait[h]
  BY DEF RwTypeOK, Acquisitions
<1>2. /\ g \in Waiters(k) <=> wait[g].lock = k
      /\ g \in Waiters(k)' <=> a.lock = k
      /\ Waiters(k) \ {g} = Waiters(k)' \ {g}
  BY <1>1 DEF Waiters
<1>3. Waiters(k) \in SUBSET Guest /\ Waiters(k)' \in SUBSET Guest
  BY DEF Waiters
<1> QED
  BY <1>1, <1>2, <1>3, RwFacts, CountExchange

LEMMA EntryTyped ==
  ASSUME RwTypeOK, NEW l \in Lock
  PROVE  /\ entry[l] \in Entries /\ entry[l].listed \in BOOLEAN
         /\ entry[l].users \in Nat /\ entry[l].holds \in Nat
BY DEF RwTypeOK, Entries

LEMMA NoEntryTyped == NoEntry \in Entries /\ Fresh \in Entries
BY DEF NoEntry, Fresh, Entries

LEMMA RwInitStep ==
  ASSUME RwInv, NEW l \in Lock, RwLockInit(l)
  PROVE  RwInv'
<1>1. /\ RwTypeOK /\ ~entry[l].listed /\ entry' = [entry EXCEPT ![l] = Fresh]
      /\ word' = [word EXCEPT ![l] = "mark"] /\ UNCHANGED <<reads, writer, wait>>
  BY DEF RwLockInit, RwInv
<1>2. RwTypeOK'
  BY <1>1, NoEntryTyped DEF RwTypeOK, Entries
<1>3. ASSUME NEW k \in Lock PROVE Counted(k)'
  <2>1. Counted(k) /\ Waiters(k)' = Waiters(k) /\ Tokens(k)' = Tokens(k)
    BY <1>1 DEF RwInv, Waiters, Tokens
  <2>2. CASE k = l
    <3>1. entry[l] = NoEntry /\ entry'[l] = Fresh
      BY <1>1, <2>1, <2>2 DEF Counted, RwTypeOK
    <3> QED
      BY <2>1, <2>2, <3>1 DEF Counted, NoEntry, Fresh
  <2>3. CASE k # l
    <3>1. entry'[k] = entry[k]
      BY <1>1, <2>3 DEF RwTypeOK
    <3> QED
      BY <2>1, <3>1 DEF Counted
  <2> QED
    BY <2>2, <2>3
<1> QED
  BY <1>2, <1>3 DEF RwInv

(* An entry nobody uses may go.                                            *)
LEMMA Removed ==
  ASSUME RwInv, RwTypeOK', UNCHANGED <<reads, writer, wait>>, NEW k \in Lock,
         entry'[k] = entry[k] \/ (~Busy(k) /\ entry'[k] = NoEntry)
  PROVE  Counted(k)'
<1>1. Counted(k) /\ Waiters(k)' = Waiters(k) /\ Tokens(k)' = Tokens(k)
  BY DEF RwInv, Waiters, Tokens
<1>2. ASSUME ~Busy(k) PROVE entry[k].users = 0 /\ entry[k].holds = 0
  BY <1>2, EntryTyped DEF RwInv, Busy
<1> QED
  BY <1>1, <1>2 DEF Counted, NoEntry

LEMMA RwDestroyStep ==
  ASSUME RwInv, NEW l \in Lock, RwLockDestroy(l)
  PROVE  RwInv'
<1>1. /\ RwTypeOK /\ entry' = [entry EXCEPT ![l] = NoEntry]
      /\ word' = [word EXCEPT ![l] = "dead"] /\ UNCHANGED <<reads, writer, wait>>
      /\ ~Busy(l)
  <2>1. ~entry[l].listed => ~Busy(l)
    BY DEF RwInv, Counted, NoEntry, Busy
  <2> QED
    BY <2>1 DEF RwLockDestroy, RwInv, Removable
<1>2. RwTypeOK'
  BY <1>1, NoEntryTyped DEF RwTypeOK, Entries
<1>3. \A k \in Lock : entry'[k] = entry[k] \/ (~Busy(k) /\ entry'[k] = NoEntry)
  BY <1>1 DEF RwTypeOK
<1> QED
  BY <1>1, <1>2, <1>3, Removed DEF RwInv

LEMMA RangeDestroyStep ==
  ASSUME RwInv, NEW R \in SUBSET Lock, RangeDestroy(R)
  PROVE  RwInv'
<1>1. /\ RwTypeOK /\ UNCHANGED <<reads, writer, wait>>
      /\ entry' = [l \in Lock |-> IF l \in R THEN NoEntry ELSE entry[l]]
      /\ word' = [l \in Lock |-> IF l \in R /\ entry[l].listed THEN "dead" ELSE word[l]]
      /\ \A k \in R : ~Busy(k)
  BY DEF RangeDestroy, RangeBusy, RwInv
<1>2. RwTypeOK'
  BY <1>1, NoEntryTyped DEF RwTypeOK, Entries
<1>3. \A k \in Lock : entry'[k] = entry[k] \/ (~Busy(k) /\ entry'[k] = NoEntry)
  BY <1>1
<1> QED
  BY <1>1, <1>2, <1>3, Removed DEF RwInv

LEMMA AcquireBeginStep ==
  ASSUME RwInv, NEW g \in Guest, NEW l \in Lock, NEW write \in BOOLEAN,
         AcquireBegin(g, l, write)
  PROVE  RwInv'
<1> DEFINE a == [lock |-> l, write |-> write]
<1>1. /\ RwTypeOK /\ wait[g] = Idle
      /\ entry' = [entry EXCEPT ![l].listed = TRUE, ![l].users = @ + 1]
      /\ word' = [word EXCEPT ![l] = "mark"] /\ wait' = [wait EXCEPT ![g] = a]
      /\ UNCHANGED <<reads, writer>>
  BY DEF AcquireBegin, RwInv
<1>2. /\ a \in Acquisitions /\ a.lock = l
      /\ \A k \in Lock : wait[g].lock # k
  BY <1>1, RwFacts DEF Acquisitions, Idle
<1> HIDE DEF a
<1>3. /\ entry'[l].listed /\ entry'[l].users = entry[l].users + 1
      /\ entry'[l].holds = entry[l].holds /\ entry'[l] \in Entries
      /\ entry[l].users \in Nat
  <2>1. entry \in [Lock -> Entries]
    BY <1>1 DEF RwTypeOK, Entries
  <2>2. entry' = [entry EXCEPT ![l].listed = TRUE, ![l].users = @ + 1]
    BY <1>1
  <2> QED
    BY <2>1, <2>2 DEF Entries
<1>4. \A k \in Lock \ {l} : entry'[k] = entry[k]
  BY <1>1 DEF RwTypeOK
<1>5. RwTypeOK'
  <2>1. entry' \in [Lock -> Entries]
    <3>1. \A k \in Lock : entry'[k] \in Entries
      BY <1>1, <1>3, <1>4, EntryTyped
    <3> QED
      BY <1>1, <3>1 DEF RwTypeOK
  <2>2. wait' \in [Guest -> Acquisitions]
    BY <1>1, <1>2, WaiterMoves
  <2> QED
    BY <1>1, <2>1, <2>2 DEF RwTypeOK, Entries, Acquisitions
<1>6. ASSUME NEW k \in Lock PROVE Counted(k)'
  <2>1. Counted(k) /\ Tokens(k)' = Tokens(k)
    BY <1>1 DEF RwInv, Tokens
  <2>2. Swaps(g, Waiters(k), Waiters(k)') /\ g \notin Waiters(k) /\ (g \in Waiters(k)' <=> k = l)
    BY <1>1, <1>2, WaiterMoves
  <2>3. CASE k = l
    <3>1. Cardinality(Waiters(k)') = Cardinality(Waiters(k)) + 1
      BY <2>2, <2>3 DEF Swaps, In
    <3> QED
      BY <1>3, <2>1, <2>3, <3>1 DEF Counted
  <2>4. CASE k # l
    <3>1. Cardinality(Waiters(k)') = Cardinality(Waiters(k))
      BY <2>2, <2>4 DEF Swaps, In
    <3> QED
      BY <1>4, <2>1, <2>4, <3>1 DEF Counted
  <2> QED
    BY <2>3, <2>4
<1> QED
  BY <1>5, <1>6 DEF RwInv

(* The acquisition of g ends; d tokens more are held.                      *)
LEMMA Leaves ==
  ASSUME RwInv, NEW g \in Guest, NEW l \in Lock, wait[g].lock = l,
         wait' = [wait EXCEPT ![g] = Idle], RwTypeOK',
         entry'[l].listed = entry[l].listed, entry'[l].users = entry[l].users - 1,
         IsFiniteSet(Tokens(l)'), entry'[l].holds = Cardinality(Tokens(l)'),
         \A k \in Lock \ {l} : entry'[k] = entry[k] /\ Tokens(k)' = Tokens(k)
  PROVE  RwInv'
<1>1. RwTypeOK /\ Idle \in Acquisitions /\ \A k \in Lock : Idle.lock # k
  BY RwFacts DEF RwInv, Acquisitions, Idle
<1>2. ASSUME NEW k \in Lock PROVE Counted(k)'
  <2>1. /\ Swaps(g, Waiters(k), Waiters(k)')
        /\ (g \in Waiters(k) <=> k = l) /\ g \notin Waiters(k)'
    BY <1>1, WaiterMoves
  <2>2. Counted(k)
    BY DEF RwInv
  <2>3. CASE k = l
    <3>1. /\ Cardinality(Waiters(k)') = Cardinality(Waiters(k)) - 1
          /\ Cardinality(Waiters(k)) > 0
      BY <2>1, <2>3 DEF Swaps, In
    <3>2. entry[k].listed
      BY <2>2, <3>1 DEF Counted, NoEntry
    <3> QED
      BY <2>2, <2>3, <3>1, <3>2 DEF Counted
  <2>4. CASE k # l
    <3>1. Cardinality(Waiters(k)') = Cardinality(Waiters(k))
      BY <2>1, <2>4 DEF Swaps, In
    <3> QED
      BY <2>2, <2>4, <3>1 DEF Counted
  <2> QED
    BY <2>3, <2>4
<1> QED
  BY <1>2 DEF RwInv

(* Who is inside an acquisition of l counts as a user.                     *)
LEMMA Inside ==
  ASSUME RwInv, NEW g \in Guest, wait[g] # Idle
  PROVE  /\ wait[g].lock \in Lock /\ wait[g].write \in BOOLEAN
         /\ entry[wait[g].lock].users > 0 /\ entry[wait[g].lock].listed
<1>1. wait[g].lock \in Lock /\ wait[g].write \in BOOLEAN
  BY DEF RwInv, RwTypeOK
<1>2. g \in Waiters(wait[g].lock) /\ Waiters(wait[g].lock) \in SUBSET Guest
  BY DEF Waiters
<1>3. Cardinality(Waiters(wait[g].lock)) > 0
  <2>1. /\ Cardinality(Waiters(wait[g].lock)) \in Nat
        /\ Cardinality(Waiters(wait[g].lock)) # 0
    BY <1>2, CountEmpty, RwFacts
  <2> QED
    BY <2>1
<1>4. Counted(wait[g].lock)
  BY <1>1 DEF RwInv
<1> QED
  BY <1>1, <1>3, <1>4 DEF Counted, NoEntry

LEMMA AcquireEndStep ==
  ASSUME RwInv, NEW g \in Guest, AcquireEnd(g)
  PROVE  RwInv'
<1>0. PICK l \in Lock : l = wait[g].lock /\ entry[l].users > 0
  BY Inside DEF AcquireEnd, AcquireFail
<1>1. /\ RwTypeOK /\ wait[g] # Idle /\ Grantable(l, wait[g].write)
      /\ IF wait[g].write
           THEN writer' = [writer EXCEPT ![l] = g] /\ UNCHANGED reads
           ELSE reads' = [reads EXCEPT ![g][l] = @ + 1] /\ UNCHANGED writer
      /\ entry' = [entry EXCEPT ![l].users = @ - 1, ![l].holds = @ + 1]
      /\ wait' = [wait EXCEPT ![g] = Idle] /\ UNCHANGED word
  BY <1>0 DEF AcquireEnd, RwInv
<1>2. l \in Lock /\ wait[g].write \in BOOLEAN /\ entry[l].users > 0
  BY <1>0, <1>1, Inside
<1>3. Counted(l)
  BY <1>2 DEF RwInv
<1>4. /\ entry' \in [Lock -> Entries]
      /\ entry'[l].listed = entry[l].listed /\ entry'[l].users = entry[l].users - 1
      /\ entry'[l].holds = entry[l].holds + 1 /\ entry[l].holds \in Nat
      /\ \A k \in Lock \ {l} : entry'[k] = entry[k]
  <2>1. entry \in [Lock -> Entries]
    BY <1>1 DEF RwTypeOK, Entries
  <2>2. entry' = [entry EXCEPT ![l].users = @ - 1, ![l].holds = @ + 1]
    BY <1>1
  <2> QED
    BY <1>2, <2>1, <2>2 DEF Entries
<1>5. RwTypeOK' /\ wait' \in [Guest -> Acquisitions]
  <2>1. wait' \in [Guest -> Acquisitions]
    BY <1>1 DEF RwTypeOK, Acquisitions
  <2>2. reads' \in [Guest -> [Lock -> Nat]] /\ writer' \in [Lock -> Guest \cup {Nobody}]
    BY <1>1, <1>2 DEF RwTypeOK
  <2> QED
    BY <1>1, <1>4, <2>1, <2>2 DEF RwTypeOK, Entries, Acquisitions
<1>6. \A k \in Lock \ {l} : Tokens(k)' = Tokens(k)
  <2>1. \A k \in Lock \ {l} : writer'[k] = writer[k] /\ \A h \in Guest : reads'[h][k] = reads[h][k]
    BY <1>1, <1>2 DEF RwTypeOK
  <2> QED
    BY <2>1 DEF Tokens
<1>7. OneMore(Tokens(l), Tokens(l)')
  <2> DEFINE row == [h \in Guest |-> reads[h][l]]
             next == [h \in Guest |-> reads'[h][l]]
  <2>1. Tokens(l) = TokensOf(row, writer[l]) /\ Tokens(l)' = TokensOf(next, writer'[l])
    BY DEF Tokens
  <2>2. row \in [Guest -> Nat] /\ IsFiniteSet(TokensOf(row, writer[l])) /\ writer[l] = Nobody
    BY <1>1, <1>2, <1>3, <2>1 DEF RwTypeOK, Counted, Grantable
  <2>3. CASE wait[g].write
    <3>1. writer'[l] = g /\ next = row
      BY <1>1, <1>2, <2>3 DEF RwTypeOK
    <3> HIDE DEF row, next
    <3> QED
      BY <2>1, <2>2, <3>1, WriteTaken
  <2>4. CASE ~wait[g].write
    <3>1. /\ next \in [Guest -> Nat] /\ next[g] = row[g] + 1 /\ writer'[l] = writer[l]
          /\ \A h \in Guest \ {g} : next[h] = row[h]
      BY <1>1, <1>2, <2>4 DEF RwTypeOK
    <3> HIDE DEF row, next
    <3> QED
      BY <2>1, <2>2, <3>1, ReadTaken
  <2> QED
    BY <2>3, <2>4
<1>8. IsFiniteSet(Tokens(l)') /\ entry'[l].holds = Cardinality(Tokens(l)')
  BY <1>3, <1>4, <1>7 DEF OneMore, Counted
<1> QED
  BY <1>1, <1>2, <1>4, <1>5, <1>6, <1>8, <1>0, Leaves

LEMMA AcquireFailStep ==
  ASSUME RwInv, NEW g \in Guest, AcquireFail(g)
  PROVE  RwInv'
<1>0. PICK l \in Lock : l = wait[g].lock /\ entry[l].users > 0
  BY Inside DEF AcquireEnd, AcquireFail
<1>1. /\ RwTypeOK /\ wait[g] # Idle
      /\ entry' = [entry EXCEPT ![l].users = @ - 1]
      /\ wait' = [wait EXCEPT ![g] = Idle] /\ UNCHANGED <<word, reads, writer>>
  BY <1>0 DEF AcquireFail, RwInv
<1>2. l \in Lock /\ entry[l].users > 0
  BY <1>0
<1>3. Counted(l)
  BY <1>2 DEF RwInv
<1>4. /\ entry' \in [Lock -> Entries]
      /\ entry'[l].listed = entry[l].listed /\ entry'[l].users = entry[l].users - 1
      /\ entry'[l].holds = entry[l].holds
      /\ \A k \in Lock \ {l} : entry'[k] = entry[k]
  <2>1. entry \in [Lock -> Entries]
    BY <1>1 DEF RwTypeOK, Entries
  <2>2. entry' = [entry EXCEPT ![l].users = @ - 1]
    BY <1>1
  <2> QED
    BY <1>2, <2>1, <2>2 DEF Entries
<1>5. RwTypeOK'
  <2>1. wait' \in [Guest -> Acquisitions]
    BY <1>1 DEF RwTypeOK, Acquisitions
  <2> QED
    BY <1>1, <1>4, <2>1 DEF RwTypeOK, Entries, Acquisitions
<1>6. \A k \in Lock : Tokens(k)' = Tokens(k)
  BY <1>1 DEF Tokens
<1>7. IsFiniteSet(Tokens(l)') /\ entry'[l].holds = Cardinality(Tokens(l)')
  BY <1>2, <1>3, <1>4, <1>6 DEF Counted
<1> QED
  BY <1>1, <1>2, <1>4, <1>5, <1>6, <1>7, <1>0, Leaves

LEMMA RwUnlockStep ==
  ASSUME RwInv, NEW g \in Guest, NEW l \in Lock, RwLockUnlock(g, l)
  PROVE  RwInv'
<1>1. /\ RwTypeOK /\ Holds(g, l) /\ entry[l].listed /\ entry[l].holds > 0
      /\ IF writer[l] = g
           THEN writer' = [writer EXCEPT ![l] = Nobody] /\ UNCHANGED reads
           ELSE reads' = [reads EXCEPT ![g][l] = @ - 1] /\ UNCHANGED writer
      /\ entry' = [entry EXCEPT ![l].holds = @ - 1] /\ UNCHANGED <<word, wait>>
  BY DEF RwLockUnlock, RwInv
<1>2. /\ entry' \in [Lock -> Entries]
      /\ entry'[l].listed = entry[l].listed /\ entry'[l].users = entry[l].users
      /\ entry'[l].holds = entry[l].holds - 1 /\ entry[l].holds \in Nat
      /\ \A k \in Lock \ {l} : entry'[k] = entry[k]
  <2>1. entry \in [Lock -> Entries]
    BY <1>1 DEF RwTypeOK, Entries
  <2>2. entry' = [entry EXCEPT ![l].holds = @ - 1] /\ entry[l].holds > 0
    BY <1>1
  <2> QED
    BY <2>1, <2>2 DEF Entries
<1>3. RwTypeOK'
  <2>1. reads' \in [Guest -> [Lock -> Nat]] /\ writer' \in [Lock -> Guest \cup {Nobody}]
    <3>1. CASE writer[l] = g
      <4>1. writer' = [writer EXCEPT ![l] = Nobody] /\ reads' = reads
        BY <1>1, <3>1
      <4> QED
        BY <1>1, <4>1 DEF RwTypeOK
    <3>2. CASE writer[l] # g
      <4>1. reads[g][l] > 0 /\ reads' = [reads EXCEPT ![g][l] = @ - 1] /\ writer' = writer
        BY <1>1, <3>2 DEF Holds
      <4>2. reads \in [Guest -> [Lock -> Nat]] /\ writer \in [Lock -> Guest \cup {Nobody}]
        BY <1>1 DEF RwTypeOK
      <4>3. reads[g][l] - 1 \in Nat
        BY <4>1, <4>2
      <4> QED
        BY <4>1, <4>2, <4>3
    <3> QED
      BY <3>1, <3>2
  <2> QED
    BY <1>1, <1>2, <2>1 DEF RwTypeOK, Entries
<1>4. OneMore(Tokens(l)', Tokens(l))
  <2> DEFINE row == [h \in Guest |-> reads[h][l]]
             next == [h \in Guest |-> reads'[h][l]]
  <2>1. Tokens(l) = TokensOf(row, writer[l]) /\ Tokens(l)' = TokensOf(next, writer'[l])
    BY DEF Tokens
  <2>2. row \in [Guest -> Nat] /\ IsFiniteSet(TokensOf(row, writer[l]))
    BY <1>1, <2>1 DEF RwTypeOK, RwInv, Counted
  <2>3. CASE writer[l] = g
    <3>1. writer'[l] = Nobody /\ next = row
      BY <1>1, <2>3 DEF RwTypeOK
    <3> HIDE DEF row, next
    <3> QED
      BY <2>1, <2>2, <2>3, <3>1, WriteTaken
  <2>4. CASE writer[l] # g
    <3>1. /\ next \in [Guest -> Nat] /\ row[g] = next[g] + 1 /\ writer'[l] = writer[l]
          /\ \A h \in Guest \ {g} : row[h] = next[h]
      BY <1>1, <2>4 DEF RwTypeOK, Holds
    <3> HIDE DEF row, next
    <3> QED
      BY <2>1, <2>2, <3>1, ReadTaken
  <2> QED
    BY <2>3, <2>4
<1>5. ASSUME NEW k \in Lock PROVE Counted(k)'
  <2>1. Counted(k) /\ Waiters(k)' = Waiters(k)
    BY <1>1 DEF RwInv, Waiters
  <2>2. CASE k = l
    BY <1>1, <1>2, <1>4, <2>1, <2>2 DEF Counted, OneMore
  <2>3. CASE k # l
    <3>1. writer'[k] = writer[k] /\ \A h \in Guest : reads'[h][k] = reads[h][k]
      BY <1>1, <2>3 DEF RwTypeOK
    <3>2. Tokens(k)' = Tokens(k) /\ entry'[k] = entry[k]
      BY <1>2, <2>3, <3>1 DEF Tokens
    <3> QED
      BY <2>1, <3>2 DEF Counted
  <2> QED
    BY <2>2, <2>3
<1> QED
  BY <1>3, <1>5 DEF RwInv

LEMMA RwStep ==
  ASSUME RwInv, [RwNext]_rwVars
  PROVE  RwInv'
<1>1. CASE RwNext
  BY <1>1, RwInitStep, RwDestroyStep, RangeDestroyStep, AcquireBeginStep, AcquireEndStep,
     AcquireFailStep, RwUnlockStep DEF RwNext
<1>2. CASE UNCHANGED rwVars
  <2>1. RwTypeOK'
    BY <1>2 DEF RwInv, RwTypeOK, rwVars
  <2>2. \A l \in Lock : Counted(l)'
    BY <1>2 DEF RwInv, Counted, Waiters, Tokens, rwVars
  <2> QED
    BY <2>1, <2>2 DEF RwInv
<1> QED
  BY <1>1, <1>2

LEMMA RwStart ==
  ASSUME RwInit
  PROVE  RwInv
<1>1. RwTypeOK
  BY NoEntryTyped DEF RwInit, RwTypeOK, Entries
<1>2. ASSUME NEW l \in Lock PROVE Counted(l)
  <2>1. Waiters(l) = {}
    BY RwFacts DEF RwInit, Waiters, Idle
  <2>2. Tokens(l) = {}
    <3> DEFINE row == [g \in Guest |-> reads[g][l]]
    <3>1. Tokens(l) = TokensOf(row, Nobody) /\ \A g \in Guest : row[g] = 0
      BY DEF RwInit, Tokens
    <3> HIDE DEF row
    <3>2. ASSUME NEW x PROVE x \notin TokensOf(row, Nobody)
      <4>1. ~ \E g \in Guest : \E k \in 1..row[g] : x = <<g, k>>
        BY <3>1
      <4> QED
        BY <4>1, TokenIn
    <3> QED
      BY <3>1, <3>2
  <2> QED
    BY <2>1, <2>2, FS_EmptySet DEF RwInit, Counted, NoEntry
<1> QED
  BY <1>1, <1>2 DEF RwInv

LEMMA RwOutlive ==
  ASSUME RwInv
  PROVE  EntriesOutliveUsers
<1> SUFFICES ASSUME NEW g \in Guest, NEW l \in Lock, wait[g].lock = l \/ Holds(g, l)
             PROVE  entry[l].listed
  BY DEF EntriesOutliveUsers
<1>1. CASE wait[g].lock = l
  BY <1>1, Inside, RwFacts DEF Idle
<1>2. CASE Holds(g, l)
  <2> DEFINE row == [h \in Guest |-> reads[h][l]]
  <2>1. Tokens(l) = TokensOf(row, writer[l]) /\ row[g] = reads[g][l] /\ row[g] \in Nat
    BY DEF Tokens, RwInv, RwTypeOK
  <2>2. \E x : x \in Tokens(l)
    <3> HIDE DEF row
    <3>1. CASE writer[l] = g
      <4>1. <<g, 0>> \in TokensOf(row, writer[l])
        BY <3>1, TokenIn, RwFacts
      <4> QED
        BY <2>1, <4>1
    <3>2. CASE writer[l] # g
      <4>1. 1 \in 1..row[g]
        BY <1>2, <2>1, <3>2 DEF Holds
      <4>2. <<g, 1>> \in TokensOf(row, writer[l])
        BY <4>1, TokenIn
      <4> QED
        BY <2>1, <4>2
    <3> QED
      BY <3>1, <3>2
  <2>3. Counted(l)
    BY DEF RwInv
  <2>4. Cardinality(Tokens(l)) # 0
    BY <2>2, <2>3, FS_EmptySet DEF Counted
  <2> QED
    BY <2>3, <2>4 DEF Counted, NoEntry
<1> QED
  BY <1>1, <1>2

(* Whatever the loader does, the table alone keeps what threads use: the   *)
(* entry a thread sleeps in, and that of a lock it holds, stay listed over *)
(* every destruction of one lock or of a range.                            *)
THEOREM LocksOutliveUsers == RwSpec => []EntriesOutliveUsers
<1>1. RwInit => RwInv
  BY RwStart
<1>2. RwInv /\ [RwNext]_rwVars => RwInv'
  BY RwStep
<1>3. RwInv => EntriesOutliveUsers
  BY RwOutlive
<1> QED
  BY <1>1, <1>2, <1>3, PTL DEF RwSpec

-----------------------------------------------------------------------------
(* The calls of the loader's thread. *)

LEMMA ConsFacts ==
  ASSUME NEW S, NEW s \in Seq(S), NEW e \in S, NEW t, t = <<e>> \o s
  PROVE  /\ t \in Seq(S) /\ t # <<>> /\ Head(t) = e /\ t[1] = e
         /\ Len(t) = Len(s) + 1 /\ Len(s) \in Nat
         /\ \A k \in 1..Len(s) : t[k + 1] = s[k]
         /\ \A k \in 2..Len(t) : t[k] = s[k - 1] /\ k - 1 \in 1..Len(s)
<1>1. t \in Seq(S) /\ Len(t) = Len(s) + 1 /\ Len(s) \in Nat /\ t # <<>> /\ t[1] = e
  OBVIOUS
<1>2. \A k \in 1..Len(s) : t[k + 1] = s[k]
  OBVIOUS
<1>3. \A k \in 2..Len(t) : k - 1 \in 1..Len(s) /\ k - 1 + 1 = k
  BY <1>1
<1>4. Head(t) = e
  BY <1>1
<1> QED
  BY <1>1, <1>2, <1>3, <1>4

LEMMA FramedPush ==
  ASSUME NEW s, Framed(s), NEW f \in Frames, NEW t, t = <<f>> \o s,
         s # <<>> => s[1].at \in {"game", "drain"},
         f.kind \in Owning => \A e \in Elems(s) : About(e) # f.of
  PROVE  Framed(t) /\ Elems(t) = Elems(s) \cup {f} /\ t # <<>> /\ Head(t) = f
<1>1. s \in Seq(Frames)
  BY DEF Framed
<1>2. /\ t \in Seq(Frames) /\ t # <<>> /\ Head(t) = f /\ t[1] = f
      /\ Len(t) = Len(s) + 1 /\ Len(s) \in Nat
      /\ \A k \in 1..Len(s) : t[k + 1] = s[k]
      /\ \A k \in 2..Len(t) : t[k] = s[k - 1] /\ k - 1 \in 1..Len(s)
  BY <1>1, ConsFacts
<1>3. ASSUME NEW k \in 2..Len(t) PROVE t[k].at \in {"game", "drain"}
  <2>1. t[k] = s[k - 1] /\ k - 1 \in 1..Len(s)
    BY <1>2
  <2>2. k - 1 = 1 \/ k - 1 \in 2..Len(s)
    BY <1>2, <2>1
  <2>3. s # <<>>
    BY <1>2, <2>1
  <2> QED
    BY <2>1, <2>2, <2>3 DEF Framed
<1>4. ASSUME NEW k \in 1..Len(t), NEW j \in 1..Len(t), k < j, t[k].kind \in Owning
      PROVE  About(t[j]) # t[k].of
  <2>1. j \in 2..Len(t) /\ t[j] = s[j - 1] /\ j - 1 \in 1..Len(s)
    BY <1>2, <1>4
  <2>2. CASE k = 1
    <3>1. t[k] = f /\ s[j - 1] \in Elems(s)
      BY <1>2, <2>1, <2>2 DEF Elems
    <3> QED
      BY <1>4, <2>1, <3>1
  <2>3. CASE k # 1
    <3>1. t[k] = s[k - 1] /\ k - 1 \in 1..Len(s) /\ k - 1 < j - 1
      BY <1>2, <1>4, <2>1, <2>3
    <3> QED
      BY <1>4, <2>1, <3>1 DEF Framed
  <2> QED
    BY <2>2, <2>3
<1>5. Elems(t) = Elems(s) \cup {f}
  <2>1. ASSUME NEW k \in 1..Len(t) PROVE t[k] \in Elems(s) \cup {f}
    <3>1. k = 1 \/ k \in 2..Len(t)
      BY <1>2
    <3> QED
      BY <1>2, <3>1 DEF Elems
  <2>2. ASSUME NEW k \in 1..Len(s) PROVE s[k] \in Elems(t)
    <3>1. k + 1 \in 1..Len(t) /\ t[k + 1] = s[k]
      BY <1>2
    <3> QED
      BY <3>1 DEF Elems
  <2>3. f \in Elems(t)
    <3>1. 1 \in 1..Len(t)
      BY <1>2
    <3> QED
      BY <1>2, <3>1 DEF Elems
  <2> QED
    BY <2>1, <2>2, <2>3 DEF Elems
<1> QED
  BY <1>2, <1>3, <1>4, <1>5 DEF Framed

(* The calls under the innermost one.                                      *)
LEMMA FramedTail ==
  ASSUME NEW s, Framed(s), s # <<>>, NEW r, r = Tail(s)
  PROVE  /\ Framed(r) /\ s[1] \in Frames /\ Head(s) = s[1]
         /\ Elems(s) = Elems(r) \cup {s[1]}
         /\ \A e \in Elems(r) : e.at \in {"game", "drain"}
         /\ r # <<>> => r[1] \in Elems(r) /\ Head(r) = r[1]
         /\ s[1].kind \in Owning => \A e \in Elems(r) : About(e) # s[1].of
<1>1. s \in Seq(Frames)
  BY DEF Framed
<1>2. /\ Head(s) = s[1] /\ s[1] \in Frames /\ r \in Seq(Frames)
      /\ Len(s) \in Nat \ {0} /\ Len(r) = Len(s) - 1
      /\ \A k \in 1..Len(r) : r[k] = s[k + 1] /\ s[k + 1] \in Frames
      /\ r = <<>> <=> Len(r) = 0
  <2>1. Head(s) \in Frames /\ r \in Seq(Frames) /\ Len(r) = Len(s) - 1
    BY <1>1, HeadTailProperties
  <2>2. \A k \in 1..Len(r) : r[k] = s[k + 1]
    BY <1>1, HeadTailProperties
  <2>3. Len(s) \in Nat \ {0}
    BY <1>1, EmptySeq
  <2>4. r = <<>> <=> Len(r) = 0
    BY <2>1, EmptySeq
  <2>5. Head(s) = s[1]
    BY <1>1
  <2>6. \A k \in 1..Len(r) : s[k + 1] \in Frames
    <3>1. \A k \in 1..Len(r) : k + 1 \in 1..Len(s)
      BY <2>1, <2>3
    <3> QED
      BY <1>1, <3>1
  <2> QED
    BY <2>1, <2>2, <2>3, <2>4, <2>5, <2>6
<1>3. \A k \in 1..Len(r) : k + 1 \in 2..Len(s) /\ k + 1 \in 1..Len(s)
  BY <1>2
<1>4. Framed(r)
  <2>1. ASSUME NEW k \in 2..Len(r) PROVE r[k].at \in {"game", "drain"}
    <3>1. k \in 1..Len(r)
      BY <1>2
    <3> QED
      BY <1>2, <1>3, <3>1 DEF Framed
  <2>2. ASSUME NEW k \in 1..Len(r), NEW j \in 1..Len(r), k < j, r[k].kind \in Owning
        PROVE  About(r[j]) # r[k].of
    <3>1. k + 1 < j + 1
      BY <2>2
    <3> QED
      BY <1>2, <1>3, <2>2, <3>1 DEF Framed
  <2> QED
    BY <1>2, <2>1, <2>2 DEF Framed
<1>5. \A e \in Elems(r) : e.at \in {"game", "drain"}
  BY <1>2, <1>3 DEF Framed, Elems
<1>6. Elems(s) = Elems(r) \cup {s[1]}
  <2>1. ASSUME NEW k \in 1..Len(s) PROVE s[k] \in Elems(r) \cup {s[1]}
    <3>1. k = 1 \/ (k - 1 \in 1..Len(r) /\ s[k] = r[k - 1])
      BY <1>2
    <3> QED
      BY <3>1 DEF Elems
  <2>2. ASSUME NEW k \in 1..Len(r) PROVE r[k] \in Elems(s)
    BY <1>2, <1>3 DEF Elems
  <2>3. s[1] \in Elems(s)
    <3>1. 1 \in 1..Len(s)
      BY <1>2
    <3> QED
      BY <3>1 DEF Elems
  <2> QED
    BY <2>1, <2>2, <2>3 DEF Elems
<1>7. r # <<>> => r[1] \in Elems(r) /\ Head(r) = r[1]
  <2>1. r # <<>> => 1 \in 1..Len(r)
    BY <1>2
  <2> QED
    BY <1>2, <2>1 DEF Elems
<1>8. s[1].kind \in Owning => \A e \in Elems(r) : About(e) # s[1].of
  <2>1. ASSUME NEW k \in 1..Len(r), s[1].kind \in Owning PROVE About(r[k]) # s[1].of
    <3>1. 1 \in 1..Len(s) /\ 1 < k + 1
      BY <1>2
    <3> QED
      BY <1>2, <1>3, <2>1, <3>1 DEF Framed
  <2> QED
    BY <2>1 DEF Elems
<1> QED
  BY <1>2, <1>4, <1>5, <1>6, <1>7, <1>8

(* The calls about library i.                                              *)
Here(i) == {f \in Calls : About(f) = i}

(* What the innermost call is, and what the code asks of the others.       *)
LEMMA TopFacts ==
  ASSUME Framed(stack)
  PROVE  /\ stack # <<>> => Top \in Calls /\ Top \in Frames /\ Top = stack[1]
         /\ stack = <<>> => Top = Frame("main", "none", "game") /\ Calls = {}
         /\ Calls \in SUBSET Frames
         /\ \A f \in Calls : f # Top => f.at \in {"game", "drain"}
         /\ \A i \in Image : OnStack(i) <=> Here(i) # {}
<1>1. stack \in Seq(Frames)
  BY DEF Framed
<1>2. Calls \in SUBSET Frames
  BY <1>1 DEF Calls, Elems
<1>3. ASSUME stack # <<>> PROVE Top \in Calls /\ Top \in Frames /\ Top = stack[1]
  <2>1. Top = stack[1] /\ stack[1] \in Frames /\ 1 \in 1..Len(stack)
    BY <1>1, <1>3 DEF Top
  <2> QED
    BY <2>1 DEF Calls, Elems
<1>4. ASSUME stack = <<>> PROVE Top = Frame("main", "none", "game") /\ Calls = {}
  BY <1>4 DEF Top, Calls, Elems
<1>5. ASSUME NEW f \in Calls, f # Top PROVE f.at \in {"game", "drain"}
  <2>1. stack # <<>>
    BY <1>4
  <2>2. PICK r : r = Tail(stack)
    OBVIOUS
  <2>3. Elems(stack) = Elems(r) \cup {stack[1]}
    BY <2>1, <2>2, FramedTail
  <2>4. f \in Elems(r)
    BY <1>3, <1>5, <2>1, <2>3 DEF Calls
  <2> QED
    BY <2>1, <2>2, <2>4, FramedTail
<1>6. ASSUME NEW i \in Image PROVE OnStack(i) <=> Here(i) # {}
  BY <1>1 DEF OnStack, Here, Calls, Elems, About
<1> QED
  BY <1>2, <1>3, <1>4, <1>5, <1>6

(* A library is still being loaded when a call loads it.                   *)
LEMMA UsableFacts ==
  ASSUME Framed(stack), NEW i \in Image
  PROVE  Usable(i) <=> Listed(i) /\ \A f \in Here(i) : f.kind # "load"
<1>1. ASSUME At("load", "sections"), Top.of = i PROVE Top \in Here(i) /\ Top.kind = "load"
  <2>1. stack # <<>>
    BY <1>1, TopFacts DEF At, Frame
  <2> QED
    BY <1>1, <2>1, TopFacts DEF At, Here, About
<1>2. ASSUME NEW f \in Here(i), f.kind = "load" PROVE At("load", "sections") /\ Top.of = i
  <2>1. f \in Frames /\ f \in Calls /\ f.of = i
    BY <1>2, TopFacts DEF Here, About
  <2>2. f.at = "sections"
    BY <1>2, <2>1 DEF Frames
  <2> QED
    BY <1>2, <2>1, <2>2, TopFacts DEF At
<1> QED
  BY <1>1, <1>2 DEF Usable

(* A step changes the calls about library i alone.                         *)
Moved(i, B) ==
  /\ Framed(stack')
  /\ \A f \in Here(i) : f.kind # "callback"
  /\ Here(i)' = B
  /\ \A j \in Image \ {i} : Here(j)' = Here(j)

LEMMA MovedNot ==
  ASSUME Framed(stack), UNCHANGED stack, NEW i \in Image,
         \A f \in Here(i) : f.kind # "callback"
  PROVE  Moved(i, Here(i))
<1>1. Calls' = Calls /\ Framed(stack')
  BY DEF Calls
<1> QED
  BY <1>1 DEF Moved, Here

LEMMA MovedPush ==
  ASSUME Framed(stack), InGame, NEW i \in Image, Here(i) = {},
         NEW f \in Frames, f.kind \in Owning, f.of = i, Push(f)
  PROVE  Moved(i, {f})
<1>1. stack # <<>> => stack[1].at \in {"game", "drain"}
  BY TopFacts DEF InGame
<1>2. About(f) = i
  BY DEF About, Owning
<1>3. \A e \in Elems(stack) : About(e) # f.of
  BY DEF Here, Calls
<1>4. Framed(stack') /\ Calls' = Calls \cup {f}
  BY <1>1, <1>3, FramedPush DEF Push, Calls
<1> QED
  BY <1>2, <1>4 DEF Moved, Here

LEMMA MovedReturn ==
  ASSUME Framed(stack), stack # <<>>, NEW i \in Image, Top.kind \in Owning, Top.of = i, Return
  PROVE  Here(i) = {Top} /\ Moved(i, {})
<1>1. PICK r : r = Tail(stack) /\ stack' = r
  BY DEF Return
<1>2. Top = stack[1] /\ About(Top) = i /\ Top.kind # "callback"
  BY TopFacts DEF About, Owning
<1>3. /\ Framed(stack') /\ Calls = Calls' \cup {Top}
      /\ \A e \in Calls' : About(e) # i
  <2>1. /\ Framed(r) /\ Elems(stack) = Elems(r) \cup {stack[1]}
        /\ stack[1].kind \in Owning => \A e \in Elems(r) : About(e) # stack[1].of
    BY <1>1, FramedTail
  <2>2. Calls' = Elems(r)
    BY <1>1 DEF Calls
  <2> QED
    BY <1>1, <1>2, <2>1, <2>2 DEF Calls
<1>4. Here(i) = {Top} /\ Here(i)' = {}
  BY <1>2, <1>3 DEF Here
<1>5. \A j \in Image \ {i} : Here(j)' = Here(j)
  BY <1>2, <1>3 DEF Here
<1> QED
  BY <1>2, <1>3, <1>4, <1>5 DEF Moved

LEMMA MovedGoto ==
  ASSUME Framed(stack), stack # <<>>, NEW i \in Image, Top.kind \in Owning, Top.of = i,
         NEW at, Goto(at), NEW f \in Frames, f = [Top EXCEPT !.at = at]
  PROVE  Here(i) = {Top} /\ Moved(i, {f})
<1>1. PICK r : r = Tail(stack) /\ stack' = <<f>> \o r
  BY DEF Goto
<1>2. /\ Top = stack[1] /\ About(Top) = i /\ Top.kind # "callback"
      /\ f.kind = Top.kind /\ f.of = i /\ About(f) = i
  <2>1. Top \in Frames /\ Top = stack[1]
    BY TopFacts
  <2>2. f.kind = Top.kind /\ f.of = Top.of
    BY <2>1 DEF Frames
  <2> QED
    BY <2>1, <2>2 DEF About, Owning
<1>3. /\ Framed(r) /\ Calls = Elems(r) \cup {Top}
      /\ \A e \in Elems(r) : About(e) # i
      /\ r # <<>> => r[1].at \in {"game", "drain"}
  <2>1. /\ Framed(r) /\ Elems(stack) = Elems(r) \cup {stack[1]}
        /\ \A e \in Elems(r) : e.at \in {"game", "drain"}
        /\ r # <<>> => r[1] \in Elems(r)
        /\ stack[1].kind \in Owning => \A e \in Elems(r) : About(e) # stack[1].of
    BY <1>1, FramedTail
  <2> QED
    BY <1>2, <2>1 DEF Calls
<1>4. Framed(stack') /\ Calls' = Elems(r) \cup {f}
  <2>1. PICK t : t = <<f>> \o r
    OBVIOUS
  <2>2. \A e \in Elems(r) : About(e) # f.of
    BY <1>2, <1>3
  <2>3. Framed(t) /\ Elems(t) = Elems(r) \cup {f}
    BY <1>3, <2>1, <2>2, FramedPush
  <2> QED
    BY <1>1, <2>1, <2>3 DEF Calls
<1>5. Here(i) = {Top} /\ Here(i)' = {f}
  BY <1>2, <1>3, <1>4 DEF Here
<1>6. \A j \in Image \ {i} : Here(j)' = Here(j)
  BY <1>2, <1>3, <1>4 DEF Here
<1> QED
  BY <1>2, <1>4, <1>5, <1>6 DEF Moved

-----------------------------------------------------------------------------
(* What depends on library i depends on the calls about it. *)

Loaded(i) == Listed(i) /\ \A f \in Here(i) : f.kind # "load"

LEMMA HereFacts ==
  ASSUME NEW i \in Image
  PROVE  Framed(stack) =>
           /\ Usable(i) <=> Loaded(i)
           /\ Constructing(i) <=> \E f \in Here(i) : f.kind = "construct"
           /\ Destructed(i) <=> \E f \in Here(i) : f.kind = "unload" /\ f.at \in {"game", "drain"}
<1> SUFFICES ASSUME Framed(stack)
             PROVE  /\ Usable(i) <=> Loaded(i)
                    /\ Constructing(i) <=> \E f \in Here(i) : f.kind = "construct"
                    /\ Destructed(i) <=> \E f \in Here(i) : f.kind = "unload" /\ f.at \in {"game", "drain"}
  OBVIOUS
<1>1. Usable(i) <=> Loaded(i)
  BY UsableFacts DEF Loaded
<1> QED
  BY <1>1 DEF Constructing, Destructed, Here, About

LEMMA HereNext ==
  ASSUME NEW i \in Image
  PROVE  (Framed(stack) =>
           /\ Usable(i) <=> Loaded(i)
           /\ Constructing(i) <=> \E f \in Here(i) : f.kind = "construct"
           /\ Destructed(i) <=> \E f \in Here(i) : f.kind = "unload" /\ f.at \in {"game", "drain"})'
<1>1. Framed(stack) =>
           /\ Usable(i) <=> Loaded(i)
           /\ Constructing(i) <=> \E f \in Here(i) : f.kind = "construct"
           /\ Destructed(i) <=> \E f \in Here(i) : f.kind = "unload" /\ f.at \in {"game", "drain"}
  BY HereFacts
<1> QED
  BY <1>1, PTL

Libraries ==
  [slot : BOOLEAN, refs : Nat, initialized : BOOLEAN, finalized : BOOLEAN,
   unloading : BOOLEAN, prepare : BOOLEAN, finish : BOOLEAN, image : BOOLEAN,
   blocks : 0..Segments]

SameLife(j) ==
  /\ ghost'.started[j] = ghost.started[j] /\ ghost'.ended[j] = ghost.ended[j]
  /\ ghost'.owned[j] = ghost.owned[j]

LEMMA LifeKept ==
  ASSUME Framed(stack), Framed(stack'), NEW j \in Image, lib'[j] = lib[j], SameLife(j),
         Here(j)' = Here(j), LivesAt(j)
  PROVE  LivesAt(j)'
<1>1. (Usable(j)' <=> Usable(j)) /\ (Listed(j)' <=> Listed(j))
  BY HereFacts, HereNext DEF Loaded, Listed
<1>2. Alive(j)' <=> Alive(j)
  BY HereFacts, HereNext DEF Alive
<1> QED
  BY <1>1, <1>2 DEF LivesAt, SameLife

(* Only library i changes, and the table of libraries counts it.           *)
OnlyAt(i) ==
  /\ lib' \in [Image -> Libraries] /\ ghost' \in Ghosts
  /\ ghost'.pending = ghost.pending
  /\ \A j \in Image \ {i} : lib'[j] = lib[j] /\ SameLife(j)

Counts(i) ==
  /\ count' \in 0..MaxLibrary
  /\ \/ (Listed(i)' <=> Listed(i)) /\ count' = count
     \/ ~Listed(i) /\ Listed(i)' /\ count' = count + 1
     \/ Listed(i) /\ ~Listed(i)' /\ count' = count - 1

LEMMA CountKept ==
  ASSUME IInv, NEW i \in Image, OnlyAt(i), Counts(i)
  PROVE  count' = Cardinality({j \in Image : Listed(j)}')
<1> DEFINE S == {j \in Image : Listed(j)}
    R == {j \in Image : lib'[j].slot}
<1>1. R = {j \in Image : Listed(j)}' /\ count = Cardinality(S)
  BY DEF Listed, IInv, Lives
<1>2. /\ S \in SUBSET Image /\ R \in SUBSET Image /\ S \ {i} = R \ {i}
      /\ (i \in S <=> Listed(i)) /\ (i \in R <=> Listed(i)')
  BY DEF OnlyAt, Listed
<1>3. Swaps(i, S, R)
  BY <1>2, CountExchange, LoaderAssumption
<1> HIDE DEF S, R
<1> QED
  BY <1>1, <1>2, <1>3 DEF Counts, Swaps, In

(* A step of the loader that works on library i alone.                     *)
LEMMA LoaderStep ==
  ASSUME IInv, NEW i \in Image, NEW B, Moved(i, B), OnlyAt(i), Counts(i),
         RwInv', \A l \in Lock : entry'[l].listed => entry[l].listed,
         mutex' \in [Mutex -> Entries],
         \A m \in Mutex : mutex'[m] = mutex[m] \/ (mutex[m].users = 0 /\ mutex'[m] = NoEntry),
         UNCHANGED <<exits, locking>>,
         \A f \in B : Fits(f)',
         LivesAt(i)',
         \A k \in 1..Len(exits) : i \in {CodeOf[exits[k]], DsoOf[exits[k]]} =>
            Loaded(i)' /\ ~lib'[i].finalized,
         ~Loaded(i)' => /\ \A l \in LocksOf[i] : ~entry'[l].listed
                        /\ \A m \in MutexesOf[i] : ~mutex'[m].listed
  PROVE  IInv'
<1>1. Framed(stack) /\ Framed(stack') /\ TypeOK /\ exits' = exits /\ locking' = locking
  BY DEF IInv, Stacked, Moved
<1>2. \A j \in Image \ {i} : (Usable(j)' <=> Usable(j)) /\ lib'[j] = lib[j] /\ Here(j)' = Here(j)
  BY <1>1, HereFacts, HereNext DEF Loaded, Listed, OnlyAt, Moved
<1>3. Usable(i)' <=> Loaded(i)'
  BY <1>1, HereNext
<1>4. TypeOK'
  BY <1>1 DEF TypeOK, OnlyAt, Counts, RwInv, Libraries, Entries
<1>5. Stacked'
  <2>1. ASSUME NEW f \in Frames, f \in Calls' PROVE Fits(f)'
    <3>1. CASE About(f) = i
      <4>1. f \in B
        BY <2>1, <3>1 DEF Here, Moved
      <4> QED
        BY <4>1
    <3>2. CASE About(f) # i
      <4>1. About(f) \in Image
        BY LoaderAssumption DEF Frames, About
      <4>2. f \in Here(About(f))'
        BY <2>1 DEF Here
      <4>3. f \in Calls /\ lib'[About(f)] = lib[About(f)] /\ SameLife(About(f))
        BY <1>2, <3>2, <4>1, <4>2 DEF Here, OnlyAt
      <4>4. f.kind \in {"load", "construct", "unload"} => About(f) = f.of /\ f.of \in Image
        BY <4>1 DEF About
      <4>5. \A l \in LocksOf[About(f)] : l \in Lock
        BY <4>1, LoaderAssumption
      <4>6. Fits(f)
        BY <4>3 DEF IInv, Stacked
      <4>7. f.kind = "load" => Fits(f)'
        BY <4>3, <4>4, <4>6 DEF Fits, Listed, SameLife, Frames
      <4>8. f.kind = "unload" => Fits(f)'
        BY <4>3, <4>4, <4>5, <4>6 DEF Fits, Listed, SameLife, Frames
      <4>9. f.kind \notin {"load", "unload"} => Fits(f)'
        BY <4>3, <4>4, <4>6 DEF Fits, Listed
      <4> QED
        BY <4>7, <4>8, <4>9
    <3> QED
      BY <3>1, <3>2
  <2>2. \A f \in Calls' : f \in Frames
    BY <1>1 DEF Framed, Calls, Elems
  <2> QED
    BY <1>1, <2>1, <2>2 DEF Stacked
<1>6. Lives'
  <2>1. \A j \in Image \ {i} : LivesAt(j)'
    BY <1>1, <1>2, LifeKept DEF IInv, Lives, OnlyAt
  <2>2. ghost' \in Ghosts
    BY DEF OnlyAt
  <2> QED
    BY <2>1, <2>2, CountKept DEF Lives
<1>7. Registered'
  <2>1. ASSUME NEW k \in 1..Len(exits), NEW j \in {CodeOf[exits[k]], DsoOf[exits[k]]}
        PROVE  Usable(j)' /\ ~lib'[j].finalized
    <3>1. j \in Image /\ Usable(j) /\ ~lib[j].finalized
      <4>1. exits[k] \in Callback
        BY <1>1 DEF TypeOK
      <4> QED
        BY <4>1, LoaderAssumption DEF IInv, Registered
    <3> QED
      BY <1>2, <1>3, <2>1, <3>1
  <2>2. ASSUME NEW c \in Callback, ghost'.pending[c], ~ \E k \in 1..Len(exits) : exits[k] = c
        PROVE  \E f \in Calls' : f.kind = "callback" /\ f.of = c
    <3>1. PICK f \in Calls : f.kind = "callback" /\ f.of = c
      BY <2>2 DEF IInv, Registered, OnlyAt
    <3>2. About(f) \in Image \ {i}
      BY <3>1, LoaderAssumption DEF About, Moved, Here
    <3>3. f \in Calls'
      BY <3>2, <1>2 DEF Here
    <3> QED
      BY <3>1, <3>3
  <2> QED
    BY <1>1, <2>1, <2>2 DEF Registered
<1>8. Quiet'
  <2>1. ASSUME NEW m \in Mutex
        PROVE  /\ ~mutex'[m].listed => mutex'[m] = NoEntry
               /\ mutex'[m].users = Cardinality({g \in Guest : locking[g] = m})
               /\ mutex'[m].listed => mutex[m].listed
    <3>1. /\ ~mutex[m].listed => mutex[m] = NoEntry
          /\ mutex[m].users = Cardinality({g \in Guest : locking[g] = m})
      BY DEF IInv, Quiet
    <3>2. ~NoEntry.listed /\ NoEntry.users = 0
      BY DEF NoEntry
    <3>3. mutex'[m] = mutex[m] \/ (mutex[m].users = 0 /\ mutex'[m] = NoEntry)
      OBVIOUS
    <3> QED
      BY <3>1, <3>2, <3>3
  <2>2. ASSUME NEW j \in Image, ~Usable(j)'
        PROVE  /\ \A l \in LocksOf[j] : ~entry'[l].listed
               /\ \A m \in MutexesOf[j] : ~mutex'[m].listed
    <3>1. CASE j = i
      BY <1>3, <2>2, <3>1
    <3>2. CASE j # i
      <4>1. ~Usable(j)
        BY <1>2, <2>2, <3>2
      <4>2. (\A l \in LocksOf[j] : l \in Lock) /\ (\A m \in MutexesOf[j] : m \in Mutex)
        BY LoaderAssumption
      <4> QED
        BY <2>1, <4>1, <4>2 DEF IInv, Quiet
    <3> QED
      BY <3>1, <3>2
  <2> QED
    BY <1>1, <2>1, <2>2 DEF IInv, Quiet
<1> QED
  BY <1>4, <1>5, <1>6, <1>7, <1>8 DEF IInv

(* Most steps leave the objects of the game and the exit callbacks alone.  *)
LEMMA LibraryStep ==
  ASSUME IInv, NEW i \in Image, NEW B, Moved(i, B), OnlyAt(i), Counts(i),
         UNCHANGED <<rwVars, mutexVars, exits>>,
         \A f \in B : Fits(f)',
         LivesAt(i)',
         Loaded(i) => Loaded(i)',
         \A k \in 1..Len(exits) : i \in {CodeOf[exits[k]], DsoOf[exits[k]]} =>
            (lib'[i].finalized => lib[i].finalized)
  PROVE  IInv'
<1>1. Usable(i) <=> Loaded(i)
  BY HereFacts DEF IInv, Stacked
<1>2. RwInv'
  <2>1. UNCHANGED rwVars
    OBVIOUS
  <2> QED
    BY <2>1, RwStep DEF IInv
<1>3. /\ \A l \in Lock : entry'[l].listed => entry[l].listed
      /\ mutex' \in [Mutex -> Entries] /\ mutex' = mutex
      /\ UNCHANGED <<exits, locking, entry>>
  BY DEF rwVars, mutexVars, IInv, TypeOK, Entries
<1>4. ASSUME NEW k \in 1..Len(exits), i \in {CodeOf[exits[k]], DsoOf[exits[k]]}
      PROVE  Loaded(i)' /\ ~lib'[i].finalized
  BY <1>1, <1>4 DEF IInv, Registered
<1>5. ASSUME ~Loaded(i)'
      PROVE  /\ \A l \in LocksOf[i] : ~entry'[l].listed
             /\ \A m \in MutexesOf[i] : ~mutex'[m].listed
  BY <1>1, <1>3, <1>5 DEF IInv, Quiet
<1> QED
  BY <1>2, <1>3, <1>4, <1>5, LoaderStep

LEMMA Typed ==
  ASSUME IInv, NEW i \in Image
  PROVE  /\ lib \in [Image -> Libraries] /\ lib[i] \in Libraries
         /\ ghost \in Ghosts /\ LivesAt(i) /\ Framed(stack)
         /\ \A f \in Here(i) : Fits(f)
         /\ count \in 0..MaxLibrary
<1>1. lib \in [Image -> Libraries] /\ lib[i] \in Libraries
  BY DEF IInv, TypeOK, Libraries
<1> QED
  BY <1>1 DEF IInv, TypeOK, Lives, Stacked, Here

(* Only the record of library i is written.                                *)
LEMMA OnlyLibrary ==
  ASSUME IInv, NEW i \in Image, NEW v \in Libraries, lib' = [lib EXCEPT ![i] = v],
         UNCHANGED ghost
  PROVE  OnlyAt(i) /\ lib'[i] = v /\ SameLife(i)
<1>1. lib \in [Image -> Libraries] /\ ghost \in Ghosts
  BY Typed
<1> QED
  BY <1>1 DEF OnlyAt, SameLife

(* Or what is known of its life as well.                                   *)
LEMMA OnlyOwned ==
  ASSUME IInv, NEW i \in Image, NEW v \in Libraries, lib' = [lib EXCEPT ![i] = v],
         NEW w \in [application : BOOLEAN, services : BOOLEAN],
         ghost' = [ghost EXCEPT !.owned[i] = w]
  PROVE  /\ OnlyAt(i) /\ lib'[i] = v /\ ghost'.owned[i] = w
         /\ ghost'.started[i] = ghost.started[i] /\ ghost'.ended[i] = ghost.ended[i]
<1>1. ghost \in Ghosts
  BY Typed
<1>2. PICK x, y, z : x = ghost.started /\ y = ghost.ended /\ z = [ghost.owned EXCEPT ![i] = w]
  OBVIOUS
<1>3. /\ x \in [Image -> Nat] /\ y \in [Image -> Nat]
      /\ z \in [Image -> [application : BOOLEAN, services : BOOLEAN]] /\ z[i] = w
      /\ \A j \in Image \ {i} : /\ x[j] = ghost.started[j] /\ y[j] = ghost.ended[j]
                                /\ z[j] = ghost.owned[j]
  BY <1>1, <1>2 DEF Ghosts
<1>4. ghost' = [ghost EXCEPT !.started = x, !.ended = y, !.owned = z]
  <2>1. ghost' = [ghost EXCEPT !.owned = z]
    BY <1>2
  <2> QED
    BY <1>1, <1>2, <2>1 DEF Ghosts
<1>5. /\ ghost' \in Ghosts /\ ghost'.started = x /\ ghost'.ended = y /\ ghost'.owned = z
      /\ ghost'.pending = ghost.pending
  BY <1>1, <1>3, <1>4 DEF Ghosts
<1>6. lib \in [Image -> Libraries]
  BY Typed
<1> QED
  BY <1>2, <1>3, <1>5, <1>6 DEF OnlyAt, SameLife

(* What a call that works on library i, innermost, says.                   *)
LEMMA Working ==
  ASSUME IInv, NEW i \in Image, NEW kind \in Owning, NEW at, At(kind, at), Top.of = i
  PROVE  /\ stack # <<>> /\ Top.kind \in Owning /\ Top = Frame(kind, i, at)
         /\ Here(i) = {Top} /\ Fits(Frame(kind, i, at)) /\ Framed(stack)
         /\ \A f \in Here(i) : f.kind # "callback"
<1>1. Framed(stack) /\ stack # <<>>
  BY TopFacts DEF IInv, Stacked, At, Frame, Owning
<1>2. Top \in Frames /\ Top \in Calls /\ Top.kind \in Owning /\ Top.kind # "callback"
  BY <1>1, TopFacts DEF At, Owning
<1>3. Top = Frame(kind, i, at)
  BY <1>2 DEF At, Frames, Frame
<1>4. Top \in Here(i)
  BY <1>2, <1>3 DEF Here, About, Owning, Frame
<1>5. Here(i) \subseteq {Top}
  <2>1. PICK r : r = Tail(stack)
    OBVIOUS
  <2>2. /\ Elems(stack) = Elems(r) \cup {stack[1]}
        /\ stack[1].kind \in Owning => \A e \in Elems(r) : About(e) # stack[1].of
    BY <1>1, <2>1, FramedTail
  <2> QED
    BY <1>1, <1>2, <2>2, TopFacts DEF Here, Calls
<1> QED
  BY <1>1, <1>2, <1>3, <1>4, <1>5 DEF IInv, Stacked

LEMMA FrameTyped ==
  ASSUME NEW i \in Image
  PROVE  /\ Frame("load", i, "sections") \in Frames
         /\ Frame("construct", i, "game") \in Frames
         /\ \A at \in UnloadStages : Frame("unload", i, at) \in Frames
         /\ Frame("finalize", i, "drain") \in Frames
BY DEF Frame, Frames

-----------------------------------------------------------------------------
(* Loading, and the handles of a library. *)

LEMMA LoadStep ==
  ASSUME IInv, NEW i \in Image, Load(i)
  PROVE  IInv'
<1>1. PICK f : f = Frame("load", i, "sections")
  OBVIOUS
<1>2. f \in Frames /\ f.kind = "load" /\ f.of = i /\ About(f) = i
  BY <1>1, FrameTyped DEF Frame, About
<1>3. /\ InGame /\ ~Listed(i) /\ ~OnStack(i) /\ count < MaxLibrary
      /\ lib' = [lib EXCEPT ![i].image = TRUE, ![i].slot = TRUE] /\ count' = count + 1
      /\ ghost' = [ghost EXCEPT !.loads[i] = @ + 1] /\ Push(f)
      /\ UNCHANGED <<rwVars, mutexVars, exits>>
  BY <1>1 DEF Load
<1>4. Moved(i, {f})
  <2>1. Here(i) = {} /\ Framed(stack)
    BY <1>3, Typed, TopFacts
  <2> QED
    BY <1>2, <1>3, <2>1, MovedPush DEF Owning
<1>5. lib[i] = NoLibrary /\ LivesAt(i)
  BY <1>3, Typed DEF LivesAt
<1>6. /\ lib' \in [Image -> Libraries]
      /\ lib'[i] = [NoLibrary EXCEPT !.slot = TRUE, !.image = TRUE]
      /\ \A j \in Image \ {i} : lib'[j] = lib[j]
  <2>1. lib \in [Image -> Libraries] /\ lib[i] = NoLibrary
    BY <1>5, Typed
  <2>2. lib' = [lib EXCEPT ![i].image = TRUE, ![i].slot = TRUE]
    BY <1>3
  <2> QED
    BY <2>1, <2>2 DEF Libraries, NoLibrary
<1>7. /\ ghost' \in Ghosts /\ ghost'.pending = ghost.pending /\ \A j \in Image : SameLife(j)
  <2>1. ghost \in Ghosts
    BY Typed
  <2>2. PICK x : x = [ghost.loads EXCEPT ![i] = @ + 1]
    OBVIOUS
  <2>3. x \in [Image -> Nat]
    BY <2>1, <2>2 DEF Ghosts
  <2>4. ghost' = [ghost EXCEPT !.loads[i] = @ + 1]
    BY <1>3
  <2>5. ghost' = [ghost EXCEPT !.loads = x]
    BY <2>2, <2>4
  <2> QED
    BY <2>1, <2>3, <2>5 DEF Ghosts, SameLife
<1>8. ghost.ended[i] = 0
  BY <1>5 DEF LivesAt, NoLibrary
<1>9. OnlyAt(i) /\ Counts(i)
  BY <1>3, <1>6, <1>7, Typed, LoaderAssumption DEF OnlyAt, Counts, Listed, NoLibrary
<1>10. Here(i)' = {f} /\ Framed(stack') /\ Here(i) = {} /\ Framed(stack)
  BY <1>3, <1>4, Typed, TopFacts DEF Moved
<1>11. LivesAt(i)'
  <2>1. ~Usable(i)' /\ ~Constructing(i)' /\ ~Constructing(i)
    BY <1>2, <1>10, HereFacts, HereNext DEF Loaded
  <2>2. ~Alive(i) /\ ~Alive(i)'
    BY <2>1, <1>5, <1>6 DEF Alive, NoLibrary
  <2> QED
    BY <1>5, <1>6, <1>7, <1>8, <2>1, <2>2 DEF LivesAt, Listed, NoLibrary, SameLife
<1>12. Fits(f)'
  <2>1. lib'[i].slot /\ lib'[i] =
          [NoLibrary EXCEPT !.slot = TRUE, !.image = TRUE, !.blocks = lib'[i].blocks]
    BY <1>6 DEF NoLibrary
  <2> QED
    BY <1>2, <1>7, <1>8, <2>1 DEF Fits, Listed, SameLife
<1>13. ~Loaded(i) /\ ~lib'[i].finalized
  BY <1>3, <1>6 DEF Loaded, NoLibrary
<1>14. UNCHANGED <<rwVars, mutexVars, exits>>
  BY <1>3
<1> QED
  BY <1>4, <1>9, <1>11, <1>12, <1>13, <1>14, LibraryStep

LEMMA LoadSectionStep ==
  ASSUME IInv, NEW i \in Image, LoadSection(i)
  PROVE  IInv'
<1>1. PICK f : f = Frame("load", i, "sections")
  OBVIOUS
<1>2. PICK v : v = [lib[i] EXCEPT !.blocks = @ + 1]
  OBVIOUS
<1>3. /\ At("load", "sections") /\ Top.of = i /\ lib[i].blocks < Segments
      /\ lib' = [lib EXCEPT ![i] = v]
      /\ UNCHANGED <<rwVars, mutexVars, exits, stack, count, ghost>>
  <2>1. lib' = [lib EXCEPT ![i].blocks = @ + 1]
    BY DEF LoadSection
  <2>2. lib' = [lib EXCEPT ![i] = v]
    BY <1>2, <2>1
  <2> QED
    BY <2>2 DEF LoadSection
<1>4. /\ Here(i) = {f} /\ Fits(f) /\ Moved(i, {f}) /\ f.kind = "load" /\ f.of = i
      /\ About(f) = i
  BY <1>1, <1>3, Working, MovedNot DEF Owning, Frame, About
<1>5. /\ lib[i] \in Libraries /\ v \in Libraries
      /\ v.slot = lib[i].slot /\ v.initialized = lib[i].initialized
      /\ v.finalized = lib[i].finalized /\ v.unloading = lib[i].unloading
      /\ v.prepare = lib[i].prepare /\ v.finish = lib[i].finish
  BY <1>2, <1>3, Typed, LoaderAssumption DEF Libraries
<1>6. OnlyAt(i) /\ lib'[i] = v /\ SameLife(i)
  BY <1>3, <1>5, OnlyLibrary
<1>7. Listed(i) /\ Listed(i)' /\ ~Loaded(i)
  BY <1>4, <1>5, <1>6 DEF Loaded, Fits, Listed
<1>8. Fits(f)'
  <2>1. lib[i] = [NoLibrary EXCEPT !.slot = TRUE, !.image = TRUE, !.blocks = lib[i].blocks]
        /\ ghost.ended[i] = 0
    BY <1>4 DEF Fits
  <2>2. v = [NoLibrary EXCEPT !.slot = TRUE, !.image = TRUE, !.blocks = v.blocks]
    BY <1>2, <1>5, <2>1 DEF NoLibrary, Libraries
  <2> QED
    BY <1>4, <1>6, <1>7, <2>1, <2>2 DEF Fits, SameLife
<1>9. LivesAt(i)'
  <2>1. Framed(stack) /\ Framed(stack') /\ Here(i)' = Here(i) /\ LivesAt(i)
    BY <1>4, Typed DEF Moved
  <2>2. (Usable(i)' <=> Usable(i)) /\ (Alive(i)' <=> Alive(i))
    BY <1>5, <1>6, <1>7, <2>1, HereFacts, HereNext DEF Loaded, Alive
  <2> QED
    BY <1>5, <1>6, <1>7, <2>1, <2>2 DEF LivesAt, SameLife
<1>10. Counts(i)
  BY <1>3, <1>7, Typed DEF Counts
<1> QED
  BY <1>3, <1>4, <1>5, <1>6, <1>7, <1>8, <1>9, <1>10, LibraryStep

LEMMA LoadFailStep ==
  ASSUME IInv, NEW i \in Image, LoadFail(i)
  PROVE  IInv'
<1>1. PICK f : f = Frame("load", i, "sections")
  OBVIOUS
<1>2. /\ At("load", "sections") /\ Top.of = i /\ Return
      /\ lib' = [lib EXCEPT ![i] = NoLibrary] /\ count' = count - 1
      /\ UNCHANGED ghost /\ UNCHANGED <<rwVars, mutexVars, exits>>
  BY DEF LoadFail
<1>3. Here(i) = {f} /\ Fits(f) /\ f.kind = "load" /\ f.of = i /\ About(f) = i /\ Framed(stack)
  BY <1>1, <1>2, Working DEF Owning, Frame, About
<1>4. Moved(i, {})
  BY <1>2, Working, MovedReturn DEF Owning
<1>5. NoLibrary \in Libraries
  BY LoaderAssumption DEF NoLibrary, Libraries
<1>6. OnlyAt(i) /\ lib'[i] = NoLibrary /\ SameLife(i)
  BY <1>2, <1>5, OnlyLibrary
<1>7. /\ Listed(i) /\ ~Listed(i)' /\ ~Loaded(i)
      /\ ~lib[i].initialized /\ ~lib[i].finish /\ ~lib[i].prepare /\ ~lib[i].unloading
  <2>1. /\ Listed(i) /\ ~Loaded(i)
        /\ lib[i] = [NoLibrary EXCEPT !.slot = TRUE, !.image = TRUE, !.blocks = lib[i].blocks]
    BY <1>3 DEF Loaded, Fits
  <2>2. ~Listed(i)'
    BY <1>6 DEF Listed, NoLibrary
  <2>3. ~lib[i].initialized /\ ~lib[i].finish /\ ~lib[i].prepare /\ ~lib[i].unloading
    BY <2>1 DEF NoLibrary
  <2> QED
    BY <2>1, <2>2, <2>3
<1>8. Counts(i)
  <2>1. count \in 0..MaxLibrary /\ count # 0
    <3>1. IsFiniteSet({j \in Image : Listed(j)})
      BY LoaderAssumption, FS_Subset
    <3>2. Cardinality({j \in Image : Listed(j)}) # 0
      BY <1>7, <3>1, FS_EmptySet
    <3> QED
      BY <3>2, Typed DEF IInv, Lives
  <2>2. count' = count - 1
    BY <1>2
  <2> QED
    BY <1>7, <2>1, <2>2, LoaderAssumption DEF Counts
<1>9. LivesAt(i)'
  <2>1. Framed(stack') /\ Here(i)' = {} /\ LivesAt(i)
    BY <1>4, Typed DEF Moved
  <2>2. ~Usable(i)' /\ ~Alive(i) /\ ~Alive(i)'
    BY <1>3, <1>6, <1>7, <2>1, HereFacts, HereNext DEF Loaded, Alive, NoLibrary
  <2> QED
    BY <1>6, <1>7, <2>1, <2>2 DEF LivesAt, SameLife, NoLibrary
<1>10. ~lib'[i].finalized
  BY <1>6 DEF NoLibrary
<1> QED
  BY <1>2, <1>4, <1>6, <1>7, <1>8, <1>9, <1>10, LibraryStep

LEMMA LoadDoneStep ==
  ASSUME IInv, NEW i \in Image, LoadDone(i)
  PROVE  IInv'
<1>1. PICK f : f = Frame("load", i, "sections")
  OBVIOUS
<1>2. PICK hooks \in BOOLEAN : hooks = (i \in HasHooks)
  <2>1. i \in HasHooks => TRUE = (i \in HasHooks)
    BY SMT
  <2>2. i \notin HasHooks => FALSE = (i \in HasHooks)
    BY SMT
  <2> QED
    BY <2>1, <2>2, Zenon
<1>3. PICK v : v = [lib[i] EXCEPT !.refs = 1, !.prepare = hooks]
  OBVIOUS
<1>4. PICK w : w = [application |-> hooks, services |-> FALSE]
  OBVIOUS
<1>5. /\ At("load", "sections") /\ Top.of = i /\ Return
      /\ lib' = [lib EXCEPT ![i].refs = 1, ![i].prepare = hooks]
      /\ ghost' = [ghost EXCEPT !.owned[i] = w]
      /\ UNCHANGED count
  BY <1>2, <1>4 DEF LoadDone
<1>6. Here(i) = {f} /\ Fits(f) /\ f.kind = "load" /\ f.of = i /\ About(f) = i /\ Framed(stack)
  BY <1>1, <1>5, Working DEF Owning, Frame, About
<1>7. Moved(i, {})
  BY <1>5, Working, MovedReturn DEF Owning
<1>8. /\ lib[i] \in Libraries /\ v \in Libraries
      /\ v.slot = lib[i].slot /\ v.initialized = lib[i].initialized
      /\ v.finalized = lib[i].finalized /\ v.unloading = lib[i].unloading
      /\ v.prepare = hooks /\ v.finish = lib[i].finish
  BY <1>3, Typed DEF Libraries
<1>9. lib' = [lib EXCEPT ![i] = v]
  <2>1. lib \in [Image -> Libraries]
    BY Typed
  <2>2. lib' = [lib EXCEPT ![i].refs = 1, ![i].prepare = hooks]
    BY <1>5
  <2> QED
    BY <1>3, <2>1, <2>2 DEF Libraries
<1>10. /\ w \in [application : BOOLEAN, services : BOOLEAN]
       /\ w.application = hooks /\ w.services = FALSE
  BY <1>4
<1>11. /\ OnlyAt(i) /\ lib'[i] = v /\ ghost'.owned[i] = w
       /\ ghost'.started[i] = ghost.started[i] /\ ghost'.ended[i] = ghost.ended[i]
  BY <1>5, <1>8, <1>9, <1>10, OnlyOwned
<1>12. /\ Listed(i) /\ Listed(i)' /\ ~Loaded(i) /\ ghost.ended[i] = 0
       /\ ~lib[i].initialized /\ ~lib[i].unloading /\ ~lib[i].finalized
  <2>1. /\ Listed(i) /\ ~Loaded(i) /\ ghost.ended[i] = 0
        /\ lib[i] = [NoLibrary EXCEPT !.slot = TRUE, !.image = TRUE, !.blocks = lib[i].blocks]
    BY <1>6 DEF Loaded, Fits
  <2>2. ~lib[i].initialized /\ ~lib[i].finalized /\ ~lib[i].unloading
    BY <2>1 DEF NoLibrary
  <2> QED
    BY <1>8, <1>11, <2>1, <2>2 DEF Listed
<1>13. Counts(i)
  BY <1>5, <1>12, Typed DEF Counts
<1>14. LivesAt(i)'
  <2>1. Framed(stack') /\ Here(i)' = {} /\ LivesAt(i)
    BY <1>7, Typed DEF Moved
  <2>2. ~Alive(i) /\ ~Alive(i)'
    BY <1>6, <1>8, <1>11, <1>12, <2>1, HereFacts, HereNext DEF Alive
  <2> QED
    BY <1>2, <1>8, <1>10, <1>11, <1>12, <2>1, <2>2 DEF LivesAt
<1>15. ~lib'[i].finalized /\ UNCHANGED <<rwVars, mutexVars, exits>>
  BY <1>8, <1>11, <1>12 DEF LoadDone
<1> QED
  BY <1>7, <1>11, <1>12, <1>13, <1>14, <1>15, LibraryStep

LEMMA CloneStep ==
  ASSUME IInv, NEW i \in Image, Clone(i)
  PROVE  IInv'
<1>1. PICK v : v = [lib[i] EXCEPT !.refs = @ + 1]
  OBVIOUS
<1>2. /\ Listed(i) /\ ~OnStack(i) /\ lib' = [lib EXCEPT ![i] = v]
      /\ UNCHANGED stack /\ UNCHANGED count /\ UNCHANGED ghost
      /\ UNCHANGED <<rwVars, mutexVars, exits>>
  <2>1. lib' = [lib EXCEPT ![i].refs = @ + 1]
    BY DEF Clone
  <2>2. lib' = [lib EXCEPT ![i] = v]
    BY <1>1, <2>1
  <2> QED
    BY <2>2 DEF Clone
<1>3. Framed(stack) /\ Here(i) = {} /\ Moved(i, {})
  BY <1>2, Typed, TopFacts, MovedNot
<1>4. /\ v \in Libraries
      /\ v.slot = lib[i].slot /\ v.initialized = lib[i].initialized
      /\ v.finalized = lib[i].finalized /\ v.unloading = lib[i].unloading
      /\ v.prepare = lib[i].prepare /\ v.finish = lib[i].finish
  BY <1>1, Typed DEF Libraries
<1>5. OnlyAt(i) /\ lib'[i] = v /\ SameLife(i) /\ Listed(i)'
  BY <1>2, <1>4, OnlyLibrary DEF Listed
<1>6. Framed(stack') /\ Here(i)' = {} /\ LivesAt(i)
  BY <1>3, Typed DEF Moved
<1>7. /\ Loaded(i)' /\ (Usable(i)' <=> Usable(i)) /\ (Alive(i)' <=> Alive(i))
  BY <1>2, <1>3, <1>4, <1>5, <1>6, HereFacts, HereNext DEF Loaded, Alive
<1>8. LivesAt(i)'
  BY <1>4, <1>5, <1>6, <1>7 DEF LivesAt, SameLife
<1>9. Counts(i)
  BY <1>2, <1>5, Typed DEF Counts
<1> QED
  BY <1>2, <1>3, <1>4, <1>5, <1>7, <1>8, <1>9, LibraryStep

LEMMA ConstructStep ==
  ASSUME IInv, NEW i \in Image, Construct(i)
  PROVE  IInv'
<1>1. PICK f : f = Frame("construct", i, "game")
  OBVIOUS
<1>2. f \in Frames /\ f.kind = "construct" /\ f.of = i /\ About(f) = i
  BY <1>1, FrameTyped DEF Frame, About
<1>3. /\ InGame /\ Listed(i) /\ ~lib[i].unloading /\ ~lib[i].initialized /\ ~OnStack(i)
      /\ ghost' = [ghost EXCEPT !.started[i] = @ + 1] /\ Push(f)
      /\ UNCHANGED lib /\ UNCHANGED count /\ UNCHANGED <<rwVars, mutexVars, exits>>
  BY <1>1 DEF Construct
<1>4. Framed(stack) /\ Here(i) = {} /\ Moved(i, {f})
  BY <1>2, <1>3, Typed, TopFacts, MovedPush DEF Owning
<1>5. /\ lib[i] \in Libraries /\ LivesAt(i) /\ Framed(stack') /\ Here(i)' = {f}
  BY <1>4, Typed DEF Moved
<1>6. ~Alive(i) /\ Alive(i)' /\ (Usable(i)' <=> Usable(i)) /\ Loaded(i)'
  BY <1>2, <1>3, <1>4, <1>5, HereFacts, HereNext DEF Loaded, Alive, Listed
<1>7. ghost.started[i] = 0 /\ ghost.ended[i] = 0
  BY <1>3, <1>5, <1>6 DEF LivesAt
<1>8. /\ OnlyAt(i) /\ lib'[i] = lib[i] /\ ghost'.owned[i] = ghost.owned[i]
      /\ ghost'.started[i] = 1 /\ ghost'.ended[i] = 0
  <2>1. ghost \in Ghosts /\ lib \in [Image -> Libraries]
    BY Typed
  <2>2. PICK x : x = [ghost.started EXCEPT ![i] = @ + 1]
    OBVIOUS
  <2>3. /\ x \in [Image -> Nat] /\ x[i] = 1 /\ ghost.ended \in [Image -> Nat]
        /\ \A j \in Image \ {i} : x[j] = ghost.started[j]
    BY <1>7, <2>1, <2>2 DEF Ghosts
  <2>4. ghost' = [ghost EXCEPT !.started = x]
    <3>1. ghost' = [ghost EXCEPT !.started[i] = @ + 1]
      BY <1>3
    <3> QED
      BY <2>2, <3>1
  <2>5. /\ ghost' \in Ghosts /\ ghost'.started = x /\ ghost'.ended = ghost.ended
        /\ ghost'.owned = ghost.owned /\ ghost'.pending = ghost.pending
    BY <2>1, <2>3, <2>4 DEF Ghosts
  <2> QED
    BY <1>3, <1>7, <2>1, <2>3, <2>5 DEF OnlyAt, SameLife
<1>9. LivesAt(i)'
  BY <1>3, <1>5, <1>6, <1>8 DEF LivesAt, Listed
<1>10. Fits(f)'
  BY <1>2, <1>3 DEF Fits, Listed
<1>11. Counts(i)
  BY <1>3, Typed DEF Counts, Listed
<1> QED
  BY <1>3, <1>4, <1>6, <1>8, <1>9, <1>10, <1>11, LibraryStep

LEMMA ConstructReturnStep ==
  ASSUME IInv, NEW i \in Image, ConstructReturn(i)
  PROVE  IInv'
<1>1. PICK f : f = Frame("construct", i, "game")
  OBVIOUS
<1>2. PICK v : v = [lib[i] EXCEPT !.initialized = TRUE]
  OBVIOUS
<1>3. /\ At("construct", "game") /\ Top.of = i /\ Return
      /\ lib' = [lib EXCEPT ![i] = v]
      /\ UNCHANGED count /\ UNCHANGED ghost /\ UNCHANGED <<rwVars, mutexVars, exits>>
  <2>1. lib' = [lib EXCEPT ![i].initialized = TRUE]
    BY DEF ConstructReturn
  <2>2. lib' = [lib EXCEPT ![i] = v]
    BY <1>2, <2>1
  <2> QED
    BY <2>2 DEF ConstructReturn
<1>4. /\ Here(i) = {f} /\ Fits(f) /\ f.kind = "construct" /\ f.of = i /\ About(f) = i
      /\ Framed(stack)
  BY <1>1, <1>3, Working DEF Owning, Frame, About
<1>5. Moved(i, {})
  BY <1>3, Working, MovedReturn DEF Owning
<1>6. /\ v \in Libraries
      /\ v.slot = lib[i].slot /\ v.initialized
      /\ v.finalized = lib[i].finalized /\ v.unloading = lib[i].unloading
      /\ v.prepare = lib[i].prepare /\ v.finish = lib[i].finish
  BY <1>2, Typed DEF Libraries
<1>7. OnlyAt(i) /\ lib'[i] = v /\ SameLife(i) /\ Listed(i) /\ Listed(i)'
  BY <1>3, <1>4, <1>6, OnlyLibrary DEF Listed, Fits
<1>8. Framed(stack') /\ Here(i)' = {} /\ LivesAt(i)
  BY <1>5, Typed DEF Moved
<1>9. /\ Loaded(i)' /\ (Usable(i)' <=> Usable(i)) /\ Alive(i) /\ Alive(i)'
  BY <1>4, <1>6, <1>7, <1>8, HereFacts, HereNext DEF Loaded, Alive
<1>10. LivesAt(i)'
  BY <1>6, <1>7, <1>8, <1>9 DEF LivesAt, SameLife
<1>11. Counts(i)
  BY <1>3, <1>7, Typed DEF Counts
<1> QED
  BY <1>3, <1>5, <1>6, <1>7, <1>9, <1>10, <1>11, LibraryStep

LEMMA FreeStep ==
  ASSUME IInv, NEW i \in Image, Free(i)
  PROVE  IInv'
<1>1. PICK v : v = [lib[i] EXCEPT !.refs = @ - 1]
  OBVIOUS
<1>2. PICK f : f = Frame("unload", i, "check")
  OBVIOUS
<1>3. f \in Frames /\ f.kind = "unload" /\ f.of = i /\ About(f) = i /\ f.at = "check"
  BY <1>2, FrameTyped DEF Frame, About, UnloadStages
<1>4. /\ InGame /\ Listed(i) /\ lib[i].refs > 0 /\ ~OnStack(i) /\ lib' = [lib EXCEPT ![i] = v]
      /\ UNCHANGED stack \/ Push(f)
      /\ UNCHANGED count /\ UNCHANGED ghost /\ UNCHANGED <<rwVars, mutexVars, exits>>
  <2>1. lib' = [lib EXCEPT ![i].refs = @ - 1]
    BY DEF Free
  <2>2. lib' = [lib EXCEPT ![i] = v]
    BY <1>1, <2>1
  <2>3. UNCHANGED stack \/ Push(f)
    BY <1>2 DEF Free
  <2> QED
    BY <2>2, <2>3 DEF Free
<1>5. /\ v \in Libraries
      /\ v.slot = lib[i].slot /\ v.initialized = lib[i].initialized
      /\ v.finalized = lib[i].finalized /\ v.unloading = lib[i].unloading
      /\ v.prepare = lib[i].prepare /\ v.finish = lib[i].finish
  BY <1>1, <1>4, Typed DEF Libraries
<1>6. OnlyAt(i) /\ lib'[i] = v /\ SameLife(i) /\ Listed(i)'
  BY <1>4, <1>5, OnlyLibrary DEF Listed
<1>7. Framed(stack) /\ Here(i) = {} /\ LivesAt(i)
  BY <1>4, Typed, TopFacts
<1>8. PICK B : B \in {{}, {f}} /\ Moved(i, B)
  BY <1>3, <1>4, <1>7, MovedNot, MovedPush DEF Owning
<1>9. Framed(stack') /\ Here(i)' = B
  BY <1>8 DEF Moved
<1>10. Loaded(i)' /\ (Usable(i)' <=> Usable(i)) /\ (Alive(i)' <=> Alive(i))
  BY <1>3, <1>4, <1>5, <1>6, <1>7, <1>8, <1>9, HereFacts, HereNext DEF Loaded, Alive
<1>11. LivesAt(i)'
  BY <1>5, <1>6, <1>7, <1>10 DEF LivesAt, SameLife
<1>12. Counts(i)
  BY <1>4, <1>6, Typed DEF Counts
<1>13. \A e \in B : Fits(e)'
  <2>1. Fits(f)'
    BY <1>3, <1>6 DEF Fits, Prepared, Deleted, Finished
  <2> QED
    BY <1>8, <2>1
<1> QED
  BY <1>4, <1>5, <1>6, <1>8, <1>10, <1>11, <1>12, <1>13, LibraryStep

-----------------------------------------------------------------------------
(* The steps of an unload. *)

Ran == {"game", "drain"}

(* What an unload of library i at a stage knows.                           *)
Knows(i, at) ==
  /\ Listed(i) /\ Usable(i) /\ LivesAt(i)
  /\ Here(i) = {Frame("unload", i, at)}
  /\ Alive(i) <=> lib[i].initialized /\ at \notin Ran
  /\ at \in Prepared => lib[i].unloading
  /\ at \in Deleted => ~lib[i].prepare
  /\ at \in Finished => lib[i].finalized /\ ~lib[i].initialized /\ ~lib[i].finish
  /\ at = "mutexes" => \A l \in LocksOf[i] : ~entry[l].listed

LEMMA UnloadKnows ==
  ASSUME IInv, NEW i \in Image, NEW at, At("unload", at), Top.of = i
  PROVE  Knows(i, at) /\ Framed(stack) /\ stack # <<>> /\ at \in UnloadStages
<1>1. PICK f : f = Frame("unload", i, at)
  OBVIOUS
<1>2. f.kind = "unload" /\ f.of = i /\ f.at = at /\ About(f) = i
  BY <1>1 DEF Frame, About
<1>3. Here(i) = {f} /\ Fits(f) /\ Framed(stack) /\ stack # <<>> /\ Top = f
  BY <1>1, Working DEF Owning
<1>4. at \in UnloadStages
  <2>1. f \in Frames
    BY <1>3, TopFacts
  <2> QED
    BY <1>2, <2>1 DEF Frames
<1>5. Listed(i) /\ Usable(i) /\ (Alive(i) <=> lib[i].initialized /\ at \notin Ran)
  BY <1>2, <1>3, HereFacts DEF Fits, Loaded, Alive, Ran
<1> QED
  BY <1>1, <1>2, <1>3, <1>4, <1>5, Typed DEF Knows, Fits

(* It is put off, or over.                                                 *)
LEMMA UnloadReturns ==
  ASSUME IInv, NEW i \in Image, NEW at, At("unload", at), Top.of = i, Return
  PROVE  /\ Moved(i, {})
         /\ Loaded(i)' <=> Listed(i)'
         /\ Usable(i)' <=> Listed(i)'
         /\ Alive(i)' <=> lib'[i].initialized
<1>1. Framed(stack) /\ stack # <<>>
  BY UnloadKnows
<1>2. Moved(i, {})
  BY <1>1, MovedReturn DEF At, Owning
<1>3. Framed(stack') /\ Here(i)' = {}
  BY <1>2 DEF Moved
<1> QED
  BY <1>2, <1>3, HereNext DEF Loaded, Alive

(* It goes on.                                                             *)
LEMMA UnloadGoes ==
  ASSUME IInv, NEW i \in Image, NEW at, At("unload", at), Top.of = i,
         NEW next \in UnloadStages, Goto(next), NEW f, f = Frame("unload", i, next)
  PROVE  /\ Moved(i, {f})
         /\ f.kind = "unload" /\ f.of = i /\ f.at = next /\ About(f) = i
         /\ Loaded(i)' <=> Listed(i)'
         /\ Usable(i)' <=> Listed(i)'
         /\ Alive(i)' <=> lib'[i].initialized /\ next \notin Ran
<1>1. Framed(stack) /\ stack # <<>> /\ Top = Frame("unload", i, at)
  BY UnloadKnows, Working DEF Owning
<1>2. f = [Top EXCEPT !.at = next] /\ f \in Frames
  <2>1. f \in Frames
    BY FrameTyped
  <2>2. PICK t : t = Frame("unload", i, at)
    OBVIOUS
  <2>3. f = [t EXCEPT !.at = next]
    BY <2>2 DEF Frame
  <2> QED
    BY <1>1, <2>1, <2>2, <2>3
<1>3. Moved(i, {f})
  BY <1>1, <1>2, MovedGoto DEF At, Owning
<1>4. f.kind = "unload" /\ f.of = i /\ f.at = next /\ About(f) = i
  BY DEF Frame, About
<1>5. Framed(stack') /\ Here(i)' = {f}
  BY <1>3 DEF Moved
<1> QED
  BY <1>3, <1>4, <1>5, HereNext DEF Loaded, Alive, Ran

(* An unload is given up before the destructors or after the callbacks.    *)
LEMMA DeferStep ==
  ASSUME IInv, NEW i \in Image, NEW at, At("unload", at), Top.of = i, at \notin Ran,
         Defer(i), UNCHANGED count, UNCHANGED ghost, UNCHANGED <<rwVars, mutexVars, exits>>
  PROVE  IInv'
<1>1. PICK v : v = [lib[i] EXCEPT !.refs = 1]
  OBVIOUS
<1>2. Return /\ lib' = [lib EXCEPT ![i] = v]
  <2>1. lib' = [lib EXCEPT ![i].refs = 1]
    BY DEF Defer
  <2>2. lib' = [lib EXCEPT ![i] = v]
    BY <1>1, <2>1
  <2> QED
    BY <2>2 DEF Defer
<1>3. /\ v \in Libraries
      /\ v.slot = lib[i].slot /\ v.initialized = lib[i].initialized
      /\ v.finalized = lib[i].finalized /\ v.unloading = lib[i].unloading
      /\ v.prepare = lib[i].prepare /\ v.finish = lib[i].finish
  BY <1>1, Typed DEF Libraries
<1>4. Knows(i, at)
  BY UnloadKnows
<1>5. OnlyAt(i) /\ lib'[i] = v /\ SameLife(i) /\ Listed(i)'
  BY <1>2, <1>3, <1>4, OnlyLibrary DEF Listed, Knows
<1>6. /\ Moved(i, {}) /\ Loaded(i)' /\ Usable(i)' /\ (Alive(i)' <=> lib'[i].initialized)
  BY <1>2, <1>5, UnloadReturns
<1>7. LivesAt(i)'
  BY <1>3, <1>4, <1>5, <1>6 DEF LivesAt, Knows, SameLife
<1>8. Counts(i)
  BY <1>4, <1>5, Typed DEF Counts, Knows
<1> QED
  BY <1>3, <1>5, <1>6, <1>7, <1>8, LibraryStep

(* It goes on without touching anything.                                   *)
LEMMA AdvanceStep ==
  ASSUME IInv, NEW i \in Image, NEW at, At("unload", at), Top.of = i,
         NEW next \in UnloadStages, Goto(next), next \in Ran <=> at \in Ran,
         next \in Prepared => at \in Prepared,
         next \in Deleted => at \in Deleted,
         next \in Finished => at \in Finished, next # "mutexes",
         UNCHANGED lib, UNCHANGED count, UNCHANGED ghost, UNCHANGED <<rwVars, mutexVars, exits>>
  PROVE  IInv'
<1>1. PICK f : f = Frame("unload", i, next)
  OBVIOUS
<1>2. Knows(i, at) /\ lib[i] \in Libraries /\ lib \in [Image -> Libraries]
  BY UnloadKnows, Typed
<1>3. OnlyAt(i) /\ lib'[i] = lib[i] /\ SameLife(i) /\ Listed(i)'
  BY <1>2, Typed DEF OnlyAt, SameLife, Listed, Knows
<1>4. /\ Moved(i, {f}) /\ Loaded(i)' /\ Usable(i)'
      /\ (Alive(i)' <=> lib'[i].initialized /\ next \notin Ran)
      /\ f.kind = "unload" /\ f.of = i /\ f.at = next /\ About(f) = i
  BY <1>1, <1>3, UnloadGoes
<1>5. LivesAt(i)'
  BY <1>2, <1>3, <1>4 DEF LivesAt, Knows, SameLife
<1>6. Counts(i)
  BY <1>2, <1>3, Typed DEF Counts, Knows
<1>7. Fits(f)'
  BY <1>2, <1>3, <1>4 DEF Fits, Knows
<1> QED
  BY <1>3, <1>4, <1>5, <1>6, <1>7, LibraryStep

LEMMA StagesFacts ==
  /\ UnloadStages = Prepared \cup {"check", "checkMutexes"}
  /\ Prepared = Deleted \cup {"prepare"}
  /\ Deleted = Finished \cup {"destructors", "game", "drain"}
  /\ Ran = {"game", "drain"}
  /\ Finished = {"recheck", "recheckMutexes", "locks", "mutexes"}
BY DEF UnloadStages, Prepared, Deleted, Finished, Ran

LEMMA CheckLocksStep ==
  ASSUME IInv, NEW i \in Image, CheckLocks(i)
  PROVE  IInv'
<1>1. /\ Top.of = i /\ UNCHANGED count /\ UNCHANGED ghost
      /\ UNCHANGED <<rwVars, mutexVars, exits>>
  BY DEF CheckLocks
<1>2. PICK at \in {"check", "recheck"} : At("unload", at)
  BY DEF CheckLocks
<1>3. CASE Defer(i)
  BY <1>1, <1>2, <1>3, DeferStep, StagesFacts
<1>4. CASE ~Defer(i)
  <2>1. PICK next \in {"checkMutexes", "recheckMutexes"} :
          /\ Goto(next) /\ UNCHANGED lib
          /\ next = IF at = "check" THEN "checkMutexes" ELSE "recheckMutexes"
    <3>1. Goto(IF Top.at = "check" THEN "checkMutexes" ELSE "recheckMutexes") /\ UNCHANGED lib
      BY <1>4 DEF CheckLocks
    <3>2. Top.at = at
      BY <1>2 DEF At
    <3> QED
      BY <3>1, <3>2
  <2>2. next \in UnloadStages /\ next # "mutexes" /\ (next \in Ran <=> at \in Ran)
    BY <1>2, <2>1, StagesFacts
  <2>3. /\ next \in Prepared => at \in Prepared
        /\ next \in Deleted => at \in Deleted
        /\ next \in Finished => at \in Finished
    BY <1>2, <2>1, StagesFacts
  <2> QED
    BY <1>1, <1>2, <2>1, <2>2, <2>3, AdvanceStep
<1> QED
  BY <1>3, <1>4

LEMMA RecheckMutexesStep ==
  ASSUME IInv, NEW i \in Image, RecheckMutexes(i)
  PROVE  IInv'
<1>1. /\ At("unload", "recheckMutexes") /\ Top.of = i /\ UNCHANGED count /\ UNCHANGED ghost
      /\ UNCHANGED <<rwVars, mutexVars, exits>>
      /\ Defer(i) \/ (Goto("locks") /\ UNCHANGED lib)
  BY DEF RecheckMutexes
<1>2. CASE Defer(i)
  BY <1>1, <1>2, DeferStep, StagesFacts
<1>3. CASE Goto("locks") /\ UNCHANGED lib
  <2>1. "locks" \in UnloadStages /\ "locks" \notin Ran /\ "recheckMutexes" \notin Ran
    BY StagesFacts
  <2>2. "recheckMutexes" \in Prepared \cap Deleted \cap Finished
    BY StagesFacts
  <2> QED
    BY <1>1, <1>3, <2>1, <2>2, AdvanceStep
<1> QED
  BY <1>1, <1>2, <1>3

LEMMA DestructReturnStep ==
  ASSUME IInv, NEW i \in Image, DestructReturn(i)
  PROVE  IInv'
<1>1. /\ At("unload", "game") /\ Top.of = i /\ Goto("drain")
      /\ UNCHANGED lib /\ UNCHANGED count /\ UNCHANGED ghost
      /\ UNCHANGED <<rwVars, mutexVars, exits>>
  BY DEF DestructReturn, loaderVars
<1>2. /\ "drain" \in UnloadStages /\ "drain" \in Ran /\ "game" \in Ran
      /\ "game" \in Prepared /\ "game" \in Deleted /\ "drain" \notin Finished
  BY StagesFacts
<1> QED
  BY <1>1, <1>2, AdvanceStep

LEMMA KeepForMutexStep ==
  ASSUME IInv, NEW i \in Image, KeepForMutex(i)
  PROVE  IInv'
BY DeferStep, StagesFacts DEF KeepForMutex

(* From here on the library is going.                                      *)
LEMMA CheckMutexesStep ==
  ASSUME IInv, NEW i \in Image, CheckMutexes(i)
  PROVE  IInv'
<1>1. /\ At("unload", "checkMutexes") /\ Top.of = i /\ UNCHANGED count /\ UNCHANGED ghost
      /\ UNCHANGED <<rwVars, mutexVars, exits>>
      /\ Defer(i) \/ (Goto("prepare") /\ lib' = [lib EXCEPT ![i].unloading = TRUE])
  BY DEF CheckMutexes
<1>2. CASE Defer(i)
  BY <1>1, <1>2, DeferStep, StagesFacts
<1>3. CASE Goto("prepare") /\ lib' = [lib EXCEPT ![i].unloading = TRUE]
  <2>1. PICK v : v = [lib[i] EXCEPT !.unloading = TRUE]
    OBVIOUS
  <2>2. lib' = [lib EXCEPT ![i] = v]
    BY <1>3, <2>1
  <2>3. /\ v \in Libraries
        /\ v.slot = lib[i].slot /\ v.initialized = lib[i].initialized
        /\ v.finalized = lib[i].finalized /\ v.unloading
        /\ v.prepare = lib[i].prepare /\ v.finish = lib[i].finish
    BY <2>1, Typed DEF Libraries
  <2>4. Knows(i, "checkMutexes")
    BY <1>1, UnloadKnows
  <2>5. OnlyAt(i) /\ lib'[i] = v /\ SameLife(i) /\ Listed(i)'
    BY <1>1, <2>2, <2>3, <2>4, OnlyLibrary DEF Listed, Knows
  <2>6. PICK f : f = Frame("unload", i, "prepare")
    OBVIOUS
  <2>7. /\ "prepare" \in UnloadStages /\ "prepare" \notin Ran /\ "checkMutexes" \notin Ran
        /\ "prepare" \notin Deleted /\ "prepare" \notin Finished
    BY StagesFacts
  <2>8. /\ Moved(i, {f}) /\ Loaded(i)' /\ Usable(i)' /\ (Alive(i)' <=> lib'[i].initialized)
        /\ f.kind = "unload" /\ f.of = i /\ f.at = "prepare" /\ About(f) = i
    BY <1>1, <1>3, <2>5, <2>6, <2>7, UnloadGoes
  <2>9. LivesAt(i)'
    BY <2>3, <2>4, <2>5, <2>7, <2>8 DEF LivesAt, Knows, SameLife
  <2>10. Counts(i)
    BY <1>1, <2>4, <2>5, Typed DEF Counts, Knows
  <2>11. Fits(f)'
    BY <2>3, <2>5, <2>7, <2>8 DEF Fits
  <2> QED
    BY <1>1, <2>3, <2>5, <2>8, <2>9, <2>10, <2>11, LibraryStep
<1> QED
  BY <1>1, <1>2, <1>3

(* The hook fails, having destroyed nothing.                               *)
LEMMA PrepareFailsStep ==
  ASSUME IInv, NEW i \in Image, PrepareFails(i)
  PROVE  IInv'
<1>1. PICK v : v = [lib[i] EXCEPT !.unloading = FALSE, !.refs = 1]
  OBVIOUS
<1>2. /\ At("unload", "prepare") /\ Top.of = i /\ Return /\ lib[i].prepare
      /\ UNCHANGED count /\ UNCHANGED ghost /\ UNCHANGED <<rwVars, mutexVars, exits>>
  BY DEF PrepareFails
<1>3. lib' = [lib EXCEPT ![i] = v]
  <2>1. lib \in [Image -> Libraries]
    BY Typed
  <2>2. lib' = [lib EXCEPT ![i].unloading = FALSE, ![i].refs = 1]
    BY DEF PrepareFails
  <2> QED
    BY <1>1, <2>1, <2>2 DEF Libraries
<1>4. /\ v \in Libraries
      /\ v.slot = lib[i].slot /\ v.initialized = lib[i].initialized
      /\ v.finalized = lib[i].finalized /\ ~v.unloading
      /\ v.prepare = lib[i].prepare /\ v.finish = lib[i].finish
  BY <1>1, Typed DEF Libraries
<1>5. Knows(i, "prepare")
  BY <1>2, UnloadKnows
<1>6. OnlyAt(i) /\ lib'[i] = v /\ SameLife(i) /\ Listed(i)'
  BY <1>2, <1>3, <1>4, <1>5, OnlyLibrary DEF Listed, Knows
<1>7. /\ Moved(i, {}) /\ Loaded(i)' /\ Usable(i)' /\ (Alive(i)' <=> lib'[i].initialized)
  BY <1>2, <1>6, UnloadReturns
<1>8. LivesAt(i)'
  <2>1. "prepare" \notin Ran
    BY StagesFacts
  <2> QED
    BY <1>2, <1>4, <1>5, <1>6, <1>7, <2>1 DEF LivesAt, Knows, SameLife
<1>9. Counts(i)
  BY <1>2, <1>5, <1>6, Typed DEF Counts, Knows
<1> QED
  BY <1>2, <1>4, <1>6, <1>7, <1>8, <1>9, LibraryStep

(* The application is deleted, and what is left of it remembered.          *)
LEMMA PrepareStep ==
  ASSUME IInv, NEW i \in Image, Prepare(i)
  PROVE  IInv'
<1>1. PICK services \in BOOLEAN :
        /\ services => lib[i].prepare
        /\ lib' = [lib EXCEPT ![i].prepare = FALSE, ![i].finish = @ \/ services]
        /\ ghost' = IF lib[i].prepare
             THEN [ghost EXCEPT !.owned[i] = [application |-> FALSE, services |-> services]]
             ELSE ghost
  BY DEF Prepare
<1>2. PICK left \in BOOLEAN : left = (lib[i].finish \/ services)
  <2>1. lib[i].finish \/ services => TRUE = (lib[i].finish \/ services)
    BY SMT
  <2>2. ~(lib[i].finish \/ services) => FALSE = (lib[i].finish \/ services)
    BY SMT
  <2> QED
    BY <2>1, <2>2, Zenon
<1>3. PICK v : v = [lib[i] EXCEPT !.prepare = FALSE, !.finish = left]
  OBVIOUS
<1>4. PICK w : w = [application |-> FALSE, services |-> services]
  OBVIOUS
<1>5. /\ At("unload", "prepare") /\ Top.of = i /\ Goto("destructors")
      /\ UNCHANGED count /\ UNCHANGED <<rwVars, mutexVars, exits>>
  BY DEF Prepare
<1>6. lib' = [lib EXCEPT ![i] = v]
  <2>1. lib \in [Image -> Libraries]
    BY Typed
  <2>2. lib' = [lib EXCEPT ![i].prepare = FALSE, ![i].finish = left]
    BY <1>1, <1>2
  <2> QED
    BY <1>3, <2>1, <2>2 DEF Libraries
<1>7. /\ v \in Libraries
      /\ v.slot = lib[i].slot /\ v.initialized = lib[i].initialized
      /\ v.finalized = lib[i].finalized /\ v.unloading = lib[i].unloading
      /\ ~v.prepare /\ (v.finish <=> lib[i].finish \/ services)
  BY <1>2, <1>3, Typed DEF Libraries
<1>8. /\ w \in [application : BOOLEAN, services : BOOLEAN]
      /\ ~w.application /\ (w.services <=> services)
  BY <1>4
<1>9. Knows(i, "prepare")
  BY <1>5, UnloadKnows
<1>10. /\ OnlyAt(i) /\ lib'[i] = v
       /\ ghost'.started[i] = ghost.started[i] /\ ghost'.ended[i] = ghost.ended[i]
       /\ ~ghost'.owned[i].application /\ (ghost'.owned[i].services => v.finish)
  <2>1. CASE lib[i].prepare
    <3>1. ghost' = [ghost EXCEPT !.owned[i] = w]
      BY <1>1, <1>4, <2>1
    <3>2. /\ OnlyAt(i) /\ lib'[i] = v /\ ghost'.owned[i] = w
          /\ ghost'.started[i] = ghost.started[i] /\ ghost'.ended[i] = ghost.ended[i]
      BY <1>6, <1>7, <1>8, <3>1, OnlyOwned
    <3> QED
      BY <1>7, <1>8, <3>2
  <2>2. CASE ~lib[i].prepare
    <3>1. OnlyAt(i) /\ lib'[i] = v /\ SameLife(i)
      BY <1>1, <1>6, <1>7, <2>2, OnlyLibrary
    <3> QED
      BY <1>7, <1>9, <2>2, <3>1 DEF SameLife, Knows, LivesAt
  <2> QED
    BY <2>1, <2>2
<1>11. Listed(i)'
  BY <1>7, <1>9, <1>10 DEF Listed, Knows
<1>12. PICK f : f = Frame("unload", i, "destructors")
  OBVIOUS
<1>13. /\ "destructors" \in UnloadStages /\ "destructors" \notin Ran /\ "prepare" \notin Ran
       /\ "prepare" \in Prepared /\ "destructors" \notin Finished
  BY StagesFacts
<1>14. /\ Moved(i, {f}) /\ Loaded(i)' /\ Usable(i)' /\ (Alive(i)' <=> lib'[i].initialized)
       /\ f.kind = "unload" /\ f.of = i /\ f.at = "destructors" /\ About(f) = i
  BY <1>5, <1>11, <1>12, <1>13, UnloadGoes
<1>15. LivesAt(i)'
  BY <1>7, <1>9, <1>10, <1>11, <1>13, <1>14 DEF LivesAt, Knows
<1>16. Counts(i)
  BY <1>5, <1>9, <1>11, Typed DEF Counts, Knows
<1>17. Fits(f)'
  BY <1>7, <1>9, <1>10, <1>11, <1>13, <1>14 DEF Fits, Knows
<1> QED
  BY <1>5, <1>7, <1>10, <1>14, <1>15, <1>16, <1>17, LibraryStep

(* The destructors begin, unless the constructors never ran.               *)
LEMMA DestructStep ==
  ASSUME IInv, NEW i \in Image, Destruct(i)
  PROVE  IInv'
<1>1. /\ At("unload", "destructors") /\ Top.of = i /\ UNCHANGED lib /\ UNCHANGED count
      /\ UNCHANGED <<rwVars, mutexVars, exits>>
  BY DEF Destruct
<1>2. /\ Knows(i, "destructors") /\ ghost \in Ghosts /\ lib[i] \in Libraries
      /\ lib \in [Image -> Libraries]
  BY <1>1, UnloadKnows, Typed
<1>3. /\ {"game", "drain"} \subseteq Ran /\ "destructors" \notin Ran
      /\ {"game", "drain"} \subseteq UnloadStages
      /\ "destructors" \in Prepared \cap Deleted /\ "game" \notin Finished /\ "drain" \notin Finished
  BY StagesFacts
<1>4. PICK next \in {"game", "drain"} :
        /\ Goto(next) /\ (next = "game" <=> lib[i].initialized)
        /\ next = "game" => ghost' = [ghost EXCEPT !.ended[i] = @ + 1]
        /\ next = "drain" => UNCHANGED ghost
  BY DEF Destruct
<1>5. /\ OnlyAt(i) /\ lib'[i] = lib[i] /\ ghost'.owned[i] = ghost.owned[i]
      /\ ghost'.started[i] = ghost'.ended[i] /\ ghost'.ended[i] \in {0, 1}
  <2>1. CASE next = "game"
    <3>1. ghost.started[i] = 1 /\ ghost.ended[i] = 0
      BY <1>2, <1>3, <1>4, <2>1 DEF Knows, LivesAt
    <3>2. PICK y : y = [ghost.ended EXCEPT ![i] = @ + 1]
      OBVIOUS
    <3>3. /\ y \in [Image -> Nat] /\ y[i] = 1
          /\ \A j \in Image \ {i} : y[j] = ghost.ended[j]
      BY <1>2, <3>1, <3>2 DEF Ghosts
    <3>4. ghost' = [ghost EXCEPT !.ended = y]
      <4>1. ghost' = [ghost EXCEPT !.ended[i] = @ + 1]
        BY <1>4, <2>1
      <4> QED
        BY <3>2, <4>1
    <3>5. /\ ghost' \in Ghosts /\ ghost'.started = ghost.started /\ ghost'.ended = y
          /\ ghost'.owned = ghost.owned /\ ghost'.pending = ghost.pending
      BY <1>2, <3>3, <3>4 DEF Ghosts
    <3> QED
      BY <1>1, <1>2, <3>1, <3>3, <3>5 DEF OnlyAt, SameLife
  <2>2. CASE next = "drain"
    <3>1. ghost.started[i] = ghost.ended[i] /\ ghost.ended[i] \in {0, 1}
      BY <1>2, <1>3, <1>4, <2>2 DEF Knows, LivesAt
    <3> QED
      BY <1>1, <1>2, <1>4, <2>2, <3>1 DEF OnlyAt, SameLife
  <2> QED
    BY <1>4, <2>1, <2>2
<1>6. Listed(i)'
  BY <1>2, <1>5 DEF Listed, Knows
<1>7. PICK f : f = Frame("unload", i, next)
  OBVIOUS
<1>8. /\ Moved(i, {f}) /\ Loaded(i)' /\ Usable(i)' /\ ~Alive(i)'
      /\ f.kind = "unload" /\ f.of = i /\ f.at = next /\ About(f) = i
  BY <1>1, <1>3, <1>4, <1>6, <1>7, UnloadGoes
<1>9. LivesAt(i)'
  BY <1>2, <1>3, <1>5, <1>6, <1>8 DEF LivesAt, Knows
<1>10. Counts(i)
  BY <1>1, <1>2, <1>6, Typed DEF Counts, Knows
<1>11. Fits(f)'
  BY <1>2, <1>3, <1>4, <1>5, <1>6, <1>8 DEF Fits, Knows
<1> QED
  BY <1>1, <1>5, <1>8, <1>9, <1>10, <1>11, LibraryStep

(* No callback of the library is left.                                     *)
LEMMA FinishStep ==
  ASSUME IInv, NEW i \in Image, Finish(i)
  PROVE  IInv'
<1>1. PICK v : v = [lib[i] EXCEPT !.finish = FALSE, !.initialized = FALSE, !.finalized = TRUE]
  OBVIOUS
<1>2. /\ At("unload", "drain") /\ Top.of = i /\ Due = {} /\ Goto("recheck")
      /\ UNCHANGED count /\ UNCHANGED <<rwVars, mutexVars, exits>>
  BY DEF Finish
<1>3. lib' = [lib EXCEPT ![i] = v]
  <2>1. lib \in [Image -> Libraries]
    BY Typed
  <2>2. lib' = [lib EXCEPT ![i].finish = FALSE, ![i].initialized = FALSE, ![i].finalized = TRUE]
    BY DEF Finish
  <2> QED
    BY <1>1, <2>1, <2>2 DEF Libraries
<1>4. /\ v \in Libraries /\ lib[i] \in Libraries
      /\ v.slot = lib[i].slot /\ ~v.initialized /\ v.finalized
      /\ v.unloading = lib[i].unloading /\ v.prepare = lib[i].prepare /\ ~v.finish
  BY <1>1, Typed DEF Libraries
<1>5. Knows(i, "drain") /\ ghost \in Ghosts
  BY <1>2, UnloadKnows, Typed
<1>6. PICK w : w = [ghost.owned[i] EXCEPT !.services = FALSE]
  OBVIOUS
<1>7. /\ w \in [application : BOOLEAN, services : BOOLEAN]
      /\ w.application = ghost.owned[i].application /\ ~w.services
  BY <1>5, <1>6 DEF Ghosts
<1>8. /\ OnlyAt(i) /\ lib'[i] = v
      /\ ghost'.started[i] = ghost.started[i] /\ ghost'.ended[i] = ghost.ended[i]
      /\ ghost'.owned[i].application = ghost.owned[i].application
      /\ ~ghost'.owned[i].services
  <2>1. CASE lib[i].finish
    <3>1. ghost' = [ghost EXCEPT !.owned[i].services = FALSE]
      BY <2>1 DEF Finish
    <3>2. ghost' = [ghost EXCEPT !.owned[i] = w]
      BY <1>6, <3>1
    <3>3. /\ OnlyAt(i) /\ lib'[i] = v /\ ghost'.owned[i] = w
          /\ ghost'.started[i] = ghost.started[i] /\ ghost'.ended[i] = ghost.ended[i]
      BY <1>3, <1>4, <1>7, <3>2, OnlyOwned
    <3> QED
      BY <1>7, <3>3
  <2>2. CASE ~lib[i].finish
    <3>1. UNCHANGED ghost
      BY <2>2 DEF Finish
    <3>2. OnlyAt(i) /\ lib'[i] = v /\ SameLife(i)
      BY <1>3, <1>4, <3>1, OnlyLibrary
    <3> QED
      BY <1>5, <2>2, <3>2 DEF SameLife, Knows, LivesAt
  <2> QED
    BY <2>1, <2>2
<1>9. Listed(i)'
  BY <1>4, <1>5, <1>8 DEF Listed, Knows
<1>10. PICK f : f = Frame("unload", i, "recheck")
  OBVIOUS
<1>11. /\ "recheck" \in UnloadStages /\ "recheck" \notin Ran /\ "drain" \in Ran
       /\ "drain" \in Prepared \cap Deleted
  BY StagesFacts
<1>12. /\ Moved(i, {f}) /\ Loaded(i)' /\ Usable(i)' /\ ~Alive(i)'
       /\ f.kind = "unload" /\ f.of = i /\ f.at = "recheck" /\ About(f) = i
  BY <1>2, <1>4, <1>8, <1>9, <1>10, <1>11, UnloadGoes
<1>13. LivesAt(i)'
  BY <1>4, <1>5, <1>8, <1>9, <1>11, <1>12 DEF LivesAt, Knows
<1>14. Counts(i)
  BY <1>2, <1>5, <1>9, Typed DEF Counts, Knows
<1>15. Fits(f)'
  BY <1>4, <1>5, <1>8, <1>9, <1>11, <1>12 DEF Fits, Knows
<1>16. ASSUME NEW k \in 1..Len(exits) PROVE i \notin {CodeOf[exits[k]], DsoOf[exits[k]]}
  <2>1. Top.kind = "unload" /\ Top.of = i /\ k \in DOMAIN exits
    BY <1>2, Typed DEF At, IInv, TypeOK
  <2> QED
    BY <1>2, <2>1 DEF Due, Matches
<1> QED
  BY <1>2, <1>8, <1>12, <1>13, <1>14, <1>15, <1>16, LibraryStep

(* The entries of its read-write locks go at once, and then the mutexes    *)
(* with everything else.                                                   *)
LEMMA DestroyLocksStep ==
  ASSUME IInv, NEW i \in Image, DestroyLocks(i)
  PROVE  IInv'
<1>1. /\ At("unload", "locks") /\ Top.of = i /\ UNCHANGED count /\ UNCHANGED ghost
      /\ UNCHANGED mutexVars /\ UNCHANGED exits
      /\ \/ Defer(i) /\ UNCHANGED rwVars
         \/ RangeDestroy(LocksOf[i]) /\ Goto("mutexes") /\ UNCHANGED lib
  BY DEF DestroyLocks
<1>2. CASE Defer(i) /\ UNCHANGED rwVars
  <2>1. "locks" \notin Ran
    BY StagesFacts
  <2>2. UNCHANGED <<rwVars, mutexVars, exits>>
    BY <1>1, <1>2
  <2> QED
    BY <1>1, <1>2, <2>1, <2>2, DeferStep
<1>3. CASE RangeDestroy(LocksOf[i]) /\ Goto("mutexes") /\ UNCHANGED lib
  <2>1. Knows(i, "locks") /\ lib[i] \in Libraries /\ lib \in [Image -> Libraries]
    BY <1>1, UnloadKnows, Typed
  <2>2. PICK f : f = Frame("unload", i, "mutexes")
    OBVIOUS
  <2>3. /\ "mutexes" \in UnloadStages /\ "mutexes" \notin Ran /\ "locks" \notin Ran
        /\ "locks" \in Prepared \cap Deleted \cap Finished
    BY StagesFacts
  <2>4. OnlyAt(i) /\ lib'[i] = lib[i] /\ SameLife(i) /\ Listed(i)'
    BY <1>1, <1>3, <2>1, Typed DEF OnlyAt, SameLife, Listed, Knows
  <2>5. /\ Moved(i, {f}) /\ Loaded(i)' /\ Usable(i)' /\ (Alive(i)' <=> lib'[i].initialized)
        /\ f.kind = "unload" /\ f.of = i /\ f.at = "mutexes" /\ About(f) = i
    BY <1>1, <1>3, <2>2, <2>3, <2>4, UnloadGoes
  <2>6. LivesAt(i)'
    BY <2>1, <2>3, <2>4, <2>5 DEF LivesAt, Knows, SameLife
  <2>7. Counts(i)
    BY <1>1, <2>1, <2>4, Typed DEF Counts, Knows
  <2>8. LocksOf[i] \in SUBSET Lock
    BY LoaderAssumption
  <2>9. RwInv'
    BY <1>3, <2>8, RangeDestroyStep DEF IInv
  <2>10. /\ \A l \in Lock : entry'[l].listed => entry[l].listed
         /\ \A l \in LocksOf[i] : ~entry'[l].listed
    BY <1>3, <2>8 DEF RangeDestroy, NoEntry
  <2>11. Fits(f)'
    BY <2>1, <2>3, <2>4, <2>5, <2>10 DEF Fits, Knows
  <2>12. mutex' \in [Mutex -> Entries] /\ mutex' = mutex /\ UNCHANGED <<exits, locking>>
    BY <1>1 DEF mutexVars, IInv, TypeOK, Entries
  <2>13. ASSUME NEW k \in 1..Len(exits), i \in {CodeOf[exits[k]], DsoOf[exits[k]]}
         PROVE  ~lib'[i].finalized
    BY <2>4, <2>13 DEF IInv, Registered
  <2> QED
    BY <2>4, <2>5, <2>6, <2>7, <2>9, <2>10, <2>11, <2>12, <2>13, LoaderStep
<1> QED
  BY <1>1, <1>2, <1>3

LEMMA UnmapStep ==
  ASSUME IInv, NEW i \in Image, Unmap(i)
  PROVE  IInv'
<1>1. /\ At("unload", "mutexes") /\ Top.of = i /\ ~MutexBusy(i) /\ Return
      /\ lib' = [lib EXCEPT ![i] = NoLibrary] /\ count' = count - 1
      /\ UNCHANGED <<entry, reads, writer, wait, locking, exits>>
  BY DEF Unmap
<1>2. /\ Knows(i, "mutexes") /\ ghost \in Ghosts /\ lib \in [Image -> Libraries]
  BY <1>1, UnloadKnows, Typed
<1>3. "mutexes" \notin Ran /\ "mutexes" \in Prepared \cap Deleted \cap Finished
  BY StagesFacts
<1>4. /\ Moved(i, {}) /\ (Loaded(i)' <=> Listed(i)') /\ (Usable(i)' <=> Listed(i)')
      /\ (Alive(i)' <=> lib'[i].initialized)
  BY <1>1, UnloadReturns
<1>5. lib' \in [Image -> Libraries] /\ lib'[i] = NoLibrary /\ \A j \in Image \ {i} : lib'[j] = lib[j]
  <2>1. NoLibrary \in Libraries
    BY LoaderAssumption DEF NoLibrary, Libraries
  <2> QED
    BY <1>1, <1>2, <2>1
<1>6. /\ ghost' \in Ghosts /\ ghost'.pending = ghost.pending
      /\ \A j \in Image \ {i} : SameLife(j)
      /\ ghost'.owned = ghost.owned /\ ghost'.started[i] = 0 /\ ghost'.ended[i] = 0
  <2>1. PICK x, y : x = [ghost.started EXCEPT ![i] = 0] /\ y = [ghost.ended EXCEPT ![i] = 0]
    OBVIOUS
  <2>2. /\ x \in [Image -> Nat] /\ y \in [Image -> Nat] /\ x[i] = 0 /\ y[i] = 0
        /\ \A j \in Image \ {i} : x[j] = ghost.started[j] /\ y[j] = ghost.ended[j]
    BY <1>2, <2>1 DEF Ghosts
  <2>3. ghost' = [ghost EXCEPT !.started = x, !.ended = y]
    <3>1. ghost' = [ghost EXCEPT !.started[i] = 0, !.ended[i] = 0]
      BY DEF Unmap
    <3> QED
      BY <1>2, <2>1, <3>1 DEF Ghosts
  <2>4. /\ ghost' \in Ghosts /\ ghost'.started = x /\ ghost'.ended = y
        /\ ghost'.owned = ghost.owned /\ ghost'.pending = ghost.pending
    BY <1>2, <2>2, <2>3 DEF Ghosts
  <2> QED
    BY <2>2, <2>4 DEF SameLife
<1>7. OnlyAt(i) /\ ~Listed(i)'
  BY <1>5, <1>6 DEF OnlyAt, Listed, NoLibrary
<1>8. Counts(i)
  <2>1. count \in 0..MaxLibrary /\ count # 0
    <3>1. IsFiniteSet({j \in Image : Listed(j)})
      BY LoaderAssumption, FS_Subset
    <3>2. Cardinality({j \in Image : Listed(j)}) # 0
      BY <1>2, <3>1, FS_EmptySet DEF Knows
    <3> QED
      BY <3>2, Typed DEF IInv, Lives
  <2>2. count' = count - 1
    BY <1>1
  <2> QED
    BY <1>2, <1>7, <2>1, <2>2, LoaderAssumption DEF Counts, Knows
<1>9. LivesAt(i)'
  <2>1. ~Alive(i)'
    BY <1>4, <1>5 DEF NoLibrary
  <2>2. ~ghost.owned[i].application /\ ~ghost.owned[i].services
    BY <1>2, <1>3 DEF Knows, LivesAt
  <2> QED
    BY <1>4, <1>5, <1>6, <1>7, <2>1, <2>2 DEF LivesAt, NoLibrary
<1>10. RwInv'
  <2>1. word' \in [Lock -> {"zero", "mark", "dead"}]
    BY DEF Unmap, IInv, RwInv, RwTypeOK
  <2>2. RwTypeOK'
    BY <1>1, <2>1 DEF IInv, RwInv, RwTypeOK
  <2>3. \A l \in Lock : Counted(l)'
    BY <1>1 DEF IInv, RwInv, Counted, Waiters, Tokens
  <2> QED
    BY <2>2, <2>3 DEF RwInv
<1>11. /\ mutex' \in [Mutex -> Entries]
       /\ \A m \in Mutex : mutex'[m] = mutex[m] \/ (mutex[m].users = 0 /\ mutex'[m] = NoEntry)
       /\ \A m \in MutexesOf[i] : ~mutex'[m].listed
  <2>1. mutex \in [Mutex -> Entries]
    BY DEF IInv, TypeOK, Entries
  <2>2. mutex' = [m \in Mutex |-> IF m \in MutexesOf[i] THEN NoEntry ELSE mutex[m]]
    BY DEF Unmap
  <2>3. \A m \in Mutex : mutex'[m] = IF m \in MutexesOf[i] THEN NoEntry ELSE mutex[m]
    BY <2>2
  <2>4. \A m \in Mutex : m \in MutexesOf[i] => mutex[m].users = 0
    BY <1>1, <2>1 DEF MutexBusy, Entries
  <2>5. mutex' \in [Mutex -> Entries]
    BY <2>1, <2>2, NoEntryTyped
  <2>6. \A m \in MutexesOf[i] : m \in Mutex /\ ~NoEntry.listed
    BY LoaderAssumption DEF NoEntry
  <2> QED
    BY <2>3, <2>4, <2>5, <2>6
<1>12. \A k \in 1..Len(exits) : i \notin {CodeOf[exits[k]], DsoOf[exits[k]]}
  BY <1>2, <1>3 DEF Knows, IInv, Registered
<1>13. (\A l \in Lock : entry'[l].listed => entry[l].listed) /\ UNCHANGED <<exits, locking>>
  BY <1>1
<1>14. \A l \in LocksOf[i] : ~entry'[l].listed
  BY <1>1, <1>2 DEF Knows
<1> QED
  BY <1>4, <1>7, <1>8, <1>9, <1>10, <1>11, <1>12, <1>13, <1>14, LoaderStep

-----------------------------------------------------------------------------
(* Exit callbacks, which change no library. *)

LEMMA CallbackStep ==
  ASSUME IInv, UNCHANGED <<rwVars, mutexVars>>, UNCHANGED lib, UNCHANGED count,
         Framed(stack'),
         \A f \in Frames : f.kind \in Owning => (f \in Calls' <=> f \in Calls),
         \A f \in Calls' : f \in Calls \/ (f.kind \notin Owning /\ Listed(About(f))),
         ghost' \in Ghosts, \A j \in Image : SameLife(j),
         exits' \in Seq(Callback),
         \A k \in 1..Len(exits') : \A i \in {CodeOf[exits'[k]], DsoOf[exits'[k]]} :
            Usable(i) /\ ~lib[i].finalized,
         \A c \in Callback : ghost'.pending[c] =>
            \/ \E k \in 1..Len(exits') : exits'[k] = c
            \/ \E f \in Calls' : f.kind = "callback" /\ f.of = c
  PROVE  IInv'
<1>1. Framed(stack) /\ (\A f \in Calls : f \in Frames) /\ (\A f \in Calls' : f \in Frames)
  BY DEF IInv, Stacked, Framed, Calls, Elems
<1>2. UNCHANGED rwVars /\ mutex' = mutex /\ locking' = locking /\ entry' = entry
  BY DEF rwVars, mutexVars
<1>3. RwInv'
  BY <1>2, RwStep DEF IInv
<1>4. TypeOK'
  BY <1>2, <1>3 DEF IInv, TypeOK, RwInv
<1>5. ASSUME NEW j \in Image
      PROVE  (Usable(j)' <=> Usable(j)) /\ (Alive(j)' <=> Alive(j))
  <2>1. \A f \in Frames : f.kind \in Owning => (f \in Here(j)' <=> f \in Here(j))
    BY DEF Here
  <2>2. \A f \in Here(j) \cup Here(j)' : f \in Frames
    BY <1>1 DEF Here
  <2>3. Loaded(j)' <=> Loaded(j)
    BY <2>1, <2>2 DEF Loaded, Listed, Owning
  <2>4. (Constructing(j)' <=> Constructing(j)) /\ (Destructed(j)' <=> Destructed(j))
    BY <1>1, <2>1, <2>2, HereFacts, HereNext DEF Owning
  <2> QED
    BY <1>1, <2>3, <2>4, HereFacts, HereNext DEF Alive
<1>6. Stacked'
  <2>1. ASSUME NEW f \in Calls' PROVE Fits(f)'
    <3>1. CASE f \in Calls
      <4>1. Fits(f) /\ f \in Frames
        BY <1>1, <3>1 DEF IInv, Stacked
      <4>2. f.kind \in Owning => f.of \in Image
        BY <4>1 DEF Frames, Owning
      <4> QED
        BY <1>2, <4>1, <4>2 DEF Fits, Listed, SameLife, Owning
    <3>2. CASE f.kind \notin Owning /\ Listed(About(f))
      BY <3>2 DEF Fits, Listed, Owning
    <3> QED
      BY <3>1, <3>2
  <2> QED
    BY <2>1 DEF Stacked
<1>7. Lives'
  <2>1. \A j \in Image : LivesAt(j)'
    BY <1>5 DEF IInv, Lives, LivesAt, SameLife, Listed
  <2>2. {j \in Image : Listed(j)}' = {j \in Image : Listed(j)}
    BY DEF Listed
  <2> QED
    BY <2>1, <2>2 DEF IInv, Lives
<1>8. Registered'
  <2>1. ASSUME NEW k \in 1..Len(exits'), NEW i \in {CodeOf[exits'[k]], DsoOf[exits'[k]]}
        PROVE  Usable(i)' /\ ~lib'[i].finalized
    <3>1. i \in Image
      <4>1. exits'[k] \in Callback
        OBVIOUS
      <4> QED
        BY <4>1, LoaderAssumption
    <3> QED
      BY <1>5, <3>1
  <2> QED
    BY <2>1 DEF Registered
<1>9. Quiet'
  BY <1>2, <1>5 DEF IInv, Quiet
<1> QED
  BY <1>3, <1>4, <1>6, <1>7, <1>8, <1>9 DEF IInv

LEMMA Pended ==
  ASSUME IInv, NEW c \in Callback, NEW b \in BOOLEAN, ghost' = [ghost EXCEPT !.pending[c] = b]
  PROVE  /\ ghost' \in Ghosts /\ \A j \in Image : SameLife(j)
         /\ ghost'.pending[c] = b
         /\ \A d \in Callback \ {c} : ghost'.pending[d] = ghost.pending[d]
<1>1. ghost \in Ghosts
  BY Typed DEF IInv, Lives
<1>2. PICK p : p = [ghost.pending EXCEPT ![c] = b]
  OBVIOUS
<1>3. /\ p \in [Callback -> BOOLEAN] /\ p[c] = b
      /\ \A d \in Callback \ {c} : p[d] = ghost.pending[d]
  BY <1>1, <1>2 DEF Ghosts
<1>4. ghost' = [ghost EXCEPT !.pending = p]
  BY <1>2
<1>5. /\ ghost' \in Ghosts /\ ghost'.pending = p /\ ghost'.started = ghost.started
      /\ ghost'.ended = ghost.ended /\ ghost'.owned = ghost.owned
  BY <1>1, <1>3, <1>4 DEF Ghosts
<1> QED
  BY <1>3, <1>5 DEF SameLife

LEMMA RegisterStep ==
  ASSUME IInv, NEW c \in Callback, Register(c)
  PROVE  IInv'
<1>1. /\ \A i \in {CodeOf[c], DsoOf[c]} : Usable(i) /\ ~lib[i].finalized
      /\ exits' = <<c>> \o exits /\ UNCHANGED <<rwVars, mutexVars>>
      /\ UNCHANGED stack /\ UNCHANGED lib /\ UNCHANGED count
  BY DEF Register
<1>2. /\ ghost' \in Ghosts /\ \A j \in Image : SameLife(j)
      /\ \A d \in Callback \ {c} : ghost'.pending[d] = ghost.pending[d]
  BY Pended DEF Register
<1>3. exits \in Seq(Callback)
  BY DEF IInv, TypeOK
<1>4. /\ exits' \in Seq(Callback) /\ exits'[1] = c /\ Len(exits') = Len(exits) + 1
      /\ Len(exits) \in Nat
      /\ \A k \in 1..Len(exits) : exits'[k + 1] = exits[k]
      /\ \A k \in 2..Len(exits') : exits'[k] = exits[k - 1] /\ k - 1 \in 1..Len(exits)
  BY <1>1, <1>3, ConsFacts
<1>5. Calls' = Calls /\ Framed(stack')
  BY <1>1 DEF Calls, IInv, Stacked
<1>6. ASSUME NEW k \in 1..Len(exits'), NEW i \in {CodeOf[exits'[k]], DsoOf[exits'[k]]}
      PROVE  Usable(i) /\ ~lib[i].finalized
  <2>1. CASE k = 1
    BY <1>1, <1>4, <1>6, <2>1
  <2>2. CASE k # 1
    <3>1. k \in 2..Len(exits')
      BY <1>4, <2>2
    <3>2. exits'[k] = exits[k - 1] /\ k - 1 \in 1..Len(exits)
      BY <1>4, <3>1
    <3> QED
      BY <1>6, <3>2 DEF IInv, Registered
  <2> QED
    BY <2>1, <2>2
<1>7. ASSUME NEW d \in Callback, ghost'.pending[d]
      PROVE  \/ \E k \in 1..Len(exits') : exits'[k] = d
             \/ \E f \in Calls' : f.kind = "callback" /\ f.of = d
  <2>1. CASE d = c
    <3>1. 1 \in 1..Len(exits')
      BY <1>4
    <3> QED
      BY <1>4, <2>1, <3>1
  <2>2. CASE d # c
    <3>1. \/ \E k \in 1..Len(exits) : exits[k] = d
          \/ \E f \in Calls' : f.kind = "callback" /\ f.of = d
      BY <1>2, <1>5, <1>7, <2>2 DEF IInv, Registered
    <3>2. \A k \in 1..Len(exits) : k + 1 \in 1..Len(exits')
      BY <1>4
    <3> QED
      BY <1>4, <3>1, <3>2
  <2> QED
    BY <2>1, <2>2
<1> QED
  BY <1>1, <1>2, <1>4, <1>5, <1>6, <1>7, CallbackStep

(* A call that works on no library begins, or returns.                     *)
LEMMA CalledPush ==
  ASSUME Framed(stack), stack # <<>> => Top.at \in {"game", "drain"},
         NEW f \in Frames, f.kind \notin Owning, Push(f)
  PROVE  Framed(stack') /\ Calls' = Calls \cup {f}
<1>1. stack # <<>> => stack[1].at \in {"game", "drain"}
  BY TopFacts
<1> QED
  BY <1>1, FramedPush DEF Push, Calls

LEMMA CalledReturn ==
  ASSUME Framed(stack), stack # <<>>, Return
  PROVE  Framed(stack') /\ Calls = Calls' \cup {Top} /\ Top \in Frames
<1>1. PICK r : r = Tail(stack) /\ stack' = r
  BY DEF Return
<1>2. Top = stack[1] /\ Top \in Frames
  BY TopFacts
<1>3. Framed(r) /\ Elems(stack) = Elems(r) \cup {stack[1]}
  BY <1>1, FramedTail
<1> QED
  BY <1>1, <1>2, <1>3 DEF Calls

(* What has been registered and called when the list stays as it is.       *)
LEMMA ExitsKept ==
  ASSUME IInv
  PROVE  /\ exits \in Seq(Callback) /\ Framed(stack)
         /\ ghost \in Ghosts
         /\ UNCHANGED ghost => \A j \in Image : SameLife(j)
         /\ \A k \in 1..Len(exits) : \A i \in {CodeOf[exits[k]], DsoOf[exits[k]]} :
              Usable(i) /\ ~lib[i].finalized
         /\ \A c \in Callback : ghost.pending[c] =>
              \/ \E k \in 1..Len(exits) : exits[k] = c
              \/ \E f \in Calls : f.kind = "callback" /\ f.of = c
BY DEF IInv, TypeOK, Stacked, Lives, Registered, SameLife

LEMMA FinalizeCallStep ==
  ASSUME IInv, NEW i \in Image, FinalizeCall(i)
  PROVE  IInv'
<1>1. PICK f : f = Frame("finalize", i, "drain")
  OBVIOUS
<1>2. f \in Frames /\ f.kind = "finalize" /\ About(f) = i
  BY <1>1, FrameTyped DEF Frame, About
<1>3. /\ At("unload", "game") /\ Top.of = i /\ Push(f) /\ UNCHANGED <<rwVars, mutexVars>>
      /\ UNCHANGED lib /\ UNCHANGED count /\ UNCHANGED exits /\ UNCHANGED ghost
  BY <1>1 DEF FinalizeCall, loaderVars
<1>4. Listed(i)
  BY <1>3, UnloadKnows DEF Knows
<1>5. Framed(stack') /\ Calls' = Calls \cup {f}
  BY <1>2, <1>3, CalledPush, ExitsKept DEF At, Owning
<1>6. \A e \in Frames : e.kind \in Owning => (e \in Calls' <=> e \in Calls)
  BY <1>2, <1>5 DEF Owning
<1>7. \A e \in Calls' : e \in Calls \/ (e.kind \notin Owning /\ Listed(About(e)))
  BY <1>2, <1>4, <1>5 DEF Owning
<1>8. \A c \in Callback : ghost'.pending[c] =>
        \/ \E k \in 1..Len(exits') : exits'[k] = c
        \/ \E e \in Calls' : e.kind = "callback" /\ e.of = c
  BY <1>3, <1>5, ExitsKept
<1> QED
  BY <1>3, <1>5, <1>6, <1>7, <1>8, ExitsKept, CallbackStep

LEMMA FinalizeReturnStep ==
  ASSUME IInv, FinalizeReturn
  PROVE  IInv'
<1>1. /\ At("finalize", "drain") /\ Return /\ UNCHANGED <<rwVars, mutexVars>>
      /\ UNCHANGED lib /\ UNCHANGED count /\ UNCHANGED exits /\ UNCHANGED ghost
  BY DEF FinalizeReturn, loaderVars
<1>2. stack # <<>> /\ Top.kind = "finalize"
  BY <1>1, TopFacts, ExitsKept DEF At, Frame
<1>3. Framed(stack') /\ Calls = Calls' \cup {Top}
  BY <1>1, <1>2, CalledReturn, ExitsKept
<1>4. \A e \in Frames : e.kind \in Owning => (e \in Calls' <=> e \in Calls)
  BY <1>2, <1>3 DEF Owning
<1>5. \A e \in Calls' : e \in Calls
  BY <1>3
<1>6. \A c \in Callback : ghost'.pending[c] =>
        \/ \E k \in 1..Len(exits') : exits'[k] = c
        \/ \E e \in Calls' : e.kind = "callback" /\ e.of = c
  BY <1>1, <1>2, <1>3, ExitsKept
<1> QED
  BY <1>1, <1>3, <1>4, <1>5, <1>6, ExitsKept, CallbackStep

LEMMA CallbackReturnStep ==
  ASSUME IInv, NEW c \in Callback, CallbackReturn(c)
  PROVE  IInv'
<1>1. /\ At("callback", "game") /\ Top.of = c /\ Return /\ UNCHANGED <<rwVars, mutexVars>>
      /\ UNCHANGED lib /\ UNCHANGED count /\ UNCHANGED exits
  BY DEF CallbackReturn
<1>2. /\ ghost' \in Ghosts /\ (\A j \in Image : SameLife(j)) /\ ghost'.pending[c] = FALSE
      /\ \A d \in Callback \ {c} : ghost'.pending[d] = ghost.pending[d]
  BY Pended DEF CallbackReturn
<1>3. stack # <<>> /\ Top.kind = "callback"
  BY <1>1, TopFacts, ExitsKept DEF At, Frame
<1>4. Framed(stack') /\ Calls = Calls' \cup {Top}
  BY <1>1, <1>3, CalledReturn, ExitsKept
<1>5. \A e \in Frames : e.kind \in Owning => (e \in Calls' <=> e \in Calls)
  BY <1>3, <1>4 DEF Owning
<1>6. \A e \in Calls' : e \in Calls
  BY <1>4
<1>7. ASSUME NEW d \in Callback, ghost'.pending[d]
      PROVE  \/ \E k \in 1..Len(exits') : exits'[k] = d
             \/ \E e \in Calls' : e.kind = "callback" /\ e.of = d
  <2>1. d # c /\ ghost.pending[d]
    BY <1>2, <1>7
  <2> QED
    BY <1>1, <1>4, <2>1, ExitsKept
<1> QED
  BY <1>1, <1>2, <1>4, <1>5, <1>6, <1>7, ExitsKept, CallbackStep

(* Position k is taken out of a list.                                      *)
Removes(S, s, k, t) ==
  /\ t \in Seq(S)
  /\ \A j \in 1..Len(t) : \E n \in 1..Len(s) : t[j] = s[n]
  /\ \A n \in 1..Len(s) \ {k} : \E j \in 1..Len(t) : t[j] = s[n]

LEMMA RemoveFacts ==
  ASSUME NEW S, NEW s \in Seq(S), NEW k \in 1..Len(s)
  PROVE  Removes(S, s, k, Seqs!RemoveAt(s, k))
<1>1. PICK a, b : a = SubSeq(s, 1, k - 1) /\ b = SubSeq(s, k + 1, Len(s))
  OBVIOUS
<1>2. /\ a \in Seq(S) /\ Len(a) = k - 1 /\ Len(s) \in Nat
      /\ \A j \in 1..k - 1 : a[j] = s[j]
  BY <1>1, SubSeqProperties
<1>3. /\ b \in Seq(S) /\ Len(b) = Len(s) - k
      /\ \A j \in 1..Len(s) - k : b[j] = s[k + j]
  <2>1. Len(s) \in Nat /\ k \in Int /\ \A j \in k + 1..Len(s) : s[j] \in S
    OBVIOUS
  <2>2. PICK m \in Int, n \in Int : m = k + 1 /\ n = Len(s)
    BY <2>1
  <2>3. /\ SubSeq(s, m, n) \in Seq(S)
        /\ Len(SubSeq(s, m, n)) = IF m <= n THEN n - m + 1 ELSE 0
        /\ \A j \in 1..n - m + 1 : SubSeq(s, m, n)[j] = s[m + j - 1]
    BY <2>1, <2>2, SubSeqProperties
  <2>4. b = SubSeq(s, m, n)
    BY <1>1, <2>2
  <2>5. n - m + 1 = Len(s) - k /\ \A j \in 1..Len(s) - k : m + j - 1 = k + j
    BY <2>1, <2>2
  <2>6. Len(b) = Len(s) - k
    BY <2>1, <2>2, <2>3, <2>4
  <2> QED
    BY <2>3, <2>4, <2>5, <2>6
<1>4. PICK t : t = a \o b
  OBVIOUS
<1>5. /\ t \in Seq(S) /\ Len(t) = Len(s) - 1
      /\ \A j \in 1..Len(s) - 1 : t[j] = IF j <= k - 1 THEN a[j] ELSE b[j - (k - 1)]
  <2>1. a \in Seq(S) /\ b \in Seq(S)
    BY <1>2, <1>3
  <2>2. /\ t \in Seq(S) /\ Len(t) = Len(a) + Len(b)
        /\ \A j \in 1..Len(a) + Len(b) : t[j] = IF j <= Len(a) THEN a[j] ELSE b[j - Len(a)]
    BY <1>4, <2>1, ConcatProperties
  <2>3. Len(a) = k - 1 /\ Len(b) = Len(s) - k /\ Len(a) + Len(b) = Len(s) - 1
    BY <1>2, <1>3
  <2> QED
    BY <2>2, <2>3
<1>6. ASSUME NEW j \in 1..Len(t) PROVE \E n \in 1..Len(s) : t[j] = s[n]
  <2>1. CASE j <= k - 1
    <3>1. j \in 1..k - 1 /\ j \in 1..Len(s) - 1 /\ j \in 1..Len(s)
      BY <1>2, <1>5, <2>1
    <3> QED
      BY <1>2, <1>5, <2>1, <3>1
  <2>2. CASE ~(j <= k - 1)
    <3>1. /\ j - (k - 1) \in 1..Len(s) - k /\ j + 1 \in 1..Len(s) /\ j \in 1..Len(s) - 1
          /\ k + (j - (k - 1)) = j + 1
      BY <1>2, <1>5, <2>2
    <3>2. t[j] = b[j - (k - 1)]
      BY <1>5, <2>2, <3>1
    <3>3. b[j - (k - 1)] = s[j + 1]
      BY <1>3, <3>1
    <3> QED
      BY <3>1, <3>2, <3>3
  <2> QED
    BY <2>1, <2>2
<1>7. ASSUME NEW n \in 1..Len(s) \ {k} PROVE \E j \in 1..Len(t) : t[j] = s[n]
  <2>1. CASE n < k
    <3>1. n \in 1..Len(t) /\ n \in 1..Len(s) - 1 /\ n <= k - 1 /\ n \in 1..k - 1
      BY <1>2, <1>5, <2>1
    <3> QED
      BY <1>2, <1>5, <3>1
  <2>2. CASE n > k
    <3>1. /\ n - 1 \in 1..Len(t) /\ n - 1 \in 1..Len(s) - 1 /\ ~(n - 1 <= k - 1)
          /\ n - k \in 1..Len(s) - k
          /\ (n - 1) - (k - 1) = n - k /\ k + (n - k) = n
      BY <1>2, <1>5, <2>2
    <3>2. t[n - 1] = b[n - k] /\ b[n - k] = s[n]
      BY <1>3, <1>5, <3>1
    <3> QED
      BY <3>1, <3>2
  <2> QED
    BY <2>1, <2>2
<1>8. t = Seqs!RemoveAt(s, k)
  BY <1>1, <1>4 DEF Seqs!RemoveAt
<1>9. Removes(S, s, k, t)
  BY <1>5, <1>6, <1>7 DEF Removes
<1> QED
  BY <1>8, <1>9

LEMMA RunCallbackStep ==
  ASSUME IInv, RunCallback
  PROVE  IInv'
<1>1. PICK k : k = CHOOSE d \in Due : \A j \in Due : d <= j
  OBVIOUS
<1>2. /\ Draining /\ Due # {} /\ exits' = Seqs!RemoveAt(exits, k)
      /\ Push(Frame("callback", exits[k], "game"))
      /\ UNCHANGED <<rwVars, mutexVars>> /\ UNCHANGED lib /\ UNCHANGED count /\ UNCHANGED ghost
  BY <1>1 DEF RunCallback
<1>3. exits \in Seq(Callback) /\ k \in 1..Len(exits)
  <2>1. exits \in Seq(Callback) /\ DOMAIN exits = 1..Len(exits)
    BY ExitsKept
  <2>2. Due \in SUBSET Nat /\ Due \subseteq 1..Len(exits)
    BY <2>1 DEF Due
  <2>3. \E m \in Due : \A j \in Due : m <= j
    BY <1>2, <2>2, LeastNatural
  <2>4. k \in Due
    BY <1>1, <2>3
  <2> QED
    BY <2>1, <2>2, <2>4
<1>4. PICK c \in Callback : c = exits[k]
  BY <1>3
<1>5. PICK f : f = Frame("callback", c, "game")
  OBVIOUS
<1>6. f \in Frames /\ f.kind = "callback" /\ f.of = c /\ About(f) = CodeOf[c]
  BY <1>5 DEF Frame, Frames, About
<1>7. Framed(stack') /\ Calls' = Calls \cup {f}
  <2>1. Top.at \in {"game", "drain"} /\ Push(f) /\ f.kind \notin Owning
    BY <1>2, <1>4, <1>5, <1>6 DEF Draining, At, Owning
  <2> QED
    BY <1>6, <2>1, CalledPush, ExitsKept
<1>8. Listed(CodeOf[c])
  BY <1>3, <1>4, ExitsKept DEF Usable
<1>9. /\ exits' \in Seq(Callback)
      /\ \A j \in 1..Len(exits') : \E n \in 1..Len(exits) : exits'[j] = exits[n]
      /\ \A n \in 1..Len(exits) \ {k} : \E j \in 1..Len(exits') : exits'[j] = exits[n]
  <2>1. Removes(Callback, exits, k, Seqs!RemoveAt(exits, k))
    BY <1>3, RemoveFacts
  <2>2. Removes(Callback, exits, k, exits')
    BY <1>2, <2>1
  <2> QED
    BY <2>2 DEF Removes
<1>10. \A e \in Frames : e.kind \in Owning => (e \in Calls' <=> e \in Calls)
  BY <1>6, <1>7 DEF Owning
<1>11. \A e \in Calls' : e \in Calls \/ (e.kind \notin Owning /\ Listed(About(e)))
  BY <1>6, <1>7, <1>8 DEF Owning
<1>12. \A j \in 1..Len(exits') : \A i \in {CodeOf[exits'[j]], DsoOf[exits'[j]]} :
          Usable(i) /\ ~lib[i].finalized
  BY <1>9, ExitsKept
<1>13. ASSUME NEW d \in Callback, ghost'.pending[d]
       PROVE  \/ \E j \in 1..Len(exits') : exits'[j] = d
              \/ \E e \in Calls' : e.kind = "callback" /\ e.of = d
  <2>1. CASE d = c
    BY <1>6, <1>7, <2>1
  <2>2. CASE d # c
    <3>1. \/ \E n \in 1..Len(exits) : exits[n] = d
          \/ \E e \in Calls : e.kind = "callback" /\ e.of = d
      BY <1>2, <1>13, ExitsKept
    <3> QED
      BY <1>4, <1>7, <1>9, <2>2, <3>1
  <2> QED
    BY <2>1, <2>2
<1> QED
  BY <1>2, <1>7, <1>9, <1>10, <1>11, <1>12, <1>13, ExitsKept, CallbackStep

-----------------------------------------------------------------------------
(* The other threads, which enter only libraries that can be used. *)

Lockers(m) == {g \in Guest : locking[g] = m}

LEMMA ThreadStep ==
  ASSUME IInv, UNCHANGED stack, UNCHANGED lib, UNCHANGED count, UNCHANGED exits,
         ghost' \in Ghosts, \A j \in Image : SameLife(j), ghost'.pending = ghost.pending,
         RwInv',
         \A l \in Lock : entry'[l].listed /\ ~entry[l].listed =>
            \A i \in HomeOfLock(l) : Usable(i) /\ ~lib[i].finalized,
         mutex' \in [Mutex -> Entries], locking' \in [Guest -> Mutex \cup {"none"}],
         \A m \in Mutex :
           /\ ~mutex'[m].listed => mutex'[m] = NoEntry
           /\ mutex'[m].users = Cardinality(Lockers(m)')
           /\ mutex'[m].listed /\ ~mutex[m].listed => \A i \in HomeOfMutex(m) : Usable(i)
  PROVE  IInv'
<1>1. Calls' = Calls /\ Framed(stack) /\ Framed(stack')
  BY DEF IInv, Stacked, Calls
<1>2. \A j \in Image : (Usable(j)' <=> Usable(j)) /\ (Listed(j)' <=> Listed(j))
  BY DEF Usable, Listed, At, Top
<1>3. \A j \in Image : Alive(j)' <=> Alive(j)
  BY <1>1 DEF Alive, Constructing, Destructed
<1>4. TypeOK'
  BY DEF IInv, TypeOK, RwInv, Entries
<1>5. Stacked'
  <2>1. ASSUME NEW f \in Calls PROVE Fits(f)'
    <3>1. f \in Frames
      BY <2>1, TopFacts, <1>1
    <3>2. Fits(f) /\ About(f) \in Image /\ (f.kind \in Owning => f.of \in Image)
      BY <3>1, LoaderAssumption DEF IInv, Stacked, About, Frames, Owning
    <3>3. ASSUME f.kind = "unload", f.at = "mutexes", NEW l \in LocksOf[f.of]
          PROVE  ~entry'[l].listed
      <4>1. f.of \in Image /\ l \in Lock /\ f.of \in HomeOfLock(l)
        BY <3>2, <3>3, LoaderAssumption DEF Owning, HomeOfLock
      <4>2. ~entry[l].listed /\ lib[f.of].finalized
        BY <3>2, <3>3, StagesFacts DEF Fits
      <4> QED
        BY <4>1, <4>2
    <3> QED
      BY <1>2, <3>2, <3>3 DEF Fits, SameLife, Owning
  <2> QED
    BY <1>1, <2>1 DEF Stacked
<1>6. Lives'
  <2>1. ASSUME NEW j \in Image PROVE LivesAt(j)'
    BY <1>2, <1>3 DEF IInv, Lives, LivesAt, SameLife
  <2>2. {j \in Image : Listed(j)}' = {j \in Image : Listed(j)}
    BY DEF Listed
  <2> QED
    BY <2>1, <2>2 DEF IInv, Lives
<1>7. Registered'
  <2>1. ASSUME NEW k \in 1..Len(exits), NEW i \in {CodeOf[exits[k]], DsoOf[exits[k]]}
        PROVE  Usable(i)' /\ ~lib'[i].finalized
    <3>1. i \in Image
      <4>1. exits[k] \in Callback
        BY DEF IInv, TypeOK
      <4> QED
        BY <4>1, LoaderAssumption
    <3> QED
      BY <1>2, <3>1 DEF IInv, Registered
  <2> QED
    BY <1>1, <2>1 DEF IInv, Registered
<1>8. Quiet'
  <2>1. ASSUME NEW i \in Image, ~Usable(i)
        PROVE  /\ \A l \in LocksOf[i] : ~entry'[l].listed
               /\ \A m \in MutexesOf[i] : ~mutex'[m].listed
    <3>1. \A l \in LocksOf[i] : l \in Lock /\ i \in HomeOfLock(l) /\ ~entry[l].listed
      BY <2>1, LoaderAssumption DEF IInv, Quiet, HomeOfLock
    <3>2. \A m \in MutexesOf[i] : m \in Mutex /\ i \in HomeOfMutex(m) /\ ~mutex[m].listed
      BY <2>1, LoaderAssumption DEF IInv, Quiet, HomeOfMutex
    <3> QED
      BY <2>1, <3>1, <3>2
  <2> QED
    BY <1>2, <2>1 DEF Quiet, Lockers
<1> QED
  BY <1>4, <1>5, <1>6, <1>7, <1>8 DEF IInv

(* What the table of mutexes keeps when no thread moves.                   *)
LEMMA MutexesKept ==
  ASSUME IInv
  PROVE  /\ mutex \in [Mutex -> Entries] /\ locking \in [Guest -> Mutex \cup {"none"}]
         /\ ghost \in Ghosts
         /\ UNCHANGED ghost => /\ \A j \in Image : SameLife(j)
                               /\ ghost'.pending = ghost.pending
         /\ \A m \in Mutex : /\ ~mutex[m].listed => mutex[m] = NoEntry
                             /\ mutex[m].users = Cardinality(Lockers(m))
         /\ UNCHANGED locking => \A m \in Mutex : Lockers(m)' = Lockers(m)
BY DEF IInv, TypeOK, Quiet, Lives, Entries, Lockers, SameLife

LEMMA UseFacts ==
  ASSUME IInv, Use
  PROVE  /\ ghost' \in Ghosts /\ \A j \in Image : SameLife(j)
         /\ ghost'.pending = ghost.pending
<1>1. ghost \in Ghosts /\ ghost' = [ghost EXCEPT !.uses = @ + 1]
  BY MutexesKept DEF Use
<1> QED
  BY <1>1 DEF Ghosts, SameLife

(* A step on a read-write lock.                                            *)
LEMMA RwThread ==
  ASSUME IInv, UNCHANGED <<mutexVars, stack, lib, count, exits>>, RwNext,
         UNCHANGED ghost \/ Use,
         \A l \in Lock : entry'[l].listed /\ ~entry[l].listed =>
            \A i \in HomeOfLock(l) : Usable(i) /\ ~lib[i].finalized
  PROVE  IInv'
<1>1. RwInv'
  BY RwStep DEF IInv
<1>2. /\ ghost' \in Ghosts /\ \A j \in Image : SameLife(j)
      /\ ghost'.pending = ghost.pending
  BY UseFacts, MutexesKept
<1>3. /\ UNCHANGED stack /\ UNCHANGED lib /\ UNCHANGED count /\ UNCHANGED exits
      /\ mutex' = mutex /\ locking' = locking
  BY DEF mutexVars
<1> QED
  BY <1>1, <1>2, <1>3, MutexesKept, ThreadStep

LEMMA GuestRwStep ==
  ASSUME IInv, NEW g \in Guest, GuestRw(g)
  PROVE  IInv'
<1>1. /\ UNCHANGED <<mutexVars, stack, lib, count, exits>> /\ UNCHANGED ghost
      /\ AcquireEnd(g) \/ AcquireFail(g) \/ \E l \in Lock : RwLockUnlock(g, l)
  BY DEF GuestRw, loaderVars
<1>2. RwNext
  BY <1>1 DEF RwNext
<1>3. entry \in [Lock -> Entries] /\ RwInv
  BY DEF IInv, RwInv, RwTypeOK, Entries
<1>4. \A l \in Lock : entry'[l].listed => entry[l].listed
  <2>1. CASE AcquireEnd(g)
    <3>1. PICK k \in Lock : k = wait[g].lock
      BY <1>3, <2>1, Inside DEF AcquireEnd
    <3>2. entry' = [entry EXCEPT ![k].users = @ - 1, ![k].holds = @ + 1]
      BY <2>1, <3>1 DEF AcquireEnd
    <3> QED
      BY <1>3, <3>2 DEF Entries
  <2>2. CASE AcquireFail(g)
    <3>1. PICK k \in Lock : k = wait[g].lock
      BY <1>3, <2>2, Inside DEF AcquireFail
    <3>2. entry' = [entry EXCEPT ![k].users = @ - 1]
      BY <2>2, <3>1 DEF AcquireFail
    <3> QED
      BY <1>3, <3>2 DEF Entries
  <2>3. CASE \E l \in Lock : RwLockUnlock(g, l)
    <3>1. PICK k \in Lock : entry' = [entry EXCEPT ![k].holds = @ - 1]
      BY <2>3 DEF RwLockUnlock
    <3> QED
      BY <1>3, <3>1 DEF Entries
  <2> QED
    BY <1>1, <2>1, <2>2, <2>3
<1> QED
  BY <1>1, <1>2, <1>4, RwThread

LEMMA GuestLockStep ==
  ASSUME IInv, NEW g \in Guest, NEW k \in Lock, NEW w \in BOOLEAN, GuestLock(g, k, w)
  PROVE  IInv'
<1>1. /\ UNCHANGED <<mutexVars, stack, lib, count, exits>> /\ Use
      /\ AcquireBegin(g, k, w) /\ MayUse(HomeOfLock(k), word[k] # "zero")
  BY DEF GuestLock
<1>2. RwNext
  BY <1>1 DEF RwNext
<1>3. entry \in [Lock -> Entries]
  BY DEF IInv, RwInv, RwTypeOK, Entries
<1>4. \A l \in Lock \ {k} : entry'[l] = entry[l]
  BY <1>1, <1>3 DEF AcquireBegin
<1>5. ASSUME NEW l \in Lock, entry'[l].listed, ~entry[l].listed
      PROVE  \A i \in HomeOfLock(l) : Usable(i) /\ ~lib[i].finalized
  <2>1. l = k
    BY <1>4, <1>5
  <2>2. word[k] = "zero"
    BY <1>1, <1>5, <2>1 DEF AcquireBegin
  <2> QED
    BY <1>1, <2>1, <2>2 DEF MayUse
<1> QED
  BY <1>1, <1>2, <1>5, RwThread

LEMMA GuestInitDestroyStep ==
  ASSUME IInv, NEW k \in Lock, GuestInitDestroy(k)
  PROVE  IInv'
<1>1. /\ UNCHANGED <<mutexVars, stack, lib, count, exits>> /\ Use
      /\ RwLockInit(k) \/ RwLockDestroy(k)
      /\ MayUse(HomeOfLock(k), FALSE)
  BY DEF GuestInitDestroy
<1>2. RwNext
  BY <1>1 DEF RwNext
<1>3. entry \in [Lock -> Entries]
  BY DEF IInv, RwInv, RwTypeOK, Entries
<1>4. \A l \in Lock \ {k} : entry'[l] = entry[l]
  BY <1>1, <1>3 DEF RwLockInit, RwLockDestroy
<1>5. ASSUME NEW l \in Lock, entry'[l].listed, ~entry[l].listed
      PROVE  \A i \in HomeOfLock(l) : Usable(i) /\ ~lib[i].finalized
  BY <1>1, <1>4, <1>5 DEF MayUse
<1> QED
  BY <1>1, <1>2, <1>5, RwThread

(* A step on a mutex.                                                      *)
LEMMA MutexThread ==
  ASSUME IInv, UNCHANGED <<rwVars, stack, lib, count, exits>>, UNCHANGED ghost \/ Use,
         mutex' \in [Mutex -> Entries], locking' \in [Guest -> Mutex \cup {"none"}],
         \A m \in Mutex :
           /\ ~mutex'[m].listed => mutex'[m] = NoEntry
           /\ mutex'[m].users = Cardinality(Lockers(m)')
           /\ mutex'[m].listed /\ ~mutex[m].listed => \A i \in HomeOfMutex(m) : Usable(i)
  PROVE  IInv'
<1>1. UNCHANGED rwVars
  OBVIOUS
<1>2. RwInv' /\ entry' = entry
  BY <1>1, RwStep DEF IInv, rwVars
<1>3. /\ ghost' \in Ghosts /\ \A j \in Image : SameLife(j)
      /\ ghost'.pending = ghost.pending
  BY UseFacts, MutexesKept
<1>4. UNCHANGED stack /\ UNCHANGED lib /\ UNCHANGED count /\ UNCHANGED exits
  OBVIOUS
<1> QED
  BY <1>2, <1>3, <1>4, ThreadStep

(* A thread enters the acquisition of a mutex, or leaves one.              *)
LEMMA LockerMoves ==
  ASSUME IInv, NEW g \in Guest, NEW m \in Mutex \cup {"none"},
         locking' = [locking EXCEPT ![g] = m], NEW k \in Mutex
  PROVE  /\ locking' \in [Guest -> Mutex \cup {"none"}]
         /\ Swaps(g, Lockers(k), Lockers(k)')
         /\ g \in Lockers(k) <=> locking[g] = k
         /\ g \in Lockers(k)' <=> m = k
<1>1. locking \in [Guest -> Mutex \cup {"none"}]
  BY MutexesKept
<1>2. /\ locking' \in [Guest -> Mutex \cup {"none"}] /\ locking'[g] = m
      /\ \A h \in Guest \ {g} : locking'[h] = locking[h]
  BY <1>1
<1>3. /\ g \in Lockers(k) <=> locking[g] = k
      /\ g \in Lockers(k)' <=> m = k
      /\ Lockers(k) \ {g} = Lockers(k)' \ {g}
      /\ Lockers(k) \in SUBSET Guest /\ Lockers(k)' \in SUBSET Guest
  BY <1>2 DEF Lockers
<1> QED
  BY <1>2, <1>3, RwFacts, CountExchange

LEMMA GuestMutexBeginStep ==
  ASSUME IInv, NEW g \in Guest, NEW m \in Mutex, GuestMutexBegin(g, m)
  PROVE  IInv'
<1>1. /\ MayUse(HomeOfMutex(m), mutex[m].listed) /\ locking[g] = "none"
      /\ locking' = [locking EXCEPT ![g] = m] /\ Use
      /\ UNCHANGED <<rwVars, stack, lib, count, exits>>
  BY DEF GuestMutexBegin
<1>2. mutex \in [Mutex -> Entries] /\ "none" \notin Mutex
  BY MutexesKept, LoaderAssumption
<1>3. mutex' = [mutex EXCEPT ![m].listed = TRUE, ![m].users = @ + 1]
  BY DEF GuestMutexBegin
<1>4. /\ mutex' \in [Mutex -> Entries] /\ mutex'[m].listed
      /\ mutex'[m].users = mutex[m].users + 1 /\ mutex[m].users \in Nat
      /\ \A k \in Mutex \ {m} : mutex'[k] = mutex[k]
  BY <1>2, <1>3 DEF Entries
<1>5. locking' \in [Guest -> Mutex \cup {"none"}]
  BY <1>1, LockerMoves
<1>6. ASSUME NEW k \in Mutex
      PROVE  /\ ~mutex'[k].listed => mutex'[k] = NoEntry
             /\ mutex'[k].users = Cardinality(Lockers(k)')
             /\ mutex'[k].listed /\ ~mutex[k].listed => \A i \in HomeOfMutex(k) : Usable(i)
  <2>1. /\ Swaps(g, Lockers(k), Lockers(k)') /\ g \notin Lockers(k) /\ (g \in Lockers(k)' <=> m = k)
    BY <1>1, <1>2, LockerMoves
  <2>2. /\ mutex[k].users = Cardinality(Lockers(k)) /\ (~mutex[k].listed => mutex[k] = NoEntry)
    BY MutexesKept
  <2>3. CASE k = m
    <3>1. Cardinality(Lockers(k)') = Cardinality(Lockers(k)) + 1
      BY <2>1, <2>3 DEF Swaps, In
    <3> QED
      BY <1>1, <1>4, <2>2, <2>3, <3>1 DEF MayUse
  <2>4. CASE k # m
    <3>1. Cardinality(Lockers(k)') = Cardinality(Lockers(k))
      BY <2>1, <2>4 DEF Swaps, In
    <3> QED
      BY <1>4, <2>2, <2>4, <3>1
  <2> QED
    BY <2>3, <2>4
<1> QED
  BY <1>1, <1>4, <1>5, <1>6, MutexThread

LEMMA GuestMutexEndStep ==
  ASSUME IInv, NEW g \in Guest, GuestMutexEnd(g)
  PROVE  IInv'
<1>1. PICK m \in Mutex : m = locking[g]
  BY DEF GuestMutexEnd
<1>2. /\ locking' = [locking EXCEPT ![g] = "none"] /\ UNCHANGED ghost
      /\ UNCHANGED <<rwVars, stack, lib, count, exits>>
  BY DEF GuestMutexEnd, loaderVars
<1>3. mutex \in [Mutex -> Entries] /\ "none" \notin Mutex
  BY MutexesKept, LoaderAssumption
<1>4. mutex' = [mutex EXCEPT ![m].users = @ - 1, ![m].holds = 1]
  BY <1>1 DEF GuestMutexEnd
<1>5. /\ Swaps(g, Lockers(m), Lockers(m)') /\ g \in Lockers(m) /\ g \notin Lockers(m)'
      /\ mutex[m].users = Cardinality(Lockers(m)) /\ (~mutex[m].listed => mutex[m] = NoEntry)
  <2>1. locking' = [locking EXCEPT ![g] = "none"] /\ "none" \in Mutex \cup {"none"}
    BY <1>2
  <2>2. /\ Swaps(g, Lockers(m), Lockers(m)')
        /\ g \in Lockers(m) <=> locking[g] = m
        /\ g \in Lockers(m)' <=> "none" = m
    BY <2>1, LockerMoves
  <2> QED
    BY <1>1, <1>3, <2>2, MutexesKept
<1>6. /\ Cardinality(Lockers(m)') = mutex[m].users - 1 /\ Cardinality(Lockers(m)') \in Nat
      /\ mutex[m].users > 0
  BY <1>5 DEF Swaps, In
<1>7. mutex[m].listed
  BY <1>5, <1>6 DEF NoEntry
<1>8. /\ mutex' \in [Mutex -> Entries] /\ mutex'[m].listed
      /\ mutex'[m].users = mutex[m].users - 1
      /\ \A k \in Mutex \ {m} : mutex'[k] = mutex[k]
  <2>1. mutex[m].users - 1 \in Nat
    BY <1>6
  <2> QED
    BY <1>3, <1>4, <1>7, <2>1 DEF Entries
<1>9. locking' \in [Guest -> Mutex \cup {"none"}]
  BY <1>1, <1>2, LockerMoves
<1>10. ASSUME NEW k \in Mutex
      PROVE  /\ ~mutex'[k].listed => mutex'[k] = NoEntry
             /\ mutex'[k].users = Cardinality(Lockers(k)')
             /\ mutex'[k].listed /\ ~mutex[k].listed => \A i \in HomeOfMutex(k) : Usable(i)
  <2>1. CASE k = m
    BY <1>6, <1>7, <1>8, <2>1
  <2>2. CASE k # m
    <3>1. /\ Swaps(g, Lockers(k), Lockers(k)') /\ g \notin Lockers(k) /\ g \notin Lockers(k)'
          /\ mutex[k].users = Cardinality(Lockers(k)) /\ (~mutex[k].listed => mutex[k] = NoEntry)
      BY <1>1, <1>2, <1>3, <2>2, LockerMoves, MutexesKept
    <3>2. Cardinality(Lockers(k)') = Cardinality(Lockers(k))
      BY <3>1 DEF Swaps, In
    <3> QED
      BY <1>8, <2>2, <3>1, <3>2
  <2> QED
    BY <2>1, <2>2
<1> QED
  BY <1>2, <1>8, <1>9, <1>10, MutexThread

LEMMA GuestMutexUnlockStep ==
  ASSUME IInv, NEW m \in Mutex, GuestMutexUnlock(m)
  PROVE  IInv'
<1>1. /\ mutex[m].holds > 0 /\ UNCHANGED locking /\ UNCHANGED ghost
      /\ UNCHANGED <<rwVars, stack, lib, count, exits>>
  BY DEF GuestMutexUnlock, loaderVars
<1>2. mutex \in [Mutex -> Entries] /\ mutex' = [mutex EXCEPT ![m].holds = 0]
  BY MutexesKept DEF GuestMutexUnlock
<1>3. /\ mutex' \in [Mutex -> Entries] /\ mutex'[m].listed = mutex[m].listed
      /\ mutex'[m].users = mutex[m].users
      /\ \A k \in Mutex \ {m} : mutex'[k] = mutex[k]
  BY <1>2 DEF Entries
<1>4. mutex[m].listed
  BY <1>1, MutexesKept DEF NoEntry
<1>5. ASSUME NEW k \in Mutex
      PROVE  /\ ~mutex'[k].listed => mutex'[k] = NoEntry
             /\ mutex'[k].users = Cardinality(Lockers(k)')
             /\ mutex'[k].listed /\ ~mutex[k].listed => \A i \in HomeOfMutex(k) : Usable(i)
  <2>1. /\ mutex[k].users = Cardinality(Lockers(k)) /\ (~mutex[k].listed => mutex[k] = NoEntry)
        /\ Lockers(k)' = Lockers(k)
    BY <1>1, MutexesKept
  <2> QED
    BY <1>3, <1>4, <2>1
<1>6. locking' \in [Guest -> Mutex \cup {"none"}]
  BY <1>1, MutexesKept
<1> QED
  BY <1>1, <1>3, <1>5, <1>6, MutexThread


-----------------------------------------------------------------------------
(* The invariant. *)

LEMMA InitIInv ==
  ASSUME Init
  PROVE  IInv
<1>1. /\ RwInit /\ lib = [i \in Image |-> NoLibrary] /\ count = 0 /\ stack = <<>> /\ exits = <<>>
      /\ mutex = [m \in Mutex |-> NoEntry] /\ locking = [g \in Guest |-> "none"]
  BY DEF Init
<1>2. RwInv
  BY <1>1, RwStart
<1>3. Calls = {} /\ Framed(stack)
  BY <1>1 DEF Calls, Elems, Framed
<1>4. /\ ghost.started = [i \in Image |-> 0] /\ ghost.ended = [i \in Image |-> 0]
      /\ ghost.owned = [i \in Image |-> NoOwned] /\ ghost.pending = [c \in Callback |-> FALSE]
      /\ ghost \in Ghosts
  BY DEF Init, Ghosts, NoOwned
<1>5. NoLibrary \in Libraries
  BY LoaderAssumption DEF NoLibrary, Libraries
<1>6. TypeOK
  <2>1. lib \in [Image -> Libraries]
    BY <1>1, <1>5
  <2>2. mutex \in [Mutex -> Entries]
    BY <1>1, NoEntryTyped
  <2>3. count \in 0..MaxLibrary /\ exits \in Seq(Callback)
    BY <1>1, LoaderAssumption
  <2> QED
    BY <1>2, <2>1, <2>2, <2>3 DEF TypeOK, RwInv, Libraries, Entries
<1>7. Lives
  <2>1. ASSUME NEW i \in Image PROVE LivesAt(i)
    <3>1. lib[i] = NoLibrary /\ ~Alive(i) /\ ~Usable(i)
      BY <1>1, <1>3 DEF Alive, Constructing, NoLibrary, Usable, Listed
    <3> QED
      BY <1>4, <3>1 DEF LivesAt, NoLibrary, NoOwned
  <2>2. {i \in Image : Listed(i)} = {}
    BY <1>1 DEF Listed, NoLibrary
  <2> QED
    BY <1>1, <1>4, <2>1, <2>2, FS_EmptySet DEF Lives
<1>8. Registered
  BY <1>1, <1>4 DEF Registered
<1>9. Quiet
  <2>1. ASSUME NEW m \in Mutex PROVE {g \in Guest : locking[g] = m} = {} /\ mutex[m] = NoEntry
    BY <1>1, LoaderAssumption
  <2>2. ASSUME NEW l \in Lock PROVE ~entry[l].listed
    BY <1>1 DEF RwInit, NoEntry
  <2> QED
    BY <1>1, <2>1, <2>2, FS_EmptySet, LoaderAssumption DEF Quiet, NoEntry
<1> QED
  BY <1>2, <1>3, <1>6, <1>7, <1>8, <1>9 DEF IInv, Stacked

LEMMA StutterStep ==
  ASSUME IInv, UNCHANGED vars
  PROVE  IInv'
<1>1. /\ UNCHANGED rwVars /\ UNCHANGED <<stack, lib, count, exits>> /\ UNCHANGED ghost
      /\ entry' = entry /\ mutex' = mutex /\ locking' = locking
  BY DEF vars, rwVars
<1>2. RwInv'
  BY <1>1, RwStep DEF IInv
<1> QED
  BY <1>1, <1>2, MutexesKept, ThreadStep

LEMMA NextIInv ==
  ASSUME IInv, [Next]_vars
  PROVE  IInv'
<1>1. ASSUME Loading PROVE IInv'
  BY <1>1, LoadStep, LoadSectionStep, LoadFailStep, LoadDoneStep, CloneStep, ConstructStep,
     ConstructReturnStep, RegisterStep, CallbackReturnStep, RunCallbackStep,
     FinalizeReturnStep, FinalizeCallStep DEF Loading
<1>2. ASSUME Unloading PROVE IInv'
  BY <1>2, FreeStep, CheckLocksStep, CheckMutexesStep, RecheckMutexesStep, PrepareFailsStep,
     PrepareStep, DestructStep, DestructReturnStep, FinishStep, DestroyLocksStep,
     KeepForMutexStep, UnmapStep DEF Unloading
<1>3. ASSUME Threads PROVE IInv'
  BY <1>3, GuestRwStep, GuestMutexEndStep, GuestLockStep, GuestMutexBeginStep,
     GuestInitDestroyStep, GuestMutexUnlockStep DEF Threads
<1> QED
  BY <1>1, <1>2, <1>3, StutterStep DEF Next

LEMMA SpecIInv == Spec => []IInv
<1>1. Init => IInv
  BY InitIInv
<1>2. IInv /\ [Next]_vars => IInv'
  BY NextIInv
<1> QED
  BY <1>1, <1>2, PTL DEF Spec

-----------------------------------------------------------------------------
(* What follows of every state. *)

LEMMA Undangling ==
  ASSUME IInv
  PROVE  NothingDangles
<1> SUFFICES ASSUME NEW i \in Image, ~Listed(i)
             PROVE  /\ ~OnStack(i)
                    /\ \A l \in LocksOf[i] : ~entry[l].listed
                    /\ \A m \in MutexesOf[i] : ~mutex[m].listed
                    /\ \A g \in Guest : locking[g] \notin MutexesOf[i]
                    /\ \A k \in DOMAIN exits : i \notin {CodeOf[exits[k]], DsoOf[exits[k]]}
  BY DEF NothingDangles
<1>1. ~Usable(i) /\ Framed(stack) /\ \A f \in Here(i) : Fits(f)
  BY Typed DEF Usable
<1>2. ~OnStack(i)
  BY <1>1, TopFacts DEF Fits, Here
<1>3. /\ \A l \in LocksOf[i] : ~entry[l].listed
      /\ \A m \in MutexesOf[i] : ~mutex[m].listed
  BY <1>1 DEF IInv, Quiet
<1>4. ASSUME NEW g \in Guest, locking[g] \in MutexesOf[i] PROVE FALSE
  <2>1. PICK m \in Mutex : m = locking[g] /\ ~mutex[m].listed
    BY <1>3, <1>4, LoaderAssumption
  <2>2. mutex[m].users = 0 /\ mutex[m].users = Cardinality(Lockers(m))
    BY <2>1, MutexesKept DEF NoEntry
  <2>3. Lockers(m) \in SUBSET Guest /\ g \in Lockers(m)
    BY <2>1 DEF Lockers
  <2>4. IsFiniteSet(Lockers(m))
    BY <2>3, RwFacts, FS_Subset
  <2> QED
    BY <2>2, <2>3, <2>4, FS_EmptySet
<1>5. ASSUME NEW k \in DOMAIN exits PROVE i \notin {CodeOf[exits[k]], DsoOf[exits[k]]}
  <2>1. k \in 1..Len(exits)
    BY DEF IInv, TypeOK
  <2> QED
    BY <1>1, <2>1 DEF IInv, Registered
<1> QED
  BY <1>2, <1>3, <1>4, <1>5

LEMMA Whole ==
  ASSUME IInv
  PROVE  OpenMeansWhole
<1>1. SlotsExact
  <2>1. ASSUME NEW i \in Image, ~Listed(i) PROVE ~lib[i].image /\ ~(lib[i].blocks > 0)
    BY <2>1, Typed DEF LivesAt, NoLibrary
  <2> QED
    BY <2>1 DEF SlotsExact, IInv, Lives
<1>2. ASSUME NEW i \in Image, Usable(i), ~lib[i].unloading
      PROVE  /\ ghost.ended[i] = 0 /\ ~lib[i].finalized
             /\ i \in HasHooks => lib[i].prepare /\ ghost.owned[i].application
  BY <1>2, Typed DEF LivesAt
<1> QED
  BY <1>1, <1>2 DEF OpenMeansWhole, IInv

(* A library that could be used is unlisted by Unmap alone.                *)
LEMMA OnlyUnmapUnlists ==
  ASSUME IInv, Next, NEW i \in Image, Usable(i), ~Listed(i)'
  PROVE  Unmap(i)
<1>1. Listed(i) /\ lib \in [Image -> Libraries]
  BY Typed DEF Usable
<1>2. ASSUME UNCHANGED lib PROVE FALSE
  BY <1>1, <1>2 DEF Listed
<1>3. ASSUME NEW j \in Image, NEW v \in Libraries, lib' = [lib EXCEPT ![j] = v],
             v.slot \/ v.slot = lib[j].slot
      PROVE  FALSE
  BY <1>1, <1>3 DEF Listed
<1>4. ASSUME Threads PROVE FALSE
  <2>1. UNCHANGED lib
    BY <1>4 DEF Threads, GuestRw, GuestMutexEnd, GuestLock, GuestMutexBegin,
                GuestInitDestroy, GuestMutexUnlock, loaderVars
  <2> QED
    BY <1>2, <2>1
<1>5. ASSUME Loading PROVE FALSE
  <2>1. ASSUME NEW j \in Image, Load(j) PROVE FALSE
    BY <1>1, <2>1 DEF Load, Listed, Libraries
  <2>2. ASSUME NEW j \in Image, LoadSection(j) PROVE FALSE
    BY <1>1, <2>2 DEF LoadSection, Listed, Libraries
  <2>3. ASSUME NEW j \in Image, LoadFail(j) PROVE FALSE
    <3>1. j # i
      BY <2>3 DEF LoadFail, Usable
    <3> QED
      BY <1>1, <2>3, <3>1 DEF LoadFail, Listed
  <2>4. ASSUME NEW j \in Image, LoadDone(j) PROVE FALSE
    <3>1. PICK b : b = (j \in HasHooks)
      OBVIOUS
    <3>2. lib' = [lib EXCEPT ![j].refs = 1, ![j].prepare = b]
      BY <2>4, <3>1 DEF LoadDone
    <3> QED
      BY <1>1, <3>2 DEF Listed, Libraries
  <2>5. ASSUME NEW j \in Image, Clone(j) \/ ConstructReturn(j) PROVE FALSE
    BY <1>1, <2>5 DEF Clone, ConstructReturn, Listed, Libraries
  <2>6. ASSUME \/ \E j \in Image : Construct(j) \/ FinalizeCall(j)
               \/ \E c \in Callback : Register(c) \/ CallbackReturn(c)
               \/ RunCallback \/ FinalizeReturn
        PROVE  FALSE
    <3>1. UNCHANGED lib
      BY <2>6 DEF Construct, FinalizeCall, Register, CallbackReturn, RunCallback,
                  FinalizeReturn, loaderVars
    <3> QED
      BY <1>2, <3>1
  <2> QED
    BY <1>5, <2>1, <2>2, <2>3, <2>4, <2>5, <2>6 DEF Loading
<1>6. ASSUME Unloading PROVE Unmap(i)
  <2>1. ASSUME NEW j \in Image, Defer(j) \/ UNCHANGED lib PROVE FALSE
    BY <1>1, <2>1 DEF Defer, Listed, Libraries
  <2>2. ASSUME NEW j \in Image, Free(j) \/ PrepareFails(j) \/ Finish(j) PROVE FALSE
    BY <1>1, <2>2 DEF Free, PrepareFails, Finish, Listed, Libraries
  <2>3. ASSUME NEW j \in Image, Prepare(j) PROVE FALSE
    <3>1. PICK services \in BOOLEAN :
            lib' = [lib EXCEPT ![j].prepare = FALSE, ![j].finish = @ \/ services]
      BY <2>3 DEF Prepare
    <3> QED
      BY <1>1, <3>1 DEF Listed, Libraries
  <2>4. ASSUME NEW j \in Image, CheckMutexes(j) PROVE FALSE
    BY <1>1, <2>1, <2>4 DEF CheckMutexes, Listed, Libraries
  <2>5. ASSUME NEW j \in Image, \/ CheckLocks(j) \/ RecheckMutexes(j) \/ Destruct(j)
                                \/ DestructReturn(j) \/ DestroyLocks(j) \/ KeepForMutex(j)
        PROVE  FALSE
    <3>1. Defer(j) \/ UNCHANGED lib
      BY <2>5 DEF CheckLocks, RecheckMutexes, Destruct, DestructReturn, DestroyLocks,
                  KeepForMutex, loaderVars
    <3> QED
      BY <2>1, <3>1
  <2>6. ASSUME NEW j \in Image, Unmap(j) PROVE j = i
    BY <1>1, <2>6 DEF Unmap, Listed
  <2> QED
    BY <1>6, <2>2, <2>3, <2>4, <2>5, <2>6 DEF Unloading
<1> QED
  BY <1>4, <1>5, <1>6 DEF Next

(* What Unmap finds.                                                       *)
LEMMA UnmapFinds ==
  ASSUME IInv, NEW i \in Image, Unmap(i)
  PROVE  /\ ghost.started[i] = ghost.ended[i] /\ ghost.ended[i] <= 1
         /\ ghost.owned[i] = NoOwned
         /\ \A c \in Callback : CodeOf[c] = i => ~ghost.pending[c]
<1>1. Knows(i, "mutexes") /\ ghost \in Ghosts
  BY UnloadKnows, Typed DEF Unmap
<1>2. "mutexes" \notin Ran /\ "mutexes" \in Prepared \cap Deleted \cap Finished
  BY StagesFacts
<1>3. /\ lib[i].finalized /\ ~lib[i].finish /\ ~lib[i].prepare /\ ~Alive(i) /\ LivesAt(i)
      /\ Here(i) = {Frame("unload", i, "mutexes")}
  BY <1>1, <1>2 DEF Knows
<1>4. ghost.started[i] = ghost.ended[i] /\ ghost.ended[i] <= 1
  BY <1>3 DEF LivesAt
<1>5. ghost.owned[i] = NoOwned
  <2>1. ~ghost.owned[i].application /\ ~ghost.owned[i].services
    BY <1>3 DEF LivesAt
  <2>2. ghost.owned[i] \in [application : BOOLEAN, services : BOOLEAN]
    BY <1>1 DEF Ghosts
  <2> QED
    BY <2>1, <2>2 DEF NoOwned
<1>6. ASSUME NEW c \in Callback, CodeOf[c] = i, ghost.pending[c] PROVE FALSE
  <2>1. CASE \E k \in 1..Len(exits) : exits[k] = c
    BY <1>3, <1>6, <2>1 DEF IInv, Registered
  <2>2. CASE \E f \in Calls : f.kind = "callback" /\ f.of = c
    <3>1. PICK f \in Here(i) : f.kind = "callback"
      BY <1>6, <2>2 DEF Here, About
    <3> QED
      BY <1>3, <3>1 DEF Frame
  <2> QED
    BY <1>6, <2>1, <2>2 DEF IInv, Registered
<1> QED
  BY <1>4, <1>5, <1>6

-----------------------------------------------------------------------------
(* Nothing refers into a library that is not mapped, after any sequence of *)
(* failed loads, refused unloads and calls back into the game (the list of *)
(* loader_free_library, the checks of bridge_sync_range_busy and the drain *)
(* of __finalize).                                                         *)
THEOREM NothingRefersToUnmapped == Spec => []NothingDangles
<1>1. IInv => NothingDangles
  BY Undangling
<1> QED
  BY <1>1, SpecIInv, PTL

(* In the loader's machine, too, the entry of a read-write lock outlives   *)
(* the threads inside its acquisition or holding it (the `users` count of  *)
(* rwlock.c), also while a range of locks is destroyed.                    *)
THEOREM LocksOutliveUnloads == Spec => []EntriesOutliveUsers
<1>1. IInv => EntriesOutliveUsers
  BY RwOutlive DEF IInv
<1> QED
  BY <1>1, SpecIInv, PTL

(* A library that dlopen can hand out again has lost nothing to an unload  *)
(* that was refused, and the slots of the loader are accounted for.        *)
THEOREM OpenLibrariesWhole == Spec => []OpenMeansWhole
<1>1. IInv => OpenMeansWhole
  BY Whole
<1> QED
  BY <1>1, SpecIInv, PTL

(* loader_free_library unmaps a library only after its constructors and    *)
(* destructors have run as a pair, at most once, its application and the   *)
(* services are gone and each of its exit callbacks has returned.          *)
THEOREM UnmapsCleaned == Spec => CleanedBeforeUnmap
<1>1. ASSUME IInv, [Next]_vars
      PROVE  [\A i \in Image : Usable(i) /\ ~Listed(i)' =>
                /\ ghost.started[i] = ghost.ended[i] /\ ghost.ended[i] <= 1
                /\ ghost.owned[i] = NoOwned
                /\ \A c \in Callback : CodeOf[c] = i => ~ghost.pending[c]]_vars
  BY <1>1, OnlyUnmapUnlists, UnmapFinds
<1> QED
  BY <1>1, SpecIInv, PTL DEF Spec, CleanedBeforeUnmap

==============================================================================
