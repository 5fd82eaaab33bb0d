--------------------------- MODULE SyncTableProofs ---------------------------
(***************************************************************************)
(* Proofs about SyncTable for any finite set of threads and any words.     *)
(*                                                                         *)
(* IInv is inductive.  Its heart is CountersExact: users[w] is the number  *)
(* of threads that have a pointer to the entry of w.  An entry is freed    *)
(* only with users at zero, when that set is empty, and so no pointer ever *)
(* dangles.                                                                *)
(***************************************************************************)
EXTENDS SyncTable, CountingLemmas

-----------------------------------------------------------------------------
(* Counting. *)

(* Sets of threads that differ at t at most.                               *)
LEMMA Exchange ==
  ASSUME NEW S \in SUBSET Threads, NEW R \in SUBSET Threads,
         NEW t \in Threads, S \ {t} = R \ {t}
  PROVE  Swaps(t, S, R)
BY SyncAssumption, CountExchange

(* A set of threads is a finite set, empty exactly when it counts zero.    *)
LEMMA Counting ==
  ASSUME NEW S \in SUBSET Threads
  PROVE  /\ Cardinality(S) \in Nat
         /\ Cardinality(S) = 0 <=> S = {}
BY SyncAssumption, CountEmpty

(* The other threads stay where they are.                                  *)
OnlyMoves(t) ==
  \A u \in Threads \ {t} :
    stage'[u] = stage[u] /\ mutex'[u] = mutex[u] /\ cond'[u] = cond[u]

(* What t adds to the accounts of w: acquisitions counted and not granted. *)
Owes(t, w) ==
  In(t, Waiting(w)) + In(t, Unsettled(w, "unlocked"))
    - In(t, Unsettled(w, "locked"))

(* A step of t balances the accounts of w.                                 *)
Balanced(t, w) ==
  /\ users'[w] = users[w] + In(t, Refs(w)') - In(t, Refs(w))
  /\ holds'[w] = holds[w] + (depth'[w] - depth[w]) + Owes(t, w)' - Owes(t, w)

(* A step that moves t alone and balances every account keeps the counters *)
(* exact.                                                                  *)
LEMMA BalancedSteps ==
  ASSUME IInv, TypeOK', NEW t \in Threads, OnlyMoves(t),
         \A w \in Words : Balanced(t, w)
  PROVE  CountersExact'
<1> SUFFICES ASSUME NEW w \in Words
             PROVE  /\ users'[w] = Cardinality(Refs(w))'
                    /\ holds'[w] + Cardinality(Unsettled(w, "locked"))'
                         = depth'[w] + Cardinality(Waiting(w))'
                             + Cardinality(Unsettled(w, "unlocked"))'
  BY DEF CountersExact
<1>1. /\ users[w] = Cardinality(Refs(w))
      /\ holds[w] + Cardinality(Unsettled(w, "locked"))
           = depth[w] + Cardinality(Waiting(w))
               + Cardinality(Unsettled(w, "unlocked"))
  BY DEF IInv, CountersExact
<1>2. /\ users[w] \in Nat /\ holds[w] \in Nat /\ depth[w] \in Nat
      /\ users'[w] \in Nat /\ holds'[w] \in Nat /\ depth'[w] \in Nat
  BY SyncAssumption DEF IInv, TypeOK
<1>3. Swaps(t, Refs(w), Refs(w)')
  BY Exchange DEF OnlyMoves, Refs
<1>4. Swaps(t, Waiting(w), Waiting(w)')
  BY Exchange DEF OnlyMoves, Waiting
<1>5. Swaps(t, Unsettled(w, "locked"), Unsettled(w, "locked")')
  BY Exchange DEF OnlyMoves, Unsettled
<1>6. Swaps(t, Unsettled(w, "unlocked"), Unsettled(w, "unlocked")')
  BY Exchange DEF OnlyMoves, Unsettled
<1>7. users'[w] = Cardinality(Refs(w))'
  <2>1. users'[w] = users[w] + In(t, Refs(w)') - In(t, Refs(w))
    BY DEF Balanced
  <2> QED
    BY <1>1, <1>2, <1>3, <2>1 DEF Swaps
<1>8. holds'[w] + Cardinality(Unsettled(w, "locked"))'
        = depth'[w] + Cardinality(Waiting(w))'
            + Cardinality(Unsettled(w, "unlocked"))'
  <2> DEFINE L == Unsettled(w, "locked")
             U == Unsettled(w, "unlocked")
             W == Waiting(w)
  <2>1. /\ Cardinality(W') = Cardinality(W) + In(t, W') - In(t, W)
        /\ Cardinality(L') = Cardinality(L) + In(t, L') - In(t, L)
        /\ Cardinality(U') = Cardinality(U) + In(t, U') - In(t, U)
    BY <1>4, <1>5, <1>6 DEF Swaps
  <2>2. holds'[w] = holds[w] + (depth'[w] - depth[w])
                      + (In(t, W') + In(t, U') - In(t, L'))
                      - (In(t, W) + In(t, U) - In(t, L))
    BY DEF Balanced, Owes
  <2>3. /\ {In(t, W), In(t, W'), In(t, U), In(t, U'), In(t, L), In(t, L')}
             \subseteq {0, 1}
        /\ {Cardinality(W), Cardinality(W'), Cardinality(U),
            Cardinality(U'), Cardinality(L), Cardinality(L')} \subseteq Nat
    BY <1>4, <1>5, <1>6 DEF Swaps
  <2> HIDE DEF L, U, W
  <2>4. holds[w] + Cardinality(L) = depth[w] + Cardinality(W) + Cardinality(U)
    BY <1>1 DEF L, U, W
  <2>5. holds'[w] + Cardinality(L')
          = depth'[w] + Cardinality(W') + Cardinality(U')
    BY <1>2, <2>1, <2>2, <2>3, <2>4
  <2> QED
    BY <2>5 DEF L, U, W
<1> QED
  BY <1>7, <1>8

-----------------------------------------------------------------------------
(* The table. *)

(* Type correctness of the table alone.                                    *)
TypedTable ==
  /\ word \in [Words -> WordValues]
  /\ live \in [Words -> Kinds \cup {"none"}]
  /\ type \in [Words -> Types]

(* __create keeps the table typed and adds the one entry.                  *)
LEMMA PublishTable ==
  ASSUME TypedTable, NEW w \in Words, NEW k \in Kinds, NEW ty \in Types,
         Publish(w, k, ty)
  PROVE  /\ TypedTable'
         /\ live' = [live EXCEPT ![w] = k]
<1>1. Marker(k) \in WordValues
  BY DEF Marker, Markers, WordValues
<1> QED
  BY <1>1 DEF TypedTable, Publish

(* __acquire keeps the table typed and every other entry where it is.      *)
LEMMA AcquireTable ==
  ASSUME TypedTable, NEW w \in Words, NEW k \in Kinds, Acquire(w, k)
  PROVE  /\ TypedTable'
         /\ live[w] \in {k, "none"}
         /\ live' = [live EXCEPT ![w] = k]
<1>1. CASE live[w] = k
  BY <1>1 DEF Acquire, TypedTable, table
<1>2. CASE live[w] # k
  <2>1. live[w] = "none" /\ word[w] \in StaticValues(k)
    BY <1>2 DEF Acquire, CanAcquire
  <2>2. StaticType(k, word[w]) \in Types
    BY <2>1 DEF StaticType, StaticValues, Types, MutexTypes, Kinds
  <2>3. Publish(w, k, StaticType(k, word[w]))
    BY <1>2 DEF Acquire
  <2> QED
    BY <2>1, <2>2, <2>3, PublishTable
<1> QED
  BY <1>1, <1>2

-----------------------------------------------------------------------------
(* Steps of one thread. *)

(* The entries t has a pointer to fit the phase it is in.                  *)
ArgsFit(t) ==
  /\ mutex[t] # NoWord <=> stage[t] \in MutexStages \cup WaitStages
  /\ cond[t] # NoWord <=> stage[t] \in PulseStages \cup WaitStages
  /\ mutex[t] # NoWord => live[mutex[t]] = "mutex"
  /\ cond[t] # NoWord => live[cond[t]] = "cond"

(* A step of t preserves IInv if it is typed, keeps the entries there are, *)
(* leaves t consistent, and balances the accounts.                         *)
LEMMA OneStep ==
  ASSUME IInv, NEW t \in Threads, TypeOK', OnlyMoves(t), ArgsFit(t)',
         \A w \in Words : live[w] # "none" => live'[w] = live[w],
         OwnersExact', \A w \in Words : Balanced(t, w)
  PROVE  IInv'
<1>1. NoDanglingEntry'
  BY DEF IInv, TypeOK, NoDanglingEntry, OnlyMoves, ArgsFit, Kinds
<1>2. StageArgs'
  BY DEF IInv, StageArgs, OnlyMoves, ArgsFit
<1>3. CountersExact'
  BY BalancedSteps
<1> QED
  BY <1>1, <1>2, <1>3 DEF IInv

(* Goto and Advance set the fields of t, and of t only.                    *)
LEMMA GotoFields ==
  ASSUME TypeOK, NEW t \in Threads, NEW s \in Stages, NEW o \in Ops,
         NEW m \in Words \cup {NoWord}, NEW c \in Words \cup {NoWord},
         Goto(t, s, o, m, c)
  PROVE  /\ stage' \in [Threads -> Stages] /\ op' \in [Threads -> Ops]
         /\ mutex' \in [Threads -> Words \cup {NoWord}]
         /\ cond' \in [Threads -> Words \cup {NoWord}]
         /\ OnlyMoves(t)
         /\ stage'[t] = s /\ mutex'[t] = m /\ cond'[t] = c
BY DEF TypeOK, Goto, OnlyMoves

LEMMA AdvanceFields ==
  ASSUME TypeOK, NEW t \in Threads, NEW s \in Stages, Advance(t, s)
  PROVE  /\ stage' \in [Threads -> Stages] /\ op' \in [Threads -> Ops]
         /\ mutex' \in [Threads -> Words \cup {NoWord}]
         /\ cond' \in [Threads -> Words \cup {NoWord}]
         /\ OnlyMoves(t)
         /\ stage'[t] = s /\ mutex'[t] = mutex[t] /\ cond'[t] = cond[t]
BY DEF TypeOK, Advance, OnlyMoves

(* The invariant says so of every thread.                                  *)
LEMMA ThreadFits ==
  ASSUME IInv, NEW t \in Threads
  PROVE  ArgsFit(t)
BY DEF IInv, StageArgs, NoDanglingEntry, ArgsFit

(* Before the first phase of a call.                                       *)
LEMMA IdleFits ==
  ASSUME IInv, NEW t \in Threads, stage[t] = "idle"
  PROVE  mutex[t] = NoWord /\ cond[t] = NoWord
BY ThreadFits DEF ArgsFit, MutexStages, PulseStages, WaitStages

-----------------------------------------------------------------------------
(* A call begins. *)

(* __lock counts its user in the section that finds the entry.             *)
LEMMA LockCallStep ==
  ASSUME IInv, NEW t \in Threads, NEW w \in Words, NEW o \in LockOps,
         LockCall(t, w, o)
  PROVE  IInv'
<1>1. /\ TypedTable'
      /\ live[w] \in {"mutex", "none"}
      /\ live' = [live EXCEPT ![w] = "mutex"]
  BY AcquireTable DEF LockCall, IInv, TypeOK, TypedTable, Kinds
<1>2. /\ stage' \in [Threads -> Stages] /\ op' \in [Threads -> Ops]
      /\ mutex' \in [Threads -> Words \cup {NoWord}]
      /\ cond' \in [Threads -> Words \cup {NoWord}]
      /\ OnlyMoves(t)
      /\ stage'[t] = "locking" /\ mutex'[t] = w /\ cond'[t] = NoWord
  BY GotoFields DEF LockCall, IInv, Stages, Ops, LockOps, PulseOps, WaitOps
<1>3. mutex[t] = NoWord /\ cond[t] = NoWord
  BY IdleFits DEF LockCall
<1>4. UNCHANGED <<holds, owner, depth, due>>
  BY DEF LockCall, native
<1>5. TypeOK'
  BY <1>1, <1>2, <1>4 DEF LockCall, IInv, TypeOK, TypedTable
<1>6. ArgsFit(t)'
  BY <1>1, <1>2, SyncAssumption
  DEF LockCall, IInv, TypeOK, ArgsFit, MutexStages, PulseStages, WaitStages
<1>7. OwnersExact'
  BY <1>2, <1>4 DEF LockCall, IInv, OwnersExact, OnlyMoves
<1>8. \A x \in Words : Balanced(t, x)
  BY <1>2, <1>3, <1>4, SyncAssumption
  DEF LockCall, IInv, TypeOK, Balanced, Owes, In, Refs, Waiting, Unsettled
<1> QED
  BY <1>1, <1>2, <1>5, <1>6, <1>7, <1>8, OneStep DEF IInv, TypeOK

(* So does pthread_mutex_unlock.                                           *)
LEMMA UnlockCallStep ==
  ASSUME IInv, NEW t \in Threads, NEW w \in Words,
         UnlockCall(t, w)
  PROVE  IInv'
<1>1. /\ TypedTable'
      /\ live[w] \in {"mutex", "none"}
      /\ live' = [live EXCEPT ![w] = "mutex"]
  BY AcquireTable DEF UnlockCall, IInv, TypeOK, TypedTable, Kinds
<1>2. /\ stage' \in [Threads -> Stages] /\ op' \in [Threads -> Ops]
      /\ mutex' \in [Threads -> Words \cup {NoWord}]
      /\ cond' \in [Threads -> Words \cup {NoWord}]
      /\ OnlyMoves(t)
      /\ stage'[t] = "unlocking" /\ mutex'[t] = w /\ cond'[t] = NoWord
  BY GotoFields DEF UnlockCall, IInv, Stages, Ops, LockOps, PulseOps, WaitOps
<1>3. mutex[t] = NoWord /\ cond[t] = NoWord
  BY IdleFits DEF UnlockCall
<1>4. UNCHANGED <<holds, owner, depth, due>>
  BY DEF UnlockCall, native
<1>5. TypeOK'
  BY <1>1, <1>2, <1>4 DEF UnlockCall, IInv, TypeOK, TypedTable
<1>6. ArgsFit(t)'
  BY <1>1, <1>2, SyncAssumption
  DEF UnlockCall, IInv, TypeOK, ArgsFit, MutexStages, PulseStages, WaitStages
<1>7. OwnersExact'
  BY <1>2, <1>4 DEF UnlockCall, IInv, OwnersExact, OnlyMoves
<1>8. \A x \in Words : Balanced(t, x)
  BY <1>2, <1>3, <1>4, SyncAssumption
  DEF UnlockCall, IInv, TypeOK, Balanced, Owes, In, Refs, Waiting, Unsettled
<1> QED
  BY <1>1, <1>2, <1>5, <1>6, <1>7, <1>8, OneStep DEF IInv, TypeOK

(* So does __pulse, which never creates an entry.                          *)
LEMMA PulseCallStep ==
  ASSUME IInv, NEW t \in Threads, NEW c \in Words, NEW o \in PulseOps,
         PulseCall(t, c, o)
  PROVE  IInv'
<1>1. /\ TypedTable' /\ live' = live
      /\ live[c] = "cond"
  BY DEF PulseCall, IInv, TypeOK, TypedTable, table
<1>2. /\ stage' \in [Threads -> Stages] /\ op' \in [Threads -> Ops]
      /\ mutex' \in [Threads -> Words \cup {NoWord}]
      /\ cond' \in [Threads -> Words \cup {NoWord}]
      /\ OnlyMoves(t)
      /\ stage'[t] = "pulsing" /\ mutex'[t] = NoWord /\ cond'[t] = c
  <2>1. o \in Ops /\ "pulsing" \in Stages
    BY DEF Ops, Stages
  <2> QED
    BY <2>1, GotoFields DEF PulseCall, IInv
<1>3. mutex[t] = NoWord /\ cond[t] = NoWord
  BY IdleFits DEF PulseCall
<1>4. /\ UNCHANGED <<holds, owner, depth, due>>
      /\ users' = [users EXCEPT ![c] = @ + 1]
  BY DEF PulseCall, native
<1>5. TypeOK'
  BY <1>1, <1>2, <1>4 DEF IInv, TypeOK, TypedTable
<1>6. ArgsFit(t)'
  BY <1>1, <1>2, SyncAssumption
  DEF PulseCall, IInv, TypeOK, ArgsFit, MutexStages, PulseStages, WaitStages
<1>7. OwnersExact'
  BY <1>2, <1>4 DEF PulseCall, IInv, OwnersExact, OnlyMoves
<1>8. \A x \in Words : Balanced(t, x)
  BY <1>2, <1>3, <1>4, SyncAssumption
  DEF PulseCall, IInv, TypeOK, Balanced, Owes, In, Refs, Waiting, Unsettled
<1> QED
  BY <1>1, <1>2, <1>5, <1>6, <1>7, <1>8, OneStep DEF IInv, TypeOK

(* pthread_cond_wait counts a user of each of its two entries.             *)
LEMMA WaitCallStep ==
  ASSUME IInv, NEW t \in Threads, NEW c \in Words, NEW m \in Words,
         NEW o \in WaitOps, WaitCall(t, c, m, o)
  PROVE  IInv'
<1>1. /\ TypedTable'
      /\ live[c] \in {"cond", "none"}
      /\ live' = [live EXCEPT ![c] = "cond"]
  BY AcquireTable DEF WaitCall, IInv, TypeOK, TypedTable, Kinds
<1>2. /\ stage' \in [Threads -> Stages] /\ op' \in [Threads -> Ops]
      /\ mutex' \in [Threads -> Words \cup {NoWord}]
      /\ cond' \in [Threads -> Words \cup {NoWord}]
      /\ OnlyMoves(t)
      /\ stage'[t] = "entering" /\ mutex'[t] = m /\ cond'[t] = c
  BY GotoFields DEF WaitCall, IInv, Stages, Ops, LockOps, PulseOps, WaitOps
<1>3. mutex[t] = NoWord /\ cond[t] = NoWord
  BY IdleFits DEF WaitCall
<1>4. UNCHANGED <<holds, owner, depth, due>>
  BY DEF WaitCall, native
<1>5. TypeOK'
  BY <1>1, <1>2, <1>4 DEF WaitCall, IInv, TypeOK, TypedTable
<1>6. ArgsFit(t)'
  BY <1>1, <1>2, SyncAssumption
  DEF WaitCall, IInv, TypeOK, ArgsFit, MutexStages, PulseStages, WaitStages
<1>7. OwnersExact'
  BY <1>2, <1>4 DEF WaitCall, IInv, OwnersExact, OnlyMoves
<1>8. \A x \in Words : Balanced(t, x)
  BY <1>2, <1>3, <1>4, SyncAssumption
  DEF WaitCall, IInv, TypeOK, Balanced, Owes, In, Refs, Waiting, Unsettled
<1> QED
  BY <1>1, <1>2, <1>5, <1>6, <1>7, <1>8, OneStep DEF IInv, TypeOK

-----------------------------------------------------------------------------
(* The native primitives. *)

(* A granted lock is an acquisition not counted yet.                       *)
LEMMA NativeLockStep ==
  ASSUME IInv, NEW t \in Threads, NativeLock(t)
  PROVE  IInv'
<1>1. /\ stage' \in [Threads -> Stages] /\ op' \in [Threads -> Ops]
      /\ mutex' \in [Threads -> Words \cup {NoWord}]
      /\ cond' \in [Threads -> Words \cup {NoWord}]
      /\ OnlyMoves(t)
      /\ stage'[t] = "locked" /\ mutex'[t] = mutex[t] /\ cond'[t] = cond[t]
  BY AdvanceFields DEF NativeLock, IInv, Stages
<1>2. /\ UNCHANGED <<word, live, type, users, holds, due>>
      /\ mutex[t] \in Words
  BY ThreadFits
  DEF NativeLock, table, native, IInv, TypeOK, ArgsFit, MutexStages, WaitStages
<1>3. TypeOK'
  BY <1>1, <1>2, SyncAssumption
  DEF NativeLock, IInv, TypeOK, OwnersExact, native, OwnedRecursive
<1>4. ArgsFit(t)'
  BY <1>1, <1>2, ThreadFits
  DEF NativeLock, ArgsFit, MutexStages, PulseStages, WaitStages
<1>5. OwnersExact'
  BY <1>1, <1>2, SyncAssumption
  DEF NativeLock, IInv, TypeOK, OwnersExact, OnlyMoves, native, StageArgs,
      OwnedRecursive, MutexStages, WaitStages
<1>6. \A w \in Words : Balanced(t, w)
  BY <1>1, <1>2
  DEF NativeLock, IInv, TypeOK, OwnersExact, Balanced, Owes, In, Refs,
      Waiting, Unsettled, native
<1> QED
  BY <1>1, <1>2, <1>3, <1>4, <1>5, <1>6, OneStep

(* A refused lock changes no account.                                      *)
LEMMA NativeLockFailsStep ==
  ASSUME IInv, NEW t \in Threads, NativeLockFails(t)
  PROVE  IInv'
<1>1. /\ stage' \in [Threads -> Stages] /\ op' \in [Threads -> Ops]
      /\ mutex' \in [Threads -> Words \cup {NoWord}]
      /\ cond' \in [Threads -> Words \cup {NoWord}]
      /\ OnlyMoves(t)
      /\ stage'[t] = "refused" /\ mutex'[t] = mutex[t] /\ cond'[t] = cond[t]
  BY AdvanceFields DEF NativeLockFails, IInv, Stages
<1>2. /\ UNCHANGED <<word, live, type, users, holds, due>>
      /\ mutex[t] \in Words
  BY ThreadFits
  DEF NativeLockFails, table, native, IInv, TypeOK, ArgsFit, MutexStages,
      WaitStages
<1>3. TypeOK'
  BY <1>1, <1>2, SyncAssumption
  DEF NativeLockFails, IInv, TypeOK, OwnersExact, native, OwnedRecursive
<1>4. ArgsFit(t)'
  BY <1>1, <1>2, ThreadFits
  DEF NativeLockFails, ArgsFit, MutexStages, PulseStages, WaitStages
<1>5. OwnersExact'
  BY <1>1, <1>2, SyncAssumption
  DEF NativeLockFails, IInv, TypeOK, OwnersExact, OnlyMoves, native, StageArgs,
      OwnedRecursive, MutexStages, WaitStages
<1>6. \A w \in Words : Balanced(t, w)
  BY <1>1, <1>2
  DEF NativeLockFails, IInv, TypeOK, OwnersExact, Balanced, Owes, In, Refs,
      Waiting, Unsettled, native
<1> QED
  BY <1>1, <1>2, <1>3, <1>4, <1>5, <1>6, OneStep

(* A release leaves an acquisition counted until it is settled.            *)
LEMMA NativeUnlockStep ==
  ASSUME IInv, NEW t \in Threads, NativeUnlock(t)
  PROVE  IInv'
<1>1. /\ stage' \in [Threads -> Stages] /\ op' \in [Threads -> Ops]
      /\ mutex' \in [Threads -> Words \cup {NoWord}]
      /\ cond' \in [Threads -> Words \cup {NoWord}]
      /\ OnlyMoves(t)
      /\ stage'[t] = "unlocked" /\ mutex'[t] = mutex[t] /\ cond'[t] = cond[t]
  BY AdvanceFields DEF NativeUnlock, IInv, Stages
<1>2. /\ UNCHANGED <<word, live, type, users, holds, due>>
      /\ mutex[t] \in Words
  BY ThreadFits
  DEF NativeUnlock, table, native, IInv, TypeOK, ArgsFit, MutexStages,
      WaitStages
<1>3. TypeOK'
  BY <1>1, <1>2, SyncAssumption
  DEF NativeUnlock, IInv, TypeOK, OwnersExact, native, OwnedRecursive
<1>4. ArgsFit(t)'
  BY <1>1, <1>2, ThreadFits
  DEF NativeUnlock, ArgsFit, MutexStages, PulseStages, WaitStages
<1>5. OwnersExact'
  BY <1>1, <1>2, SyncAssumption
  DEF NativeUnlock, IInv, TypeOK, OwnersExact, OnlyMoves, native, StageArgs,
      OwnedRecursive, MutexStages, WaitStages
<1>6. \A w \in Words : Balanced(t, w)
  BY <1>1, <1>2
  DEF NativeUnlock, IInv, TypeOK, OwnersExact, Balanced, Owes, In, Refs,
      Waiting, Unsettled, native
<1> QED
  BY <1>1, <1>2, <1>3, <1>4, <1>5, <1>6, OneStep

(* A refused unlock changes no account.                                    *)
LEMMA NativeUnlockFailsStep ==
  ASSUME IInv, NEW t \in Threads, NativeUnlockFails(t)
  PROVE  IInv'
<1>1. /\ stage' \in [Threads -> Stages] /\ op' \in [Threads -> Ops]
      /\ mutex' \in [Threads -> Words \cup {NoWord}]
      /\ cond' \in [Threads -> Words \cup {NoWord}]
      /\ OnlyMoves(t)
      /\ stage'[t] = "refused" /\ mutex'[t] = mutex[t] /\ cond'[t] = cond[t]
  BY AdvanceFields DEF NativeUnlockFails, IInv, Stages
<1>2. /\ UNCHANGED <<word, live, type, users, holds, due>>
      /\ mutex[t] \in Words
  BY ThreadFits
  DEF NativeUnlockFails, table, native, IInv, TypeOK, ArgsFit, MutexStages,
      WaitStages
<1>3. TypeOK'
  BY <1>1, <1>2, SyncAssumption
  DEF NativeUnlockFails, IInv, TypeOK, OwnersExact, native, OwnedRecursive
<1>4. ArgsFit(t)'
  BY <1>1, <1>2, ThreadFits
  DEF NativeUnlockFails, ArgsFit, MutexStages, PulseStages, WaitStages
<1>5. OwnersExact'
  BY <1>1, <1>2, SyncAssumption
  DEF NativeUnlockFails, IInv, TypeOK, OwnersExact, OnlyMoves, native,
      StageArgs,
      OwnedRecursive, MutexStages, WaitStages
<1>6. \A w \in Words : Balanced(t, w)
  BY <1>1, <1>2
  DEF NativeUnlockFails, IInv, TypeOK, OwnersExact, Balanced, Owes, In, Refs,
      Waiting, Unsettled, native
<1> QED
  BY <1>1, <1>2, <1>3, <1>4, <1>5, <1>6, OneStep

(* A waiter has released the mutex and its acquisition stays counted.      *)
LEMMA NativeWaitStep ==
  ASSUME IInv, NEW t \in Threads, NativeWait(t)
  PROVE  IInv'
<1>1. /\ stage' \in [Threads -> Stages] /\ op' \in [Threads -> Ops]
      /\ mutex' \in [Threads -> Words \cup {NoWord}]
      /\ cond' \in [Threads -> Words \cup {NoWord}]
      /\ OnlyMoves(t)
      /\ stage'[t] = "blocked" /\ mutex'[t] = mutex[t] /\ cond'[t] = cond[t]
  BY AdvanceFields DEF NativeWait, IInv, Stages
<1>2. /\ UNCHANGED <<word, live, type, users, holds, due>>
      /\ mutex[t] \in Words
  BY ThreadFits
  DEF NativeWait, table, native, IInv, TypeOK, ArgsFit, MutexStages, WaitStages
<1>3. TypeOK'
  BY <1>1, <1>2, SyncAssumption
  DEF NativeWait, IInv, TypeOK, OwnersExact, native, OwnedRecursive
<1>4. ArgsFit(t)'
  BY <1>1, <1>2, ThreadFits
  DEF NativeWait, ArgsFit, MutexStages, PulseStages, WaitStages
<1>5. OwnersExact'
  BY <1>1, <1>2, SyncAssumption
  DEF NativeWait, IInv, TypeOK, OwnersExact, OnlyMoves, native, StageArgs,
      OwnedRecursive, MutexStages, WaitStages
<1>6. \A w \in Words : Balanced(t, w)
  BY <1>1, <1>2
  DEF NativeWait, IInv, TypeOK, OwnersExact, Balanced, Owes, In, Refs,
      Waiting, Unsettled, native
<1> QED
  BY <1>1, <1>2, <1>3, <1>4, <1>5, <1>6, OneStep

(* Waking without a pulse moves the waiter only.                           *)
LEMMA WaitEndsStep ==
  ASSUME IInv, NEW t \in Threads, WaitEnds(t)
  PROVE  IInv'
<1>1. /\ stage' \in [Threads -> Stages] /\ op' \in [Threads -> Ops]
      /\ mutex' \in [Threads -> Words \cup {NoWord}]
      /\ cond' \in [Threads -> Words \cup {NoWord}]
      /\ OnlyMoves(t)
      /\ stage'[t] = "woken" /\ mutex'[t] = mutex[t] /\ cond'[t] = cond[t]
  BY AdvanceFields DEF WaitEnds, IInv, Stages
<1>2. /\ UNCHANGED <<word, live, type, users, holds, due>>
      /\ mutex[t] \in Words
  BY ThreadFits
  DEF WaitEnds, table, native, IInv, TypeOK, ArgsFit, MutexStages, WaitStages
<1>3. TypeOK'
  BY <1>1, <1>2, SyncAssumption
  DEF WaitEnds, IInv, TypeOK, OwnersExact, native, OwnedRecursive
<1>4. ArgsFit(t)'
  BY <1>1, <1>2, ThreadFits
  DEF WaitEnds, ArgsFit, MutexStages, PulseStages, WaitStages
<1>5. OwnersExact'
  BY <1>1, <1>2, SyncAssumption
  DEF WaitEnds, IInv, TypeOK, OwnersExact, OnlyMoves, native, StageArgs,
      OwnedRecursive, MutexStages, WaitStages
<1>6. \A w \in Words : Balanced(t, w)
  BY <1>1, <1>2
  DEF WaitEnds, IInv, TypeOK, OwnersExact, Balanced, Owes, In, Refs, Waiting,
      Unsettled, native
<1> QED
  BY <1>1, <1>2, <1>3, <1>4, <1>5, <1>6, OneStep

(* So does the end of a slice.                                             *)
LEMMA SliceExpiresStep ==
  ASSUME IInv, NEW t \in Threads, SliceExpires(t)
  PROVE  IInv'
<1>1. /\ stage' \in [Threads -> Stages] /\ op' \in [Threads -> Ops]
      /\ mutex' \in [Threads -> Words \cup {NoWord}]
      /\ cond' \in [Threads -> Words \cup {NoWord}]
      /\ OnlyMoves(t)
      /\ stage'[t] = "sliced" /\ mutex'[t] = mutex[t] /\ cond'[t] = cond[t]
  BY AdvanceFields DEF SliceExpires, IInv, Stages
<1>2. /\ UNCHANGED <<word, live, type, users, holds, due>>
      /\ mutex[t] \in Words
  BY ThreadFits
  DEF SliceExpires, table, native, IInv, TypeOK, ArgsFit, MutexStages,
      WaitStages
<1>3. TypeOK'
  BY <1>1, <1>2, SyncAssumption
  DEF SliceExpires, IInv, TypeOK, OwnersExact, native, OwnedRecursive
<1>4. ArgsFit(t)'
  BY <1>1, <1>2, ThreadFits
  DEF SliceExpires, ArgsFit, MutexStages, PulseStages, WaitStages
<1>5. OwnersExact'
  BY <1>1, <1>2, SyncAssumption
  DEF SliceExpires, IInv, TypeOK, OwnersExact, OnlyMoves, native, StageArgs,
      OwnedRecursive, MutexStages, WaitStages
<1>6. \A w \in Words : Balanced(t, w)
  BY <1>1, <1>2
  DEF SliceExpires, IInv, TypeOK, OwnersExact, Balanced, Owes, In, Refs,
      Waiting, Unsettled, native
<1> QED
  BY <1>1, <1>2, <1>3, <1>4, <1>5, <1>6, OneStep

(* Whether it returns or waits again, the waiter owns the mutex again.     *)
LEMMA ReacquireStep ==
  ASSUME IInv, NEW t \in Threads, Reacquire(t)
  PROVE  IInv'
<1>1. /\ stage' \in [Threads -> Stages] /\ op' \in [Threads -> Ops]
      /\ mutex' \in [Threads -> Words \cup {NoWord}]
      /\ cond' \in [Threads -> Words \cup {NoWord}]
      /\ OnlyMoves(t)
      /\ stage'[t] = (IF stage[t] = "sliced" THEN "entering" ELSE "waited")
      /\ mutex'[t] = mutex[t] /\ cond'[t] = cond[t]
  BY AdvanceFields DEF Reacquire, IInv, Stages
<1>2. /\ UNCHANGED <<word, live, type, users, holds, due>>
      /\ mutex[t] \in Words
  BY ThreadFits
  DEF Reacquire, table, native, IInv, TypeOK, ArgsFit, MutexStages, WaitStages
<1>3. TypeOK'
  BY <1>1, <1>2, SyncAssumption
  DEF Reacquire, IInv, TypeOK, OwnersExact, native, OwnedRecursive
<1>4. ArgsFit(t)'
  BY <1>1, <1>2, ThreadFits
  DEF Reacquire, ArgsFit, MutexStages, PulseStages, WaitStages
<1>5. OwnersExact'
  BY <1>1, <1>2, SyncAssumption
  DEF Reacquire, IInv, TypeOK, OwnersExact, OnlyMoves, native, StageArgs,
      OwnedRecursive, MutexStages, WaitStages
<1>6. \A w \in Words : Balanced(t, w)
  BY <1>1, <1>2
  DEF Reacquire, IInv, TypeOK, OwnersExact, Balanced, Owes, In, Refs, Waiting,
      Unsettled, native
<1> QED
  BY <1>1, <1>2, <1>3, <1>4, <1>5, <1>6, OneStep

-----------------------------------------------------------------------------
(* Calls settle. *)

(* The release a thread has not settled is still counted: of the threads   *)
(* with an unsettled acquisition of w there is at most one, its owner.     *)
LEMMA ReleaseIsCounted ==
  ASSUME IInv, NEW t \in Threads, stage[t] = "unlocked"
  PROVE  holds[mutex[t]] > 0
<1> DEFINE w == mutex[t]
           L == Unsettled(w, "locked")
           U == Unsettled(w, "unlocked")
           W == Waiting(w)
<1>1. w \in Words
  BY ThreadFits DEF ArgsFit, MutexStages, IInv, TypeOK
<1>2. L \subseteq {owner[w]}
  BY DEF IInv, OwnersExact, Unsettled
<1>3. L # {} => depth[w] > 0
  BY <1>1, SyncAssumption DEF IInv, TypeOK, OwnersExact, Unsettled
<1>4. Cardinality(L) \in Nat /\ Cardinality(L) <= 1
  <2>1. Cardinality({owner[w]}) = 1 /\ IsFiniteSet({owner[w]})
    BY FS_Singleton
  <2>2. Cardinality(L) <= Cardinality({owner[w]})
    BY <1>2, <2>1, FS_Subset
  <2>3. Cardinality(L) \in Nat
    BY Counting DEF Unsettled
  <2> QED
    BY <2>1, <2>2, <2>3
<1>5. Cardinality(L) = 0 <=> L = {}
  BY Counting DEF Unsettled
<1>6. t \in U
  BY DEF Unsettled
<1>7. Cardinality(U) \in Nat /\ Cardinality(U) # 0
  BY <1>6, Counting DEF Unsettled
<1>8. Cardinality(W) \in Nat
  BY Counting DEF Waiting
<1>9. /\ holds[w] + Cardinality(L) = depth[w] + Cardinality(W) + Cardinality(U)
      /\ holds[w] \in Nat /\ depth[w] \in Nat
  BY <1>1, SyncAssumption DEF IInv, TypeOK, CountersExact
<1> HIDE DEF L, U, W, w
<1>10. Cardinality(L) <= depth[w]
  BY <1>3, <1>4, <1>5, <1>9
<1>11. holds[w] >= Cardinality(U)
  BY <1>4, <1>7, <1>8, <1>9, <1>10
<1>12. holds[w] > 0
  BY <1>7, <1>9, <1>11
<1> QED
  BY <1>12 DEF w

(* __lock settles: one user less, and the acquisition is counted.          *)
LEMMA LockFinishStep ==
  ASSUME IInv, NEW t \in Threads, LockFinish(t)
  PROVE  IInv'
<1>1. /\ stage' \in [Threads -> Stages] /\ op' \in [Threads -> Ops]
      /\ mutex' \in [Threads -> Words \cup {NoWord}]
      /\ cond' \in [Threads -> Words \cup {NoWord}]
      /\ OnlyMoves(t)
      /\ stage'[t] = "idle" /\ mutex'[t] = NoWord /\ cond'[t] = NoWord
  <2>1. "idle" \in Stages /\ "unlock" \in Ops
    BY DEF Stages, Ops
  <2> QED
    BY <2>1, GotoFields DEF LockFinish, Return, IInv
<1>2. UNCHANGED <<word, live, type, owner, depth>>
  BY DEF LockFinish, table, native
<1>3. ArgsFit(t)
  BY ThreadFits
<1>4. \A w \in Words : t \in Refs(w) => users[w] > 0
  <2> SUFFICES ASSUME NEW w \in Words, t \in Refs(w) PROVE users[w] > 0
    OBVIOUS
  <2>1. Cardinality(Refs(w)) \in Nat /\ Cardinality(Refs(w)) # 0
    BY Counting DEF Refs
  <2> QED
    BY <2>1 DEF IInv, CountersExact
<1>5. TypeOK'
  BY <1>1, <1>2, <1>3, <1>4
  DEF LockFinish, IInv, TypeOK, ArgsFit, MutexStages, PulseStages, WaitStages,
      Refs
<1>6. ArgsFit(t)'
  BY <1>1, SyncAssumption DEF ArgsFit, MutexStages, PulseStages, WaitStages
<1>7. OwnersExact'
  BY <1>1, <1>2 DEF IInv, OwnersExact, OnlyMoves
<1>8. \A w \in Words : Balanced(t, w)
  BY <1>1, <1>2, <1>3, SyncAssumption
  DEF LockFinish, IInv, TypeOK, ArgsFit, MutexStages, PulseStages, WaitStages,
      Balanced, Owes, In, Refs, Waiting, Unsettled
<1> QED
  BY <1>1, <1>2, <1>5, <1>6, <1>7, <1>8, OneStep

(* pthread_mutex_unlock settles: the counted acquisition is there to be    *)
(* given back.                                                             *)
LEMMA UnlockFinishStep ==
  ASSUME IInv, NEW t \in Threads, UnlockFinish(t)
  PROVE  IInv'
<1>1. /\ stage' \in [Threads -> Stages] /\ op' \in [Threads -> Ops]
      /\ mutex' \in [Threads -> Words \cup {NoWord}]
      /\ cond' \in [Threads -> Words \cup {NoWord}]
      /\ OnlyMoves(t)
      /\ stage'[t] = "idle" /\ mutex'[t] = NoWord /\ cond'[t] = NoWord
  <2>1. "idle" \in Stages /\ "unlock" \in Ops
    BY DEF Stages, Ops
  <2> QED
    BY <2>1, GotoFields DEF UnlockFinish, Return, IInv
<1>2. UNCHANGED <<word, live, type, owner, depth>>
  BY DEF UnlockFinish, table, native
<1>3. ArgsFit(t)
  BY ThreadFits
<1>4. \A w \in Words : t \in Refs(w) => users[w] > 0
  <2> SUFFICES ASSUME NEW w \in Words, t \in Refs(w) PROVE users[w] > 0
    OBVIOUS
  <2>1. Cardinality(Refs(w)) \in Nat /\ Cardinality(Refs(w)) # 0
    BY Counting DEF Refs
  <2> QED
    BY <2>1 DEF IInv, CountersExact
<1>5. TypeOK'
  BY <1>1, <1>2, <1>3, <1>4
  DEF UnlockFinish, IInv, TypeOK, ArgsFit, MutexStages, PulseStages,
      WaitStages, Refs
<1>6. ArgsFit(t)'
  BY <1>1, SyncAssumption DEF ArgsFit, MutexStages, PulseStages, WaitStages
<1>7. OwnersExact'
  BY <1>1, <1>2 DEF IInv, OwnersExact, OnlyMoves
<1>8. \A w \in Words : Balanced(t, w)
  BY <1>1, <1>2, <1>3, ReleaseIsCounted, SyncAssumption
  DEF UnlockFinish, IInv, TypeOK, ArgsFit, MutexStages, PulseStages, WaitStages,
      Balanced, Owes, In, Refs, Waiting, Unsettled
<1> QED
  BY <1>1, <1>2, <1>5, <1>6, <1>7, <1>8, OneStep

(* __pulse settles.                                                        *)
LEMMA PulseFinishStep ==
  ASSUME IInv, NEW t \in Threads, PulseFinish(t)
  PROVE  IInv'
<1>1. /\ stage' \in [Threads -> Stages] /\ op' \in [Threads -> Ops]
      /\ mutex' \in [Threads -> Words \cup {NoWord}]
      /\ cond' \in [Threads -> Words \cup {NoWord}]
      /\ OnlyMoves(t)
      /\ stage'[t] = "idle" /\ mutex'[t] = NoWord /\ cond'[t] = NoWord
  <2>1. "idle" \in Stages /\ "unlock" \in Ops
    BY DEF Stages, Ops
  <2> QED
    BY <2>1, GotoFields DEF PulseFinish, Return, IInv
<1>2. UNCHANGED <<word, live, type, owner, depth>>
  BY DEF PulseFinish, table, native
<1>3. ArgsFit(t)
  BY ThreadFits
<1>4. \A w \in Words : t \in Refs(w) => users[w] > 0
  <2> SUFFICES ASSUME NEW w \in Words, t \in Refs(w) PROVE users[w] > 0
    OBVIOUS
  <2>1. Cardinality(Refs(w)) \in Nat /\ Cardinality(Refs(w)) # 0
    BY Counting DEF Refs
  <2> QED
    BY <2>1 DEF IInv, CountersExact
<1>5. TypeOK'
  BY <1>1, <1>2, <1>3, <1>4
  DEF PulseFinish, IInv, TypeOK, ArgsFit, MutexStages, PulseStages,
      WaitStages, Refs
<1>6. ArgsFit(t)'
  BY <1>1, SyncAssumption DEF ArgsFit, MutexStages, PulseStages, WaitStages
<1>7. OwnersExact'
  BY <1>1, <1>2 DEF IInv, OwnersExact, OnlyMoves
<1>8. \A w \in Words : Balanced(t, w)
  BY <1>1, <1>2, <1>3, SyncAssumption
  DEF PulseFinish, IInv, TypeOK, ArgsFit, MutexStages, PulseStages, WaitStages,
      Balanced, Owes, In, Refs, Waiting, Unsettled
<1> QED
  BY <1>1, <1>2, <1>5, <1>6, <1>7, <1>8, OneStep

(* __wait_finished gives back the users of both entries.                   *)
LEMMA WaitFinishStep ==
  ASSUME IInv, NEW t \in Threads, WaitFinish(t)
  PROVE  IInv'
<1>1. /\ stage' \in [Threads -> Stages] /\ op' \in [Threads -> Ops]
      /\ mutex' \in [Threads -> Words \cup {NoWord}]
      /\ cond' \in [Threads -> Words \cup {NoWord}]
      /\ OnlyMoves(t)
      /\ stage'[t] = "idle" /\ mutex'[t] = NoWord /\ cond'[t] = NoWord
  <2>1. "idle" \in Stages /\ "unlock" \in Ops
    BY DEF Stages, Ops
  <2> QED
    BY <2>1, GotoFields DEF WaitFinish, Return, IInv
<1>2. UNCHANGED <<word, live, type, owner, depth>>
  BY DEF WaitFinish, table, native
<1>3. ArgsFit(t)
  BY ThreadFits
<1>4. \A w \in Words : t \in Refs(w) => users[w] > 0
  <2> SUFFICES ASSUME NEW w \in Words, t \in Refs(w) PROVE users[w] > 0
    OBVIOUS
  <2>1. Cardinality(Refs(w)) \in Nat /\ Cardinality(Refs(w)) # 0
    BY Counting DEF Refs
  <2> QED
    BY <2>1 DEF IInv, CountersExact
<1>5. TypeOK'
  BY <1>1, <1>2, <1>3, <1>4
  DEF WaitFinish, IInv, TypeOK, ArgsFit, MutexStages, PulseStages, WaitStages,
      Refs
<1>6. ArgsFit(t)'
  BY <1>1, SyncAssumption DEF ArgsFit, MutexStages, PulseStages, WaitStages
<1>7. OwnersExact'
  BY <1>1, <1>2 DEF IInv, OwnersExact, OnlyMoves
<1>8. \A w \in Words : Balanced(t, w)
  BY <1>1, <1>2, <1>3, SyncAssumption
  DEF WaitFinish, IInv, TypeOK, ArgsFit, MutexStages, PulseStages, WaitStages,
      Balanced, Owes, In, Refs, Waiting, Unsettled
<1> QED
  BY <1>1, <1>2, <1>5, <1>6, <1>7, <1>8, OneStep

-----------------------------------------------------------------------------
(* A pulse moves several threads. *)

(* The woken threads stay waiters, so no account changes.                  *)
LEMMA NativePulseStep ==
  ASSUME IInv, NEW t \in Threads, NativePulse(t)
  PROVE  IInv'
<1>1. PICK woken \in SUBSET Blocked(cond[t]) :
        stage' = [s \in Threads |->
                    IF s = t THEN "pulsed"
                    ELSE IF s \in woken THEN "woken" ELSE stage[s]]
  BY DEF NativePulse
<1>2. UNCHANGED <<word, live, type, users, holds, owner, depth,
                  op, mutex, cond>>
  BY DEF NativePulse, table, native
<1>3. stage[t] = "pulsing" /\ stage'[t] = "pulsed"
  BY <1>1 DEF NativePulse
<1>4. \A u \in Threads \ {t} :
        \/ stage'[u] = stage[u]
        \/ stage[u] = "blocked" /\ stage'[u] = "woken"
  BY <1>1 DEF Blocked
<1>5. TypeOK'
  <2>1. stage' \in [Threads -> Stages]
    BY <1>1 DEF IInv, TypeOK, Stages
  <2>2. due' \in SUBSET Threads
    BY DEF NativePulse, IInv, TypeOK, Blocked, Sliced
  <2> QED
    BY <1>2, <2>1, <2>2 DEF IInv, TypeOK
<1>6. NoDanglingEntry'
  BY <1>2 DEF IInv, NoDanglingEntry
<1>7. StageArgs'
  BY <1>2, <1>3, <1>4
  DEF IInv, StageArgs, MutexStages, PulseStages, WaitStages
<1>8. OwnersExact'
  BY <1>2, <1>3, <1>4 DEF IInv, OwnersExact
<1>9. CountersExact'
  <2> SUFFICES ASSUME NEW w \in Words
               PROVE  /\ Refs(w)' = Refs(w)
                      /\ Waiting(w)' = Waiting(w)
                      /\ Unsettled(w, "locked")' = Unsettled(w, "locked")
                      /\ Unsettled(w, "unlocked")' = Unsettled(w, "unlocked")
    BY <1>2 DEF IInv, CountersExact
  <2>1. Refs(w)' = Refs(w)
    BY <1>2 DEF Refs
  <2>2. Waiting(w)' = Waiting(w)
    BY <1>2, <1>3, <1>4 DEF Waiting
  <2>3. \A s \in {"locked", "unlocked"} : Unsettled(w, s)' = Unsettled(w, s)
    BY <1>2, <1>3, <1>4 DEF Unsettled
  <2> QED
    BY <2>1, <2>2, <2>3
<1> QED
  BY <1>5, <1>6, <1>7, <1>8, <1>9 DEF IInv

-----------------------------------------------------------------------------
(* Creation and destruction: no call is in progress in the thread. *)

(* Nobody uses or owns an entry whose two counters are zero.               *)
LEMMA IdleIsFree ==
  ASSUME IInv, NEW w \in Words, Idle(w)
  PROVE  Refs(w) = {} /\ owner[w] = NoThread /\ depth[w] = 0
<1>1. Refs(w) = {}
  BY Counting DEF Idle, IInv, CountersExact, Refs
<1>2. /\ Waiting(w) = {} /\ Unsettled(w, "locked") = {}
      /\ Unsettled(w, "unlocked") = {}
  BY <1>1 DEF Refs, Waiting, Unsettled
<1>3. Cardinality({}) = 0
  BY FS_EmptySet
<1>4. depth[w] = 0
  <2>1. holds[w] + Cardinality(Unsettled(w, "locked"))
          = depth[w] + Cardinality(Waiting(w))
              + Cardinality(Unsettled(w, "unlocked"))
    BY DEF IInv, CountersExact
  <2>2. holds[w] = 0 /\ depth[w] \in Nat
    BY SyncAssumption DEF Idle, IInv, TypeOK
  <2> QED
    BY <1>2, <1>3, <2>1, <2>2
<1> QED
  BY <1>1, <1>4 DEF IInv, OwnersExact

(* A step on the table alone preserves IInv if it changes only entries that*)
(* no call has a pointer to.                                               *)
LEMMA TableStep ==
  ASSUME IInv, TypedTable', UNCHANGED <<users, holds, native, call, due>>,
         \A w \in Words : live'[w] = live[w] \/ Refs(w) = {}
  PROVE  IInv'
<1>1. UNCHANGED <<users, holds, owner, depth, stage, op, mutex, cond, due>>
  BY DEF native, call
<1>2. TypeOK'
  BY <1>1 DEF IInv, TypeOK, TypedTable
<1>3. NoDanglingEntry'
  BY <1>1 DEF IInv, TypeOK, NoDanglingEntry, Refs
<1>4. StageArgs' /\ OwnersExact'
  BY <1>1 DEF IInv, StageArgs, OwnersExact
<1>5. CountersExact'
  <2>1. \A w \in Words :
          /\ Refs(w)' = Refs(w) /\ Waiting(w)' = Waiting(w)
          /\ Unsettled(w, "locked")' = Unsettled(w, "locked")
          /\ Unsettled(w, "unlocked")' = Unsettled(w, "unlocked")
    BY <1>1 DEF Refs, Waiting, Unsettled
  <2> QED
    BY <1>1, <2>1 DEF IInv, CountersExact
<1> QED
  BY <1>2, <1>3, <1>4, <1>5 DEF IInv

(* An address the table does not know has no users.                        *)
LEMMA UnknownIsFree ==
  ASSUME IInv, NEW w \in Words, live[w] = "none"
  PROVE  Refs(w) = {}
BY SyncAssumption DEF IInv, TypeOK, NoDanglingEntry, Refs

(* The guest writes to a word the table does not know.                     *)
LEMMA RewriteStep ==
  ASSUME IInv, NEW t \in Threads, NEW w \in Words, NEW v \in WordValues,
         Rewrite(t, w, v)
  PROVE  IInv'
<1>1. TypedTable'
  BY DEF Rewrite, IInv, TypeOK, TypedTable
<1> QED
  BY <1>1, TableStep DEF Rewrite

(* pthread_mutex_init and pthread_cond_init on such a word.                *)
LEMMA InitObjectStep ==
  ASSUME IInv, NEW t \in Threads, NEW w \in Words, NEW k \in Kinds,
         NEW ty \in Types, InitObject(t, w, k, ty)
  PROVE  IInv'
<1>1. TypedTable' /\ live' = [live EXCEPT ![w] = k]
  BY PublishTable DEF InitObject, IInv, TypeOK, TypedTable
<1>2. Refs(w) = {}
  BY UnknownIsFree DEF InitObject
<1>3. \A x \in Words : live'[x] = live[x] \/ Refs(x) = {}
  BY <1>1, <1>2 DEF IInv, TypeOK
<1> QED
  BY <1>1, <1>3, TableStep DEF InitObject

(* destroy on an entry whose counters are zero: nothing is lost with it.   *)
LEMMA DestroyEntryStep ==
  ASSUME IInv, NEW t \in Threads, NEW w \in Words, NEW k \in Kinds,
         DestroyEntry(t, w, k)
  PROVE  IInv'
<1>1. Refs(w) = {} /\ owner[w] = NoThread /\ depth[w] = 0
  BY IdleIsFree DEF DestroyEntry
<1>2. users[w] = 0 /\ holds[w] = 0
  BY DEF DestroyEntry, Idle
<1>3. UNCHANGED <<users, holds, native, call, due>>
  BY <1>1, <1>2 DEF DestroyEntry, IInv, TypeOK, native, call
<1>4. TypedTable'
  BY DEF DestroyEntry, IInv, TypeOK, TypedTable, WordValues
<1>5. \A x \in Words : live'[x] = live[x] \/ Refs(x) = {}
  BY <1>1 DEF DestroyEntry, IInv, TypeOK
<1> QED
  BY <1>3, <1>4, <1>5, TableStep

(* destroy on a static word.                                               *)
LEMMA DestroyStaticStep ==
  ASSUME IInv, NEW t \in Threads, NEW w \in Words, NEW k \in Kinds,
         DestroyStatic(t, w, k)
  PROVE  IInv'
<1>1. TypedTable'
  BY DEF DestroyStatic, IInv, TypeOK, TypedTable, WordValues
<1> QED
  BY <1>1, TableStep DEF DestroyStatic

-----------------------------------------------------------------------------
(* The theorems. *)

(* The invariant holds before the first call.                              *)
LEMMA InitIInv == Init => IInv
<1> SUFFICES ASSUME Init PROVE IInv
  OBVIOUS
<1>1. TypeOK
  <2>1. TypedTable
    BY DEF Init, TypedTable, WordValues, Types, MutexTypes
  <2>2. 0 \in 0..MaxDepth
    BY SyncAssumption
  <2>3. "idle" \in Stages /\ "unlock" \in Ops
    BY DEF Stages, Ops
  <2> QED
    BY <2>1, <2>2, <2>3 DEF Init, TypeOK, TypedTable
<1>2. NoDanglingEntry /\ StageArgs /\ OwnersExact
  BY DEF Init, NoDanglingEntry, StageArgs, OwnersExact, MutexStages,
         PulseStages, WaitStages
<1>3. CountersExact
  <2> SUFFICES ASSUME NEW w \in Words
               PROVE  /\ Refs(w) = {} /\ Waiting(w) = {}
                      /\ Unsettled(w, "locked") = {}
                      /\ Unsettled(w, "unlocked") = {}
    BY FS_EmptySet DEF Init, CountersExact
  <2> QED
    BY SyncAssumption DEF Init, Refs, Waiting, Unsettled
<1> QED
  BY <1>1, <1>2, <1>3 DEF IInv

(* Every step preserves it.                                                *)
LEMMA NextIInv == IInv /\ [Next]_vars => IInv'
<1> SUFFICES ASSUME IInv, [Next]_vars PROVE IInv'
  OBVIOUS
<1>1. CASE UNCHANGED vars
  <2>1. TypedTable' /\ live' = live
    BY <1>1 DEF vars, IInv, TypeOK, TypedTable
  <2>2. UNCHANGED <<users, holds, native, call, due>>
    BY <1>1 DEF vars, native, call
  <2> QED
    BY <2>1, <2>2, TableStep
<1>2. CASE Next
  <2>1. PICK t \in Threads : GuestCall(t) \/ NativeStep(t) \/ Settle(t)
    BY <1>2 DEF Next
  <2>2. CASE GuestCall(t)
    BY <2>2, RewriteStep, InitObjectStep, DestroyEntryStep, DestroyStaticStep,
       LockCallStep, UnlockCallStep, PulseCallStep, WaitCallStep
    DEF GuestCall
  <2>3. CASE NativeStep(t)
    BY <2>3, NativeLockStep, NativeLockFailsStep, NativeUnlockStep,
       NativeUnlockFailsStep, NativePulseStep, NativeWaitStep, WaitEndsStep,
       SliceExpiresStep, ReacquireStep
    DEF NativeStep
  <2>4. CASE Settle(t)
    BY <2>4, LockFinishStep, UnlockFinishStep, PulseFinishStep, WaitFinishStep
    DEF Settle
  <2> QED
    BY <2>1, <2>2, <2>3, <2>4
<1> QED
  BY <1>1, <1>2

(* The state of the table and of every call keeps its type: no counter of  *)
(* sync.c goes below zero, no native depth above its limit.                *)
THEOREM TypeCorrect == Spec => []TypeOK
<1>1. IInv => TypeOK
  BY DEF IInv
<1> QED
  BY InitIInv, NextIInv, <1>1, PTL DEF Spec

(* No call of sync.c touches a freed entry, however destroy and creation   *)
(* interleave with the phases of other calls.                              *)
THEOREM NeverDangling == Spec => []NoDanglingEntry
<1>1. IInv => NoDanglingEntry
  BY DEF IInv
<1> QED
  BY InitIInv, NextIInv, <1>1, PTL DEF Spec

(* The counters users and holds of sync.c are exact in every interleaving. *)
THEOREM CountersAreExact == Spec => []CountersExact
<1>1. IInv => CountersExact
  BY DEF IInv
<1> QED
  BY InitIInv, NextIInv, <1>1, PTL DEF Spec

(* Of all steps only DestroyEntry frees an entry.                          *)
LEMMA NextFrees ==
  ASSUME IInv, Next, NEW w \in Words, live[w] # "none", live'[w] = "none"
  PROVE  owner[w] = NoThread /\ Refs(w) = {}
<1> DEFINE Kept == \A x \in Words : live'[x] = live[x] \/ live'[x] \in Kinds
<1>1. ~Kept
  BY DEF Kinds
<1>2. PICK t \in Threads : GuestCall(t) \/ NativeStep(t) \/ Settle(t)
  BY DEF Next
<1>3. ASSUME NativeStep(t) \/ Settle(t) PROVE Kept
  <2>1. live' = live
    BY <1>3
    DEF NativeStep, Settle, NativeLock, NativeLockFails, NativeUnlock,
        NativeUnlockFails, NativePulse, NativeWait, WaitEnds, SliceExpires,
        Reacquire, LockFinish, UnlockFinish, PulseFinish, WaitFinish, table
  <2> QED
    BY <2>1
<1>4. ASSUME NEW x \in Words, NEW k \in Kinds, Acquire(x, k) PROVE Kept
  BY <1>4, AcquireTable DEF IInv, TypeOK, TypedTable
<1>5. ASSUME NEW x \in Words, NEW o \in Ops,
             \/ LockCall(t, x, o) \/ UnlockCall(t, x) \/ PulseCall(t, x, o)
             \/ \E m \in Words : WaitCall(t, x, m, o)
      PROVE  Kept
  <2>1. CASE PulseCall(t, x, o)
    BY <2>1 DEF PulseCall, table
  <2>2. CASE ~PulseCall(t, x, o)
    <3>1. \E k \in Kinds : Acquire(x, k)
      BY <1>5, <2>2 DEF LockCall, UnlockCall, WaitCall, Kinds
    <3> QED
      BY <3>1, <1>4
  <2> QED
    BY <2>1, <2>2
<1>6. ASSUME NEW x \in Words, NEW v \in WordValues, NEW k \in Kinds,
             NEW ty \in Types,
             \/ Rewrite(t, x, v) \/ InitObject(t, x, k, ty)
             \/ DestroyStatic(t, x, k)
      PROVE  Kept
  BY <1>6 DEF Rewrite, InitObject, DestroyStatic, Publish, IInv, TypeOK
<1>7. PICK x \in Words, k \in Kinds : DestroyEntry(t, x, k)
  BY <1>1, <1>2, <1>3, <1>5, <1>6 DEF GuestCall, Ops, Kinds, Types, WordValues
<1>8. x = w
  BY <1>7 DEF DestroyEntry, IInv, TypeOK
<1> QED
  BY <1>7, <1>8, IdleIsFree DEF DestroyEntry

(* destroy never frees a mutex somebody owns or an object in use.          *)
THEOREM HeldObjectsSurvive == Spec => HeldObjectSurvives
<1>1. IInv /\ [Next]_vars
        => [\A w \in Words : live[w] # "none" /\ live'[w] = "none"
                             => owner[w] = NoThread /\ Refs(w) = {}]_vars
  BY NextFrees
<1> QED
  BY InitIInv, NextIInv, <1>1, PTL DEF Spec, HeldObjectSurvives

-----------------------------------------------------------------------------
(* Broadcasts. *)

(* A wait is sliced on the monotonic clock only, and a thread a broadcast  *)
(* found waiting is still in its wait: if the clock is the realtime one,   *)
(* past its native queue.                                                  *)
Pulsed(t) ==
  /\ stage[t] = "sliced" => type[cond[t]] = "monotonic"
  /\ t \in due => /\ stage[t] \in WaitStages
                  /\ type[cond[t]] = "realtime" => stage[t] \in {"woken", "waited"}
PInv == \A t \in Threads : Pulsed(t)

(* Nothing is created over a condition that is there.                      *)
LEMMA TypesKept ==
  ASSUME IInv, Next, NEW w \in Words, live[w] = "cond"
  PROVE  type'[w] = type[w]
<1>1. PICK t \in Threads : GuestCall(t) \/ NativeStep(t) \/ Settle(t)
  BY DEF Next
<1>2. CASE NativeStep(t) \/ Settle(t)
  BY <1>2
  DEF NativeStep, Settle, NativeLock, NativeLockFails, NativeUnlock,
      NativeUnlockFails, NativePulse, NativeWait, WaitEnds, SliceExpires,
      Reacquire, LockFinish, UnlockFinish, PulseFinish, WaitFinish, table
<1>3. ASSUME NEW x \in Words, NEW k \in Kinds, Acquire(x, k)
      PROVE  type'[w] = type[w]
  BY <1>3 DEF Acquire, CanAcquire, Publish, table, IInv, TypeOK
<1>4. ASSUME NEW x \in Words, NEW k \in Kinds, NEW ty \in Types, NEW v \in WordValues,
             \/ Rewrite(t, x, v) \/ InitObject(t, x, k, ty)
             \/ DestroyEntry(t, x, k) \/ DestroyStatic(t, x, k)
      PROVE  type'[w] = type[w]
  BY <1>4 DEF Rewrite, InitObject, DestroyEntry, DestroyStatic, Publish, IInv, TypeOK
<1>5. ASSUME NEW x \in Words, NEW o \in Ops,
             \/ LockCall(t, x, o) \/ UnlockCall(t, x) \/ PulseCall(t, x, o)
             \/ \E m \in Words : WaitCall(t, x, m, o)
      PROVE  type'[w] = type[w]
  <2>1. CASE PulseCall(t, x, o)
    BY <2>1 DEF PulseCall, table
  <2>2. CASE ~PulseCall(t, x, o)
    <3>1. \E k \in Kinds : Acquire(x, k)
      BY <1>5, <2>2 DEF LockCall, UnlockCall, WaitCall, Kinds
    <3> QED
      BY <3>1, <1>3
  <2> QED
    BY <2>1, <2>2
<1> QED
  BY <1>1, <1>2, <1>4, <1>5 DEF GuestCall, Ops, Kinds, Types, WordValues

(* What a thread outside the step of another keeps.                        *)
LEMMA PulsedKept ==
  ASSUME IInv, PInv, Next, NEW u \in Threads,
         cond'[u] = cond[u], stage'[u] = stage[u], u \in due' => u \in due
  PROVE  Pulsed(u)'
<1>1. Pulsed(u) /\ ArgsFit(u) /\ cond[u] \in Words \cup {NoWord}
  BY ThreadFits DEF PInv, IInv, TypeOK
<1>2. CASE cond[u] = NoWord
  BY <1>1, <1>2 DEF Pulsed, ArgsFit, WaitStages
<1>3. CASE cond[u] # NoWord
  <2>1. type'[cond[u]] = type[cond[u]]
    BY <1>1, <1>3, TypesKept DEF ArgsFit
  <2> QED
    BY <1>1, <2>1 DEF Pulsed
<1> QED
  BY <1>2, <1>3

(* A broadcast wakes what is queued, and what is sliced is monotonic.      *)
LEMMA PulseStep ==
  ASSUME IInv, PInv, Next, NEW t \in Threads, NativePulse(t)
  PROVE  PInv'
<1> SUFFICES ASSUME NEW u \in Threads PROVE Pulsed(u)'
  BY DEF PInv
<1>1. PICK woken \in SUBSET Blocked(cond[t]) :
        /\ op[t] = "broadcast" => woken = Blocked(cond[t])
        /\ stage' = [s \in Threads |-> IF s = t THEN "pulsed"
                                       ELSE IF s \in woken THEN "woken" ELSE stage[s]]
  BY DEF NativePulse
<1>2. /\ cond' = cond /\ type' = type /\ stage[t] = "pulsing"
      /\ due' = IF op[t] = "broadcast" THEN due \cup Blocked(cond[t]) \cup Sliced(cond[t]) ELSE due
  BY DEF NativePulse, table
<1>3. Pulsed(u) /\ Pulsed(t)
  BY DEF PInv
<1>4. CASE u = t
  BY <1>1, <1>2, <1>3, <1>4 DEF Pulsed, Blocked, Sliced, WaitStages
<1>5. CASE u # t /\ u \in woken
  BY <1>1, <1>2, <1>3, <1>5 DEF Pulsed, Blocked, Sliced, WaitStages
<1>6. CASE u # t /\ u \notin woken
  <2>1. stage'[u] = stage[u]
    BY <1>1, <1>6
  <2>2. u \in due' => u \in due \/ (stage[u] = "sliced")
    BY <1>1, <1>2, <1>6 DEF Blocked, Sliced
  <2> QED
    BY <1>2, <1>3, <2>1, <2>2 DEF Pulsed, WaitStages
<1> QED
  BY <1>4, <1>5, <1>6

LEMMA NextPInv == IInv /\ PInv /\ [Next]_vars => PInv'
<1> SUFFICES ASSUME IInv, PInv, [Next]_vars PROVE PInv'
  OBVIOUS
<1>1. CASE UNCHANGED vars
  BY <1>1 DEF vars, PInv, Pulsed
<1>2. CASE Next
  <2>1. PICK t \in Threads : GuestCall(t) \/ NativeStep(t) \/ Settle(t)
    BY <1>2 DEF Next
  <2>2. Pulsed(t) /\ ArgsFit(t)
    BY ThreadFits DEF PInv
  <2>3. ASSUME OnlyMoves(t), due' \subseteq due, Pulsed(t)' PROVE PInv'
    BY <1>2, <2>3, PulsedKept DEF PInv, OnlyMoves
  <2>4. CASE GuestCall(t)
    <3>1. due' = due
      BY <2>4 DEF GuestCall, Rewrite, InitObject, DestroyEntry, DestroyStatic,
                  LockCall, UnlockCall, PulseCall, WaitCall
    <3>2. stage[t] = "idle"
      BY <2>4 DEF GuestCall, Rewrite, InitObject, DestroyEntry, DestroyStatic,
                  LockCall, UnlockCall, PulseCall, WaitCall
    <3>3. t \notin due
      BY <2>2, <3>2 DEF Pulsed, WaitStages
    <3>4. stage'[t] # "sliced" /\ OnlyMoves(t)
      BY <2>4, <3>2 DEF GuestCall, Rewrite, InitObject, DestroyEntry, DestroyStatic,
            LockCall, UnlockCall, PulseCall, WaitCall, Goto, call, OnlyMoves, IInv, TypeOK
    <3> QED
      BY <2>3, <3>1, <3>3, <3>4 DEF Pulsed
  <2>5. CASE Settle(t)
    <3>1. due' = due \/ due' = due \ {t}
      BY <2>5 DEF Settle, LockFinish, UnlockFinish, PulseFinish, WaitFinish
    <3>2. stage'[t] = "idle" /\ OnlyMoves(t)
      BY <2>5 DEF Settle, LockFinish, UnlockFinish, PulseFinish, WaitFinish,
                  Return, Goto, OnlyMoves, IInv, TypeOK
    <3>3. t \notin due'
      BY <2>2, <2>5 DEF Settle, LockFinish, UnlockFinish, PulseFinish, WaitFinish,
                        Pulsed, WaitStages
    <3> QED
      BY <2>3, <3>1, <3>2, <3>3 DEF Pulsed
  <2>6. ASSUME NativeStep(t), ~NativePulse(t) PROVE PInv'
    <3>1. due' = due /\ UNCHANGED <<type, cond>>
      BY <2>6 DEF NativeStep, NativeLock, NativeLockFails, NativeUnlock,
           NativeUnlockFails, NativeWait, WaitEnds, SliceExpires, Reacquire,
           Advance, table
    <3>2. OnlyMoves(t)
      BY <2>6 DEF NativeStep, NativeLock, NativeLockFails, NativeUnlock,
           NativeUnlockFails, NativeWait, WaitEnds, SliceExpires, Reacquire,
           Advance, OnlyMoves, IInv, TypeOK
    <3>3. CASE NativeLock(t) \/ NativeLockFails(t) \/ NativeUnlock(t) \/ NativeUnlockFails(t)
      <4>1. t \notin due
        BY <2>2, <3>3 DEF NativeLock, NativeLockFails, NativeUnlock, NativeUnlockFails,
                          Pulsed, WaitStages
      <4>2. stage'[t] # "sliced"
        BY <3>3 DEF NativeLock, NativeLockFails, NativeUnlock, NativeUnlockFails,
                    Advance, IInv, TypeOK
      <4> QED
        BY <2>3, <3>1, <3>2, <4>1, <4>2 DEF Pulsed
    <3>4. CASE NativeWait(t) \/ WaitEnds(t) \/ SliceExpires(t) \/ Reacquire(t)
      <4>1. /\ NativeWait(t) => stage[t] = "entering" /\ stage'[t] = "blocked"
            /\ WaitEnds(t) => stage'[t] = "woken"
            /\ SliceExpires(t) => stage[t] = "blocked" /\ stage'[t] = "sliced"
                                    /\ type[cond[t]] = "monotonic"
            /\ Reacquire(t) => IF stage[t] = "sliced" THEN stage'[t] = "entering"
                               ELSE stage[t] = "woken" /\ stage'[t] = "waited"
        BY DEF NativeWait, WaitEnds, SliceExpires, Reacquire, Advance, IInv, TypeOK
      <4>2. Pulsed(t)'
        BY <2>2, <3>1, <3>4, <4>1 DEF Pulsed, WaitStages
      <4> QED
        BY <2>3, <3>1, <3>2, <4>2
    <3> QED
      BY <2>6, <3>3, <3>4 DEF NativeStep
  <2> QED
    BY <1>2, <2>1, <2>4, <2>5, <2>6, PulseStep
<1> QED
  BY <1>1, <1>2

(* No thread that waits on the realtime clock misses a broadcast: it was   *)
(* in the native queue when sync.c passed the broadcast on, and is not     *)
(* back there before its wait returned.                                    *)
THEOREM BroadcastsReachRealtimeWaiters == Spec => []RealtimeBroadcastReleases
<1>1. Init => PInv
  BY DEF Init, PInv, Pulsed
<1>2. PInv /\ TypeOK => RealtimeBroadcastReleases
  BY DEF PInv, Pulsed, RealtimeBroadcastReleases, TypeOK
<1>3. IInv => TypeOK
  BY DEF IInv
<1> QED
  BY InitIInv, NextIInv, NextPInv, <1>1, <1>2, <1>3, PTL DEF Spec
==============================================================================
