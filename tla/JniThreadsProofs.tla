--------------------------- MODULE JniThreadsProofs ---------------------------
(***************************************************************************)
(* Proofs about JniThreads for any finite set of threads, any objects and  *)
(* any nesting of entries and native methods.                              *)
(*                                                                         *)
(* IInv is inductive.  It adds to MonitorsCounted and HeapOutlivesThreads  *)
(* what the record of a thread says about where the thread is: a thread    *)
(* without a record is outside, the mutex is held by the thread inside an  *)
(* entry, a waiter has a depth, the destroyer has no active call, and the  *)
(* active calls of a thread are the entries under its lock, the lock of a  *)
(* service not counted, and the depths it suspended.                       *)
(***************************************************************************)
EXTENDS JniThreads, CountingLemmas, SequenceTheorems

(* n is the sum of s: f gives the sums of the rests of s.                  *)
IsSum(n, s) ==
  \E f \in [1..Len(s) + 1 -> Nat] :
    /\ f[Len(s) + 1] = 0
    /\ \A i \in 1..Len(s) : f[i] = s[i] + f[i + 1]
    /\ n = f[1]

InsideStages == {"entry", "blocked", "woken"}
DestroyStages == {"destroying", "stirred"}

(* Without a record a thread is outside the runtime, or it has ended.      *)
RecordKept(t) ==
  /\ stage[t] \notin {"guest", "gone"} => attached[t] # "no"
  /\ stage[t] = "gone" => attached[t] = "no"
  /\ attached[t] = "no" => depth[t] = 0 /\ calls[t] = 0 /\ saved[t] = <<>>

(* The depths say where the thread is, and the calls are all the entries:  *)
(* no service is suspended by a native method.                             *)
DepthsExact(t) ==
  /\ depth[t] > 0 <=> stage[t] \in InsideStages
  /\ section[t] <= depth[t]
  /\ section[t] > 0 => stage[t] = "entry"
  /\ \A i \in 1..Len(saved[t]) : saved[t][i] > 0
  /\ IsSum(calls[t] - Entries(t), saved[t])

StageExact(t) ==
  /\ holder = t <=> stage[t] = "entry"
  /\ waitsFor[t] # Nothing <=> stage[t] \in {"blocked", "woken"}
  /\ destroyer = t <=> stage[t] \in DestroyStages

(* DestroyJavaVM runs in a thread without active calls, on a live VM until *)
(* it has parted.                                                          *)
DestroySound(t) ==
  /\ stage[t] \in DestroyStages => calls[t] = 0 /\ ~destroyed
  /\ stage[t] = "parted" => calls[t] = 0 /\ destroyed

ThreadSound(t) ==
  RecordKept(t) /\ DepthsExact(t) /\ StageExact(t) /\ DestroySound(t)

IInv ==
  /\ MonitorsCounted
  /\ HeapOutlivesThreads
  /\ \A t \in Threads : ThreadSound(t)

-----------------------------------------------------------------------------
(* Sums of suspended depths. *)

LEMMA SumOfNone ==
  /\ IsSum(0, <<>>)
  /\ \A n : IsSum(n, <<>>) => n = 0
<1>1. IsSum(0, <<>>)
  <2> DEFINE f == [i \in 1..1 |-> 0]
  <2>1. f \in [1..1 -> Nat] /\ f[1] = 0 /\ Len(<<>>) = 0
    OBVIOUS
  <2> HIDE DEF f
  <2>2. f \in [1..Len(<<>>) + 1 -> Nat] /\ f[Len(<<>>) + 1] = 0
    BY <2>1
  <2>3. \A i \in 1..Len(<<>>) : f[i] = <<>>[i] + f[i + 1]
    BY <2>1
  <2> QED
    BY <2>1, <2>2, <2>3 DEF IsSum
<1> QED
  BY <1>1 DEF IsSum

LEMMA SumNat ==
  ASSUME NEW s \in Seq(Nat), NEW n, IsSum(n, s)
  PROVE  n \in Nat
<1>1. 1 \in 1..Len(s) + 1
  OBVIOUS
<1> QED
  BY <1>1 DEF IsSum

LEMMA SumPush ==
  ASSUME NEW s \in Seq(Nat), NEW d \in Nat, NEW n, IsSum(n, s)
  PROVE  /\ <<d>> \o s \in Seq(Nat)
         /\ IsSum(n + d, <<d>> \o s)
         /\ d > 0 /\ (\A i \in 1..Len(s) : s[i] > 0)
            => \A i \in 1..Len(<<d>> \o s) : (<<d>> \o s)[i] > 0
<1> DEFINE p == <<d>> \o s
<1>1. /\ p \in Seq(Nat)
      /\ Len(p) = Len(s) + 1 /\ Len(s) \in Nat
      /\ \A i \in 1..Len(s) + 1 : p[i] = IF i = 1 THEN d ELSE s[i - 1]
  OBVIOUS
<1> HIDE DEF p
<1>2. PICK f \in [1..Len(s) + 1 -> Nat] :
        /\ f[Len(s) + 1] = 0
        /\ \A i \in 1..Len(s) : f[i] = s[i] + f[i + 1]
        /\ n = f[1]
  BY DEF IsSum
<1> DEFINE g == [i \in 1..Len(s) + 2 |-> IF i = 1 THEN n + d ELSE f[i - 1]]
<1>3. /\ g \in [1..Len(p) + 1 -> Nat] /\ g[1] = n + d
      /\ \A i \in 2..Len(s) + 2 : g[i] = f[i - 1]
  BY <1>1, <1>2
<1> HIDE DEF g
<1>4. g[Len(p) + 1] = 0
  <2>1. Len(p) + 1 \in 2..Len(s) + 2 /\ Len(p) + 1 - 1 = Len(s) + 1
    BY <1>1
  <2> QED
    BY <1>2, <1>3, <2>1
<1>5. ASSUME NEW i \in 1..Len(p) PROVE g[i] = p[i] + g[i + 1]
  <2>1. CASE i = 1
    BY <1>1, <1>2, <1>3, <2>1
  <2>2. CASE i # 1
    <3>1. i - 1 \in 1..Len(s) /\ i \in 2..Len(s) + 2 /\ i + 1 \in 2..Len(s) + 2
      BY <1>1, <2>2
    <3>2. i - 1 + 1 = i /\ i + 1 - 1 = i
      BY <3>1
    <3>3. f[i - 1] = s[i - 1] + f[i]
      BY <1>2, <3>1, <3>2
    <3>4. g[i] = f[i - 1] /\ g[i + 1] = f[i]
      BY <1>3, <3>1, <3>2
    <3> QED
      BY <1>1, <2>2, <3>3, <3>4
  <2> QED
    BY <2>1, <2>2
<1>6. IsSum(n + d, p)
  BY <1>3, <1>4, <1>5 DEF IsSum
<1> QED
  BY <1>1, <1>6 DEF p

LEMMA SumPop ==
  ASSUME NEW s \in Seq(Nat), s # <<>>, NEW n, IsSum(n, s)
  PROVE  /\ Head(s) \in Nat /\ n \in Nat /\ n >= Head(s)
         /\ Tail(s) \in Seq(Nat)
         /\ IsSum(n - Head(s), Tail(s))
         /\ (\A i \in 1..Len(s) : s[i] > 0)
            => Head(s) > 0 /\ \A i \in 1..Len(Tail(s)) : Tail(s)[i] > 0
<1> DEFINE r == Tail(s)
<1>1. /\ r \in Seq(Nat) /\ Len(r) = Len(s) - 1
      /\ \A i \in 1..Len(r) : r[i] = s[i + 1]
  BY HeadTailProperties
<1>2. Len(s) \in Nat /\ Len(s) > 0 /\ Head(s) = s[1] /\ Head(s) \in Nat
  OBVIOUS
<1> HIDE DEF r
<1>3. PICK f \in [1..Len(s) + 1 -> Nat] :
        /\ f[Len(s) + 1] = 0
        /\ \A i \in 1..Len(s) : f[i] = s[i] + f[i + 1]
        /\ n = f[1]
  BY DEF IsSum
<1>4. f[1] = s[1] + f[2] /\ f[1] \in Nat /\ f[2] \in Nat
  BY <1>2, <1>3
<1> DEFINE g == [i \in 1..Len(s) |-> f[i + 1]]
<1>5. g \in [1..Len(r) + 1 -> Nat] /\ \A i \in 1..Len(s) : g[i] = f[i + 1]
  BY <1>1, <1>2, <1>3
<1> HIDE DEF g
<1>6. IsSum(n - s[1], r)
  <2>1. g[Len(r) + 1] = 0 /\ g[1] = n - s[1]
    BY <1>1, <1>2, <1>3, <1>4, <1>5
  <2>2. ASSUME NEW i \in 1..Len(r) PROVE g[i] = r[i] + g[i + 1]
    <3>1. i \in 1..Len(s) /\ i + 1 \in 1..Len(s)
      BY <1>1, <1>2
    <3> QED
      BY <1>1, <1>3, <1>5, <3>1
  <2> QED
    BY <1>5, <2>1, <2>2 DEF IsSum
<1>7. (\A i \in 1..Len(s) : s[i] > 0) => s[1] > 0 /\ \A i \in 1..Len(r) : r[i] > 0
  <2>1. 1 \in 1..Len(s) /\ \A i \in 1..Len(r) : i + 1 \in 1..Len(s)
    BY <1>1, <1>2
  <2> QED
    BY <1>1, <2>1
<1> QED
  BY <1>1, <1>2, <1>3, <1>4, <1>6, <1>7 DEF r

-----------------------------------------------------------------------------
(* One step. *)

Waiting(o) == {u \in Threads : waitsFor[u] = o}

(* Another thread keeps its record and what it waits for: at most it is    *)
(* woken, and the VM is not destroyed while it is the destroyer.           *)
OnlyMoves(t) ==
  /\ \A u \in Threads \ {t} :
       /\ attached'[u] = attached[u] /\ depth'[u] = depth[u]
       /\ calls'[u] = calls[u] /\ section'[u] = section[u] /\ saved'[u] = saved[u]
       /\ waitsFor'[u] = waitsFor[u]
       /\ holder' = u <=> holder = u
       /\ destroyer' = u <=> destroyer = u
       /\ \/ stage'[u] = stage[u]
          \/ stage[u] = "blocked" /\ stage'[u] = "woken"
          \/ stage[u] = "destroying" /\ stage'[u] = "stirred"
       /\ stage[u] \in DestroyStages => destroyed' = destroyed
  /\ destroyed => destroyed'

(* t keeps the monitors in order: it gives up, keeps or takes o, and is    *)
(* counted among its waiters exactly while it waits.                       *)
Accounts(t, o) ==
  /\ owner'[o] \in {Nobody, owner[o], t}
  /\ owner'[o] = t => attached'[t] # "no"
  /\ owner'[o] = Nobody <=> entered'[o] = 0
  /\ waiters'[o] = waiters[o] + (In(t, Waiting(o))' - In(t, Waiting(o)))

HeapExact == freed <=> destroyed /\ Attached = {}

LEMMA WaitingCounts ==
  ASSUME IInv, NEW t \in Threads, NEW o \in Objects
  PROVE  /\ In(t, Waiting(o)) = IF waitsFor[t] = o THEN 1 ELSE 0
         /\ In(t, Waiting(o))' = IF waitsFor'[t] = o THEN 1 ELSE 0
         /\ waiters[o] \in Nat
         /\ waitsFor[t] = o => waiters[o] > 0
<1>1. Waiting(o) \in SUBSET Threads
  BY DEF Waiting
<1>2. /\ waiters[o] = Cardinality(Waiting(o))
      /\ Cardinality(Waiting(o)) \in Nat
      /\ Cardinality(Waiting(o)) = 0 <=> Waiting(o) = {}
  BY <1>1, CountEmpty, JniAssumption DEF IInv, MonitorsCounted, Waiting
<1>3. waitsFor[t] = o => Waiting(o) # {}
  BY DEF Waiting
<1> QED
  BY <1>2, <1>3 DEF In, Waiting

LEMMA OneStep ==
  ASSUME IInv, TypeOK', NEW t \in Threads, OnlyMoves(t),
         ThreadSound(t)', HeapExact', \A o \in Objects : Accounts(t, o)
  PROVE  IInv'
<1>1. ASSUME NEW o \in Objects
      PROVE  /\ owner'[o] # Nobody => attached'[owner'[o]] # "no"
             /\ owner'[o] = Nobody <=> entered'[o] = 0
             /\ waiters'[o] = Cardinality(Waiting(o)')
  <2>1. Accounts(t, o)
    OBVIOUS
  <2>2. owner[o] # Nobody => owner[o] \in Threads /\ attached[owner[o]] # "no"
    BY DEF IInv, MonitorsCounted, TypeOK
  <2>3. owner'[o] # Nobody => attached'[owner'[o]] # "no"
    BY <2>1, <2>2 DEF Accounts, OnlyMoves
  <2>4. Swaps(t, Waiting(o), Waiting(o)')
    <3>1. Waiting(o) \ {t} = Waiting(o)' \ {t}
      BY DEF OnlyMoves, Waiting
    <3> QED
      BY <3>1, CountExchange, JniAssumption DEF Waiting
  <2>5. waiters[o] = Cardinality(Waiting(o))
    BY DEF IInv, MonitorsCounted, Waiting
  <2>6. waiters'[o] = Cardinality(Waiting(o)')
    BY <2>1, <2>4, <2>5 DEF Accounts, Swaps
  <2> QED
    BY <2>1, <2>3, <2>6 DEF Accounts
<1>2. MonitorsCounted'
  BY <1>1 DEF MonitorsCounted, Waiting
<1>3. ASSUME NEW u \in Threads \ {t} PROVE ThreadSound(u)'
  <2>1. /\ ThreadSound(u)
        /\ attached'[u] = attached[u] /\ depth'[u] = depth[u]
        /\ calls'[u] = calls[u] /\ section'[u] = section[u] /\ saved'[u] = saved[u]
        /\ waitsFor'[u] = waitsFor[u]
        /\ holder' = u <=> holder = u
        /\ destroyer' = u <=> destroyer = u
        /\ \/ stage'[u] = stage[u]
           \/ stage[u] = "blocked" /\ stage'[u] = "woken"
           \/ stage[u] = "destroying" /\ stage'[u] = "stirred"
        /\ stage[u] \in DestroyStages => destroyed' = destroyed
        /\ destroyed => destroyed'
    BY DEF OnlyMoves, IInv
  <2>2. RecordKept(u)'
    BY <2>1 DEF ThreadSound, RecordKept
  <2>3. DepthsExact(u)'
    BY <2>1 DEF ThreadSound, DepthsExact, Entries, InsideStages
  <2>4. StageExact(u)'
    BY <2>1 DEF ThreadSound, StageExact, DestroyStages
  <2>5. DestroySound(u)'
    BY <2>1 DEF ThreadSound, DestroySound, DestroyStages
  <2> QED
    BY <2>2, <2>3, <2>4, <2>5 DEF ThreadSound
<1>4. \A u \in Threads : ThreadSound(u)'
  BY <1>3
<1>5. HeapOutlivesThreads'
  <2>1. ASSUME NEW u \in Threads, (stage[u] \notin {"guest", "gone"} \/ calls[u] > 0)'
        PROVE  u \in Attached'
    <3>1. RecordKept(u)' /\ calls'[u] \in Nat
      BY <1>4 DEF ThreadSound, TypeOK
    <3> QED
      BY <2>1, <3>1 DEF RecordKept, Attached
  <2>2. \A u \in Attached' : ~freed'
    BY DEF HeapExact
  <2> QED
    BY <2>1, <2>2 DEF HeapOutlivesThreads, HeapExact, Attached
<1> QED
  BY <1>2, <1>4, <1>5 DEF IInv

(* The parts of the invariant that a step of t may use.                    *)
LEMMA Facts ==
  ASSUME IInv, NEW t \in Threads
  PROVE  /\ TypeOK /\ ThreadSound(t) /\ HeapExact
         /\ depth[t] \in Nat /\ calls[t] \in Nat /\ saved[t] \in Seq(Nat)
         /\ section[t] \in Nat
         /\ calls[t] - Entries(t) \in Nat
         /\ Entries(t) = IF section[t] > 0 THEN depth[t] - 1 ELSE depth[t]
         /\ \A o \in Objects :
              /\ owner[o] \in Threads \cup {Nobody} /\ entered[o] \in 0..MonitorMax
              /\ owner[o] = Nobody <=> entered[o] = 0
              /\ owner[o] # Nobody => attached[owner[o]] # "no"
<1>1. TypeOK /\ ThreadSound(t) /\ HeapExact
  BY DEF IInv, MonitorsCounted, HeapOutlivesThreads, HeapExact
<1>2. /\ depth[t] \in Nat /\ calls[t] \in Nat /\ saved[t] \in Seq(Nat)
      /\ section[t] \in Nat
  BY <1>1 DEF TypeOK
<1>3. calls[t] - Entries(t) \in Nat
  BY <1>1, <1>2, SumNat DEF ThreadSound, DepthsExact
<1>4. Entries(t) = IF section[t] > 0 THEN depth[t] - 1 ELSE depth[t]
  BY <1>2 DEF Entries
<1> QED
  BY <1>1, <1>2, <1>3, <1>4 DEF IInv, MonitorsCounted, TypeOK

(* A step that leaves the monitors, the waits and the VM alone, and takes  *)
(* no record away.                                                         *)
LEMMA QuietStep ==
  ASSUME IInv, TypeOK', NEW t \in Threads, OnlyMoves(t), ThreadSound(t)',
         UNCHANGED <<monitors, waitsFor, vm>>,
         attached' = attached \/ (~destroyed /\ attached'[t] # "no")
  PROVE  IInv'
<1>1. HeapExact'
  BY Facts DEF HeapExact, Attached, vm
<1>2. ASSUME NEW o \in Objects PROVE Accounts(t, o)
  <2>1. /\ In(t, Waiting(o))' = In(t, Waiting(o))
        /\ In(t, Waiting(o)) \in {0, 1} /\ waiters[o] \in Nat
    BY WaitingCounts
  <2>2. owner'[o] = t => attached'[t] # "no"
    BY Facts, JniAssumption DEF monitors
  <2> QED
    BY <2>1, <2>2, Facts DEF Accounts, monitors
<1> QED
  BY <1>1, <1>2, OneStep

LEMMA AttachStep ==
  ASSUME IInv, NEW t \in Threads, NEW kind \in {"user", "daemon"}, Attach(t, kind)
  PROVE  IInv'
<1> USE DEF Attach
<1>1. TypeOK /\ ThreadSound(t)
  BY Facts
<1>2. TypeOK'
  BY <1>1 DEF TypeOK, monitors, vm
<1>3. attached' = [attached EXCEPT ![t] = kind] /\ attached'[t] = kind
  BY <1>1 DEF TypeOK
<1>4. OnlyMoves(t)
  BY <1>1 DEF TypeOK, OnlyMoves, vm
<1>5. ThreadSound(t)'
  BY <1>1, <1>3 DEF ThreadSound, RecordKept, DepthsExact, Entries, StageExact, DestroySound, vm
<1> QED
  BY <1>2, <1>3, <1>4, <1>5, QuietStep

LEMMA EnterStep ==
  ASSUME IInv, NEW t \in Threads, Enter(t)
  PROVE  IInv'
<1> USE DEF Enter
<1>1. TypeOK /\ ThreadSound(t) /\ depth[t] \in Nat /\ calls[t] \in Nat /\ section[t] \in Nat
  BY Facts
<1>2. TypeOK'
  <2>1. depth[t] + 1 \in Nat /\ calls[t] + 1 \in Nat
    BY <1>1
  <2>2. depth' \in [Threads -> Nat] /\ calls' \in [Threads -> Nat]
    BY <1>1, <2>1 DEF TypeOK
  <2>3. stage' \in [Threads -> Stages] /\ holder' \in Threads \cup {Nobody}
    BY <1>1 DEF TypeOK, Stages
  <2> QED
    BY <1>1, <2>2, <2>3 DEF TypeOK, monitors, vm
<1>3. /\ depth'[t] = depth[t] + 1 /\ calls'[t] = calls[t] + 1
      /\ stage'[t] = "entry" /\ holder' = t
      /\ stage[t] \in {"guest", "entry"}
      /\ UNCHANGED <<attached, section, saved, waitsFor, destroyer, destroyed>>
  BY <1>1 DEF TypeOK, vm
<1>4. \A u \in Threads \ {t} : holder # u
  BY <1>1, JniAssumption DEF ThreadSound, StageExact
<1>5. OnlyMoves(t)
  BY <1>1, <1>3, <1>4 DEF TypeOK, OnlyMoves, vm
<1>6. ThreadSound(t)'
  <2>1. RecordKept(t)' /\ StageExact(t)' /\ DestroySound(t)'
    BY <1>1, <1>3 DEF ThreadSound, RecordKept, StageExact, DestroySound, DestroyStages
  <2>2. calls'[t] - Entries(t)' = calls[t] - Entries(t)
    BY <1>1, <1>3 DEF Entries
  <2>3. DepthsExact(t)'
    BY <1>1, <1>3, <2>2 DEF ThreadSound, DepthsExact, InsideStages
  <2> QED
    BY <2>1, <2>3 DEF ThreadSound
<1> QED
  BY <1>2, <1>5, <1>6, QuietStep

LEMMA LeaveStep ==
  ASSUME IInv, NEW t \in Threads, Leave(t)
  PROVE  IInv'
<1> USE DEF Leave
<1>1. /\ TypeOK /\ ThreadSound(t) /\ depth[t] \in Nat /\ calls[t] \in Nat
      /\ section[t] \in Nat /\ section[t] <= depth[t]
      /\ calls[t] - Entries(t) \in Nat /\ depth[t] > 0
      /\ Entries(t) = IF section[t] > 0 THEN depth[t] - 1 ELSE depth[t]
      /\ depth[t] > section[t]
  BY Facts DEF ThreadSound, DepthsExact, InsideStages
<1>2. TypeOK'
  <2>1. depth[t] - 1 \in Nat /\ calls[t] - 1 \in Nat /\ 0 \in Nat
    BY <1>1
  <2>2. /\ depth' = [depth EXCEPT ![t] = IF depth[t] > 1 THEN depth[t] - 1 ELSE 0]
        /\ calls' = [calls EXCEPT ![t] = calls[t] - 1]
    OBVIOUS
  <2>3. depth' \in [Threads -> Nat] /\ calls' \in [Threads -> Nat]
    BY <1>1, <2>1, <2>2 DEF TypeOK
  <2>4. stage' \in [Threads -> Stages] /\ holder' \in Threads \cup {Nobody}
    BY <1>1 DEF TypeOK, Stages
  <2> QED
    BY <1>1, <2>3, <2>4 DEF TypeOK, monitors, vm
<1>3. /\ depth'[t] = depth[t] - 1 /\ calls'[t] = calls[t] - 1
      /\ stage[t] = "entry" /\ holder = t
      /\ IF depth'[t] > 0 THEN stage'[t] = "entry" /\ holder' = t
                          ELSE stage'[t] = "guest" /\ holder' = Nobody
      /\ UNCHANGED <<attached, section, saved, waitsFor, destroyer, destroyed>>
  BY <1>1 DEF TypeOK, vm, ThreadSound, StageExact
<1>4. OnlyMoves(t)
  BY <1>1, <1>3, JniAssumption DEF TypeOK, OnlyMoves, vm
<1>5. ThreadSound(t)'
  <2>1. RecordKept(t)' /\ StageExact(t)' /\ DestroySound(t)'
    BY <1>1, <1>3, JniAssumption
       DEF ThreadSound, RecordKept, StageExact, DestroySound, DestroyStages
  <2>2. calls'[t] - Entries(t)' = calls[t] - Entries(t)
    BY <1>1, <1>3 DEF Entries
  <2>3. DepthsExact(t)'
    BY <1>1, <1>3, <2>2 DEF ThreadSound, DepthsExact, InsideStages
  <2> QED
    BY <2>1, <2>3 DEF ThreadSound
<1> QED
  BY <1>2, <1>4, <1>5, QuietStep

LEMMA LockStep ==
  ASSUME IInv, NEW t \in Threads, Lock(t)
  PROVE  IInv'
<1> USE DEF Lock
<1>1. TypeOK /\ ThreadSound(t) /\ depth[t] \in Nat /\ calls[t] \in Nat /\ section[t] = 0
  BY Facts
<1>2. TypeOK'
  <2>1. depth[t] + 1 \in Nat
    BY <1>1
  <2>2. depth' \in [Threads -> Nat] /\ section' \in [Threads -> Nat]
    BY <1>1, <2>1 DEF TypeOK
  <2>3. stage' \in [Threads -> Stages] /\ holder' \in Threads \cup {Nobody}
    BY <1>1 DEF TypeOK, Stages
  <2> QED
    BY <1>1, <2>2, <2>3 DEF TypeOK, monitors, vm
<1>3. /\ depth'[t] = depth[t] + 1 /\ section'[t] = depth[t] + 1
      /\ stage'[t] = "entry" /\ holder' = t
      /\ stage[t] \in {"guest", "entry"}
      /\ UNCHANGED <<attached, calls, saved, waitsFor, destroyer, destroyed>>
  BY <1>1 DEF TypeOK, vm
<1>4. \A u \in Threads \ {t} : holder # u
  BY <1>1, JniAssumption DEF ThreadSound, StageExact
<1>5. OnlyMoves(t)
  BY <1>1, <1>3, <1>4 DEF TypeOK, OnlyMoves, vm
<1>6. ThreadSound(t)'
  <2>1. RecordKept(t)' /\ StageExact(t)' /\ DestroySound(t)'
    BY <1>1, <1>3 DEF ThreadSound, RecordKept, StageExact, DestroySound, DestroyStages
  <2>2. calls'[t] - Entries(t)' = calls[t] - Entries(t)
    BY <1>1, <1>3 DEF Entries
  <2>3. DepthsExact(t)'
    BY <1>1, <1>3, <2>2 DEF ThreadSound, DepthsExact, InsideStages
  <2> QED
    BY <2>1, <2>3 DEF ThreadSound
<1> QED
  BY <1>2, <1>5, <1>6, QuietStep

LEMMA UnlockStep ==
  ASSUME IInv, NEW t \in Threads, Unlock(t)
  PROVE  IInv'
<1> USE DEF Unlock
<1>1. /\ TypeOK /\ ThreadSound(t) /\ depth[t] \in Nat /\ calls[t] \in Nat
      /\ section[t] \in Nat /\ section[t] > 0 /\ depth[t] = section[t]
  BY Facts
<1>2. TypeOK'
  <2>1. depth[t] - 1 \in Nat
    BY <1>1
  <2>2. depth' \in [Threads -> Nat] /\ section' \in [Threads -> Nat]
    BY <1>1, <2>1 DEF TypeOK
  <2>3. stage' \in [Threads -> Stages] /\ holder' \in Threads \cup {Nobody}
    BY <1>1 DEF TypeOK, Stages
  <2> QED
    BY <1>1, <2>2, <2>3 DEF TypeOK, monitors, vm
<1>3. /\ depth'[t] = depth[t] - 1 /\ section'[t] = 0
      /\ stage[t] = "entry" /\ holder = t
      /\ IF depth'[t] > 0 THEN stage'[t] = "entry" /\ holder' = t
                          ELSE stage'[t] = "guest" /\ holder' = Nobody
      /\ UNCHANGED <<attached, calls, saved, waitsFor, destroyer, destroyed>>
  BY <1>1 DEF TypeOK, vm, ThreadSound, StageExact
<1>4. OnlyMoves(t)
  BY <1>1, <1>3, JniAssumption DEF TypeOK, OnlyMoves, vm
<1>5. ThreadSound(t)'
  <2>1. RecordKept(t)' /\ StageExact(t)' /\ DestroySound(t)'
    BY <1>1, <1>3, JniAssumption
       DEF ThreadSound, RecordKept, StageExact, DestroySound, DestroyStages
  <2>2. calls'[t] - Entries(t)' = calls[t] - Entries(t)
    BY <1>1, <1>3 DEF Entries
  <2>3. DepthsExact(t)'
    BY <1>1, <1>3, <2>2 DEF ThreadSound, DepthsExact, InsideStages
  <2> QED
    BY <2>1, <2>3 DEF ThreadSound
<1> QED
  BY <1>2, <1>4, <1>5, QuietStep

LEMMA NativeCallStep ==
  ASSUME IInv, NEW t \in Threads, NativeCall(t)
  PROVE  IInv'
<1> USE DEF NativeCall
<1>1. /\ TypeOK /\ ThreadSound(t) /\ depth[t] \in Nat /\ calls[t] \in Nat
      /\ saved[t] \in Seq(Nat) /\ depth[t] > 0 /\ section[t] = 0
      /\ Entries(t) = depth[t] /\ calls[t] - Entries(t) \in Nat
  BY Facts DEF ThreadSound, DepthsExact, InsideStages
<1> DEFINE s == saved[t]
<1>2. /\ <<depth[t]>> \o s \in Seq(Nat)
      /\ IsSum(calls[t] - Entries(t) + depth[t], <<depth[t]>> \o s)
      /\ \A i \in 1..Len(<<depth[t]>> \o s) : (<<depth[t]>> \o s)[i] > 0
  BY <1>1, SumPush DEF ThreadSound, DepthsExact
<1>3. TypeOK'
  BY <1>1, <1>2 DEF TypeOK, Stages, monitors, vm
<1>4. /\ depth'[t] = 0 /\ calls'[t] = calls[t] /\ saved'[t] = <<depth[t]>> \o s
      /\ stage[t] = "entry" /\ holder = t
      /\ stage'[t] = "guest" /\ holder' = Nobody
      /\ UNCHANGED <<attached, section, waitsFor, destroyer, destroyed>>
  BY <1>1 DEF TypeOK, vm, ThreadSound, StageExact
<1>5. OnlyMoves(t)
  BY <1>1, <1>4, JniAssumption DEF TypeOK, OnlyMoves, vm
<1>6. ThreadSound(t)'
  <2>1. RecordKept(t)' /\ StageExact(t)' /\ DestroySound(t)'
    BY <1>1, <1>4, JniAssumption
       DEF ThreadSound, RecordKept, StageExact, DestroySound, DestroyStages
  <2>2. calls'[t] - Entries(t)' = calls[t] - Entries(t) + depth[t]
    BY <1>1, <1>4 DEF Entries
  <2>3. DepthsExact(t)'
    BY <1>2, <1>4, <2>2 DEF DepthsExact, InsideStages
  <2> QED
    BY <2>1, <2>3 DEF ThreadSound
<1> QED
  BY <1>3, <1>5, <1>6, QuietStep

LEMMA NativeReturnStep ==
  ASSUME IInv, NEW t \in Threads, NativeReturn(t)
  PROVE  IInv'
<1> USE DEF NativeReturn
<1>1. /\ TypeOK /\ ThreadSound(t) /\ depth[t] \in Nat /\ calls[t] \in Nat
      /\ saved[t] \in Seq(Nat) /\ saved[t] # <<>> /\ depth[t] = 0 /\ section[t] = 0
      /\ Entries(t) = 0
  BY Facts DEF ThreadSound, DepthsExact, InsideStages
<1> DEFINE s == saved[t]
<1>2. /\ Head(s) \in Nat /\ Head(s) > 0 /\ Tail(s) \in Seq(Nat)
      /\ IsSum(calls[t] - Entries(t) - Head(s), Tail(s))
      /\ \A i \in 1..Len(Tail(s)) : Tail(s)[i] > 0
  BY <1>1, SumPop DEF ThreadSound, DepthsExact
<1>3. TypeOK'
  BY <1>1, <1>2 DEF TypeOK, Stages, monitors, vm
<1>4. /\ depth'[t] = Head(s) /\ calls'[t] = calls[t] /\ saved'[t] = Tail(s)
      /\ stage[t] = "guest" /\ holder = Nobody
      /\ stage'[t] = "entry" /\ holder' = t
      /\ UNCHANGED <<attached, section, waitsFor, destroyer, destroyed>>
  BY <1>1 DEF TypeOK, vm
<1>5. OnlyMoves(t)
  BY <1>1, <1>4, JniAssumption DEF TypeOK, OnlyMoves, vm
<1>6. ThreadSound(t)'
  <2>1. RecordKept(t)' /\ StageExact(t)' /\ DestroySound(t)'
    BY <1>1, <1>4 DEF ThreadSound, RecordKept, StageExact, DestroySound, DestroyStages
  <2>2. calls'[t] - Entries(t)' = calls[t] - Entries(t) - Head(s)
    BY <1>1, <1>2, <1>4 DEF Entries
  <2>3. DepthsExact(t)'
    <3>1. depth'[t] > 0 /\ section'[t] = 0 /\ section'[t] <= depth'[t]
      BY <1>1, <1>2, <1>4
    <3> QED
      BY <1>2, <1>4, <2>2, <3>1 DEF DepthsExact, InsideStages
  <2> QED
    BY <2>1, <2>3 DEF ThreadSound
<1> QED
  BY <1>3, <1>5, <1>6, QuietStep

-----------------------------------------------------------------------------
(* Monitors. *)

(* Taking a monitor that is free or its own gives it to t, one deeper.     *)
LEMMA Taken ==
  ASSUME IInv, NEW t \in Threads, NEW o \in Objects,
         Available(t, o), attached[t] # "no", Take(t, o)
  PROVE  /\ owner' \in [Objects -> Threads \cup {Nobody}]
         /\ entered' \in [Objects -> 0..MonitorMax]
         /\ \A x \in Objects : /\ owner'[x] \in {Nobody, owner[x], t}
                               /\ owner'[x] = Nobody <=> entered'[x] = 0
<1>1. TypeOK /\ \A x \in Objects : /\ owner[x] = Nobody <=> entered[x] = 0
                                   /\ entered[x] \in 0..MonitorMax
  BY Facts
<1>2. CASE entered[o] = MonitorMax
  BY <1>1, <1>2 DEF Take, TypeOK
<1>3. CASE entered[o] # MonitorMax
  <2>1. /\ owner' = [owner EXCEPT ![o] = t]
        /\ entered' = [entered EXCEPT ![o] = entered[o] + 1]
    BY <1>3 DEF Take
  <2>2. entered[o] + 1 \in 0..MonitorMax /\ entered[o] + 1 # 0
    BY <1>1, <1>3, JniAssumption
  <2>3. t # Nobody
    BY JniAssumption
  <2> QED
    BY <1>1, <2>1, <2>2, <2>3 DEF TypeOK
<1> QED
  BY <1>2, <1>3

LEMMA MonitorEnterStep ==
  ASSUME IInv, NEW t \in Threads, NEW o \in Objects, MonitorEnter(t, o)
  PROVE  IInv'
<1> USE DEF MonitorEnter, MayEnter
<1>1. TypeOK /\ ThreadSound(t)
  BY Facts
<1>2. /\ owner' \in [Objects -> Threads \cup {Nobody}]
      /\ entered' \in [Objects -> 0..MonitorMax]
      /\ \A x \in Objects : /\ owner'[x] \in {Nobody, owner[x], t}
                            /\ owner'[x] = Nobody <=> entered'[x] = 0
  BY Taken
<1>3. TypeOK'
  BY <1>1, <1>2 DEF TypeOK, records, vm
<1>4. OnlyMoves(t)
  BY <1>1 DEF OnlyMoves, records, vm
<1>5. ThreadSound(t)'
  BY <1>1 DEF ThreadSound, RecordKept, DepthsExact, Entries, StageExact, DestroySound, records, vm
<1>6. HeapExact'
  BY Facts DEF HeapExact, Attached, records, vm
<1>7. ASSUME NEW x \in Objects PROVE Accounts(t, x)
  <2>1. waiters'[x] = waiters[x] + (In(t, Waiting(x))' - In(t, Waiting(x)))
    BY WaitingCounts
  <2> QED
    BY <1>1, <1>2, <2>1 DEF Accounts, records
<1> QED
  BY <1>3, <1>4, <1>5, <1>6, <1>7, OneStep

LEMMA MonitorBlockStep ==
  ASSUME IInv, NEW t \in Threads, NEW o \in Objects, MonitorBlock(t, o)
  PROVE  IInv'
<1> USE DEF MonitorBlock, MayEnter
<1>1. /\ TypeOK /\ ThreadSound(t) /\ depth[t] = 0 /\ calls[t] \in Nat
      /\ section[t] = 0 /\ waitsFor[t] = Nothing /\ o # Nothing
  <2>1. TypeOK /\ ThreadSound(t) /\ calls[t] \in Nat /\ depth[t] \in Nat /\ section[t] \in Nat
    BY Facts
  <2>2. depth[t] = 0 /\ section[t] = 0
    BY <2>1 DEF ThreadSound, DepthsExact, InsideStages
  <2> QED
    BY <2>1, <2>2, JniAssumption DEF ThreadSound, StageExact
<1>2. TypeOK'
  BY <1>1 DEF TypeOK, Stages, vm
<1>3. /\ depth'[t] = 1 /\ calls'[t] = calls[t] + 1
      /\ stage[t] = "guest" /\ stage'[t] = "blocked" /\ waitsFor'[t] = o
      /\ UNCHANGED <<holder, attached, section, saved, destroyer, destroyed>>
  BY <1>1 DEF TypeOK, vm
<1>4. OnlyMoves(t)
  BY <1>1, <1>3 DEF TypeOK, OnlyMoves, vm
<1>5. ThreadSound(t)'
  <2>1. RecordKept(t)' /\ StageExact(t)' /\ DestroySound(t)'
    BY <1>1, <1>3 DEF ThreadSound, RecordKept, StageExact, DestroySound, DestroyStages
  <2>2. calls'[t] - Entries(t)' = calls[t] - Entries(t)
    BY <1>1, <1>3 DEF Entries
  <2>3. DepthsExact(t)'
    BY <1>1, <1>3, <2>2 DEF ThreadSound, DepthsExact, InsideStages
  <2> QED
    BY <2>1, <2>3 DEF ThreadSound
<1>6. HeapExact'
  BY Facts DEF HeapExact, Attached, vm
<1>7. ASSUME NEW x \in Objects PROVE Accounts(t, x)
  <2>1. waiters'[x] = IF x = o THEN waiters[x] + 1 ELSE waiters[x]
    BY <1>1 DEF TypeOK
  <2>2. waiters'[x] = waiters[x] + (In(t, Waiting(x))' - In(t, Waiting(x)))
    BY <1>1, <1>3, <2>1, WaitingCounts, JniAssumption
  <2> QED
    BY <1>1, <2>2, Facts DEF Accounts
<1> QED
  BY <1>2, <1>4, <1>5, <1>6, <1>7, OneStep

(* The waiter waits again.                                                 *)
LEMMA WaitAgainStep ==
  ASSUME IInv, NEW t \in Threads, MonitorRetry(t),
         ~destroyed, ~Available(t, waitsFor[t])
  PROVE  IInv'
<1> USE DEF MonitorRetry
<1>1. TypeOK /\ ThreadSound(t)
  BY Facts
<1>2. /\ stage[t] = "woken" /\ stage' = [stage EXCEPT ![t] = "blocked"]
      /\ UNCHANGED <<holder, waitsFor, monitors, records, vm>>
  OBVIOUS
<1>3. TypeOK'
  BY <1>1, <1>2 DEF TypeOK, Stages, records, monitors, vm
<1>4. OnlyMoves(t)
  BY <1>1, <1>2 DEF TypeOK, OnlyMoves, records, vm
<1>5. ThreadSound(t)'
  BY <1>1, <1>2 DEF TypeOK, ThreadSound, RecordKept, DepthsExact, Entries, StageExact,
                    DestroySound, InsideStages, DestroyStages, records, vm
<1> QED
  BY <1>2, <1>3, <1>4, <1>5, QuietStep DEF records

(* The waiter goes on, with the monitor on a live VM and without it on a   *)
(* dead one.                                                               *)
LEMMA WaitEndsStep ==
  ASSUME IInv, NEW t \in Threads, MonitorRetry(t),
         destroyed \/ Available(t, waitsFor[t])
  PROVE  IInv'
<1> DEFINE o == waitsFor[t]
<1>1. /\ TypeOK /\ ThreadSound(t) /\ stage[t] = "woken"
      /\ o \in Objects /\ attached[t] # "no"
  <2>1. TypeOK /\ ThreadSound(t) /\ stage[t] = "woken"
    BY Facts DEF MonitorRetry
  <2>2. attached[t] # "no" /\ waitsFor[t] # Nothing
    BY <2>1 DEF ThreadSound, StageExact, RecordKept
  <2> QED
    BY <2>1, <2>2 DEF TypeOK
<1>2. /\ stage' = [stage EXCEPT ![t] = "entry"]
      /\ holder = Nobody /\ holder' = t
      /\ waitsFor' = [waitsFor EXCEPT ![t] = Nothing]
      /\ waiters' = [waiters EXCEPT ![o] = @ - 1]
      /\ destroyed \/ Take(t, o)
      /\ destroyed => UNCHANGED <<owner, entered>>
      /\ UNCHANGED <<records, vm>>
  BY DEF MonitorRetry
<1>3. /\ owner' \in [Objects -> Threads \cup {Nobody}]
      /\ entered' \in [Objects -> 0..MonitorMax]
      /\ \A x \in Objects : /\ owner'[x] \in {Nobody, owner[x], t}
                            /\ owner'[x] = Nobody <=> entered'[x] = 0
  <2>1. CASE destroyed
    BY <1>1, <1>2, <2>1, Facts DEF TypeOK
  <2>2. CASE ~destroyed
    BY <1>1, <1>2, <2>2, Taken
  <2> QED
    BY <2>1, <2>2
<1>4. \A x \in Objects :
        /\ waiters'[x] = IF x = o THEN waiters[x] - 1 ELSE waiters[x]
        /\ x = o => waiters[x] > 0
        /\ waiters[x] \in Nat
  BY <1>1, <1>2, WaitingCounts DEF TypeOK
<1>5. TypeOK'
  <2>1. waiters' \in [Objects -> Nat]
    BY <1>1, <1>2, <1>4 DEF TypeOK
  <2> QED
    BY <1>1, <1>2, <1>3, <2>1 DEF TypeOK, Stages, records, vm
<1>6. stage'[t] = "entry" /\ waitsFor'[t] = Nothing
  BY <1>1, <1>2 DEF TypeOK
<1>7. OnlyMoves(t)
  BY <1>1, <1>2, JniAssumption DEF TypeOK, OnlyMoves, records, vm
<1>8. ThreadSound(t)'
  BY <1>1, <1>2, <1>6
     DEF ThreadSound, RecordKept, DepthsExact, Entries, StageExact,
         DestroySound, InsideStages, DestroyStages, records, vm
<1>9. HeapExact'
  BY <1>2, Facts DEF HeapExact, Attached, records, vm
<1>10. ASSUME NEW x \in Objects PROVE Accounts(t, x)
  <2>1. waiters'[x] = waiters[x] + (In(t, Waiting(x))' - In(t, Waiting(x)))
    BY <1>4, <1>6, WaitingCounts, JniAssumption
  <2> QED
    BY <1>1, <1>2, <1>3, <2>1 DEF Accounts, records
<1> QED
  BY <1>5, <1>7, <1>8, <1>9, <1>10, OneStep

(* Everybody else is woken at most.                                        *)
LEMMA NotifiedMoves ==
  ASSUME TypeOK, NEW t \in Threads, NEW next \in Stages, stage' = Notified(t, next)
  PROVE  /\ stage' \in [Threads -> Stages] /\ stage'[t] = next
         /\ \A u \in Threads \ {t} :
              \/ stage'[u] = stage[u]
              \/ stage[u] = "blocked" /\ stage'[u] = "woken"
              \/ stage[u] = "destroying" /\ stage'[u] = "stirred"
<1>1. \A u \in Threads :
        stage'[u] = CASE u = t -> next
                      [] u # t /\ stage[u] = "blocked" -> "woken"
                      [] u # t /\ stage[u] = "destroying" -> "stirred"
                      [] OTHER -> stage[u]
  BY DEF Notified
<1>2. stage'[t] = next
  BY <1>1
<1>3. ASSUME NEW u \in Threads \ {t}
      PROVE  /\ stage'[u] \in Stages
             /\ \/ stage'[u] = stage[u]
                \/ stage[u] = "blocked" /\ stage'[u] = "woken"
                \/ stage[u] = "destroying" /\ stage'[u] = "stirred"
  BY <1>1 DEF TypeOK, Stages
<1>4. DOMAIN stage' = Threads /\ stage' = [u \in Threads |-> stage'[u]]
  BY DEF Notified
<1> QED
  BY <1>2, <1>3, <1>4

LEMMA MonitorExitStep ==
  ASSUME IInv, NEW t \in Threads, NEW o \in Objects, MonitorExit(t, o)
  PROVE  IInv'
<1> USE DEF MonitorExit, MayEnter
<1>1. /\ TypeOK /\ ThreadSound(t) /\ stage[t] = "guest" /\ owner[o] = t
      /\ entered[o] \in 0..MonitorMax /\ entered[o] # 0 /\ t # Nobody
      /\ \A x \in Objects : owner[x] = Nobody <=> entered[x] = 0
  BY Facts, JniAssumption
<1>2. entered[o] - 1 \in 0..MonitorMax /\ (entered[o] - 1 = 0 <=> entered[o] = 1)
  BY <1>1, JniAssumption
<1>3. /\ stage' \in [Threads -> Stages] /\ stage'[t] = "guest"
      /\ \A u \in Threads \ {t} :
           \/ stage'[u] = stage[u]
           \/ stage[u] = "blocked" /\ stage'[u] = "woken"
           \/ stage[u] = "destroying" /\ stage'[u] = "stirred"
  <2>1. "guest" \in Stages
    BY DEF Stages
  <2>2. CASE entered[o] = 1
    BY <1>1, <2>1, <2>2, NotifiedMoves
  <2>3. CASE entered[o] # 1
    BY <1>1, <2>3 DEF TypeOK
  <2> QED
    BY <2>2, <2>3
<1>4. /\ owner' \in [Objects -> Threads \cup {Nobody}]
      /\ entered' \in [Objects -> 0..MonitorMax]
      /\ \A x \in Objects : /\ owner'[x] \in {Nobody, owner[x]}
                            /\ owner'[x] = Nobody <=> entered'[x] = 0
  <2>1. entered' = [entered EXCEPT ![o] = entered[o] - 1]
    OBVIOUS
  <2>2. CASE entered[o] = 1
    BY <1>1, <1>2, <2>1, <2>2 DEF TypeOK
  <2>3. CASE entered[o] # 1
    BY <1>1, <1>2, <2>1, <2>3 DEF TypeOK
  <2> QED
    BY <2>2, <2>3
<1>5. TypeOK'
  BY <1>1, <1>3, <1>4 DEF TypeOK, records, vm
<1>6. OnlyMoves(t)
  BY <1>3 DEF OnlyMoves, records, vm
<1>7. ThreadSound(t)'
  BY <1>1, <1>3
     DEF ThreadSound, RecordKept, DepthsExact, Entries, StageExact, DestroySound, records, vm
<1>8. HeapExact'
  BY Facts DEF HeapExact, Attached, records, vm
<1>9. ASSUME NEW x \in Objects PROVE Accounts(t, x)
  <2>1. waiters'[x] = waiters[x] + (In(t, Waiting(x))' - In(t, Waiting(x)))
    BY WaitingCounts
  <2> QED
    BY <1>1, <1>4, <2>1 DEF Accounts, records
<1> QED
  BY <1>5, <1>6, <1>7, <1>8, <1>9, OneStep

-----------------------------------------------------------------------------
(* The end of a thread, and of the machine. *)

(* The record of a thread that is outside the runtime goes away.           *)
LEMMA RemoveStep ==
  ASSUME IInv, NEW t \in Threads, NEW next \in {"guest", "gone"},
         attached[t] # "no", stage[t] \in {"guest", "parted"}, holder = Nobody,
         Remove(t, next)
  PROVE  IInv'
<1> USE DEF Remove, RemoveRecord, ReleaseMonitors
<1>1. /\ TypeOK /\ ThreadSound(t) /\ t # Nobody
      /\ waitsFor[t] = Nothing /\ destroyer # t
      /\ \A x \in Objects : owner[x] = Nobody <=> entered[x] = 0
  BY Facts, JniAssumption DEF ThreadSound, StageExact, DestroyStages
<1>2. /\ stage' \in [Threads -> Stages] /\ stage'[t] = next
      /\ \A u \in Threads \ {t} :
           \/ stage'[u] = stage[u]
           \/ stage[u] = "blocked" /\ stage'[u] = "woken"
           \/ stage[u] = "destroying" /\ stage'[u] = "stirred"
  <2>1. next \in Stages
    BY DEF Stages
  <2> QED
    BY <1>1, <2>1, NotifiedMoves
<1>3. /\ attached'[t] = "no" /\ depth'[t] = 0 /\ calls'[t] = 0 /\ saved'[t] = <<>>
      /\ section'[t] = 0
      /\ UNCHANGED <<holder, waitsFor, waiters, destroyer, destroyed>>
  BY <1>1 DEF TypeOK
<1>4. \A x \in Objects :
        /\ owner'[x] = IF owner[x] = t THEN Nobody ELSE owner[x]
        /\ entered'[x] = IF owner[x] = t THEN 0 ELSE entered[x]
  OBVIOUS
<1>5. TypeOK'
  <2>1. /\ owner' \in [Objects -> Threads \cup {Nobody}]
        /\ entered' \in [Objects -> 0..MonitorMax]
    BY <1>1, <1>4, JniAssumption DEF TypeOK
  <2>2. <<>> \in Seq(Nat) /\ 0 \in Nat
    OBVIOUS
  <2>3. freed' \in BOOLEAN
    BY <1>1 DEF TypeOK
  <2> QED
    BY <1>1, <1>2, <2>1, <2>2, <2>3 DEF TypeOK
<1>6. OnlyMoves(t)
  BY <1>1, <1>2 DEF TypeOK, OnlyMoves
<1>7. ThreadSound(t)'
  <2>1. RecordKept(t)' /\ StageExact(t)' /\ DestroySound(t)'
    BY <1>1, <1>2, <1>3, JniAssumption
       DEF ThreadSound, RecordKept, StageExact, DestroySound, DestroyStages
  <2>2. DepthsExact(t)'
    <3>1. calls'[t] - Entries(t)' = 0 /\ Len(<<>>) = 0
      BY <1>3 DEF Entries
    <3> QED
      BY <1>2, <1>3, <3>1, SumOfNone DEF DepthsExact, InsideStages
  <2> QED
    BY <2>1, <2>2 DEF ThreadSound
<1>8. HeapExact'
  <2>1. t \in Attached /\ Attached' = Attached \ {t}
    BY <1>1, <1>3 DEF Attached, TypeOK
  <2>2. ~freed
    BY <2>1, Facts DEF HeapExact
  <2>3. Attached' = {} <=> Attached = {t}
    BY <2>1
  <2>4. freed' <=> destroyed /\ Attached = {t}
    BY <2>2
  <2>5. destroyed' <=> destroyed
    BY <1>3
  <2> QED
    BY <2>3, <2>4, <2>5 DEF HeapExact
<1>9. ASSUME NEW x \in Objects PROVE Accounts(t, x)
  <2>1. waiters'[x] = waiters[x] + (In(t, Waiting(x))' - In(t, Waiting(x)))
    BY <1>3, WaitingCounts
  <2>2. owner'[x] \in {Nobody, owner[x]} /\ owner'[x] # t
    BY <1>1, <1>4
  <2> QED
    BY <1>1, <1>4, <2>1, <2>2 DEF Accounts
<1> QED
  BY <1>5, <1>6, <1>7, <1>8, <1>9, OneStep

LEMMA DetachStep ==
  ASSUME IInv, NEW t \in Threads, Detach(t)
  PROVE  IInv'
BY RemoveStep DEF Detach

LEMMA ThreadExitsStep ==
  ASSUME IInv, NEW t \in Threads, ThreadExits(t)
  PROVE  IInv'
<1>1. CASE attached[t] # "no"
  BY <1>1, RemoveStep DEF ThreadExits
<1>2. CASE attached[t] = "no"
  <2>1. /\ TypeOK /\ ThreadSound(t) /\ stage[t] = "guest"
        /\ stage' = [stage EXCEPT ![t] = "gone"]
        /\ UNCHANGED <<holder, records, waitsFor, monitors, vm>>
    BY <1>2, Facts DEF ThreadExits
  <2>2. TypeOK'
    BY <2>1 DEF TypeOK, Stages, records, monitors, vm
  <2>3. OnlyMoves(t)
    BY <2>1 DEF TypeOK, OnlyMoves, records, vm
  <2>4. ThreadSound(t)'
    BY <1>2, <2>1
       DEF TypeOK, ThreadSound, RecordKept, DepthsExact, Entries, StageExact,
           DestroySound, InsideStages, DestroyStages, records, vm
  <2> QED
    BY <2>1, <2>2, <2>3, <2>4, QuietStep DEF records
<1> QED
  BY <1>1, <1>2

LEMMA SpuriousWakeStep ==
  ASSUME IInv, NEW t \in Threads, SpuriousWake(t)
  PROVE  IInv'
<1>1. TypeOK /\ ThreadSound(t) /\ stage[t] \in {"blocked", "destroying"}
  BY Facts DEF SpuriousWake
<1>2. /\ stage'[t] = IF stage[t] = "blocked" THEN "woken" ELSE "stirred"
      /\ stage' \in [Threads -> Stages]
      /\ \A u \in Threads \ {t} : stage'[u] = stage[u]
      /\ UNCHANGED <<holder, records, waitsFor, monitors, vm>>
  BY <1>1 DEF SpuriousWake, TypeOK, Stages
<1>3. TypeOK'
  BY <1>1, <1>2 DEF TypeOK, records, monitors, vm
<1>4. OnlyMoves(t)
  BY <1>2 DEF OnlyMoves, records, vm
<1>5. ThreadSound(t)'
  BY <1>1, <1>2
     DEF ThreadSound, RecordKept, DepthsExact, Entries, StageExact,
         DestroySound, InsideStages, DestroyStages, records, vm
<1> QED
  BY <1>2, <1>3, <1>4, <1>5, QuietStep DEF records

(* DestroyJavaVM destroys the VM or waits, at first and when it is woken.  *)
LEMMA DoomOrAwait ==
  ASSUME IInv, NEW t \in Threads, stage[t] \in {"guest", "stirred"},
         attached[t] # "no", calls[t] = 0, ~destroyed, destroyer \in {Nobody, t},
         Doom(t) \/ Await(t),
         UNCHANGED <<holder, records, waitsFor, monitors, freed>>
  PROVE  IInv'
<1>1. TypeOK /\ ThreadSound(t) /\ HeapExact /\ t # Nobody
  BY Facts, JniAssumption
<1>2. /\ stage' \in [Threads -> Stages]
      /\ \A u \in Threads \ {t} : stage'[u] = stage[u]
      /\ \/ stage'[t] = "parted" /\ destroyed' /\ destroyer' = Nobody
         \/ stage'[t] = "destroying" /\ ~destroyed' /\ destroyer' = t
      /\ destroyed' \in BOOLEAN
  <2>1. CASE Doom(t)
    BY <1>1, <2>1 DEF Doom, TypeOK, Stages
  <2>2. CASE Await(t)
    <3>1. stage' = [stage EXCEPT ![t] = "destroying"] /\ destroyer' = t
      BY <2>2 DEF Await
    <3>2. ~destroyed' /\ destroyed' \in BOOLEAN
      BY <1>1, <2>2 DEF Await, TypeOK
    <3> QED
      BY <1>1, <3>1, <3>2 DEF TypeOK, Stages
  <2> QED
    BY <2>1, <2>2
<1>3. TypeOK'
  BY <1>1, <1>2 DEF TypeOK, records, monitors
<1>4. OnlyMoves(t)
  <2>1. ASSUME NEW u \in Threads \ {t}
        PROVE  /\ destroyer' = u <=> destroyer = u
               /\ stage[u] \in DestroyStages => destroyed' = destroyed
    <3>1. ThreadSound(u) /\ destroyer # u /\ u # Nobody
      BY <1>1, JniAssumption, Facts
    <3> QED
      BY <1>2, <3>1 DEF ThreadSound, StageExact
  <2> QED
    BY <1>2, <2>1 DEF OnlyMoves, records
<1>5. ThreadSound(t)'
  BY <1>1, <1>2
     DEF ThreadSound, RecordKept, DepthsExact, Entries, StageExact,
         DestroySound, InsideStages, DestroyStages, records
<1>6. HeapExact'
  BY <1>1 DEF HeapExact, Attached, records
<1>7. ASSUME NEW x \in Objects PROVE Accounts(t, x)
  <2>1. waiters'[x] = waiters[x] + (In(t, Waiting(x))' - In(t, Waiting(x)))
    BY WaitingCounts DEF monitors
  <2> QED
    BY <2>1, Facts DEF Accounts, monitors, records
<1> QED
  BY <1>3, <1>4, <1>5, <1>6, <1>7, OneStep

LEMMA DestroyStep ==
  ASSUME IInv, NEW t \in Threads, Destroy(t) \/ DestroyRetry(t)
  PROVE  IInv'
<1>1. TypeOK /\ ThreadSound(t)
  BY Facts
<1>2. CASE Destroy(t)
  BY <1>2, DoomOrAwait DEF Destroy
<1>3. CASE DestroyRetry(t)
  <2>1. stage[t] = "stirred"
    BY <1>3 DEF DestroyRetry
  <2>2. attached[t] # "no" /\ calls[t] = 0 /\ ~destroyed /\ destroyer = t
    BY <1>1, <2>1 DEF ThreadSound, RecordKept, StageExact, DestroySound, DestroyStages
  <2> QED
    BY <1>3, <2>1, <2>2, DoomOrAwait DEF DestroyRetry
<1> QED
  BY <1>2, <1>3

-----------------------------------------------------------------------------
LEMMA InitIInv ==
  Init => IInv
<1> SUFFICES ASSUME Init PROVE IInv
  OBVIOUS
<1> USE DEF Init
<1>1. TypeOK
  <2>1. <<>> \in Seq(Nat) /\ 0 \in Nat /\ 0 \in 0..MonitorMax
    BY JniAssumption
  <2>2. {"guest"} \subseteq Stages /\ FALSE \in BOOLEAN
    BY DEF Stages
  <2> QED
    BY <2>1, <2>2 DEF TypeOK
<1>2. MonitorsCounted
  <2>1. \A o \in Objects : Waiting(o) = {}
    BY JniAssumption DEF Waiting
  <2> QED
    BY <1>1, <2>1, FS_EmptySet DEF MonitorsCounted, Waiting
<1>3. HeapOutlivesThreads
  BY DEF HeapOutlivesThreads
<1>4. ASSUME NEW t \in Threads PROVE ThreadSound(t)
  <2>1. calls[t] - Entries(t) = 0 /\ saved[t] = <<>> /\ Len(<<>>) = 0
    BY DEF Entries
  <2>2. DepthsExact(t)
    BY <2>1, SumOfNone DEF DepthsExact, InsideStages
  <2> QED
    BY <2>2, JniAssumption
       DEF ThreadSound, RecordKept, StageExact, DestroySound, DestroyStages
<1> QED
  BY <1>2, <1>3, <1>4 DEF IInv

LEMMA NextIInv ==
  IInv /\ [Next]_vars => IInv'
<1> SUFFICES ASSUME IInv, [Next]_vars PROVE IInv'
  OBVIOUS
<1>1. CASE UNCHANGED vars
  <2>1. MonitorsCounted' /\ HeapOutlivesThreads'
    BY <1>1 DEF vars, IInv, MonitorsCounted, HeapOutlivesThreads, TypeOK, Attached
  <2>2. ASSUME NEW t \in Threads PROVE ThreadSound(t)'
    BY <1>1 DEF vars, IInv, ThreadSound, RecordKept, DepthsExact, Entries,
                StageExact, DestroySound
  <2> QED
    BY <2>1, <2>2 DEF IInv
<1>2. ASSUME NEW t \in Threads, NEW kind \in {"user", "daemon"}, Attach(t, kind)
      PROVE  IInv'
  BY <1>2, AttachStep
<1>3. ASSUME NEW t \in Threads, Enter(t) \/ Leave(t) \/ Lock(t) \/ Unlock(t)
      PROVE  IInv'
  BY <1>3, EnterStep, LeaveStep, LockStep, UnlockStep
<1>4. ASSUME NEW t \in Threads, NativeCall(t) \/ NativeReturn(t) PROVE IInv'
  BY <1>4, NativeCallStep, NativeReturnStep
<1>5. ASSUME NEW t \in Threads, NEW o \in Objects,
             MonitorEnter(t, o) \/ MonitorBlock(t, o) \/ MonitorExit(t, o)
      PROVE  IInv'
  BY <1>5, MonitorEnterStep, MonitorBlockStep, MonitorExitStep
<1>6. ASSUME NEW t \in Threads, Retry(t) PROVE IInv'
  BY <1>6, WaitAgainStep, WaitEndsStep, DestroyStep DEF Retry
<1>7. ASSUME NEW t \in Threads,
             Detach(t) \/ ThreadExits(t) \/ Destroy(t) \/ SpuriousWake(t)
      PROVE  IInv'
  BY <1>7, DetachStep, ThreadExitsStep, DestroyStep, SpuriousWakeStep
<1> QED
  BY <1>1, <1>2, <1>3, <1>4, <1>5, <1>6, <1>7 DEF Next

LEMMA SpecIInv ==
  Spec => []IInv
<1> QED
  BY InitIInv, NextIInv, PTL DEF Spec

-----------------------------------------------------------------------------
(* Sleepers: a step leaves them alone, wakes them all, gives the monitor   *)
(* to whoever has it already, or puts a thread to sleep for a monitor that *)
(* another has.                                                            *)

LEMMA SleepersTyped ==
  ASSUME IInv
  PROVE  /\ stage \in [Threads -> Stages]
         /\ waitsFor \in [Threads -> Objects \cup {Nothing}]
         /\ owner \in [Objects -> Threads \cup {Nobody}]
         /\ \A t \in Threads : stage[t] \in {"blocked", "woken"} => waitsFor[t] \in Objects
<1>1. TypeOK
  BY DEF IInv, MonitorsCounted
<1>2. ASSUME NEW t \in Threads, stage[t] \in {"blocked", "woken"} PROVE waitsFor[t] \in Objects
  <2>1. waitsFor[t] # Nothing
    BY <1>2 DEF IInv, ThreadSound, StageExact
  <2> QED
    BY <1>1, <2>1 DEF TypeOK
<1> QED
  BY <1>1, <1>2 DEF TypeOK

LEMMA SleepersLeft ==
  ASSUME SleepersWait, UNCHANGED <<owner, waitsFor>>,
         \A u \in Threads : stage'[u] = "blocked" => stage[u] = "blocked"
  PROVE  SleepersWait'
<1> QED
  BY DEF SleepersWait

LEMMA SleepersWoken ==
  ASSUME IInv, NEW t \in Threads, NEW next, next # "blocked", stage' = Notified(t, next)
  PROVE  SleepersWait'
<1>1. ASSUME NEW u \in Threads PROVE stage'[u] # "blocked"
  <2>1. stage'[u] = CASE u = t -> next
                      [] u # t /\ stage[u] = "blocked" -> "woken"
                      [] u # t /\ stage[u] = "destroying" -> "stirred"
                      [] OTHER -> stage[u]
    BY DEF Notified
  <2>2. CASE u = t
    BY <2>1, <2>2
  <2>3. CASE u # t /\ stage[u] = "blocked"
    BY <2>1, <2>3
  <2>4. CASE u # t /\ stage[u] = "destroying"
    BY <2>1, <2>4
  <2>5. CASE u # t /\ stage[u] # "blocked" /\ stage[u] # "destroying"
    BY <2>1, <2>5
  <2> QED
    BY <2>2, <2>3, <2>4, <2>5
<1> QED
  BY <1>1 DEF SleepersWait

LEMMA SleepersPassed ==
  ASSUME IInv, SleepersWait, NEW t \in Threads, NEW o \in Objects,
         Available(t, o), Take(t, o), stage'[t] # "blocked",
         \A u \in Threads \ {t} : stage'[u] = stage[u] /\ waitsFor'[u] = waitsFor[u]
  PROVE  SleepersWait'
<1>1. ASSUME NEW u \in Threads, stage'[u] = "blocked"
      PROVE  owner'[waitsFor'[u]] \notin {Nobody, u}
  <2>1. u # t /\ stage[u] = "blocked" /\ waitsFor'[u] = waitsFor[u]
    BY <1>1
  <2>2. waitsFor[u] \in Objects /\ owner[waitsFor[u]] \notin {Nobody, u}
    BY <2>1, SleepersTyped DEF SleepersWait
  <2>3. CASE UNCHANGED owner
    BY <2>1, <2>2, <2>3
  <2>4. CASE owner' = [owner EXCEPT ![o] = t]
    <3>1. CASE waitsFor[u] = o
      BY <2>1, <2>2, <2>4, <3>1, SleepersTyped, JniAssumption DEF Available
    <3>2. CASE waitsFor[u] # o
      BY <2>1, <2>2, <2>4, <3>2, SleepersTyped
    <3> QED
      BY <3>1, <3>2
  <2> QED
    BY <2>3, <2>4 DEF Take
<1> QED
  BY <1>1 DEF SleepersWait

LEMMA SleeperAdded ==
  ASSUME IInv, SleepersWait, NEW t \in Threads, UNCHANGED owner,
         NEW o \in Objects, ~Available(t, o),
         waitsFor' = [waitsFor EXCEPT ![t] = o],
         stage' = [stage EXCEPT ![t] = "blocked"]
  PROVE  SleepersWait'
<1>1. ASSUME NEW u \in Threads, stage'[u] = "blocked"
      PROVE  owner'[waitsFor'[u]] \notin {Nobody, u}
  <2>1. CASE u = t
    BY <2>1, SleepersTyped DEF Available
  <2>2. CASE u # t
    BY <1>1, <2>2, SleepersTyped DEF SleepersWait
  <2> QED
    BY <2>1, <2>2
<1> QED
  BY <1>1 DEF SleepersWait

LEMMA SleepersStep ==
  IInv /\ SleepersWait /\ [Next]_vars => SleepersWait'
<1> SUFFICES ASSUME IInv, SleepersWait, [Next]_vars PROVE SleepersWait'
  OBVIOUS
<1>1. CASE UNCHANGED vars
  BY <1>1, SleepersLeft DEF vars
<1>2. ASSUME NEW t \in Threads, NEW kind \in {"user", "daemon"}, Attach(t, kind)
      PROVE  SleepersWait'
  BY <1>2, SleepersLeft DEF Attach, monitors
<1>3. ASSUME NEW t \in Threads, UNCHANGED <<owner, waitsFor>>,
             UNCHANGED stage \/ (\E s : s # "blocked" /\ stage' = [stage EXCEPT ![t] = s])
      PROVE  SleepersWait'
  BY <1>3, SleepersTyped, SleepersLeft
<1>4. ASSUME NEW t \in Threads, Enter(t) \/ Leave(t) \/ Lock(t) \/ Unlock(t)
      PROVE  SleepersWait'
  <2>1. UNCHANGED <<owner, waitsFor>>
    BY <1>4 DEF Enter, Leave, Lock, Unlock, monitors
  <2>2. UNCHANGED stage \/ stage' = [stage EXCEPT ![t] = "entry"]
                        \/ stage' = [stage EXCEPT ![t] = "guest"]
    BY <1>4 DEF Enter, Leave, Lock, Unlock
  <2> QED
    BY <1>3, <2>1, <2>2
<1>5. ASSUME NEW t \in Threads, NativeCall(t) \/ NativeReturn(t) PROVE SleepersWait'
  <2>1. UNCHANGED <<owner, waitsFor>>
    BY <1>5 DEF NativeCall, NativeReturn, monitors
  <2>2. \/ stage' = [stage EXCEPT ![t] = "entry"]
        \/ stage' = [stage EXCEPT ![t] = "guest"]
    BY <1>5 DEF NativeCall, NativeReturn
  <2> QED
    BY <1>3, <2>1, <2>2
<1>6. ASSUME NEW t \in Threads, NEW o \in Objects, MonitorEnter(t, o)
      PROVE  SleepersWait'
  <2>1. UNCHANGED <<stage, waitsFor>> /\ stage[t] # "blocked"
    BY <1>6 DEF MonitorEnter, MayEnter
  <2> QED
    BY <1>6, <2>1, SleepersPassed DEF MonitorEnter
<1>7. ASSUME NEW t \in Threads, NEW o \in Objects, MonitorBlock(t, o)
      PROVE  SleepersWait'
  BY <1>7, SleeperAdded DEF MonitorBlock
<1>8. ASSUME NEW t \in Threads, NEW o \in Objects, MonitorExit(t, o)
      PROVE  SleepersWait'
  BY <1>8, SleepersWoken, SleepersLeft DEF MonitorExit
<1>9. ASSUME NEW t \in Threads, MonitorRetry(t) PROVE SleepersWait'
  <2> DEFINE o == waitsFor[t]
  <2>1. o \in Objects
    BY <1>9, SleepersTyped DEF MonitorRetry
  <2>2. CASE ~destroyed /\ ~Available(t, o)
    <3>1. UNCHANGED <<owner, waitsFor>> /\ stage' = [stage EXCEPT ![t] = "blocked"]
      BY <1>9, <2>2 DEF MonitorRetry, monitors
    <3>2. waitsFor' = [waitsFor EXCEPT ![t] = o]
      BY <3>1, SleepersTyped
    <3> QED
      BY <2>1, <2>2, <3>1, <3>2, SleeperAdded
  <2>3. CASE destroyed \/ Available(t, o)
    <3>1. /\ stage' = [stage EXCEPT ![t] = "entry"]
          /\ waitsFor' = [waitsFor EXCEPT ![t] = Nothing]
          /\ IF destroyed THEN UNCHANGED <<owner, entered>> ELSE Take(t, o)
      BY <1>9, <2>3 DEF MonitorRetry
    <3>2. /\ stage'[t] # "blocked"
          /\ \A u \in Threads \ {t} : stage'[u] = stage[u] /\ waitsFor'[u] = waitsFor[u]
      BY <3>1, SleepersTyped
    <3>3. CASE destroyed
      BY <3>1, <3>2, <3>3 DEF SleepersWait
    <3>4. CASE ~destroyed
      BY <2>1, <2>3, <3>1, <3>2, <3>4, SleepersPassed
    <3> QED
      BY <3>3, <3>4
  <2> QED
    BY <2>2, <2>3
<1>10. ASSUME NEW t \in Threads, DestroyRetry(t) \/ Destroy(t) PROVE SleepersWait'
  <2>1. UNCHANGED <<owner, waitsFor>>
    BY <1>10 DEF DestroyRetry, Destroy, monitors
  <2>2. \/ stage' = [stage EXCEPT ![t] = "parted"]
        \/ stage' = [stage EXCEPT ![t] = "destroying"]
    BY <1>10 DEF DestroyRetry, Destroy, Doom, Await
  <2> QED
    BY <1>3, <2>1, <2>2
<1>11. ASSUME NEW t \in Threads, Detach(t) PROVE SleepersWait'
  BY <1>11, SleepersWoken DEF Detach, Remove
<1>12. ASSUME NEW t \in Threads, ThreadExits(t) PROVE SleepersWait'
  <2>1. CASE attached[t] # "no"
    BY <1>12, <2>1, SleepersWoken DEF ThreadExits, Remove
  <2>2. CASE attached[t] = "no"
    <3>1. UNCHANGED <<owner, waitsFor>> /\ stage' = [stage EXCEPT ![t] = "gone"]
      BY <1>12, <2>2 DEF ThreadExits, monitors
    <3> QED
      BY <1>3, <3>1
  <2> QED
    BY <2>1, <2>2
<1>13. ASSUME NEW t \in Threads, SpuriousWake(t) PROVE SleepersWait'
  <2>1. UNCHANGED <<owner, waitsFor>>
    BY <1>13 DEF SpuriousWake, monitors
  <2>2. \/ stage' = [stage EXCEPT ![t] = "woken"]
        \/ stage' = [stage EXCEPT ![t] = "stirred"]
    BY <1>13 DEF SpuriousWake
  <2> QED
    BY <1>3, <2>1, <2>2
<1> QED
  BY <1>1, <1>2, <1>4, <1>5, <1>6, <1>7, <1>8, <1>9, <1>10, <1>11, <1>12, <1>13
     DEF Next, Retry

(* Every monitor belongs to an attached thread or is free, its count of    *)
(* waiters is the number of threads that wait for it, and who sleeps for   *)
(* it sleeps while another has it, whatever exits, detaches and ends of    *)
(* the VM come between (jni_entry_monitor_enter, jni_thread_notify).       *)
THEOREM MonitorsStayExact ==
  Spec => []MonitorsExact
<1>1. Init => SleepersWait
  BY DEF Init, SleepersWait
<1>2. IInv /\ SleepersWait => MonitorsExact
  BY DEF IInv, MonitorsExact
<1> QED
  BY <1>1, <1>2, SpecIInv, SleepersStep, PTL DEF Spec

(* __remove_thread releases the heap with the last thread of a destroyed   *)
(* VM and never under a thread that is in the runtime or waits.            *)
THEOREM HeapStays ==
  Spec => []HeapOutlivesThreads
<1>1. IInv => HeapOutlivesThreads
  BY DEF IInv
<1> QED
  BY <1>1, SpecIInv, PTL

(* jni_thread_leave collects only where the thread is in no other entry    *)
(* since its last native boundary: its active calls are those entries and  *)
(* the depths it suspended, and inside the lock of a service it leaves     *)
(* with a depth above one, so that only its last active call collects.     *)
THEOREM CollectionsAtBoundary ==
  Spec => CollectsAtBoundary
<1>1. ASSUME IInv, NEW t \in Threads, Leave(t), LeaveCollects(t)
      PROVE  Entries(t) = 1
  <2>1. /\ depth[t] \in Nat /\ calls[t] \in Nat /\ section[t] \in Nat
        /\ calls[t] - Entries(t) \in Nat
        /\ Entries(t) = IF section[t] > 0 THEN depth[t] - 1 ELSE depth[t]
    BY <1>1, Facts
  <2>2. depth[t] > section[t]
    BY <1>1 DEF Leave
  <2>3. Entries(t) >= 1
    BY <2>1, <2>2
  <2>4. CASE calls[t] = 1
    BY <2>1, <2>3, <2>4
  <2>5. CASE depth[t] = 1
    BY <2>1, <2>2, <2>5
  <2> QED
    BY <1>1, <2>4, <2>5 DEF LeaveCollects
<1>2. IInv => \A t \in Threads : Leave(t) /\ LeaveCollects(t) => Entries(t) = 1
  BY <1>1
<1> QED
  BY <1>2, SpecIInv, PTL DEF CollectsAtBoundary

(* DestroyJavaVM ends the VM only when no other user thread is left, and   *)
(* while it waits jni_thread_attach lets nobody in.                        *)
THEOREM DestroyWaitsForUsers ==
  Spec => DestroyWaits
<1> DEFINE Dies ==
      ~destroyed /\ destroyed'
        => \A t \in Threads : attached[t] = "user" => stage'[t] = "parted"
    Joins ==
      destroyer # Nobody
        => \A t \in Threads : attached'[t] # "no" => attached[t] # "no"
<1>1. ASSUME TypeOK, NEW t \in Threads, UNCHANGED attached, Doom(t) \/ Await(t)
      PROVE  Dies /\ Joins
  <2>1. Joins
    BY <1>1
  <2>2. CASE Await(t)
    BY <2>1, <2>2 DEF Await
  <2>3. CASE Doom(t)
    <3>1. stage'[t] = "parted"
      BY <1>1, <2>3 DEF Doom, TypeOK
    <3>2. \A u \in Threads : attached[u] = "user" => u = t
      BY <2>3 DEF Doom, OtherUsers
    <3> QED
      BY <2>1, <3>1, <3>2
  <2> QED
    BY <1>1, <2>2, <2>3
<1>2. ASSUME TypeOK, UNCHANGED <<attached, destroyed>> PROVE Dies /\ Joins
  BY <1>2
<1>3. ASSUME TypeOK, NEW t \in Threads, RemoveRecord(t) PROVE Dies /\ Joins
  BY <1>3 DEF RemoveRecord, TypeOK
<1>4. ASSUME NEW t \in Threads, NEW kind \in {"user", "daemon"}, Attach(t, kind)
      PROVE  Dies /\ Joins
  BY <1>4 DEF Attach, vm
<1>5. ASSUME TypeOK, NEW t \in Threads,
             \/ Enter(t) \/ Leave(t) \/ Lock(t) \/ Unlock(t) \/ NativeCall(t) \/ NativeReturn(t)
             \/ MonitorRetry(t) \/ SpuriousWake(t)
             \/ \E o \in Objects :
                  MonitorEnter(t, o) \/ MonitorBlock(t, o) \/ MonitorExit(t, o)
      PROVE  Dies /\ Joins
  <2>1. UNCHANGED <<attached, destroyed>>
    BY <1>5 DEF Enter, Leave, Lock, Unlock, NativeCall, NativeReturn, MonitorRetry, SpuriousWake,
                MonitorEnter, MonitorBlock, MonitorExit, records, vm
  <2> QED
    BY <1>2, <1>5, <2>1
<1>6. ASSUME TypeOK, NEW t \in Threads,
             Detach(t) \/ ThreadExits(t) \/ Destroy(t) \/ DestroyRetry(t)
      PROVE  Dies /\ Joins
  <2>1. \/ RemoveRecord(t)
        \/ UNCHANGED attached /\ (Doom(t) \/ Await(t))
        \/ UNCHANGED <<attached, destroyed>>
    BY <1>6 DEF Detach, ThreadExits, Destroy, DestroyRetry, Remove, records, vm
  <2> QED
    BY <1>1, <1>2, <1>3, <1>6, <2>1
<1>7. TypeOK /\ [Next]_vars => Dies /\ Joins
  <2> SUFFICES ASSUME TypeOK, [Next]_vars PROVE Dies /\ Joins
    OBVIOUS
  <2>1. CASE UNCHANGED vars
    BY <1>2, <2>1 DEF vars
  <2>2. CASE Next
    <3> HIDE DEF Dies, Joins
    <3> QED
      BY <1>4, <1>5, <1>6, <2>2 DEF Next, Retry
  <2> QED
    BY <2>1, <2>2
<1>8. IInv => TypeOK
  BY DEF IInv, MonitorsCounted
<1>9. TypeOK /\ [Next]_vars
        => [/\ ~destroyed /\ destroyed'
                 => \A t \in Threads : attached[t] = "user" => stage'[t] = "parted"
            /\ destroyer # Nobody
                 => \A t \in Threads : attached'[t] # "no" => attached[t] # "no"]_vars
  BY <1>7
<1> QED
  BY <1>8, <1>9, SpecIInv, PTL DEF Spec, DestroyWaits
=============================================================================
