------------------------------ MODULE OnceProofs ------------------------------
(***************************************************************************)
(* Proofs about Once for any finite set of threads, any controls and any   *)
(* nesting of their initialisers.                                          *)
(*                                                                         *)
(* IInv is inductive.  It adds to TableExact that a thread has a control   *)
(* exactly while it is in a call, and that no thread is twice inside one   *)
(* initialiser: leaving it once then leaves it altogether.                 *)
(***************************************************************************)
EXTENDS Once, CountingLemmas, SequenceTheorems

CallStages == {"slow", "waiting", "woken"}

(* A thread has a control exactly while it is in a call.                   *)
HasArg(t) == arg[t] # NoControl <=> stage[t] \in CallStages

(* It is in every initialiser once.                                        *)
NoRepeat(t) ==
  \A i, j \in 1..Len(stack[t]) : stack[t][i] = stack[t][j] => i = j

IInv == TableExact /\ \A t \in Threads : HasArg(t) /\ NoRepeat(t)

-----------------------------------------------------------------------------
(* Stacks. *)

Elements(s) == {s[i] : i \in 1..Len(s)}

LEMMA Pushed ==
  ASSUME NEW s \in Seq(Controls), NEW c \in Controls
  PROVE  /\ <<c>> \o s \in Seq(Controls)
         /\ Elements(<<c>> \o s) = Elements(s) \cup {c}
         /\ /\ c \notin Elements(s)
            /\ \A i, j \in 1..Len(s) : s[i] = s[j] => i = j
            => \A i, j \in 1..Len(<<c>> \o s) :
                 (<<c>> \o s)[i] = (<<c>> \o s)[j] => i = j
<1> DEFINE p == <<c>> \o s
<1>1. /\ p \in Seq(Controls)
      /\ Len(p) = Len(s) + 1
      /\ \A i \in 1..Len(s) + 1 : p[i] = IF i = 1 THEN c ELSE s[i - 1]
  OBVIOUS
<1>2. Len(s) \in Nat
  OBVIOUS
<1> HIDE DEF p
<1>3. Elements(p) = Elements(s) \cup {c}
  <2>1. \A x \in Elements(p) : x \in Elements(s) \cup {c}
    BY <1>1, <1>2 DEF Elements
  <2>2. c \in Elements(p)
    BY <1>1, <1>2 DEF Elements
  <2>3. ASSUME NEW i \in 1..Len(s) PROVE s[i] \in Elements(p)
    <3>1. i + 1 \in 1..Len(p) /\ p[i + 1] = s[i]
      BY <1>1, <1>2
    <3> QED
      BY <3>1 DEF Elements
  <2>4. ASSUME NEW x \in Elements(s) PROVE x \in Elements(p)
    <3>1. PICK i \in 1..Len(s) : x = s[i]
      BY DEF Elements
    <3> QED
      BY <2>3, <3>1
  <2> QED
    BY <2>1, <2>2, <2>4
<1>4. ASSUME c \notin Elements(s),
             \A i, j \in 1..Len(s) : s[i] = s[j] => i = j,
             NEW i \in 1..Len(p), NEW j \in 1..Len(p), p[i] = p[j]
      PROVE  i = j
  <2>1. \A k \in 1..Len(s) : s[k] # c
    BY <1>4 DEF Elements
  <2>2. i \in 1..Len(s) + 1 /\ j \in 1..Len(s) + 1
    BY <1>1
  <2>3. i # 1 => i - 1 \in 1..Len(s) /\ p[i] = s[i - 1]
    BY <1>1, <1>2, <2>2
  <2>4. j # 1 => j - 1 \in 1..Len(s) /\ p[j] = s[j - 1]
    BY <1>1, <1>2, <2>2
  <2>5. i = 1 \/ j = 1 => i = j
    BY <1>1, <1>4, <2>1, <2>2, <2>3, <2>4
  <2>6. i # 1 /\ j # 1 => i - 1 = j - 1
    BY <1>4, <2>3, <2>4
  <2> QED
    BY <1>2, <2>2, <2>5, <2>6
<1> QED
  BY <1>1, <1>3, <1>4 DEF p

LEMMA Popped ==
  ASSUME NEW s \in Seq(Controls), s # <<>>,
         \A i, j \in 1..Len(s) : s[i] = s[j] => i = j
  PROVE  /\ Head(s) \in Elements(s) /\ Head(s) \in Controls
         /\ Tail(s) \in Seq(Controls)
         /\ Elements(Tail(s)) = Elements(s) \ {Head(s)}
         /\ \A i, j \in 1..Len(Tail(s)) : Tail(s)[i] = Tail(s)[j] => i = j
<1> DEFINE r == Tail(s)
<1>1. /\ r \in Seq(Controls) /\ Len(r) = Len(s) - 1
      /\ \A i \in 1..Len(r) : r[i] = s[i + 1]
  BY HeadTailProperties
<1>2. Len(s) \in Nat /\ Len(s) > 0 /\ Head(s) = s[1] /\ Head(s) \in Controls
  OBVIOUS
<1> HIDE DEF r
<1>3. Elements(r) = Elements(s) \ {s[1]}
  <2>1. \A i \in 1..Len(r) : i + 1 \in 1..Len(s) /\ i + 1 # 1
    BY <1>1, <1>2
  <2>2. Elements(r) \subseteq Elements(s) \ {s[1]}
    BY <1>1, <1>2, <2>1 DEF Elements
  <2>3. ASSUME NEW i \in 1..Len(s), s[i] # s[1] PROVE s[i] \in Elements(r)
    <3>1. i - 1 \in 1..Len(r) /\ r[i - 1] = s[i]
      BY <1>1, <1>2, <2>3
    <3> QED
      BY <3>1 DEF Elements
  <2>4. ASSUME NEW x \in Elements(s), x # s[1] PROVE x \in Elements(r)
    <3>1. PICK i \in 1..Len(s) : x = s[i]
      BY DEF Elements
    <3> QED
      BY <2>3, <2>4, <3>1
  <2> QED
    BY <2>2, <2>4
<1>4. ASSUME NEW i \in 1..Len(r), NEW j \in 1..Len(r), r[i] = r[j]
      PROVE  i = j
  BY <1>1, <1>2, <1>4
<1>5. s[1] \in Elements(s)
  BY <1>2 DEF Elements
<1>6. Head(s) = s[1] /\ Head(s) \in Elements(s) /\ Elements(r) = Elements(s) \ {Head(s)}
  BY <1>2, <1>3, <1>5
<1>7. \A i, j \in 1..Len(r) : r[i] = r[j] => i = j
  BY <1>4
<1> QED
  BY <1>1, <1>2, <1>6, <1>7 DEF r

-----------------------------------------------------------------------------
(* One step. *)

Flag(c) == IF control[c] = "running" THEN 1 ELSE 0

(* The other threads stay in their calls and initialisers: at most, those  *)
(* that wait are woken.                                                    *)
OnlyMoves(t) ==
  \A u \in Threads \ {t} :
    /\ arg'[u] = arg[u] /\ stack'[u] = stack[u]
    /\ stage'[u] = stage[u] \/ (stage[u] = "waiting" /\ stage'[u] = "woken")

(* The entry of c accounts for what t does, and the word and its flag for  *)
(* whether t is in the initialiser.                                        *)
Accounts(t, c) ==
  /\ users'[c] = users[c] + (In(t, Waiting(c))' - In(t, Waiting(c)))
                          + (In(t, Runners(c))' - In(t, Runners(c)))
  /\ entry'[c] <=> users'[c] > 0
  /\ In(t, Runners(c))' - In(t, Runners(c)) = Flag(c)' - Flag(c)
  /\ running'[c] <=> control'[c] = "running"

(* What the invariant says of one control, apart from cardinalities.       *)
LEMMA Facts ==
  ASSUME IInv, NEW t \in Threads, NEW c \in Controls
  PROVE  /\ users[c] \in Nat /\ (entry[c] <=> users[c] > 0)
         /\ running[c] <=> control[c] = "running"
         /\ running[c] => entry[c]
         /\ t \in Waiting(c) => users[c] > 0
         /\ t \in Runners(c) => control[c] = "running" /\ users[c] > 0
         /\ t \in Waiters => waiters > 0
<1>1. /\ Waiters \in SUBSET Threads /\ Waiting(c) \in SUBSET Threads
      /\ Runners(c) \in SUBSET Threads
  BY DEF Waiters, Waiting, Runners
<1>2. /\ Cardinality(Waiters) \in Nat /\ (Cardinality(Waiters) = 0 <=> Waiters = {})
      /\ Cardinality(Waiting(c)) \in Nat /\ (Cardinality(Waiting(c)) = 0 <=> Waiting(c) = {})
      /\ Cardinality(Runners(c)) \in Nat /\ (Cardinality(Runners(c)) = 0 <=> Runners(c) = {})
  BY <1>1, CountEmpty, OnceAssumption
<1>3. /\ waiters = Cardinality(Waiters)
      /\ users[c] = Cardinality(Waiting(c)) + Cardinality(Runners(c))
      /\ entry[c] <=> users[c] > 0
      /\ Cardinality(Runners(c)) = IF control[c] = "running" THEN 1 ELSE 0
      /\ running[c] <=> control[c] = "running"
      /\ running[c] => entry[c]
  BY DEF IInv, TableExact, RunningAgrees, CountersExact
<1> QED
  BY <1>2, <1>3

(* A step of t preserves IInv if it accounts for itself.                   *)
LEMMA OneStep ==
  ASSUME IInv, TypeOK', NEW t \in Threads, OnlyMoves(t),
         HasArg(t)', NoRepeat(t)',
         waiters' = waiters + (In(t, Waiters)' - In(t, Waiters)),
         \A c \in Controls : Accounts(t, c)
  PROVE  IInv'
<1>1. Waiters \ {t} = Waiters' \ {t}
  BY DEF OnlyMoves, Waiters
<1>2. waiters' = Cardinality(Waiters')
  <2>1. Swaps(t, Waiters, Waiters')
    BY <1>1, CountExchange, OnceAssumption DEF Waiters
  <2>2. waiters = Cardinality(Waiters)
    BY DEF IInv, TableExact, CountersExact
  <2> QED
    BY <2>1, <2>2 DEF Swaps
<1>3. ASSUME NEW c \in Controls
      PROVE  /\ users'[c] = Cardinality(Waiting(c)') + Cardinality(Runners(c)')
             /\ Cardinality(Runners(c)') = Flag(c)'
             /\ entry'[c] <=> users'[c] > 0
             /\ running'[c] <=> control'[c] = "running"
             /\ running'[c] => entry'[c]
  <2>1. Swaps(t, Waiting(c), Waiting(c)')
    <3>1. Waiting(c) \ {t} = Waiting(c)' \ {t}
      BY <1>1 DEF OnlyMoves, Waiting, Waiters
    <3> QED
      BY <3>1, CountExchange, OnceAssumption DEF Waiting, Waiters
  <2>2. Swaps(t, Runners(c), Runners(c)')
    <3>1. Runners(c) \ {t} = Runners(c)' \ {t}
      BY DEF OnlyMoves, Runners, Inside
    <3> QED
      BY <3>1, CountExchange, OnceAssumption DEF Runners
  <2>3. /\ users[c] = Cardinality(Waiting(c)) + Cardinality(Runners(c))
        /\ Cardinality(Runners(c)) = Flag(c)
    BY DEF IInv, TableExact, RunningAgrees, CountersExact, Flag
  <2>4. /\ users'[c] = Cardinality(Waiting(c)') + Cardinality(Runners(c)')
        /\ Cardinality(Runners(c)') = Flag(c)'
    <3>1. Accounts(t, c)
      OBVIOUS
    <3>2. Flag(c) \in Nat /\ Flag(c)' \in Nat
      BY DEF Flag
    <3> QED
      BY <2>1, <2>2, <2>3, <3>1, <3>2 DEF Swaps, Accounts
  <2>5. /\ entry'[c] <=> users'[c] > 0
        /\ running'[c] <=> control'[c] = "running"
    BY DEF Accounts
  <2>6. running'[c] => entry'[c]
    BY <2>1, <2>4, <2>5 DEF Flag, Swaps
  <2> QED
    BY <2>4, <2>5, <2>6
<1>4. RunningAgrees' /\ CountersExact'
  BY <1>2, <1>3 DEF RunningAgrees, CountersExact, Flag
<1>5. \A u \in Threads : HasArg(u)' /\ NoRepeat(u)'
  BY DEF IInv, HasArg, NoRepeat, OnlyMoves, CallStages
<1> QED
  BY <1>4, <1>5 DEF IInv, TableExact

(* The counts t is part of, by its stage, control and stack.               *)
LEMMA Part ==
  ASSUME NEW t \in Threads
  PROVE  /\ In(t, Waiters) = IF stage[t] \in {"waiting", "woken"} THEN 1 ELSE 0
         /\ In(t, Waiters)' = IF stage'[t] \in {"waiting", "woken"} THEN 1 ELSE 0
         /\ \A c \in Controls :
              /\ In(t, Waiting(c)) = IF stage[t] \in {"waiting", "woken"} /\ arg[t] = c THEN 1 ELSE 0
              /\ In(t, Waiting(c))' = IF stage'[t] \in {"waiting", "woken"} /\ arg'[t] = c THEN 1 ELSE 0
              /\ In(t, Runners(c)) = IF c \in Elements(stack[t]) THEN 1 ELSE 0
              /\ In(t, Runners(c))' = IF c \in Elements(stack'[t]) THEN 1 ELSE 0
BY DEF In, Waiters, Waiting, Runners, Inside, Elements

(* A step that leaves every stack, control and entry alone accounts for    *)
(* itself if t was not waiting and does not begin to.                      *)
LEMMA QuietStep ==
  ASSUME IInv, TypeOK', NEW t \in Threads, OnlyMoves(t), HasArg(t)',
         UNCHANGED <<control, entry, running, users, waiters, stack>>,
         (stage'[t] \in {"waiting", "woken"}) <=> (stage[t] \in {"waiting", "woken"}),
         stage[t] \in {"waiting", "woken"} => arg'[t] = arg[t]
  PROVE  IInv'
<1>1. NoRepeat(t)'
  BY DEF IInv, NoRepeat
<1>2. waiters' = waiters + (In(t, Waiters)' - In(t, Waiters))
  BY Part DEF IInv, TableExact, TypeOK
<1>3. ASSUME NEW c \in Controls PROVE Accounts(t, c)
  <2>1. /\ In(t, Waiting(c))' = In(t, Waiting(c)) /\ In(t, Waiting(c)) \in {0, 1}
        /\ In(t, Runners(c))' = In(t, Runners(c)) /\ In(t, Runners(c)) \in {0, 1}
    BY Part
  <2>2. Flag(c)' = Flag(c) /\ Flag(c) \in {0, 1}
    BY DEF Flag
  <2> QED
    BY <2>1, <2>2, Facts DEF Accounts
<1> QED
  BY <1>1, <1>2, <1>3, OneStep

LEMMA CallStep ==
  ASSUME IInv, NEW t \in Threads, NEW c \in Controls, Call(t, c)
  PROVE  IInv'
<1>1. TypeOK'
  <2>1. TypeOK /\ <<t, c>> \in Threads \X Controls
    BY DEF IInv, TableExact
  <2>2. UNCHANGED <<control, entry, running, users, waiters, stack>>
    BY DEF Call
  <2>3. stage' \in [Threads -> Stages] /\ arg' \in [Threads -> Controls \cup {NoControl}]
    BY <2>1 DEF TypeOK, Call, Stages
  <2>4. got' \in SUBSET (Threads \X Controls)
    <3>1. got' = got \/ got' = got \cup {<<t, c>>}
      BY DEF Call
    <3> QED
      BY <2>1, <3>1 DEF TypeOK
  <2> QED
    BY <2>1, <2>2, <2>3, <2>4 DEF TypeOK
<1> USE DEF Call, IInv, TableExact, HasArg
<1>2. OnlyMoves(t) /\ HasArg(t)'
  BY OnceAssumption DEF TypeOK, OnlyMoves, CallStages
<1>3. stage[t] \notin {"waiting", "woken"} /\ stage'[t] \notin {"waiting", "woken"}
  BY DEF TypeOK
<1> QED
  BY <1>1, <1>2, <1>3, QuietStep

LEMMA SlowReturnsStep ==
  ASSUME IInv, NEW t \in Threads, SlowDone(t) \/ SlowFails(t)
  PROVE  IInv'
<1> USE DEF SlowDone, SlowFails, Back, IInv, TableExact, HasArg
<1>1. arg[t] \in Controls
  BY DEF TypeOK, CallStages
<1>2. TypeOK'
  <2>1. TypeOK /\ <<t, arg[t]>> \in Threads \X Controls
    BY <1>1
  <2>2. UNCHANGED <<control, entry, running, users, waiters, stack>>
    OBVIOUS
  <2>3. stage' \in [Threads -> Stages] /\ arg' \in [Threads -> Controls \cup {NoControl}]
    BY <2>1 DEF TypeOK, Stages
  <2>4. got' \in SUBSET (Threads \X Controls)
    <3>1. got' = got \/ got' = got \cup {<<t, arg[t]>>}
      OBVIOUS
    <3> QED
      BY <2>1, <3>1 DEF TypeOK
  <2> QED
    BY <2>1, <2>2, <2>3, <2>4 DEF TypeOK
<1>3. OnlyMoves(t) /\ HasArg(t)'
  BY DEF TypeOK, OnlyMoves, CallStages
<1>4. stage[t] \notin {"waiting", "woken"} /\ stage'[t] \notin {"waiting", "woken"}
  BY DEF TypeOK
<1> QED
  BY <1>2, <1>3, <1>4, QuietStep

LEMMA RewaitStep ==
  ASSUME IInv, NEW t \in Threads, WokenAgain(t) \/ SpuriousWake(t)
  PROVE  IInv'
<1> USE DEF WokenAgain, SpuriousWake, IInv, TableExact, HasArg
<1>1. TypeOK'
  BY DEF TypeOK, Stages
<1>2. OnlyMoves(t) /\ HasArg(t)'
  BY DEF TypeOK, OnlyMoves, CallStages
<1>3. stage[t] \in {"waiting", "woken"} /\ stage'[t] \in {"waiting", "woken"}
  BY DEF TypeOK
<1> QED
  BY <1>1, <1>2, <1>3, QuietStep

LEMMA ExitStep ==
  ASSUME IInv, NEW t \in Threads, ThreadExits(t) \/ ThreadGone(t)
  PROVE  IInv'
<1> USE DEF ThreadExits, ThreadGone, IInv, TableExact, HasArg
<1>1. TypeOK'
  BY DEF TypeOK, Stages
<1>2. OnlyMoves(t) /\ HasArg(t)'
  BY DEF TypeOK, OnlyMoves, CallStages
<1>3. stage[t] \notin {"waiting", "woken"} /\ stage'[t] \notin {"waiting", "woken"}
  BY DEF TypeOK
<1> QED
  BY <1>1, <1>2, <1>3, QuietStep

(* A caller begins to wait.                                                *)
LEMMA SlowWaitStep ==
  ASSUME IInv, NEW t \in Threads, SlowWait(t)
  PROVE  IInv'
<1> USE DEF SlowWait, IInv, TableExact, HasArg
<1>1. arg[t] \in Controls /\ stage[t] = "slow" /\ stage'[t] = "waiting" /\ arg' = arg
  BY DEF TypeOK, CallStages
<1>2. TypeOK'
  BY <1>1 DEF TypeOK, Stages
<1>3. OnlyMoves(t) /\ HasArg(t)' /\ NoRepeat(t)'
  BY DEF TypeOK, OnlyMoves, CallStages, NoRepeat
<1>4. waiters' = waiters + (In(t, Waiters)' - In(t, Waiters))
  <2>1. In(t, Waiters)' = 1 /\ In(t, Waiters) = 0
    BY <1>1, Part
  <2>2. waiters' = waiters + 1 /\ waiters \in Nat
    BY DEF TypeOK
  <2> QED
    BY <2>1, <2>2
<1>5. ASSUME NEW c \in Controls PROVE Accounts(t, c)
  <2>1. /\ In(t, Waiting(c)) = 0 /\ In(t, Waiting(c))' = IF c = arg[t] THEN 1 ELSE 0
        /\ In(t, Runners(c))' = In(t, Runners(c)) /\ In(t, Runners(c)) \in {0, 1}
    BY <1>1, Part
  <2>2. Flag(c)' = Flag(c) /\ Flag(c) \in {0, 1}
    BY DEF Flag
  <2>3. users'[c] = IF c = arg[t] THEN users[c] + 1 ELSE users[c]
    BY <1>1 DEF TypeOK
  <2>4. entry[arg[t]]
    OBVIOUS
  <2> QED
    BY <2>1, <2>2, <2>3, <2>4, Facts DEF Accounts
<1> QED
  BY <1>2, <1>3, <1>4, <1>5, OneStep

(* A waiter leaves the wait without the initialiser: its control is done,  *)
(* the native wait failed, or it was cancelled.                            *)
LEMMA UnwaitStep ==
  ASSUME IInv, TypeOK', NEW t \in Threads,
         stage[t] \in {"waiting", "woken"},
         waiters' = waiters - 1, Release(arg[t]),
         UNCHANGED <<control, running, stack>>,
         OnlyMoves(t), arg'[t] = NoControl, stage'[t] \in {"guest", "exiting"}
  PROVE  IInv'
<1> DEFINE c == arg[t]
<1>1. c \in Controls
  BY DEF IInv, TableExact, TypeOK, HasArg, CallStages
<1>2. HasArg(t)' /\ NoRepeat(t)'
  BY DEF IInv, HasArg, NoRepeat, CallStages
<1>3. waiters' = waiters + (In(t, Waiters)' - In(t, Waiters))
  <2>1. In(t, Waiters)' = 0 /\ In(t, Waiters) = 1
    BY Part
  <2>2. waiters' = waiters - 1 /\ waiters \in Nat
    BY DEF IInv, TableExact, TypeOK
  <2> QED
    BY <2>1, <2>2
<1>4. ASSUME NEW d \in Controls PROVE Accounts(t, d)
  <2>1. /\ In(t, Waiting(d)) = IF d = c THEN 1 ELSE 0
        /\ In(t, Waiting(d))' = 0
        /\ In(t, Runners(d))' = In(t, Runners(d)) /\ In(t, Runners(d)) \in {0, 1}
    BY Part
  <2>2. Flag(d)' = Flag(d) /\ Flag(d) \in {0, 1}
    BY DEF Flag
  <2>3. /\ users'[d] = IF d = c THEN users[d] - 1 ELSE users[d]
        /\ entry'[d] = IF d = c THEN users[d] # 1 ELSE entry[d]
    BY <1>1 DEF Release, IInv, TableExact, TypeOK
  <2>4. /\ users[d] \in Nat /\ (entry[d] <=> users[d] > 0)
        /\ d = c => users[d] > 0
        /\ running[d] <=> control[d] = "running"
    BY <1>1, Facts DEF Waiting, Waiters
  <2>5. running'[d] <=> control'[d] = "running"
    BY <2>4
  <2>6. entry'[d] <=> users'[d] > 0
    <3>1. CASE d = c
      <4>1. entry'[d] <=> users[d] # 1
        BY <2>3, <3>1
      <4>2. users'[d] = users[d] - 1
        BY <2>3, <3>1
      <4>3. users[d] # 1 <=> users'[d] > 0
        BY <2>4, <3>1, <4>2
      <4> QED
        BY <4>1, <4>3
    <3>2. CASE d # c
      <4>1. entry'[d] = entry[d] /\ users'[d] = users[d]
        BY <2>3, <3>2
      <4> QED
        BY <2>4, <4>1
    <3> QED
      BY <3>1, <3>2
  <2>7. users'[d] = users[d] + (In(t, Waiting(d))' - In(t, Waiting(d)))
                             + (In(t, Runners(d))' - In(t, Runners(d)))
    BY <2>1, <2>3, <2>4
  <2>8. In(t, Runners(d))' - In(t, Runners(d)) = Flag(d)' - Flag(d)
    BY <2>1, <2>2
  <2> QED
    BY <2>5, <2>6, <2>7, <2>8 DEF Accounts
<1> QED
  BY <1>2, <1>3, <1>4, OneStep

(* Giving an entry back keeps the counters in their types.                 *)
LEMMA ReleaseTypes ==
  ASSUME TypeOK, NEW c \in Controls, users[c] > 0, Release(c)
  PROVE  users' \in [Controls -> Nat] /\ entry' \in [Controls -> BOOLEAN]
BY DEF TypeOK, Release

LEMMA WaiterLeavesStep ==
  ASSUME IInv, NEW t \in Threads, WokenDone(t) \/ WaitFails(t) \/ WaiterExited(t)
  PROVE  IInv'
<1> USE DEF WokenDone, WaitFails, WaiterExited, Back
<1>1. TypeOK /\ stage[t] \in {"waiting", "woken"} /\ arg[t] \in Controls
  BY DEF IInv, TableExact, TypeOK, HasArg, CallStages
<1>2. users[arg[t]] > 0 /\ waiters \in Nat /\ waiters > 0
  BY <1>1, Facts DEF Waiting, Waiters, TypeOK
<1>3. Release(arg[t]) /\ waiters' = waiters - 1 /\ UNCHANGED <<control, running, stack>>
  OBVIOUS
<1>4. users' \in [Controls -> Nat] /\ entry' \in [Controls -> BOOLEAN]
  BY <1>1, <1>2, <1>3, ReleaseTypes
<1>5. \E s \in {"guest", "exiting"} :
         stage' = [stage EXCEPT ![t] = s] /\ arg' = [arg EXCEPT ![t] = NoControl]
  OBVIOUS
<1>6. got' \in SUBSET (Threads \X Controls)
  BY <1>1 DEF TypeOK
<1>7. TypeOK'
  BY <1>1, <1>2, <1>3, <1>4, <1>5, <1>6 DEF TypeOK, Stages
<1>8. OnlyMoves(t) /\ arg'[t] = NoControl /\ stage'[t] \in {"guest", "exiting"}
  BY <1>1, <1>3, <1>5 DEF TypeOK, OnlyMoves
<1> QED
  BY <1>1, <1>3, <1>7, <1>8, UnwaitStep

(* A caller becomes the runner, from the slow path or from the wait.       *)
LEMMA StartStep ==
  ASSUME IInv, NEW t \in Threads, SlowStart(t) \/ WokenStart(t)
  PROVE  IInv'
<1> DEFINE c == arg[t]
<1>1. /\ TypeOK /\ c \in Controls
      /\ SlowStart(t) => stage[t] = "slow"
      /\ WokenStart(t) => stage[t] = "woken"
  BY DEF IInv, TableExact, TypeOK, HasArg, CallStages, SlowStart, WokenStart
<1>2. ~running[c] /\ Start(t, c)
  BY DEF SlowStart, WokenStart
<1>3. c \notin Elements(stack[t])
  <2>1. t \notin Runners(c)
    BY <1>1, <1>2, Facts
  <2> QED
    BY <2>1 DEF Runners, Inside, Elements
<1>4. stack[t] \in Seq(Controls) /\ NoRepeat(t)
  BY <1>1 DEF IInv, TypeOK
<1>5. /\ running' = [running EXCEPT ![c] = TRUE]
      /\ control' = [control EXCEPT ![c] = "running"]
      /\ stack' = [stack EXCEPT ![t] = <<c>> \o stack[t]]
      /\ stage' = [stage EXCEPT ![t] = "guest"]
      /\ arg' = [arg EXCEPT ![t] = NoControl]
      /\ stack'[t] = <<c>> \o stack[t]
  BY <1>1, <1>2 DEF Start, Back, TypeOK
<1>6. /\ stack'[t] \in Seq(Controls) /\ NoRepeat(t)'
      /\ Elements(stack'[t]) = Elements(stack[t]) \cup {c}
  <2> DEFINE old == stack[t]
             new == <<c>> \o old
  <2>1. old \in Seq(Controls) /\ c \notin Elements(old)
        /\ \A i, j \in 1..Len(old) : old[i] = old[j] => i = j
    BY <1>3, <1>4 DEF NoRepeat
  <2>2. stack'[t] = new
    BY <1>5
  <2> HIDE DEF old
  <2>3. /\ new \in Seq(Controls) /\ Elements(new) = Elements(old) \cup {c}
        /\ \A i, j \in 1..Len(new) : new[i] = new[j] => i = j
    BY <1>1, <2>1, Pushed
  <2> QED
    BY <2>2, <2>3 DEF NoRepeat, old
<1>7. /\ users' \in [Controls -> Nat] /\ entry' \in [Controls -> BOOLEAN]
      /\ waiters' \in Nat /\ UNCHANGED got
  <2>1. CASE SlowStart(t)
    BY <2>1, <1>1 DEF SlowStart, TypeOK
  <2>2. CASE WokenStart(t)
    <3>1. waiters > 0 /\ waiters \in Nat
      BY <1>1, <2>2, Facts DEF Waiters, TypeOK
    <3> QED
      BY <1>1, <2>2, <3>1 DEF WokenStart, TypeOK
  <2> QED
    BY <2>1, <2>2
<1>8. TypeOK'
  BY <1>1, <1>5, <1>6, <1>7 DEF TypeOK, Stages
<1>9. OnlyMoves(t) /\ HasArg(t)'
  BY <1>1, <1>5 DEF TypeOK, OnlyMoves, HasArg, CallStages
<1>10. stage'[t] = "guest" /\ (stage[t] = "slow" \/ stage[t] = "woken")
  BY <1>1, <1>5 DEF TypeOK
<1>11. waiters' = waiters + (In(t, Waiters)' - In(t, Waiters))
  <2>1. waiters \in Nat
    BY <1>1 DEF TypeOK
  <2>2. In(t, Waiters)' = 0 /\ In(t, Waiters) = IF stage[t] = "woken" THEN 1 ELSE 0
    BY <1>10, Part
  <2>3. CASE SlowStart(t)
    BY <1>1, <2>1, <2>2, <2>3 DEF SlowStart
  <2>4. CASE WokenStart(t)
    BY <1>1, <2>1, <2>2, <2>4 DEF WokenStart
  <2> QED
    BY <2>3, <2>4
<1>12. ASSUME NEW d \in Controls PROVE Accounts(t, d)
  <2>1. /\ In(t, Waiting(d))' = 0
        /\ In(t, Waiting(d)) = IF stage[t] = "woken" /\ d = c THEN 1 ELSE 0
        /\ In(t, Runners(d)) = IF d \in Elements(stack[t]) THEN 1 ELSE 0
        /\ In(t, Runners(d))' = IF d \in Elements(stack[t]) \/ d = c THEN 1 ELSE 0
    BY <1>6, <1>10, Part
  <2>2. /\ running'[d] <=> control'[d] = "running"
        /\ Flag(d)' = IF d = c THEN 1 ELSE Flag(d)
        /\ d = c => Flag(d) = 0
        /\ Flag(d) \in {0, 1}
    BY <1>1, <1>2, <1>5, Facts DEF Flag, TypeOK
  <2>3. users[d] \in Nat /\ (entry[d] <=> users[d] > 0)
    BY Facts
  <2>4. CASE SlowStart(t)
    <3>1. stage[t] = "slow"
      BY <1>1, <2>4
    <3>2. /\ users'[d] = IF d = c THEN users[d] + 1 ELSE users[d]
          /\ entry'[d] = IF d = c THEN TRUE ELSE entry[d]
      BY <1>1, <2>4 DEF SlowStart, TypeOK
    <3> QED
      BY <1>3, <2>1, <2>2, <2>3, <3>1, <3>2 DEF Accounts
  <2>5. CASE WokenStart(t)
    <3>1. stage[t] = "woken" /\ UNCHANGED <<users, entry>>
      BY <1>1, <2>5 DEF WokenStart
    <3> QED
      BY <1>3, <2>1, <2>2, <2>3, <3>1 DEF Accounts
  <2> QED
    BY <2>4, <2>5
<1> QED
  BY <1>6, <1>8, <1>9, <1>11, <1>12, OneStep

(* An initialiser is left, completed or not.                               *)
LEMMA LeaveStep ==
  ASSUME IInv, NEW t \in Threads, InitializerReturns(t) \/ InitializerExited(t)
  PROVE  IInv'
<1> DEFINE c == Head(stack[t])
<1>1. PICK v \in {"initial", "done"}, next \in {"guest", "exiting"} :
        Leave(t, v, next) /\ stage[t] = next
  BY DEF InitializerReturns, InitializerExited
<1>2. TypeOK /\ stack[t] # <<>> /\ stack[t] \in Seq(Controls) /\ NoRepeat(t)
  BY <1>1 DEF IInv, TableExact, TypeOK, Leave
<1>3. /\ c \in Elements(stack[t]) /\ c \in Controls
      /\ Tail(stack[t]) \in Seq(Controls)
      /\ Elements(Tail(stack[t])) = Elements(stack[t]) \ {c}
      /\ \A i, j \in 1..Len(Tail(stack[t])) : Tail(stack[t])[i] = Tail(stack[t])[j] => i = j
  <2> DEFINE old == stack[t]
  <2>1. old \in Seq(Controls) /\ old # <<>>
        /\ \A i, j \in 1..Len(old) : old[i] = old[j] => i = j
    BY <1>2 DEF NoRepeat
  <2> HIDE DEF old
  <2>2. /\ Head(old) \in Elements(old) /\ Head(old) \in Controls
        /\ Tail(old) \in Seq(Controls)
        /\ Elements(Tail(old)) = Elements(old) \ {Head(old)}
        /\ \A i, j \in 1..Len(Tail(old)) : Tail(old)[i] = Tail(old)[j] => i = j
    BY <2>1, Popped
  <2> QED
    BY <2>2 DEF old
<1>4. /\ running' = [running EXCEPT ![c] = FALSE]
      /\ control' = [control EXCEPT ![c] = v]
      /\ stack' = [stack EXCEPT ![t] = Tail(stack[t])]
      /\ UNCHANGED <<waiters, arg>>
      /\ Release(c)
  BY <1>1, <1>2 DEF Leave, TypeOK
<1>5. stack'[t] = Tail(stack[t])
  BY <1>2, <1>4 DEF TypeOK
<1>6. /\ stage' \in [Threads -> Stages]
      /\ stage'[t] = next
      /\ \A u \in Threads \ {t} :
           stage'[u] = stage[u] \/ (stage[u] = "waiting" /\ stage'[u] = "woken")
  BY <1>1, <1>2 DEF Leave, NotifyAndGoto, Broadcast, TypeOK, Stages
<1>7. control[c] = "running" /\ users[c] > 0
  <2>1. t \in Runners(c)
    BY <1>3 DEF Runners, Inside, Elements
  <2> QED
    BY <1>3, <2>1, Facts
<1>8. users' \in [Controls -> Nat] /\ entry' \in [Controls -> BOOLEAN]
  BY <1>2, <1>3, <1>4, <1>7, ReleaseTypes
<1>9. got' \in SUBSET (Threads \X Controls)
  BY <1>2, <1>3 DEF InitializerReturns, InitializerExited, TypeOK
<1>10. TypeOK'
  BY <1>2, <1>3, <1>4, <1>6, <1>8, <1>9 DEF TypeOK
<1>11. OnlyMoves(t) /\ HasArg(t)' /\ NoRepeat(t)'
  <2>1. OnlyMoves(t)
    BY <1>2, <1>4, <1>6 DEF OnlyMoves, TypeOK
  <2>2. HasArg(t)'
    BY <1>1, <1>4, <1>6 DEF IInv, HasArg, CallStages
  <2> QED
    BY <1>3, <1>5, <2>1, <2>2 DEF NoRepeat
<1>12. stage[t] \notin {"waiting", "woken"} /\ stage'[t] \notin {"waiting", "woken"}
  BY <1>1, <1>6
<1>13. waiters' = waiters + (In(t, Waiters)' - In(t, Waiters))
  BY <1>2, <1>4, <1>12, Part DEF TypeOK
<1>14. ASSUME NEW d \in Controls PROVE Accounts(t, d)
  <2>1. /\ In(t, Waiting(d))' = 0 /\ In(t, Waiting(d)) = 0
        /\ In(t, Runners(d)) = IF d \in Elements(stack[t]) THEN 1 ELSE 0
        /\ In(t, Runners(d))' = IF d \in Elements(stack[t]) /\ d # c THEN 1 ELSE 0
    BY <1>3, <1>5, <1>12, Part
  <2>2. /\ running'[d] <=> control'[d] = "running"
        /\ Flag(d)' = IF d = c THEN 0 ELSE Flag(d)
        /\ d = c => Flag(d) = 1
        /\ Flag(d) \in {0, 1}
    BY <1>2, <1>3, <1>4, <1>7, Facts DEF Flag, TypeOK
  <2>3. users[d] \in Nat /\ (entry[d] <=> users[d] > 0)
    BY Facts
  <2>4. /\ users'[d] = IF d = c THEN users[d] - 1 ELSE users[d]
        /\ entry'[d] = IF d = c THEN users[d] # 1 ELSE entry[d]
    BY <1>2, <1>3, <1>4 DEF Release, TypeOK
  <2>5. entry'[d] <=> users'[d] > 0
    <3>1. CASE d = c
      <4>1. entry'[d] <=> users[d] # 1
        BY <2>4, <3>1
      <4>2. users'[d] = users[d] - 1
        BY <2>4, <3>1
      <4>3. users[d] > 0
        BY <1>7, <3>1
      <4>4. users[d] # 1 <=> users'[d] > 0
        BY <2>3, <4>2, <4>3
      <4> QED
        BY <4>1, <4>4
    <3>2. CASE d # c
      <4>1. entry'[d] = entry[d] /\ users'[d] = users[d]
        BY <2>4, <3>2
      <4> QED
        BY <2>3, <4>1
    <3> QED
      BY <3>1, <3>2
  <2>6. users'[d] = users[d] + (In(t, Waiting(d))' - In(t, Waiting(d)))
                             + (In(t, Runners(d))' - In(t, Runners(d)))
    BY <1>3, <2>1, <2>3, <2>4
  <2>7. In(t, Runners(d))' - In(t, Runners(d)) = Flag(d)' - Flag(d)
    BY <1>3, <2>1, <2>2
  <2> QED
    BY <2>2, <2>5, <2>6, <2>7 DEF Accounts
<1> QED
  BY <1>10, <1>11, <1>13, <1>14, OneStep

-----------------------------------------------------------------------------
LEMMA InitIInv == Init => IInv
<1> SUFFICES ASSUME Init PROVE IInv
  OBVIOUS
<1>1. TypeOK
  BY DEF Init, TypeOK, Stages
<1>2. \A t \in Threads : HasArg(t) /\ NoRepeat(t)
  BY OnceAssumption DEF Init, HasArg, NoRepeat, CallStages
<1>3. Waiters = {} /\ \A c \in Controls : Waiting(c) = {} /\ Runners(c) = {}
  BY DEF Init, Waiters, Waiting, Runners, Inside
<1>4. Cardinality({}) = 0
  BY FS_EmptySet
<1>5. RunningAgrees
  BY <1>3, <1>4 DEF Init, RunningAgrees
<1>6. CountersExact
  <2>1. waiters = Cardinality(Waiters)
    BY <1>3, <1>4 DEF Init
  <2>2. ASSUME NEW c \in Controls
        PROVE  /\ users[c] = Cardinality(Waiting(c)) + Cardinality(Runners(c))
               /\ entry[c] <=> users[c] > 0
    <3>1. users[c] = 0 /\ entry[c] = FALSE
      BY DEF Init
    <3> QED
      BY <1>3, <1>4, <3>1
  <2> QED
    BY <2>1, <2>2 DEF CountersExact
<1> QED
  BY <1>1, <1>2, <1>5, <1>6 DEF IInv, TableExact

LEMMA NextIInv == IInv /\ [Next]_vars => IInv'
<1> SUFFICES ASSUME IInv, [Next]_vars PROVE IInv'
  OBVIOUS
<1>1. CASE Next
  <2>1. PICK t \in Threads :
          \/ \E c \in Controls : Call(t, c)
          \/ SlowDone(t) \/ SlowFails(t)
          \/ WokenAgain(t) \/ SpuriousWake(t)
          \/ ThreadExits(t) \/ ThreadGone(t)
          \/ SlowWait(t)
          \/ WokenDone(t) \/ WaitFails(t) \/ WaiterExited(t)
          \/ SlowStart(t) \/ WokenStart(t)
          \/ InitializerReturns(t) \/ InitializerExited(t)
    BY <1>1 DEF Next, Slow, Woken, Unwind
  <2> QED
    BY <2>1, CallStep, SlowReturnsStep, RewaitStep, ExitStep, SlowWaitStep,
       WaiterLeavesStep, StartStep, LeaveStep
<1>2. CASE UNCHANGED vars
  <2>1. /\ Waiters' = Waiters
        /\ \A c \in Controls : Waiting(c)' = Waiting(c) /\ Runners(c)' = Runners(c)
    BY <1>2 DEF vars, Waiters, Waiting, Runners, Inside
  <2>2. TypeOK' /\ \A t \in Threads : HasArg(t)' /\ NoRepeat(t)'
    BY <1>2 DEF vars, IInv, TableExact, TypeOK, HasArg, NoRepeat
  <2>3. RunningAgrees' /\ CountersExact'
    BY <1>2, <2>1 DEF vars, IInv, TableExact, RunningAgrees, CountersExact
  <2> QED
    BY <2>2, <2>3 DEF IInv, TableExact
<1> QED
  BY <1>1, <1>2

(* Word, flag, entry and counters describe one state of every control: at  *)
(* most one thread is in an initialiser, an entry lives exactly as long as *)
(* a thread has a pointer to it, and a broadcast is skipped only when      *)
(* nobody waits (once.c).                                                  *)
THEOREM TableStaysExact == Spec => []TableExact
<1>1. IInv => TableExact
  BY DEF IInv
<1> QED
  BY InitIInv, NextIInv, <1>1, PTL DEF Spec

-----------------------------------------------------------------------------
(* The refinement. *)

RunnersNow == [c \in Controls |-> Runners(c)]

(* Who is inside a control is who has it on its stack.                     *)
LEMMA RunnersUnchanged ==
  ASSUME UNCHANGED stack
  PROVE  RunnersNow' = RunnersNow
BY DEF RunnersNow, Runners, Inside

(* A step that only returns success does so when the control is done.      *)
LEMMA SucceedStep ==
  ASSUME NEW t \in Threads, NEW c \in Controls, control[c] = "done",
         got' = got \cup {<<t, c>>}, UNCHANGED <<control, stack>>
  PROVE  Cell!CellNext
<1>1. Cell!Succeed(t, c)
  BY RunnersUnchanged DEF Cell!Succeed, RunnersNow
<1> QED
  BY <1>1 DEF Cell!CellNext

LEMMA BeginStep ==
  ASSUME IInv, NEW t \in Threads, SlowStart(t) \/ WokenStart(t)
  PROVE  Cell!CellNext
<1> DEFINE c == arg[t]
<1>1. /\ TypeOK /\ c \in Controls /\ control[c] # "done" /\ ~running[c]
      /\ Start(t, c) /\ got' = got
  BY DEF IInv, TableExact, TypeOK, HasArg, CallStages, SlowStart, WokenStart
<1>2. control[c] = "initial"
  BY <1>1, Facts DEF TypeOK
<1>3. Runners(c) = {}
  <2>1. \A u \in Threads : u \notin Runners(c)
    BY <1>1, Facts
  <2> QED
    BY <2>1 DEF Runners
<1>4. \A u \in Threads \ {t} : stack'[u] = stack[u]
  BY <1>1 DEF Start, TypeOK
<1>5. Elements(stack'[t]) = Elements(stack[t]) \cup {c}
  <2>1. stack'[t] = <<c>> \o stack[t] /\ stack[t] \in Seq(Controls)
    BY <1>1 DEF Start, TypeOK
  <2> DEFINE old == stack[t]
  <2>2. old \in Seq(Controls)
    BY <2>1
  <2> HIDE DEF old
  <2>3. Elements(<<c>> \o old) = Elements(old) \cup {c}
    BY <1>1, <2>2, Pushed
  <2> QED
    BY <2>1, <2>3 DEF old
<1>6. RunnersNow' = [RunnersNow EXCEPT ![c] = {t}]
  <2>1. ASSUME NEW d \in Controls
        PROVE  Runners(d)' = IF d = c THEN {t} ELSE Runners(d)
    <3>1. t \in Runners(d)' <=> t \in Runners(d) \/ d = c
      BY <1>5 DEF Runners, Inside, Elements
    <3>2. \A u \in Threads \ {t} : u \in Runners(d)' <=> u \in Runners(d)
      BY <1>4 DEF Runners, Inside
    <3>3. Runners(d) \subseteq Threads /\ Runners(d)' \subseteq Threads
      BY DEF Runners
    <3> QED
      BY <1>3, <3>1, <3>2, <3>3
  <2> QED
    BY <2>1 DEF RunnersNow
<1>7. Cell!Begin(t, c)
  BY <1>1, <1>2, <1>3, <1>6 DEF Cell!Begin, RunnersNow, Start
<1> QED
  BY <1>1, <1>7 DEF Cell!CellNext

LEMMA EndStep ==
  ASSUME IInv, NEW t \in Threads, InitializerReturns(t) \/ InitializerExited(t)
  PROVE  Cell!CellNext
<1> DEFINE c == Head(stack[t])
<1>1. /\ TypeOK /\ stack[t] # <<>> /\ stack[t] \in Seq(Controls) /\ NoRepeat(t)
      /\ stack' = [stack EXCEPT ![t] = Tail(stack[t])]
  BY DEF IInv, TableExact, TypeOK, InitializerReturns, InitializerExited, Leave
<1>2. /\ c \in Elements(stack[t]) /\ c \in Controls
      /\ Elements(Tail(stack[t])) = Elements(stack[t]) \ {c}
  <2> DEFINE old == stack[t]
  <2>1. old \in Seq(Controls) /\ old # <<>>
        /\ \A i, j \in 1..Len(old) : old[i] = old[j] => i = j
    BY <1>1 DEF NoRepeat
  <2> HIDE DEF old
  <2>2. /\ Head(old) \in Elements(old) /\ Head(old) \in Controls
        /\ Elements(Tail(old)) = Elements(old) \ {Head(old)}
    BY <2>1, Popped
  <2> QED
    BY <2>2 DEF old
<1>3. Runners(c) = {t}
  <2>1. t \in Runners(c)
    BY <1>2 DEF Runners, Inside, Elements
  <2>2. Cardinality(Runners(c)) = 1
    BY <1>2, <2>1, Facts DEF IInv, TableExact, RunningAgrees
  <2>3. \E x \in Threads : Runners(c) = {x}
    BY <2>2, CountOne, OnceAssumption DEF Runners
  <2> QED
    BY <2>1, <2>3
<1>4. RunnersNow' = [RunnersNow EXCEPT ![c] = {}]
  <2>1. ASSUME NEW d \in Controls
        PROVE  Runners(d)' = IF d = c THEN {} ELSE Runners(d)
    <3>1. t \in Runners(d)' <=> t \in Runners(d) /\ d # c
      <4>1. stack'[t] = Tail(stack[t])
        BY <1>1 DEF TypeOK
      <4>2. Elements(stack'[t]) = Elements(stack[t]) \ {c}
        BY <1>2, <4>1
      <4> QED
        BY <4>2 DEF Runners, Inside, Elements
    <3>2. \A u \in Threads \ {t} : u \in Runners(d)' <=> u \in Runners(d)
      BY <1>1 DEF Runners, Inside, TypeOK
    <3>3. Runners(d) \subseteq Threads /\ Runners(d)' \subseteq Threads
      BY DEF Runners
    <3> QED
      BY <1>3, <3>1, <3>2, <3>3
  <2> QED
    BY <2>1 DEF RunnersNow
<1>5. CASE InitializerReturns(t)
  <2>1. Cell!Complete(t, c)
    BY <1>2, <1>3, <1>4, <1>5 DEF InitializerReturns, Leave, Cell!Complete, RunnersNow
  <2> QED
    BY <1>2, <2>1 DEF Cell!CellNext
<1>6. CASE InitializerExited(t)
  <2>1. Cell!Abandon(t, c)
    BY <1>2, <1>3, <1>4, <1>6 DEF InitializerExited, Leave, Cell!Abandon, RunnersNow
  <2> QED
    BY <1>2, <2>1 DEF Cell!CellNext
<1> QED
  BY <1>5, <1>6

LEMMA RefinedStep == IInv /\ [Next]_vars => [Cell!CellNext]_(Cell!cell)
<1> SUFFICES ASSUME IInv, [Next]_vars
             PROVE  Cell!CellNext \/ UNCHANGED Cell!cell
  OBVIOUS
<1>1. UNCHANGED <<control, stack, got>> => UNCHANGED Cell!cell
  BY RunnersUnchanged DEF Cell!cell, RunnersNow
<1>2. CASE UNCHANGED vars
  BY <1>1, <1>2 DEF vars
<1>3. ASSUME NEW t \in Threads, NEW c \in Controls, Call(t, c)
      PROVE  Cell!CellNext \/ UNCHANGED Cell!cell
  BY <1>1, <1>3, SucceedStep DEF Call
<1>4. ASSUME NEW t \in Threads, SlowDone(t) \/ WokenDone(t)
      PROVE  Cell!CellNext
  <2>1. arg[t] \in Controls
    BY <1>4 DEF SlowDone, WokenDone, IInv, TableExact, TypeOK, HasArg, CallStages
  <2> QED
    BY <1>4, <2>1, SucceedStep DEF SlowDone, WokenDone
<1>5. ASSUME NEW t \in Threads,
             \/ SlowFails(t) \/ WokenAgain(t) \/ SpuriousWake(t) \/ ThreadExits(t)
             \/ ThreadGone(t) \/ SlowWait(t) \/ WaitFails(t) \/ WaiterExited(t)
      PROVE  UNCHANGED Cell!cell
  BY <1>1, <1>5 DEF SlowFails, WokenAgain, SpuriousWake, ThreadExits, ThreadGone,
                    SlowWait, WaitFails, WaiterExited
<1>6. CASE Next
  BY <1>3, <1>4, <1>5, <1>6, BeginStep, EndStep DEF Next, Slow, Woken, Unwind
<1> QED
  BY <1>2, <1>6

(* The bridge keeps the promise of pthread_once: one initialiser at a      *)
(* time, at most one that completes, a retry after one that exited or was  *)
(* cancelled, and success only once one has completed (once.c).            *)
THEOREM BridgeImplementsCell == Spec => Implements
<1>1. Init => Cell!CellInit
  BY DEF Init, Cell!CellInit, Runners, Inside
<1> QED
  BY <1>1, InitIInv, NextIInv, RefinedStep, PTL DEF Spec, Implements, Cell!CellSpec
==============================================================================
