---------------------------- MODULE JniHeapProofs ----------------------------
(***************************************************************************)
(* Proofs about JniHeap for any threads and handles, any finite set of     *)
(* objects and any nesting of frames and native methods.                   *)
(*                                                                         *)
(* IInv is inductive and has three parts.  Held says of every place that   *)
(* may name an object that the object is on the heap.  Tracing is the      *)
(* state of a collection: what is marked is on the heap and reachable,     *)
(* everything in use is marked once anything is, and an object off the     *)
(* stack has what it refers to marked; between collections the heap is in  *)
(* every set that has what is in use and what its elements refer to.       *)
(* InFrames places every local in one frame, of its owner.                 *)
(***************************************************************************)
EXTENDS JniHeap, CountingLemmas, SequenceTheorems

(* References r on a heap of objects l: none dangles, and only a weak one  *)
(* may have lost its object.                                               *)
RefsHeld(r, l) ==
  \A h \in Handles :
    /\ r[h].object \in l \cup {Null}
    /\ r[h].type = "none" => r[h] = NoRef
    /\ r[h].type \in {"local", "global"} => r[h].object # Null

Held ==
  /\ RefsHeld(ref, live)
  /\ \A o \in Objects : owner[o] # Nobody => o \in live
  /\ \A o \in live : member[o] \in live \cup {Null}
  /\ \A t \in Threads :
       /\ waiting[t] \in live \cup {Null}
       /\ exception[t] \in live \cup {Null}
       /\ \A o \in Objects : pins[t][o] > 0 => o \in live
       /\ \A i \in 1..Len(roots[t]) : roots[t][i] \subseteq live

Closed(S) == \A o \in S : member[o] \in S \cup {Null}

(* Every object of S is reached from what is in use: S lies in every set   *)
(* that has this and is closed.                                            *)
OnlyReached(S) ==
  \A X \in SUBSET Objects : InUse \subseteq X /\ Closed(X) => S \subseteq X

Tracing ==
  IF Collecting
  THEN /\ gray \subseteq mark /\ mark \subseteq live
       /\ mark # {} => RootSet \subseteq mark
       /\ \A o \in mark \ gray : member[o] \in mark \cup {Null}
       /\ OnlyReached(mark)
  ELSE /\ mark = {} /\ gray = {}
       /\ OnlyReached(live)

(* h lies in a slot of frame i of t.                                       *)
Home(f, h, t, i) == i \in 1..Len(f[t]) /\ h \in f[t][i].slots

InFrames(r, f) ==
  /\ \A h \in Handles : \A t, u \in Threads : \A i, j \in Nat :
       Home(f, h, t, i) /\ Home(f, h, u, j) => t = u /\ i = j
  /\ \A h \in Handles :
       r[h].type = "local"
         <=> r[h] # NoRef /\ \E t \in Threads, i \in Nat : Home(f, h, t, i)
  /\ \A h \in Handles, t \in Threads, i \in Nat :
       Home(f, h, t, i) /\ r[h] # NoRef => r[h].owner = t

IInv ==
  /\ TypeOK
  /\ Held
  /\ Tracing
  /\ InFrames(ref, frames)
  /\ BoundariesMatch

-----------------------------------------------------------------------------
(* Frames. *)

Natives(s) == {i \in 1..Len(s) : s[i].native}

RefsTyped(r) == r \in [Handles -> Ref]
FramesTyped(f) == f \in [Threads -> Seq(Frame)]

LEMMA FramesFacts ==
  ASSUME NEW f, FramesTyped(f), NEW t \in Threads
  PROVE  /\ f[t] \in Seq(Frame) /\ Len(f[t]) \in Nat
         /\ \A i \in 1..Len(f[t]) :
              f[t][i] \in Frame /\ f[t][i].slots \in SUBSET Handles
         /\ f[t] # <<>> => Len(f[t]) > 0 /\ Head(f[t]) = f[t][1]
<1>1. f[t] \in Seq(Frame)
  BY DEF FramesTyped
<1>2. \A i \in 1..Len(f[t]) : f[t][i] \in Frame
  BY <1>1
<1> QED
  BY <1>1, <1>2 DEF Frame

LEMMA NativesFinite ==
  ASSUME NEW s \in Seq(Frame)
  PROVE  /\ IsFiniteSet(Natives(s)) /\ Natives(s) \subseteq Int
         /\ Cardinality(Natives(s)) \in Nat
         /\ Cardinality(Natives(s)) = 0 <=> Natives(s) = {}
<1>1. Natives(s) \in SUBSET (1..Len(s)) /\ Len(s) \in Nat
  BY DEF Natives
<1>2. IsFiniteSet(1..Len(s))
  BY <1>1, FS_Interval
<1> QED
  BY <1>1, <1>2, FS_Subset, FS_CardinalityType, FS_EmptySet

(* A slot more in the innermost frame, which may be a new one.             *)
LEMMA WithSlotHomes ==
  ASSUME NEW f, FramesTyped(f), NEW t \in Threads, NEW h \in Handles
  PROVE  /\ FramesTyped(WithSlot(f, t, h))
         /\ \A x \in Handles, u \in Threads, i \in Nat :
              Home(WithSlot(f, t, h), x, u, i)
                <=> Home(f, x, u, i) \/ (x = h /\ u = t /\ i = 1)
         /\ \A u \in Threads : Natives(WithSlot(f, t, h)[u]) = Natives(f[u])
<1> DEFINE g == WithSlot(f, t, h)
<1>0. f \in [Threads -> Seq(Frame)] /\ f[t] \in Seq(Frame)
  BY DEF FramesTyped
<1>1. CASE f[t] = <<>>
  <2> DEFINE fr == [slots |-> {h}, native |-> FALSE]
  <2>1. g = [f EXCEPT ![t] = <<fr>>]
    BY <1>1 DEF WithSlot
  <2>2. fr \in Frame /\ fr.slots = {h} /\ fr.native = FALSE
    BY DEF Frame
  <2> HIDE DEF fr
  <2>3. g[t] = <<fr>> /\ \A u \in Threads \ {t} : g[u] = f[u]
    BY <1>0, <2>1
  <2>4. Len(g[t]) = 1 /\ g[t][1] = fr /\ Len(f[t]) = 0 /\ g[t] \in Seq(Frame)
    BY <1>1, <2>2, <2>3
  <2>5. FramesTyped(g)
    BY <1>0, <2>1, <2>3, <2>4 DEF FramesTyped
  <2> HIDE DEF g
  <2>6. \A x \in Handles, i \in Nat : Home(g, x, t, i) <=> x = h /\ i = 1
    BY <2>2, <2>4 DEF Home
  <2>7. \A x \in Handles, i \in Nat : ~Home(f, x, t, i)
    BY <2>4 DEF Home
  <2>8. \A u \in Threads : Natives(g[u]) = Natives(f[u])
    BY <2>2, <2>3, <2>4 DEF Natives
  <2> QED
    BY <2>3, <2>5, <2>6, <2>7, <2>8 DEF Home, g
<1>2. CASE f[t] # <<>>
  <2>1. /\ f[t][1] \in Frame /\ f[t][1].slots \in SUBSET Handles
        /\ Len(f[t]) \in Nat /\ 1 \in 1..Len(f[t])
    BY <1>2, FramesFacts
  <2> DEFINE fr == [f[t][1] EXCEPT !.slots = f[t][1].slots \cup {h}]
  <2>2. /\ fr \in Frame /\ fr.slots = f[t][1].slots \cup {h}
        /\ fr.native = f[t][1].native
    BY <2>1 DEF Frame
  <2>3. g = [f EXCEPT ![t] = [f[t] EXCEPT ![1] = fr]]
    BY <1>2 DEF WithSlot
  <2> HIDE DEF fr
  <2>4. g[t] = [f[t] EXCEPT ![1] = fr] /\ \A u \in Threads \ {t} : g[u] = f[u]
    BY <1>0, <2>3
  <2>5. /\ g[t] \in Seq(Frame) /\ Len(g[t]) = Len(f[t])
        /\ \A i \in 1..Len(f[t]) : g[t][i] = IF i = 1 THEN fr ELSE f[t][i]
    BY <1>0, <2>1, <2>2, <2>4
  <2>6. FramesTyped(g)
    BY <1>0, <2>3, <2>4, <2>5 DEF FramesTyped
  <2> HIDE DEF g
  <2>7. \A x \in Handles, i \in Nat :
          Home(g, x, t, i) <=> Home(f, x, t, i) \/ (x = h /\ i = 1)
    BY <2>1, <2>2, <2>5 DEF Home
  <2>8. \A u \in Threads : Natives(g[u]) = Natives(f[u])
    BY <2>2, <2>4, <2>5 DEF Natives
  <2> QED
    BY <2>4, <2>6, <2>7, <2>8 DEF Home, g
<1> QED
  BY <1>1, <1>2

(* jni_refs_new places the new local in one frame.                         *)
LEMMA NewLocalFrames ==
  ASSUME NEW r, NEW f, RefsTyped(r), FramesTyped(f), InFrames(r, f),
         NEW t \in Threads, NEW o \in Objects, NEW h \in FreeSlots(r, f, t),
         NEW q, q = [r EXCEPT ![h] = [type |-> "local", object |-> o, owner |-> t]]
  PROVE  /\ h \in Handles /\ r[h] = NoRef
         /\ RefsTyped(q) /\ InFrames(q, WithSlot(f, t, h))
<1> DEFINE g == WithSlot(f, t, h)
    new == [type |-> "local", object |-> o, owner |-> t]
<1>1. /\ h \in Handles /\ r[h] = NoRef
      /\ \A u \in Threads, i \in Nat : Home(f, h, u, i) => u = t /\ i = 1
  <2>1. CASE f[t] # <<>> /\ h \in Head(f[t]).slots /\ r[h] = NoRef
    <3>1. Home(f, h, t, 1) /\ h \in Handles
      BY <2>1, FramesFacts DEF Home
    <3> QED
      BY <2>1, <3>1 DEF InFrames
  <2>2. CASE h \in Unused(r, f)
    BY <2>2 DEF Unused, Home
  <2>3. \/ f[t] # <<>> /\ h \in Head(f[t]).slots /\ r[h] = NoRef
        \/ h \in Unused(r, f)
    BY DEF FreeSlots
  <2> QED
    BY <2>1, <2>2, <2>3
<1>2. new \in Ref /\ new # NoRef /\ new.type = "local" /\ new.owner = t
  BY DEF Ref, RefTypes, NoRef
<1> HIDE DEF new
<1>3. /\ q \in [Handles -> Ref]
      /\ \A x \in Handles : q[x] = IF x = h THEN new ELSE r[x]
  BY <1>1, <1>2 DEF RefsTyped, new
<1>4. \A x \in Handles, u \in Threads, i \in Nat :
        Home(g, x, u, i) <=> Home(f, x, u, i) \/ (x = h /\ u = t /\ i = 1)
  BY <1>1, WithSlotHomes
<1> HIDE DEF g
<1>5. ASSUME NEW x \in Handles, NEW u \in Threads, NEW v \in Threads,
             NEW i \in Nat, NEW j \in Nat, Home(g, x, u, i), Home(g, x, v, j)
      PROVE  u = v /\ i = j
  BY <1>1, <1>4, <1>5 DEF InFrames
<1>6. ASSUME NEW x \in Handles
      PROVE  q[x].type = "local"
               <=> q[x] # NoRef /\ \E u \in Threads, i \in Nat : Home(g, x, u, i)
  <2>1. CASE x = h
    BY <1>2, <1>3, <1>4, <2>1
  <2>2. CASE x # h
    BY <1>3, <1>4, <2>2 DEF InFrames
  <2> QED
    BY <2>1, <2>2
<1>7. ASSUME NEW x \in Handles, NEW u \in Threads, NEW i \in Nat,
             Home(g, x, u, i), q[x] # NoRef
      PROVE  q[x].owner = u
  <2>1. CASE x = h
    BY <1>1, <1>2, <1>3, <1>4, <1>7, <2>1
  <2>2. CASE x # h
    BY <1>3, <1>4, <1>7, <2>2 DEF InFrames
  <2> QED
    BY <2>1, <2>2
<1>8. InFrames(q, g)
  BY <1>5, <1>6, <1>7 DEF InFrames
<1> QED
  BY <1>1, <1>3, <1>8 DEF RefsTyped, g

(* The n innermost frames of t end, and with them the references in them.  *)
DropRefs(r, f, t, n) ==
  [h \in Handles |-> IF \E i \in 1..n : h \in f[t][i].slots THEN NoRef ELSE r[h]]

Drop(f, t, n) == [f EXCEPT ![t] = SubSeq(f[t], n + 1, Len(f[t]))]

DropKeeps(r, f, t, n) ==
  /\ RefsTyped(DropRefs(r, f, t, n)) /\ FramesTyped(Drop(f, t, n))
  /\ InFrames(DropRefs(r, f, t, n), Drop(f, t, n))
  /\ \A u \in Threads \ {t} : Drop(f, t, n)[u] = f[u]
  /\ Cardinality(Natives(Drop(f, t, n)[t])) = Cardinality(Natives(f[t]) \ (1..n))

LEMMA DropFrames ==
  ASSUME NEW r, NEW f, RefsTyped(r), FramesTyped(f), InFrames(r, f),
         NEW t \in Threads, NEW n, n \in 0..Len(f[t])
  PROVE  DropKeeps(r, f, t, n)
<1> DEFINE q == DropRefs(r, f, t, n)
    g == Drop(f, t, n)
<1>1. /\ f \in [Threads -> Seq(Frame)] /\ f[t] \in Seq(Frame)
      /\ Len(f[t]) \in Nat /\ n \in Nat /\ n <= Len(f[t])
      /\ \A i \in 1..Len(f[t]) : f[t][i] \in Frame
  BY DEF FramesTyped
<1> DEFINE s == SubSeq(f[t], n + 1, Len(f[t]))
<1>2. /\ s \in Seq(Frame) /\ Len(s) = Len(f[t]) - n
      /\ \A i \in 1..Len(s) : s[i] = f[t][i + n]
  <2>1. \A i \in n + 1..Len(f[t]) : f[t][i] \in Frame
    BY <1>1
  <2>2. /\ s \in Seq(Frame)
        /\ Len(s) = IF n + 1 <= Len(f[t]) THEN Len(f[t]) - (n + 1) + 1 ELSE 0
        /\ \A i \in 1..Len(f[t]) - (n + 1) + 1 : s[i] = f[t][n + 1 + i - 1]
    BY <1>1, <2>1, SubSeqProperties
  <2>3. Len(s) = Len(f[t]) - n /\ Len(f[t]) - (n + 1) + 1 = Len(f[t]) - n
    BY <1>1, <2>2
  <2>4. \A i \in 1..Len(s) : n + 1 + i - 1 = i + n
    BY <1>1
  <2> QED
    BY <2>2, <2>3, <2>4
<1>3. g[t] = s /\ \A u \in Threads \ {t} : g[u] = f[u]
  BY <1>1 DEF Drop
<1>4. FramesTyped(g)
  BY <1>1, <1>2 DEF FramesTyped, Drop
<1> HIDE DEF s
<1>5. \A h \in Handles, i \in Nat :
        Home(g, h, t, i) <=> i > 0 /\ Home(f, h, t, i + n)
  BY <1>1, <1>2, <1>3 DEF Home
<1>6. \A h \in Handles, u \in Threads \ {t}, i \in Nat :
        Home(g, h, u, i) <=> Home(f, h, u, i)
  BY <1>3 DEF Home
<1>7. \A h \in Handles :
        q[h] = IF \E i \in 1..n : Home(f, h, t, i) THEN NoRef ELSE r[h]
  BY <1>1 DEF Home, DropRefs
<1>8. RefsTyped(q)
  BY DEF RefsTyped, Ref, NoRef, DropRefs
<1> HIDE DEF q, g
<1>9. InFrames(q, g)
  <2>1. ASSUME NEW h \in Handles, NEW u \in Threads, NEW v \in Threads,
               NEW i \in Nat, NEW j \in Nat, Home(g, h, u, i), Home(g, h, v, j)
        PROVE  u = v /\ i = j
    <3> DEFINE At(w, k) == IF w = t THEN k + n ELSE k
    <3>1. At(u, i) \in Nat /\ At(v, j) \in Nat
      BY <1>1
    <3>2. Home(f, h, u, At(u, i)) /\ Home(f, h, v, At(v, j))
      <4>1. ASSUME NEW w \in Threads, NEW k \in Nat, Home(g, h, w, k)
            PROVE  Home(f, h, w, At(w, k))
        <5>1. CASE w = t
          <6>1. Home(f, h, t, k + n)
            BY <1>5, <4>1, <5>1
          <6> QED
            BY <5>1, <6>1
        <5>2. CASE w # t
          BY <1>6, <4>1, <5>2
        <5> QED
          BY <5>1, <5>2
      <4> QED
        BY <2>1, <4>1
    <3>3. u = v /\ At(u, i) = At(v, j)
      BY <3>1, <3>2 DEF InFrames
    <3> QED
      BY <1>1, <3>3
  <2>2. ASSUME NEW h \in Handles, NEW i \in Nat, Home(f, h, t, i), q[h] # NoRef
        PROVE  i - n \in Nat /\ Home(g, h, t, i - n)
    <3>1. i \in 1..Len(f[t]) /\ ~(i \in 1..n)
      BY <1>7, <2>2 DEF Home
    <3>2. i - n \in Nat /\ i - n > 0 /\ i - n + n = i
      BY <1>1, <3>1
    <3> QED
      BY <1>5, <2>2, <3>2
  <2>3. ASSUME NEW h \in Handles, NEW u \in Threads, NEW i \in Nat, Home(g, h, u, i)
        PROVE  /\ q[h] = r[h]
               /\ \E j \in Nat : Home(f, h, u, j)
    <3>1. CASE u = t
      <4>1. i + n \in Nat /\ Home(f, h, t, i + n) /\ i > 0
        BY <1>1, <1>5, <2>3, <3>1
      <4>2. \A k \in 1..n : ~Home(f, h, t, k)
        <5>1. ASSUME NEW k \in 1..n, Home(f, h, t, k) PROVE FALSE
          <6>1. k \in Nat /\ k = i + n
            BY <1>1, <4>1, <5>1 DEF InFrames
          <6> QED
            BY <1>1, <4>1, <6>1
        <5> QED
          BY <5>1
      <4> QED
        BY <1>7, <3>1, <4>1, <4>2
    <3>2. CASE u # t
      <4>1. Home(f, h, u, i)
        BY <1>6, <2>3, <3>2
      <4>2. \A k \in 1..n : ~Home(f, h, t, k)
        BY <1>1, <3>2, <4>1 DEF InFrames
      <4> QED
        BY <1>7, <4>1, <4>2
    <3> QED
      BY <3>1, <3>2
  <2>4. ASSUME NEW h \in Handles
        PROVE  q[h].type = "local"
                 <=> q[h] # NoRef /\ \E u \in Threads, i \in Nat : Home(g, h, u, i)
    <3>1. ASSUME q[h].type = "local"
          PROVE  q[h] # NoRef /\ \E u \in Threads, i \in Nat : Home(g, h, u, i)
      <4>1. q[h] # NoRef /\ q[h] = r[h]
        BY <1>7, <3>1 DEF NoRef
      <4>2. PICK u \in Threads, i \in Nat : Home(f, h, u, i)
        BY <3>1, <4>1 DEF InFrames
      <4>3. \E v \in Threads, j \in Nat : Home(g, h, v, j)
        BY <1>6, <2>2, <4>1, <4>2
      <4> QED
        BY <4>1, <4>3
    <3>2. ASSUME q[h] # NoRef, NEW u \in Threads, NEW i \in Nat, Home(g, h, u, i)
          PROVE  q[h].type = "local"
      BY <2>3, <3>2 DEF InFrames
    <3> QED
      BY <3>1, <3>2
  <2>5. ASSUME NEW h \in Handles, NEW u \in Threads, NEW i \in Nat,
               Home(g, h, u, i), q[h] # NoRef
        PROVE  q[h].owner = u
    BY <2>3, <2>5 DEF InFrames
  <2> QED
    BY <2>1, <2>4, <2>5 DEF InFrames
<1>10. Cardinality(Natives(g[t])) = Cardinality(Natives(f[t]) \ (1..n))
  <2> DEFINE A == Natives(f[t]) \ (1..n)
      B == Natives(g[t])
  <2>1. IsFiniteSet(A) /\ A \subseteq Int
    BY <1>1, NativesFinite, FS_Subset
  <2>2. ASSUME NEW x \in A PROVE x - n \in B
    <3>1. x - n \in 1..Len(s) /\ x - n + n = x
      BY <1>1, <1>2 DEF Natives
    <3> QED
      BY <1>2, <1>3, <3>1 DEF Natives
  <2>3. ASSUME NEW y \in B PROVE y \in Int /\ y + n \in A
    <3>1. y \in 1..Len(s) /\ s[y].native
      BY <1>3 DEF Natives
    <3>2. y + n \in 1..Len(f[t]) /\ ~(y + n \in 1..n)
      BY <1>1, <1>2, <3>1
    <3> QED
      BY <1>2, <3>1, <3>2 DEF Natives
  <2> HIDE DEF A, B
  <2>4. Cardinality(B) = Cardinality(A)
    <3>1. n \in Int
      BY <1>1
    <3> QED
      BY <2>1, <2>2, <2>3, <3>1, CountShift
  <2> QED
    BY <2>4 DEF A, B
<1> QED
  BY <1>3, <1>4, <1>8, <1>9, <1>10 DEF DropKeeps, q, g

(* A frame of t more, with new locals of t in its slots.                   *)
PushOn(f, t, fr) == [f EXCEPT ![t] = <<fr>> \o f[t]]

LEMMA PushOne ==
  ASSUME NEW r, NEW f, RefsTyped(r), FramesTyped(f), InFrames(r, f),
         NEW t \in Threads, NEW fr \in Frame,
         \A h \in fr.slots : \A u \in Threads, i \in Nat : ~Home(f, h, u, i),
         NEW q, RefsTyped(q),
         \A h \in Handles :
           IF h \in fr.slots
           THEN q[h] # NoRef /\ q[h].type = "local" /\ q[h].owner = t
           ELSE q[h] = r[h],
         NEW g, g = PushOn(f, t, fr)
  PROVE  /\ FramesTyped(g) /\ InFrames(q, g)
         /\ \A u \in Threads \ {t} : g[u] = f[u]
         /\ Cardinality(Natives(g[t]))
              = Cardinality(Natives(f[t])) + (IF fr.native THEN 1 ELSE 0)
<1>1. f \in [Threads -> Seq(Frame)] /\ f[t] \in Seq(Frame) /\ Len(f[t]) \in Nat
  BY DEF FramesTyped
<1> DEFINE s == <<fr>> \o f[t]
<1>2. /\ s \in Seq(Frame) /\ Len(s) = Len(f[t]) + 1
      /\ \A i \in 1..Len(f[t]) + 1 : s[i] = IF i = 1 THEN fr ELSE f[t][i - 1]
  BY <1>1
<1>3. g[t] = s /\ (\A u \in Threads \ {t} : g[u] = f[u]) /\ FramesTyped(g)
  BY <1>1, <1>2 DEF FramesTyped, PushOn
<1> HIDE DEF s
<1>4. \A h \in Handles, i \in Nat :
        Home(g, h, t, i) <=> (i = 1 /\ h \in fr.slots) \/ (i > 1 /\ Home(f, h, t, i - 1))
  BY <1>1, <1>2, <1>3 DEF Home
<1>5. \A h \in Handles, u \in Threads \ {t}, i \in Nat :
        Home(g, h, u, i) <=> Home(f, h, u, i)
  BY <1>3 DEF Home
<1>6. fr.slots \in SUBSET Handles
  BY DEF Frame
<1>7. ASSUME NEW h \in Handles, NEW u \in Threads, NEW i \in Nat, Home(g, h, u, i)
      PROVE  /\ h \in fr.slots => u = t /\ i = 1
             /\ h \notin fr.slots =>
                  IF u = t THEN i - 1 \in Nat /\ Home(f, h, t, i - 1) ELSE Home(f, h, u, i)
  <2>1. CASE u = t
    <3>1. i > 1 => i - 1 \in Nat
      OBVIOUS
    <3>2. h \in fr.slots => i = 1
      <4>1. h \in fr.slots => ~Home(f, h, t, i - 1)
        BY <3>1 DEF Home
      <4> QED
        BY <1>4, <1>7, <2>1, <4>1
    <3> QED
      BY <1>4, <1>7, <2>1, <3>1, <3>2
  <2>2. CASE u # t
    BY <1>5, <1>7, <2>2
  <2> QED
    BY <2>1, <2>2
<1>8. ASSUME NEW h \in Handles, NEW u \in Threads, NEW v \in Threads,
             NEW i \in Nat, NEW j \in Nat, Home(g, h, u, i), Home(g, h, v, j)
      PROVE  u = v /\ i = j
  <2>1. CASE h \in fr.slots
    BY <1>7, <1>8, <2>1
  <2>2. CASE h \notin fr.slots
    <3> DEFINE At(w, k) == IF w = t THEN k - 1 ELSE k
    <3>1. /\ At(u, i) \in Nat /\ Home(f, h, u, At(u, i))
          /\ At(v, j) \in Nat /\ Home(f, h, v, At(v, j))
      BY <1>7, <1>8, <2>2
    <3>2. u = v /\ At(u, i) = At(v, j)
      BY <3>1 DEF InFrames
    <3> QED
      BY <3>2
  <2> QED
    BY <2>1, <2>2
<1>9. ASSUME NEW h \in Handles
      PROVE  q[h].type = "local"
               <=> q[h] # NoRef /\ \E u \in Threads, i \in Nat : Home(g, h, u, i)
  <2>1. CASE h \in fr.slots
    BY <1>4, <2>1
  <2>2. CASE h \notin fr.slots
    <3>1. ASSUME NEW u \in Threads, NEW i \in Nat, Home(f, h, u, i)
          PROVE  \E v \in Threads, j \in Nat : Home(g, h, v, j)
      <4>1. CASE u = t
        <5>1. i + 1 \in Nat /\ i + 1 \in 1..Len(s) /\ s[i + 1] = f[t][i]
          BY <1>1, <1>2, <3>1, <4>1 DEF Home
        <5>2. Home(g, h, t, i + 1)
          BY <1>3, <3>1, <4>1, <5>1 DEF Home
        <5> QED
          BY <5>1, <5>2
      <4>2. CASE u # t
        BY <1>5, <3>1, <4>2
      <4> QED
        BY <4>1, <4>2
    <3>2. ASSUME NEW u \in Threads, NEW i \in Nat, Home(g, h, u, i)
          PROVE  \E v \in Threads, j \in Nat : Home(f, h, v, j)
      BY <1>7, <2>2, <3>2
    <3>3. q[h] = r[h]
      BY <2>2
    <3> QED
      BY <3>1, <3>2, <3>3 DEF InFrames
  <2> QED
    BY <2>1, <2>2
<1>10. ASSUME NEW h \in Handles, NEW u \in Threads, NEW i \in Nat,
              Home(g, h, u, i), q[h] # NoRef
       PROVE  q[h].owner = u
  <2>1. CASE h \in fr.slots
    BY <1>7, <1>10, <2>1
  <2>2. CASE h \notin fr.slots
    <3>1. \E j \in Nat : Home(f, h, u, j)
      BY <1>7, <1>10, <2>2
    <3> QED
      BY <1>10, <2>2, <3>1 DEF InFrames
  <2> QED
    BY <2>1, <2>2
<1>11. InFrames(q, g)
  BY <1>8, <1>9, <1>10 DEF InFrames
<1>12. Cardinality(Natives(g[t]))
         = Cardinality(Natives(f[t])) + (IF fr.native THEN 1 ELSE 0)
  <2> DEFINE N == Natives(s) \ {1}
      M == Natives(f[t])
  <2>1. IsFiniteSet(Natives(s)) /\ Natives(s) \subseteq Int
    BY <1>2, NativesFinite
  <2>2. ASSUME NEW x \in N PROVE x - 1 \in M
    <3>1. x \in 1..Len(s) /\ x # 1 /\ s[x].native
      BY DEF Natives
    <3>2. x - 1 \in 1..Len(f[t]) /\ s[x] = f[t][x - 1]
      BY <1>1, <1>2, <3>1
    <3> QED
      BY <3>1, <3>2 DEF Natives
  <2>3. ASSUME NEW y \in M PROVE y \in Int /\ y + 1 \in N
    <3>1. y \in 1..Len(f[t]) /\ f[t][y].native
      BY DEF Natives
    <3>2. y + 1 \in 1..Len(s) /\ y + 1 # 1 /\ s[y + 1] = f[t][y]
      BY <1>1, <1>2, <3>1
    <3> QED
      BY <3>1, <3>2 DEF Natives
  <2>4. IsFiniteSet(N) /\ N \subseteq Int
    BY <2>1, FS_Subset
  <2>5. Cardinality(N)
          = IF 1 \in Natives(s) THEN Cardinality(Natives(s)) - 1 ELSE Cardinality(Natives(s))
    BY <2>1, FS_RemoveElement
  <2>6. 1 \in Natives(s) <=> fr.native
    BY <1>1, <1>2 DEF Natives
  <2> HIDE DEF N, M
  <2>7. Cardinality(M) = Cardinality(N)
    <3>1. 1 \in Int
      OBVIOUS
    <3> QED
      BY <2>2, <2>3, <2>4, <3>1, CountShift
  <2>8. Cardinality(Natives(s)) \in Nat
    BY <1>2, NativesFinite
  <2>9. Cardinality(N)
          = Cardinality(Natives(s)) - (IF fr.native THEN 1 ELSE 0)
    BY <2>5, <2>6, <2>8
  <2>10. Cardinality(Natives(s)) = Cardinality(M) + (IF fr.native THEN 1 ELSE 0)
    BY <2>7, <2>8, <2>9
  <2>11. Natives(g[t]) = Natives(s)
    BY <1>3
  <2> QED
    BY <2>10, <2>11 DEF M
<1> QED
  BY <1>3, <1>11, <1>12

-----------------------------------------------------------------------------
(* What the calls have in common. *)

(* A call starts a collection that has marked nothing.                     *)
LEMMA CallTraces ==
  ASSUME IInv, NEW t \in Threads, Call(t)
  PROVE  /\ Tracing'
         /\ collector' \in Threads /\ mark' \in SUBSET Objects /\ gray' \in SUBSET Objects
<1>1. mark' = {} /\ gray' = {} /\ collector' = t /\ t # Nobody
  BY HeapAssumption DEF IInv, Tracing, Collecting, Call, tracing
<1> QED
  BY <1>1 DEF Tracing, Collecting, OnlyReached

LEMMA Facts ==
  ASSUME IInv, NEW t \in Threads
  PROVE  /\ TypeOK /\ Held /\ Tracing
         /\ RefsTyped(ref) /\ FramesTyped(frames) /\ InFrames(ref, frames)
         /\ Given(t) \subseteq live /\ live \subseteq Objects /\ Null \notin live
<1>1. TypeOK /\ Held /\ Tracing /\ InFrames(ref, frames)
  BY DEF IInv
<1>2. Given(t) \subseteq live
  BY <1>1 DEF Given, Resolve, Held, RefsHeld
<1> QED
  BY <1>1, <1>2, HeapAssumption DEF TypeOK, RefsTyped, FramesTyped

LEMMA BoundariesKept ==
  ASSUME BoundariesMatch, UNCHANGED roots,
         \A u \in Threads :
           Cardinality(Natives(frames'[u])) = Cardinality(Natives(frames[u]))
  PROVE  BoundariesMatch'
BY DEF BoundariesMatch, Natives

(* A new local for an object of a heap l on which r dangles nowhere.       *)
LEMMA NewLocalStep ==
  ASSUME NEW r, NEW f, RefsTyped(r), FramesTyped(f), InFrames(r, f),
         NEW l \in SUBSET Objects, RefsHeld(r, l),
         NEW t \in Threads, NEW o \in l, NewLocalIn(r, f, t, o)
  PROVE  /\ RefsTyped(ref') /\ FramesTyped(frames') /\ InFrames(ref', frames')
         /\ RefsHeld(ref', l)
         /\ \A u \in Threads : Natives(frames'[u]) = Natives(f[u])
<1>1. PICK h \in FreeSlots(r, f, t) :
        /\ ref' = [r EXCEPT ![h] = [type |-> "local", object |-> o, owner |-> t]]
        /\ frames' = WithSlot(f, t, h)
  BY DEF NewLocalIn
<1>2. /\ h \in Handles /\ r[h] = NoRef
      /\ RefsTyped(ref') /\ InFrames(ref', WithSlot(f, t, h))
  BY <1>1, NewLocalFrames
<1>3. /\ FramesTyped(WithSlot(f, t, h))
      /\ \A u \in Threads : Natives(WithSlot(f, t, h)[u]) = Natives(f[u])
  BY <1>2, WithSlotHomes
<1>4. o # Null
  BY HeapAssumption
<1>5. \A x \in Handles :
        ref'[x] = IF x = h THEN [type |-> "local", object |-> o, owner |-> t] ELSE r[x]
  BY <1>1 DEF RefsTyped
<1>6. RefsHeld(ref', l)
  BY <1>4, <1>5 DEF RefsHeld
<1> QED
  BY <1>1, <1>2, <1>3, <1>6

(* The parts of the invariant apart from references and frames, for a call *)
(* that leaves the objects alone.                                          *)
OthersTyped ==
  /\ live \in SUBSET Objects
  /\ member \in [Objects -> Objects \cup {Null}]
  /\ owner \in [Objects -> Threads \cup {Nobody}]
  /\ waiting \in [Threads -> Objects \cup {Null}]
  /\ pins \in [Threads -> [Objects -> Nat]]
  /\ roots \in [Threads -> Seq(SUBSET Objects)]
  /\ exception \in [Threads -> Objects \cup {Null}]

OthersHeld ==
  /\ \A o \in Objects : owner[o] # Nobody => o \in live
  /\ \A o \in live : member[o] \in live \cup {Null}
  /\ \A t \in Threads :
       /\ waiting[t] \in live \cup {Null}
       /\ exception[t] \in live \cup {Null}
       /\ \A o \in Objects : pins[t][o] > 0 => o \in live
       /\ \A i \in 1..Len(roots[t]) : roots[t][i] \subseteq live

LEMMA Others ==
  ASSUME IInv
  PROVE  OthersTyped /\ OthersHeld /\ RefsHeld(ref, live)
BY DEF IInv, TypeOK, Held, OthersTyped, OthersHeld

(* A call that keeps each part.                                            *)
LEMMA CallStep ==
  ASSUME IInv, NEW t \in Threads, Call(t),
         OthersTyped', OthersHeld',
         RefsTyped(ref'), FramesTyped(frames'), InFrames(ref', frames'),
         RefsHeld(ref', live'), BoundariesMatch'
  PROVE  IInv'
<1>1. /\ Tracing'
      /\ collector' \in Threads /\ mark' \in SUBSET Objects /\ gray' \in SUBSET Objects
  BY CallTraces
<1>2. TypeOK'
  BY <1>1 DEF TypeOK, OthersTyped, RefsTyped, FramesTyped
<1>3. Held'
  BY DEF Held, OthersHeld
<1> QED
  BY <1>1, <1>2, <1>3 DEF IInv

(* A call that leaves references and frames alone.                         *)
LEMMA QuietCall ==
  ASSUME IInv, NEW t \in Threads, Call(t), UNCHANGED <<refs, roots>>,
         OthersTyped', OthersHeld', live \subseteq live'
  PROVE  IInv'
<1>1. ref' = ref /\ frames' = frames
  BY DEF refs
<1>2. BoundariesMatch'
  BY <1>1, BoundariesKept DEF IInv
<1>3. RefsHeld(ref', live')
  BY <1>1, Others DEF RefsHeld
<1>4. RefsTyped(ref') /\ FramesTyped(frames') /\ InFrames(ref', frames')
  BY <1>1, Facts
<1> QED
  BY <1>2, <1>3, <1>4, CallStep

(* A call that gives its caller a new local and leaves all else alone.     *)
LEMMA LocalCall ==
  ASSUME IInv, NEW t \in Threads, Call(t), NEW o \in live, NewLocal(t, o),
         UNCHANGED <<heap, monitors, pins, roots, exception>>
  PROVE  IInv'
<1>1. /\ RefsTyped(ref') /\ FramesTyped(frames') /\ InFrames(ref', frames')
      /\ RefsHeld(ref', live)
      /\ \A u \in Threads : Natives(frames'[u]) = Natives(frames[u])
  BY Facts, Others, NewLocalStep DEF NewLocal
<1>2. BoundariesMatch'
  BY <1>1, BoundariesKept DEF IInv
<1>3. OthersTyped' /\ OthersHeld' /\ live' = live
  BY Others DEF OthersTyped, OthersHeld, heap, monitors
<1> QED
  BY <1>1, <1>2, <1>3, CallStep

-----------------------------------------------------------------------------
(* Objects, members, pins, monitors and exceptions. *)

(* An object just created refers to nothing, and nobody has entered it.    *)
LEMMA Created ==
  ASSUME IInv, NEW o \in Objects \ live, live' = live \cup {o},
         member' = [member EXCEPT ![o] = Null], owner' = [owner EXCEPT ![o] = Nobody],
         UNCHANGED <<waiting, pins, roots>>,
         UNCHANGED exception \/ \E t \in Threads : exception' = [exception EXCEPT ![t] = o]
  PROVE  OthersTyped' /\ OthersHeld' /\ RefsHeld(ref, live')
<1> USE Others DEF OthersTyped, OthersHeld
<1>1. OthersTyped'
  OBVIOUS
<1>2. \A t \in Threads : exception'[t] \in live' \cup {Null}
  OBVIOUS
<1>3. OthersHeld'
  BY <1>2
<1>4. RefsHeld(ref, live')
  BY DEF RefsHeld
<1> QED
  BY <1>1, <1>3, <1>4

LEMMA NewObjectStep ==
  ASSUME IInv, NEW t \in Threads, NewObject(t)
  PROVE  IInv'
<1>1. PICK o \in Objects \ live :
        /\ live' = live \cup {o}
        /\ member' = [member EXCEPT ![o] = Null]
        /\ owner' = [owner EXCEPT ![o] = Nobody]
        /\ NewLocal(t, o)
  BY DEF NewObject
<1>2. Call(t) /\ UNCHANGED <<waiting, pins, roots, exception>>
  BY DEF NewObject
<1>3. OthersTyped' /\ OthersHeld' /\ RefsHeld(ref, live')
  BY <1>1, <1>2, Created
<1>4. /\ RefsTyped(ref') /\ FramesTyped(frames') /\ InFrames(ref', frames')
      /\ RefsHeld(ref', live')
      /\ \A u \in Threads : Natives(frames'[u]) = Natives(frames[u])
  <2>1. live' \in SUBSET Objects /\ o \in live'
    BY <1>1, <1>3 DEF OthersTyped
  <2> QED
    BY <1>1, <1>3, <2>1, Facts, NewLocalStep DEF NewLocal
<1>5. BoundariesMatch'
  BY <1>2, <1>4, BoundariesKept DEF IInv
<1> QED
  BY <1>2, <1>3, <1>4, <1>5, CallStep

LEMMA RaiseStep ==
  ASSUME IInv, NEW t \in Threads, Raise(t)
  PROVE  IInv'
<1>1. PICK o \in Objects \ live :
        /\ live' = live \cup {o}
        /\ member' = [member EXCEPT ![o] = Null]
        /\ owner' = [owner EXCEPT ![o] = Nobody]
        /\ exception' = [exception EXCEPT ![t] = o]
  BY DEF Raise
<1>2. Call(t) /\ UNCHANGED <<waiting, refs, pins, roots>>
  BY DEF Raise
<1>3. OthersTyped' /\ OthersHeld' /\ live \subseteq live'
  BY <1>1, <1>2, Created
<1> QED
  BY <1>2, <1>3, QuietCall

LEMMA QuietSteps ==
  ASSUME IInv, NEW t \in Threads, NEW o \in Objects, NEW p \in Objects \cup {Null},
         \/ SetMember(t, o, p) \/ Pin(t, o) \/ Unpin(t, o) \/ Throw(t, o) \/ Clear(t)
         \/ MonitorEnter(t, o) \/ MonitorExit(t, o)
  PROVE  IInv'
<1> USE DEF heap, monitors
<1>1. Given(t) \subseteq live /\ OthersTyped /\ OthersHeld
  BY Facts, Others
<1>2. CASE SetMember(t, o, p)
  BY <1>1, <1>2, QuietCall DEF SetMember, OthersTyped, OthersHeld
<1>3. CASE Pin(t, o) \/ Unpin(t, o)
  <2>1. /\ Call(t) /\ UNCHANGED <<heap, monitors, refs, roots, exception>>
        /\ o \in live /\ pins[t][o] \in Nat
        /\ \E n \in Nat : pins' = [pins EXCEPT ![t][o] = n]
    <3>1. o \in live /\ pins[t][o] \in Nat
      BY <1>1, <1>3 DEF Pin, Unpin, OthersTyped
    <3>2. CASE Pin(t, o)
      <4>1. pins[t][o] + 1 \in Nat /\ pins' = [pins EXCEPT ![t][o] = pins[t][o] + 1]
        BY <3>1, <3>2 DEF Pin
      <4> QED
        BY <3>1, <3>2, <4>1 DEF Pin
    <3>3. CASE Unpin(t, o)
      <4>1. pins[t][o] - 1 \in Nat /\ pins' = [pins EXCEPT ![t][o] = pins[t][o] - 1]
        BY <3>1, <3>3 DEF Unpin
      <4> QED
        BY <3>1, <3>3, <4>1 DEF Unpin
    <3> QED
      BY <1>3, <3>2, <3>3
  <2>2. OthersTyped' /\ OthersHeld'
    BY <1>1, <2>1 DEF OthersTyped, OthersHeld
  <2> QED
    BY <2>1, <2>2, QuietCall
<1>4. CASE Throw(t, o) \/ Clear(t)
  BY <1>1, <1>4, QuietCall DEF Throw, Clear, OthersTyped, OthersHeld
<1>5. CASE MonitorEnter(t, o) \/ MonitorExit(t, o)
  <2>1. /\ Call(t) /\ UNCHANGED <<heap, waiting, refs, pins, roots, exception>>
        /\ o \in live
        /\ \E u \in Threads \cup {Nobody} : owner' = [owner EXCEPT ![o] = u]
    BY <1>1, <1>5 DEF MonitorEnter, MonitorExit
  <2>2. OthersTyped'
    BY <1>1, <2>1 DEF OthersTyped
  <2>3. OthersHeld'
    BY <1>1, <2>1 DEF OthersHeld, OthersTyped
  <2> QED
    BY <2>1, <2>2, <2>3, QuietCall
<1> QED
  BY <1>2, <1>3, <1>4, <1>5

LEMMA MonitorEnteredStep ==
  ASSUME IInv, NEW t \in Threads, MonitorEntered(t)
  PROVE  IInv'
<1>1. OthersTyped /\ OthersHeld /\ live \subseteq Objects
  BY Facts, Others
<1> DEFINE o == waiting[t]
<1>2. /\ o \in live /\ collector = Nobody /\ collector' = t
      /\ owner' = [owner EXCEPT ![o] = t]
      /\ waiting' = [waiting EXCEPT ![t] = Null]
      /\ UNCHANGED <<live, member, refs, pins, roots, exception, tracing>>
  BY <1>1 DEF MonitorEntered, OthersHeld, heap
<1> HIDE DEF o
<1>3. OthersTyped'
  BY <1>1, <1>2 DEF OthersTyped
<1>4. OthersHeld'
  BY <1>1, <1>2 DEF OthersHeld, OthersTyped
<1>5. /\ Tracing'
      /\ collector' \in Threads /\ mark' \in SUBSET Objects /\ gray' \in SUBSET Objects
  <2>1. mark' = {} /\ gray' = {} /\ t # Nobody
    BY <1>2, HeapAssumption DEF IInv, Tracing, Collecting, tracing
  <2> QED
    BY <1>2, <2>1 DEF Tracing, Collecting, OnlyReached
<1>6. ref' = ref /\ frames' = frames /\ roots' = roots
  BY <1>2 DEF refs
<1>7. TypeOK'
  BY <1>3, <1>5, <1>6, Facts DEF TypeOK, OthersTyped
<1>8. Held'
  BY <1>2, <1>4, <1>6, Others DEF Held, OthersHeld
<1>9. InFrames(ref, frames)' /\ BoundariesMatch'
  BY <1>6, BoundariesKept, Facts DEF IInv
<1> QED
  BY <1>5, <1>7, <1>8, <1>9 DEF IInv

(* A step outside calls and collections that leaves the heap alone: more   *)
(* may be in use, of what is on the heap.                                  *)
LEMMA OutsideStep ==
  ASSUME IInv, ~Collecting, UNCHANGED <<live, member, collector, tracing>>,
         InUse \subseteq InUse'
  PROVE  Tracing'
<1>1. mark' = {} /\ gray' = {} /\ ~Collecting' /\ OnlyReached(live)
  BY DEF IInv, Tracing, Collecting, tracing
<1>2. ASSUME NEW X \in SUBSET Objects, InUse' \subseteq X, Closed(X)'
      PROVE  live \subseteq X
  BY <1>1, <1>2 DEF OnlyReached, Closed
<1> QED
  BY <1>1, <1>2 DEF Tracing, OnlyReached

LEMMA MonitorWaitStep ==
  ASSUME IInv, NEW t \in Threads, NEW o \in Objects, MonitorWait(t, o)
  PROVE  IInv'
<1>1. /\ OthersTyped /\ OthersHeld /\ live \subseteq Objects
      /\ o \in live /\ ~Collecting /\ waiting[t] = Null
      /\ waiting' = [waiting EXCEPT ![t] = o]
      /\ UNCHANGED <<live, member, owner, ref, frames, pins, roots, exception,
                     collector, tracing>>
  BY Facts, Others DEF MonitorWait, heap, refs, Collecting
<1>2. OthersTyped'
  BY <1>1 DEF OthersTyped
<1>3. OthersHeld'
  BY <1>1 DEF OthersHeld, OthersTyped
<1>4. InUse \subseteq InUse'
  <2>1. {waiting[u] : u \in Threads} \ {Null}
          \subseteq {waiting'[u] : u \in Threads} \ {Null}
    BY <1>1 DEF OthersTyped
  <2>2. /\ {ref[h].object : h \in Strong}' = {ref[h].object : h \in Strong}
        /\ Thrown' = Thrown
        /\ {x \in Objects : owner[x] # Nobody}' = {x \in Objects : owner[x] # Nobody}
    BY <1>1 DEF Strong, Thrown
  <2>3. (UNION {Operands(u) \cup Pinned(u) : u \in Threads})'
          = UNION {Operands(u) \cup Pinned(u) : u \in Threads}
    BY <1>1 DEF Operands, Pinned
  <2> QED
    BY <2>1, <2>2, <2>3 DEF InUse
<1>5. Tracing'
  BY <1>1, <1>4, OutsideStep
<1>6. TypeOK'
  BY <1>1, <1>2, Facts DEF TypeOK, OthersTyped, tracing
<1>7. Held'
  BY <1>1, <1>3, Others DEF Held, OthersHeld
<1>8. InFrames(ref, frames)' /\ BoundariesMatch'
  BY <1>1, BoundariesKept, Facts DEF IInv
<1> QED
  BY <1>5, <1>6, <1>7, <1>8 DEF IInv

-----------------------------------------------------------------------------
(* References and frames. *)

(* A reference in no frame, of a type other than local.                    *)
LEMMA OtherRef ==
  ASSUME NEW r, NEW f, InFrames(r, f), RefsTyped(r),
         NEW g \in Handles, \A t \in Threads, i \in Nat : ~Home(f, g, t, i),
         NEW new \in Ref, new.type # "local",
         NEW q, q = [r EXCEPT ![g] = new]
  PROVE  RefsTyped(q) /\ InFrames(q, f)
<1>1. \A h \in Handles : q[h] = IF h = g THEN new ELSE r[h]
  BY DEF RefsTyped
<1>2. RefsTyped(q)
  BY DEF RefsTyped
<1>3. ASSUME NEW h \in Handles
      PROVE  q[h].type = "local"
               <=> q[h] # NoRef /\ \E u \in Threads, i \in Nat : Home(f, h, u, i)
  BY <1>1 DEF InFrames
<1>4. ASSUME NEW h \in Handles, NEW u \in Threads, NEW i \in Nat,
             Home(f, h, u, i), q[h] # NoRef
      PROVE  q[h].owner = u
  BY <1>1, <1>4 DEF InFrames
<1> QED
  BY <1>2, <1>3, <1>4 DEF InFrames

(* A reference freed, whatever it was.                                     *)
LEMMA FreedRef ==
  ASSUME NEW r, NEW f, InFrames(r, f), RefsTyped(r), NEW g \in Handles,
         NEW q, q = [r EXCEPT ![g] = NoRef]
  PROVE  RefsTyped(q) /\ InFrames(q, f)
<1>1. \A h \in Handles : q[h] = IF h = g THEN NoRef ELSE r[h]
  BY DEF RefsTyped
<1>2. RefsTyped(q)
  BY DEF RefsTyped, Ref, NoRef
<1>3. NoRef.type # "local"
  BY DEF NoRef
<1>4. ASSUME NEW h \in Handles
      PROVE  q[h].type = "local"
               <=> q[h] # NoRef /\ \E u \in Threads, i \in Nat : Home(f, h, u, i)
  BY <1>1, <1>3 DEF InFrames
<1>5. ASSUME NEW h \in Handles, NEW u \in Threads, NEW i \in Nat,
             Home(f, h, u, i), q[h] # NoRef
      PROVE  q[h].owner = u
  BY <1>1, <1>5 DEF InFrames
<1> QED
  BY <1>2, <1>4, <1>5 DEF InFrames

(* A call that may change references alone.                                *)
LEMMA RefCall ==
  ASSUME IInv, NEW t \in Threads, Call(t), RefsTyped(ref'), InFrames(ref', frames),
         RefsHeld(ref', live),
         UNCHANGED <<heap, monitors, frames, pins, roots, exception>>
  PROVE  IInv'
<1>1. BoundariesMatch'
  BY BoundariesKept DEF IInv
<1>2. OthersTyped' /\ OthersHeld' /\ live' = live
  BY Others DEF OthersTyped, OthersHeld, heap, monitors
<1>3. FramesTyped(frames') /\ InFrames(ref', frames')
  BY Facts
<1> QED
  BY <1>1, <1>2, <1>3, CallStep

LEMMA NewRefStep ==
  ASSUME IInv, NEW t \in Threads, NEW h \in Handles, NEW type \in RefTypes,
         NewRef(t, h, type)
  PROVE  IInv'
<1> DEFINE o == Resolve(t, h)
<1>1. /\ Call(t) /\ o \in live /\ o # Null /\ o \in Objects
      /\ UNCHANGED <<heap, monitors, pins, roots, exception>>
  <2>1. o \in Given(t)
    BY DEF NewRef, Given
  <2> QED
    BY <2>1, Facts DEF NewRef
<1>2. CASE type = "local"
  BY <1>1, <1>2, LocalCall DEF NewRef
<1>3. CASE type # "local"
  <2> DEFINE new == [type |-> type, object |-> o, owner |-> Nobody]
  <2>1. PICK g \in Unused(ref, frames) : ref' = [ref EXCEPT ![g] = new] /\ UNCHANGED frames
    BY <1>3 DEF NewRef
  <2>2. new \in Ref /\ new.type \notin {"local", "none"} /\ new.object = o
    BY <1>1, <1>3 DEF Ref, RefTypes
  <2> HIDE DEF new, o
  <2>3. g \in Handles /\ \A u \in Threads, i \in Nat : ~Home(frames, g, u, i)
    BY <2>1 DEF Unused, Home
  <2>4. RefsTyped(ref') /\ InFrames(ref', frames)
    BY <2>1, <2>2, <2>3, Facts, OtherRef
  <2>5. RefsHeld(ref', live)
    <3>1. \A x \in Handles : ref'[x] = IF x = g THEN new ELSE ref[x]
      BY <2>1, Facts DEF RefsTyped
    <3> QED
      BY <1>1, <2>2, <3>1, Others DEF RefsHeld
  <2> QED
    BY <1>1, <2>1, <2>4, <2>5, RefCall
<1> QED
  BY <1>2, <1>3

LEMMA DeleteRefStep ==
  ASSUME IInv, NEW t \in Threads, NEW h \in Handles, NEW type \in RefTypes,
         DeleteRef(t, h, type)
  PROVE  IInv'
<1>1. /\ Call(t) /\ ref' = [ref EXCEPT ![h] = NoRef]
      /\ UNCHANGED <<heap, monitors, frames, pins, roots, exception>>
  BY DEF DeleteRef
<1>2. RefsTyped(ref') /\ InFrames(ref', frames)
  BY <1>1, Facts, FreedRef
<1>3. RefsHeld(ref', live)
  <2>1. \A x \in Handles : ref'[x] = IF x = h THEN NoRef ELSE ref[x]
    BY <1>1, Facts DEF RefsTyped
  <2> QED
    BY <2>1, Others DEF RefsHeld, NoRef
<1> QED
  BY <1>1, <1>2, <1>3, RefCall

LEMMA GetStep ==
  ASSUME IInv, NEW t \in Threads,
         Occurred(t) \/ \E o \in Objects : GetMember(t, o)
  PROVE  IInv'
<1>1. CASE Occurred(t)
  <2>1. exception[t] \in live
    BY <1>1, Others DEF Occurred, OthersHeld
  <2> QED
    BY <1>1, <2>1, LocalCall DEF Occurred
<1>2. ASSUME NEW o \in Objects, GetMember(t, o) PROVE IInv'
  <2>1. member[o] \in live
    BY <1>2, Facts, Others DEF GetMember, OthersHeld
  <2> QED
    BY <1>2, <2>1, LocalCall DEF GetMember
<1> QED
  BY <1>1, <1>2

(* An empty frame more, which is no native boundary.                       *)
EmptyFrame == [slots |-> {}, native |-> FALSE]

LEMMA PushEmpty ==
  ASSUME NEW r, NEW f, RefsTyped(r), FramesTyped(f), InFrames(r, f),
         NEW t \in Threads, NEW g, g = PushOn(f, t, EmptyFrame)
  PROVE  /\ FramesTyped(g) /\ InFrames(r, g)
         /\ \A u \in Threads : Cardinality(Natives(g[u])) = Cardinality(Natives(f[u]))
<1>1. /\ EmptyFrame \in Frame /\ EmptyFrame.slots = {} /\ ~EmptyFrame.native
  BY DEF Frame, EmptyFrame
<1>2. /\ FramesTyped(g) /\ InFrames(r, g)
      /\ \A u \in Threads \ {t} : g[u] = f[u]
      /\ Cardinality(Natives(g[t]))
           = Cardinality(Natives(f[t])) + (IF EmptyFrame.native THEN 1 ELSE 0)
  <2>1. /\ \A h \in EmptyFrame.slots : \A u \in Threads, i \in Nat : ~Home(f, h, u, i)
        /\ \A h \in Handles :
             IF h \in EmptyFrame.slots
             THEN r[h] # NoRef /\ r[h].type = "local" /\ r[h].owner = t
             ELSE r[h] = r[h]
    BY <1>1
  <2> QED
    BY <1>1, <2>1, PushOne
<1>3. Cardinality(Natives(f[t])) \in Nat
  BY NativesFinite, FramesFacts
<1>4. Cardinality(Natives(g[t])) = Cardinality(Natives(f[t]))
  BY <1>1, <1>2, <1>3
<1> QED
  BY <1>2, <1>4

(* A call that pushes frames.                                              *)
LEMMA FrameCall ==
  ASSUME IInv, NEW t \in Threads, Call(t), FramesTyped(frames'), InFrames(ref, frames'),
         \A u \in Threads :
           Cardinality(Natives(frames'[u])) = Cardinality(Natives(frames[u])),
         UNCHANGED <<heap, monitors, ref, pins, roots, exception>>
  PROVE  IInv'
<1>1. BoundariesMatch'
  BY BoundariesKept DEF IInv
<1>2. OthersTyped' /\ OthersHeld' /\ live' = live
  BY Others DEF OthersTyped, OthersHeld, heap, monitors
<1>3. RefsTyped(ref') /\ InFrames(ref', frames') /\ RefsHeld(ref', live')
  BY <1>2, Facts, Others
<1> QED
  BY <1>1, <1>2, <1>3, CallStep

LEMMA PushStep ==
  ASSUME IInv, NEW t \in Threads, PushFrame(t) \/ EnsureCapacity(t)
  PROVE  IInv'
<1> DEFINE one == <<EmptyFrame>>
    f == PushOn(frames, t, EmptyFrame)
<1>1. /\ RefsTyped(ref) /\ FramesTyped(frames) /\ InFrames(ref, frames)
      /\ frames[t] \in Seq(Frame) /\ one \in Seq(Frame)
  <2>1. EmptyFrame \in Frame
    BY DEF Frame, EmptyFrame
  <2> QED
    BY <2>1, Facts, FramesFacts
<1>2. /\ FramesTyped(f) /\ InFrames(ref, f)
      /\ \A u \in Threads : Cardinality(Natives(f[u])) = Cardinality(Natives(frames[u]))
  BY <1>1, PushEmpty
<1>3. /\ Call(t) /\ UNCHANGED <<heap, monitors, ref, pins, roots, exception>>
      /\ EnsureCapacity(t)
           => frames[t] = <<>> /\ frames' = [frames EXCEPT ![t] = one]
      /\ PushFrame(t)
           => frames' = [frames EXCEPT
                 ![t] = IF frames[t] = <<>> THEN one \o one ELSE one \o frames[t]]
  BY DEF PushFrame, EnsureCapacity, EmptyFrame
<1>4. frames[t] = <<>> => one \o frames[t] = one
  BY <1>1
<1>5. CASE frames' = f
  BY <1>2, <1>3, <1>5, FrameCall
<1>6. CASE frames[t] = <<>> /\ frames' = [frames EXCEPT ![t] = one \o one]
  <2>1. f[t] = one
    BY <1>1, <1>4, <1>6 DEF FramesTyped, PushOn
  <2>2. frames' = PushOn(f, t, EmptyFrame)
    BY <1>1, <1>6, <2>1 DEF FramesTyped, PushOn
  <2> HIDE DEF f
  <2>3. /\ FramesTyped(frames') /\ InFrames(ref, frames')
        /\ \A u \in Threads : Cardinality(Natives(frames'[u])) = Cardinality(Natives(f[u]))
    BY <1>1, <1>2, <2>2, PushEmpty
  <2> QED
    BY <1>2, <1>3, <2>3, FrameCall
<1>7. frames' = f \/ (frames[t] = <<>> /\ frames' = [frames EXCEPT ![t] = one \o one])
  <2>1. CASE EnsureCapacity(t)
    BY <1>3, <1>4, <2>1 DEF PushOn
  <2>2. CASE PushFrame(t)
    BY <1>3, <2>2 DEF PushOn
  <2> QED
    BY <2>1, <2>2
<1> QED
  BY <1>5, <1>6, <1>7

(* Dropping the n innermost frames leaves no reference dangling.           *)
LEMMA DroppedSound ==
  ASSUME IInv, NEW t \in Threads, NEW n \in 0..Len(frames[t])
  PROVE  /\ RefsTyped(Dropped(t, n)) /\ FramesTyped(Below(t, n))
         /\ InFrames(Dropped(t, n), Below(t, n))
         /\ RefsHeld(Dropped(t, n), live)
         /\ \A u \in Threads \ {t} : Below(t, n)[u] = frames[u]
         /\ Cardinality(Natives(Below(t, n)[t])) = Cardinality(Natives(frames[t]) \ (1..n))
<1> DEFINE q == Dropped(t, n)
    g == Below(t, n)
<1>1. q = DropRefs(ref, frames, t, n) /\ g = Drop(frames, t, n)
  BY DEF Dropped, Below, DropRefs, Drop
<1>2. RefsHeld(q, live)
  BY Others DEF RefsHeld, NoRef, Dropped
<1> HIDE DEF q, g
<1>3. /\ RefsTyped(q) /\ FramesTyped(g) /\ InFrames(q, g)
      /\ \A u \in Threads \ {t} : g[u] = frames[u]
      /\ Cardinality(Natives(g[t])) = Cardinality(Natives(frames[t]) \ (1..n))
  <2>1. RefsTyped(ref) /\ FramesTyped(frames) /\ InFrames(ref, frames)
    BY Facts
  <2>2. DropKeeps(ref, frames, t, n)
    BY <2>1, DropFrames, Zenon
  <2> QED
    BY <1>1, <2>2 DEF DropKeeps
<1> QED
  BY <1>2, <1>3 DEF q, g

(* Frames end and, if an object survives, it becomes a local below.        *)
LEMMA DropAndNew ==
  ASSUME IInv, NEW t \in Threads, NEW n \in 0..Len(frames[t]),
         NEW o \in Given(t) \cup {Null}, NEW drops \in BOOLEAN,
         IF drops
         THEN ref' = Dropped(t, n) /\ frames' = Below(t, n)
         ELSE o # Null /\ NewLocalIn(Dropped(t, n), Below(t, n), t, o)
  PROVE  /\ RefsTyped(ref') /\ FramesTyped(frames') /\ InFrames(ref', frames')
         /\ RefsHeld(ref', live)
         /\ \A u \in Threads \ {t} : Natives(frames'[u]) = Natives(frames[u])
         /\ Cardinality(Natives(frames'[t])) = Cardinality(Natives(frames[t]) \ (1..n))
<1>1. CASE drops
  BY <1>1, DroppedSound
<1>2. CASE ~drops
  <2>1. o \in live /\ live \in SUBSET Objects
    BY <1>2, Facts
  <2>2. /\ RefsTyped(ref') /\ FramesTyped(frames') /\ InFrames(ref', frames')
        /\ RefsHeld(ref', live)
        /\ \A u \in Threads : Natives(frames'[u]) = Natives(Below(t, n)[u])
    BY <1>2, <2>1, DroppedSound, NewLocalStep
  <2> QED
    BY <2>2, DroppedSound
<1> QED
  BY <1>1, <1>2

LEMMA PopFrameStep ==
  ASSUME IInv, NEW t \in Threads, NEW o \in Objects \cup {Null}, PopFrame(t, o)
  PROVE  IInv'
<1> DEFINE n == Popped(t)
<1>1. /\ n \in 0..Len(frames[t])
      /\ n = 1 => ~frames[t][1].native
      /\ n \in {0, 1}
  BY Facts, FramesFacts DEF Popped
<1>2. Natives(frames[t]) \ (1..n) = Natives(frames[t])
  BY <1>1 DEF Natives
<1>3. /\ Call(t) /\ o \in Given(t) \cup {Null}
      /\ UNCHANGED <<heap, monitors, pins, roots, exception>>
      /\ IF o = Null
         THEN ref' = Dropped(t, n) /\ frames' = Below(t, n)
         ELSE NewLocalIn(Dropped(t, n), Below(t, n), t, o)
  BY DEF PopFrame
<1> HIDE DEF n
<1>4. (o = Null) \in BOOLEAN
  OBVIOUS
<1>5. /\ RefsTyped(ref') /\ FramesTyped(frames') /\ InFrames(ref', frames')
      /\ RefsHeld(ref', live)
      /\ \A u \in Threads \ {t} : Natives(frames'[u]) = Natives(frames[u])
      /\ Cardinality(Natives(frames'[t])) = Cardinality(Natives(frames[t]) \ (1..n))
  BY <1>1, <1>3, <1>4, DropAndNew
<1>6. BoundariesMatch'
  BY <1>2, <1>3, <1>5, BoundariesKept DEF IInv
<1>7. OthersTyped' /\ OthersHeld' /\ live' = live
  BY <1>3, Others DEF OthersTyped, OthersHeld, heap, monitors
<1> QED
  BY <1>3, <1>5, <1>6, <1>7, CallStep

-----------------------------------------------------------------------------
(* Native methods, threads and the machine. *)

LEMMA NativeCallStep ==
  ASSUME IInv, NEW t \in Threads, NEW os \in SUBSET Objects, NativeCall(t, os)
  PROVE  IInv'
<1>1. PICK slot \in [os -> Unused(ref, frames)] :
        /\ ref' = [h \in Handles |->
                     IF \E o \in os : slot[o] = h
                     THEN [type |-> "local", owner |-> t,
                           object |-> CHOOSE o \in os : slot[o] = h]
                     ELSE ref[h]]
        /\ frames' = [frames EXCEPT
             ![t] = <<[slots |-> {slot[o] : o \in os}, native |-> TRUE]>> \o frames[t]]
  BY DEF NativeCall
<1> DEFINE fr == [slots |-> {slot[o] : o \in os}, native |-> TRUE]
<1>2. /\ os \subseteq live /\ ~Collecting
      /\ roots' = [roots EXCEPT ![t] = <<os>> \o roots[t]]
      /\ UNCHANGED <<live, member, owner, waiting, pins, exception, collector, tracing>>
  BY Facts DEF NativeCall, Collecting, heap, monitors
<1>3. /\ RefsTyped(ref) /\ FramesTyped(frames) /\ InFrames(ref, frames)
      /\ OthersTyped /\ OthersHeld /\ RefsHeld(ref, live) /\ BoundariesMatch
      /\ live \subseteq Objects /\ Null \notin live
  BY Facts, Others DEF IInv
<1>4. /\ fr \in Frame /\ fr.slots = {slot[o] : o \in os} /\ fr.native = TRUE
      /\ \A h \in fr.slots : /\ h \in Handles /\ ref[h] = NoRef
                             /\ \A u \in Threads, i \in Nat : ~Home(frames, h, u, i)
  BY DEF Frame, Unused, Home
<1>5. frames' = PushOn(frames, t, fr)
  BY <1>1 DEF PushOn
<1>6. \A h \in Handles :
        IF h \in fr.slots
        THEN /\ ref'[h].type = "local" /\ ref'[h].owner = t
             /\ ref'[h].object \in os /\ ref'[h] \in Ref /\ ref'[h] # NoRef
        ELSE ref'[h] = ref[h]
  <2> SUFFICES ASSUME NEW h \in Handles
               PROVE  IF h \in fr.slots
                      THEN /\ ref'[h].type = "local" /\ ref'[h].owner = t
                           /\ ref'[h].object \in os /\ ref'[h] \in Ref /\ ref'[h] # NoRef
                      ELSE ref'[h] = ref[h]
    OBVIOUS
  <2>1. CASE h \in fr.slots
    <3> DEFINE o == CHOOSE o \in os : slot[o] = h
    <3>1. o \in os /\ o \in Objects
      BY <1>4, <2>1
    <3>2. ref'[h] = [type |-> "local", owner |-> t, object |-> o]
      BY <1>1, <1>4, <2>1
    <3> HIDE DEF o
    <3> QED
      BY <2>1, <3>1, <3>2 DEF Ref, RefTypes, NoRef
  <2>2. CASE h \notin fr.slots
    BY <1>1, <1>4, <2>2
  <2> QED
    BY <2>1, <2>2
<1> HIDE DEF fr
<1>7. RefsTyped(ref')
  <2>1. ref' = [h \in Handles |-> ref'[h]]
    BY <1>1
  <2>2. \A h \in Handles : ref'[h] \in Ref
    BY <1>3, <1>6 DEF RefsTyped
  <2> QED
    BY <2>1, <2>2 DEF RefsTyped
<1>8. /\ FramesTyped(frames') /\ InFrames(ref', frames')
      /\ \A u \in Threads \ {t} : frames'[u] = frames[u]
      /\ Cardinality(Natives(frames'[t]))
           = Cardinality(Natives(frames[t])) + (IF fr.native THEN 1 ELSE 0)
  BY <1>3, <1>4, <1>5, <1>6, <1>7, PushOne
<1>9. /\ roots[t] \in Seq(SUBSET Objects) /\ roots'[t] \in Seq(SUBSET Objects)
      /\ Len(roots'[t]) = Len(roots[t]) + 1 /\ Len(roots[t]) \in Nat
      /\ \A i \in 1..Len(roots[t]) + 1 :
           roots'[t][i] = IF i = 1 THEN os ELSE roots[t][i - 1]
      /\ \A u \in Threads \ {t} : roots'[u] = roots[u]
  <2>1. roots'[t] = <<os>> \o roots[t] /\ roots[t] \in Seq(SUBSET Objects)
        /\ \A u \in Threads \ {t} : roots'[u] = roots[u]
    BY <1>2, <1>3 DEF OthersTyped
  <2> QED
    BY <2>1
<1>10. OthersTyped'
  <2>1. roots' \in [Threads -> Seq(SUBSET Objects)]
    BY <1>2, <1>3, <1>9 DEF OthersTyped
  <2> QED
    BY <1>2, <1>3, <2>1 DEF OthersTyped
<1>11. OthersHeld'
  <2>1. \A u \in Threads : \A i \in 1..Len(roots'[u]) : roots'[u][i] \subseteq live
    <3>1. ASSUME NEW i \in 1..Len(roots'[t]) PROVE roots'[t][i] \subseteq live
      <4>1. CASE i = 1
        BY <1>2, <1>9, <4>1
      <4>2. CASE i # 1
        <5>1. i - 1 \in 1..Len(roots[t]) /\ roots'[t][i] = roots[t][i - 1]
          BY <1>9, <4>2
        <5>2. \A j \in 1..Len(roots[t]) : roots[t][j] \subseteq live
          BY <1>3 DEF OthersHeld
        <5> QED
          BY <5>1, <5>2
      <4> QED
        BY <4>1, <4>2
    <3> QED
      BY <1>3, <1>9, <3>1 DEF OthersHeld
  <2> QED
    BY <1>2, <1>3, <2>1 DEF OthersHeld
<1>12. BoundariesMatch'
  <2>1. \A u \in Threads : Cardinality(Natives(frames[u])) = Len(roots[u])
    BY <1>3 DEF BoundariesMatch, Natives
  <2>2. Cardinality(Natives(frames'[t])) = Len(roots'[t])
    BY <1>4, <1>8, <1>9, <2>1
  <2>3. \A u \in Threads : Cardinality(Natives(frames'[u])) = Len(roots'[u])
    BY <1>8, <1>9, <2>1, <2>2
  <2> QED
    BY <2>3 DEF BoundariesMatch, Natives
<1>13. RefsHeld(ref', live')
  BY <1>2, <1>3, <1>6 DEF RefsHeld
<1>14. InUse \subseteq InUse'
  <2>1. {ref[h].object : h \in Strong} \subseteq {ref'[h].object : h \in Strong'}
    <3>1. \A h \in Strong : h \in Strong' /\ ref'[h] = ref[h]
      BY <1>4, <1>6 DEF Strong, NoRef
    <3> QED
      BY <3>1
  <2>2. \A u \in Threads : Operands(u) \subseteq Operands(u)' /\ Pinned(u)' = Pinned(u)
    <3>1. \A u \in Threads : Pinned(u)' = Pinned(u)
      BY <1>2 DEF Pinned
    <3>2. \A u \in Threads \ {t} : Operands(u)' = Operands(u)
      BY <1>9 DEF Operands
    <3>3. Operands(t) \subseteq Operands(t)'
      <4>1. \A i \in 1..Len(roots[t]) :
              /\ i + 1 \in 1..Len(roots'[t]) /\ i + 1 # 1 /\ i + 1 - 1 = i
              /\ roots'[t][i + 1] = roots[t][i]
        BY <1>9
      <4> QED
        BY <4>1 DEF Operands
    <3> QED
      BY <3>1, <3>2, <3>3
  <2>3. /\ Thrown' = Thrown
        /\ ({waiting[u] : u \in Threads} \ {Null})' = {waiting[u] : u \in Threads} \ {Null}
        /\ {o \in Objects : owner[o] # Nobody}' = {o \in Objects : owner[o] # Nobody}
    BY <1>2 DEF Thrown
  <2>4. UNION {Operands(u) \cup Pinned(u) : u \in Threads}
          \subseteq (UNION {Operands(u) \cup Pinned(u) : u \in Threads})'
    BY <2>2
  <2> QED
    BY <2>1, <2>3, <2>4 DEF InUse
<1>15. Tracing'
  BY <1>2, <1>14, OutsideStep
<1>16. TypeOK'
  BY <1>2, <1>7, <1>8, <1>10, Facts DEF TypeOK, OthersTyped, RefsTyped, FramesTyped, tracing
<1>17. Held'
  BY <1>11, <1>13 DEF Held, OthersHeld
<1> QED
  BY <1>8, <1>12, <1>15, <1>16, <1>17 DEF IInv

(* A method that is in progress has a boundary, and above it no other.     *)
LEMMA BoundaryFound ==
  ASSUME IInv, NEW t \in Threads, roots[t] # <<>>
  PROVE  /\ Boundary(t) \in 1..Len(frames[t])
         /\ Cardinality(Natives(frames[t]) \ (1..Boundary(t))) = Len(Tail(roots[t]))
<1> DEFINE N == Natives(frames[t])
    n == Boundary(t)
<1>1. frames[t] \in Seq(Frame) /\ Len(frames[t]) \in Nat /\ Cardinality(N) = Len(roots[t])
  BY Facts, FramesFacts DEF IInv, BoundariesMatch, Natives
<1>2. roots[t] \in Seq(SUBSET Objects)
  BY Others DEF OthersTyped
<1>3. Len(roots[t]) # 0 /\ Len(Tail(roots[t])) = Len(roots[t]) - 1
  BY <1>2
<1>4. IsFiniteSet(N) /\ N # {} /\ N \in SUBSET Nat
  <2>1. Natives(frames[t]) \in SUBSET (1..Len(frames[t]))
    BY DEF Natives
  <2>2. Cardinality(N) # 0
    BY <1>1, <1>3
  <2> QED
    BY <1>1, <2>1, <2>2, NativesFinite
<1>5. \E m \in 1..Len(frames[t]) :
        frames[t][m].native /\ \A i \in 1..m - 1 : ~frames[t][i].native
  <2>1. PICK m \in N : \A k \in N : m <= k
    BY <1>4, LeastNatural
  <2>2. m \in 1..Len(frames[t]) /\ frames[t][m].native
    BY DEF Natives
  <2>3. ASSUME NEW i \in 1..m - 1, frames[t][i].native PROVE FALSE
    <3>1. i \in 1..Len(frames[t]) /\ i < m
      BY <1>1, <2>2
    <3>2. i \in N
      BY <2>3, <3>1 DEF Natives
    <3> QED
      BY <1>1, <2>1, <2>2, <3>1, <3>2
  <2> QED
    BY <2>2, <2>3
<1>6. /\ n \in 1..Len(frames[t]) /\ frames[t][n].native
      /\ \A i \in 1..n - 1 : ~frames[t][i].native
  BY <1>5 DEF Boundary
<1> HIDE DEF n
<1>7. N \ (1..n) = N \ {n}
  <2>1. n \in 1..n
    BY <1>1, <1>6
  <2>2. ASSUME NEW i \in N, i \in 1..n, i # n PROVE FALSE
    <3>1. i \in 1..n - 1
      BY <1>1, <1>6, <2>2
    <3> QED
      BY <1>6, <3>1 DEF Natives
  <2> QED
    BY <2>1, <2>2
<1>8. Cardinality(N \ {n}) = Cardinality(N) - 1
  <2>1. n \in N
    BY <1>6 DEF Natives
  <2> QED
    BY <1>4, <2>1, FS_RemoveElement
<1> QED
  BY <1>1, <1>3, <1>6, <1>7, <1>8 DEF n

LEMMA TailFacts ==
  ASSUME NEW S, NEW s \in Seq(S), s # <<>>
  PROVE  /\ Tail(s) \in Seq(S)
         /\ \A i \in 1..Len(Tail(s)) :
              i + 1 \in 1..Len(s) /\ Tail(s)[i] = s[i + 1]
<1>1. Tail(s) \in Seq(S) /\ Len(Tail(s)) = Len(s) - 1 /\ Len(s) \in Nat
  BY HeadTailProperties
<1>2. \A i \in 1..Len(Tail(s)) : i + 1 \in 1..Len(s) /\ Tail(s)[i] = s[i + 1]
  BY <1>1, HeadTailProperties
<1> QED
  BY <1>1, <1>2

LEMMA NativeReturnStep ==
  ASSUME IInv, NEW t \in Threads, NEW o \in Objects \cup {Null}, NativeReturn(t, o)
  PROVE  IInv'
<1> DEFINE n == Boundary(t)
    drops == o = Null \/ exception[t] # Null
<1>1. /\ Call(t) /\ o \in Given(t) \cup {Null} /\ roots[t] # <<>>
      /\ roots' = [roots EXCEPT ![t] = Tail(roots[t])]
      /\ UNCHANGED <<heap, monitors, pins, exception>>
      /\ IF drops
         THEN ref' = Dropped(t, n) /\ frames' = Below(t, n)
         ELSE NewLocalIn(Dropped(t, n), Below(t, n), t, o)
  BY DEF NativeReturn
<1>2. /\ n \in 1..Len(frames[t])
      /\ Cardinality(Natives(frames[t]) \ (1..n)) = Len(Tail(roots[t]))
  BY <1>1, BoundaryFound
<1>3. n \in 0..Len(frames[t])
  BY <1>2, Facts, FramesFacts
<1> HIDE DEF n
<1>4. drops \in BOOLEAN /\ (~drops => o # Null)
  OBVIOUS
<1> HIDE DEF drops
<1>5. /\ RefsTyped(ref') /\ FramesTyped(frames') /\ InFrames(ref', frames')
      /\ RefsHeld(ref', live)
      /\ \A u \in Threads \ {t} : Natives(frames'[u]) = Natives(frames[u])
      /\ Cardinality(Natives(frames'[t])) = Cardinality(Natives(frames[t]) \ (1..n))
  BY <1>1, <1>3, <1>4, DropAndNew
<1>6. /\ OthersTyped /\ OthersHeld /\ live' = live
      /\ UNCHANGED <<member, owner, waiting>>
      /\ roots[t] \in Seq(SUBSET Objects)
  BY <1>1, Others DEF OthersTyped, heap, monitors
<1>7. /\ roots'[t] = Tail(roots[t]) /\ roots'[t] \in Seq(SUBSET Objects)
      /\ \A i \in 1..Len(roots'[t]) :
           i + 1 \in 1..Len(roots[t]) /\ roots'[t][i] = roots[t][i + 1]
      /\ \A u \in Threads \ {t} : roots'[u] = roots[u]
  <2>1. roots'[t] = Tail(roots[t]) /\ \A u \in Threads \ {t} : roots'[u] = roots[u]
    BY <1>1, <1>6 DEF OthersTyped
  <2>2. /\ Tail(roots[t]) \in Seq(SUBSET Objects)
        /\ \A i \in 1..Len(Tail(roots[t])) :
             i + 1 \in 1..Len(roots[t]) /\ Tail(roots[t])[i] = roots[t][i + 1]
    <3>1. roots[t] \in Seq(SUBSET Objects) /\ roots[t] # <<>>
      BY <1>1, <1>6
    <3> QED
      BY <3>1, TailFacts
  <2> QED
    BY <2>1, <2>2
<1>8. OthersTyped'
  BY <1>1, <1>6, <1>7 DEF OthersTyped
<1>9. OthersHeld'
  <2>1. \A u \in Threads : \A i \in 1..Len(roots'[u]) : roots'[u][i] \subseteq live
    <3>1. ASSUME NEW i \in 1..Len(roots'[t]) PROVE roots'[t][i] \subseteq live
      BY <1>6, <1>7 DEF OthersHeld
    <3> QED
      BY <1>6, <1>7, <3>1 DEF OthersHeld
  <2> QED
    BY <1>1, <1>6, <2>1 DEF OthersHeld
<1>10. BoundariesMatch'
  <2>1. \A u \in Threads : Cardinality(Natives(frames[u])) = Len(roots[u])
    BY DEF IInv, BoundariesMatch, Natives
  <2>2. \A u \in Threads : Cardinality(Natives(frames'[u])) = Len(roots'[u])
    BY <1>2, <1>5, <1>7, <2>1
  <2> QED
    BY <2>2 DEF BoundariesMatch, Natives
<1> QED
  BY <1>1, <1>5, <1>6, <1>8, <1>9, <1>10, CallStep

LEMMA ThreadExitsStep ==
  ASSUME IInv, NEW t \in Threads, ThreadExits(t)
  PROVE  IInv'
<1> DEFINE n == Len(frames[t])
<1>1. /\ Call(t) /\ ref' = Dropped(t, n) /\ frames' = [frames EXCEPT ![t] = <<>>]
      /\ pins' = [pins EXCEPT ![t] = [o \in Objects |-> 0]]
      /\ roots' = [roots EXCEPT ![t] = <<>>]
      /\ exception' = [exception EXCEPT ![t] = Null]
      /\ owner' = [o \in Objects |-> IF owner[o] = t THEN Nobody ELSE owner[o]]
      /\ UNCHANGED <<live, member, waiting>>
  BY DEF ThreadExits, heap
<1>2. frames[t] \in Seq(Frame) /\ n \in 0..Len(frames[t])
  BY Facts, FramesFacts
<1>3. frames' = Below(t, n)
  <2>1. SubSeq(frames[t], n + 1, Len(frames[t])) = <<>>
    BY <1>2, SubSeqEmpty
  <2> QED
    BY <1>1, <2>1 DEF Below
<1> HIDE DEF n
<1>4. /\ RefsTyped(ref') /\ FramesTyped(frames') /\ InFrames(ref', frames')
      /\ RefsHeld(ref', live)
      /\ \A u \in Threads \ {t} : frames'[u] = frames[u]
  BY <1>1, <1>2, <1>3, DroppedSound
<1>5. OthersTyped /\ OthersHeld /\ FramesTyped(frames)
  BY Facts, Others
<1>6. OthersTyped'
  BY <1>1, <1>5 DEF OthersTyped
<1>7. OthersHeld'
  <2>1. \A u \in Threads \ {t} :
          pins'[u] = pins[u] /\ roots'[u] = roots[u] /\ exception'[u] = exception[u]
    BY <1>1, <1>5 DEF OthersTyped
  <2>2. /\ \A o \in Objects : pins'[t][o] = 0
        /\ Len(roots'[t]) = 0 /\ exception'[t] = Null
    BY <1>1, <1>5 DEF OthersTyped
  <2>3. \A o \in Objects : owner'[o] # Nobody => owner[o] # Nobody
    BY <1>1
  <2> QED
    BY <1>1, <1>5, <2>1, <2>2, <2>3 DEF OthersHeld
<1>8. BoundariesMatch'
  <2>1. \A u \in Threads : Cardinality(Natives(frames[u])) = Len(roots[u])
    BY DEF IInv, BoundariesMatch, Natives
  <2>2. Natives(frames'[t]) = {} /\ roots'[t] = <<>>
    BY <1>1, <1>5 DEF OthersTyped, FramesTyped, Natives
  <2>3. \A u \in Threads \ {t} : roots'[u] = roots[u]
    BY <1>1, <1>5 DEF OthersTyped
  <2>4. Cardinality(Natives(frames'[t])) = Len(roots'[t])
    BY <2>2, FS_EmptySet
  <2>5. \A u \in Threads : Cardinality(Natives(frames'[u])) = Len(roots'[u])
    BY <1>4, <2>1, <2>3, <2>4
  <2> QED
    BY <2>5 DEF BoundariesMatch, Natives
<1> QED
  BY <1>1, <1>4, <1>6, <1>7, <1>8, CallStep

LEMMA VmCleanupStep ==
  ASSUME IInv, VmCleanup
  PROVE  IInv'
<1>1. /\ collector' = Nobody /\ collector = Nobody /\ live' = {}
      /\ member' = [o \in Objects |-> Null] /\ ref' = [h \in Handles |-> NoRef]
      /\ UNCHANGED <<owner, waiting, frames, pins, roots, exception, mark, gray>>
      /\ owner = [o \in Objects |-> Nobody]
      /\ \A t \in Threads : /\ frames[t] = <<>> /\ roots[t] = <<>>
                            /\ waiting[t] = Null /\ exception[t] = Null
                            /\ pins[t] = [o \in Objects |-> 0]
  BY DEF VmCleanup, monitors, tracing
<1>2. TypeOK /\ mark = {} /\ gray = {}
  BY <1>1 DEF IInv, Tracing, Collecting
<1>3. NoRef \in Ref /\ NoRef.type = "none" /\ NoRef.object = Null
  BY DEF NoRef, Ref
<1>4. TypeOK'
  BY <1>1, <1>2, <1>3 DEF TypeOK
<1>5. Held'
  <2>1. RefsHeld(ref', live')
    BY <1>1, <1>3 DEF RefsHeld
  <2>2. \A t \in Threads : Len(roots'[t]) = 0
    BY <1>1
  <2> QED
    BY <1>1, <2>1, <2>2 DEF Held
<1>6. Tracing'
  BY <1>1, <1>2 DEF Tracing, Collecting, OnlyReached
<1>7. InFrames(ref', frames')
  <2>1. \A h \in Handles, t \in Threads, i \in Nat : ~Home(frames', h, t, i)
    BY <1>1 DEF Home
  <2> QED
    BY <1>1, <1>3, <2>1 DEF InFrames
<1>8. BoundariesMatch'
  BY <1>1 DEF IInv, BoundariesMatch
<1> QED
  BY <1>4, <1>5, <1>6, <1>7, <1>8 DEF IInv

-----------------------------------------------------------------------------
(* The collection. *)

(* What is in use are the roots, and they are on the heap.                 *)
LEMMA RootsInUse ==
  ASSUME TypeOK, Held
  PROVE  InUse = RootSet /\ RootSet \subseteq live
<1>1. Entered = {o \in Objects : owner[o] # Nobody}
  BY DEF Entered, Held, TypeOK
<1>2. Awaited = {waiting[t] : t \in Threads} \ {Null}
  BY DEF Awaited
<1>3. InUse = RootSet
  BY <1>1, <1>2 DEF InUse, RootSet
<1>4. /\ Entered \subseteq live /\ Awaited \subseteq live /\ Thrown \subseteq live
      /\ {ref[h].object : h \in Strong} \subseteq live
  BY DEF Entered, Awaited, Thrown, Strong, Held, RefsHeld
<1>5. \A t \in Threads : Operands(t) \subseteq live /\ Pinned(t) \subseteq live
  BY DEF Operands, Pinned, Held
<1> QED
  BY <1>3, <1>4, <1>5 DEF RootSet

(* And each is marked as soon as anything is, so what they name survives.  *)
LEMMA RootsAre ==
  /\ \A o \in live : owner[o] # Nobody => o \in RootSet
  /\ \A t \in Threads :
       /\ waiting[t] \in RootSet \cup {Null}
       /\ exception[t] \in RootSet \cup {Null}
       /\ \A o \in Objects : pins[t][o] > 0 => o \in RootSet
       /\ \A i \in 1..Len(roots[t]) : roots[t][i] \subseteq RootSet
  /\ \A h \in Handles : ref[h].type \in {"local", "global"} => ref[h].object \in RootSet
<1>1. \A t \in Threads : Operands(t) \subseteq RootSet /\ Pinned(t) \subseteq RootSet
  BY DEF RootSet
<1>2. \A t \in Threads : \A i \in 1..Len(roots[t]) : roots[t][i] \subseteq RootSet
  BY <1>1 DEF Operands
<1>3. \A t \in Threads : \A o \in Objects : pins[t][o] > 0 => o \in RootSet
  BY <1>1 DEF Pinned
<1> QED
  BY <1>2, <1>3 DEF RootSet, Entered, Awaited, Thrown, Strong

(* A step of the collector before the last one changes only the marks.     *)
LEMMA MarkingStep ==
  ASSUME IInv, Collecting,
         UNCHANGED <<heap, monitors, refs, pins, roots, exception, collector>>,
         mark' \in SUBSET live, gray' \subseteq mark',
         RootSet \subseteq mark',
         \A o \in mark' \ gray' : member[o] \in mark' \cup {Null},
         OnlyReached(mark')
  PROVE  IInv'
<1>1. UNCHANGED <<live, member, owner, waiting, ref, frames, pins, roots,
                  exception, collector>>
  BY DEF heap, monitors, refs
<1>2. RootSet' = RootSet /\ Collecting'
  BY <1>1 DEF RootSet, Entered, Awaited, Thrown, Strong, Operands, Pinned, Collecting
<1>3. OnlyReached(mark)'
  <2>1. InUse' = InUse
    BY <1>1 DEF InUse, Thrown, Strong, Operands, Pinned
  <2>2. \A X \in SUBSET Objects : Closed(X)' <=> Closed(X)
    BY <1>1 DEF Closed
  <2> QED
    BY <2>1, <2>2 DEF OnlyReached
<1>4. Tracing'
  BY <1>1, <1>2, <1>3 DEF Tracing
<1>5. TypeOK'
  BY <1>1 DEF IInv, TypeOK
<1>6. Held' /\ InFrames(ref', frames') /\ BoundariesMatch'
  BY <1>1 DEF IInv, Held, BoundariesMatch
<1> QED
  BY <1>4, <1>5, <1>6 DEF IInv

LEMMA MarkRootsStep ==
  ASSUME IInv, MarkRoots
  PROVE  IInv'
<1>1. /\ Collecting /\ mark' = RootSet /\ gray' = RootSet
      /\ UNCHANGED <<heap, monitors, refs, pins, roots, exception, collector>>
  BY DEF MarkRoots
<1>2. InUse = RootSet /\ RootSet \subseteq live
  BY RootsInUse DEF IInv
<1>3. OnlyReached(mark')
  BY <1>1, <1>2 DEF OnlyReached
<1> QED
  BY <1>1, <1>2, <1>3, MarkingStep

LEMMA MarkChildrenStep ==
  ASSUME IInv, MarkChildren
  PROVE  IInv'
<1>1. PICK o \in gray :
        /\ mark' = mark \cup ({member[o]} \ (mark \cup {Null}))
        /\ gray' = (gray \ {o}) \cup ({member[o]} \ (mark \cup {Null}))
  BY DEF MarkChildren
<1>2. UNCHANGED <<heap, monitors, refs, pins, roots, exception, collector>>
  BY DEF MarkChildren
<1>3. /\ Collecting /\ gray \subseteq mark /\ mark \subseteq live
      /\ RootSet \subseteq mark /\ OnlyReached(mark)
      /\ \A x \in mark \ gray : member[x] \in mark \cup {Null}
  BY <1>1 DEF IInv, Tracing
<1>4. o \in mark /\ member[o] \in live \cup {Null}
  BY <1>1, <1>3 DEF IInv, Held
<1>5. mark' \in SUBSET live /\ gray' \subseteq mark'
  BY <1>1, <1>3, <1>4
<1>6. \A x \in mark' \ gray' : member[x] \in mark' \cup {Null}
  BY <1>1, <1>3
<1>7. OnlyReached(mark')
  <2>1. ASSUME NEW X \in SUBSET Objects, InUse \subseteq X, Closed(X)
        PROVE  mark' \subseteq X
    <3>1. mark \subseteq X
      BY <1>3, <2>1 DEF OnlyReached
    <3> QED
      BY <1>1, <1>4, <2>1, <3>1 DEF Closed
  <2> QED
    BY <2>1 DEF OnlyReached
<1> QED
  BY <1>1, <1>2, <1>3, <1>5, <1>6, <1>7, MarkingStep

(* Weak references cleared, and all others as they were.                   *)
LEMMA ClearedRefs ==
  ASSUME IInv, Collecting, gray = {}, RootSet \subseteq mark,
         ref' = [h \in Handles |-> Cleared(h)]
  PROVE  /\ \A h \in Handles :
              /\ ref'[h] \in Ref
              /\ ref'[h].type = ref[h].type /\ ref'[h].owner = ref[h].owner
              /\ ref'[h] = NoRef <=> ref[h] = NoRef
              /\ ref[h].type # "weak" => ref'[h] = ref[h]
         /\ RefsTyped(ref') /\ RefsHeld(ref', mark) /\ InFrames(ref', frames)
<1>1. ref \in [Handles -> Ref] /\ RefsHeld(ref, live) /\ InFrames(ref, frames)
  BY DEF IInv, TypeOK, Held
<1>2. ASSUME NEW h \in Handles
      PROVE  /\ ref'[h] \in Ref
             /\ ref'[h].type = ref[h].type /\ ref'[h].owner = ref[h].owner
             /\ ref'[h] = NoRef <=> ref[h] = NoRef
             /\ ref[h].type # "weak" => ref'[h] = ref[h]
             /\ ref'[h].object
                  = IF ref[h].type = "weak" /\ ref[h].object \notin mark
                    THEN Null ELSE ref[h].object
  <2>1. ref'[h] = Cleared(h) /\ ref[h] \in Ref
    BY <1>1
  <2>2. CASE ref[h].type = "weak" /\ ref[h].object \notin mark
    BY <2>1, <2>2 DEF Cleared, Ref, NoRef
  <2>3. CASE ~(ref[h].type = "weak" /\ ref[h].object \notin mark)
    BY <2>1, <2>3 DEF Cleared
  <2> QED
    BY <2>2, <2>3
<1>3. RefsTyped(ref')
  BY <1>2 DEF RefsTyped
<1>4. RefsHeld(ref', mark)
  <2>1. ASSUME NEW h \in Handles
        PROVE  /\ ref'[h].object \in mark \cup {Null}
               /\ ref'[h].type = "none" => ref'[h] = NoRef
               /\ ref'[h].type \in {"local", "global"} => ref'[h].object # Null
    <3>1. ref[h].type \in {"local", "global"} => ref[h].object \in mark
      BY RootsAre
    <3>2. ref[h].type \in {"local", "global", "weak", "none"}
      BY <1>1 DEF Ref, RefTypes
    <3>3. ref[h].type = "none" => ref[h].object = Null
      BY <1>1 DEF RefsHeld, NoRef
    <3> QED
      BY <1>1, <1>2, <3>1, <3>2, <3>3 DEF RefsHeld
  <2> QED
    BY <2>1 DEF RefsHeld
<1>5. InFrames(ref', frames)
  <2>1. \A h \in Handles :
          ref'[h].type = "local"
            <=> ref'[h] # NoRef /\ \E t \in Threads, i \in Nat : Home(frames, h, t, i)
    BY <1>1, <1>2 DEF InFrames
  <2>2. \A h \in Handles, t \in Threads, i \in Nat :
          Home(frames, h, t, i) /\ ref'[h] # NoRef => ref'[h].owner = t
    BY <1>1, <1>2 DEF InFrames
  <2> QED
    BY <1>1, <2>1, <2>2 DEF InFrames
<1> QED
  BY <1>2, <1>3, <1>4, <1>5

LEMMA SweepStep ==
  ASSUME IInv, Sweep
  PROVE  IInv'
<1>1. /\ Collecting /\ gray = {} /\ collector' = Nobody /\ mark' = {} /\ gray' = {}
      /\ ref' = [h \in Handles |-> Cleared(h)]
      /\ live' = live \cap mark
      /\ member' = [o \in Objects |-> IF o \in live \ mark THEN Null ELSE member[o]]
      /\ UNCHANGED <<owner, waiting, frames, pins, roots, exception>>
  BY DEF Sweep, monitors
<1>2. /\ TypeOK /\ Held /\ InFrames(ref, frames) /\ BoundariesMatch
      /\ mark \subseteq live /\ OnlyReached(mark)
      /\ \A o \in mark : member[o] \in mark \cup {Null}
      /\ mark # {} => RootSet \subseteq mark
  BY <1>1 DEF IInv, Tracing
<1>3. RootSet \subseteq mark
  BY <1>2 DEF Sweep
<1>4. live' = mark /\ \A o \in mark : member'[o] = member[o]
  BY <1>1, <1>2 DEF TypeOK
<1>5. /\ RefsTyped(ref') /\ RefsHeld(ref', live') /\ InFrames(ref', frames')
      /\ \A h \in Handles :
           /\ ref'[h].type = ref[h].type
           /\ ref[h].type # "weak" => ref'[h] = ref[h]
  BY <1>1, <1>3, <1>4, ClearedRefs
<1>6. TypeOK'
  BY <1>1, <1>2, <1>5, HeapAssumption DEF TypeOK, RefsTyped
<1>7. Held'
  <2>1. \A o \in Objects : owner'[o] # Nobody => o \in live'
    BY <1>1, <1>2, <1>3, <1>4, RootsAre DEF Held
  <2>2. \A o \in live' : member'[o] \in live' \cup {Null}
    BY <1>2, <1>4
  <2>3. \A t \in Threads :
          /\ waiting'[t] \in live' \cup {Null}
          /\ exception'[t] \in live' \cup {Null}
          /\ \A o \in Objects : pins'[t][o] > 0 => o \in live'
          /\ \A i \in 1..Len(roots'[t]) : roots'[t][i] \subseteq live'
    BY <1>1, <1>3, <1>4, RootsAre
  <2> QED
    BY <1>5, <2>1, <2>2, <2>3 DEF Held
<1>8. OnlyReached(live)'
  <2>1. InUse' = InUse /\ InUse = RootSet
    <3>1. Strong' = Strong /\ \A h \in Strong : ref'[h] = ref[h]
      BY <1>5 DEF Strong
    <3>2. {ref[h].object : h \in Strong}' = {ref[h].object : h \in Strong}
      BY <3>1
    <3>3. /\ Thrown' = Thrown
          /\ \A t \in Threads : Operands(t)' = Operands(t) /\ Pinned(t)' = Pinned(t)
      BY <1>1 DEF Thrown, Operands, Pinned
    <3>4. /\ {waiting[t] : t \in Threads}' = {waiting[t] : t \in Threads}
          /\ {o \in Objects : owner[o] # Nobody}' = {o \in Objects : owner[o] # Nobody}
      BY <1>1
    <3>5. (UNION {Operands(t) \cup Pinned(t) : t \in Threads})'
            = UNION {Operands(t) \cup Pinned(t) : t \in Threads}
      BY <3>3
    <3>6. InUse' = InUse
      BY <3>2, <3>3, <3>4, <3>5 DEF InUse
    <3> QED
      BY <1>2, <3>6, RootsInUse
  <2>2. ASSUME NEW X \in SUBSET Objects, InUse' \subseteq X, Closed(X)'
        PROVE  mark \subseteq X
    <3>1. InUse \subseteq X \cap mark /\ X \cap mark \in SUBSET Objects
      BY <1>3, <2>1, <2>2
    <3>2. Closed(X \cap mark)
      BY <1>2, <1>4, <2>2 DEF Closed
    <3>3. mark \subseteq X \cap mark
      BY <1>2, <3>1, <3>2 DEF OnlyReached
    <3> QED
      BY <3>3
  <2> QED
    BY <1>4, <2>2 DEF OnlyReached
<1>9. Tracing'
  BY <1>1, <1>8 DEF Tracing, Collecting
<1>10. BoundariesMatch'
  BY <1>1, <1>2 DEF BoundariesMatch
<1> QED
  BY <1>5, <1>6, <1>7, <1>9, <1>10 DEF IInv

-----------------------------------------------------------------------------
LEMMA InitIInv == Init => IInv
<1> SUFFICES ASSUME Init PROVE IInv
  OBVIOUS
<1>1. NoRef \in Ref /\ NoRef.type = "none" /\ NoRef.object = Null
  BY DEF NoRef, Ref
<1>2. TypeOK
  BY <1>1 DEF Init, TypeOK
<1>3. Held
  BY <1>1 DEF Init, Held, RefsHeld
<1>4. Tracing
  BY DEF Init, Tracing, Collecting, OnlyReached
<1>5. InFrames(ref, frames)
  <2>1. \A h \in Handles, t \in Threads, i \in Nat : ~Home(frames, h, t, i)
    BY DEF Init, Home
  <2> QED
    BY <1>1, <2>1 DEF Init, InFrames
<1>6. BoundariesMatch
  <2>1. \A t \in Threads : Natives(frames[t]) = {} /\ Len(roots[t]) = 0
    BY DEF Init, Natives
  <2> QED
    BY <2>1, FS_EmptySet DEF BoundariesMatch, Natives
<1> QED
  BY <1>2, <1>3, <1>4, <1>5, <1>6 DEF IInv

LEMMA GuestStep ==
  ASSUME IInv, NEW t \in Threads, Guest(t)
  PROVE  IInv'
<1>1. CASE NewObject(t)
  BY <1>1, NewObjectStep
<1>2. CASE \E h \in Handles, type \in RefTypes : NewRef(t, h, type) \/ DeleteRef(t, h, type)
  BY <1>2, NewRefStep, DeleteRefStep
<1>3. CASE PushFrame(t) \/ EnsureCapacity(t)
  BY <1>3, PushStep
<1>4. CASE \E o \in Objects \cup {Null} : PopFrame(t, o) \/ NativeReturn(t, o)
  BY <1>4, PopFrameStep, NativeReturnStep
<1>5. CASE \E o \in Objects, p \in Objects \cup {Null} : SetMember(t, o, p)
  BY <1>5, QuietSteps
<1>6. CASE \E o \in Objects :
             \/ GetMember(t, o) \/ Pin(t, o) \/ Unpin(t, o) \/ MonitorEnter(t, o)
             \/ MonitorWait(t, o) \/ MonitorExit(t, o) \/ Throw(t, o)
  <2>1. PICK o \in Objects :
          \/ GetMember(t, o) \/ Pin(t, o) \/ Unpin(t, o) \/ MonitorEnter(t, o)
          \/ MonitorWait(t, o) \/ MonitorExit(t, o) \/ Throw(t, o)
    BY <1>6
  <2>2. CASE GetMember(t, o)
    BY <2>2, GetStep
  <2>3. CASE MonitorWait(t, o)
    BY <2>3, MonitorWaitStep
  <2>4. CASE \/ Pin(t, o) \/ Unpin(t, o) \/ MonitorEnter(t, o)
             \/ MonitorExit(t, o) \/ Throw(t, o)
    <3>1. Null \in Objects \cup {Null}
      OBVIOUS
    <3> QED
      BY <2>4, <3>1, QuietSteps
  <2> QED
    BY <2>1, <2>2, <2>3, <2>4
<1>7. CASE MonitorEntered(t)
  BY <1>7, MonitorEnteredStep
<1>8. CASE Raise(t)
  BY <1>8, RaiseStep
<1>9. CASE Clear(t)
  <2>1. PICK o \in live : TRUE
    BY <1>9, Others DEF Clear, OthersHeld
  <2>2. o \in Objects /\ Null \in Objects \cup {Null}
    BY Facts
  <2> QED
    BY <1>9, <2>2, QuietSteps
<1>10. CASE Occurred(t)
  BY <1>10, GetStep
<1>11. CASE \E os \in SUBSET Objects : NativeCall(t, os)
  BY <1>11, NativeCallStep
<1>12. CASE ThreadExits(t)
  BY <1>12, ThreadExitsStep
<1> QED
  BY <1>1, <1>2, <1>3, <1>4, <1>5, <1>6, <1>7, <1>8, <1>9, <1>10, <1>11, <1>12 DEF Guest

LEMMA NextIInv == IInv /\ [Next]_vars => IInv'
<1> SUFFICES ASSUME IInv, [Next]_vars PROVE IInv'
  OBVIOUS
<1>1. CASE Collect
  BY <1>1, MarkRootsStep, MarkChildrenStep, SweepStep DEF Collect
<1>2. CASE VmCleanup
  BY <1>2, VmCleanupStep
<1>3. CASE \E t \in Threads : Guest(t)
  BY <1>3, GuestStep
<1>4. CASE UNCHANGED vars
  <2>1. /\ UNCHANGED <<live, member, owner, waiting, ref, frames, pins, roots>>
        /\ UNCHANGED <<exception, collector, mark, gray>>
    BY <1>4 DEF vars
  <2>2. TypeOK' /\ Held' /\ InFrames(ref, frames)' /\ BoundariesMatch'
    BY <2>1 DEF IInv, TypeOK, Held, BoundariesMatch
  <2>3. InUse' = InUse /\ RootSet' = RootSet /\ Collecting' = Collecting
    BY <2>1 DEF InUse, RootSet, Entered, Awaited, Thrown, Strong, Operands, Pinned,
                Collecting
  <2>4. \A X \in SUBSET Objects : Closed(X)' <=> Closed(X)
    BY <2>1 DEF Closed
  <2>5. Tracing'
    BY <2>1, <2>3, <2>4 DEF IInv, Tracing, OnlyReached
  <2> QED
    BY <2>2, <2>5 DEF IInv
<1> QED
  BY <1>1, <1>2, <1>3, <1>4 DEF Next

LEMMA SpecIInv == Spec => []IInv
BY InitIInv, NextIInv, PTL DEF Spec

-----------------------------------------------------------------------------
(* NothingDangles: a handle, a weak one included, a retained buffer, an    *)
(* operand of a native method, a pending exception and a member never name *)
(* an object that is not on the heap, also while it is collected.          *)
THEOREM HandlesSound == Spec => []NothingDangles
<1>1. IInv => NothingDangles
  BY RootsInUse DEF IInv, Held, RefsHeld, NothingDangles
<1> QED
  BY <1>1, SpecIInv, PTL

(* FramesExact: a local lies in one frame of its owner, and a thread has   *)
(* a native boundary for each native method it is in.                      *)
THEOREM FramesStayExact == Spec => []FramesExact
<1>1. ASSUME IInv PROVE FramesExact
  <2>1. InFrames(ref, frames) /\ BoundariesMatch /\ FramesTyped(frames)
    BY <1>1 DEF IInv, TypeOK, FramesTyped
  <2>2. \A t \in Threads : DOMAIN frames[t] = 1..Len(frames[t]) /\ Len(frames[t]) \in Nat
    BY <2>1 DEF FramesTyped
  <2>3. ASSUME NEW h \in Handles, NEW homes,
               homes = {p \in UNION {{t} \X DOMAIN frames[t] : t \in Threads} :
                          h \in frames[p[1]][p[2]].slots}
        PROVE  /\ Cardinality(homes) <= 1
               /\ ref[h].type = "local" <=> homes # {} /\ ref[h] # NoRef
               /\ \A p \in homes : ref[h] # NoRef => p[1] = ref[h].owner
    <3>1. ASSUME NEW p \in homes
          PROVE  /\ p = <<p[1], p[2]>> /\ p[1] \in Threads /\ p[2] \in Nat
                 /\ Home(frames, h, p[1], p[2])
      BY <2>2, <2>3 DEF Home
    <3>2. ASSUME NEW t \in Threads, NEW i \in Nat, Home(frames, h, t, i)
          PROVE  <<t, i>> \in homes
      <4>1. <<t, i>> \in {t} \X DOMAIN frames[t] /\ h \in frames[t][i].slots
        BY <2>2, <3>2 DEF Home
      <4> QED
        BY <2>3, <4>1
    <3>3. \A p, q \in homes : p = q
      BY <2>1, <3>1 DEF InFrames
    <3>4. Cardinality(homes) <= 1
      <4>1. CASE homes = {}
        BY <4>1, FS_EmptySet
      <4>2. CASE homes # {}
        <5>1. PICK p \in homes : TRUE
          BY <4>2
        <5>2. homes = {p}
          BY <3>3
        <5>3. Cardinality({p}) = 1
          BY FS_Singleton
        <5> QED
          BY <5>2, <5>3
      <4> QED
        BY <4>1, <4>2
    <3>5. homes # {} <=> \E t \in Threads, i \in Nat : Home(frames, h, t, i)
      BY <3>1, <3>2
    <3>6. ref[h].type = "local" <=> homes # {} /\ ref[h] # NoRef
      BY <2>1, <3>5 DEF InFrames
    <3>7. \A p \in homes : ref[h] # NoRef => p[1] = ref[h].owner
      BY <2>1, <3>1 DEF InFrames
    <3> QED
      BY <3>4, <3>6, <3>7
  <2>4. EachInItsFrame
    BY <2>3 DEF EachInItsFrame
  <2> QED
    BY <2>1, <2>4 DEF FramesExact
<1> QED
  BY <1>1, SpecIInv, PTL

-----------------------------------------------------------------------------
(* What becomes of locals in a step. *)

LEMMA LocalsOwned ==
  ASSUME IInv, NEW h \in Handles, ref[h].type = "local"
  PROVE  /\ ref[h] # NoRef
         /\ \E i \in Nat : Home(frames, h, ref[h].owner, i)
         /\ ref[h].owner \in Threads
BY DEF IInv, InFrames

LEMMA DropsOwn ==
  ASSUME IInv, NEW t \in Threads, NEW n \in 0..Len(frames[t]), NEW h \in Handles,
         ref[h].type = "local", Dropped(t, n)[h] # ref[h]
  PROVE  ref[h].owner = t
<1>1. PICK i \in 1..n : h \in frames[t][i].slots
  BY DEF Dropped
<1>2. i \in Nat /\ Home(frames, h, t, i)
  BY <1>1, Facts, FramesFacts DEF Home
<1> QED
  BY <1>2, LocalsOwned DEF IInv, InFrames

LEMMA NewLocalTakesFree ==
  ASSUME NEW r, NEW f, RefsTyped(r), FramesTyped(f), InFrames(r, f),
         NEW t \in Threads, NEW o \in Objects, NewLocalIn(r, f, t, o),
         NEW h \in Handles, ref'[h] # r[h]
  PROVE  r[h] = NoRef
<1>1. PICK g \in FreeSlots(r, f, t) :
        ref' = [r EXCEPT ![g] = [type |-> "local", object |-> o, owner |-> t]]
  BY DEF NewLocalIn
<1>2. g \in Handles /\ r[g] = NoRef
  BY <1>1, NewLocalFrames
<1> QED
  BY <1>1, <1>2 DEF RefsTyped

(* The end of frames, with a new local after it, touches no local but t's. *)
LEMMA DropAndNewOwn ==
  ASSUME IInv, NEW t \in Threads, NEW n \in 0..Len(frames[t]),
         NEW o \in Given(t) \cup {Null},
         \/ ref' = Dropped(t, n)
         \/ o # Null /\ NewLocalIn(Dropped(t, n), Below(t, n), t, o),
         NEW h \in Handles, ref[h].type = "local", ref'[h] # ref[h]
  PROVE  ref[h].owner = t
<1>1. CASE ref' = Dropped(t, n)
  BY <1>1, DropsOwn
<1>2. CASE o # Null /\ NewLocalIn(Dropped(t, n), Below(t, n), t, o)
  <2>1. CASE Dropped(t, n)[h] = ref[h]
    <3>1. o \in Objects
      BY <1>2, Facts
    <3>2. ref[h] = NoRef
      BY <1>2, <2>1, <3>1, DroppedSound, NewLocalTakesFree
    <3> QED
      BY <3>2, LocalsOwned
  <2>2. CASE Dropped(t, n)[h] # ref[h]
    BY <2>2, DropsOwn
  <2> QED
    BY <2>1, <2>2
<1> QED
  BY <1>1, <1>2

(* LocalsPrivate: a local reference changes only in calls of its owner.    *)
LEMMA GuestKeepsLocals ==
  ASSUME IInv, NEW t \in Threads, Guest(t),
         NEW h \in Handles, ref[h].type = "local", ref'[h] # ref[h]
  PROVE  collector' = ref[h].owner
<1>1. CASE UNCHANGED ref
  BY <1>1
<1>2. CASE NewObject(t) \/ Occurred(t) \/ \E o \in Objects : GetMember(t, o)
  <2>1. \E o \in Objects : NewLocalIn(ref, frames, t, o)
    BY <1>2, Others DEF NewObject, Occurred, GetMember, NewLocal, OthersTyped
  <2> QED
    BY <2>1, Facts, NewLocalTakesFree, LocalsOwned
<1>3. CASE \E g \in Handles, type \in RefTypes : NewRef(t, g, type)
  <2>1. PICK g \in Handles, type \in RefTypes : NewRef(t, g, type)
    BY <1>3
  <2>2. CASE type = "local"
    <3>1. NewLocalIn(ref, frames, t, Resolve(t, g)) /\ Resolve(t, g) \in Objects
      BY <2>1, <2>2, Facts DEF NewRef, NewLocal, Given
    <3> QED
      BY <3>1, Facts, NewLocalTakesFree, LocalsOwned
  <2>3. CASE type # "local"
    <3>1. PICK x \in Unused(ref, frames) :
            \E new : ref' = [ref EXCEPT ![x] = new]
      BY <2>1, <2>3 DEF NewRef
    <3>2. x = h
      BY <3>1, Facts DEF RefsTyped
    <3> QED
      BY <3>1, <3>2, LocalsOwned DEF Unused
  <2> QED
    BY <2>2, <2>3
<1>4. CASE \E g \in Handles, type \in RefTypes : DeleteRef(t, g, type)
  <2>1. PICK g \in Handles : /\ ref' = [ref EXCEPT ![g] = NoRef]
                             /\ Visible(t, g) /\ collector' = t
    BY <1>4 DEF DeleteRef, Call
  <2>2. g = h
    BY <2>1, Facts DEF RefsTyped
  <2> QED
    BY <2>1, <2>2, LocalsOwned, HeapAssumption DEF Visible
<1>5. CASE \E o \in Objects \cup {Null} : PopFrame(t, o)
  <2>1. PICK o \in Objects \cup {Null} : PopFrame(t, o)
    BY <1>5
  <2>2. Popped(t) \in 0..Len(frames[t])
    BY Facts, FramesFacts DEF Popped
  <2>3. /\ o \in Given(t) \cup {Null} /\ collector' = t
        /\ \/ ref' = Dropped(t, Popped(t))
           \/ o # Null /\ NewLocalIn(Dropped(t, Popped(t)), Below(t, Popped(t)), t, o)
    BY <2>1 DEF PopFrame, Call
  <2> QED
    BY <2>2, <2>3, DropAndNewOwn
<1>6. CASE \E o \in Objects \cup {Null} : NativeReturn(t, o)
  <2>1. PICK o \in Objects \cup {Null} : NativeReturn(t, o)
    BY <1>6
  <2>2. Boundary(t) \in 0..Len(frames[t])
    <3>1. Boundary(t) \in 1..Len(frames[t])
      BY <2>1, BoundaryFound DEF NativeReturn
    <3> QED
      BY <3>1, Facts, FramesFacts
  <2>3. /\ o \in Given(t) \cup {Null} /\ collector' = t
        /\ \/ ref' = Dropped(t, Boundary(t))
           \/ o # Null /\ NewLocalIn(Dropped(t, Boundary(t)), Below(t, Boundary(t)), t, o)
    BY <2>1 DEF NativeReturn, Call
  <2> QED
    BY <2>2, <2>3, DropAndNewOwn
<1>7. CASE \E os \in SUBSET Objects : NativeCall(t, os)
  <2>1. PICK os \in SUBSET Objects : NativeCall(t, os)
    BY <1>7
  <2>2. PICK slot \in [os -> Unused(ref, frames)] :
          ref' = [x \in Handles |->
                    IF \E o \in os : slot[o] = x
                    THEN [type |-> "local", owner |-> t,
                          object |-> CHOOSE o \in os : slot[o] = x]
                    ELSE ref[x]]
    BY <2>1 DEF NativeCall
  <2>3. h \in Unused(ref, frames)
    BY <2>2
  <2> QED
    BY <2>3, LocalsOwned DEF Unused
<1>8. CASE ThreadExits(t)
  <2>1. ref' = Dropped(t, Len(frames[t])) /\ collector' = t
    BY <1>8 DEF ThreadExits, Call
  <2>2. Len(frames[t]) \in 0..Len(frames[t])
    BY Facts, FramesFacts
  <2> QED
    BY <2>1, <2>2, DropsOwn
<1>9. \/ UNCHANGED ref
      \/ NewObject(t) \/ Occurred(t) \/ \E o \in Objects : GetMember(t, o)
      \/ \E g \in Handles, type \in RefTypes : NewRef(t, g, type)
      \/ \E g \in Handles, type \in RefTypes : DeleteRef(t, g, type)
      \/ \E o \in Objects \cup {Null} : PopFrame(t, o)
      \/ \E o \in Objects \cup {Null} : NativeReturn(t, o)
      \/ \E os \in SUBSET Objects : NativeCall(t, os)
      \/ ThreadExits(t)
  <2>1. \A o \in Objects, p \in Objects \cup {Null} :
          \/ SetMember(t, o, p) \/ Pin(t, o) \/ Unpin(t, o) \/ Throw(t, o)
          \/ MonitorEnter(t, o) \/ MonitorWait(t, o) \/ MonitorExit(t, o)
          => UNCHANGED ref
    BY DEF SetMember, Pin, Unpin, Throw, MonitorEnter, MonitorWait, MonitorExit, refs
  <2>2. PushFrame(t) \/ EnsureCapacity(t) \/ MonitorEntered(t) \/ Raise(t) \/ Clear(t)
          => UNCHANGED ref
    BY DEF PushFrame, EnsureCapacity, MonitorEntered, Raise, Clear, refs
  <2> QED
    BY <2>1, <2>2 DEF Guest
<1> QED
  BY <1>1, <1>2, <1>3, <1>4, <1>5, <1>6, <1>7, <1>8, <1>9

LEMMA CollectorKeepsLocals ==
  ASSUME IInv, Collect \/ VmCleanup \/ UNCHANGED vars,
         NEW h \in Handles, ref[h].type = "local"
  PROVE  ref'[h] = ref[h]
<1>1. CASE MarkRoots \/ MarkChildren \/ UNCHANGED vars
  BY <1>1 DEF MarkRoots, MarkChildren, vars, refs
<1>2. CASE Sweep
  BY <1>2 DEF Sweep, Cleared
<1>3. CASE VmCleanup
  <2>1. \A t \in Threads, i \in Nat : ~Home(frames, h, t, i)
    BY <1>3 DEF VmCleanup, Home
  <2> QED
    BY <2>1, LocalsOwned
<1> QED
  BY <1>1, <1>2, <1>3 DEF Collect

(* LocalsPrivate: whatever a thread does, in guest code, native methods or *)
(* on its way out, the local references of the others stay as they are.    *)
THEOREM LocalsStayPrivate == Spec => LocalsPrivate
<1>1. ASSUME IInv, [Next]_vars, NEW h \in Handles, ref[h].type = "local", ref'[h] # ref[h]
      PROVE  collector' = ref[h].owner
  BY <1>1, GuestKeepsLocals, CollectorKeepsLocals DEF Next
<1>2. IInv /\ [Next]_vars
        => [\A h \in Handles :
              ref[h].type = "local" /\ ref'[h] # ref[h]
                => collector' = ref[h].owner]_vars
  BY <1>1
<1> QED
  BY <1>2, SpecIInv, PTL DEF Spec, LocalsPrivate

-----------------------------------------------------------------------------
(* What Reach computes: the least closed set. *)

(* A set of objects with what its elements refer to, and n rounds of this. *)
Grown(S) == S \cup ({member[o] : o \in S} \ {Null})

Rounds(n, S, g) ==
  g = [i \in 0..n |-> IF i = 0 THEN S ELSE Grown(g[i - 1])]

LEMMA RoundsExist ==
  ASSUME TypeOK, NEW n \in Nat, NEW S \in SUBSET Objects
  PROVE  \E g : Rounds(n, S, g)
<1> DEFINE next == [X \in SUBSET Objects |-> Grown(X)]
<1>1. \A X \in SUBSET Objects : Grown(X) \in SUBSET Objects
  BY DEF Grown, TypeOK
<1>2. next \in [SUBSET Objects -> SUBSET Objects] /\ \A X \in SUBSET Objects : next[X] = Grown(X)
  BY <1>1
<1> HIDE DEF next
<1>3. PICK g \in [0..n -> SUBSET Objects] : Iteration(n, S, next, g)
  BY <1>2, Iterates
<1>4. \A i \in 0..n : g[i] = IF i = 0 THEN S ELSE next[g[i - 1]]
  BY <1>3 DEF Iteration
<1>5. \A i \in 0..n : g[i] = IF i = 0 THEN S ELSE Grown(g[i - 1])
  <2>1. \A i \in 0..n : i # 0 => i - 1 \in 0..n
    OBVIOUS
  <2>2. \A i \in 0..n : g[i] \in SUBSET Objects
    BY <1>3
  <2> QED
    BY <1>2, <1>4, <2>1, <2>2
<1>6. g = [i \in 0..n |-> g[i]]
  BY <1>3
<1>7. g = [i \in 0..n |-> IF i = 0 THEN S ELSE Grown(g[i - 1])]
  BY <1>5, <1>6
<1> QED
  BY <1>7 DEF Rounds

LEMMA ReachRounds ==
  ASSUME TypeOK, NEW S \in SUBSET Objects, NEW n, n = Cardinality(Objects)
  PROVE  \E g : Rounds(n, S, g) /\ Reach(S) = g[n]
<1> DEFINE after == CHOOSE g : Rounds(n, S, g)
<1>1. n \in Nat
  BY HeapAssumption, FS_CardinalityType
<1>2. Rounds(n, S, after)
  BY <1>1, RoundsExist
<1>3. Reach(S) = after[n]
  BY Zenon DEF Reach, Rounds, Grown
<1> HIDE DEF after
<1> QED
  BY <1>2, <1>3

(* A set that is not closed grows, so after as many rounds as there are    *)
(* objects the set is closed.                                              *)
LEMMA ReachLeast ==
  ASSUME TypeOK, NEW S \in SUBSET Objects
  PROVE  /\ Reach(S) \in SUBSET Objects /\ S \subseteq Reach(S) /\ Closed(Reach(S))
         /\ \A X \in SUBSET Objects : S \subseteq X /\ Closed(X) => Reach(S) \subseteq X
<1> DEFINE n == Cardinality(Objects)
<1>1. IsFiniteSet(Objects) /\ n \in Nat /\ Closed(Objects)
  BY HeapAssumption, FS_CardinalityType DEF Closed, TypeOK
<1>2. PICK g : Rounds(n, S, g) /\ Reach(S) = g[n]
  BY ReachRounds
<1> HIDE DEF n
<1>3. g[0] = S
  BY <1>1, <1>2 DEF Rounds
<1>4. \A i \in 0..n - 1 : g[i + 1] = Grown(g[i])
  <2>1. ASSUME NEW i \in 0..n - 1 PROVE g[i + 1] = Grown(g[i])
    <3>1. i + 1 \in 0..n /\ i + 1 # 0 /\ i + 1 - 1 = i
      BY <1>1
    <3>2. \A j \in 0..n : g[j] = IF j = 0 THEN S ELSE Grown(g[j - 1])
      BY <1>2, Zenon DEF Rounds
    <3>3. g[i + 1] = Grown(g[i + 1 - 1])
      BY <3>1, <3>2
    <3> QED
      BY <3>1, <3>3
  <2> QED
    BY <2>1
<1>5. ASSUME NEW X \in SUBSET Objects, S \subseteq X, Closed(X)
      PROVE  \A i \in 0..n : g[i] \subseteq X
  <2> DEFINE T == {i \in 0..n : g[i] \subseteq X}
  <2>1. 0 \in T
    BY <1>1, <1>3, <1>5
  <2>2. ASSUME NEW i \in 0..n - 1, i \in T PROVE i + 1 \in T
    <3>1. Grown(g[i]) \subseteq X
      BY <1>5, <2>2 DEF Grown, Closed
    <3> QED
      BY <1>1, <1>4, <3>1
  <2> HIDE DEF T
  <2>3. \A i \in 0..n : i \in T
    BY <1>1, <2>1, <2>2, SetInduction
  <2> QED
    BY <2>3 DEF T
<1>6. \A i \in 0..n : g[i] \in SUBSET Objects
  BY <1>1, <1>5
<1>7. \A i \in 0..n : S \subseteq g[i] /\ (Closed(g[i]) \/ Cardinality(g[i]) >= i)
  <2> DEFINE T == {i \in 0..n :
                     S \subseteq g[i] /\ (Closed(g[i]) \/ Cardinality(g[i]) >= i)}
  <2>0. \A i \in 0..n : IsFiniteSet(g[i]) /\ Cardinality(g[i]) \in Nat
    BY <1>1, <1>6, FS_Subset, FS_CardinalityType
  <2>1. 0 \in T
    BY <1>1, <1>3, <2>0
  <2>2. ASSUME NEW i \in 0..n - 1, i \in T PROVE i + 1 \in T
    <3>1. /\ i \in 0..n /\ i + 1 \in 0..n /\ g[i] \subseteq g[i + 1]
          /\ g[i + 1] = Grown(g[i])
      BY <1>1, <1>4 DEF Grown
    <3>2. CASE Closed(g[i])
      <4>1. g[i + 1] = g[i]
        BY <3>1, <3>2 DEF Closed, Grown
      <4> QED
        BY <2>2, <3>1, <3>2, <4>1
    <3>3. CASE ~Closed(g[i])
      <4>1. g[i] # g[i + 1]
        BY <3>1, <3>3 DEF Closed, Grown
      <4>2. /\ Cardinality(g[i]) <= Cardinality(g[i + 1])
            /\ Cardinality(g[i + 1]) # Cardinality(g[i])
        BY <2>0, <3>1, <4>1, FS_Subset
      <4>3. Cardinality(g[i]) >= i
        BY <2>2, <3>3
      <4>4. Cardinality(g[i + 1]) >= i + 1
        BY <2>0, <3>1, <4>2, <4>3
      <4> QED
        BY <2>2, <3>1, <4>4
    <3> QED
      BY <3>2, <3>3
  <2> HIDE DEF T
  <2>3. \A i \in 0..n : i \in T
    BY <1>1, <2>1, <2>2, SetInduction
  <2> QED
    BY <2>3 DEF T
<1>8. n \in 0..n
  BY <1>1
<1>9. Closed(g[n])
  <2>1. CASE Cardinality(g[n]) >= n
    <3>1. Cardinality(g[n]) <= n /\ Cardinality(g[n]) \in Nat
      BY <1>1, <1>6, <1>8, FS_Subset, FS_CardinalityType DEF n
    <3>2. n = Cardinality(g[n])
      BY <1>1, <2>1, <3>1
    <3>3. Objects = g[n]
      BY <1>1, <1>6, <1>8, <3>2, FS_Subset DEF n
    <3> QED
      BY <1>1, <3>3
  <2> QED
    BY <1>7, <1>8, <2>1
<1> QED
  BY <1>2, <1>5, <1>6, <1>7, <1>8, <1>9

(* HeapExact: between collections the heap is exactly what the program can *)
(* reach: nothing in use was freed, and nothing out of reach is left.      *)
THEOREM HeapStaysExact == Spec => []HeapExact
<1>1. ASSUME IInv PROVE HeapExact
  <2>1. TypeOK /\ Held /\ Tracing
    BY <1>1 DEF IInv
  <2>2. ASSUME ~Collecting PROVE live = Reach(InUse)
    <3>1. OnlyReached(live)
      BY <2>1, <2>2 DEF Tracing
    <3>2. InUse \subseteq live /\ live \in SUBSET Objects /\ Closed(live)
      BY <2>1, RootsInUse DEF TypeOK, Held, Closed
    <3> DEFINE R == Reach(InUse)
    <3>3. InUse \in SUBSET Objects
      BY <3>2
    <3>4. /\ R \in SUBSET Objects /\ InUse \subseteq R /\ Closed(R)
          /\ \A X \in SUBSET Objects : InUse \subseteq X /\ Closed(X) => R \subseteq X
      BY <2>1, <3>3, ReachLeast
    <3> HIDE DEF R
    <3>5. R \subseteq live /\ live \subseteq R
      BY <3>1, <3>2, <3>4 DEF OnlyReached
    <3> QED
      BY <3>5 DEF R
  <2> QED
    BY <2>1, <2>2 DEF HeapExact
<1> QED
  BY <1>1, SpecIInv, PTL
=============================================================================
