------------------------------ MODULE JniHeap ------------------------------
(***************************************************************************)
(* The traced heap of the JNI runtime: the references and local frames of  *)
(* src/src/bridges/jni/references.c and runtime/reference.c, the collector *)
(* of runtime/heap.c, the calls of native methods of runtime/native.c, and *)
(* the operations of array.c, string.c, field.c, method.c and exception.c  *)
(* in runtime/ that create, link, retain and throw objects.                *)
(*                                                                         *)
(* Every call from guest code runs under the runtime lock (JniThreads) and *)
(* ends with a collection, because it leaves the lock.  The lock is given  *)
(* up inside a call only around a native method, so a call is one step,    *)
(* the collection after it a sequence of steps nobody else interrupts, and *)
(* a native method is two steps with any calls of any thread in between.   *)
(*                                                                         *)
(* Classes, methods and fields are never collected and are left out.  An   *)
(* object has one member that may refer to another: a field or an array    *)
(* element.  A handle is the address of a reference; a local one lies in   *)
(* the slots of a frame and is used again, any other is allocated alone.   *)
(***************************************************************************)
EXTENDS Naturals, Sequences, FiniteSets
Sets == INSTANCE FiniteSetsExt

CONSTANTS
  Threads,     (* attached threads                                         *)
  Objects,     (* addresses of objects                                     *)
  Handles,     (* addresses of references                                  *)
  Nobody,      (* no thread                                                *)
  Null,        (* no object                                                *)
  MaxFrames,   (* bound: frames of all threads                             *)
  MaxPins,     (* bound: times one thread retains one object               *)
  MaxHolds     (* bound: pins, monitors and exceptions begun while as many *)
               (* are held                                                 *)

ASSUME HeapAssumption ==
  /\ IsFiniteSet(Objects)
  /\ Nobody \notin Threads
  /\ Null \notin Objects
  /\ {MaxFrames, MaxPins, MaxHolds} \subseteq Nat

VARIABLES
  live,       (* the objects on the heap list                              *)
  member,     (* member[o]:   the object o refers to, or Null              *)
  owner,      (* owner[o]:    the thread that has entered o's monitor      *)
  waiting,    (* waiting[t]:  the object whose monitor t is waiting for    *)
  ref,        (* ref[h]:      the reference at address h                   *)
  frames,     (* frames[t]:   local frames of t, innermost first           *)
  pins,       (* pins[t][o]:  retained elements or characters of o         *)
  roots,      (* roots[t]:    operands of the native methods t is in       *)
  exception,  (* exception[t]: the pending exception                       *)
  collector,  (* the thread whose call is collecting                       *)
  mark, gray  (* of the collection: marked objects, and those on the stack *)

refs == <<ref, frames>>
heap == <<live, member>>
monitors == <<owner, waiting>>
tracing == <<mark, gray>>
vars == <<live, member, owner, waiting, ref, frames, pins, roots,
          exception, collector, mark, gray>>

RefTypes == {"local", "global", "weak"}
NoRef == [type |-> "none", object |-> Null, owner |-> Nobody]

(* A chunk of slots for locals; a native boundary is not popped by guest   *)
(* code.                                                                   *)
Frame == [slots : SUBSET Handles, native : BOOLEAN]

Init ==
  /\ live = {}
  /\ member = [o \in Objects |-> Null]
  /\ owner = [o \in Objects |-> Nobody]
  /\ waiting = [t \in Threads |-> Null]
  /\ ref = [h \in Handles |-> NoRef]
  /\ frames = [t \in Threads |-> <<>>]
  /\ pins = [t \in Threads |-> [o \in Objects |-> 0]]
  /\ roots = [t \in Threads |-> <<>>]
  /\ exception = [t \in Threads |-> Null]
  /\ collector = Nobody
  /\ mark = {} /\ gray = {}

-----------------------------------------------------------------------------
(* References. *)

Visible(t, h) == ref[h].owner \in {Nobody, t}

(* jni_refs_resolve.                                                       *)
Resolve(t, h) == IF Visible(t, h) THEN ref[h].object ELSE Null

(* The objects t can name by a handle.                                     *)
Given(t) == {Resolve(t, h) : h \in Handles} \ {Null}

(* Addresses neither a reference nor a slot of a frame has.                *)
Unused(r, f) ==
  {h \in Handles : /\ r[h] = NoRef
                   /\ \A t \in Threads : \A i \in 1..Len(f[t]) :
                        h \notin f[t][i].slots}

(* Where a new local of t may lie: a free slot of its innermost frame, or, *)
(* when it has none, a new one (jni_refs_ensure).                          *)
FreeSlots(r, f, t) ==
  LET free == IF f[t] = <<>> THEN {}
              ELSE {h \in Head(f[t]).slots : r[h] = NoRef}
  IN IF free # {} THEN free ELSE Unused(r, f)

WithSlot(f, t, h) ==
  IF f[t] = <<>>
  THEN [f EXCEPT ![t] = <<[slots |-> {h}, native |-> FALSE]>>]
  ELSE [f EXCEPT ![t][1].slots = @ \cup {h}]

(* The bound on frames.                                                    *)
MayPush(f, n) ==
  Sets!MapThenSumSet(LAMBDA t : Len(f[t]), Threads) + n <= MaxFrames

(* jni_refs_new, from references r and frames f.                           *)
NewLocalIn(r, f, t, o) ==
  /\ f[t] = <<>> => MayPush(f, 1)
  /\ \E h \in FreeSlots(r, f, t) :
       /\ ref' = [r EXCEPT ![h] = [type |-> "local", object |-> o, owner |-> t]]
       /\ frames' = WithSlot(f, t, h)

NewLocal(t, o) == NewLocalIn(ref, frames, t, o)

(* The references after the n innermost frames of t are freed.             *)
Dropped(t, n) ==
  [h \in Handles |->
     IF \E i \in 1..n : h \in frames[t][i].slots THEN NoRef ELSE ref[h]]

Below(t, n) ==
  [frames EXCEPT ![t] = SubSeq(@, n + 1, Len(@))]

-----------------------------------------------------------------------------
(* A call from guest code: enter, the call itself, and leave, which starts *)
(* a collection.                                                           *)
Call(t) ==
  /\ waiting[t] = Null
  /\ collector = Nobody
  /\ collector' = t
  /\ UNCHANGED tracing

(* Every JNI function that creates an object: a string, an array, ...      *)
NewObject(t) ==
  /\ Call(t)
  /\ \E o \in Objects \ live :
       /\ live' = live \cup {o}
       /\ member' = [member EXCEPT ![o] = Null]
       /\ owner' = [owner EXCEPT ![o] = Nobody]
       /\ NewLocal(t, o)
  /\ UNCHANGED <<waiting, pins, roots, exception>>

(* NewLocalRef, NewGlobalRef, NewWeakGlobalRef.                            *)
NewRef(t, h, type) ==
  LET o == Resolve(t, h) IN
  /\ Call(t)
  /\ o # Null
  /\ IF type = "local" THEN NewLocal(t, o)
     ELSE \E g \in Unused(ref, frames) :
            /\ ref' = [ref EXCEPT
                         ![g] = [type |-> type, object |-> o, owner |-> Nobody]]
            /\ UNCHANGED frames
  /\ UNCHANGED <<heap, monitors, pins, roots, exception>>

(* Mutation of DeleteRef: whose local it is is not looked at.              *)
DeleteAnyRef(t, h, type) ==
  /\ Call(t)
  /\ ref[h].type = type
  /\ ref' = [ref EXCEPT ![h] = NoRef]
  /\ UNCHANGED <<heap, monitors, frames, pins, roots, exception>>

(* DeleteLocalRef, DeleteGlobalRef, DeleteWeakGlobalRef.                   *)
DeleteRef(t, h, type) ==
  /\ Call(t)
  /\ ref[h].type = type
  /\ Visible(t, h)
  /\ ref' = [ref EXCEPT ![h] = NoRef]
  /\ UNCHANGED <<heap, monitors, frames, pins, roots, exception>>

(* A thread without a frame gets its first one under the new one.          *)
PushFrame(t) ==
  /\ Call(t)
  /\ MayPush(frames, IF frames[t] = <<>> THEN 2 ELSE 1)
  /\ LET new == <<[slots |-> {}, native |-> FALSE]>> IN
       frames' = [frames EXCEPT
                    ![t] = IF @ = <<>> THEN new \o new ELSE new \o @]
  /\ UNCHANGED <<heap, monitors, ref, pins, roots, exception>>

(* EnsureLocalCapacity; how many slots a frame has is left out.            *)
EnsureCapacity(t) ==
  /\ Call(t)
  /\ frames[t] = <<>>
  /\ MayPush(frames, 1)
  /\ frames' = [frames EXCEPT ![t] = <<[slots |-> {}, native |-> FALSE]>>]
  /\ UNCHANGED <<heap, monitors, ref, pins, roots, exception>>

(* Mutation of Popped: the boundary of a native method is popped too.      *)
PoppedAny(t) == IF frames[t] = <<>> THEN 0 ELSE 1

(* The number of frames jni_refs_pop removes.                              *)
Popped(t) ==
  IF frames[t] = <<>> THEN 0 ELSE IF Head(frames[t]).native THEN 0 ELSE 1

(* PopLocalFrame, with the object that survives as a new local.            *)
PopFrame(t, o) ==
  /\ Call(t)
  /\ o \in Given(t) \cup {Null}
  /\ LET r == Dropped(t, Popped(t))
         f == Below(t, Popped(t))
     IN IF o = Null THEN ref' = r /\ frames' = f ELSE NewLocalIn(r, f, t, o)
  /\ UNCHANGED <<heap, monitors, pins, roots, exception>>

(* SetObjectField, SetObjectArrayElement; GetObjectField, ...              *)
SetMember(t, o, p) ==
  /\ Call(t)
  /\ o \in Given(t)
  /\ p \in Given(t) \cup {Null}
  /\ member' = [member EXCEPT ![o] = p]
  /\ UNCHANGED <<live, monitors, refs, pins, roots, exception>>

GetMember(t, o) ==
  /\ Call(t)
  /\ o \in Given(t)
  /\ member[o] # Null
  /\ NewLocal(t, member[o])
  /\ UNCHANGED <<heap, monitors, pins, roots, exception>>

(* The bound on what is held other than by references and operands.        *)
MayHold ==
  Cardinality({p \in Threads \X Objects : pins[p[1]][p[2]] > 0})
    + Cardinality({o \in Objects : owner[o] # Nobody})
    + Cardinality({t \in Threads : exception[t] # Null}) < MaxHolds

(* Get...ArrayElements, GetStringChars and their releases.                 *)
Pin(t, o) ==
  /\ Call(t)
  /\ o \in Given(t)
  /\ IF pins[t][o] = 0 THEN MayHold ELSE pins[t][o] < MaxPins
  /\ pins' = [pins EXCEPT ![t][o] = @ + 1]
  /\ UNCHANGED <<heap, monitors, refs, roots, exception>>

Unpin(t, o) ==
  /\ Call(t)
  /\ o \in Given(t)
  /\ pins[t][o] > 0
  /\ pins' = [pins EXCEPT ![t][o] = @ - 1]
  /\ UNCHANGED <<heap, monitors, refs, roots, exception>>

(* MonitorEnter, outermost: of a free monitor, or of one another thread is *)
(* in, for which t waits in the call without the lock (the wakeups and the *)
(* depth are in JniThreads).                                               *)
MonitorEnter(t, o) ==
  /\ Call(t)
  /\ o \in Given(t)
  /\ owner[o] = Nobody
  /\ MayHold
  /\ owner' = [owner EXCEPT ![o] = t]
  /\ UNCHANGED <<heap, waiting, refs, pins, roots, exception>>

MonitorWait(t, o) ==
  /\ collector = Nobody
  /\ waiting[t] = Null
  /\ o \in Given(t)
  /\ owner[o] \notin {Nobody, t}
  /\ waiting' = [waiting EXCEPT ![t] = o]
  /\ UNCHANGED <<heap, owner, refs, pins, roots, exception, collector, tracing>>

MonitorEntered(t) ==
  /\ collector = Nobody
  /\ waiting[t] # Null
  /\ owner[waiting[t]] = Nobody
  /\ owner' = [owner EXCEPT ![waiting[t]] = t]
  /\ waiting' = [waiting EXCEPT ![t] = Null]
  /\ collector' = t
  /\ UNCHANGED <<heap, refs, pins, roots, exception, tracing>>

MonitorExit(t, o) ==
  /\ Call(t)
  /\ o \in Given(t)
  /\ owner[o] = t
  /\ owner' = [owner EXCEPT ![o] = Nobody]
  /\ UNCHANGED <<heap, waiting, refs, pins, roots, exception>>

(* Throw; ThrowNew and every failing call; ExceptionClear; and             *)
(* ExceptionOccurred.                                                      *)
Throw(t, o) ==
  /\ Call(t)
  /\ o \in Given(t)
  /\ exception[t] # Null \/ MayHold
  /\ exception' = [exception EXCEPT ![t] = o]
  /\ UNCHANGED <<heap, monitors, refs, pins, roots>>

Raise(t) ==
  /\ Call(t)
  /\ exception[t] # Null \/ MayHold
  /\ \E o \in Objects \ live :
       /\ live' = live \cup {o}
       /\ member' = [member EXCEPT ![o] = Null]
       /\ owner' = [owner EXCEPT ![o] = Nobody]
       /\ exception' = [exception EXCEPT ![t] = o]
  /\ UNCHANGED <<waiting, refs, pins, roots>>

Clear(t) ==
  /\ Call(t)
  /\ exception[t] # Null
  /\ exception' = [exception EXCEPT ![t] = Null]
  /\ UNCHANGED <<heap, monitors, refs, pins, roots>>

Occurred(t) ==
  /\ Call(t)
  /\ exception[t] # Null
  /\ NewLocal(t, exception[t])
  /\ UNCHANGED <<heap, monitors, pins, roots, exception>>

-----------------------------------------------------------------------------
(* Native methods. *)

(* jni_native_run before it gives the lock up: a frame of its own with a   *)
(* local for every operand, and the operands as roots.                     *)
NativeCall(t, os) ==
  /\ collector = Nobody
  /\ waiting[t] = Null
  /\ exception[t] = Null
  /\ os # {} /\ os \subseteq Given(t)
  /\ MayPush(frames, 1)
  /\ \E slot \in [os -> Unused(ref, frames)] :
       /\ \A o, p \in os : slot[o] = slot[p] => o = p
       /\ ref' = [h \in Handles |->
                    IF \E o \in os : slot[o] = h
                    THEN [type |-> "local", owner |-> t,
                          object |-> CHOOSE o \in os : slot[o] = h]
                    ELSE ref[h]]
       /\ frames' = [frames EXCEPT
            ![t] = <<[slots |-> {slot[o] : o \in os}, native |-> TRUE]>> \o @]
  /\ roots' = [roots EXCEPT ![t] = <<os>> \o @]
  /\ UNCHANGED <<heap, monitors, pins, exception, collector, tracing>>

(* The frames of the method: up to its boundary (jni_refs_leave_native).   *)
Boundary(t) ==
  CHOOSE n \in 1..Len(frames[t]) :
    /\ frames[t][n].native
    /\ \A i \in 1..n - 1 : ~frames[t][i].native

(* It returns o, or nothing; with an exception pending its result is       *)
(* dropped.  The result becomes a local of the caller's frame.             *)
NativeReturn(t, o) ==
  LET r == Dropped(t, Boundary(t))
      f == Below(t, Boundary(t))
  IN
  /\ Call(t)
  /\ roots[t] # <<>>
  /\ o \in Given(t) \cup {Null}
  /\ IF o = Null \/ exception[t] # Null
     THEN ref' = r /\ frames' = f
     ELSE NewLocalIn(r, f, t, o)
  /\ roots' = [roots EXCEPT ![t] = Tail(@)]
  /\ UNCHANGED <<heap, monitors, pins, exception>>

(* A thread detaches or exits, in native methods or not                    *)
(* (jni_runtime_thread_cleanup).                                           *)
ThreadExits(t) ==
  /\ Call(t)
  /\ ref' = Dropped(t, Len(frames[t]))
  /\ frames' = [frames EXCEPT ![t] = <<>>]
  /\ pins' = [pins EXCEPT ![t] = [o \in Objects |-> 0]]
  /\ roots' = [roots EXCEPT ![t] = <<>>]
  /\ exception' = [exception EXCEPT ![t] = Null]
  /\ owner' = [o \in Objects |-> IF owner[o] = t THEN Nobody ELSE owner[o]]
  /\ UNCHANGED <<heap, waiting>>

(* The last thread left a destroyed machine (jni_runtime_vm_cleanup):      *)
(* global references and every object go, whoever could name them.         *)
VmCleanup ==
  /\ collector = Nobody
  /\ \A t \in Threads : /\ frames[t] = <<>> /\ roots[t] = <<>>
                         /\ waiting[t] = Null /\ exception[t] = Null
                         /\ pins[t] = [o \in Objects |-> 0]
  /\ owner = [o \in Objects |-> Nobody]
  /\ ref' = [h \in Handles |-> NoRef]
  /\ live' = {}
  /\ member' = [o \in Objects |-> Null]
  /\ UNCHANGED <<monitors, frames, pins, roots, exception, collector, tracing>>

-----------------------------------------------------------------------------
(* The collector, jni_runtime_collect. *)

Strong == {h \in Handles : ref[h].type \in {"local", "global"}}
Operands(t) == UNION {roots[t][i] : i \in 1..Len(roots[t])}
Pinned(t) == {o \in Objects : pins[t][o] > 0}
Entered == {o \in live : owner[o] # Nobody}
Awaited == {waiting[t] : t \in Threads} \ {Null}
Thrown == {exception[t] : t \in Threads} \ {Null}

(* Mutation of RootSet: the operands of native methods are forgotten.      *)
RootsWithoutOperands ==
  Entered \cup Awaited \cup Thrown \cup {ref[h].object : h \in Strong}
    \cup UNION {Pinned(t) : t \in Threads}

(* __mark_roots.                                                           *)
RootSet ==
  Entered \cup Awaited \cup Thrown \cup {ref[h].object : h \in Strong}
    \cup UNION {Operands(t) \cup Pinned(t) : t \in Threads}

Collecting == collector # Nobody

(* The collection has not marked anything yet: mark and gray are empty     *)
(* between collections.                                                    *)
MarkRoots ==
  /\ Collecting
  /\ mark = {} /\ RootSet # {}
  /\ mark' = RootSet
  /\ gray' = RootSet
  /\ UNCHANGED <<heap, monitors, refs, pins, roots, exception, collector>>

(* One round of the loop: an object comes off the stack, and what it       *)
(* refers to is marked.  The stack is a set: its order does not matter.    *)
MarkChildren ==
  /\ \E o \in gray :
       LET new == {member[o]} \ (mark \cup {Null}) IN
       /\ mark' = mark \cup new
       /\ gray' = (gray \ {o}) \cup new
  /\ UNCHANGED <<heap, monitors, refs, pins, roots, exception, collector>>

(* Mutation of Cleared: weak references are left as they are.              *)
NotCleared(h) == ref[h]

(* jni_refs_clear_weak.                                                    *)
Cleared(h) ==
  IF ref[h].type = "weak" /\ ref[h].object \notin mark
  THEN [ref[h] EXCEPT !.object = Null] ELSE ref[h]

(* Unmarked objects are freed, after weak references to them are cleared.  *)
Sweep ==
  /\ Collecting
  /\ gray = {}
  /\ mark = {} => RootSet = {}
  /\ ref' = [h \in Handles |-> Cleared(h)]
  /\ live' = live \cap mark
  /\ member' = [o \in Objects |-> IF o \in live \ mark THEN Null ELSE member[o]]
  /\ collector' = Nobody
  /\ mark' = {}
  /\ UNCHANGED <<monitors, frames, pins, roots, exception, gray>>

Collect == MarkRoots \/ MarkChildren \/ Sweep

-----------------------------------------------------------------------------
Guest(t) ==
  \/ NewObject(t)
  \/ \E h \in Handles, type \in RefTypes :
       NewRef(t, h, type) \/ DeleteRef(t, h, type)
  \/ PushFrame(t) \/ EnsureCapacity(t)
  \/ \E o \in Objects \cup {Null} : PopFrame(t, o) \/ NativeReturn(t, o)
  \/ \E o \in Objects, p \in Objects \cup {Null} : SetMember(t, o, p)
  \/ \E o \in Objects :
       \/ GetMember(t, o) \/ Pin(t, o) \/ Unpin(t, o)
       \/ MonitorEnter(t, o) \/ MonitorWait(t, o) \/ MonitorExit(t, o) \/ Throw(t, o)
  \/ MonitorEntered(t) \/ Raise(t) \/ Clear(t) \/ Occurred(t)
  \/ \E os \in SUBSET Objects : NativeCall(t, os)
  \/ ThreadExits(t)

(* Nobody is in a call while a collection runs: it has the runtime lock.   *)
Next ==
  \/ Collect
  \/ VmCleanup
  \/ ~Collecting /\ \E t \in Threads : Guest(t)

Spec == Init /\ [][Next]_vars

-----------------------------------------------------------------------------
Ref == [type : RefTypes \cup {"none"}, object : Objects \cup {Null},
        owner : Threads \cup {Nobody}]

TypeOK ==
  /\ live \in SUBSET Objects
  /\ member \in [Objects -> Objects \cup {Null}]
  /\ owner \in [Objects -> Threads \cup {Nobody}]
  /\ waiting \in [Threads -> Objects \cup {Null}]
  /\ ref \in [Handles -> Ref]
  /\ frames \in [Threads -> Seq(Frame)]
  /\ pins \in [Threads -> [Objects -> Nat]]
  /\ roots \in [Threads -> Seq(SUBSET Objects)]
  /\ exception \in [Threads -> Objects \cup {Null}]
  /\ collector \in Threads \cup {Nobody}
  /\ mark \in SUBSET Objects
  /\ gray \in SUBSET Objects

(* Nothing dangles, not even in the middle of a collection: every handle,  *)
(* weak ones included, every operand of a native method, every retained    *)
(* buffer, pending exception and member of an object is on the heap.       *)
NothingDangles ==
  /\ \A h \in Handles : ref[h].object \in live \cup {Null}
  /\ RootSet \subseteq live
  /\ \A o \in live : member[o] \in live \cup {Null}

(* What an object reaches.                                                 *)
Reach(S) ==
  LET after[n \in 0..Cardinality(Objects)] ==
        IF n = 0 THEN S
        ELSE after[n - 1] \cup ({member[o] : o \in after[n - 1]} \ {Null})
  IN after[Cardinality(Objects)]

(* What the program may still use: what it has handles for, the operands   *)
(* of the methods it is in even when it deleted every handle to them, the  *)
(* buffers it retains after its last handle to the array is gone, a        *)
(* pending exception and the monitors it is in.                            *)
InUse ==
  {ref[h].object : h \in Strong} \cup Thrown
    \cup ({waiting[t] : t \in Threads} \ {Null})
    \cup {o \in Objects : owner[o] # Nobody}
    \cup UNION {Operands(t) \cup Pinned(t) : t \in Threads}

(* Between collections the heap is exactly what the program can reach.     *)
HeapExact == TypeOK /\ (~Collecting => live = Reach(InUse))

(* Every local reference lies in exactly one frame, one of its owner, and  *)
(* the other references in none; so the end of a frame ends exactly the    *)
(* references made in it.                                                  *)
EachInItsFrame ==
  \A h \in Handles :
    LET homes == {p \in UNION {{t} \X DOMAIN frames[t] : t \in Threads} :
                    h \in frames[p[1]][p[2]].slots}
    IN /\ Cardinality(homes) <= 1
       /\ ref[h].type = "local" <=> homes # {} /\ ref[h] # NoRef
       /\ \A p \in homes : ref[h] # NoRef => p[1] = ref[h].owner

(* And a thread has as many native boundaries among its frames as it is in *)
(* native methods: nothing a method does reaches its caller's frames.      *)
BoundariesMatch ==
  \A t \in Threads :
    Cardinality({i \in 1..Len(frames[t]) : frames[t][i].native})
      = Len(roots[t])

FramesExact == EachInItsFrame /\ BoundariesMatch

(* A local reference changes only in calls of its owner.                   *)
LocalsPrivate ==
  [][\A h \in Handles :
       ref[h].type = "local" /\ ref'[h] # ref[h]
         => collector' = ref[h].owner]_vars
=============================================================================
