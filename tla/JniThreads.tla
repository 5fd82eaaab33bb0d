----------------------------- MODULE JniThreads -----------------------------
(***************************************************************************)
(* The JNI runtime lock, thread attachment, monitors and DestroyJavaVM:    *)
(* src/src/bridges/jni/thread.c, the monitor entries of runtime/heap.c,    *)
(* and the points of runtime/native.c that give the lock up around guest   *)
(* native code.                                                            *)
(*                                                                         *)
(* One native mutex guards the whole runtime.  A thread re-enters it by a  *)
(* depth in its own record.  It is given up in three places only: around a *)
(* native method, while waiting for a monitor, and while DestroyJavaVM     *)
(* waits for the other user threads.  The bridge's own services take it    *)
(* too (jni_thread_lock), which counts as depth but not as an active call, *)
(* and use JNI entries under it.  Everything else between taking and       *)
(* releasing the mutex is one step.                                        *)
(***************************************************************************)
EXTENDS Naturals, Sequences, FiniteSets

CONSTANTS
  Threads,     (* guest threads                                            *)
  Objects,     (* Java objects used as monitors                            *)
  Nobody,      (* no thread                                                *)
  Nothing,     (* no object                                                *)
  MaxEntries,  (* bound: lock depth of one thread                          *)
  MaxNatives,  (* bound: native methods nested in one thread               *)
  MonitorMax   (* UINT32_MAX, where a monitor refuses one more entry       *)

ASSUME JniAssumption ==
  /\ IsFiniteSet(Threads)
  /\ Nobody \notin Threads
  /\ Nothing \notin Objects
  /\ MaxEntries \in Nat \ {0}
  /\ MaxNatives \in Nat
  /\ MonitorMax \in Nat \ {0}

VARIABLES
  holder,     (* thread that has __mutex, or Nobody                        *)
  attached,   (* attached[t]: "no", "user" or "daemon"                     *)
  depth,      (* depth[t]:    lock_depth                                   *)
  calls,      (* calls[t]:    calls, the active JNI entries                *)
  section,    (* section[t]:  the depth at which t locked for a service,   *)
              (*              or 0; what the stack of the thread says      *)
  saved,      (* saved[t]:    lock depths suspended by native methods      *)
  stage,      (* stage[t]:    where t is                                   *)
  waitsFor,   (* waitsFor[t]: the monitor t waits for                      *)
  owner,      (* owner[o]:    owner of the monitor                         *)
  entered,    (* entered[o]:  its depth                                    *)
  waiters,    (* waiters[o]:  its count of waiters, a root of collection   *)
  destroyer,  (* __destroyer                                               *)
  destroyed,  (* __destroyed                                               *)
  freed       (* the heap and the global references are released           *)

records == <<attached, depth, calls, section, saved>>
monitors == <<owner, entered, waiters>>
vm == <<destroyer, destroyed, freed>>
vars == <<holder, attached, depth, calls, section, saved, stage, waitsFor,
          owner, entered, waiters, destroyer, destroyed, freed>>

(* "guest" is code outside the runtime: the program, or a native method    *)
(* the runtime called.  "parted" is DestroyJavaVM between its two uses of  *)
(* the lock.                                                               *)
Stages == {"guest", "entry", "blocked", "woken",
           "destroying", "stirred", "parted", "gone"}

Attached == {t \in Threads : attached[t] # "no"}

Init ==
  /\ holder = Nobody
  /\ attached = [t \in Threads |-> "no"]
  /\ depth = [t \in Threads |-> 0]
  /\ calls = [t \in Threads |-> 0]
  /\ section = [t \in Threads |-> 0]
  /\ saved = [t \in Threads |-> <<>>]
  /\ stage = [t \in Threads |-> "guest"]
  /\ waitsFor = [t \in Threads |-> Nothing]
  /\ owner = [o \in Objects |-> Nobody]
  /\ entered = [o \in Objects |-> 0]
  /\ waiters = [o \in Objects |-> 0]
  /\ destroyer = Nobody
  /\ destroyed = FALSE
  /\ freed = FALSE

-----------------------------------------------------------------------------
(* Mutation of Notified: DestroyJavaVM is told, waiters of monitors not.   *)
DestroyerNotified(t, next) ==
  [u \in Threads |->
    CASE u = t -> next
      [] u # t /\ stage[u] = "destroying" -> "stirred"
      [] OTHER -> stage[u]]

(* jni_thread_notify: every thread in jni_thread_wait wakes, and t itself  *)
(* goes on to stage next.                                                  *)
Notified(t, next) ==
  [u \in Threads |->
    CASE u = t -> next
      [] u # t /\ stage[u] = "blocked" -> "woken"
      [] u # t /\ stage[u] = "destroying" -> "stirred"
      [] OTHER -> stage[u]]

(* jni_thread_attach: a thread without a record gets one, unless the VM is *)
(* destroyed or being destroyed.                                           *)
Attach(t, kind) ==
  /\ stage[t] = "guest"
  /\ holder = Nobody
  /\ ~destroyed
  /\ destroyer = Nobody
  /\ attached[t] = "no"
  /\ attached' = [attached EXCEPT ![t] = kind]
  /\ UNCHANGED <<holder, depth, calls, section, saved, stage, waitsFor, monitors, vm>>

(* jni_thread_enter, from guest code or inside another entry.              *)
Enter(t) ==
  /\ attached[t] # "no"
  /\ ~destroyed
  /\ \/ stage[t] = "guest" /\ holder = Nobody
     \/ stage[t] = "entry" /\ depth[t] < MaxEntries
  /\ holder' = t
  /\ depth' = [depth EXCEPT ![t] = @ + 1]
  /\ calls' = [calls EXCEPT ![t] = @ + 1]
  /\ stage' = [stage EXCEPT ![t] = "entry"]
  /\ UNCHANGED <<attached, section, saved, waitsFor, monitors, vm>>

(* jni_thread_leave of an entry; the lock of a service is left by Unlock.  *)
Leave(t) ==
  /\ stage[t] = "entry"
  /\ depth[t] > section[t]
  /\ calls' = [calls EXCEPT ![t] = @ - 1]
  /\ IF depth[t] > 1
     THEN /\ depth' = [depth EXCEPT ![t] = @ - 1]
          /\ UNCHANGED <<holder, stage>>
     ELSE /\ depth' = [depth EXCEPT ![t] = 0]
          /\ holder' = Nobody
          /\ stage' = [stage EXCEPT ![t] = "guest"]
  /\ UNCHANGED <<attached, section, saved, waitsFor, monitors, vm>>

(* Mutation of LeaveCollects: every leave collects.                        *)
EveryLeaveCollects(t) == stage[t] = "entry"

(* Whether that leave collects garbage.                                    *)
LeaveCollects(t) ==
  stage[t] = "entry" /\ (calls[t] = 1 \/ depth[t] = 1)

(* jni_thread_lock in __get_service: by the bridge's own code, which is in *)
(* no entry and no native method, or by a service inside an entry.  It     *)
(* finds, makes and drops references through the JNI table before Unlock.  *)
Lock(t) ==
  /\ attached[t] # "no"
  /\ ~destroyed
  /\ section[t] = 0
  /\ \/ stage[t] = "guest" /\ holder = Nobody /\ saved[t] = <<>>
     \/ stage[t] = "entry" /\ depth[t] < MaxEntries
  /\ holder' = t
  /\ depth' = [depth EXCEPT ![t] = @ + 1]
  /\ section' = [section EXCEPT ![t] = depth[t] + 1]
  /\ stage' = [stage EXCEPT ![t] = "entry"]
  /\ UNCHANGED <<attached, calls, saved, waitsFor, monitors, vm>>

(* jni_thread_unlock there.                                                *)
Unlock(t) ==
  /\ stage[t] = "entry"
  /\ section[t] > 0
  /\ depth[t] = section[t]
  /\ depth' = [depth EXCEPT ![t] = @ - 1]
  /\ section' = [section EXCEPT ![t] = 0]
  /\ IF depth[t] > 1
     THEN UNCHANGED <<holder, stage>>
     ELSE /\ holder' = Nobody
          /\ stage' = [stage EXCEPT ![t] = "guest"]
  /\ UNCHANGED <<attached, calls, saved, waitsFor, monitors, vm>>

(* jni_native_run calls the native method: jni_thread_suspend ...  The     *)
(* entries a service uses under its lock run none.                         *)
NativeCall(t) ==
  /\ stage[t] = "entry"
  /\ section[t] = 0
  /\ Len(saved[t]) < MaxNatives
  /\ saved' = [saved EXCEPT ![t] = <<depth[t]>> \o @]
  /\ depth' = [depth EXCEPT ![t] = 0]
  /\ holder' = Nobody
  /\ stage' = [stage EXCEPT ![t] = "guest"]
  /\ UNCHANGED <<attached, calls, section, waitsFor, monitors, vm>>

(* ... and jni_thread_resume when it returns.                              *)
NativeReturn(t) ==
  /\ stage[t] = "guest"
  /\ saved[t] # <<>>
  /\ holder = Nobody
  /\ holder' = t
  /\ depth' = [depth EXCEPT ![t] = Head(saved[t])]
  /\ saved' = [saved EXCEPT ![t] = Tail(@)]
  /\ stage' = [stage EXCEPT ![t] = "entry"]
  /\ UNCHANGED <<attached, calls, section, waitsFor, monitors, vm>>

-----------------------------------------------------------------------------
(* jni_entry_monitor_enter and jni_entry_monitor_exit. *)

Available(t, o) == owner[o] \in {Nobody, t}

(* The monitor is t's, one level deeper, unless its depth is at the limit. *)
Take(t, o) ==
  IF entered[o] = MonitorMax THEN UNCHANGED <<owner, entered>>
  ELSE /\ owner' = [owner EXCEPT ![o] = t]
       /\ entered' = [entered EXCEPT ![o] = @ + 1]

(* Guest code may enter the runtime: its thread is attached, the VM lives. *)
MayEnter(t) ==
  /\ stage[t] = "guest"
  /\ holder = Nobody
  /\ attached[t] # "no"
  /\ ~destroyed

(* An entry that never gives the lock up: enter, take, leave.              *)
MonitorEnter(t, o) ==
  /\ MayEnter(t)
  /\ Available(t, o)
  /\ Take(t, o)
  /\ UNCHANGED <<holder, records, stage, waitsFor, waiters, vm>>

(* An entry that waits keeps its depth and its active call.                *)
MonitorBlock(t, o) ==
  /\ MayEnter(t)
  /\ ~Available(t, o)
  /\ depth' = [depth EXCEPT ![t] = 1]
  /\ calls' = [calls EXCEPT ![t] = @ + 1]
  /\ waiters' = [waiters EXCEPT ![o] = @ + 1]
  /\ waitsFor' = [waitsFor EXCEPT ![t] = o]
  /\ stage' = [stage EXCEPT ![t] = "blocked"]
  /\ UNCHANGED <<holder, attached, section, saved, owner, entered, vm>>

(* The waiter has the lock again: it gives up on a dead VM, waits again,   *)
(* or takes the monitor.                                                   *)
MonitorRetry(t) ==
  LET o == waitsFor[t] IN
  /\ stage[t] = "woken"
  /\ holder = Nobody
  /\ IF ~destroyed /\ ~Available(t, o)
     THEN /\ stage' = [stage EXCEPT ![t] = "blocked"]
          /\ UNCHANGED <<holder, waitsFor, monitors>>
     ELSE /\ stage' = [stage EXCEPT ![t] = "entry"]
          /\ holder' = t
          /\ waitsFor' = [waitsFor EXCEPT ![t] = Nothing]
          /\ waiters' = [waiters EXCEPT ![o] = @ - 1]
          /\ IF destroyed THEN UNCHANGED <<owner, entered>> ELSE Take(t, o)
  /\ UNCHANGED <<records, vm>>

MonitorExit(t, o) ==
  /\ MayEnter(t)
  /\ owner[o] = t
  /\ entered' = [entered EXCEPT ![o] = @ - 1]
  /\ IF entered[o] = 1
     THEN /\ owner' = [owner EXCEPT ![o] = Nobody]
          /\ stage' = Notified(t, "guest")
     ELSE UNCHANGED <<owner, stage>>
  /\ UNCHANGED <<holder, records, waitsFor, waiters, vm>>

-----------------------------------------------------------------------------
(* __remove_thread: the record goes away, ...                              *)
RemoveRecord(t) ==
  /\ attached' = [attached EXCEPT ![t] = "no"]
  /\ depth' = [depth EXCEPT ![t] = 0]
  /\ calls' = [calls EXCEPT ![t] = 0]
  /\ section' = [section EXCEPT ![t] = 0]
  /\ saved' = [saved EXCEPT ![t] = <<>>]
  /\ UNCHANGED <<holder, waitsFor, waiters, destroyer, destroyed>>

(* ... with it the monitors the thread owns (jni_runtime_thread_cleanup),  *)
ReleaseMonitors(t) ==
  /\ owner' = [o \in Objects |-> IF owner[o] = t THEN Nobody ELSE owner[o]]
  /\ entered' = [o \in Objects |-> IF owner[o] = t THEN 0 ELSE entered[o]]

(* Mutations of Remove, each with one of its duties left undone: the       *)
(* monitors of the thread are kept, the heap goes with any thread of a     *)
(* destroyed VM, nobody is notified.                                       *)
RemoveKeepingMonitors(t, next) ==
  /\ RemoveRecord(t)
  /\ freed' = (freed \/ (destroyed /\ Attached = {t}))
  /\ stage' = Notified(t, next)
  /\ UNCHANGED <<owner, entered>>

RemoveWithHeap(t, next) ==
  /\ RemoveRecord(t)
  /\ ReleaseMonitors(t)
  /\ freed' = (freed \/ destroyed)
  /\ stage' = Notified(t, next)

RemoveSilently(t, next) ==
  /\ RemoveRecord(t)
  /\ ReleaseMonitors(t)
  /\ freed' = (freed \/ (destroyed /\ Attached = {t}))
  /\ stage' = [stage EXCEPT ![t] = next]

(* and, with the last thread of a destroyed VM, the heap.                  *)
Remove(t, next) ==
  /\ RemoveRecord(t)
  /\ ReleaseMonitors(t)
  /\ freed' = (freed \/ (destroyed /\ Attached = {t}))
  /\ stage' = Notified(t, next)

(* jni_thread_detach: refused while the thread has an active entry.        *)
Detach(t) ==
  /\ stage[t] \in {"guest", "parted"}
  /\ holder = Nobody
  /\ attached[t] # "no"
  /\ calls[t] = 0
  /\ Remove(t, "guest")

(* __thread_exited: the thread ends, in the program or in a native method. *)
ThreadExits(t) ==
  /\ stage[t] = "guest"
  /\ IF attached[t] # "no"
     THEN holder = Nobody /\ Remove(t, "gone")
     ELSE /\ stage' = [stage EXCEPT ![t] = "gone"]
          /\ UNCHANGED <<holder, records, waitsFor, monitors, vm>>

OtherUsers(t) == {u \in Threads \ {t} : attached[u] = "user"}

(* jni_thread_destroy, when no other user thread is left; the caller then  *)
(* detaches under the lock taken a second time.                            *)
Doom(t) ==
  /\ OtherUsers(t) = {}
  /\ destroyed' = TRUE
  /\ destroyer' = Nobody
  /\ stage' = [stage EXCEPT ![t] = "parted"]

Await(t) ==
  /\ OtherUsers(t) # {}
  /\ destroyer' = t
  /\ stage' = [stage EXCEPT ![t] = "destroying"]
  /\ UNCHANGED destroyed

Destroy(t) ==
  /\ stage[t] = "guest"
  /\ holder = Nobody
  /\ attached[t] # "no"
  /\ calls[t] = 0
  /\ ~destroyed
  /\ destroyer = Nobody
  /\ Doom(t) \/ Await(t)
  /\ UNCHANGED <<holder, records, waitsFor, monitors, freed>>

(* Mutation of DestroyRetry: the other threads are not looked at again.    *)
DestroyRetryOnce(t) ==
  /\ stage[t] = "stirred"
  /\ holder = Nobody
  /\ destroyed' = TRUE
  /\ destroyer' = Nobody
  /\ stage' = [stage EXCEPT ![t] = "parted"]
  /\ UNCHANGED <<holder, records, waitsFor, monitors, freed>>

DestroyRetry(t) ==
  /\ stage[t] = "stirred"
  /\ holder = Nobody
  /\ Doom(t) \/ Await(t)
  /\ UNCHANGED <<holder, records, waitsFor, monitors, freed>>

(* The native condition variable may wake a thread for no reason.          *)
SpuriousWake(t) ==
  /\ stage[t] \in {"blocked", "destroying"}
  /\ stage' = [stage EXCEPT
       ![t] = IF stage[t] = "blocked" THEN "woken" ELSE "stirred"]
  /\ UNCHANGED <<holder, records, waitsFor, monitors, vm>>

-----------------------------------------------------------------------------
Retry(t) == MonitorRetry(t) \/ DestroyRetry(t)

Next ==
  \E t \in Threads :
    \/ \E kind \in {"user", "daemon"} : Attach(t, kind)
    \/ Enter(t) \/ Leave(t) \/ Lock(t) \/ Unlock(t)
    \/ NativeCall(t) \/ NativeReturn(t)
    \/ \E o \in Objects :
         MonitorEnter(t, o) \/ MonitorBlock(t, o) \/ MonitorExit(t, o)
    \/ Retry(t)
    \/ Detach(t) \/ ThreadExits(t) \/ Destroy(t) \/ SpuriousWake(t)

Spec == Init /\ [][Next]_vars

Release(t) == Leave(t) \/ Unlock(t)

(* A thread that holds the mutex gives it up in the end, a woken thread    *)
(* gets it in the end (others take it again and again, so this is strong   *)
(* fairness of the native mutex), and DestroyJavaVM goes on to detach.     *)
Fairness ==
  \A t \in Threads :
    /\ SF_vars(Release(t))
    /\ SF_vars(depth[t] = 1 /\ Release(t))
    /\ SF_vars(Retry(t))
    /\ SF_vars(stage[t] = "parted" /\ Detach(t))

FairSpec == Spec /\ Fairness

-----------------------------------------------------------------------------
TypeOK ==
  /\ holder \in Threads \cup {Nobody}
  /\ attached \in [Threads -> {"no", "user", "daemon"}]
  /\ depth \in [Threads -> Nat]
  /\ calls \in [Threads -> Nat]
  /\ section \in [Threads -> Nat]
  /\ saved \in [Threads -> Seq(Nat)]
  /\ stage \in [Threads -> Stages]
  /\ waitsFor \in [Threads -> Objects \cup {Nothing}]
  /\ owner \in [Objects -> Threads \cup {Nobody}]
  /\ entered \in [Objects -> 0..MonitorMax]
  /\ waiters \in [Objects -> Nat]
  /\ destroyer \in Threads \cup {Nobody}
  /\ destroyed \in BOOLEAN
  /\ freed \in BOOLEAN

(* The entries t is in since its last native boundary: those may keep raw  *)
(* pointers to objects under the lock.  A service keeps references only.   *)
Entries(t) == depth[t] - (IF section[t] > 0 THEN 1 ELSE 0)

(* Garbage is collected on leaving only at a boundary: the leaving thread  *)
(* is in no other entry that keeps raw pointers.  It may be in a service,  *)
(* at lock depth two, which survives the collection.                       *)
CollectsAtBoundary ==
  [][\A t \in Threads :
       Leave(t) /\ LeaveCollects(t) => Entries(t) = 1]_vars

(* A monitor belongs to an attached thread, free monitors have depth zero, *)
(* and the waiter count that keeps the object from being collected counts  *)
(* the waiting threads, ...                                                *)
MonitorsCounted ==
  /\ TypeOK
  /\ \A o \in Objects :
       /\ owner[o] # Nobody => attached[owner[o]] # "no"
       /\ owner[o] = Nobody <=> entered[o] = 0
       /\ waiters[o] = Cardinality({t \in Threads : waitsFor[t] = o})

(* ... and no thread sleeps for a monitor that nobody else has.            *)
SleepersWait ==
  \A t \in Threads : stage[t] = "blocked" => owner[waitsFor[t]] \notin {Nobody, t}

(* Monitors stay exact through exits, detaches and the end of the VM: none *)
(* is orphaned, no count of waiters is off, no wake-up of a waiter is lost *)
(* when its owner leaves it or ends.                                       *)
MonitorsExact == MonitorsCounted /\ SleepersWait

(* The heap is released once the VM is destroyed and its last thread left, *)
(* never under a thread that is inside the runtime, waiting or in a native *)
(* method it called.                                                       *)
HeapOutlivesThreads ==
  /\ freed => destroyed /\ Attached = {}
  /\ \A t \in Threads :
       stage[t] \notin {"guest", "gone"} \/ calls[t] > 0 => ~freed
  /\ destroyed /\ Attached = {} => freed

(* DestroyJavaVM waits for every other user thread, and while it waits no  *)
(* thread joins the VM.                                                    *)
DestroyWaits ==
  [][/\ ~destroyed /\ destroyed'
          => \A t \in Threads : attached[t] = "user" => stage'[t] = "parted"
     /\ destroyer # Nobody
          => \A t \in Threads : attached'[t] # "no" => attached[t] # "no"]_vars

(* No wake-up is lost: threads that wait for a monitor when the VM dies    *)
(* come back, and DestroyJavaVM comes back once the other user threads     *)
(* have left.                                                              *)
DestroyReleasesWaiters ==
  destroyed ~> \A t \in Threads : stage[t] \notin {"blocked", "woken"}

DestroyCompletes ==
  (destroyer # Nobody /\ OtherUsers(destroyer) = {}) ~> destroyed
=============================================================================
