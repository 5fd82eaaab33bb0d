-------------------------------- MODULE Once --------------------------------
(***************************************************************************)
(* The guest pthread_once bridge of src/src/bridges/libc/once.c.           *)
(*                                                                         *)
(* A control is a 32-bit guest word.  While calls are inside the bridge a  *)
(* registry entry, guarded by __once_mutex, records that an initialiser is *)
(* running and how many calls use the entry; the last one frees it.  All   *)
(* controls share one condition variable and one count of its waiters,     *)
(* and the broadcast is skipped when that count is zero.                   *)
(*                                                                         *)
(* Initialisers are guest code: they may call pthread_once again, and the  *)
(* thread that runs them may exit or be cancelled in them or in the wait.  *)
(***************************************************************************)
EXTENDS Naturals, Sequences, FiniteSets

CONSTANTS
  Threads,   (* guest threads                                              *)
  Controls,  (* guest once controls                                        *)
  NoControl, (* a thread that is in no call                                *)
  MayNest    (* pairs <<c, d>>: the initialiser of c may call once on d    *)

ASSUME OnceAssumption ==
  /\ IsFiniteSet(Threads)
  /\ NoControl \notin Controls
  /\ MayNest \subseteq Controls \X Controls

VARIABLES
  control,  (* control[c]: the guest word: "initial", "running" or "done"  *)
  entry,    (* entry[c]:   the registry has an entry for c                 *)
  running,  (* running[c]: its running flag                                *)
  users,    (* users[c]:   its count of calls                              *)
  waiters,  (* __once_waiters                                              *)
  stage,    (* stage[t]:   "guest" code, "slow", "waiting", "woken",       *)
            (*             "exiting" or "gone"                             *)
  arg,      (* arg[t]:     the control of the call t is in                 *)
  stack,    (* stack[t]:   initialisers t is inside, innermost first       *)
  got       (* auxiliary:  pairs <<t, c>>, a call of t on c returned 0     *)

vars == <<control, entry, running, users, waiters, stage, arg, stack, got>>

Stages == {"guest", "slow", "waiting", "woken", "exiting", "gone"}

Init ==
  /\ control = [c \in Controls |-> "initial"]
  /\ entry = [c \in Controls |-> FALSE]
  /\ running = [c \in Controls |-> FALSE]
  /\ users = [c \in Controls |-> 0]
  /\ waiters = 0
  /\ stage = [t \in Threads |-> "guest"]
  /\ arg = [t \in Threads |-> NoControl]
  /\ stack = [t \in Threads |-> <<>>]
  /\ got = {}

-----------------------------------------------------------------------------
(* __release: the last user unlinks and frees the entry.                   *)
Release(c) ==
  /\ users' = [users EXCEPT ![c] = @ - 1]
  /\ entry' = [entry EXCEPT ![c] = users[c] # 1]

Broadcast(s, t, next) ==
  [u \in Threads |-> IF u = t THEN next
                     ELSE IF s[u] = "waiting" THEN "woken" ELSE s[u]]

(* pthread_cond_broadcast, only when somebody is counted as waiting; t     *)
(* itself goes to stage next.                                              *)
NotifyAndGoto(t, next) ==
  stage' = IF waiters > 0 THEN Broadcast(stage, t, next)
           ELSE [stage EXCEPT ![t] = next]

Back(t) ==
  /\ stage' = [stage EXCEPT ![t] = "guest"]
  /\ arg' = [arg EXCEPT ![t] = NoControl]

(* The guest calls pthread_once; the control is loaded before the lock.    *)
Call(t, c) ==
  /\ stage[t] = "guest"
  /\ stack[t] # <<>> => <<Head(stack[t]), c>> \in MayNest
  /\ IF control[c] = "done"
     THEN /\ got' = got \cup {<<t, c>>}
          /\ UNCHANGED <<stage, arg>>
     ELSE /\ stage' = [stage EXCEPT ![t] = "slow"]
          /\ arg' = [arg EXCEPT ![t] = c]
          /\ UNCHANGED got
  /\ UNCHANGED <<control, entry, running, users, waiters, stack>>

(* The slow path under the lock returns at once: another call completed    *)
(* the control meanwhile; or EINVAL for a word nobody runs; or ENOMEM.     *)
SlowDone(t) ==
  /\ stage[t] = "slow"
  /\ control[arg[t]] = "done"
  /\ got' = got \cup {<<t, arg[t]>>}
  /\ Back(t)
  /\ UNCHANGED <<control, entry, running, users, waiters, stack>>

SlowFails(t) ==
  LET c == arg[t] IN
  /\ stage[t] = "slow"
  /\ ~entry[c]
  /\ control[c] # "done"
  /\ Back(t)
  /\ UNCHANGED <<control, entry, running, users, waiters, stack, got>>

(* The caller becomes the one that runs the initialiser.                   *)
Start(t, c) ==
  /\ running' = [running EXCEPT ![c] = TRUE]
  /\ control' = [control EXCEPT ![c] = "running"]
  /\ stack' = [stack EXCEPT ![t] = <<c>> \o @]
  /\ Back(t)

SlowStart(t) ==
  LET c == arg[t] IN
  /\ stage[t] = "slow"
  /\ control[c] # "done"
  /\ control[c] = "running" => entry[c]
  /\ ~running[c]
  /\ entry' = [entry EXCEPT ![c] = TRUE]
  /\ users' = [users EXCEPT ![c] = @ + 1]
  /\ Start(t, c)
  /\ UNCHANGED <<waiters, got>>

SlowWait(t) ==
  LET c == arg[t] IN
  /\ stage[t] = "slow"
  /\ control[c] # "done"
  /\ entry[c] /\ running[c]
  /\ users' = [users EXCEPT ![c] = @ + 1]
  /\ waiters' = waiters + 1
  /\ stage' = [stage EXCEPT ![t] = "waiting"]
  /\ UNCHANGED <<control, entry, running, arg, stack, got>>

-----------------------------------------------------------------------------
(* A broadcast waiter has the lock again and goes round the loop.          *)

WokenDone(t) ==
  LET c == arg[t] IN
  /\ stage[t] = "woken"
  /\ control[c] = "done"
  /\ waiters' = waiters - 1
  /\ Release(c)
  /\ got' = got \cup {<<t, c>>}
  /\ Back(t)
  /\ UNCHANGED <<control, running, stack>>

WokenStart(t) ==
  LET c == arg[t] IN
  /\ stage[t] = "woken"
  /\ control[c] # "done"
  /\ ~running[c]
  /\ waiters' = waiters - 1
  /\ Start(t, c)
  /\ UNCHANGED <<entry, users, got>>

WokenAgain(t) ==
  LET c == arg[t] IN
  /\ stage[t] = "woken"
  /\ control[c] # "done"
  /\ running[c]
  /\ stage' = [stage EXCEPT ![t] = "waiting"]
  /\ UNCHANGED <<control, entry, running, users, waiters, arg, stack, got>>

(* The native wait wakes without a broadcast.                              *)
SpuriousWake(t) ==
  /\ stage[t] = "waiting"
  /\ stage' = [stage EXCEPT ![t] = "woken"]
  /\ UNCHANGED <<control, entry, running, users, waiters, arg, stack, got>>

(* The native wait returns an error, which the call passes on.             *)
WaitFails(t) ==
  /\ stage[t] = "waiting"
  /\ waiters' = waiters - 1
  /\ Release(arg[t])
  /\ Back(t)
  /\ UNCHANGED <<control, running, stack, got>>

(* Mutation of WaiterExited: a cancelled waiter stays counted.             *)
WaiterExitedCounted(t) ==
  /\ stage[t] \in {"waiting", "woken"}
  /\ Release(arg[t])
  /\ stage' = [stage EXCEPT ![t] = "exiting"]
  /\ arg' = [arg EXCEPT ![t] = NoControl]
  /\ UNCHANGED <<control, running, waiters, stack, got>>

(* __waiter_exited: the waiter is cancelled, before or after a broadcast.  *)
WaiterExited(t) ==
  /\ stage[t] \in {"waiting", "woken"}
  /\ waiters' = waiters - 1
  /\ Release(arg[t])
  /\ stage' = [stage EXCEPT ![t] = "exiting"]
  /\ arg' = [arg EXCEPT ![t] = NoControl]
  /\ UNCHANGED <<control, running, stack, got>>

-----------------------------------------------------------------------------
(* The innermost initialiser of t leaves its entry in state v.             *)
Leave(t, v, next) ==
  LET c == Head(stack[t]) IN
  /\ stack[t] # <<>>
  /\ running' = [running EXCEPT ![c] = FALSE]
  /\ control' = [control EXCEPT ![c] = v]
  /\ NotifyAndGoto(t, next)
  /\ Release(c)
  /\ stack' = [stack EXCEPT ![t] = Tail(@)]
  /\ UNCHANGED <<waiters, arg>>

InitializerReturns(t) ==
  /\ stage[t] = "guest"
  /\ Leave(t, "done", "guest")
  /\ got' = got \cup {<<t, Head(stack[t])>>}

(* The guest thread exits or is cancelled in guest code.                   *)
ThreadExits(t) ==
  /\ stage[t] = "guest"
  /\ stage' = [stage EXCEPT ![t] = "exiting"]
  /\ UNCHANGED <<control, entry, running, users, waiters, arg, stack, got>>

(* Mutations of InitializerExited: an initialiser that exits counts as     *)
(* complete; and nobody is told of its exit.                               *)
InitializerExitedDone(t) ==
  /\ stage[t] = "exiting"
  /\ Leave(t, "done", "exiting")
  /\ UNCHANGED got

InitializerExitedSilently(t) ==
  LET c == Head(stack[t]) IN
  /\ stage[t] = "exiting"
  /\ stack[t] # <<>>
  /\ running' = [running EXCEPT ![c] = FALSE]
  /\ control' = [control EXCEPT ![c] = "initial"]
  /\ Release(c)
  /\ stack' = [stack EXCEPT ![t] = Tail(@)]
  /\ UNCHANGED <<waiters, stage, arg, got>>

(* __initializer_exited: its cleanup handlers run, innermost first.        *)
InitializerExited(t) ==
  /\ stage[t] = "exiting"
  /\ Leave(t, "initial", "exiting")
  /\ UNCHANGED got

ThreadGone(t) ==
  /\ stage[t] = "exiting"
  /\ stack[t] = <<>>
  /\ stage' = [stage EXCEPT ![t] = "gone"]
  /\ UNCHANGED <<control, entry, running, users, waiters, arg, stack, got>>

-----------------------------------------------------------------------------
Slow(t) == SlowDone(t) \/ SlowFails(t) \/ SlowStart(t) \/ SlowWait(t)
Woken(t) == WokenDone(t) \/ WokenStart(t) \/ WokenAgain(t)
Unwind(t) == InitializerExited(t) \/ ThreadGone(t)

Next ==
  \E t \in Threads :
    \/ \E c \in Controls : Call(t, c)
    \/ Slow(t) \/ Woken(t)
    \/ SpuriousWake(t) \/ WaitFails(t) \/ WaiterExited(t)
    \/ InitializerReturns(t) \/ ThreadExits(t) \/ Unwind(t)

(* The bridge's own steps and cleanup handlers run to their end, and guest *)
(* initialisers return, although they may call once again in between.      *)
Fairness ==
  \A t \in Threads :
    /\ WF_vars(Slow(t))
    /\ WF_vars(Woken(t))
    /\ WF_vars(Unwind(t))
    /\ SF_vars(InitializerReturns(t))

Spec == Init /\ [][Next]_vars

FairSpec == Spec /\ Fairness

-----------------------------------------------------------------------------
TypeOK ==
  /\ control \in [Controls -> {"initial", "running", "done"}]
  /\ entry \in [Controls -> BOOLEAN]
  /\ running \in [Controls -> BOOLEAN]
  /\ users \in [Controls -> Nat]
  /\ waiters \in Nat
  /\ stage \in [Threads -> Stages]
  /\ arg \in [Threads -> Controls \cup {NoControl}]
  /\ stack \in [Threads -> Seq(Controls)]
  /\ got \in SUBSET (Threads \X Controls)

Inside(t) == {stack[t][i] : i \in 1..Len(stack[t])}
Waiters == {t \in Threads : stage[t] \in {"waiting", "woken"}}
Waiting(c) == {t \in Waiters : arg[t] = c}
Runners(c) == {t \in Threads : c \in Inside(t)}

(* The guest word, the entry and its flag agree with who is inside the     *)
(* initialiser: at most one thread, and a word left at "running" always    *)
(* has an entry, so no later caller is told EINVAL.                        *)
RunningAgrees ==
  \A c \in Controls :
    /\ Cardinality(Runners(c)) = IF control[c] = "running" THEN 1 ELSE 0
    /\ running[c] <=> control[c] = "running"
    /\ running[c] => entry[c]

(* Both counters are exact, so the entry lives exactly as long as a thread *)
(* has a pointer to it, and a broadcast is skipped only when nobody waits. *)
CountersExact ==
  /\ waiters = Cardinality(Waiters)
  /\ \A c \in Controls :
       /\ users[c] = Cardinality(Waiting(c)) + Cardinality(Runners(c))
       /\ entry[c] <=> users[c] > 0

(* Word, flag, entry and counters describe one state of every control,     *)
(* through nested initialisers, exits and cancellations.                   *)
TableExact == TypeOK /\ RunningAgrees /\ CountersExact

(* The bridge implements the abstract control.                             *)
Cell == INSTANCE OnceCell
          WITH phase <- control,
               runners <- [c \in Controls |-> Runners(c)]

Implements == Cell!CellSpec

(* A call that waits for another thread's initialiser comes back, whether  *)
(* that initialiser returned, exited or was cancelled.                     *)
WaitersReturn ==
  \A t \in Threads : (t \in Waiters) ~> (t \notin Waiters)
=============================================================================
