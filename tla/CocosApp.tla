------------------------------- MODULE CocosApp -------------------------------
(***************************************************************************)
(* The game between the loop of the program and its native code:           *)
(* bridges/jni/jni.c starts it, calls it back and stops it, input.c and    *)
(* loop.c of platform/ decide what it is called with, and the services of  *)
(* cocos.c that it may call from inside call it again.                     *)
(*                                                                         *)
(* One thread.  A call of the game is pushed onto `stack`; while it runs   *)
(* the game may throw, clear an exception, and use the two services that   *)
(* complete the expansion check and the startup.                           *)
(***************************************************************************)
EXTENDS Naturals, Sequences, FiniteSets
LOCAL INSTANCE SequencesExt

CONSTANTS
  Touches, Keys,
  MaxDepth,   \* bound: calls of the game inside each other
  MaxStarts   \* bound: starts

VARIABLES
  host,       \* what the program is doing, and the calls it has still to make
  stack,      \* the calls of the game in progress
  app,        \* __cocos, __ready and the arrays kept for touches
  jni,        \* whether an exception is pending, and the local frames pushed
  input,      \* what input.c remembers of the last poll
  guest       \* history: what the game has been told

vars == <<host, stack, app, jni, input, guest>>

Stages == <<"JNI_OnLoad", "nativeSetContext", "initJVMPlatformUtils", "expansion", "nativeInit">>
Stopped == [ready |-> FALSE, expansion |-> "none", startup |-> "none", arrays |-> "none"]
NoInput == [paused |-> FALSE, touches |-> {}, buttons |-> {}]
ToldNothing == [paused |-> FALSE, touches |-> {}, buttons |-> {}, delivered |-> {}]

Init ==
  /\ host = [at |-> "down", todo |-> <<>>, starts |-> 0]
  /\ stack = <<>>
  /\ app = Stopped
  /\ jni = [pending |-> FALSE, frames |-> 0]
  /\ input = NoInput
  /\ guest = ToldNothing

Top == Head(stack)
Call(name) == [name |-> name, arg |-> {}]
InGame == stack # <<>>
Fits == Len(stack) < MaxDepth
AtRest == stack = <<>> /\ host.todo = <<>>

-----------------------------------------------------------------------------
\* bridge_jni_cocos_start: a frame, a clean state, and no exception from before.
Start ==
  /\ host.at = "down" /\ AtRest /\ host.starts < MaxStarts
  /\ host' = [at |-> IF jni.pending THEN "down" ELSE "starting",
              todo |-> IF jni.pending THEN <<>> ELSE [k \in DOMAIN Stages |-> Call(Stages[k])],
              starts |-> host.starts + 1]
  /\ jni' = [jni EXCEPT !.frames = IF jni.pending THEN @ ELSE @ + 1]
  /\ app' = Stopped
  /\ guest' = ToldNothing
  /\ UNCHANGED <<stack, input>>

\* __start fails: the frame is popped, everything forgotten.
Fail ==
  /\ host' = [host EXCEPT !.at = "down", !.todo = <<>>]
  /\ jni' = [jni EXCEPT !.frames = @ - 1]
  /\ app' = Stopped
  /\ UNCHANGED input

\* A required function is missing, a string cannot be made, or the version is odd.
StartFails == host.at = "starting" /\ ~InGame /\ Fail /\ UNCHANGED <<stack, guest>>

\* The next call of the start.  The game may lack the function for the expansion
\* and for the startup, which is looked for after the former has been called.
Stage ==
  LET name == Head(host.todo).name IN
  /\ host.at = "starting" /\ ~InGame /\ host.todo # <<>>
  /\ \E has \in BOOLEAN :
       /\ ~has => name = "expansion"
       /\ stack' = IF has THEN <<Head(host.todo)>> ELSE stack
       /\ app' = IF has /\ name = "expansion" THEN [app EXCEPT !.expansion = "there"] ELSE app
  /\ host' = [host EXCEPT !.todo = Tail(@)]
  /\ UNCHANGED <<jni, input, guest>>

FindStartup ==
  /\ host.at = "starting" /\ Len(host.todo) = 1 /\ ~InGame /\ app.startup = "none"
  /\ app' = [app EXCEPT !.startup = "there"]
  /\ UNCHANGED <<host, stack, jni, input, guest>>

\* All calls returned well: the loop begins, with vita_input_initialize.
Started ==
  /\ host.at = "starting" /\ AtRest
  /\ host' = [host EXCEPT !.at = "poll"]
  /\ jni' = [jni EXCEPT !.frames = @ - 1]
  /\ app' = [app EXCEPT !.ready = TRUE]
  /\ input' = NoInput
  /\ UNCHANGED <<stack, guest>>

-----------------------------------------------------------------------------
\* What the loop does next is worked out when all calls before it were made.
Idle(at) == host.at = at /\ AtRest
Proceed(at, todo) == host' = [host EXCEPT !.at = at, !.todo = todo]
Sorted(name, S) == SetToSeq({[name |-> name, arg |-> {x}] : x \in S})

\* __poll_controller: pausing, then the buttons that changed; or nothing, when
\* the pad cannot be read.
PollController(paused, buttons) ==
  LET lifecycle == IF paused = input.paused THEN <<>> ELSE <<Call(IF paused THEN "pause" ELSE "resume")>> IN
  /\ Idle("poll") /\ app.ready
  /\ input' = [input EXCEPT !.paused = paused, !.buttons = buttons]
  /\ Proceed("touch", lifecycle \o Sorted("down", buttons \ input.buttons) \o Sorted("up", input.buttons \ buttons))
  /\ UNCHANGED <<stack, app, jni, guest>>

PollControllerFails ==
  /\ Idle("poll") /\ app.ready
  /\ Proceed("touch", <<>>)
  /\ UNCHANGED <<stack, app, jni, input, guest>>

\* Mutant: touches are remembered only when there are any.
RememberSome(touches) == IF touches = {} THEN input.touches ELSE touches
Remember(touches) == touches

\* __poll_touch, unless paused: new touches, lost touches, and all there are.
PollTouch(touches) ==
  /\ Idle("touch") /\ ~input.paused
  /\ input' = [input EXCEPT !.touches = Remember(touches)]
  /\ Proceed("render", Sorted("begin", touches \ input.touches) \o Sorted("end", input.touches \ touches)
       \o IF touches = {} THEN <<>> ELSE <<[name |-> "move", arg |-> touches]>>)
  /\ UNCHANGED <<stack, app, jni, guest>>

NoTouch ==
  /\ Idle("touch")
  /\ Proceed("render", <<>>)
  /\ UNCHANGED <<stack, app, jni, input, guest>>

\* vita_frame_step goes on to render, unless paused; the loop ends when the game
\* has been stopped.
Frame ==
  /\ Idle("render") /\ app.ready
  /\ Proceed("poll", IF input.paused THEN <<>> ELSE <<Call("render")>>)
  /\ UNCHANGED <<stack, app, jni, input, guest>>

\* main stops the game when its loop is over; the start failed otherwise.
Shutdown ==
  /\ host.at \notin {"down", "starting"} /\ AtRest /\ ~app.ready
  /\ Proceed("down", <<>>)
  /\ app' = Stopped
  /\ UNCHANGED <<stack, jni, input, guest>>

-----------------------------------------------------------------------------
\* __callback_ready: not when the game was stopped, and not with an exception, or
\* without memory for a frame, which stop it.
Told(call) ==
  LET arg == call.arg IN
  CASE call.name = "pause" -> [guest EXCEPT !.paused = TRUE]
    [] call.name = "resume" -> [guest EXCEPT !.paused = FALSE]
    [] call.name = "begin" -> [guest EXCEPT !.touches = @ \cup arg]
    [] call.name = "end" -> [guest EXCEPT !.touches = @ \ arg]
    [] call.name = "down" -> [guest EXCEPT !.buttons = @ \cup arg]
    [] call.name = "up" -> [guest EXCEPT !.buttons = @ \ arg]
    [] OTHER -> guest
Running == host.at \notin {"down", "starting"} /\ ~InGame /\ host.todo # <<>>
Dequeue == host' = [host EXCEPT !.todo = Tail(@)]

Callback ==
  LET call == Head(host.todo) IN
  /\ Running /\ app.ready /\ ~jni.pending
  /\ call.name = "move" => app.arrays = "all"
  /\ stack' = <<call>>
  /\ jni' = [jni EXCEPT !.frames = @ + 1]
  /\ guest' = Told(call)
  /\ Dequeue /\ UNCHANGED <<app, input>>

Skipped ==
  /\ Running /\ ~app.ready
  /\ Dequeue /\ UNCHANGED <<stack, app, jni, input, guest>>

NotReady ==
  /\ Running /\ app.ready
  /\ app' = Stopped
  /\ Dequeue /\ UNCHANGED <<stack, jni, input, guest>>

\* __prepare_touch_arrays: some of the arrays for this many touches are made; the
\* call is given up, and the game stopped if an exception was left.
PrepareArrays ==
  /\ Running /\ app.ready /\ ~jni.pending
  /\ Head(host.todo).name = "move" /\ app.arrays # "all"
  /\ \/ app' = [app EXCEPT !.arrays = "all"] /\ UNCHANGED <<host, jni>>
     \/ app' = [app EXCEPT !.arrays = "some"] /\ Dequeue /\ UNCHANGED jni
     \/ app' = Stopped /\ Dequeue /\ jni' = [jni EXCEPT !.pending = TRUE]
  /\ UNCHANGED <<stack, input, guest>>

-----------------------------------------------------------------------------
\* Inside the game.
Throw(pending) ==
  /\ InGame /\ jni.pending # pending
  /\ jni' = [jni EXCEPT !.pending = pending]
  /\ UNCHANGED <<host, stack, app, input, guest>>

\* COCOS_EXPANSION_CHECK and COCOS_STARTUP: nothing again once delivered, an
\* exception without the function, and else the function is called.
Service(which) ==
  /\ InGame /\ ~jni.pending /\ Fits
  /\ \/ app[which] = "there" /\ stack' = <<Call(which)>> \o stack /\ UNCHANGED jni
     \/ app[which] = "none" /\ jni' = [jni EXCEPT !.pending = TRUE] /\ UNCHANGED stack
  /\ UNCHANGED <<host, app, input, guest>>

\* Mutant: the delivery is not remembered.
DeliveredNot == app
\* bridge_jni_cocos_complete_expansion and _notify_startup after the call.
IsDelivery == ~jni.pending /\ Top.name \in {"expansion", "startup"}
Delivered == IF IsDelivery THEN [app EXCEPT ![Top.name] = "delivered"] ELSE app

\* A call returns into the game, or into the start, or __callback_complete looks
\* for an exception, which stops the game.
Return ==
  /\ InGame
  /\ stack' = Tail(stack)
  /\ guest' = IF IsDelivery THEN [guest EXCEPT !.delivered = @ \cup {Top.name}] ELSE guest
  /\ IF Tail(stack) # <<>>
       THEN app' = Delivered /\ UNCHANGED <<host, jni, input>>
     ELSE IF host.at = "starting"
       THEN IF jni.pending THEN Fail ELSE app' = Delivered /\ UNCHANGED <<host, jni, input>>
     ELSE /\ jni' = [jni EXCEPT !.frames = @ - 1]
          /\ app' = IF jni.pending THEN Stopped ELSE app
          /\ UNCHANGED <<host, input>>

Next ==
  \/ Start \/ StartFails \/ Stage \/ FindStartup \/ Started
  \/ \E paused \in BOOLEAN, buttons \in SUBSET Keys : PollController(paused, buttons)
  \/ PollControllerFails
  \/ \E touches \in SUBSET Touches : PollTouch(touches)
  \/ NoTouch \/ Frame \/ Shutdown
  \/ Callback \/ Skipped \/ NotReady \/ PrepareArrays
  \/ \E pending \in BOOLEAN : Throw(pending)
  \/ \E which \in {"expansion", "startup"} : Service(which)
  \/ Return

Spec == Init /\ [][Next]_vars

-----------------------------------------------------------------------------
\* The game is entered with no exception pending.  Its events make sense to it
\* whatever was polled, failed to be polled or happened while it was paused: it
\* is paused and resumed in turn, neither drawn nor touched while paused, every
\* touch and button goes down before it goes up, and a move is of the touches it
\* knows.  What was delivered to it once is not delivered again, and when it has
\* been stopped nothing is left of it.
Sensible(call) ==
  LET arg == call.arg IN
  CASE call.name = "pause" -> ~guest.paused
    [] call.name = "resume" -> guest.paused
    [] call.name = "render" -> ~guest.paused
    [] call.name = "begin" -> ~guest.paused /\ arg \cap guest.touches = {}
    [] call.name = "end" -> ~guest.paused /\ arg \subseteq guest.touches
    [] call.name = "move" -> ~guest.paused /\ arg = guest.touches
    [] call.name = "down" -> arg \cap guest.buttons = {}
    [] call.name = "up" -> arg \subseteq guest.buttons
    [] call.name \in {"expansion", "startup"} -> call.name \notin guest.delivered
    [] OTHER -> TRUE
GameIsCalledSensibly ==
  /\ Len(stack') > Len(stack) => ~jni.pending /\ Sensible(Head(stack'))
  /\ host'.at = "down" /\ stack' = <<>> => jni'.frames = 0 /\ app' = Stopped
  /\ host'.at = "poll" /\ stack' = <<>> /\ app'.ready /\ host'.todo = <<>> => jni'.frames = 0
=============================================================================
