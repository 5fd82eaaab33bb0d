------------------------------ MODULE GameServices ------------------------------
(***************************************************************************)
(* What the bridge does inside a game besides calling it                   *)
(* (bridges/cocos2dx): the hook on its textures (textures.c), its database *)
(* (storage.c), and freeing, when it is unloaded, the objects that no      *)
(* destructor of the game frees (cocos2dx.c).  All of it rests on          *)
(* fingerprints of the game's code: what is not recognised is left alone.  *)
(*                                                                         *)
(* `game` is what the game is like and what of it is recognised.  The game *)
(* is driven by init.c and freed by loader.c, one step at a time.  Its     *)
(* operator delete is exported.                                            *)
(***************************************************************************)
EXTENDS Integers, FiniteSets

CONSTANTS
  Games,      \* the games, see below
  MaxTries    \* bound: times the library is freed

(***************************************************************************)
(* A game is a record of                                                   *)
(*   abi: "none", "names" or "offsets", by which its textures are known;   *)
(*   objects: what its bootstrap allocates, of "application", "provider",  *)
(*     "purchase", "analytics", "achievement" and "platform";              *)
(*   known: those of them whose concrete type is recognised;               *)
(*   bootstrap: whether the code that allocates the services is;           *)
(*   wrapper: the shop's, "none", "enabled", "disabled" or "unknown";      *)
(*   listens: whether the shop calls the purchase service;                 *)
(*   strings, layout: whether the destructors of strings and the members   *)
(*     of the purchase service are recognised.                             *)
(***************************************************************************)

VARIABLES
  game,
  phase,      \* where init.c and loader_free_library are
  hook,       \* [init, patched]: __init, and the game's code
  library,    \* [prepare, finish, context, tries]: of dynalib_t
  freed,      \* freed[o]: how often an object was freed
  listens     \* whether the shop still calls the purchase service

vars == <<game, phase, hook, library, freed, listens>>

Parts == {"application", "provider", "purchase", "analytics", "achievement", "platform"}
None == {}

Init ==
  /\ game \in Games
  /\ phase = "loaded"
  /\ hook = [init |-> FALSE, patched |-> FALSE]
  /\ library = [prepare |-> FALSE, finish |-> FALSE, context |-> None, tries |-> 0]
  /\ freed = [o \in Parts |-> 0]
  /\ listens = FALSE

Goto(p) == phase' = p

-----------------------------------------------------------------------------
\* bridge_patch_cocos2dx.
Patch ==
  /\ phase = "loaded" /\ Goto("patched")
  /\ library' = [library EXCEPT !.prepare = TRUE]
  /\ UNCHANGED <<game, hook, freed, listens>>

\* bridge_cocos_configure_textures: the verified prologue goes to the trampoline
\* first, and only then the jump goes into the code of the game.
Trampoline(fails) ==
  /\ phase = "patched"
  /\ IF game.abi = "none" \/ fails THEN hook' = [hook EXCEPT !.init = FALSE] /\ Goto("stop")
     ELSE hook' = [hook EXCEPT !.init = TRUE] /\ Goto("hook")
  /\ UNCHANGED <<game, library, freed, listens>>
Hook(fails) ==
  /\ phase = "hook"
  /\ IF fails THEN hook' = [hook EXCEPT !.init = FALSE] /\ Goto("stop")
     ELSE hook' = [hook EXCEPT !.patched = TRUE] /\ Goto("storage")
  /\ UNCHANGED <<game, library, freed, listens>>

\* loader_init_library and bridge_cocos_configure_storage: the directory, the locks
\* of the database and the database itself, or the game is not started.
Storage(fails) ==
  /\ phase = "storage"
  /\ Goto(IF fails THEN "stop" ELSE "start")
  /\ UNCHANGED <<game, hook, library, freed, listens>>

\* bridge_jni_cocos_start: the game allocates its objects, and the shop knows the
\* listener.  A start that fails may have come that far.
Start(fails) ==
  /\ phase = "start"
  /\ listens' = game.listens
  /\ Goto(IF fails THEN "stop" ELSE "run")
  /\ UNCHANGED <<game, hook, library, freed>>

\* __from_image_with_format, for a texture of the game: its own code first.
Texture ==
  /\ phase \in {"start", "run"} /\ hook.patched
  /\ hook.init
  /\ UNCHANGED vars

\* __loop ends, and __stop.
Quit ==
  /\ phase = "run" /\ Goto("stop")
  /\ UNCHANGED <<game, hook, library, freed, listens>>

-----------------------------------------------------------------------------
\* loader_free_library: deferred as long as synchronisation objects are in use.
Free(busy) ==
  /\ phase \in {"stop", "deferred"} /\ library.tries < MaxTries
  /\ library' = [library EXCEPT !.tries = @ + 1]
  /\ Goto(IF busy THEN "deferred" ELSE IF library.prepare THEN "prepare" ELSE "finish")
  /\ UNCHANGED <<game, hook, freed, listens>>

Recognised(o) == o \in game.objects /\ o \in game.known
\* __prepare_purchase: the shop's listener is understood or nothing is touched ...
\* Mutant: an unknown wrapper is taken for none.
WrapperAny == TRUE
WrapperUnderstood == game.wrapper # "unknown"
\* ... and the purchase service is freed if all its members can be.
OwnsPurchase == Recognised("purchase") /\ game.strings /\ game.layout
Understood == game.bootstrap /\ Recognised("purchase") => WrapperUnderstood

\* __prepare_cocos_services: those that finish will free.
Captured ==
  IF ~game.bootstrap THEN None
  ELSE {o \in {"analytics", "achievement"} : Recognised(o)}
       \cup {o \in {"platform"} : Recognised(o) /\ game.strings}
       \cup {o \in {"purchase"} : OwnsPurchase}
Disconnects == game.bootstrap /\ Recognised("purchase") /\ game.wrapper = "enabled" /\ listens

\* __cleanup_cocos: all that can fail comes before all that destroys.
PrepareFails(outOfMemory) ==
  /\ phase = "prepare" /\ Recognised("application")
  /\ ~Understood \/ (outOfMemory /\ (Captured # None \/ Disconnects))
  /\ Goto("deferred")
  /\ UNCHANGED <<game, hook, library, freed, listens>>

\* The listener, the application, and a provider of ours, which it does not own.  The
\* object factory of the game is told to destroy itself.
Prepare ==
  LET deletes == Recognised("application")
      gone == IF deletes THEN {"application"} \cup {o \in {"provider"} : Recognised(o)} ELSE None
  IN /\ phase = "prepare" /\ (deletes => Understood)
     /\ listens' = (listens /\ ~(deletes /\ Disconnects))
     /\ freed' = [o \in Parts |-> freed[o] + (IF o \in gone THEN 1 ELSE 0)]
     /\ library' = [library EXCEPT !.prepare = FALSE, !.context = IF deletes THEN Captured ELSE None,
                                   !.finish = deletes /\ (Captured # None \/ Disconnects)]
     /\ Goto("finish")
     /\ UNCHANGED <<game, hook>>

\* __cleanup_cocos_services, after the destructors; then the image goes, unless a
\* mutex of it has come into use.
Finish(keeps) ==
  /\ phase = "finish"
  /\ freed' = [o \in Parts |-> freed[o] + (IF library.finish /\ o \in library.context THEN 1 ELSE 0)]
  /\ library' = [library EXCEPT !.finish = FALSE, !.context = None]
  /\ Goto(IF keeps THEN "deferred" ELSE "unmapped")
  /\ UNCHANGED <<game, hook, listens>>

\* bridge_cocos_release_textures, whether the image is gone or not; the end.
Release ==
  /\ phase \in {"deferred", "unmapped"} /\ hook.init
  /\ hook' = [hook EXCEPT !.init = FALSE]
  /\ UNCHANGED <<game, phase, library, freed, listens>>

Next ==
  \/ Patch \/ Texture \/ Quit \/ Prepare \/ Release
  \/ \E fails \in BOOLEAN : Trampoline(fails) \/ Hook(fails) \/ Storage(fails) \/ Start(fails)
  \/ \E yes \in BOOLEAN : Free(yes) \/ PrepareFails(yes) \/ Finish(yes)

Spec == Init /\ [][Next]_vars

-----------------------------------------------------------------------------
\* However the start went, and if unloading is put off at any point and tried again:
\* an object of the game is freed at most once and only if its type was recognised;
\* the services not before the application that uses them; the purchase service not
\* while the shop calls it; all that was set aside is freed before the image goes;
\* and the game never runs with a hook that leads nowhere.
GameFreedOnce ==
  /\ \A o \in Parts : freed[o] <= 1 /\ (freed[o] = 1 => Recognised(o) /\ freed["application"] = 1)
  /\ freed["purchase"] = 1 => ~listens
  /\ phase = "unmapped" /\ freed["application"] = 1 => \A o \in Captured : freed[o] = 1
  /\ library.context # None => library.finish /\ phase = "finish"
  /\ phase \in {"storage", "start", "run"} => hook.init /\ hook.patched
=============================================================================
