----------------------------- MODULE AudioFeed -----------------------------
(***************************************************************************)
(* A background-music feed, src/src/bridges/audio/feed.c, together with    *)
(* the way bgm.c and mixer.c of the same directory share it.               *)
(*                                                                         *)
(* A worker thread owns the codec and fills a bounded queue of PCM blocks. *)
(* Guest threads seek, start and reopen it: such a call hands the worker a *)
(* command and sleeps until the worker answers.  The mixer reads the queue *)
(* without ever waiting.  A feed is shared by counted references; a feed   *)
(* that nobody else refers to may be parked and reopened on another file.  *)
(*                                                                         *)
(* A section under the feed mutex is one step.  Everything the code does   *)
(* outside it (decoding, codec seeks, joining the worker) lies between     *)
(* steps.  A PCM block is the positions it starts and ends at and its      *)
(* number of frames; the ring of blocks is a sequence.                     *)
(***************************************************************************)
EXTENDS Integers, Sequences, FiniteSets

CONSTANTS
  Threads,      (* guest threads                                           *)
  NoThread,     (* nobody has the control mutex                            *)
  Length,       (* frames of the file                                      *)
  MaxTarget,    (* bound: the furthest place a seek asks for               *)
  BlockFrames,  (* FEED_FRAMES                                             *)
  Blocks,       (* FEED_BLOCKS                                             *)
  Prime,        (* FEED_PRIME                                              *)
  MaxRead       (* frames of one mixer read, at most                       *)

ASSUME FeedAssumption ==
  /\ IsFiniteSet(Threads)
  /\ NoThread \notin Threads
  /\ Length \in Nat /\ Length > 1
  /\ MaxTarget \in Nat /\ MaxTarget >= Length
  /\ {BlockFrames, Blocks, Prime, MaxRead} \subseteq Nat \ {0}

VARIABLES
  (* The codec, owned by the worker. *)
  codec,     (* its position                                               *)
  failed,    (* it has failed or there is none: it yields no samples       *)
  (* Fields of the feed. *)
  running, active, command, seeking, result, loop, next_loop, target,
  queue,     (* blocks from head on                                        *)
  offset, position, eof,
  refs,      (* the count of references                                    *)
  control,   (* the thread that has the control mutex                      *)
  (* Threads. *)
  worker,    (* where the worker is; "none" without a feed                 *)
  block,     (* the block it decoded and has not queued                    *)
  priming,   (* fills __prime still makes, the current one included        *)
  local,     (* what __seek copied out of the feed, and the result so far  *)
  stage,     (* stage[t]: where guest thread t is                          *)
  op,        (* op[t]: the call it makes                                   *)
  track,     (* where the channel's reference is: "channel", "idle", "none" *)
  playing,   (* the channel's playing flag: the mixer reads the feed       *)
  asked      (* auxiliary: position and loop when the command under way    *)
             (* was given                                                  *)

fields == <<active, command, seeking, result, loop, next_loop, target,
            queue, offset, position, eof>>
decoder == <<codec, failed>>
jobs == <<block, priming, local>>
guest == <<stage, op>>
vars == <<codec, failed, running, active, command, seeking, result, loop,
          next_loop, target, queue, offset, position, eof, refs, control,
          worker, block, priming, local, stage, op, track, playing, asked>>

Positions == 0..Length
Targets == 0..MaxTarget
Block == [start : Positions, end : Positions, frames : 0..BlockFrames,
          ended : BOOLEAN]
NoBlock == [start |-> 0, end |-> 0, frames |-> 0, ended |-> FALSE]
Local == [target : Targets, previous : Positions, loop : BOOLEAN,
          old_loop : BOOLEAN, result : BOOLEAN]
Outcome(r) == [target |-> 0, previous |-> 0, loop |-> FALSE,
               old_loop |-> FALSE, result |-> r]
Ops == {"seek", "start", "create", "reopen"}
Stages == {"guest", "calling", "waiting", "woken", "started", "loading",
           "retiring", "closing", "stopping", "joining"}

Init ==
  /\ codec = 0 /\ failed = FALSE
  /\ active = FALSE /\ command = "wait" /\ seeking = FALSE /\ result = FALSE
  /\ loop = FALSE /\ next_loop = FALSE /\ target = 0
  /\ queue = <<>> /\ offset = 0 /\ position = 0 /\ eof = FALSE
  /\ block = NoBlock /\ priming = 0 /\ local = Outcome(FALSE)
  /\ running = FALSE
  /\ refs = 0
  /\ control = NoThread
  /\ worker = "none"
  /\ stage = [t \in Threads |-> "guest"]
  /\ op = [t \in Threads |-> "seek"]
  /\ track = "none"
  /\ playing = FALSE
  /\ asked = <<0, FALSE>>

-----------------------------------------------------------------------------
(* Condition variables. *)

(* Signalling work: the worker, if it sleeps, goes round its loop.         *)
SignalWork == worker' = IF worker = "asleep" THEN "top" ELSE worker

(* A broadcast of ready.                                                   *)
Readied(s) == [t \in Threads |-> IF s[t] = "waiting" THEN "woken" ELSE s[t]]

Goto(t, s) == stage' = [stage EXCEPT ![t] = s]

-----------------------------------------------------------------------------
(* The worker. *)

WorkerTop ==
  /\ worker = "top"
  /\ worker' = CASE ~running -> "exited"
                 [] running /\ command # "wait" -> command
                 [] OTHER -> IF ~active \/ eof \/ Len(queue) = Blocks
                             THEN "asleep" ELSE "checking"
  /\ UNCHANGED <<decoder, running, fields, refs, control, jobs, guest,
                 track, playing, asked>>

(* The native wait may end without a signal.                               *)
SpuriousWork ==
  /\ worker = "asleep"
  /\ worker' = "top"
  /\ UNCHANGED <<decoder, running, fields, refs, control, jobs, guest,
                 track, playing, asked>>

(* __decode: the block b the codec yields under loop flag l, the whole of  *)
(* it unless decoding fails (~ok).  At the end of the file a looping codec *)
(* wraps, and the block is cut at the first sample behind the wrap.        *)
Decodes(l, b, ok) ==
  LET left == Length - codec
      most == IF failed THEN 0
              ELSE IF left = 0 /\ l THEN 1
              ELSE IF left < BlockFrames THEN left ELSE BlockFrames
      wraps == l /\ b.frames > 0 /\ codec + b.frames >= Length
  IN
  /\ IF ok THEN b.frames = most ELSE b.frames < most
  /\ b.start = codec
  /\ b.end = IF wraps THEN codec + b.frames - Length ELSE codec + b.frames
  /\ b.ended = (~ok \/ (b.frames < BlockFrames /\ ~wraps))

(* After __fill: the worker goes round its loop, or __prime goes on.       *)
Filled(more) ==
  IF priming = 0 THEN worker' = "top" /\ UNCHANGED priming
  ELSE IF more /\ priming > 1
  THEN worker' = "checking" /\ priming' = priming - 1
  ELSE worker' = "primed" /\ UNCHANGED priming

(* __fill up to the end of decoding; its early return.                     *)
FillStart ==
  /\ worker = "checking"
  /\ IF ~running \/ eof \/ Len(queue) = Blocks
     THEN Filled(FALSE) /\ UNCHANGED <<decoder, block>>
     ELSE /\ \E b \in Block, ok \in BOOLEAN :
               /\ Decodes(loop, b, ok)
               /\ block' = b
               /\ codec' = b.end
               /\ failed' = (failed \/ ~ok)
          /\ worker' = "decoded"
          /\ UNCHANGED priming
  /\ UNCHANGED <<running, fields, refs, control, local, guest, track,
                 playing, asked>>

(* __fill, the second section: the block is queued, or dropped because the *)
(* feed stops or a command waits that will move the codec.                 *)
FillEnd ==
  /\ worker = "decoded"
  /\ IF ~running \/ (seeking /\ priming = 0)
     THEN Filled(FALSE) /\ UNCHANGED <<queue, eof>>
     ELSE /\ queue' = IF block.frames > 0 THEN Append(queue, block) ELSE queue
          /\ eof' = block.ended
          /\ Filled(block.frames > 0)
  /\ block' = NoBlock
  /\ UNCHANGED <<decoder, running, active, command, seeking, result, loop,
                 next_loop, target, offset, position, refs, control, local,
                 guest, track, playing, asked>>

(* __open: the codec is replaced, or there is none.                        *)
Open ==
  /\ worker = "open"
  /\ \E ok \in BOOLEAN :
       /\ codec' = 0
       /\ failed' = ~ok
       /\ eof' = ~ok
       /\ local' = Outcome(ok)
  /\ command' = "wait"
  /\ queue' = <<>>
  /\ offset' = 0
  /\ loop' = FALSE
  /\ position' = 0
  /\ priming' = Prime
  /\ worker' = "checking"
  /\ UNCHANGED <<running, active, seeking, result, next_loop, target, refs,
                 control, block, guest, track, playing, asked>>

(* Mutation of SeekStart: the place to fall back on is the decoder's.      *)
SeekStartAhead ==
  /\ worker = "seek"
  /\ local' = [target |-> target, previous |-> codec, loop |-> next_loop,
               old_loop |-> loop, result |-> FALSE]
  /\ command' = "wait"
  /\ worker' = "moving"
  /\ UNCHANGED <<decoder, running, active, seeking, result, loop, next_loop,
                 target, queue, offset, position, eof, refs, control, block,
                 priming, guest, track, playing, asked>>

(* __seek up to the codec seek.                                            *)
SeekStart ==
  /\ worker = "seek"
  /\ local' = [target |-> target, previous |-> position, loop |-> next_loop,
               old_loop |-> loop, result |-> FALSE]
  /\ command' = "wait"
  /\ worker' = "moving"
  /\ UNCHANGED <<decoder, running, active, seeking, result, loop, next_loop,
                 target, queue, offset, position, eof, refs, control, block,
                 priming, guest, track, playing, asked>>

(* Codecs seek behind the end to the end.                                  *)
Clamped(p) == IF p > Length THEN Length ELSE p

(* The codec moved to the target, back to where the consumer was, or       *)
(* neither; then it may be anywhere.                                       *)
SeekEnd ==
  /\ worker = "moving"
  /\ \E ok, restored \in BOOLEAN, p \in Positions :
       /\ ok => restored
       /\ ok => p = Clamped(local.target)
       /\ restored /\ ~ok => p = local.previous
       /\ codec' = p
       /\ position' = p
       /\ failed' = ~restored
       /\ eof' = ~restored
       /\ loop' = IF ok THEN local.loop ELSE local.old_loop
       /\ local' = Outcome(ok)
  /\ queue' = <<>>
  /\ offset' = 0
  /\ priming' = Prime
  /\ worker' = "checking"
  /\ UNCHANGED <<running, active, command, seeking, result, next_loop, target,
                 refs, control, block, guest, track, playing, asked>>

(* The end of __prime: the answer to the caller.                           *)
Answer ==
  /\ worker = "primed"
  /\ result' = local.result
  /\ seeking' = FALSE
  /\ stage' = Readied(stage)
  /\ worker' = "top"
  /\ priming' = 0
  /\ local' = Outcome(FALSE)
  /\ asked' = <<0, FALSE>>
  /\ UNCHANGED <<decoder, running, active, command, loop, next_loop, target,
                 queue, offset, position, eof, refs, control, block, op,
                 track, playing>>

Worker ==
  WorkerTop \/ FillStart \/ FillEnd \/ Open \/ SeekStart \/ SeekEnd \/ Answer

-----------------------------------------------------------------------------
(* Commands of guest threads. *)

(* A call to audio_feed_seek or audio_feed_start begins: the channel's     *)
(* feed is retained under the mixer lock.                                  *)
Retain(t, o) ==
  /\ stage[t] = "guest"
  /\ track = "channel"
  /\ refs' = refs + 1
  /\ Goto(t, "calling")
  /\ op' = [op EXCEPT ![t] = o]
  /\ UNCHANGED <<decoder, running, fields, control, worker, jobs, track,
                 playing, asked>>

(* Where a call that ended with ok goes.                                   *)
Ended(t, ok) ==
  CASE op[t] = "seek" -> "closing"
    [] op[t] = "start" -> IF ok THEN "started" ELSE "closing"
    [] OTHER -> IF ok THEN "loading" ELSE "closing"

(* audio_feed_start sets the feed going before it lets the mutex go.       *)
Finish(t, ok) ==
  /\ Goto(t, Ended(t, ok))
  /\ IF op[t] = "start" /\ ok THEN active' = TRUE /\ SignalWork
                              ELSE UNCHANGED <<active, worker>>

(* Mutation of Command: the worker is not woken.                           *)
CommandSilently(t, c) ==
  /\ control' = t
  /\ seeking' = TRUE
  /\ command' = c
  /\ asked' = <<position, loop>>
  /\ Goto(t, "waiting")
  /\ UNCHANGED worker

(* __wait: leave a command for the worker and sleep.                       *)
Command(t, c) ==
  /\ control' = t
  /\ seeking' = TRUE
  /\ command' = c
  /\ asked' = <<position, loop>>
  /\ SignalWork
  /\ Goto(t, "waiting")

(* __move for audio_feed_seek to p (0 when opening) and audio_feed_start   *)
(* (at the current position) with loop mode l.                             *)
Move(t, p, l) ==
  /\ stage[t] = "calling"
  /\ control = NoThread
  /\ op[t] = "start" => p = position
  /\ op[t] = "create" => p = 0 /\ ~l
  /\ op[t] # "reopen"
  /\ IF running /\ result /\ p = position /\ l = loop
     THEN /\ Finish(t, TRUE)
          /\ UNCHANGED <<command, seeking, next_loop, target, control, asked>>
     ELSE /\ target' = p
          /\ next_loop' = l
          /\ Command(t, "seek")
          /\ UNCHANGED active
  /\ UNCHANGED <<decoder, running, result, loop, queue, offset, position, eof,
                 refs, jobs, op, track, playing>>

(* audio_feed_reopen, by the only owner.                                   *)
Reopen(t) ==
  /\ stage[t] = "calling"
  /\ op[t] = "reopen"
  /\ control = NoThread
  /\ active' = FALSE
  /\ Command(t, "open")
  /\ UNCHANGED <<decoder, running, result, loop, next_loop, target, queue,
                 offset, position, eof, refs, jobs, op, track, playing>>

(* The caller of __wait has the mutex again.                               *)
Wake(t) ==
  /\ stage[t] = "woken"
  /\ IF running /\ seeking
     THEN Goto(t, "waiting") /\ UNCHANGED <<active, worker, control>>
     ELSE Finish(t, running /\ result) /\ control' = NoThread
  /\ UNCHANGED <<decoder, running, command, seeking, result, loop, next_loop,
                 target, queue, offset, position, eof, refs, jobs, op, track,
                 playing, asked>>

SpuriousReady(t) ==
  /\ stage[t] = "waiting"
  /\ Goto(t, "woken")
  /\ UNCHANGED <<decoder, running, fields, refs, control, worker, jobs, op,
                 track, playing, asked>>

(* vita_audio_play_bgm commits, if the channel still has this feed.        *)
Commit(t) ==
  /\ stage[t] = "started"
  /\ playing' = (playing \/ track = "channel")
  /\ Goto(t, "closing")
  /\ UNCHANGED <<decoder, running, fields, refs, control, worker, jobs, op,
                 track, asked>>

-----------------------------------------------------------------------------
(* Owners. *)

(* audio_feed_open: a fresh feed with its worker, and its first seek.      *)
Create(t) ==
  /\ stage[t] = "guest"
  /\ worker = "none"
  /\ running' = TRUE
  /\ refs' = 1
  /\ worker' = "top"
  /\ Goto(t, "calling")
  /\ op' = [op EXCEPT ![t] = "create"]
  /\ UNCHANGED <<decoder, fields, control, jobs, track, playing, asked>>

(* vita_audio_load_bgm puts the feed into the channel.                     *)
Load(t) ==
  /\ stage[t] = "loading"
  /\ track' = "channel"
  /\ Goto(t, "guest")
  /\ UNCHANGED <<decoder, running, fields, refs, control, worker, jobs, op,
                 playing, asked>>

(* Loading another feed, or unloading, takes it out again.                 *)
Detach(t) ==
  /\ stage[t] = "guest"
  /\ track = "channel"
  /\ track' = "none"
  /\ playing' = FALSE
  /\ Goto(t, "retiring")
  /\ UNCHANGED <<decoder, running, fields, refs, control, worker, jobs, op,
                 asked>>

(* Mutation of Park: other owners are not looked for.                      *)
ParkShared(t) ==
  /\ stage[t] = "retiring"
  /\ active' = FALSE
  /\ track' = "idle"
  /\ Goto(t, "guest")
  /\ UNCHANGED <<decoder, running, command, seeking, result, loop, next_loop,
                 target, queue, offset, position, eof, refs, control, worker,
                 jobs, op, playing, asked>>

(* __retire: a feed nobody else uses is parked, any other is closed.       *)
Park(t) ==
  /\ stage[t] = "retiring"
  /\ IF refs = 1
     THEN active' = FALSE /\ track' = "idle" /\ Goto(t, "guest")
     ELSE Goto(t, "closing") /\ UNCHANGED <<active, track>>
  /\ UNCHANGED <<decoder, running, command, seeking, result, loop, next_loop,
                 target, queue, offset, position, eof, refs, control, worker,
                 jobs, op, playing, asked>>

(* The parked feed is taken, to be reopened or to be closed.               *)
TakeIdle(t) ==
  /\ stage[t] = "guest"
  /\ track = "idle"
  /\ track' = "none"
  /\ \E next \in {"calling", "closing"} : Goto(t, next)
  /\ op' = [op EXCEPT ![t] = "reopen"]
  /\ UNCHANGED <<decoder, running, fields, refs, control, worker, jobs,
                 playing, asked>>

(* audio_feed_close: drop a reference; the last one stops the worker, ...  *)
Close(t) ==
  /\ stage[t] = "closing"
  /\ refs' = refs - 1
  /\ Goto(t, IF refs = 1 THEN "stopping" ELSE "guest")
  /\ UNCHANGED <<decoder, running, fields, control, worker, jobs, op, track,
                 playing, asked>>

Stop(t) ==
  /\ stage[t] = "stopping"
  /\ running' = FALSE
  /\ stage' = [Readied(stage) EXCEPT ![t] = "joining"]
  /\ SignalWork
  /\ UNCHANGED <<decoder, fields, refs, control, jobs, op, track, playing,
                 asked>>

(* ... joins it and frees the feed; a feed starts out zeroed (calloc).      *)
Join(t) ==
  /\ stage[t] = "joining"
  /\ worker = "exited"
  /\ worker' = "none"
  /\ codec' = 0 /\ failed' = FALSE
  /\ active' = FALSE /\ command' = "wait" /\ seeking' = FALSE
  /\ result' = FALSE /\ loop' = FALSE /\ next_loop' = FALSE /\ target' = 0
  /\ queue' = <<>> /\ offset' = 0 /\ position' = 0 /\ eof' = FALSE
  /\ block' = NoBlock /\ priming' = 0 /\ local' = Outcome(FALSE)
  /\ Goto(t, "guest")
  /\ UNCHANGED <<running, refs, control, op, track, playing, asked>>

-----------------------------------------------------------------------------
(* The mixer: vita_audio_render, mix_bgm and audio_feed_read. *)

(* Mutation of Copy: the next block is entered where this one ended.        *)
CopyWithoutReset(s) ==
  IF s.queue = <<>> THEN s
  ELSE LET b == Head(s.queue) IN
       IF s.offset + 1 = b.frames
       THEN [s EXCEPT !.queue = Tail(s.queue), !.position = b.end]
       ELSE [s EXCEPT !.offset = @ + 1, !.position = b.start + s.offset + 1]

(* The queue, offset and position after copying one more frame.            *)
Copy(s) ==
  IF s.queue = <<>> THEN s
  ELSE LET b == Head(s.queue) IN
       IF s.offset + 1 = b.frames
       THEN [queue |-> Tail(s.queue), offset |-> 0, position |-> b.end]
       ELSE [s EXCEPT !.offset = @ + 1, !.position = b.start + s.offset + 1]

(* Mutation of Consumed: the worker is not told of the space.              *)
ConsumedSilently == UNCHANGED worker

(* The worker is told of space in the queue when something was copied.     *)
Consumed == IF queue # <<>> THEN SignalWork ELSE UNCHANGED worker

Read(n) ==
  LET now == [queue |-> queue, offset |-> offset, position |-> position]
      after[k \in 0..n] == IF k = 0 THEN now ELSE Copy(after[k - 1])
  IN
  /\ track = "channel"
  /\ playing
  /\ ~seeking
  /\ active' = TRUE
  /\ queue' = after[n].queue
  /\ offset' = after[n].offset
  /\ position' = after[n].position
  /\ playing' = ~(eof /\ queue' = <<>>)
  /\ Consumed
  /\ UNCHANGED <<decoder, running, command, seeking, result, loop, next_loop,
                 target, eof, refs, control, jobs, guest, track, asked>>

-----------------------------------------------------------------------------
Guest(t) ==
  \/ \E o \in {"seek", "start"} : Retain(t, o)
  \/ \E p \in Targets, l \in BOOLEAN : Move(t, p, l)
  \/ Reopen(t) \/ Wake(t) \/ SpuriousReady(t) \/ Commit(t)
  \/ Create(t) \/ Load(t) \/ Detach(t) \/ Park(t) \/ TakeIdle(t)
  \/ Close(t) \/ Stop(t) \/ Join(t)

Next ==
  \/ Worker \/ SpuriousWork
  \/ \E n \in 1..MaxRead : Read(n)
  \/ \E t \in Threads : Guest(t)

Spec == Init /\ [][Next]_vars

(* The worker keeps running, and so do guest threads inside a call.        *)
Fairness ==
  /\ WF_vars(Worker)
  /\ \A t \in Threads :
       /\ WF_vars(Wake(t) \/ Stop(t) \/ Join(t))

FairSpec == Spec /\ Fairness

-----------------------------------------------------------------------------
TypeOK ==
  /\ codec \in Positions /\ position \in Positions /\ target \in Targets
  /\ {failed, running, active, seeking, result, loop, next_loop, eof, playing}
       \subseteq BOOLEAN
  /\ command \in {"wait", "seek", "open"}
  /\ queue \in Seq(Block) /\ Len(queue) <= Blocks
  /\ offset \in 0..BlockFrames
  /\ refs \in Nat
  /\ control \in Threads \cup {NoThread}
  /\ worker \in {"none", "top", "asleep", "seek", "open", "moving", "checking",
                 "decoded", "primed", "exited"}
  /\ block \in Block
  /\ priming \in 0..Prime
  /\ local \in Local
  /\ stage \in [Threads -> Stages]
  /\ op \in [Threads -> Ops]
  /\ track \in {"channel", "idle", "none"}
  /\ asked \in Positions \X BOOLEAN

(* What the worker has decoded and the consumer has not heard.             *)
Ahead == IF worker = "decoded" THEN Append(queue, block) ELSE queue

(* No sample is lost, repeated or reordered: unless a command is under     *)
(* way, the queue continues from the position the game reads, each block   *)
(* continues from the one before, and the codec continues from the last.   *)
PlaysInOrder ==
  (running /\ ~seeking /\ result) =>
    /\ \A i \in 1..Len(Ahead) - 1 : Ahead[i].end = Ahead[i + 1].start
    /\ position = IF Ahead = <<>> THEN codec ELSE Ahead[1].start + offset
    /\ Ahead # <<>> => Ahead[Len(Ahead)].end = codec
    /\ queue # <<>> => offset < queue[1].frames

(* The references are exact: the channel or the parking place and every    *)
(* thread inside a call hold one each, so the feed is freed exactly when   *)
(* nobody is left, and a parked feed has one owner.                        *)
Holders == {t \in Threads : stage[t] \notin {"guest", "stopping", "joining"}}

RefsExact ==
  /\ TypeOK
  /\ refs = Cardinality(Holders) + IF track = "none" THEN 0 ELSE 1
  /\ refs > 0 => running
  /\ worker = "none" => refs = 0
  /\ track = "idle" => Holders = {} /\ ~active

(* A command happens as a whole, whatever the mixer and the worker were    *)
(* doing when it was given: the consumer goes from where it was straight   *)
(* to the target with the new loop mode, to the end of the file when the   *)
(* target lies behind it (to the start of the new file); or it stays where *)
(* it was with the old mode when the codec refuses but recovers.           *)
Answered == worker = "primed" /\ worker' = "top"

SeekIsAtomic ==
  [][Answered =>
       IF ~result' THEN failed \/ <<position, loop>> = asked
       ELSE IF op[control] = "reopen" THEN position = 0 /\ ~loop
       ELSE position = Clamped(target) /\ loop = next_loop]_vars

(* The game's clock stays where it was whenever a seek fails.              *)
FailedSeekKeepsPlace ==
  [][Answered /\ ~result' /\ op[control] \in {"seek", "start"}
       => position = asked[1]]_vars

(* Every caller that waits for the worker is answered.                     *)
CallersReturn ==
  \A t \in Threads :
    stage[t] \in {"waiting", "woken", "joining"}
      ~> stage[t] \notin {"waiting", "woken", "joining"}

(* Playing never stalls: an empty queue is refilled, or the track ends.    *)
NeverStalls ==
  (playing /\ queue = <<>>)
     ~> (queue # <<>> \/ eof \/ ~playing)
=============================================================================
