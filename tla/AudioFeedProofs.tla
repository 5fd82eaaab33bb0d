---------------------------- MODULE AudioFeedProofs ----------------------------
(***************************************************************************)
(* Proofs about AudioFeed for any finite set of threads, any file and any  *)
(* sizes of blocks, queue and mixer reads.                                 *)
(*                                                                         *)
(* IInv is inductive and has three parts.  Owned says who has the feed:    *)
(* an opener has it alone, the one that closed it last finds no other, and *)
(* without a worker nobody is in a call.  Commanded follows a command from *)
(* the caller through the worker: while it is under way its caller has the *)
(* control mutex, position and loop are those asked about until the codec  *)
(* moves, and what was decided stays decided while the queue is primed.    *)
(* Ordered is PlaysInOrder for every state in which the worker keeps what  *)
(* it decodes, with the sizes of blocks it rests on.                       *)
(***************************************************************************)
EXTENDS AudioFeed, CountingLemmas, SequenceTheorems

(* t is opening a feed that is not in the channel yet.                     *)
Opening(t) ==
  /\ stage[t] \in {"calling", "waiting", "woken", "loading"}
  /\ stage[t] # "loading" => op[t] \in {"create", "reopen"}

Owned ==
  /\ refs = Cardinality(Holders) + IF track = "none" THEN 0 ELSE 1
  /\ track = "idle" => Holders = {} /\ ~active
  /\ \A t \in Threads : Opening(t) => track = "none" /\ Holders = {t}
  /\ \A t \in Threads :
       stage[t] \in {"stopping", "joining"}
         => track = "none" /\ \A u \in Threads \ {t} : stage[u] = "guest"
  /\ worker = "none" => track = "none" /\ \A t \in Threads : stage[t] = "guest"
  /\ running <=> worker # "none" /\ \A t \in Threads : stage[t] # "joining"

(* The answer __prime is about to give is right.                           *)
Settled ==
  IF ~local.result THEN failed \/ <<position, loop>> = asked
  ELSE IF op[control] = "reopen" THEN position = 0 /\ ~loop
  ELSE position = Clamped(target) /\ loop = next_loop

Commanded ==
  /\ \A t \in Threads : stage[t] \in {"waiting", "woken"} <=> control = t
  /\ seeking => control # NoThread
  /\ command # "wait" \/ worker \in {"seek", "open", "moving", "primed"} \/ priming > 0
       => seeking
  /\ worker \in {"seek", "open"} => command = worker
  /\ worker = "moving" => command = "wait" /\ priming = 0
  /\ worker = "primed" => priming > 0
  /\ priming > 0 => command = "wait" /\ worker \in {"checking", "decoded", "primed"}
  /\ command # "wait" => (command = "open" <=> op[control] = "reopen")
  /\ command # "wait" \/ worker = "moving" => asked = <<position, loop>>
  /\ worker = "moving" =>
       /\ op[control] # "reopen"
       /\ local.target = target /\ local.loop = next_loop
       /\ local.previous = position /\ local.old_loop = loop
  /\ priming > 0 => Settled

(* A block within the file, or the one sample behind a wrap.               *)
InFile(b) == b.frames = 1 \/ b.start + b.frames <= Length

(* The queue q, the consumer at offset off in it, and at position pos.     *)
QueueSound(q, off) ==
  /\ q \in Seq(Block) /\ Len(q) <= Blocks /\ off \in 0..BlockFrames
  /\ \A i \in 1..Len(q) : q[i].frames > 0 /\ InFile(q[i])
  /\ IF q = <<>> THEN off = 0 ELSE off < q[1].frames

(* Blocks a from the consumer to the codec at c.                           *)
Chained(a, off, pos, c) ==
  /\ \A i \in 1..Len(a) - 1 : a[i].end = a[i + 1].start
  /\ pos = IF a = <<>> THEN c ELSE a[1].start + off
  /\ a # <<>> => a[Len(a)].end = c

Ordered ==
  /\ QueueSound(queue, offset)
  /\ worker = "decoded" =>
       /\ Len(queue) < Blocks
       /\ InFile(block)
       /\ block.frames = 0 => block.start = block.end
  /\ worker = "none" => codec = 0 /\ position = 0 /\ queue = <<>>
  /\ running /\ (~seeking \/ priming > 0) => Chained(Ahead, offset, position, codec)

IInv ==
  /\ TypeOK
  /\ Owned
  /\ Commanded
  /\ Ordered

-----------------------------------------------------------------------------
(* What steps have in common. *)

Away == {"guest", "stopping", "joining"}
Awaiting == {"waiting", "woken"}
Resting == {"none", "top", "asleep", "exited"}

(* Threads move between the stages of a call, and nobody enters or leaves. *)
LEMMA OwnedKept ==
  ASSUME Owned, UNCHANGED <<refs, track, running>>,
         worker' = "none" <=> worker = "none",
         active' => active \/ track # "idle",
         \A t \in Threads :
           /\ stage[t] \in Away \/ stage'[t] \in Away => stage'[t] = stage[t]
           /\ Opening(t)' => Opening(t)
  PROVE  Owned'
<1>1. Holders' = Holders
  BY DEF Holders, Away
<1>2. \A t \in Threads : \A s \in {"stopping", "joining", "guest"} :
        stage'[t] = s <=> stage[t] = s
  BY DEF Away
<1>3. /\ refs' = Cardinality(Holders') + IF track' = "none" THEN 0 ELSE 1
      /\ track' = "idle" => Holders' = {} /\ ~active'
      /\ \A t \in Threads : Opening(t)' => track' = "none" /\ Holders' = {t}
  BY <1>1 DEF Owned
<1>4. ASSUME NEW t \in Threads, stage'[t] \in {"stopping", "joining"}
      PROVE  track' = "none" /\ \A u \in Threads \ {t} : stage'[u] = "guest"
  BY <1>2, <1>4 DEF Owned
<1>5. worker' = "none" => track' = "none" /\ \A t \in Threads : stage'[t] = "guest"
  BY <1>2 DEF Owned
<1>6. running' <=> worker' # "none" /\ \A t \in Threads : stage'[t] # "joining"
  BY <1>2 DEF Owned
<1> QED
  BY <1>3, <1>4, <1>5, <1>6 DEF Owned

(* A command under way is left alone.                                      *)
LEMMA CommandedKept ==
  ASSUME TypeOK, Commanded,
         UNCHANGED <<command, seeking, priming, local, control, target, next_loop,
                     asked, position, loop, failed>>,
         worker' = worker \/ (worker \in Resting /\ worker' \in Resting),
         \A t \in Threads :
           /\ stage'[t] \in Awaiting <=> stage[t] \in Awaiting
           /\ stage[t] \in Awaiting => op'[t] = op[t]
  PROVE  Commanded'
<1>1. \A t \in Threads : stage'[t] \in {"waiting", "woken"} <=> control' = t
  BY DEF Commanded, Awaiting
<1>2. control # NoThread => op'[control] = op[control]
  BY DEF Commanded, TypeOK, Awaiting
<1>3. \A w \in {"seek", "open", "moving", "primed", "checking", "decoded"} :
        worker' = w <=> worker = w
  BY DEF Resting
<1>4. priming > 0 \/ command # "wait" \/ worker = "moving" => control # NoThread
  BY DEF Commanded
<1>5. priming > 0 => Settled'
  BY <1>2, <1>4 DEF Commanded, Settled
<1> QED
  BY <1>1, <1>2, <1>3, <1>4, <1>5 DEF Commanded

(* The queue and the codec are left alone, and what is kept is no less.    *)
LEMMA OrderedKept ==
  ASSUME Ordered, UNCHANGED <<queue, offset, block, codec, position>>,
         running' => running,
         worker' = "decoded" <=> worker = "decoded",
         worker' = "none" => worker = "none",
         running' /\ (~seeking' \/ priming' > 0) => ~seeking \/ priming > 0
  PROVE  Ordered'
<1>1. Ahead' = Ahead
  BY DEF Ahead
<1>2. QueueSound(queue, offset)' /\ InFile(block)' = InFile(block)
  BY DEF Ordered, QueueSound, InFile
<1>3. running' /\ (~seeking' \/ priming' > 0) => Chained(Ahead, offset, position, codec)'
  BY <1>1 DEF Ordered, Chained
<1> QED
  BY <1>2, <1>3 DEF Ordered

LEMMA FeedFacts ==
  /\ IsFiniteSet(Threads) /\ NoThread \notin Threads
  /\ Length \in Nat /\ Length > 1 /\ MaxTarget \in Nat /\ MaxTarget >= Length
  /\ BlockFrames \in Nat /\ Blocks \in Nat /\ Prime \in Nat /\ MaxRead \in Nat
  /\ BlockFrames > 0 /\ Blocks > 0 /\ Prime > 0
BY FeedAssumption

-----------------------------------------------------------------------------
(* The worker. *)

LEMMA WorkerTopStep ==
  ASSUME IInv, WorkerTop \/ SpuriousWork
  PROVE  IInv'
<1>1. /\ UNCHANGED <<decoder, running, fields, refs, control, jobs, guest,
                     track, playing, asked>>
      /\ worker \in {"top", "asleep"}
  BY DEF WorkerTop, SpuriousWork
<1>2. /\ worker' \in {"top", "asleep", "checking", "exited", "seek", "open"}
      /\ worker' \in {"seek", "open"} => command = worker' /\ running
      /\ worker' = "checking" => command = "wait"
  BY DEF WorkerTop, SpuriousWork, IInv, TypeOK
<1>3. TypeOK /\ Owned /\ Commanded /\ Ordered /\ priming = 0
  BY <1>1 DEF IInv, Commanded, TypeOK
<1> USE DEF decoder, fields, jobs, guest
<1>4. TypeOK'
  BY <1>1, <1>2, <1>3 DEF TypeOK
<1>5. Owned'
  BY <1>1, <1>2, <1>3, OwnedKept DEF Opening
<1>6. Commanded'
  BY <1>1, <1>2, <1>3 DEF Commanded
<1>7. Ordered'
  BY <1>1, <1>2, <1>3, OrderedKept
<1> QED
  BY <1>4, <1>5, <1>6, <1>7 DEF IInv

(* How the queue grows: at its end, by what the codec yields next.         *)
LEMMA ChainGrows ==
  ASSUME NEW q \in Seq(Block), NEW b \in Block, NEW off, NEW pos, NEW c \in Int,
         q = <<>> => off = 0, b.start = c, Chained(q, off, pos, c)
  PROVE  Chained(Append(q, b), off, pos, b.end)
<1> DEFINE a == Append(q, b)
<1>1. /\ a # <<>> /\ Len(a) = Len(q) + 1 /\ Len(q) \in Nat
      /\ \A i \in 1..Len(q) : a[i] = q[i]
      /\ a[Len(q) + 1] = b
      /\ q = <<>> <=> Len(q) = 0
  OBVIOUS
<1> HIDE DEF a
<1>2. ASSUME NEW i \in 1..Len(a) - 1 PROVE a[i].end = a[i + 1].start
  <2>1. CASE i = Len(q)
    BY <1>1, <2>1 DEF Chained
  <2>2. CASE i # Len(q)
    BY <1>1, <2>2 DEF Chained
  <2> QED
    BY <2>1, <2>2
<1>3. pos = a[1].start + off
  <2>1. CASE q = <<>>
    BY <1>1, <2>1 DEF Chained
  <2>2. CASE q # <<>>
    BY <1>1, <2>2 DEF Chained
  <2> QED
    BY <2>1, <2>2
<1> QED
  BY <1>1, <1>2, <1>3 DEF Chained, a

(* A command under way or none while the worker decodes and queues blocks. *)
LEMMA CommandedFilling ==
  ASSUME TypeOK, Commanded, worker \in {"checking", "decoded"},
         UNCHANGED <<command, seeking, loop, next_loop, target, position, local,
                     control, asked, stage, op>>,
         failed => failed',
         IF priming = 0
         THEN worker' \in {"top", "decoded"} /\ priming' = 0
         ELSE worker' \in {"checking", "decoded", "primed"} /\ priming' \in Nat \ {0}
  PROVE  Commanded'
<1>1. priming > 0 <=> priming' > 0
  BY DEF TypeOK
<1>2. priming > 0 => Settled'
  BY DEF Commanded, Settled
<1>3. command # "wait" => priming = 0 /\ worker' \in {"top", "decoded"}
  BY DEF Commanded, TypeOK
<1> QED
  BY <1>1, <1>2, <1>3 DEF Commanded, TypeOK

LEMMA FilledFacts ==
  ASSUME TypeOK, NEW more, Filled(more)
  PROVE  /\ IF priming = 0
            THEN worker' = "top" /\ priming' = 0
            ELSE worker' \in {"checking", "primed"} /\ priming' \in Nat \ {0}
         /\ priming' \in 0..Prime
BY FeedFacts DEF Filled, TypeOK

(* A block the codec yields lies in the file and starts at the codec.      *)
LEMMA DecodedBlock ==
  ASSUME TypeOK, NEW b \in Block, NEW ok \in BOOLEAN, Decodes(loop, b, ok)
  PROVE  b.start = codec /\ InFile(b) /\ (b.frames = 0 => b.start = b.end)
<1>1. /\ codec \in Nat /\ codec <= Length /\ Length \in Nat /\ BlockFrames \in Nat
      /\ b.frames \in Nat /\ b.start \in Nat /\ b.end \in Nat
  BY FeedFacts DEF TypeOK, Positions, Block
<1>2. b.start = codec
  BY DEF Decodes
<1>3. b.frames = 0 => b.start = b.end
  BY <1>1 DEF Decodes
<1>4. b.frames <= 1 \/ b.frames <= Length - codec
  BY <1>1 DEF Decodes
<1> QED
  BY <1>1, <1>2, <1>3, <1>4 DEF InFile

LEMMA FillStartStep ==
  ASSUME IInv, FillStart
  PROVE  IInv'
<1> USE DEF decoder, fields, guest
<1>1. /\ worker = "checking" /\ TypeOK /\ Owned /\ Commanded /\ Ordered
      /\ UNCHANGED <<running, fields, refs, control, local, guest, track,
                     playing, asked>>
  BY DEF FillStart, IInv
<1>2. CASE ~running \/ eof \/ Len(queue) = Blocks
  <2>1. Filled(FALSE) /\ UNCHANGED <<decoder, block>>
    BY <1>2 DEF FillStart
  <2>2. /\ IF priming = 0
           THEN worker' = "top" /\ priming' = 0
           ELSE worker' \in {"checking", "primed"} /\ priming' \in Nat \ {0}
        /\ priming' \in 0..Prime
    BY <1>1, <2>1, FilledFacts
  <2>3. TypeOK'
    BY <1>1, <2>1, <2>2 DEF TypeOK
  <2>4. Owned'
    BY <1>1, <2>2, OwnedKept DEF Opening
  <2>5. Commanded'
    BY <1>1, <2>1, <2>2, CommandedFilling
  <2>6. Ordered'
    BY <1>1, <2>1, <2>2, OrderedKept DEF TypeOK
  <2> QED
    BY <2>3, <2>4, <2>5, <2>6 DEF IInv
<1>3. CASE ~(~running \/ eof \/ Len(queue) = Blocks)
  <2>1. PICK b \in Block, ok \in BOOLEAN :
          /\ Decodes(loop, b, ok) /\ block' = b /\ codec' = b.end
          /\ failed' = (failed \/ ~ok)
    BY <1>3 DEF FillStart
  <2>2. worker' = "decoded" /\ UNCHANGED priming /\ Len(queue) # Blocks
    BY <1>3 DEF FillStart
  <2>3. b.start = codec /\ InFile(b) /\ (b.frames = 0 => b.start = b.end)
    BY <1>1, <2>1, DecodedBlock
  <2>4. TypeOK'
    BY <1>1, <2>1, <2>2 DEF TypeOK, Block
  <2>5. Owned'
    BY <1>1, <2>2, OwnedKept DEF Opening
  <2>6. Commanded'
    BY <1>1, <2>1, <2>2, CommandedFilling DEF TypeOK
  <2>7. Ordered'
    <3>1. /\ Ahead = queue /\ Ahead' = Append(queue, b)
          /\ queue \in Seq(Block) /\ codec \in Int /\ (queue = <<>> => offset = 0)
      BY <1>1, <2>1, <2>2 DEF Ahead, TypeOK, Ordered, QueueSound, Positions
    <3>2. running /\ (~seeking \/ priming > 0) => Chained(Ahead', offset, position, codec')
      BY <1>1, <2>1, <2>3, <3>1, ChainGrows DEF Ordered
    <3>3. QueueSound(queue, offset)' /\ InFile(block)'
      BY <1>1, <2>1, <2>3 DEF Ordered, QueueSound, InFile
    <3>4. Len(queue) < Blocks
      BY <1>1, <2>2, FeedFacts DEF Ordered, QueueSound
    <3> QED
      BY <1>1, <2>1, <2>2, <2>3, <3>2, <3>3, <3>4 DEF Ordered
  <2> QED
    BY <2>4, <2>5, <2>6, <2>7 DEF IInv
<1> QED
  BY <1>2, <1>3

(* An empty block at the end of the queue need not be there.               *)
LEMMA ChainShrinks ==
  ASSUME NEW q \in Seq(Block), NEW b \in Block, NEW off, NEW pos, NEW c,
         q = <<>> => off = 0, b.start = b.end, Chained(Append(q, b), off, pos, c)
  PROVE  Chained(q, off, pos, c)
<1> DEFINE a == Append(q, b)
<1>1. /\ a # <<>> /\ Len(a) = Len(q) + 1 /\ Len(q) \in Nat
      /\ \A i \in 1..Len(q) : a[i] = q[i]
      /\ a[Len(q) + 1] = b
      /\ q = <<>> <=> Len(q) = 0
      /\ b.start \in Int
  BY DEF Block, Positions
<1> HIDE DEF a
<1>2. /\ \A i \in 1..Len(a) - 1 : a[i].end = a[i + 1].start
      /\ pos = a[1].start + off /\ a[Len(a)].end = c
  BY <1>1 DEF Chained, a
<1>3. \A i \in 1..Len(q) - 1 : q[i].end = q[i + 1].start
  BY <1>1, <1>2
<1>4. q # <<>> => q[Len(q)].end = c
  <2>1. q # <<>> => Len(q) \in 1..Len(a) - 1 /\ Len(q) \in 1..Len(q)
    BY <1>1
  <2> QED
    BY <1>1, <1>2, <2>1
<1>5. pos = IF q = <<>> THEN c ELSE q[1].start + off
  <2>1. CASE q = <<>>
    BY <1>1, <1>2, <2>1
  <2>2. CASE q # <<>>
    <3>1. a[1] = q[1]
      BY <1>1, <2>2
    <3> QED
      BY <1>2, <2>2, <3>1
  <2> QED
    BY <2>1, <2>2
<1> QED
  BY <1>3, <1>4, <1>5 DEF Chained

LEMMA QueueGrows ==
  ASSUME NEW q, NEW off, QueueSound(q, off), Len(q) < Blocks,
         NEW b \in Block, b.frames > 0, InFile(b)
  PROVE  QueueSound(Append(q, b), off)
<1> DEFINE a == Append(q, b)
<1> q \in Seq(Block)
  BY DEF QueueSound
<1>1. /\ a \in Seq(Block) /\ a # <<>> /\ Len(a) = Len(q) + 1 /\ Len(q) \in Nat
      /\ \A i \in 1..Len(q) : a[i] = q[i]
      /\ a[Len(q) + 1] = b
      /\ q = <<>> <=> Len(q) = 0
  OBVIOUS
<1> HIDE DEF a
<1>2. \A i \in 1..Len(a) : a[i].frames > 0 /\ InFile(a[i])
  <2>1. \A i \in 1..Len(a) : i \in 1..Len(q) \/ i = Len(q) + 1
    BY <1>1
  <2> QED
    BY <1>1, <2>1 DEF QueueSound
<1>3. off < a[1].frames
  BY <1>1 DEF QueueSound
<1> QED
  BY <1>1, <1>2, <1>3, FeedFacts DEF QueueSound, a

LEMMA FillEndStep ==
  ASSUME IInv, FillEnd
  PROVE  IInv'
<1> USE DEF decoder, guest
<1>1. /\ worker = "decoded" /\ TypeOK /\ Owned /\ Commanded /\ Ordered
      /\ block' = NoBlock
      /\ UNCHANGED <<decoder, running, active, command, seeking, result, loop,
                     next_loop, target, offset, position, refs, control, local,
                     guest, track, playing, asked>>
  BY DEF FillEnd, IInv
<1>2. Filled(FALSE) \/ Filled(block.frames > 0)
  BY DEF FillEnd
<1>3. /\ IF priming = 0
         THEN worker' = "top" /\ priming' = 0
         ELSE worker' \in {"checking", "primed"} /\ priming' \in Nat \ {0}
      /\ priming' \in 0..Prime
  BY <1>1, <1>2, FilledFacts
<1>4. Owned'
  BY <1>1, <1>3, OwnedKept DEF Opening
<1>5. Commanded'
  BY <1>1, <1>3, CommandedFilling
<1>6. /\ queue \in Seq(Block) /\ QueueSound(queue, offset) /\ Len(queue) < Blocks
      /\ block \in Block /\ InFile(block) /\ (block.frames = 0 => block.start = block.end)
      /\ Ahead = Append(queue, block) /\ Ahead' = queue'
  BY <1>1, <1>3 DEF Ordered, TypeOK, Ahead
<1>7. NoBlock \in Block
  BY FeedFacts DEF NoBlock, Block, Positions
<1>8. /\ QueueSound(queue', offset) /\ eof' \in BOOLEAN
      /\ running /\ (~seeking \/ priming' > 0) => Chained(queue', offset, position, codec)
  <2>1. CASE ~running \/ (seeking /\ priming = 0)
    <3>1. queue' = queue /\ eof' = eof
      BY <2>1, Zenon DEF FillEnd
    <3>2. eof \in BOOLEAN
      BY <1>1 DEF TypeOK
    <3>3. ~(running /\ (~seeking \/ priming' > 0))
      BY <1>3, <2>1
    <3> QED
      BY <1>6, <3>1, <3>2, <3>3
  <2>2. CASE ~(~running \/ (seeking /\ priming = 0)) /\ block.frames > 0
    <3>1. queue' = Append(queue, block) /\ eof' = block.ended
      BY <2>2 DEF FillEnd
    <3>2. Chained(queue', offset, position, codec)
      BY <1>1, <1>6, <2>2, <3>1 DEF Ordered, TypeOK
    <3> QED
      BY <1>6, <2>2, <3>1, <3>2, QueueGrows DEF Block
  <2>3. CASE ~(~running \/ (seeking /\ priming = 0)) /\ ~(block.frames > 0)
    <3>1. queue' = queue /\ eof' = block.ended /\ block.frames = 0
      BY <1>6, <2>3 DEF FillEnd, Block
    <3>2. Chained(Append(queue, block), offset, position, codec)
      BY <1>1, <1>6, <2>3 DEF Ordered, TypeOK
    <3>3. queue = <<>> => offset = 0
      BY <1>6 DEF QueueSound
    <3>4. Chained(queue, offset, position, codec)
      BY <1>6, <3>1, <3>2, <3>3, ChainShrinks
    <3> QED
      BY <1>6, <3>1, <3>4 DEF Block
  <2> QED
    BY <2>1, <2>2, <2>3
<1>9. TypeOK'
  BY <1>1, <1>3, <1>7, <1>8 DEF TypeOK, QueueSound
<1>10. Ordered'
  BY <1>1, <1>3, <1>6, <1>8 DEF Ordered, QueueSound, InFile
<1> QED
  BY <1>4, <1>5, <1>9, <1>10 DEF IInv

(* An empty queue is in order wherever the codec is.                       *)
LEMMA EmptyQueue ==
  /\ QueueSound(<<>>, 0)
  /\ \A p : Chained(<<>>, 0, p, p)
BY FeedFacts DEF QueueSound, Chained

LEMMA OutcomeFacts ==
  ASSUME NEW r \in BOOLEAN
  PROVE  Outcome(r) \in Local /\ Outcome(r).result = r
BY FeedFacts DEF Outcome, Local, Positions, Targets

LEMMA OpenStep ==
  ASSUME IInv, Open
  PROVE  IInv'
<1> USE DEF guest
<1>1. PICK ok \in BOOLEAN : /\ codec' = 0 /\ failed' = ~ok /\ eof' = ~ok
                            /\ local' = Outcome(ok)
  BY DEF Open
<1>2. /\ worker = "open" /\ TypeOK /\ Owned /\ Commanded /\ Ordered
      /\ command' = "wait" /\ queue' = <<>> /\ offset' = 0 /\ loop' = FALSE
      /\ position' = 0 /\ priming' = Prime /\ worker' = "checking"
      /\ UNCHANGED <<running, active, seeking, result, next_loop, target, refs,
                     control, block, guest, track, playing, asked>>
  BY DEF Open, IInv
<1>3. local' \in Local /\ local'.result = ok /\ 0 \in Positions /\ Prime \in 0..Prime
      /\ Prime > 0
  BY <1>1, FeedFacts, OutcomeFacts DEF Positions
<1>4. TypeOK'
  <2>1. {failed, running, active, seeking, result, loop, next_loop, eof, playing}'
          \subseteq BOOLEAN
    BY <1>1, <1>2 DEF TypeOK
  <2>2. /\ queue' \in Seq(Block) /\ Len(queue') <= Blocks
        /\ offset' \in 0..BlockFrames
    BY <1>2, FeedFacts
  <2> QED
    BY <1>1, <1>2, <1>3, <2>1, <2>2 DEF TypeOK
<1>5. Owned'
  BY <1>2, OwnedKept DEF Opening
<1>6. Commanded'
  <2>1. seeking /\ op[control] = "reopen"
    BY <1>2 DEF Commanded
  <2>2. Settled'
    BY <1>1, <1>2, <1>3, <2>1 DEF Settled
  <2> QED
    BY <1>2, <1>3, <2>1, <2>2 DEF Commanded
<1>7. Ordered'
  BY <1>1, <1>2, EmptyQueue DEF Ordered, Ahead
<1> QED
  BY <1>4, <1>5, <1>6, <1>7 DEF IInv

LEMMA SeekStartStep ==
  ASSUME IInv, SeekStart
  PROVE  IInv'
<1> USE DEF decoder, guest
<1>1. /\ worker = "seek" /\ TypeOK /\ Owned /\ Commanded /\ Ordered
      /\ local' = [target |-> target, previous |-> position, loop |-> next_loop,
                   old_loop |-> loop, result |-> FALSE]
      /\ command' = "wait" /\ worker' = "moving"
      /\ UNCHANGED <<decoder, running, active, seeking, result, loop, next_loop,
                     target, queue, offset, position, eof, refs, control, block,
                     priming, guest, track, playing, asked>>
  BY DEF SeekStart, IInv
<1>2. /\ local' \in Local /\ local'.target = target /\ local'.loop = next_loop
      /\ local'.previous = position /\ local'.old_loop = loop
  BY <1>1 DEF Local, TypeOK
<1>3. TypeOK'
  BY <1>1, <1>2 DEF TypeOK
<1>4. Owned'
  BY <1>1, OwnedKept DEF Opening
<1>5. Commanded'
  <2>1. seeking /\ command = "seek" /\ op[control] # "reopen" /\ asked = <<position, loop>>
    BY <1>1 DEF Commanded
  <2>2. priming = 0
    BY <1>1 DEF Commanded, TypeOK
  <2> QED
    BY <1>1, <1>2, <2>1, <2>2 DEF Commanded
<1>6. Ordered'
  BY <1>1, OrderedKept
<1> QED
  BY <1>3, <1>4, <1>5, <1>6 DEF IInv

LEMMA SeekEndStep ==
  ASSUME IInv, SeekEnd
  PROVE  IInv'
<1> USE DEF guest
<1>1. PICK ok \in BOOLEAN, restored \in BOOLEAN, p \in Positions :
        /\ ok => restored
        /\ ok => p = Clamped(local.target)
        /\ restored /\ ~ok => p = local.previous
        /\ codec' = p /\ position' = p
        /\ failed' = ~restored /\ eof' = ~restored
        /\ loop' = IF ok THEN local.loop ELSE local.old_loop
        /\ local' = Outcome(ok)
  BY DEF SeekEnd
<1>2. /\ worker = "moving" /\ TypeOK /\ Owned /\ Commanded /\ Ordered
      /\ queue' = <<>> /\ offset' = 0 /\ priming' = Prime /\ worker' = "checking"
      /\ UNCHANGED <<running, active, command, seeking, result, next_loop, target,
                     refs, control, block, guest, track, playing, asked>>
  BY DEF SeekEnd, IInv
<1>3. /\ local' \in Local /\ local'.result = ok /\ Prime \in 0..Prime /\ Prime > 0
      /\ loop' \in BOOLEAN
  BY <1>1, <1>2, FeedFacts, OutcomeFacts DEF TypeOK, Local
<1>4. TypeOK'
  BY <1>1, <1>2, <1>3, FeedFacts DEF TypeOK
<1>5. Owned'
  BY <1>2, OwnedKept DEF Opening
<1>6. Commanded'
  <2>1. /\ seeking /\ op[control] # "reopen" /\ command = "wait"
        /\ local.target = target /\ local.loop = next_loop
        /\ asked = <<local.previous, local.old_loop>>
    BY <1>2 DEF Commanded
  <2>2. Settled'
    BY <1>1, <1>2, <1>3, <2>1 DEF Settled
  <2> QED
    BY <1>2, <1>3, <2>1, <2>2 DEF Commanded
<1>7. Ordered'
  BY <1>1, <1>2, EmptyQueue DEF Ordered, Ahead
<1> QED
  BY <1>4, <1>5, <1>6, <1>7 DEF IInv

LEMMA AnswerStep ==
  ASSUME IInv, Answer
  PROVE  IInv'
<1> USE DEF decoder
<1>1. /\ worker = "primed" /\ TypeOK /\ Owned /\ Commanded /\ Ordered
      /\ result' = local.result /\ seeking' = FALSE /\ stage' = Readied(stage)
      /\ worker' = "top" /\ priming' = 0 /\ local' = Outcome(FALSE)
      /\ asked' = <<0, FALSE>>
      /\ UNCHANGED <<decoder, running, active, command, loop, next_loop, target,
                     queue, offset, position, eof, refs, control, block, op,
                     track, playing>>
  BY DEF Answer, IInv
<1>2. /\ \A t \in Threads :
           stage'[t] = stage[t] \/ (stage[t] = "waiting" /\ stage'[t] = "woken")
      /\ stage' \in [Threads -> Stages]
  BY <1>1 DEF Readied, TypeOK, Stages
<1>3. TypeOK'
  <2>1. Outcome(FALSE) \in Local /\ 0 \in 0..Prime /\ 0 \in Positions
    BY FeedFacts DEF Outcome, Local, Positions, Targets
  <2>2. {failed, running, active, seeking, result, loop, next_loop, eof, playing}'
          \subseteq BOOLEAN
    BY <1>1 DEF TypeOK, Local
  <2> QED
    BY <1>1, <1>2, <2>1, <2>2 DEF TypeOK
<1>4. Owned'
  BY <1>1, <1>2, OwnedKept DEF Opening, Away
<1>5. Commanded'
  <2>1. command = "wait" /\ priming > 0
    BY <1>1 DEF Commanded
  <2> QED
    BY <1>1, <1>2, <2>1 DEF Commanded
<1>6. Ordered'
  BY <1>1, OrderedKept DEF Commanded
<1> QED
  BY <1>3, <1>4, <1>5, <1>6 DEF IInv

-----------------------------------------------------------------------------
(* The guest threads. *)

(* No command is under way.                                                *)
LEMMA CommandedIdle ==
  ASSUME ~seeking', command' = "wait", priming' = 0,
         worker' \notin {"seek", "open", "moving", "primed"},
         \A t \in Threads : stage'[t] \in Awaiting <=> control' = t
  PROVE  Commanded'
BY DEF Commanded, Awaiting

LEMMA IdleFacts ==
  ASSUME TypeOK, Commanded, ~seeking
  PROVE  /\ command = "wait" /\ priming = 0
         /\ worker \notin {"seek", "open", "moving", "primed"}
BY DEF TypeOK, Commanded

(* One thread moves, into the calls, out of them or inside them.           *)
LEMMA ThreadMoves ==
  ASSUME TypeOK, NEW t \in Threads, NEW s \in Stages, Goto(t, s)
  PROVE  /\ stage' \in [Threads -> Stages] /\ stage'[t] = s
         /\ \A u \in Threads \ {t} : stage'[u] = stage[u]
         /\ t \in Holders <=> stage[t] \notin Away
         /\ t \in Holders' <=> s \notin Away
         /\ Holders \ {t} = Holders' \ {t}
         /\ Swaps(t, Holders, Holders')
<1>1. /\ stage' \in [Threads -> Stages] /\ stage'[t] = s
      /\ \A u \in Threads \ {t} : stage'[u] = stage[u]
  BY DEF TypeOK, Goto
<1>2. /\ t \in Holders <=> stage[t] \notin Away
      /\ t \in Holders' <=> s \notin Away
      /\ Holders \ {t} = Holders' \ {t}
  BY <1>1 DEF Holders, Away
<1>3. Holders \in SUBSET Threads /\ Holders' \in SUBSET Threads
  BY DEF Holders
<1>4. Swaps(t, Holders, Holders')
  BY <1>2, <1>3, FeedFacts, CountExchange
<1> QED
  BY <1>1, <1>2, <1>4

(* A thread in a call keeps the worker there and the feed running.         *)
LEMMA HolderFacts ==
  ASSUME TypeOK, Owned, NEW t \in Threads, stage[t] \notin Away
  PROVE  /\ t \in Holders /\ running /\ worker # "none" /\ track # "idle" /\ refs > 0
         /\ \A u \in Threads : stage[u] \notin {"stopping", "joining"}
<1>1. t \in Holders /\ Holders \in SUBSET Threads
  BY DEF Holders, Away
<1>2. /\ worker # "none" /\ track # "idle"
      /\ \A u \in Threads : stage[u] \notin {"stopping", "joining"}
  BY <1>1 DEF Owned, Away
<1>3. running
  BY <1>2 DEF Owned
<1>4. Cardinality(Holders) \in Nat /\ Cardinality(Holders) # 0
  BY <1>1, FeedFacts, CountEmpty
<1>5. refs > 0
  BY <1>4 DEF Owned
<1> QED
  BY <1>1, <1>2, <1>3, <1>5

LEMMA RetainStep ==
  ASSUME IInv, NEW t \in Threads, NEW o \in {"seek", "start"}, Retain(t, o)
  PROVE  IInv'
<1> USE DEF decoder, fields, jobs
<1>1. /\ TypeOK /\ Owned /\ Commanded /\ Ordered
      /\ stage[t] = "guest" /\ track = "channel" /\ refs' = refs + 1
      /\ Goto(t, "calling") /\ op' = [op EXCEPT ![t] = o]
      /\ UNCHANGED <<decoder, running, fields, control, worker, jobs, track,
                     playing, asked>>
  BY DEF Retain, IInv
<1>2. /\ stage' \in [Threads -> Stages] /\ stage'[t] = "calling"
      /\ \A u \in Threads \ {t} : stage'[u] = stage[u] /\ op'[u] = op[u]
      /\ op' \in [Threads -> Ops] /\ op'[t] = o
      /\ Cardinality(Holders') = Cardinality(Holders) + 1 /\ Cardinality(Holders) \in Nat
  <2>1. "calling" \in Stages
    BY DEF Stages
  <2> QED
    BY <1>1, <2>1, ThreadMoves DEF Swaps, In, Away, TypeOK, Ops
<1>3. TypeOK'
  BY <1>1, <1>2 DEF TypeOK
<1>4. Owned'
  <2>1. \A u \in Threads : ~Opening(u)' /\ stage[u] \notin {"stopping", "joining"}
    BY <1>1, <1>2 DEF Owned, Opening
  <2>2. worker # "none"
    BY <1>1 DEF Owned
  <2>3. refs' = Cardinality(Holders') + 1
    BY <1>1, <1>2 DEF Owned
  <2> QED
    BY <1>1, <1>2, <2>1, <2>2, <2>3 DEF Owned
<1>5. Commanded'
  BY <1>1, <1>2, CommandedKept DEF Awaiting
<1>6. Ordered'
  BY <1>1, OrderedKept
<1> QED
  BY <1>3, <1>4, <1>5, <1>6 DEF IInv

(* Waking the worker does not change what it is at.                        *)
LEMMA Signalled ==
  ASSUME TypeOK, SignalWork \/ UNCHANGED worker
  PROVE  /\ worker' = worker \/ (worker \in Resting /\ worker' \in Resting)
         /\ worker' = "none" <=> worker = "none"
         /\ worker' = "decoded" <=> worker = "decoded"
         /\ worker' \in {"none", "top", "asleep", "seek", "open", "moving", "checking",
                         "decoded", "primed", "exited"}
BY DEF TypeOK, SignalWork, Resting

(* A call ends with the answer ok and goes on to what comes after it.      *)
LEMMA FinishFacts ==
  ASSUME TypeOK, Owned, NEW t \in Threads, stage[t] \in {"calling", "woken"},
         NEW ok, Finish(t, ok), UNCHANGED <<refs, track, running, op>>
  PROVE  /\ stage' \in [Threads -> Stages]
         /\ stage'[t] \notin Away \cup Awaiting
         /\ \A u \in Threads \ {t} : stage'[u] = stage[u]
         /\ active' \in BOOLEAN /\ Owned'
         /\ SignalWork \/ UNCHANGED worker
<1>1. stage' = [stage EXCEPT ![t] = Ended(t, ok)]
  BY DEF Finish, Goto
<1>2. /\ Ended(t, ok) \in {"closing", "started", "loading"}
      /\ Ended(t, ok) = "loading" => op[t] \in {"create", "reopen"}
  BY DEF Ended, TypeOK, Ops
<1>3. /\ stage' \in [Threads -> Stages] /\ stage'[t] = Ended(t, ok)
      /\ \A u \in Threads \ {t} : stage'[u] = stage[u]
  BY <1>1, <1>2 DEF TypeOK, Stages
<1>4. /\ SignalWork \/ UNCHANGED worker
      /\ active' = TRUE \/ active' = active
  BY DEF Finish
<1>5. active' \in BOOLEAN
  BY <1>4 DEF TypeOK
<1>6. Owned'
  <2>1. track # "idle"
    BY HolderFacts DEF Away
  <2>2. \A u \in Threads : Opening(u)' => Opening(u)
    BY <1>2, <1>3 DEF Opening
  <2>3. \A u \in Threads :
          stage[u] \in Away \/ stage'[u] \in Away => stage'[u] = stage[u]
    BY <1>2, <1>3 DEF Away
  <2> QED
    BY <1>4, <2>1, <2>2, <2>3, Signalled, OwnedKept
<1> QED
  BY <1>2, <1>3, <1>4, <1>5, <1>6 DEF Away, Awaiting

(* A command is left for the worker by a thread that found none.           *)
LEMMA CommandStep ==
  ASSUME IInv, NEW t \in Threads, stage[t] = "calling", control = NoThread,
         NEW c \in {"seek", "open"}, Command(t, c), c = "open" <=> op[t] = "reopen",
         active' \in BOOLEAN, active' => active,
         target' \in Targets, next_loop' \in BOOLEAN,
         UNCHANGED <<decoder, running, result, loop, queue, offset, position, eof,
                     refs, jobs, op, track, playing>>
  PROVE  IInv'
<1> USE DEF decoder, jobs
<1>1. /\ TypeOK /\ Owned /\ Commanded /\ Ordered
      /\ control' = t /\ seeking' = TRUE /\ command' = c /\ asked' = <<position, loop>>
      /\ SignalWork /\ Goto(t, "waiting")
  BY DEF Command, IInv
<1>2. /\ stage' \in [Threads -> Stages] /\ stage'[t] = "waiting"
      /\ \A u \in Threads \ {t} : stage'[u] = stage[u]
  BY <1>1, ThreadMoves DEF Stages
<1>3. /\ ~seeking /\ command = "wait" /\ priming = 0
      /\ worker \notin {"seek", "open", "moving", "primed"}
      /\ \A u \in Threads : stage[u] \notin {"waiting", "woken"}
  BY <1>1, IdleFacts, FeedFacts DEF Commanded
<1>4. /\ worker' = worker \/ (worker \in Resting /\ worker' \in Resting)
      /\ worker' = "none" <=> worker = "none"
      /\ worker' = "decoded" <=> worker = "decoded"
      /\ worker' \in {"none", "top", "asleep", "seek", "open", "moving", "checking",
                      "decoded", "primed", "exited"}
  BY <1>1, Signalled
<1>5. TypeOK'
  <2>1. asked' \in Positions \X BOOLEAN /\ control' \in Threads \cup {NoThread}
        /\ command' \in {"wait", "seek", "open"}
    BY <1>1 DEF TypeOK
  <2>2. {failed, running, active, seeking, result, loop, next_loop, eof, playing}'
          \subseteq BOOLEAN
    BY <1>1 DEF TypeOK
  <2> QED
    BY <1>1, <1>2, <1>4, <2>1, <2>2 DEF TypeOK
<1>6. Owned'
  BY <1>1, <1>2, <1>4, OwnedKept DEF Opening, Away
<1>7. Commanded'
  BY <1>1, <1>2, <1>3, <1>4, FeedFacts DEF Commanded, Resting
<1>8. Ordered'
  BY <1>1, <1>3, <1>4, OrderedKept
<1> QED
  BY <1>5, <1>6, <1>7, <1>8 DEF IInv

LEMMA MoveStep ==
  ASSUME IInv, NEW t \in Threads, NEW p \in Targets, NEW l \in BOOLEAN, Move(t, p, l)
  PROVE  IInv'
<1> USE DEF decoder, jobs
<1>1. /\ TypeOK /\ Owned /\ Commanded /\ Ordered
      /\ stage[t] = "calling" /\ control = NoThread /\ op[t] # "reopen"
      /\ UNCHANGED <<decoder, running, result, loop, queue, offset, position, eof,
                     refs, jobs, op, track, playing>>
  BY DEF Move, IInv
<1>2. CASE running /\ result /\ p = position /\ l = loop
  <2>1. /\ Finish(t, TRUE)
        /\ UNCHANGED <<command, seeking, next_loop, target, control, asked>>
    BY <1>2 DEF Move
  <2>2. /\ stage' \in [Threads -> Stages]
        /\ stage'[t] \notin Away \cup Awaiting
        /\ \A u \in Threads \ {t} : stage'[u] = stage[u]
        /\ active' \in BOOLEAN /\ Owned'
        /\ SignalWork \/ UNCHANGED worker
    BY <1>1, <2>1, FinishFacts
  <2>3. /\ worker' = worker \/ (worker \in Resting /\ worker' \in Resting)
        /\ worker' = "none" <=> worker = "none"
        /\ worker' = "decoded" <=> worker = "decoded"
        /\ worker' \in {"none", "top", "asleep", "seek", "open", "moving", "checking",
                        "decoded", "primed", "exited"}
    BY <1>1, <2>2, Signalled
  <2>4. TypeOK'
    BY <1>1, <2>1, <2>2, <2>3 DEF TypeOK
  <2>5. Commanded'
    BY <1>1, <2>1, <2>2, <2>3, CommandedKept DEF Awaiting
  <2>6. Ordered'
    BY <1>1, <2>1, <2>3, OrderedKept
  <2> QED
    BY <2>2, <2>4, <2>5, <2>6 DEF IInv
<1>3. CASE ~(running /\ result /\ p = position /\ l = loop)
  <2>1. /\ target' = p /\ next_loop' = l /\ Command(t, "seek") /\ UNCHANGED active
    BY <1>3 DEF Move
  <2>2. active' \in BOOLEAN
    BY <1>1, <2>1 DEF TypeOK
  <2> QED
    BY <1>1, <2>1, <2>2, CommandStep
<1> QED
  BY <1>2, <1>3

LEMMA ReopenStep ==
  ASSUME IInv, NEW t \in Threads, Reopen(t)
  PROVE  IInv'
<1>1. target \in Targets /\ next_loop \in BOOLEAN
  BY DEF IInv, TypeOK
<1> QED
  BY <1>1, CommandStep DEF Reopen

LEMMA WakeStep ==
  ASSUME IInv, NEW t \in Threads, Wake(t)
  PROVE  IInv'
<1> USE DEF decoder, jobs
<1>1. /\ TypeOK /\ Owned /\ Commanded /\ Ordered /\ stage[t] = "woken"
      /\ UNCHANGED <<decoder, running, command, seeking, result, loop, next_loop,
                     target, queue, offset, position, eof, refs, jobs, op, track,
                     playing, asked>>
  BY DEF Wake, IInv
<1>2. running
  BY <1>1, HolderFacts DEF Away
<1>3. CASE seeking
  <2>1. Goto(t, "waiting") /\ UNCHANGED <<active, worker, control>>
    BY <1>2, <1>3 DEF Wake
  <2>2. /\ stage' \in [Threads -> Stages] /\ stage'[t] = "waiting"
        /\ \A u \in Threads \ {t} : stage'[u] = stage[u]
    BY <1>1, <2>1, ThreadMoves DEF Stages
  <2>3. TypeOK'
    BY <1>1, <2>1, <2>2 DEF TypeOK
  <2>4. Owned'
    BY <1>1, <2>1, <2>2, OwnedKept DEF Opening, Away
  <2>5. Commanded'
    BY <1>1, <2>1, <2>2, CommandedKept DEF Awaiting
  <2>6. Ordered'
    BY <1>1, <2>1, OrderedKept
  <2> QED
    BY <2>3, <2>4, <2>5, <2>6 DEF IInv
<1>4. CASE ~seeking
  <2>1. Finish(t, running /\ result) /\ control' = NoThread
    BY <1>4 DEF Wake
  <2>2. /\ stage' \in [Threads -> Stages]
        /\ stage'[t] \notin Away \cup Awaiting
        /\ \A u \in Threads \ {t} : stage'[u] = stage[u]
        /\ active' \in BOOLEAN /\ Owned'
        /\ SignalWork \/ UNCHANGED worker
    BY <1>1, <2>1, FinishFacts
  <2>3. /\ worker' = worker \/ (worker \in Resting /\ worker' \in Resting)
        /\ worker' = "none" <=> worker = "none"
        /\ worker' = "decoded" <=> worker = "decoded"
        /\ worker' \in {"none", "top", "asleep", "seek", "open", "moving", "checking",
                        "decoded", "primed", "exited"}
    BY <1>1, <2>2, Signalled
  <2>4. TypeOK'
    BY <1>1, <2>1, <2>2, <2>3 DEF TypeOK
  <2>5. Commanded'
    <3>1. /\ command = "wait" /\ priming = 0
          /\ worker \notin {"seek", "open", "moving", "primed"}
      BY <1>1, <1>4, IdleFacts
    <3>2. \A u \in Threads : stage'[u] \in Awaiting <=> control' = u
      BY <1>1, <2>1, <2>2, FeedFacts DEF Commanded, Awaiting
    <3> QED
      BY <1>1, <1>4, <2>3, <3>1, <3>2, CommandedIdle DEF Resting
  <2>6. Ordered'
    BY <1>1, <2>3, OrderedKept
  <2> QED
    BY <2>2, <2>4, <2>5, <2>6 DEF IInv
<1> QED
  BY <1>3, <1>4

LEMMA SpuriousReadyStep ==
  ASSUME IInv, NEW t \in Threads, SpuriousReady(t)
  PROVE  IInv'
<1> USE DEF decoder, fields, jobs
<1>1. /\ TypeOK /\ Owned /\ Commanded /\ Ordered
      /\ stage[t] = "waiting" /\ Goto(t, "woken")
      /\ UNCHANGED <<decoder, running, fields, refs, control, worker, jobs, op,
                     track, playing, asked>>
  BY DEF SpuriousReady, IInv
<1>2. /\ stage' \in [Threads -> Stages] /\ stage'[t] = "woken"
      /\ \A u \in Threads \ {t} : stage'[u] = stage[u]
  BY <1>1, ThreadMoves DEF Stages
<1>3. TypeOK'
  BY <1>1, <1>2 DEF TypeOK
<1>4. Owned'
  BY <1>1, <1>2, OwnedKept DEF Opening, Away
<1>5. Commanded'
  BY <1>1, <1>2, CommandedKept DEF Awaiting
<1>6. Ordered'
  BY <1>1, OrderedKept
<1> QED
  BY <1>3, <1>4, <1>5, <1>6 DEF IInv

LEMMA CommitStep ==
  ASSUME IInv, NEW t \in Threads, Commit(t)
  PROVE  IInv'
<1> USE DEF decoder, fields, jobs
<1>1. /\ TypeOK /\ Owned /\ Commanded /\ Ordered
      /\ stage[t] = "started" /\ playing' = (playing \/ track = "channel")
      /\ Goto(t, "closing")
      /\ UNCHANGED <<decoder, running, fields, refs, control, worker, jobs, op,
                     track, asked>>
  BY DEF Commit, IInv
<1>2. /\ stage' \in [Threads -> Stages] /\ stage'[t] = "closing"
      /\ \A u \in Threads \ {t} : stage'[u] = stage[u]
  BY <1>1, ThreadMoves DEF Stages
<1>3. TypeOK'
  BY <1>1, <1>2 DEF TypeOK
<1>4. Owned'
  BY <1>1, <1>2, OwnedKept DEF Opening, Away
<1>5. Commanded'
  BY <1>1, <1>2, CommandedKept DEF Awaiting
<1>6. Ordered'
  BY <1>1, OrderedKept
<1> QED
  BY <1>3, <1>4, <1>5, <1>6 DEF IInv

-----------------------------------------------------------------------------
(* The owners: who has the feed changes, the feed itself does not. *)

LEMMA CreateStep ==
  ASSUME IInv, NEW t \in Threads, Create(t)
  PROVE  IInv'
<1> USE DEF decoder, fields, jobs
<1>1. /\ TypeOK /\ Owned /\ Commanded /\ Ordered
      /\ stage[t] = "guest" /\ worker = "none"
      /\ running' = TRUE /\ refs' = 1 /\ worker' = "top" /\ Goto(t, "calling")
      /\ op' = [op EXCEPT ![t] = "create"]
      /\ UNCHANGED <<decoder, fields, control, jobs, track, playing, asked>>
  BY DEF Create, IInv
<1>2. /\ stage' \in [Threads -> Stages] /\ stage'[t] = "calling"
      /\ \A u \in Threads \ {t} : stage'[u] = stage[u] /\ op'[u] = op[u]
      /\ op' \in [Threads -> Ops]
  BY <1>1, ThreadMoves DEF Stages, TypeOK, Ops
<1>3. /\ track = "none" /\ \A u \in Threads : stage[u] = "guest"
      /\ Holders = {} /\ Holders' = {t}
      /\ Cardinality(Holders') = 1
  <2>1. track = "none" /\ \A u \in Threads : stage[u] = "guest"
    BY <1>1 DEF Owned
  <2>2. Holders = {} /\ Holders' = {t}
    BY <1>2, <2>1 DEF Holders
  <2> QED
    BY <2>1, <2>2, FS_Singleton
<1>4. /\ \A u \in Threads : control # u
      /\ control = NoThread /\ ~seeking /\ command = "wait" /\ priming = 0
  <2>1. \A u \in Threads : control # u
    BY <1>1, <1>3 DEF Commanded
  <2>2. control = NoThread /\ ~seeking
    BY <1>1, <2>1 DEF Commanded, TypeOK
  <2> QED
    BY <1>1, <2>1, <2>2, IdleFacts
<1>5. TypeOK'
  <2>1. {failed, running, active, seeking, result, loop, next_loop, eof, playing}'
          \subseteq BOOLEAN
    BY <1>1 DEF TypeOK
  <2> QED
    BY <1>1, <1>2, <2>1 DEF TypeOK
<1>6. Owned'
  BY <1>1, <1>2, <1>3 DEF Owned, Opening
<1>7. Commanded'
  BY <1>1, <1>2, <1>3, <1>4, CommandedIdle DEF Awaiting
<1>8. Ordered'
  <2>1. Ahead' = <<>> /\ queue' = <<>> /\ codec' = position' /\ QueueSound(queue, offset)
    BY <1>1 DEF Ahead, Ordered
  <2>2. Chained(Ahead, offset, position, codec)' /\ QueueSound(queue, offset)'
    BY <1>1, <2>1 DEF Chained, QueueSound
  <2> QED
    BY <1>1, <2>1, <2>2 DEF Ordered
<1> QED
  BY <1>5, <1>6, <1>7, <1>8 DEF IInv

LEMMA LoadStep ==
  ASSUME IInv, NEW t \in Threads, Load(t)
  PROVE  IInv'
<1> USE DEF decoder, fields, jobs
<1>1. /\ TypeOK /\ Owned /\ Commanded /\ Ordered
      /\ stage[t] = "loading" /\ track' = "channel" /\ Goto(t, "guest")
      /\ UNCHANGED <<decoder, running, fields, refs, control, worker, jobs, op,
                     playing, asked>>
  BY DEF Load, IInv
<1>2. /\ stage' \in [Threads -> Stages] /\ stage'[t] = "guest"
      /\ \A u \in Threads \ {t} : stage'[u] = stage[u]
  BY <1>1, ThreadMoves DEF Stages
<1>3. /\ Opening(t) /\ track = "none" /\ Holders = {t} /\ Holders' = {}
      /\ worker # "none"
      /\ \A u \in Threads : stage[u] \notin {"stopping", "joining"}
      /\ Cardinality(Holders) = 1 /\ Cardinality(Holders') = 0
  <2>1. Opening(t) /\ track = "none" /\ Holders = {t}
    BY <1>1 DEF Opening, Owned
  <2>2. Holders' = {}
    BY <1>2, <2>1 DEF Holders
  <2> QED
    BY <1>1, <2>1, <2>2, HolderFacts, FS_Singleton, FS_EmptySet DEF Away
<1>4. TypeOK'
  BY <1>1, <1>2 DEF TypeOK
<1>5. Owned'
  <2>1. \A u \in Threads : ~Opening(u)' /\ stage'[u] \notin {"stopping", "joining"}
    BY <1>2, <1>3 DEF Opening, Holders
  <2>2. refs' = 1
    BY <1>1, <1>3 DEF Owned
  <2>3. running' <=> worker' # "none" /\ \A u \in Threads : stage'[u] # "joining"
    BY <1>1, <1>3, <2>1 DEF Owned
  <2> QED
    BY <1>1, <1>3, <2>1, <2>2, <2>3 DEF Owned
<1>6. Commanded'
  BY <1>1, <1>2, CommandedKept DEF Awaiting
<1>7. Ordered'
  BY <1>1, OrderedKept
<1> QED
  BY <1>4, <1>5, <1>6, <1>7 DEF IInv

LEMMA DetachStep ==
  ASSUME IInv, NEW t \in Threads, Detach(t)
  PROVE  IInv'
<1> USE DEF decoder, fields, jobs
<1>1. /\ TypeOK /\ Owned /\ Commanded /\ Ordered
      /\ stage[t] = "guest" /\ track = "channel" /\ track' = "none"
      /\ playing' = FALSE /\ Goto(t, "retiring")
      /\ UNCHANGED <<decoder, running, fields, refs, control, worker, jobs, op, asked>>
  BY DEF Detach, IInv
<1>2. /\ stage' \in [Threads -> Stages] /\ stage'[t] = "retiring"
      /\ \A u \in Threads \ {t} : stage'[u] = stage[u]
      /\ Cardinality(Holders') = Cardinality(Holders) + 1 /\ Cardinality(Holders) \in Nat
  BY <1>1, ThreadMoves DEF Stages, Swaps, In, Away
<1>3. TypeOK'
  BY <1>1, <1>2 DEF TypeOK
<1>4. Owned'
  <2>1. worker # "none" /\ \A u \in Threads : stage[u] \notin {"stopping", "joining"}
    BY <1>1 DEF Owned
  <2>2. \A u \in Threads : ~Opening(u)'
    BY <1>1, <1>2 DEF Owned, Opening
  <2>3. \A u \in Threads : stage'[u] \notin {"stopping", "joining"}
    BY <1>2, <2>1
  <2>4. running
    BY <1>1, <2>1 DEF Owned
  <2>5. refs' = Cardinality(Holders')
    BY <1>1, <1>2 DEF Owned
  <2> QED
    BY <1>1, <2>1, <2>2, <2>3, <2>4, <2>5, <1>2 DEF Owned
<1>5. Commanded'
  BY <1>1, <1>2, CommandedKept DEF Awaiting
<1>6. Ordered'
  BY <1>1, OrderedKept
<1> QED
  BY <1>3, <1>4, <1>5, <1>6 DEF IInv

LEMMA ParkStep ==
  ASSUME IInv, NEW t \in Threads, Park(t)
  PROVE  IInv'
<1> USE DEF decoder, jobs
<1>1. /\ TypeOK /\ Owned /\ Commanded /\ Ordered /\ stage[t] = "retiring"
      /\ UNCHANGED <<decoder, running, command, seeking, result, loop, next_loop,
                     target, queue, offset, position, eof, refs, control, worker,
                     jobs, op, playing, asked>>
  BY DEF Park, IInv
<1>2. /\ t \in Holders /\ running /\ worker # "none"
      /\ \A u \in Threads : stage[u] \notin {"stopping", "joining"}
      /\ Holders \in SUBSET Threads /\ Cardinality(Holders) \in Nat
      /\ Cardinality(Holders) # 0
  <2>1. Holders \in SUBSET Threads
    BY DEF Holders
  <2> QED
    BY <1>1, <2>1, HolderFacts, FeedFacts, CountEmpty DEF Away
<1>3. CASE refs = 1
  <2>1. active' = FALSE /\ track' = "idle" /\ Goto(t, "guest")
    BY <1>3 DEF Park
  <2>2. /\ stage' \in [Threads -> Stages] /\ stage'[t] = "guest"
        /\ \A u \in Threads \ {t} : stage'[u] = stage[u]
    BY <1>1, <2>1, ThreadMoves DEF Stages
  <2>3. Holders = {t} /\ track = "none"
    <3>1. Cardinality(Holders) = 1 /\ track = "none"
      BY <1>1, <1>2, <1>3 DEF Owned
    <3> QED
      BY <1>2, <3>1, CountOne, FeedFacts
  <2>4. Holders' = {} /\ Cardinality(Holders') = 0
    <3>1. Holders' = {}
      BY <2>2, <2>3 DEF Holders
    <3> QED
      BY <3>1, FS_EmptySet
  <2>5. TypeOK'
    BY <1>1, <2>1, <2>2 DEF TypeOK
  <2>6. Owned'
    <3>1. \A u \in Threads : ~Opening(u)' /\ stage'[u] \notin {"stopping", "joining"}
      BY <1>2, <2>2, <2>4 DEF Opening, Holders
    <3> QED
      BY <1>1, <1>2, <1>3, <2>1, <2>4, <3>1 DEF Owned
  <2>7. Commanded'
    BY <1>1, <2>2, CommandedKept DEF Awaiting
  <2>8. Ordered'
    BY <1>1, OrderedKept
  <2> QED
    BY <2>5, <2>6, <2>7, <2>8 DEF IInv
<1>4. CASE refs # 1
  <2>1. Goto(t, "closing") /\ UNCHANGED <<active, track>>
    BY <1>4 DEF Park
  <2>2. /\ stage' \in [Threads -> Stages] /\ stage'[t] = "closing"
        /\ \A u \in Threads \ {t} : stage'[u] = stage[u]
    BY <1>1, <2>1, ThreadMoves DEF Stages
  <2>3. TypeOK'
    BY <1>1, <2>1, <2>2 DEF TypeOK
  <2>4. Owned'
    BY <1>1, <2>1, <2>2, OwnedKept DEF Opening, Away
  <2>5. Commanded'
    BY <1>1, <2>2, CommandedKept DEF Awaiting
  <2>6. Ordered'
    BY <1>1, OrderedKept
  <2> QED
    BY <2>3, <2>4, <2>5, <2>6 DEF IInv
<1> QED
  BY <1>3, <1>4

LEMMA TakeIdleStep ==
  ASSUME IInv, NEW t \in Threads, TakeIdle(t)
  PROVE  IInv'
<1> USE DEF decoder, fields, jobs
<1>1. /\ TypeOK /\ Owned /\ Commanded /\ Ordered
      /\ stage[t] = "guest" /\ track = "idle" /\ track' = "none"
      /\ op' = [op EXCEPT ![t] = "reopen"]
      /\ UNCHANGED <<decoder, running, fields, refs, control, worker, jobs,
                     playing, asked>>
  BY DEF TakeIdle, IInv
<1>2. PICK next \in {"calling", "closing"} : Goto(t, next)
  BY DEF TakeIdle
<1>3. /\ stage' \in [Threads -> Stages] /\ stage'[t] = next
      /\ \A u \in Threads \ {t} : stage'[u] = stage[u] /\ op'[u] = op[u]
      /\ op' \in [Threads -> Ops]
      /\ t \in Holders' /\ Holders \ {t} = Holders' \ {t}
      /\ Cardinality(Holders') = Cardinality(Holders) + 1 /\ Cardinality(Holders) \in Nat
  BY <1>1, <1>2, ThreadMoves DEF Stages, Swaps, In, Away, TypeOK, Ops
<1>4. Holders = {} /\ Holders' = {t}
  BY <1>1, <1>3 DEF Owned
<1>5. TypeOK'
  BY <1>1, <1>3 DEF TypeOK
<1>6. Owned'
  <2>1. worker # "none" /\ \A u \in Threads : stage[u] \notin {"stopping", "joining"}
    BY <1>1 DEF Owned
  <2>2. \A u \in Threads : stage'[u] \notin {"stopping", "joining"}
    BY <1>3, <2>1
  <2>3. running
    BY <1>1, <2>1 DEF Owned
  <2>4. refs' = Cardinality(Holders')
    BY <1>1, <1>3 DEF Owned
  <2>5. \A u \in Threads : Opening(u)' => u \in Holders'
    BY DEF Opening, Holders
  <2> QED
    BY <1>1, <1>4, <2>1, <2>2, <2>3, <2>4, <2>5 DEF Owned
<1>7. Commanded'
  BY <1>1, <1>3, CommandedKept DEF Awaiting
<1>8. Ordered'
  BY <1>1, OrderedKept
<1> QED
  BY <1>5, <1>6, <1>7, <1>8 DEF IInv

LEMMA CloseStep ==
  ASSUME IInv, NEW t \in Threads, Close(t)
  PROVE  IInv'
<1> USE DEF decoder, fields, jobs
<1>1. /\ TypeOK /\ Owned /\ Commanded /\ Ordered
      /\ stage[t] = "closing" /\ refs' = refs - 1
      /\ Goto(t, IF refs = 1 THEN "stopping" ELSE "guest")
      /\ UNCHANGED <<decoder, running, fields, control, worker, jobs, op, track,
                     playing, asked>>
  BY DEF Close, IInv
<1>2. /\ stage' \in [Threads -> Stages]
      /\ stage'[t] = IF refs = 1 THEN "stopping" ELSE "guest"
      /\ \A u \in Threads \ {t} : stage'[u] = stage[u]
      /\ Holders' = Holders \ {t}
      /\ Cardinality(Holders') = Cardinality(Holders) - 1 /\ Cardinality(Holders) \in Nat
  <2>1. (IF refs = 1 THEN "stopping" ELSE "guest") \in Away \cap Stages
    BY DEF Stages, Away
  <2>2. stage[t] \notin Away
    BY <1>1 DEF Away
  <2> QED
    BY <1>1, <2>1, <2>2, ThreadMoves DEF Swaps, In
<1>3. /\ t \in Holders /\ running /\ worker # "none" /\ track # "idle" /\ refs > 0
      /\ \A u \in Threads : stage[u] \notin {"stopping", "joining"}
  BY <1>1, HolderFacts DEF Away
<1>4. TypeOK'
  <2>1. refs' \in Nat
    BY <1>1, <1>3 DEF TypeOK
  <2> QED
    BY <1>1, <1>2, <2>1 DEF TypeOK
<1>5. Owned'
  <2>1. \A u \in Threads : ~Opening(u)'
    <3>1. ASSUME NEW u \in Threads, Opening(u)' PROVE FALSE
      <4>1. u # t /\ Opening(u)
        BY <1>1, <1>2, <3>1 DEF Opening
      <4> QED
        BY <1>1, <1>3, <4>1 DEF Owned
    <3> QED
      BY <3>1
  <2>2. refs' = Cardinality(Holders') + IF track' = "none" THEN 0 ELSE 1
    BY <1>1, <1>2 DEF Owned, TypeOK
  <2>3. ASSUME refs = 1 PROVE track = "none" /\ \A u \in Threads \ {t} : stage[u] = "guest"
    <3>1. Cardinality(Holders) = 1 /\ track = "none"
      <4>1. Holders \in SUBSET Threads
        BY DEF Holders
      <4>2. Cardinality(Holders) # 0
        BY <1>3, <4>1, CountEmpty, FeedFacts
      <4> QED
        BY <1>1, <1>2, <2>3, <4>2 DEF Owned
    <3>2. Holders = {t}
      <4>1. Holders \in SUBSET Threads
        BY DEF Holders
      <4> QED
        BY <1>3, <3>1, <4>1, CountOne, FeedFacts
    <3> QED
      BY <1>3, <3>1, <3>2 DEF Holders
  <2>4. ASSUME NEW u \in Threads, stage'[u] \in {"stopping", "joining"}
        PROVE  track' = "none" /\ \A v \in Threads \ {u} : stage'[v] = "guest"
    <3>1. u = t /\ refs = 1
      BY <1>2, <1>3, <2>4
    <3> QED
      BY <1>1, <1>2, <2>3, <3>1
  <2>5. \A u \in Threads : stage'[u] # "joining"
    BY <1>2, <1>3
  <2> QED
    BY <1>1, <1>3, <2>1, <2>2, <2>4, <2>5 DEF Owned
<1>6. Commanded'
  BY <1>1, <1>2, CommandedKept DEF Awaiting
<1>7. Ordered'
  BY <1>1, OrderedKept
<1> QED
  BY <1>4, <1>5, <1>6, <1>7 DEF IInv

LEMMA StopStep ==
  ASSUME IInv, NEW t \in Threads, Stop(t)
  PROVE  IInv'
<1> USE DEF decoder, fields, jobs
<1>1. /\ TypeOK /\ Owned /\ Commanded /\ Ordered
      /\ stage[t] = "stopping" /\ running' = FALSE /\ SignalWork
      /\ stage' = [Readied(stage) EXCEPT ![t] = "joining"]
      /\ UNCHANGED <<decoder, fields, refs, control, jobs, op, track, playing, asked>>
  BY DEF Stop, IInv
<1>2. /\ track = "none" /\ \A u \in Threads \ {t} : stage[u] = "guest"
      /\ worker # "none"
  BY <1>1 DEF Owned
<1>3. /\ stage' \in [Threads -> Stages] /\ stage'[t] = "joining"
      /\ \A u \in Threads \ {t} : stage'[u] = stage[u]
  BY <1>1, <1>2 DEF Readied, TypeOK, Stages
<1>4. Holders = {} /\ Holders' = {} /\ Cardinality(Holders') = 0
  <2>1. Holders = {} /\ Holders' = {}
    BY <1>1, <1>2, <1>3 DEF Holders
  <2> QED
    BY <2>1, FS_EmptySet
<1>5. /\ worker' = worker \/ (worker \in Resting /\ worker' \in Resting)
      /\ worker' = "none" <=> worker = "none"
      /\ worker' = "decoded" <=> worker = "decoded"
      /\ worker' \in {"none", "top", "asleep", "seek", "open", "moving", "checking",
                      "decoded", "primed", "exited"}
  BY <1>1, Signalled
<1>6. TypeOK'
  <2>1. {failed, running, active, seeking, result, loop, next_loop, eof, playing}'
          \subseteq BOOLEAN
    BY <1>1 DEF TypeOK
  <2> QED
    BY <1>1, <1>3, <1>5, <2>1 DEF TypeOK
<1>7. Owned'
  BY <1>1, <1>2, <1>3, <1>4, <1>5 DEF Owned, Opening
<1>8. Commanded'
  BY <1>1, <1>2, <1>3, <1>5, CommandedKept DEF Awaiting
<1>9. Ordered'
  BY <1>1, <1>5, OrderedKept
<1> QED
  BY <1>6, <1>7, <1>8, <1>9 DEF IInv

LEMMA JoinStep ==
  ASSUME IInv, NEW t \in Threads, Join(t)
  PROVE  IInv'
<1>1. /\ TypeOK /\ Owned /\ Commanded /\ Ordered
      /\ stage[t] = "joining" /\ worker = "exited" /\ worker' = "none"
      /\ codec' = 0 /\ failed' = FALSE
      /\ active' = FALSE /\ command' = "wait" /\ seeking' = FALSE
      /\ result' = FALSE /\ loop' = FALSE /\ next_loop' = FALSE /\ target' = 0
      /\ queue' = <<>> /\ offset' = 0 /\ position' = 0 /\ eof' = FALSE
      /\ block' = NoBlock /\ priming' = 0 /\ local' = Outcome(FALSE)
      /\ Goto(t, "guest")
      /\ UNCHANGED <<running, refs, control, op, track, playing, asked>>
  BY DEF Join, IInv
<1>2. /\ stage' \in [Threads -> Stages] /\ stage'[t] = "guest"
      /\ \A u \in Threads \ {t} : stage'[u] = stage[u]
  BY <1>1, ThreadMoves DEF Stages
<1>3. /\ track = "none" /\ ~running /\ \A u \in Threads : stage'[u] = "guest"
      /\ Holders = {} /\ Holders' = {} /\ Cardinality(Holders') = 0
  <2>1. track = "none" /\ ~running /\ \A u \in Threads \ {t} : stage[u] = "guest"
    BY <1>1 DEF Owned, TypeOK
  <2>2. Holders = {} /\ Holders' = {}
    BY <1>1, <1>2, <2>1 DEF Holders
  <2> QED
    BY <1>2, <2>1, <2>2, FS_EmptySet
<1>4. TypeOK'
  <2>1. /\ 0 \in Positions /\ 0 \in Targets /\ 0 \in 0..BlockFrames /\ 0 \in 0..Prime
        /\ NoBlock \in Block /\ Outcome(FALSE) \in Local
        /\ <<>> \in Seq(Block) /\ Len(<<>>) <= Blocks
    BY FeedFacts DEF Positions, Targets, NoBlock, Block, Outcome, Local
  <2>2. {failed, running, active, seeking, result, loop, next_loop, eof, playing}'
          \subseteq BOOLEAN
    BY <1>1 DEF TypeOK
  <2> QED
    BY <1>1, <1>2, <2>1, <2>2 DEF TypeOK
<1>5. Owned'
  BY <1>1, <1>3 DEF Owned, Opening
<1>6. Commanded'
  BY <1>1, <1>2, CommandedIdle DEF Commanded, Awaiting
<1>7. Ordered'
  BY <1>1, <1>3, EmptyQueue DEF Ordered
<1> QED
  BY <1>4, <1>5, <1>6, <1>7 DEF IInv

-----------------------------------------------------------------------------
(* The mixer. *)

(* The queue q and what the worker has decoded behind it.                  *)
Behind(q) == IF worker = "decoded" THEN Append(q, block) ELSE q

(* What the mixer makes of the queue: it goes on as the game hears it, and *)
(* is no longer than it was.                                               *)
Consumable ==
  {s \in [queue : Seq(Block), offset : 0..BlockFrames, position : Positions] :
     /\ QueueSound(s.queue, s.offset)
     /\ Chained(Behind(s.queue), s.offset, s.position, codec)
     /\ Len(s.queue) <= Len(queue)}

(* A sequence without its first element.                                   *)
LEMMA TailFacts ==
  ASSUME NEW S, NEW q \in Seq(S), q # <<>>
  PROVE  /\ Head(q) = q[1] /\ q[1] \in S /\ Tail(q) \in Seq(S)
         /\ Len(q) \in Nat \ {0} /\ Len(Tail(q)) = Len(q) - 1
         /\ \A i \in 1..Len(Tail(q)) : Tail(q)[i] = q[i + 1] /\ q[i + 1] \in S
         /\ Tail(q) = <<>> <=> Len(Tail(q)) = 0
<1>1. /\ Head(q) \in S /\ Tail(q) \in Seq(S) /\ Len(Tail(q)) = Len(q) - 1
      /\ \A i \in 1..Len(Tail(q)) : Tail(q)[i] = q[i + 1]
  BY HeadTailProperties
<1>2. Len(q) \in Nat \ {0}
  BY EmptySeq
<1>3. Head(q) = q[1]
  OBVIOUS
<1>4. Tail(q) = <<>> <=> Len(Tail(q)) = 0
  <2>1. Tail(q) # <<>> => Len(Tail(q)) \in Nat \ {0}
    BY <1>1, EmptySeq
  <2>2. Tail(q) = <<>> => Len(Tail(q)) = 0
    BY EmptySeq
  <2> QED
    BY <2>1, <2>2
<1>5. \A i \in 1..Len(Tail(q)) : q[i + 1] \in S
  <2>1. \A i \in 1..Len(Tail(q)) : i + 1 \in 1..Len(q)
    BY <1>1, <1>2
  <2> QED
    BY <2>1
<1> QED
  BY <1>1, <1>2, <1>3, <1>4, <1>5

(* A block that is used up leaves the queue, and position is its end.      *)
LEMMA ChainAdvances ==
  ASSUME NEW a \in Seq(Block), a # <<>>, NEW off, NEW pos, NEW c,
         Chained(a, off, pos, c)
  PROVE  Chained(Tail(a), 0, a[1].end, c)
<1> DEFINE r == Tail(a)
<1>1. /\ Len(a) \in Nat \ {0} /\ Len(r) = Len(a) - 1
      /\ \A i \in 1..Len(r) : r[i] = a[i + 1] /\ r[i] \in Block
      /\ r = <<>> <=> Len(r) = 0
  BY TailFacts, Zenon
<1> HIDE DEF r
<1>2. \A i \in 1..Len(a) - 1 : a[i].end = a[i + 1].start
  BY DEF Chained
<1>3. ASSUME NEW i \in 1..Len(r) - 1 PROVE r[i].end = r[i + 1].start
  <2>1. i + 1 \in 1..Len(a) - 1 /\ i \in 1..Len(r) /\ i + 1 \in 1..Len(r)
    BY <1>1
  <2> QED
    BY <1>1, <1>2, <2>1
<1>4. a[Len(a)].end = c
  BY DEF Chained
<1>5. CASE r = <<>>
  <2>1. Len(a) = 1
    BY <1>1, <1>5
  <2> QED
    BY <1>3, <1>4, <1>5, <2>1 DEF Chained, r
<1>6. CASE r # <<>>
  <2>1. 1 \in 1..Len(r) /\ 1 \in 1..Len(a) - 1 /\ Len(r) \in 1..Len(r)
    BY <1>1, <1>6
  <2>2. r[1] = a[2] /\ r[Len(r)] = a[Len(a)]
    BY <1>1, <2>1
  <2>3. a[1].end = r[1].start + 0
    <3>1. r[1] \in Block
      BY <1>1, <2>1
    <3>2. r[1].start \in Int
      BY <3>1 DEF Block, Positions
    <3> QED
      BY <1>2, <2>1, <2>2, <3>2
  <2> QED
    BY <1>3, <1>4, <1>6, <2>2, <2>3 DEF Chained, r
<1> QED
  BY <1>5, <1>6

(* Copying a frame.                                                        *)
LEMMA Copying ==
  ASSUME TypeOK, NEW s \in Consumable
  PROVE  Copy(s) \in Consumable
<1>1. CASE s.queue = <<>>
  BY <1>1 DEF Copy
<1>2. CASE s.queue # <<>>
  <2> DEFINE q == s.queue
             b == Head(q)
             a == Behind(q)
  <2>1. /\ q \in Seq(Block) /\ q # <<>> /\ b \in Block /\ b = q[1]
        /\ s.offset < b.frames /\ b.frames > 0 /\ InFile(b)
        /\ Len(q) <= Len(queue) /\ Len(queue) <= Blocks /\ Len(q) \in Nat \ {0}
        /\ Len(queue) \in Nat /\ Blocks \in Nat
        /\ s.offset \in Nat /\ b.frames \in Nat /\ b.frames <= BlockFrames
        /\ BlockFrames \in Nat /\ Length \in Nat /\ b.start \in Nat
        /\ b.end \in Positions
    <3>1. /\ q \in Seq(Block) /\ q # <<>> /\ Len(q) <= Len(queue)
          /\ s.offset \in 0..BlockFrames /\ QueueSound(q, s.offset)
      BY <1>2 DEF Consumable
    <3>2. b = q[1] /\ b \in Block /\ Len(q) \in Nat \ {0}
      BY <3>1, TailFacts
    <3>3. queue \in Seq(Block) /\ Len(queue) \in Nat /\ Len(queue) <= Blocks
      BY DEF TypeOK
    <3>4. s.offset < q[1].frames /\ q[1].frames > 0 /\ InFile(q[1])
      BY <3>1, <3>2 DEF QueueSound
    <3>5. /\ q[1].frames \in 0..BlockFrames /\ q[1].start \in 0..Length
          /\ q[1].end \in Positions
      BY <3>2 DEF Block, Positions
    <3> HIDE DEF q, b
    <3> QED
      BY <3>1, <3>2, <3>3, <3>4, <3>5, FeedFacts
  <2>2. /\ a \in Seq(Block) /\ a # <<>> /\ a[1] = b
        /\ Tail(a) = Behind(Tail(q))
    <3>1. CASE worker = "decoded"
      <4>1. block \in Block
        BY DEF TypeOK
      <4>2. a = Append(q, block) /\ Behind(Tail(q)) = Append(Tail(q), block)
        BY <3>1 DEF Behind
      <4>3. Tail(Append(q, block)) = Append(Tail(q), block)
        BY <2>1, HeadTailAppend
      <4> HIDE DEF q, b, a
      <4>4. Append(q, block) \in Seq(Block) /\ Append(q, block)[1] = q[1]
        BY <2>1, <4>1
      <4>5. Append(q, block) # <<>>
        BY <2>1
      <4> QED
        BY <2>1, <4>2, <4>3, <4>4, <4>5
    <3>2. CASE worker # "decoded"
      BY <2>1, <3>2 DEF Behind
    <3> QED
      BY <3>1, <3>2
  <2>3. Chained(a, s.offset, s.position, codec)
    BY DEF Consumable
  <2>4. CASE s.offset + 1 = b.frames
    <3> DEFINE n == [queue |-> Tail(q), offset |-> 0, position |-> b.end]
    <3>1. Copy(s) = n
      BY <1>2, <2>4 DEF Copy
    <3>2. Chained(Behind(Tail(q)), 0, b.end, codec)
      BY <2>2, <2>3, ChainAdvances
    <3>3. QueueSound(Tail(q), 0) /\ Len(Tail(q)) <= Len(queue)
      <4> DEFINE r == Tail(q)
      <4>1. /\ r \in Seq(Block) /\ Len(r) = Len(q) - 1
            /\ \A i \in 1..Len(r) : r[i] = q[i + 1]
            /\ r # <<>> => Len(r) # 0
        BY <2>1, TailFacts, Zenon
      <4>2. \A i \in 1..Len(q) : q[i].frames > 0 /\ InFile(q[i])
        BY DEF Consumable, QueueSound
      <4> HIDE DEF r
      <4>3. ASSUME NEW i \in 1..Len(r) PROVE r[i].frames > 0 /\ InFile(r[i])
        <5>1. i + 1 \in 1..Len(q)
          BY <2>1, <4>1
        <5> QED
          BY <4>1, <4>2, <5>1
      <4>4. r # <<>> => r[1].frames > 0
        <5>1. r # <<>> => 1 \in 1..Len(r)
          BY <2>1, <4>1
        <5> QED
          BY <4>3, <5>1
      <4>5. Len(r) <= Blocks /\ Len(r) <= Len(queue) /\ 0 \in 0..BlockFrames
        BY <2>1, <4>1
      <4>6. IF r = <<>> THEN 0 = 0 ELSE 0 < r[1].frames
        BY <4>4
      <4>7. QueueSound(r, 0)
        BY <4>1, <4>3, <4>5, <4>6 DEF QueueSound
      <4> QED
        BY <4>5, <4>7 DEF r
    <3>4. n \in [queue : Seq(Block), offset : 0..BlockFrames, position : Positions]
      BY <2>1, <3>3 DEF QueueSound
    <3>5. n.queue = Tail(q) /\ n.offset = 0 /\ n.position = b.end
      OBVIOUS
    <3> HIDE DEF n, q, b
    <3> QED
      BY <3>1, <3>2, <3>3, <3>4, <3>5 DEF Consumable
  <2>5. CASE s.offset + 1 # b.frames
    <3> DEFINE n == [queue |-> q, offset |-> s.offset + 1,
                     position |-> b.start + s.offset + 1]
    <3>1. Copy(s) = n
      <4>1. Copy(s) = [s EXCEPT !.offset = @ + 1, !.position = b.start + s.offset + 1]
        BY <1>2, <2>5 DEF Copy
      <4> QED
        BY <4>1 DEF Consumable
    <3>2. /\ s.offset + 1 < b.frames /\ s.offset + 1 \in 0..BlockFrames
          /\ b.start + s.offset + 1 = b.start + (s.offset + 1)
          /\ b.start + s.offset + 1 \in Positions
      <4>1. b.frames = 1 \/ b.start + b.frames <= Length
        BY <2>1 DEF InFile
      <4>2. \A o, f, start \in Nat :
              o < f /\ o + 1 # f /\ f <= BlockFrames /\ (f = 1 \/ start + f <= Length)
                => /\ o + 1 < f /\ o + 1 \in 0..BlockFrames
                   /\ start + o + 1 = start + (o + 1) /\ start + o + 1 \in Positions
        BY FeedFacts DEF Positions
      <4> HIDE DEF b
      <4> QED
        BY <2>1, <2>5, <4>1, <4>2
    <3>3. Chained(a, s.offset + 1, b.start + s.offset + 1, codec)
      BY <2>2, <2>3, <3>2 DEF Chained
    <3>4. QueueSound(q, s.offset + 1)
      BY <2>1, <3>2 DEF Consumable, QueueSound
    <3>5. n \in [queue : Seq(Block), offset : 0..BlockFrames, position : Positions]
      BY <2>1, <3>2
    <3>6. n.queue = q /\ n.offset = s.offset + 1 /\ n.position = b.start + s.offset + 1
      OBVIOUS
    <3> HIDE DEF n, b
    <3> QED
      BY <2>1, <3>1, <3>3, <3>4, <3>5, <3>6 DEF Consumable
  <2> QED
    BY <2>4, <2>5
<1> QED
  BY <1>1, <1>2

(* The states the mixer goes through while it copies n frames from s on.   *)
Copies(n, s, g) ==
  g = [k \in 0..n |-> IF k = 0 THEN s ELSE Copy(g[k - 1])]

LEMMA CopiesExist ==
  ASSUME TypeOK, NEW n \in Nat, NEW s \in Consumable
  PROVE  \E g : Copies(n, s, g) /\ g[n] \in Consumable
<1> DEFINE next == [r \in Consumable |-> Copy(r)]
<1>1. next \in [Consumable -> Consumable] /\ \A r \in Consumable : next[r] = Copy(r)
  BY Copying
<1> HIDE DEF next
<1>2. PICK g \in [0..n -> Consumable] : Iteration(n, s, next, g)
  BY <1>1, Iterates
<1>3. \A k \in 0..n : g[k] = IF k = 0 THEN s ELSE next[g[k - 1]]
  BY <1>2 DEF Iteration
<1>4. \A k \in 0..n : g[k] = IF k = 0 THEN s ELSE Copy(g[k - 1])
  <2>1. \A k \in 0..n : k # 0 => k - 1 \in 0..n
    OBVIOUS
  <2>2. \A k \in 0..n : g[k] \in Consumable
    BY <1>2
  <2> QED
    BY <1>1, <1>3, <2>1, <2>2
<1>5. g = [k \in 0..n |-> g[k]]
  BY <1>2
<1>6. g = [k \in 0..n |-> IF k = 0 THEN s ELSE Copy(g[k - 1])]
  BY <1>4, <1>5
<1>7. g[n] \in Consumable
  BY <1>2
<1> QED
  BY <1>6, <1>7 DEF Copies

LEMMA ReadStep ==
  ASSUME IInv, NEW n \in 1..MaxRead, Read(n)
  PROVE  IInv'
<1> USE DEF decoder, jobs, guest
<1> DEFINE now == [queue |-> queue, offset |-> offset, position |-> position]
           after == CHOOSE g : Copies(n, now, g)
<1>1. /\ TypeOK /\ Owned /\ Commanded /\ Ordered
      /\ track = "channel" /\ ~seeking /\ active' = TRUE
      /\ SignalWork \/ UNCHANGED worker
      /\ playing' \in BOOLEAN
      /\ UNCHANGED <<decoder, running, command, seeking, result, loop, next_loop,
                     target, eof, refs, control, jobs, guest, track, asked>>
  BY DEF Read, Consumed, IInv
<1>2. running /\ worker # "none"
  BY <1>1 DEF Owned
<1>3. now \in Consumable
  <2>1. Behind(queue) = Ahead
    BY DEF Behind, Ahead
  <2>2. Chained(Ahead, offset, position, codec) /\ QueueSound(queue, offset)
    BY <1>1, <1>2 DEF Ordered
  <2>3. now \in [queue : Seq(Block), offset : 0..BlockFrames, position : Positions]
    BY <1>1 DEF TypeOK
  <2>4. now.queue = queue /\ now.offset = offset /\ now.position = position
    OBVIOUS
  <2>5. Len(queue) <= Len(queue)
    BY <1>1 DEF TypeOK
  <2> HIDE DEF now
  <2> QED
    BY <2>1, <2>2, <2>3, <2>4, <2>5 DEF Consumable
<1>4. Copies(n, now, after) /\ after[n] \in Consumable
  <2>1. n \in Nat
    BY FeedFacts
  <2>2. PICK g : Copies(n, now, g) /\ g[n] \in Consumable
    BY <1>1, <1>3, <2>1, CopiesExist
  <2>3. Copies(n, now, after)
    BY <2>2
  <2>4. \A h : Copies(n, now, h) => h[n] \in Consumable
    <3>1. ASSUME NEW h, Copies(n, now, h) PROVE h[n] = g[n]
      <4>1. \A k \in 0..n : k \in {j \in 0..n : h[j] = g[j]}
        <5> DEFINE Same == {j \in 0..n : h[j] = g[j]}
        <5>1. 0 \in Same
          BY <2>1, <2>2, <3>1 DEF Copies
        <5>2. ASSUME NEW i \in 0..n - 1, i \in Same PROVE i + 1 \in Same
          <6>1. i + 1 \in 0..n /\ i + 1 # 0 /\ i + 1 - 1 = i
            BY <2>1
          <6>2. h[i + 1] = Copy(h[i]) /\ g[i + 1] = Copy(g[i])
            BY <2>2, <3>1, <6>1 DEF Copies
          <6> QED
            BY <5>2, <6>1, <6>2
        <5> HIDE DEF Same
        <5>3. \A i \in 0..n : i \in Same
          BY <2>1, <5>1, <5>2, SetInduction
        <5> QED
          BY <5>3 DEF Same
      <4> QED
        BY <2>1, <4>1
    <3> QED
      BY <2>2, <3>1
  <2> QED
    BY <2>3, <2>4
<1>5. queue' = after[n].queue /\ offset' = after[n].offset /\ position' = after[n].position
  BY Zenon DEF Read, Copies
<1> HIDE DEF now, after
<1>6. /\ queue' \in Seq(Block) /\ offset' \in 0..BlockFrames /\ position' \in Positions
      /\ QueueSound(queue', offset')
      /\ Chained(Behind(queue'), offset', position', codec)
      /\ Len(queue') <= Len(queue)
  BY <1>4, <1>5 DEF Consumable
<1>7. /\ worker' = worker \/ (worker \in Resting /\ worker' \in Resting)
      /\ worker' = "none" <=> worker = "none"
      /\ worker' = "decoded" <=> worker = "decoded"
      /\ worker' \in {"none", "top", "asleep", "seek", "open", "moving", "checking",
                      "decoded", "primed", "exited"}
  BY <1>1, Signalled
<1>8. TypeOK'
  <2>1. {failed, running, active, seeking, result, loop, next_loop, eof, playing}'
          \subseteq BOOLEAN
    BY <1>1 DEF TypeOK
  <2>2. Len(queue') <= Blocks
    BY <1>6 DEF QueueSound
  <2> QED
    BY <1>1, <1>6, <1>7, <2>1, <2>2 DEF TypeOK
<1>9. Owned'
  BY <1>1, <1>7, OwnedKept DEF Opening
<1>10. Commanded'
  <2>1. /\ command = "wait" /\ priming = 0
        /\ worker \notin {"seek", "open", "moving", "primed"}
    BY <1>1, IdleFacts
  <2> QED
    BY <1>1, <1>7, <2>1, CommandedIdle DEF Commanded, Resting, Awaiting
<1>11. Ordered'
  <2>1. Ahead' = Behind(queue')
    BY <1>1, <1>7 DEF Ahead, Behind
  <2>2. QueueSound(queue, offset)' /\ InFile(block)' = InFile(block)
    BY <1>1, <1>6 DEF QueueSound, InFile
  <2>3. worker = "decoded" => Len(queue') < Blocks
    <3>1. queue \in Seq(Block) /\ Len(queue) \in Nat /\ Len(queue') \in Nat
      BY <1>1, <1>6 DEF TypeOK
    <3> QED
      BY <1>1, <1>6, <3>1, FeedFacts DEF Ordered
  <2>4. Chained(Ahead, offset, position, codec)'
    BY <1>1, <1>6, <2>1 DEF Chained
  <2> QED
    BY <1>1, <1>2, <1>7, <2>2, <2>3, <2>4 DEF Ordered
<1> QED
  BY <1>8, <1>9, <1>10, <1>11 DEF IInv

-----------------------------------------------------------------------------
(* The invariant. *)

LEMMA InitIInv ==
  ASSUME Init
  PROVE  IInv
<1>1. TypeOK
  <2>1. /\ 0 \in Positions /\ 0 \in Targets /\ 0 \in 0..BlockFrames /\ 0 \in 0..Prime
        /\ NoBlock \in Block /\ Outcome(FALSE) \in Local
        /\ <<>> \in Seq(Block) /\ Len(<<>>) <= Blocks
    BY FeedFacts DEF Positions, Targets, NoBlock, Block, Outcome, Local
  <2>2. {failed, running, active, seeking, result, loop, next_loop, eof, playing}
          \subseteq BOOLEAN
    BY DEF Init
  <2> QED
    BY <2>1, <2>2 DEF Init, TypeOK, Stages, Ops
<1>2. Owned
  <2>1. Holders = {} /\ Cardinality(Holders) = 0
    <3>1. Holders = {}
      BY DEF Init, Holders
    <3> QED
      BY <3>1, FS_EmptySet
  <2> QED
    BY <2>1 DEF Init, Owned, Opening
<1>3. Commanded
  BY FeedFacts DEF Init, Commanded
<1>4. Ordered
  BY FeedFacts DEF Init, Ordered, QueueSound
<1> QED
  BY <1>1, <1>2, <1>3, <1>4 DEF IInv

LEMMA GuestStep ==
  ASSUME IInv, NEW t \in Threads, Guest(t)
  PROVE  IInv'
BY RetainStep, MoveStep, ReopenStep, WakeStep, SpuriousReadyStep, CommitStep, CreateStep,
   LoadStep, DetachStep, ParkStep, TakeIdleStep, CloseStep, StopStep, JoinStep DEF Guest

LEMMA NextIInv ==
  ASSUME IInv, [Next]_vars
  PROVE  IInv'
<1>1. CASE Worker \/ SpuriousWork
  BY <1>1, WorkerTopStep, FillStartStep, FillEndStep, OpenStep, SeekStartStep,
     SeekEndStep, AnswerStep DEF Worker
<1>2. CASE \E n \in 1..MaxRead : Read(n)
  BY <1>2, ReadStep
<1>3. CASE \E t \in Threads : Guest(t)
  BY <1>3, GuestStep
<1>4. CASE UNCHANGED vars
  <2> USE <1>4 DEF vars
  <2>1. TypeOK'
    BY DEF IInv, TypeOK
  <2>2. Owned'
    BY OwnedKept DEF IInv, Opening
  <2>3. Commanded'
    BY CommandedKept DEF IInv, Awaiting
  <2>4. Ordered'
    BY OrderedKept DEF IInv
  <2> QED
    BY <2>1, <2>2, <2>3, <2>4 DEF IInv
<1> QED
  BY <1>1, <1>2, <1>3, <1>4 DEF Next

LEMMA SpecIInv == Spec => []IInv
BY InitIInv, NextIInv, PTL DEF Spec

-----------------------------------------------------------------------------
(* The references are exact: refs counts the channel or the parking place  *)
(* and every thread inside a call, whatever threads there are, so          *)
(* audio_feed_close stops the worker and frees the feed exactly once, when *)
(* nobody is left, and a parked feed has one owner.                        *)
THEOREM ReferencesStayExact == Spec => []RefsExact
<1>1. IInv => RefsExact
  <2> SUFFICES ASSUME IInv PROVE RefsExact
    OBVIOUS
  <2>1. TypeOK /\ Owned
    BY DEF IInv
  <2>2. Holders \in SUBSET Threads
    BY DEF Holders
  <2>3. Cardinality(Holders) \in Nat /\ (Cardinality(Holders) = 0 <=> Holders = {})
    BY <2>2, FeedFacts, CountEmpty
  <2>4. worker = "none" => refs = 0
    <3>1. worker = "none" => track = "none" /\ Holders = {}
      BY <2>1 DEF Owned, Holders
    <3> QED
      BY <2>1, <2>3, <3>1 DEF Owned
  <2>5. refs > 0 => running
    <3>1. ~running => worker = "none" \/ \E t \in Threads : stage[t] = "joining"
      BY <2>1 DEF Owned
    <3>2. \A t \in Threads : stage[t] = "joining" => track = "none" /\ Holders = {}
      BY <2>1 DEF Owned, Holders
    <3> QED
      BY <2>1, <2>3, <2>4, <3>1, <3>2 DEF Owned
  <2> QED
    BY <2>1, <2>4, <2>5 DEF Owned, RefsExact
<1> QED
  BY <1>1, SpecIInv, PTL

(* The game hears the file in order: while no command is under way the     *)
(* queue continues from the position the game reads, each block from the   *)
(* one before, and the codec from the last, however reads, fills, commands *)
(* and closings interleave.                                                *)
THEOREM TracksPlayInOrder == Spec => []PlaysInOrder
<1>1. IInv => PlaysInOrder
  BY DEF IInv, Ordered, Chained, QueueSound, PlaysInOrder
<1> QED
  BY <1>1, SpecIInv, PTL

(* The worker leaves the end of __prime by its answer alone.               *)
LEMMA OnlyAnswers ==
  ASSUME IInv, [Next]_vars, Answered
  PROVE  Answer
<1>1. worker = "primed" /\ worker' = "top" /\ TypeOK
  BY DEF Answered, IInv
<1>2. ~(SignalWork \/ UNCHANGED worker)
  BY <1>1 DEF SignalWork
<1>3. ASSUME NEW n \in 1..MaxRead, Read(n) PROVE FALSE
  BY <1>2, <1>3 DEF Read, Consumed
<1>4. ASSUME NEW t \in Threads, Guest(t) PROVE FALSE
  <2>1. ASSUME NEW p \in Targets, NEW l \in BOOLEAN, Move(t, p, l) PROVE FALSE
    BY <1>2, <2>1 DEF Move, Finish, Command
  <2>2. ~Reopen(t) /\ ~Wake(t)
    BY <1>2 DEF Reopen, Wake, Finish, Command
  <2>3. ~(\E o \in {"seek", "start"} : Retain(t, o))
    BY <1>2 DEF Retain
  <2>4. ~SpuriousReady(t) /\ ~Commit(t) /\ ~Load(t) /\ ~Detach(t) /\ ~Park(t)
    BY <1>2 DEF SpuriousReady, Commit, Load, Detach, Park
  <2>5. ~TakeIdle(t) /\ ~Close(t) /\ ~Stop(t)
    BY <1>2 DEF TakeIdle, Close, Stop
  <2>6. ~Create(t) /\ ~Join(t)
    BY <1>1 DEF Create, Join
  <2> QED
    BY <1>4, <2>1, <2>2, <2>3, <2>4, <2>5, <2>6 DEF Guest
<1>5. ~SpuriousWork /\ ~UNCHANGED vars
  BY <1>1 DEF SpuriousWork, vars
<1>6. ~WorkerTop /\ ~FillStart /\ ~FillEnd /\ ~Open /\ ~SeekStart /\ ~SeekEnd
  BY <1>1 DEF WorkerTop, FillStart, FillEnd, Open, SeekStart, SeekEnd
<1> QED
  BY <1>3, <1>4, <1>5, <1>6 DEF Next, Worker

(* A seek, a start or a reopening happens as a whole: by the time its      *)
(* caller is answered the consumer is at the target with the new loop      *)
(* mode, at the end for a target behind it (at the start of the new file), *)
(* or where it was with the old mode.                                      *)
THEOREM SeeksHappenAsAWhole == Spec => SeekIsAtomic
<1>1. ASSUME IInv, [Next]_vars, Answered
      PROVE  IF ~result' THEN failed \/ <<position, loop>> = asked
             ELSE IF op[control] = "reopen" THEN position = 0 /\ ~loop
             ELSE position = Clamped(target) /\ loop = next_loop
  <2>1. Answer
    BY <1>1, OnlyAnswers
  <2>2. result' = local.result
    BY <2>1 DEF Answer
  <2>3. Settled
    BY <1>1 DEF Answered, IInv, Commanded
  <2> QED
    BY <2>2, <2>3 DEF Settled
<1>2. IInv /\ [Next]_vars
        => [Answered =>
              IF ~result' THEN failed \/ <<position, loop>> = asked
              ELSE IF op[control] = "reopen" THEN position = 0 /\ ~loop
              ELSE position = Clamped(target) /\ loop = next_loop]_vars
  BY <1>1
<1> QED
  BY <1>2, SpecIInv, PTL DEF Spec, SeekIsAtomic
=============================================================================
