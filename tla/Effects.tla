------------------------------- MODULE Effects -------------------------------
(***************************************************************************)
(* Sound effects (bridges/audio/sfx.c) and their part of the mixer         *)
(* (mixer.c): the table of loaded samples, the voices that play them, and  *)
(* the events the game schedules along the main track (bgm.c).  Samples    *)
(* are read from files with the mixer unlocked, and a caller looks its     *)
(* sample up again afterwards; in between any thread may unload it.        *)
(*                                                                         *)
(* The mixer looks at the position of the main track, starts what is due   *)
(* by the end of the block, and then reads the track.  It has its mutex    *)
(* all the while, which keeps other threads out of the mixer; it does not  *)
(* keep the worker of the feed from moving the track for a seek, nor does  *)
(* the read always get the whole block (AudioFeed says when).              *)
(*                                                                         *)
(* A sample is Length frames long; its content, the gains and the place of *)
(* a looping voice in its sample are left out.  Handles count from 1; the  *)
(* return of the counter to 1 after INT_MAX is beyond the bounds.          *)
(***************************************************************************)
EXTENDS Naturals, Sequences, FiniteSets
LOCAL INSTANCE SequencesExt
LOCAL INSTANCE FiniteSetsExt

CONSTANTS
  Threads, Paths,
  Calls,      \* what is done with samples: "none" (only loaded), "play", "schedule"
  Slots,      \* VITA_AUDIO_MAX_SFX
  Voices,     \* VITA_AUDIO_MAX_VOICES
  Length,     \* frames of every sample
  Grain,      \* VITA_AUDIO_GRAIN
  EventLimit, \* events there is room for
  MaxSerial,  \* bound: sounds started
  MaxFrame    \* bound: frames of the main track; 0 for none

VARIABLES
  assets,     \* assets[s]: the path loaded in slot s, and its last handle
  mixer,      \* voices, the next handle, and whether a block is being mixed, for a
              \* track that was then at `from`
  events,     \* what is scheduled, by frame
  cursor,     \* event_next
  track,      \* the main track as the mixer sees it
  call        \* call[t]: the call a thread is inside

vars == <<assets, mixer, events, cursor, track, call>>

Free == [path |-> "free", last |-> 0]
Silent == [active |-> FALSE, asset |-> 0, handle |-> 0, loop |-> FALSE,
           left |-> 0, delay |-> 0, path |-> "free"]
NoCall == [at |-> "idle", path |-> "free", do |-> "none"]
NewTrack == [playing |-> FALSE, paused |-> FALSE, position |-> 0, delay |-> 0]

Init ==
  /\ assets = [s \in 1..Slots |-> Free]
  /\ mixer = [voices |-> [v \in 1..Voices |-> Silent], serial |-> 1,
               mixing |-> FALSE, from |-> 0]
  /\ events = <<>>
  /\ cursor = 1
  /\ track = NewTrack
  /\ call = [t \in Threads |-> NoCall]

\* find_sfx and find_free_sfx; 0 if there is none.
Least(S) == IF S = {} THEN 0 ELSE Min(S)
Find(path) == Least({s \in 1..Slots : assets[s].path = path})
FindFree == Least({s \in 1..Slots : assets[s] = Free})

\* vita_audio_preload_sfx, up to the reading of the file, on its own or as the
\* first half of playing or scheduling.
Preload(t, path, do) ==
  /\ call[t] = NoCall
  /\ \/ Find(path) # 0
        /\ call' = [call EXCEPT ![t] = [at |-> "loaded", path |-> path, do |-> do]]
     \/ Find(path) = 0 /\ FindFree # 0
        /\ call' = [call EXCEPT ![t] = [at |-> "loading", path |-> path, do |-> do]]
  /\ UNCHANGED <<assets, mixer, events, cursor, track>>

\* Its second half: another thread may have loaded the sample, or taken the last
\* slot, meanwhile.
Store(t) ==
  /\ call[t].at = "loading"
  /\ IF Find(call[t].path) # 0
       THEN UNCHANGED assets /\ call' = [call EXCEPT ![t].at = "loaded"]
     ELSE IF FindFree = 0
       THEN UNCHANGED assets /\ call' = [call EXCEPT ![t] = NoCall]
     ELSE /\ assets' = [assets EXCEPT ![FindFree] = [path |-> call[t].path, last |-> 0]]
          /\ call' = [call EXCEPT ![t].at = "loaded"]
  /\ UNCHANGED <<mixer, events, cursor, track>>

\* The file cannot be read, or there was no memory.
LoadFails(t) ==
  /\ call[t].at = "loading"
  /\ call' = [call EXCEPT ![t] = NoCall]
  /\ UNCHANGED <<assets, mixer, events, cursor, track>>

PreloadDone(t) ==
  /\ call[t].at = "loaded" /\ call[t].do = "none"
  /\ call' = [call EXCEPT ![t] = NoCall]
  /\ UNCHANGED <<assets, mixer, events, cursor, track>>

\* audio_sfx_start: an idle voice, or else the first one whatever it plays.  A
\* sample that was unloaded meanwhile still costs a voice and a handle.
Voice(m) == LET idle == {v \in 1..Voices : ~m.voices[v].active} IN IF idle = {} THEN 1 ELSE Min(idle)
Sound(m, asset, path, loop, delay) ==
  [m EXCEPT !.serial = @ + 1,
            !.voices[Voice(m)] =
     [active |-> asset # 0, asset |-> asset, handle |-> m.serial, loop |-> loop,
      left |-> IF asset = 0 THEN 0 ELSE Length, delay |-> delay,
      path |-> IF asset = 0 THEN "free" ELSE path]]

\* __play, after the sample was preloaded.
Play(t, loop) ==
  LET asset == Find(call[t].path) IN
  /\ call[t].at = "loaded" /\ call[t].do = "play"
  /\ mixer.serial < MaxSerial
  /\ mixer' = Sound(mixer, asset, call[t].path, loop, 0)
  /\ assets' = IF asset = 0 THEN assets ELSE [assets EXCEPT ![asset].last = mixer.serial]
  /\ call' = [call EXCEPT ![t] = NoCall]
  /\ UNCHANGED <<events, cursor, track>>

-----------------------------------------------------------------------------
\* vita_audio_schedule_sfx, after the sample was preloaded: the event goes after
\* all those of the same frame, and the cursor back to it if it is behind.
Place(frame) == 1 + Cardinality({k \in DOMAIN events : events[k].frame <= frame})
\* Mutant: an event behind the cursor stays behind it.
Forward(at) == cursor
Rewound(at) == IF at < cursor THEN at ELSE cursor
Schedule(t, frame) ==
  LET asset == Find(call[t].path)
      at == Place(frame)
      event == [asset |-> asset, path |-> call[t].path, frame |-> frame, played |-> FALSE, times |-> 0]
  IN
  /\ call[t].at = "loaded" /\ call[t].do = "schedule"
  /\ call' = [call EXCEPT ![t] = NoCall]
  /\ IF asset = 0 \/ Len(events) = EventLimit
       THEN UNCHANGED <<events, cursor>>
       ELSE /\ events' = InsertAt(events, at, event)
            /\ cursor' = Rewound(at)
  /\ UNCHANGED <<assets, mixer, track>>

\* vita_audio_unload_sfx: what is scheduled of the sample is over, and the voices
\* that have it are cleared before it is freed.
Unload(path) ==
  LET asset == Find(path) IN
  /\ asset # 0
  /\ events' = [k \in DOMAIN events |->
                  IF events[k].asset = asset THEN [events[k] EXCEPT !.played = TRUE] ELSE events[k]]
  /\ mixer' = [mixer EXCEPT !.voices =
                 [v \in 1..Voices |-> IF @[v].asset = asset THEN Silent ELSE @[v]]]
  /\ assets' = [assets EXCEPT ![asset] = Free]
  /\ UNCHANGED <<cursor, track, call>>

\* vita_audio_stop_sfx: the sound with this handle, while it plays.
Stop(handle) ==
  LET v == Least({v \in 1..Voices : mixer.voices[v].active /\ mixer.voices[v].handle = handle}) IN
  /\ v # 0
  /\ mixer' = [mixer EXCEPT !.voices[v] = Silent]
  /\ UNCHANGED <<assets, events, cursor, track, call>>

\* vita_audio_stop_sfx_path: the sound of this sample that was started last.
StopPath(path) ==
  LET asset == Find(path)
      v == Least({v \in 1..Voices : /\ mixer.voices[v].asset = asset
                                    /\ mixer.voices[v].handle = assets[asset].last})
  IN
  /\ asset # 0 /\ v # 0
  /\ mixer' = [mixer EXCEPT !.voices[v].active = FALSE]
  /\ UNCHANGED <<assets, events, cursor, track, call>>

-----------------------------------------------------------------------------
\* A main track is loaded or unloaded, which forgets the events.  A thread that
\* is seeking goes on with a feed the mixer does not have any more.
LoadTrack ==
  /\ track' = NewTrack
  /\ events' = <<>> /\ cursor' = 1
  /\ call' = [t \in Threads |-> IF call[t].at \in {"idle", "loading", "loaded"} THEN call[t] ELSE NoCall]
  /\ UNCHANGED <<assets, mixer>>

\* vita_audio_seek_bgm and vita_audio_play_bgm: the feed is retained, ...
Retain(t, do) ==
  /\ MaxFrame > 0
  /\ call[t] = NoCall
  /\ call' = [call EXCEPT ![t] = [at |-> "retained", path |-> "free", do |-> do]]
  /\ UNCHANGED <<assets, mixer, events, cursor, track>>

\* ... a command is left for its worker (one at a time), unless the track is in the
\* right place already; ...
Moving == {t \in Threads : call[t].at \in {"moving", "landed", "lost"}}
Command(t) ==
  /\ call[t].at = "retained"
  /\ Moving = {}
  /\ \E at \in {"moving", "answered"} : call' = [call EXCEPT ![t].at = at]
  /\ UNCHANGED <<assets, mixer, events, cursor, track>>

\* ... the worker moves the track, to wherever the game asked or, when it fails, to
\* where it was or anywhere; to play, it is asked for where it is; ...
Land(t) ==
  /\ call[t].at = "moving"
  /\ \E position \in 0..MaxFrame, at \in {"landed", "lost"} :
       /\ call[t].do = "play" /\ at = "landed" => position = track.position
       /\ track' = [track EXCEPT !.position = position]
       /\ call' = [call EXCEPT ![t].at = at]
  /\ UNCHANGED <<assets, mixer, events, cursor>>

\* ... answers, when it has decoded again; ...
Answer(t) ==
  /\ call[t].at \in {"landed", "lost"}
  /\ call' = [call EXCEPT ![t] = IF @.at = "landed" THEN [@ EXCEPT !.at = "answered"] ELSE NoCall]
  /\ UNCHANGED <<assets, mixer, events, cursor, track>>

\* ... and the caller commits: a seek ends the delay, playing sets one.
Commit(t) ==
  /\ call[t].at = "answered"
  /\ IF call[t].do = "seek" THEN track' = [track EXCEPT !.delay = 0]
     ELSE \E delay \in {0, Grain + 1} :
       track' = [track EXCEPT !.playing = TRUE, !.paused = FALSE, !.delay = delay]
  /\ call' = [call EXCEPT ![t] = NoCall]
  /\ UNCHANGED <<assets, mixer, events, cursor>>

\* vita_audio_set_bgm_paused.
Pause ==
  /\ MaxFrame > 0
  /\ track' = [track EXCEPT !.paused = ~@]
  /\ UNCHANGED <<assets, mixer, events, cursor, call>>

\* __schedule: the events from the cursor on that fall into this block, from the
\* position of the track or before it.
Running == track.playing /\ ~track.paused /\ track.delay < Grain
End == track.position + Grain - track.delay
Due == {k \in cursor..Len(events) : Running /\ events[k].frame < End}
DuePlays == SetToSortSeq({k \in Due : ~events[k].played}, <)
DelayOf(event) ==
  track.delay + (IF event.frame > track.position THEN event.frame - track.position ELSE 0)
StartEvent(m, k) == Sound(m, events[k].asset, events[k].path, FALSE, DelayOf(events[k]))
Started == FoldLeft(StartEvent, mixer, DuePlays)

\* The cursor passes over everything played, up to the first event to come.
CursorAfter ==
  LET later == {k \in cursor..Len(events) : ~events[k].played /\ k \notin Due} IN
  IF ~Running THEN cursor ELSE IF later = {} THEN Len(events) + 1 ELSE Min(later)

\* vita_audio_render takes the mutex and schedules, unless output is suspended; ...
Look ==
  /\ mixer.serial + Len(DuePlays) <= MaxSerial
  /\ mixer' = [Started EXCEPT !.mixing = TRUE, !.from = track.position]
  /\ events' = [k \in DOMAIN events |->
       IF k \in Due THEN [events[k] EXCEPT !.played = TRUE, !.times = IF events[k].played THEN @ ELSE @ + 1]
       ELSE events[k]]
  /\ assets' = [s \in 1..Slots |->
       LET mine == {j \in DOMAIN DuePlays : events[DuePlays[j]].asset = s} IN
       IF mine = {} THEN assets[s] ELSE [assets[s] EXCEPT !.last = mixer.serial + Max(mine) - 1]]
  /\ cursor' = CursorAfter
  /\ UNCHANGED <<track, call>>

\* mix_sfx: a voice waits for its delay, then plays until its sample is over.
Mixed(voice) ==
  LET waits == Min({voice.delay, Grain})
      plays == Grain - waits
  IN IF ~voice.active THEN voice
     ELSE IF voice.loop \/ plays <= voice.left
       THEN [voice EXCEPT !.delay = @ - waits, !.left = IF voice.loop THEN @ ELSE @ - plays]
     ELSE [voice EXCEPT !.active = FALSE, !.delay = @ - waits, !.left = 0]

\* mix_bgm and audio_feed_read: nothing while the worker is at a seek, or else as
\* much as is decoded, over the end to the start when the track loops; the track
\* may end with it.
Mutes == Moving # {}
ReadTrack ==
  IF ~Running THEN track' = [track EXCEPT !.delay =
                     IF @ >= Grain /\ track.playing /\ ~track.paused THEN @ - Grain ELSE @]
  ELSE \E count \in 0..Grain - track.delay, ended \in BOOLEAN, position \in 0..MaxFrame :
    /\ Mutes => count = 0 /\ ~ended
    /\ position = track.position + count \/ position = track.position + count - MaxFrame
    /\ track' = [track EXCEPT !.playing = ~ended, !.delay = 0, !.position = position]

\* ... then it reads the track and adds the voices.
Consume ==
  /\ mixer' = [mixer EXCEPT !.voices = [v \in 1..Voices |-> Mixed(@[v])], !.mixing = FALSE, !.from = 0]
  /\ ReadTrack
  /\ UNCHANGED <<assets, events, cursor, call>>

\* What takes the mutex of the mixer, ...
Locked ==
  \/ \E t \in Threads, p \in Paths, do \in Calls : Preload(t, p, do)
  \/ \E t \in Threads : Store(t) \/ Commit(t) \/ (\E do \in {"seek", "play"} : Retain(t, do))
  \/ \E t \in Threads : (\E loop \in BOOLEAN : Play(t, loop)) \/ (\E f \in {0, 1, MaxFrame - 1} : Schedule(t, f))
  \/ \E p \in Paths : Unload(p) \/ StopPath(p)
  \/ \E h \in 1..MaxSerial : Stop(h)
  \/ LoadTrack \/ Pause \/ Look

\* ... and what does not, or has it.
Next ==
  \/ ~mixer.mixing /\ Locked
  \/ mixer.mixing /\ Consume
  \/ \E t \in Threads : LoadFails(t) \/ PreloadDone(t) \/ Command(t) \/ Land(t) \/ Answer(t)

Spec == Init /\ [][Next]_vars

-----------------------------------------------------------------------------
\* A sample is loaded once however many threads asked for it, and a voice or an
\* event that may still play has the very sample it was started with: neither a
\* freed one nor another that was loaded into the same slot.
SoundsHaveSamples ==
  /\ \A r, s \in 1..Slots : r # s /\ assets[r].path = assets[s].path => assets[r] = Free
  /\ \A v \in 1..Voices : LET voice == mixer.voices[v] IN
       /\ voice.active => voice.asset # 0
       /\ voice.asset # 0 => assets[voice.asset].path = voice.path
  /\ \A k \in DOMAIN events : ~events[k].played => assets[events[k].asset].path = events[k].path

\* Events lie in order, nothing before the cursor is still to be played, no
\* event has been played twice.  When the mixer has looked, nothing before the
\* end of the block is still to be played, although events may be scheduled
\* behind the cursor and the track may have been moved; and when it has read,
\* none is overdue, unless the worker moved the track in between.
EventsPlay ==
  /\ \A k \in DOMAIN events' : events'[k].times <= 1
  /\ \A k \in 1..cursor' - 1 : events'[k].played
  /\ \A k \in 1..Len(events') - 1 : events'[k].frame <= events'[k + 1].frame
  /\ ~mixer.mixing /\ mixer'.mixing /\ Running =>
       \A k \in DOMAIN events' : events'[k].frame < End => events'[k].played
  /\ mixer.mixing /\ ~mixer'.mixing /\ Running /\ track.position = mixer.from =>
       \A k \in DOMAIN events' : events'[k].frame < track'.position => events'[k].played
EventsPlayOnce == [][EventsPlay]_vars
=============================================================================
