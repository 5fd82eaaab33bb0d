-------------------------------- MODULE Tracks --------------------------------
(***************************************************************************)
(* The background tracks and who owns their feeds: bridges/audio/bgm.c,    *)
(* with the audio state made and freed by backend.c for the provider of    *)
(* provider.c.  Files are opened, feeds parked, started and closed with    *)
(* the mixer unlocked, by any number of threads at once; only references   *)
(* keep a feed.  AudioFeed has what happens inside one feed.               *)
(***************************************************************************)
EXTENDS Naturals, FiniteSets
Sets == INSTANCE FiniteSetsExt

CONSTANTS
  Threads, Channels, Feeds, NoFeed,
  Loops  \* the loop flags tracks are played with

VARIABLES
  refs,     \* refs[f]: the references to a feed; 0 when it is freed
  channel,  \* channel[c]: the track's feed, loop flag and whether it plays
  idle,     \* the parked feed, kept for the next track
  call,     \* call[t]: the call a thread is inside, and the feeds it has
  provider  \* "none", "ready" or "gone"

vars == <<refs, channel, idle, call, provider>>

NoTrack == [feed |-> NoFeed, loop |-> FALSE, playing |-> FALSE]
NoCall == [at |-> "idle", channel |-> 0, feed |-> NoFeed, loop |-> FALSE]

\* audio_provider_init makes the state at its first call.
Init ==
  /\ refs = [f \in Feeds |-> 0]
  /\ channel = [c \in Channels |-> NoTrack]
  /\ idle = NoFeed
  /\ call = [t \in Threads |-> NoCall]
  /\ provider = "none"

Create ==
  /\ provider = "none"
  /\ provider' = "ready"
  /\ UNCHANGED <<refs, channel, idle, call>>

Become(t, record) == call' = [call EXCEPT ![t] = record]
Closed(f) == IF f = NoFeed THEN refs ELSE [refs EXCEPT ![f] = @ - 1]

\* __open, first half: the parked feed is taken, if there is one.
OpenBegin(t, c) ==
  /\ provider = "ready" /\ call[t] = NoCall
  /\ Become(t, [NoCall EXCEPT !.at = "open", !.channel = c, !.feed = idle])
  /\ idle' = NoFeed
  /\ UNCHANGED <<refs, channel, provider>>

\* The memory there is for a new one.
Unused == {f \in Feeds : refs[f] = 0}

\* Its other half: the feed is opened again with another path, or a new one made.
OpenDone(t) ==
  /\ call[t].at = "open"
  /\ \/ /\ call[t].feed # NoFeed /\ refs[call[t].feed] = 1
        /\ Become(t, [call[t] EXCEPT !.at = "publish"])
        /\ UNCHANGED refs
     \/ /\ call[t].feed = NoFeed
        /\ Unused # {}
        /\ refs' = [refs EXCEPT ![Sets!Min(Unused)] = 1]
        /\ Become(t, [call[t] EXCEPT !.at = "publish", !.feed = Sets!Min(Unused)])
  /\ UNCHANGED <<channel, idle, provider>>

\* The file is unreadable: a feed that was taken is closed, not put back.
OpenFails(t) ==
  /\ call[t].at = "open"
  /\ refs' = Closed(call[t].feed)
  /\ Become(t, NoCall)
  /\ UNCHANGED <<channel, idle, provider>>

\* vita_audio_load_bgm puts the feed into the channel and goes on to retire the
\* one it found there.
Publish(t) ==
  LET c == call[t].channel IN
  /\ call[t].at = "publish"
  /\ channel' = [channel EXCEPT ![c] = [NoTrack EXCEPT !.feed = call[t].feed]]
  /\ Become(t, [NoCall EXCEPT !.at = "retire", !.feed = channel[c].feed])
  /\ UNCHANGED <<refs, idle, provider>>

\* vita_audio_unload_bgm.
Unload(t, c) ==
  /\ provider = "ready" /\ call[t] = NoCall
  /\ channel' = [channel EXCEPT ![c] = NoTrack]
  /\ Become(t, [NoCall EXCEPT !.at = "retire", !.feed = channel[c].feed])
  /\ UNCHANGED <<refs, idle, provider>>

\* Mutant: the parked feed is put in its place without looking at it.
ParkOver(t) ==
  /\ call[t].at = "swap"
  /\ idle' = call[t].feed
  /\ Become(t, NoCall)
  /\ UNCHANGED <<refs, channel, provider>>

\* __retire: a feed nobody else has a reference to is parked; any other is closed.
Retire(t) ==
  /\ call[t].at = "retire"
  /\ IF call[t].feed # NoFeed /\ refs[call[t].feed] = 1
       THEN Become(t, [call[t] EXCEPT !.at = "swap"]) /\ UNCHANGED refs
       ELSE refs' = Closed(call[t].feed) /\ Become(t, NoCall)
  /\ UNCHANGED <<channel, idle, provider>>

\* It takes the place of the one parked before, which is closed afterwards.
Park(t) ==
  /\ call[t].at = "swap"
  /\ idle' = call[t].feed
  /\ Become(t, [NoCall EXCEPT !.at = "close", !.feed = idle])
  /\ UNCHANGED <<refs, channel, provider>>

Close(t) ==
  /\ call[t].at = "close"
  /\ refs' = Closed(call[t].feed)
  /\ Become(t, NoCall)
  /\ UNCHANGED <<channel, idle, provider>>

-----------------------------------------------------------------------------
\* __retain: playing (with a new loop flag) and seeking (with the old one) work
\* on the feed with the mixer unlocked.
Retain(t, c, at, loop) ==
  LET f == channel[c].feed IN
  /\ provider = "ready" /\ call[t] = NoCall /\ f # NoFeed
  /\ refs' = [refs EXCEPT ![f] = @ + 1]
  /\ Become(t, [at |-> at, channel |-> c, feed |-> f,
                loop |-> IF at = "play" THEN loop ELSE channel[c].loop])
  /\ UNCHANGED <<channel, idle, provider>>

\* The feed has been started or moved, or has failed to: the track is marked if
\* the channel still has that feed, and the reference is given back.
Commit(t) ==
  LET c == call[t].channel IN
  /\ call[t].at \in {"play", "seek"}
  /\ \E ready \in BOOLEAN :
       channel' = IF call[t].at = "play" /\ ready /\ channel[c].feed = call[t].feed
                    THEN [channel EXCEPT ![c].playing = TRUE, ![c].loop = call[t].loop]
                    ELSE channel
  /\ Become(t, [NoCall EXCEPT !.at = "close", !.feed = call[t].feed])
  /\ UNCHANGED <<refs, idle, provider>>

\* mix_bgm: a track that does not loop stops at its end.
End(c) ==
  /\ channel[c].playing
  /\ channel' = [channel EXCEPT ![c].playing = FALSE]
  /\ UNCHANGED <<refs, idle, call, provider>>

\* audio_provider_destruct, when no call is in progress: the tracks and the parked
\* feed are closed.
Destroy ==
  /\ provider = "ready"
  /\ \A t \in Threads : call[t] = NoCall
  /\ refs' = [f \in Feeds |-> refs[f]
       - Cardinality({c \in Channels : channel[c].feed = f}) - (IF idle = f THEN 1 ELSE 0)]
  /\ channel' = [c \in Channels |-> NoTrack]
  /\ idle' = NoFeed
  /\ provider' = "gone"
  /\ UNCHANGED call

Next ==
  \/ Create \/ Destroy
  \/ \E t \in Threads, c \in Channels : OpenBegin(t, c) \/ Unload(t, c)
  \/ \E t \in Threads : OpenDone(t) \/ OpenFails(t) \/ Publish(t)
  \/ \E t \in Threads : Retire(t) \/ Park(t) \/ Close(t) \/ Commit(t)
  \/ \E t \in Threads, c \in Channels, at \in {"play", "seek"}, loop \in Loops : Retain(t, c, at, loop)
  \/ \E c \in Channels : End(c)

Spec == Init /\ [][Next]_vars

-----------------------------------------------------------------------------
\* Every reference to a feed is somebody's: a channel's, the parking place's or
\* a call's.  So no feed is freed under a track or a caller, none is left over
\* when threads replace tracks at once, a parked feed is nobody else's, and the
\* last of them goes with the provider.
FeedsAccounted ==
  \A f \in Feeds :
    /\ refs[f] = Cardinality({c \in Channels : channel[c].feed = f})
               + Cardinality({t \in Threads : call[t].feed = f}) + (IF idle = f THEN 1 ELSE 0)
    /\ idle = f => refs[f] = 1
    /\ \A c, d \in Channels : channel[c].feed = f /\ channel[d].feed = f => c = d
    /\ provider = "gone" => refs[f] = 0
=============================================================================
