----------------------------- MODULE AudioStreams -----------------------------
(***************************************************************************)
(* One stream of music at the output's rate, decoded from an MP3           *)
(* (bridges/audio/mp3.c, mp3_index.c, mp3_marks.c) or an Ogg file          *)
(* (stream.c).  Seeking far in an MP3 starts the decoder a few frames      *)
(* before the target, found through an index of the file or through a      *)
(* table of marks which outlives the streams; any doubt falls back to      *)
(* decoding from the start.                                                *)
(*                                                                         *)
(* Frames are numbered from 0, and stand for their offsets.  A frame has a *)
(* payload and a kind: "plain", "odd" (of another format), "silent" (the   *)
(* decoder keeps it and gives no samples), "cut" (the file ends in it), or *)
(* "junk" (a plain one with other bytes before it).  `since` is where the  *)
(* decoder's context begins: it is what decides if samples are the right   *)
(* ones, and the code does not know it.                                    *)
(***************************************************************************)
EXTENDS Integers, Sequences, FiniteSets
LOCAL INSTANCE FiniteSetsExt

CONSTANTS
  Files,      \* [kind, path, first, rate, samples, frames] or for Ogg [kind, rate, total]
  Out,        \* VITA_AUDIO_OUTPUT_RATE, OUTPUT_RATE
  Preroll,    \* MP3_SEEK_PREROLL
  Reservoir,  \* most bytes of earlier frames a frame may need
  Attempts,   \* frames in a row that may be silent
  MarkCount,  \* MARK_COUNT
  Wide,       \* 2^32 of uint32_t, scaled down
  MaxRefs     \* bound: vita_mp3_library_init

VARIABLES
  library,    \* [on, refs]: the decoder library of the system
  marks,      \* [rows, next]: the table of marks
  stream,     \* the stream, or "none"
  last        \* history: where the last operation sought with success, or -1

vars == <<library, marks, stream, last>>

NoMarks == [rows |-> [k \in 0..MarkCount - 1 |-> [path |-> ""]], next |-> 0]
Closed == [file |-> [kind |-> "none"]]
IsOpen == stream.file.kind # "none"
Init ==
  /\ library = [on |-> FALSE, refs |-> 0]
  /\ marks = NoMarks
  /\ stream = Closed
  /\ last = -1

\* Source samples before a frame, from the decoder and as the format has it.
Frames(f) == DOMAIN f.frames
Produced(f, k) == IF f.frames[k].kind \in {"silent", "cut"} THEN 0 ELSE f.samples
Before(f, k) == MapThenSumSet(LAMBDA j : Produced(f, j), {j \in Frames(f) : j < k})
Payload(f, S) == MapThenSumSet(LAMBDA j : f.frames[j].payload, S)

-----------------------------------------------------------------------------
\* vita_mp3_reset: the decoder's context is cleared, and the first frame is next.
Reset(s) == [s EXCEPT !.cursor = 0, !.since = 0, !.held = 0, !.pos = 0, !.phase = 0, !.out = 0,
             !.failed = FALSE, !.lost = FALSE]

\* decode_next_frame: the next frame that gives samples, if none before it is cut
\* and few are silent.
Ahead(s) == {k \in Frames(s.file) : k >= s.cursor}
Stops(s) == {k \in Ahead(s) : s.file.frames[k].kind # "silent" \/ k = s.cursor + Attempts - 1}
Read(s, n) == {k \in Ahead(s) : k <= n /\ s.file.frames[k].kind # "cut"}
Seen(s, read) ==
  [s EXCEPT !.cursor = @ + Cardinality(read), !.checked = @ \/ read # {},
            !.fixed = @ /\ \A k \in read : s.file.frames[k].kind \in {"plain", "junk"}]
DecodeTo(s, n) ==
  LET f == s.file
      seen == Seen(s, Read(s, n))
      held == [seen EXCEPT !.held = 0, !.pos = 0]
  IN IF n \notin Frames(f) THEN [ok |-> FALSE, s |-> IF Read(s, n) = {} THEN seen ELSE held]
     ELSE IF Produced(f, n) = 0 THEN [ok |-> FALSE, s |-> [held EXCEPT !.failed = TRUE]]
     ELSE [ok |-> TRUE, s |-> [held EXCEPT !.held = f.samples]]
Decode(s) == DecodeTo(s, IF Stops(s) = {} THEN Cardinality(Frames(s.file)) ELSE Min(Stops(s)))

\* ensure_decoded_sample.
Again(d, loop) == IF d.ok \/ d.s.failed \/ ~loop THEN d ELSE Decode(Reset(d.s))
Ensure(s, loop) == IF s.pos < s.held THEN [ok |-> TRUE, s |-> s] ELSE Again(Decode(s), loop)

\* vita_mp3_next_sample; a source sample is never shorter than one of the output.
Advance(s, phase) == [s EXCEPT !.out = @ + 1, !.phase = phase % Out, !.pos = @ + phase \div Out]
Advanced(e, phase, loop) ==
  IF ~e.ok THEN e
  ELSE [ok |-> TRUE, s |-> IF phase < Out THEN Advance(e.s, phase) ELSE Ensure(Advance(e.s, phase), loop).s]
NextSample(s, loop) == LET e == Ensure(s, loop) IN Advanced(e, e.s.phase + s.file.rate, loop)

\* __skip_to: forwards by what is left of the decoded frame, or to the end.
RECURSIVE SkipTo(_, _)
Skip(s, step) ==
  LET phase == s.phase + step * s.file.rate IN
  [s EXCEPT !.pos = @ + phase \div Out, !.phase = phase % Out, !.out = @ + step]
Left(s) == ((s.held - s.pos) * Out - s.phase + s.file.rate - 1) \div s.file.rate
SkipOn(e, p) ==
  IF ~e.ok THEN [ok |-> ~e.s.failed, s |-> e.s]
  ELSE SkipTo(Skip(e.s, Min({p - e.s.out, Left(e.s)})), p)
SkipTo(s, p) == IF s.out >= p THEN [ok |-> TRUE, s |-> s] ELSE SkipOn(Ensure(s, FALSE), p)

-----------------------------------------------------------------------------
\* mp3_mark_get: the row of this path, first frame, format and target.
Key(f, target) == [path |-> f.path, first |-> f.first, rate |-> f.rate, target |-> target]
Rows(key) == {k \in DOMAIN marks.rows : key.path # "" /\ marks.rows[k].path = key.path /\ marks.rows[k].key = key}
MarkOf(key) == marks.rows[Min(Rows(key))].frame
MarkPut(key, frame) ==
  IF key.path = "" THEN marks
  ELSE [rows |-> [marks.rows EXCEPT ![marks.next] = [path |-> key.path, key |-> key, frame |-> frame]],
        next |-> (marks.next + 1) % MarkCount]

\* Frames kept between filling the reservoir and the target, for the synthesis.
\* Mutant: one is enough.
HistoryOne == 1
History == 2

\* __scan: all frames up to the target stand one behind the other, in one format.
Scannable(f, target) == \A k \in 0..target : k \in Frames(f) /\ f.frames[k].kind \in {"plain", "silent"}
\* __locate: the latest frame with enough payload between it and the last two.
Starts(f, target) ==
  {k \in target - Preroll..target - 4 : Payload(f, k..target - History - 1) >= Reservoir}
Located(f, target) == Max(Starts(f, target))

\* mp3_index_find.
Findable(s, target) ==
  /\ ~s.blocked /\ target >= Preroll
  /\ \/ Rows(Key(s.file, target)) # {}
     \/ Scannable(s.file, target) /\ Starts(s.file, target) # {}
Found(s, target) ==
  LET key == Key(s.file, target) IN IF Rows(key) # {} THEN MarkOf(key) ELSE Located(s.file, target)

\* Whether the decoder, fed from a frame on, has what another frame is made of.
Decodable(f, since, k) == k >= since /\ (since = 0 \/ Payload(f, since..k - 1) >= Reservoir)

\* __preroll: all frames up to the target are read, the last two are decoded, and
\* enough went before them.
PrerollOk(f, first, target) ==
  /\ \A k \in first..target - 1 : k \in Frames(f) /\ f.frames[k].kind \in {"plain", "junk", "silent"}
  /\ \A k \in target - History..target - 1 : Decodable(f, first, k) /\ f.frames[k].kind # "silent"
  /\ Payload(f, first..target - History - 1) >= Reservoir

\* The first sample of the output inside a source frame.
FirstOut(base, rate) == (base * Out + rate - 1) \div rate

\* __seek_index: to the first sample of the target frame, and on from there.
Target(s, p) == ((p * s.file.rate) \div Out) \div s.file.samples
SeekIndex(s, p, first) ==
  LET target == Target(s, p)
      base == target * s.file.samples
      out == FirstOut(base, s.file.rate)
  IN SkipTo([s EXCEPT !.cursor = target, !.since = first, !.out = out, !.failed = FALSE,
                      !.phase = (out * s.file.rate - base * Out) % Wide, !.held = 0, !.pos = 0], p)

\* vita_mp3_seek_frames.  `fault` is what fails: finding or warming up, either of
\* which is not tried again; clearing the decoder; or rewinding after that.
ByIndex(s, p) ==
  LET backward == p < s.out /\ p > Out
      distant == p - s.out > Out \/ s.out - p > Out
  IN (distant \/ backward) /\ s.fixed /\ ~s.failed
Searches(s, p, fault) == s.checked /\ ByIndex(s, p) /\ fault # "index" /\ Findable(s, Target(s, p))
Warm(s, p, fault) ==
  /\ Searches(s, p, fault) /\ fault \notin {"clear", "rewind"}
  /\ PrerollOk(s.file, Found(s, Target(s, p)), Target(s, p))
Tried(s, p, fault) ==
  IF ~(s.checked /\ ByIndex(s, p)) \/ Target(s, p) < Preroll THEN s
  ELSE [s EXCEPT !.blocked = @ \/ ~Searches(s, p, fault) \/ (fault \notin {"clear", "rewind"} /\ ~Warm(s, p, fault))]
\* From the start or on from here, or back to where it was.
Fallback(slow, from) == IF slow.ok THEN slow ELSE [ok |-> FALSE, s |-> SkipTo(Reset(slow.s), from).s]
SeekSlow(s, p, fault, rewind) ==
  IF rewind /\ fault = "rewind" THEN [ok |-> FALSE, s |-> [s EXCEPT !.lost = TRUE]]
  ELSE Fallback(SkipTo(IF rewind THEN Reset(s) ELSE s, p), s.out)
SeekMp3(s, p, fault) ==
  LET quick == IF Warm(s, p, fault) THEN SeekIndex(Tried(s, p, fault), p, Found(s, Target(s, p))) ELSE [ok |-> FALSE]
  IN IF quick.ok THEN quick
     ELSE SeekSlow(Tried(s, p, fault), p, fault, p < s.out \/ s.failed \/ ByIndex(s, p))

-----------------------------------------------------------------------------
\* __seek_vorbis: no further than the end.
Duration(f) == (f.total * Out + f.rate - 1) \div f.rate
OggAt(s, p) ==
  LET q == Min({p, Duration(s.file)}) IN
  [s EXCEPT !.pos = IF q = Duration(s.file) THEN s.file.total ELSE (q * s.file.rate) \div Out,
            !.phase = ((q % Out) * s.file.rate) % Out, !.out = q, !.failed = FALSE]

\* vita_audio_stream_seek_frames: a failed seek goes back to where it was.
SeekOgg(s, p, fault) ==
  CASE fault = "index" -> [ok |-> FALSE, s |-> OggAt(s, s.out)]
    [] fault = "rewind" -> [ok |-> FALSE, s |-> [s EXCEPT !.failed = TRUE]]
    [] OTHER -> [ok |-> TRUE, s |-> OggAt(s, p)]

\* vita_audio_stream_next_sample, and the end of the file with and without a loop.
OggNext(s, loop) ==
  LET from == IF s.pos = s.file.total /\ loop THEN OggAt(s, 0) ELSE s
      phase == from.phase + s.file.rate
      steps == Min({phase \div Out, s.file.total - from.pos})
      moved == [from EXCEPT !.out = @ + 1, !.phase = phase - steps * Out, !.pos = @ + steps]
  IN IF s.failed \/ from.pos = s.file.total THEN [ok |-> FALSE, s |-> s]
     ELSE [ok |-> TRUE, s |-> IF moved.pos = s.file.total /\ loop THEN OggAt(moved, 0) ELSE moved]

-----------------------------------------------------------------------------
\* vita_mp3_library_init and _term; the library goes when neither a user nor a
\* stream is left, and the marks with it.
Released(l, streaming) == ~l.on \/ (l.refs = 0 /\ ~streaming)
LibraryInit ==
  /\ library.refs < MaxRefs
  /\ library' = [on |-> TRUE, refs |-> IF library.on THEN library.refs + 1 ELSE 1]
  /\ last' = -1
  /\ UNCHANGED <<marks, stream>>

Streaming == IsOpen /\ stream.file.kind = "mp3"
Release(l, streaming) ==
  /\ library' = IF Released(l, streaming) THEN [on |-> FALSE, refs |-> 0] ELSE l
  /\ marks' = IF Released(l, streaming) THEN NoMarks ELSE marks

LibraryTerm ==
  /\ library.refs > 0
  /\ Release([library EXCEPT !.refs = @ - 1], Streaming)
  /\ last' = -1
  /\ UNCHANGED stream

\* vita_audio_stream_open, vita_mp3_open.
Open(f) ==
  /\ ~IsOpen
  /\ f.kind = "mp3" => library.on /\ library.refs > 0
  /\ stream' = [file |-> f, cursor |-> 0, since |-> 0, held |-> 0, pos |-> 0, phase |-> 0, out |-> 0,
                checked |-> FALSE, fixed |-> TRUE, blocked |-> FALSE, failed |-> FALSE, lost |-> FALSE]
  /\ last' = -1
  /\ UNCHANGED <<library, marks>>

Close ==
  /\ IsOpen
  /\ stream' = Closed
  /\ Release(library, FALSE)
  /\ last' = -1

\* The next sample; a file that cannot be read fails the stream.
Play(loop) ==
  /\ IsOpen
  /\ LET r == IF stream.file.kind = "mp3" THEN NextSample(stream, loop) ELSE OggNext(stream, loop) IN
     stream' = r.s
  /\ last' = -1
  /\ UNCHANGED <<library, marks>>

ReadFails ==
  /\ IsOpen /\ ~stream.failed
  /\ stream.pos >= (IF stream.file.kind = "mp3" THEN stream.held ELSE 0)
  /\ stream' = [stream EXCEPT !.failed = TRUE]
  /\ last' = -1
  /\ UNCHANGED <<library, marks>>

MarkFound(key, target) == IF Rows(key) = {} THEN MarkPut(key, Found(stream, target)) ELSE marks
Seek(p, fault) ==
  /\ IsOpen
  /\ \E r \in {IF stream.file.kind = "mp3" THEN SeekMp3(stream, p, fault) ELSE SeekOgg(stream, p, fault)} :
       /\ stream' = r.s
       /\ last' = IF r.ok THEN p ELSE -1
  /\ marks' = IF stream.file.kind = "mp3" /\ Searches(stream, p, fault)
              THEN MarkFound(Key(stream.file, Target(stream, p)), Target(stream, p)) ELSE marks
  /\ UNCHANGED library

Step(positions) ==
  \/ LibraryInit \/ LibraryTerm
  \/ \E f \in Files : Open(f)
  \/ Close \/ ReadFails
  \/ \E loop \in BOOLEAN : Play(loop)
  \/ \E p \in positions, fault \in {"none", "index", "clear", "rewind"} : Seek(p, fault)

-----------------------------------------------------------------------------
\* Whatever was played, sought and failed before, and whichever streams left marks
\* behind: the next sample is the one that decoding from the start would give at
\* this position.  It is the right one of the file, the decoder has been fed all
\* that it is made of, and a seek that succeeded is where it was asked to go or at
\* the end.  (A rewind that failed is beyond help and not marked by the code.)
NextFrame == stream.cursor - (IF stream.pos < stream.held THEN 1 ELSE 0)
Source == IF stream.pos < stream.held THEN Before(stream.file, NextFrame) + stream.pos ELSE Before(stream.file, stream.cursor)
Exact(k) == stream.since = 0 \/ \A j \in k - 2..k : Decodable(stream.file, stream.since, j)
AtEnd ==
  IF stream.file.kind = "ogg" THEN stream.out = Duration(stream.file)
  ELSE stream.cursor = Cardinality(Frames(stream.file)) /\ stream.pos >= stream.held
PlaysAsFromStart ==
  /\ Streaming => library.on
  /\ Streaming /\ ~stream.failed /\ ~stream.lost =>
       /\ Source * Out + stream.phase = stream.out * stream.file.rate
       /\ stream.phase \in 0..Out - 1 /\ Exact(NextFrame)
  /\ IsOpen /\ stream.file.kind = "ogg" /\ ~stream.failed =>
       /\ stream.out <= Duration(stream.file)
       /\ stream.pos < stream.file.total => stream.pos * Out + stream.phase = stream.out * stream.file.rate
  /\ last # -1 => stream.out = last \/ AtEnd
=============================================================================
