------------------------------ MODULE MCMachine ------------------------------
(* What the guest's code runs on: its image, the game that is called, its sound,  *)
(* and the conversions between it and the native side.  A behaviour is about one  *)
(* of them, chosen by `about`; all keep their state in the same variables.        *)
EXTENDS Integers, Sequences, FiniteSets, TLC
VARIABLES about, v1, v2, v3, v4, v5, v6

state == <<v1, v2, v3, v4, v5, v6>>

-----------------------------------------------------------------------------
\* Images of two segments, of which some are accepted.
Program(vaddr, memsz, filesz, offset) ==
  [load |-> TRUE, exec |-> vaddr = 0, vaddr |-> vaddr, memsz |-> memsz, filesz |-> filesz, offset |-> offset]
GoodPrograms == <<Program(0, 4, 4, 0), Program(5, 5, 3, 4)>>
MCSymbols ==
  <<[name |-> "own", section |-> "here", value |-> 5, weak |-> FALSE],
    [name |-> "fixed", section |-> "abs", value |-> 3, weak |-> FALSE],
    [name |-> "found", section |-> "undef", value |-> 0, weak |-> FALSE],
    [name |-> "bridged", section |-> "undef", value |-> 0, weak |-> FALSE],
    [name |-> "provider", section |-> "undef", value |-> 0, weak |-> FALSE],
    [name |-> "lost", section |-> "undef", value |-> 0, weak |-> FALSE],
    [name |-> "weak", section |-> "undef", value |-> 0, weak |-> TRUE]>>
MCExports == << [other |-> 70], [found |-> 77, other |-> 71] >>
MCBridge == [found |-> 80, other |-> 81, bridged |-> 82, provider |-> 83]
MCLayouts == [v1 |-> 91, v2 |-> 92]
Rel(type, symbol, offset) == [type |-> type, symbol |-> symbol, offset |-> offset]
NoExidx == [from |-> "none", address |-> 0, filesz |-> 0, memsz |-> 0]
MCFile(programs, rels, ctors, exidx, calls) ==
  [size |-> 7, calls |-> calls, content |-> <<1, 2, 3, 4, 5, 6, 7>>, programs |-> programs, symbols |-> MCSymbols,
   rels |-> rels, ctors |-> ctors, exidx |-> exidx]
Ctors == [address |-> 5, size |-> 4]
Types == {"none", "abs32", "relative", "glob", "strange"}
MCFiles ==
  {MCFile(<<Program(v, m, f, o), Program(w, n, 1, 5)>>, <<Rel("relative", 1, v)>>, [address |-> w, size |-> 0], NoExidx, "v1") :
     v \in 0..4, m \in 0..4, f \in {0, 2, 4}, o \in {0, 4}, w \in 3..7, n \in {0, 3, 6}}
  \cup {MCFile(GoodPrograms, <<Rel(t, s, 0), Rel(u, q, x)>>, Ctors, NoExidx, c) :
     t \in Types, s \in 1..7, u \in {"abs32", "glob"}, q \in {1, 3, 5, 8}, c \in {"v2", "new"}, x \in {2, 3, 8, 9}}
  \cup {MCFile(GoodPrograms, <<>>, [Ctors EXCEPT !.address = x], [from |-> e, address |-> y, filesz |-> z, memsz |-> 4], "v1") :
     x \in 3..6, e \in {"program", "section"}, y \in 0..8, z \in {0, 2, 4, 8}}

Elf == INSTANCE ElfLoad WITH file <- v1, phase <- v2, next <- v3, memory <- v4, blocks <- v5, unresolved <- v6,
  Files <- MCFiles, Page <- 4, Word <- 2, MaxSpan <- 16, MaxSegments <- 2, Base <- 20, Limit <- 32, 
  Exports <- MCExports, Bridge <- MCBridge, Layouts <- MCLayouts

ElfLoadsSoundly == about = "elf" => Elf!ImageFitsBlocks /\ Elf!RelocationsMeetAbi

App == INSTANCE CocosApp WITH host <- v1, stack <- v2, app <- v3, jni <- v4, input <- v5, guest <- v6,
  Touches <- {1, 2}, Keys <- {"start"}, MaxDepth <- 3, MaxStarts <- 2
GameIsCalledSensibly == [][about = "game" => App!GameIsCalledSensibly]_state

\* Sounds: two threads and two samples; events: one thread, and a main track.
Sounds == INSTANCE Effects WITH assets <- v1, mixer <- v2, events <- v3, cursor <- v4, track <- v5, call <- v6,
  Threads <- {"t1", "t2"}, Paths <- {"p", "q"}, Calls <- {"none", "play"}, Slots <- 2, Voices <- 1,
  Length <- 1, Grain <- 1, EventLimit <- 0, MaxSerial <- 3, MaxFrame <- 0
Events == INSTANCE Effects WITH assets <- v1, mixer <- v2, events <- v3, cursor <- v4, track <- v5, call <- v6,
  Threads <- {"t1"}, Paths <- {"p"}, Calls <- {"schedule"}, Slots <- 1, Voices <- 1,
  Length <- 1, Grain <- 2, EventLimit <- 2, MaxSerial <- 3, MaxFrame <- 3

SoundsHaveSamples ==
  /\ about = "sounds" => Sounds!SoundsHaveSamples
  /\ about = "events" => Events!SoundsHaveSamples
EventsPlayOnce == [][about = "events" => Events!EventsPlay]_state

\* Music: MP3 files of which two have the same marks but for the path, one with
\* other bytes inside, one with a frame of another format and a cut one, one that
\* starts silently and one that does so for too long; and two Ogg files, one of a
\* higher rate than the output.
Frame(kind, payload) == [kind |-> kind, payload |-> payload]
Mp3(path, rate, n, kinds, payloads) ==
  [kind |-> "mp3", path |-> path, first |-> 0, rate |-> rate, samples |-> 3,
   frames |-> [k \in 0..n - 1 |-> Frame(IF k \in DOMAIN kinds THEN kinds[k] ELSE "plain", payloads[1 + (k % 3)])]]
Music ==
  {Mp3("a", 2, 9, <<>>, <<1, 2, 3>>), Mp3("b", 2, 9, 7 :> "junk", <<3, 0, 1>>),
   Mp3("", 3, 8, 6 :> "odd" @@ 7 :> "cut", <<1, 2, 3>>), Mp3("", 3, 3, 0 :> "silent", <<1, 2, 3>>),
   Mp3("", 3, 3, 0 :> "silent" @@ 1 :> "silent", <<1, 2, 3>>),
   [kind |-> "ogg", rate |-> 2, total |-> 5], [kind |-> "ogg", rate |-> 7, total |-> 9]}
Streams == INSTANCE AudioStreams WITH library <- v1, marks <- v2, stream <- v3, last <- v4, Files <- Music, Out <- 3,
  Preroll <- 5, Reservoir <- 3, Attempts <- 2, MarkCount <- 1, Wide <- 256, MaxRefs <- 1
\* Voices and events have their samples, and a stream sounds as from its start.
PlaysWhatWasAsked == SoundsHaveSamples /\ (about = "streams" => Streams!PlaysAsFromStart)

-----------------------------------------------------------------------------
\* Conversions have no steps: their inputs are the initial states.
Words == INSTANCE Conversions WITH MaxArgs <- 4, MaxSlots <- 5, MaxDims <- 1
SeqsOf(S, n) == UNION {[1..m -> S] : m \in 0..n}
Signatures ==
  SeqsOf({"(", ")", "[", "I", "V"}, 4)
  \cup {<<"(">> \o a \o <<")", "V">> : a \in SeqsOf({"I", "J"}, 5)}
  \cup {<<"(">> \o a \o <<")", "I">> : a \in SeqsOf({"[", "L", "a", ";", "I", "J"}, 4)}
\* Where the length of a unit changes, and both halves of pairs.
Units == {0, 1, 127, 128, 2047, 2048, 55296, 57343, 65535}
\* Around the limits of 64, 256, 960 and 4096.
Sides == {1, 2, 3, 63, 64, 65, 255, 256, 257, 959, 960, 961, 1919, 1920, 1921, 3841, 4096, 4097, 8193, 16384}

\* A unit of a pattern may be any character, or a set.
MCChars(unit) == CASE unit = "?" -> {"a", ".", "/"} [] unit = "set" -> {".", "/"} [] OTHER -> {unit}
Patterns == INSTANCE Matching WITH Chars <- MCChars
MCPatterns == SeqsOf({"a", ".", "/", "*", "?", "set"}, 3) \cup [1..4 -> {"a", "*", "/"}]
MCTexts == SeqsOf({"a", ".", "/"}, 4)

\* A font of a wide glyph, two of which are kerned, and of narrow ones.
MCAdvance(code) == CASE code = "m" -> 2 [] code \in {"return", "newline"} -> 0 [] OTHER -> 1
MCKern(left, right) == IF left = "m" /\ right = "m" THEN -1 ELSE 0
Text == INSTANCE TextLayout WITH Advance <- MCAdvance, Kern <- MCKern
MCLines == UNION {[0..n - 1 -> {"m", "i", "space", "newline", "return"}] : n \in 0..5}

ConversionsInit ==
  \/ about = "calls" /\ v1 \in Signatures /\ v2 = 0
  \/ about = "strings" /\ v1 \in SeqsOf(Units, 3) /\ v2 = 0
  \/ about = "rows" /\ v1 \in (1..3) \X (1..3) \X (1..4) /\ v2 \in {1, 2, 4, 8} \X (0..4)
  \/ about = "textures" /\ v1 \in Sides \X Sides /\ v2 = 0
  \/ about = "patterns" /\ v1 \in MCPatterns /\ v2 \in SUBSET {"pathname", "period", "leading_dir"}
  \/ about = "text" /\ v1 \in MCLines /\ v2 \in 0..3
\* What the guest is called with, and the strings and pixels it is given, are what it
\* passed and nothing else.
CallsExact ==
  /\ about = "calls" => Words!CallsExact(v1)
  /\ about = "strings" => Words!StringsExact(v1)
  /\ about = "rows" => Words!RowsExact(v1[1], v1[2], v1[3], v2[1], v2[2])
  /\ about = "textures" => Words!TexturesExact(v1[1], v1[2])
\* Patterns match and text is placed as they mean.
TextExact ==
  /\ about = "patterns" => Patterns!MatchExact(v1, v2, MCTexts)
  /\ about = "text" => Text!LayoutExact(v1, Cardinality(DOMAIN v1), v2)
ConversionsExact == CallsExact /\ TextExact

-----------------------------------------------------------------------------
Init ==
  \/ ConversionsInit /\ v3 = 0 /\ v4 = 0 /\ v5 = 0 /\ v6 = 0
  \/ about = "game" /\ App!Init
  \/ about = "elf" /\ Elf!Init
  \/ about = "sounds" /\ Sounds!Init
  \/ about = "events" /\ Events!Init
  \/ about = "streams" /\ Streams!Init /\ v5 = 0 /\ v6 = 0
Next ==
  /\ \/ about = "game" /\ App!Next
     \/ about = "elf" /\ Elf!Next
     \/ about = "sounds" /\ Sounds!Next
     \/ about = "events" /\ Events!Next
     \/ about = "streams" /\ Streams!Step({2, 24, 34, 50}) /\ UNCHANGED <<v5, v6>>
  /\ UNCHANGED about
Spec == Init /\ [][Next]_<<about, state>>
=============================================================================
