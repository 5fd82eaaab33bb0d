------------------------------- MODULE Services -------------------------------
(***************************************************************************)
(* Services of the bridge that do not share state with each other: the     *)
(* mappings and the buffer objects of the guest, its files and settings,   *)
(* its descriptors and the assets of the game.  Each has its own module    *)
(* and its own variables.  A behaviour is about one of them, so that TLC   *)
(* sees the steps of each and not all of their interleavings, which would  *)
(* say nothing more: no step of one reads or changes what another has.     *)
(***************************************************************************)
EXTENDS Integers, FiniteSets

CONSTANTS
  Threads, Nobody,
  Page, Space, MaxLength, MaxOffset, Lengths, Kinds,         \* GuestMaps
  MaxName, Objects, Arrays, Attribs,                         \* GlBuffers
  Paths, Inside, Drive, Attempts, MaxBackups, Full, Made,    \* Rename
  SettingsPaths, SettingsDrive, SettingsAttempts, SettingsBackups,
  Keys, Values, MaxEntries, MaxSaves,                        \* Preferences
  Fds, Descs, Uids, Entries, Opens, Cloexecs,                \* Descriptors
  Disk, Fold(_), Probes, Slots, MaxNames, Length, MaxSerial, \* Assets
  Classes, NoClass, Super, Procs, Statics,                   \* JniMembers
  Games, MaxTries,                                           \* GameServices
  Channels, Feeds, NoFeed, Loops                             \* Tracks

ASSUME MapsAssumption ==
  /\ IsFiniteSet(Threads)
  /\ Page \in Nat \ {0} /\ {Space, MaxLength, MaxOffset} \subseteq Nat
  /\ Lengths \subseteq Nat /\ Kinds \subseteq [file : BOOLEAN, offset : Nat, readonly : BOOLEAN]

ASSUME BuffersAssumption ==
  MaxName \in Nat \ {0} /\ IsFiniteSet(Objects) /\ Objects \subseteq Nat \ {0}

ASSUME RenameAssumption ==
  /\ MaxBackups \in Nat
  /\ \A m \in Made : /\ m[1] \in {<<p, 0>> : p \in Paths}
                     /\ m[2].kind \in {"file", "directory"} /\ m[2].data # "none"

ASSUME SettingsAssumption == SettingsBackups \in Nat /\ {"prefs", "temp"} \subseteq SettingsPaths

ASSUME AssetsAssumption == "" \notin DOMAIN Disk /\ Slots \subseteq Nat /\ Slots # {} /\ Length \in Nat

\* The shop has no listener of the purchase service but in its own wrapper.
ASSUME GamesAssumption ==
  /\ Games # {}
  /\ \A g \in Games : g.listens => g.wrapper \in {"enabled", "unknown"} /\ "purchase" \in g.objects

ASSUME TracksAssumption ==
  /\ IsFiniteSet(Threads) /\ IsFiniteSet(Channels) /\ Loops \subseteq BOOLEAN
  /\ Feeds \subseteq Nat /\ NoFeed \notin Feeds

ASSUME DescriptorsAssumption ==
  /\ Nobody \notin Threads /\ IsFiniteSet(Fds) /\ Fds \subseteq Nat
  /\ Descs \cup Uids \subseteq Nat \ {0} /\ Entries \in Nat
  /\ \A o \in Opens : o[1] \in {"file", "dir", "random"}

VARIABLES
  about,
  mappings, making, blocks, duplicates, view,
  objects, arrayBuffer, arrays, current, nextName, gl,
  disk, sequence, rename, began, kept,
  settingsDisk, settingsSequence, settingsRename, settingsBegan, settingsKept,
  saving, history,
  fdmap, desc, handle, flags, locks, call, dirs, wanted,
  folders, serial, probe, open,
  natives, methods,
  game, phase, hook, library, freed, listens,
  refs, channel, idle, working, provider

Maps == INSTANCE GuestMaps
Buffers == INSTANCE GlBuffers
Replacing == INSTANCE Rename
Settings == INSTANCE Preferences WITH
  disk <- settingsDisk, sequence <- settingsSequence, rename <- settingsRename,
  began <- settingsBegan, kept <- settingsKept, call <- saving,
  Paths <- SettingsPaths, Inside <- {}, Drive <- SettingsDrive,
  Attempts <- SettingsAttempts, MaxBackups <- SettingsBackups, Full <- {}
Files == INSTANCE Descriptors
Packaged == INSTANCE Assets WITH call <- probe
Members == INSTANCE JniMembers
Game == INSTANCE GameServices
Feeding == INSTANCE Tracks WITH call <- working

\* Going up the table of parents comes to an end: it has no ring of classes.
ASSUME MembersAssumption ==
  /\ Super \in [Classes -> Classes \cup {NoClass}] /\ NoClass \notin Classes
  /\ \A S \in (SUBSET Classes) \ {{}} : \E c \in S : Super[c] \notin S
  /\ Procs \cap {"none", "unbound"} = {} /\ Statics \subseteq BOOLEAN

mapsVars == <<mappings, making, blocks, duplicates, view>>
buffersVars == <<objects, arrayBuffer, arrays, current, nextName, gl>>
filesVars == <<disk, sequence, rename, began, kept>>
settingsVars ==
  <<settingsDisk, settingsSequence, settingsRename, settingsBegan, settingsKept, saving, history>>
descriptorsVars == <<fdmap, desc, handle, flags, locks, call, dirs, wanted>>
assetsVars == <<folders, serial, probe, open>>
membersVars == <<natives, methods>>
gameVars == <<game, phase, hook, library, freed, listens>>
tracksVars == <<refs, channel, idle, working, provider>>
vars ==
  <<about, mapsVars, buffersVars, filesVars, settingsVars, descriptorsVars, assetsVars, membersVars, gameVars,
    tracksVars>>

\* Which game it is matters to the behaviours about the game only.
Init ==
  /\ about \in {"maps", "buffers", "files", "settings", "descriptors", "assets", "members", "game", "tracks"}
  /\ Maps!Init /\ Buffers!Init /\ Replacing!RenameInit /\ Settings!PrefsInit
  /\ Files!Init /\ Packaged!Init /\ Members!Init /\ Game!Init /\ Feeding!Init
  /\ about # "game" => game = CHOOSE g \in Games : TRUE

Next ==
  /\ \/ /\ about = "maps" /\ Maps!Step(Lengths, Kinds)
        /\ UNCHANGED <<buffersVars, filesVars, settingsVars, descriptorsVars, assetsVars,
                       membersVars, gameVars, tracksVars>>
     \/ /\ about = "buffers" /\ Buffers!Next
        /\ UNCHANGED <<mapsVars, filesVars, settingsVars, descriptorsVars, assetsVars,
                       membersVars, gameVars, tracksVars>>
     \/ /\ about = "files" /\ Replacing!RenameNext(Made)
        /\ UNCHANGED <<mapsVars, buffersVars, settingsVars, descriptorsVars, assetsVars,
                       membersVars, gameVars, tracksVars>>
     \/ /\ about = "settings" /\ Settings!PrefsNext
        /\ UNCHANGED <<mapsVars, buffersVars, filesVars, descriptorsVars, assetsVars,
                       membersVars, gameVars, tracksVars>>
     \/ /\ about = "descriptors" /\ Files!Next
        /\ UNCHANGED <<mapsVars, buffersVars, filesVars, settingsVars, assetsVars,
                       membersVars, gameVars, tracksVars>>
     \/ /\ about = "assets" /\ Packaged!Next
        /\ UNCHANGED <<mapsVars, buffersVars, filesVars, settingsVars, descriptorsVars,
                       membersVars, gameVars, tracksVars>>
     \/ /\ about = "members" /\ Members!Next
        /\ UNCHANGED <<mapsVars, buffersVars, filesVars, settingsVars, descriptorsVars,
                       assetsVars, gameVars, tracksVars>>
     \/ /\ about = "game" /\ Game!Next
        /\ UNCHANGED <<mapsVars, buffersVars, filesVars, settingsVars, descriptorsVars,
                       assetsVars, membersVars, tracksVars>>
     \/ /\ about = "tracks" /\ Feeding!Next
        /\ UNCHANGED <<mapsVars, buffersVars, filesVars, settingsVars, descriptorsVars,
                       assetsVars, membersVars, gameVars>>
  /\ UNCHANGED about

Spec == Init /\ [][Next]_vars

-----------------------------------------------------------------------------
\* The guest finds at every address what it is owed, and every block and duplicate
\* of a descriptor belongs to one mapping (GuestMaps).
MapsAccounted == about = "maps" => Maps!MapsAccounted

\* What vitaGL has bound is what the bridge thinks, and nothing that was deleted
\* (GlBuffers).
BuffersTracked == about = "buffers" => Buffers!BuffersTracked

\* A rename loses nothing whatever fails and wherever it is cut short, and says
\* whether it was done; the settings of the game are whole (Rename, Preferences).
NothingLost ==
  /\ about = "files" => Replacing!NothingLost /\ Replacing!AllOrNothing
  /\ about = "settings" => Settings!SettingsSurvive

\* Descriptors have the references, handles, flags and positions they should
\* (Descriptors).
DescriptorsSound == about = "descriptors" => Files!DescriptorsSound

\* No asset that is there is reported missing (Assets).
AssetsFound == about = "assets" => Packaged!AssetsFound

\* Calls reach the native that overrides, whenever it was registered, and a method ID
\* that was resolved keeps its meaning (JniMembers).
CallsReachOverride == about = "members" => Members!CallsReachOverride
MeaningKept == [][about = "members" => Members!MeaningKept]_vars

\* The objects of the game are freed once, in order, and only when they are known
\* (GameServices).
GameFreedOnce == about = "game" => Game!GameFreedOnce

\* Every reference to a feed is a channel's, the parking place's or a call's (Tracks).
FeedsAccounted == about = "tracks" => Feeding!FeedsAccounted
=============================================================================
