------------------------------ MODULE Preferences ------------------------------
(***************************************************************************)
(* The settings of the game (bridges/jni/preferences.c): one file, read    *)
(* whole for every call and written whole to a second file that is renamed *)
(* over it.  Calls exclude each other; the program may be killed anywhere. *)
(***************************************************************************)
EXTENDS Rename

CONSTANTS
  Keys, Values,
  MaxEntries, \* PREFS_MAX_ENTRIES
  MaxSaves    \* bound: files written

VARIABLES
  call,       \* the call in progress, under __preferences_mutex
  history     \* how many files were written, and the one last renamed into place

prefsVars == <<disk, sequence, rename, began, kept, call, history>>

File == <<"prefs", 0>>
Temp == <<"temp", 0>>
NoSettings == [k \in Keys |-> "unset"]
Written(id, whole, settings) == [kind |-> "file", data |-> [id |-> id, whole |-> whole, settings |-> settings]]
NoCall == [at |-> "idle", settings |-> NoSettings]
NeverSaved == [id |-> 0, whole |-> TRUE, settings |-> NoSettings]

PrefsInit ==
  /\ RenameInit
  /\ call = NoCall
  /\ history = [written |-> 0, committed |-> NeverSaved]

Stage(at) == call' = [call EXCEPT !.at = at]
Files == <<disk, sequence, rename, began, kept>>

\* __load_entries: no file, no settings; one that cannot be decoded is an error.
Readable == Exists(File) => disk[File].data.whole
Loaded == IF Exists(File) THEN disk[File].data.settings ELSE NoSettings
Count(settings) == Cardinality({k \in Keys : settings[k] # "unset"})

\* cocos_preferences_set and _delete, up to the opening of the second file.
Edit(key, value) ==
  LET settings == [Loaded EXCEPT ![key] = value] IN
  /\ call = NoCall /\ Readable
  /\ value # "unset" \/ Loaded[key] # "unset"
  /\ Count(settings) <= MaxEntries
  /\ call' = [at |-> "open", settings |-> settings]
  /\ UNCHANGED Files /\ UNCHANGED history

\* The second file is opened, which empties it.
Open ==
  /\ call.at = "open" /\ history.written < MaxSaves
  /\ disk' = [disk EXCEPT ![Temp] = Written(history.written + 1, FALSE, NoSettings)]
  /\ history' = [history EXCEPT !.written = @ + 1]
  /\ Stage("write")
  /\ UNCHANGED <<sequence, rename, began, kept>>

\* Mutant: the file is renamed whether or not it could be written.
WriteUnchecked(ok) ==
  /\ call.at = "write"
  /\ disk' = IF ok THEN [disk EXCEPT ![Temp] = Written(history.written, TRUE, call.settings)] ELSE disk
  /\ Stage("rename")
  /\ UNCHANGED <<sequence, rename, began, kept, history>>

\* Header and records are written and the file is closed, or some of that failed.
Write(ok) ==
  /\ call.at = "write"
  /\ disk' = IF ok THEN [disk EXCEPT ![Temp] = Written(history.written, TRUE, call.settings)] ELSE disk
  /\ Stage(IF ok THEN "rename" ELSE "remove")
  /\ UNCHANGED <<sequence, rename, began, kept, history>>

Replace ==
  /\ call.at = "rename" /\ Begin(Temp, File)
  /\ Stage("renaming")
  /\ UNCHANGED history

ReplaceStep ==
  /\ call.at = "renaming" /\ RenameStep
  /\ history' = IF Exists(Temp) /\ disk'[Temp].kind = "none"
                  THEN [history EXCEPT !.committed = disk[Temp].data] ELSE history
  /\ UNCHANGED call

Replaced ==
  /\ call.at = "renaming" /\ Finish
  /\ call' = IF rename.result = "done" THEN NoCall ELSE [call EXCEPT !.at = "remove"]
  /\ UNCHANGED history

\* The second file is removed when something failed; that may fail as well.
Fail(removed) ==
  /\ call.at = "remove"
  /\ disk' = IF removed THEN [disk EXCEPT ![Temp] = Nothing] ELSE disk
  /\ call' = NoCall
  /\ UNCHANGED <<sequence, rename, began, kept, history>>

\* Opening fails; the call is over.
OpenFails ==
  /\ call.at = "open"
  /\ call' = NoCall
  /\ UNCHANGED Files /\ UNCHANGED history

PrefsCrash ==
  /\ Crash
  /\ call' = NoCall
  /\ UNCHANGED history

PrefsNext ==
  \/ \E k \in Keys, v \in Values \cup {"unset"} : Edit(k, v)
  \/ Open \/ OpenFails \/ Replace \/ ReplaceStep \/ Replaced \/ PrefsCrash
  \/ \E ok \in BOOLEAN : Write(ok) \/ Fail(ok)

PrefsSpec == PrefsInit /\ [][PrefsNext]_prefsVars

-----------------------------------------------------------------------------
\* Whatever fails and wherever the program is killed, the file of the settings
\* is whole, and the settings last put into place are there or, when a
\* replacement was cut short, in a backup.
SettingsSurvive ==
  LET last == history.committed IN
  /\ Exists(File) => disk[File].data.whole
  /\ last # NeverSaved => \E p \in {File} \cup Backups : Exists(p) /\ disk[p].data = last
=============================================================================
