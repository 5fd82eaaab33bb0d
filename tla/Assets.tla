--------------------------------- MODULE Assets ---------------------------------
(***************************************************************************)
(* The asset manager (bridges/android/assetmgr.c) and its cache of         *)
(* directory listings (asset_cache.c), which answers that a file is not    *)
(* there without asking the drive.  Directories are listed with the cache  *)
(* unlocked.  The assets of the selected version do not change while it    *)
(* runs.  Names are compared without regard to their case, directories     *)
(* with regard to it.  Assets share nothing with each other, so one asset  *)
(* or directory of assets is open at a time.                               *)
(***************************************************************************)
EXTENDS Integers, FiniteSets
Sets == INSTANCE FiniteSetsExt

CONSTANTS
  Threads,
  Disk,       \* Disk[folder]: the names in it and whether each is a "file" or a "dir"
  Fold(_),    \* a name without its case
  Probes,     \* names that are asked for
  Slots,      \* 1..CACHE_FOLDERS
  MaxNames,   \* CACHE_NAMES
  Length,     \* bytes of a file
  MaxSerial   \* bound: __serial

VARIABLES
  folders,    \* __folders; a slot without a folder has no path
  serial,     \* __serial
  call,       \* call[t]: the probe in progress, and what it found
  open        \* open[t]: an asset or a directory of assets

vars == <<folders, serial, call, open>>

Empty == [path |-> "", names |-> {}, used |-> 0]
NoneOpen == \A t \in Threads : open[t].kind = "none"
Idle == [op |-> "idle"]
Nothing == [kind |-> "none"]
Init ==
  /\ folders = [i \in Slots |-> Empty]
  /\ serial = 0
  /\ call = [t \in Threads |-> Idle]
  /\ open = [t \in Threads |-> Nothing]

-----------------------------------------------------------------------------
\* __find, __contains and __slot, with the cache locked.
Names(folder) == DOMAIN Disk[folder]
AllNames == UNION {Names(f) : f \in DOMAIN Disk}
Cached(path) == {i \in Slots : folders[i].path = path}
Contains(names, name) == \E n \in names : Fold(n) = Fold(name)
Slot ==
  LET free == {i \in Slots : folders[i].path = ""} IN
  IF free # {} THEN Sets!Min(free)
  ELSE CHOOSE i \in Slots : \A j \in Slots \ {i} : folders[i].used < folders[j].used \/ (folders[i].used = folders[j].used /\ i < j)
Answer(t, path, name, found) ==
  call' = [call EXCEPT ![t] = [op |-> "answered", path |-> path, name |-> name, found |-> found]]

\* a_asset_cached, when the directory is cached; else it is listed.
Probe(t, path, name) ==
  /\ call[t].op = "idle" /\ serial < MaxSerial
  /\ IF Cached(path) = {}
     THEN /\ call' = [call EXCEPT ![t] = [op |-> "listing", path |-> path, name |-> name]]
          /\ UNCHANGED <<folders, serial>>
     ELSE /\ serial' = serial + 1
          /\ folders' = [folders EXCEPT ![Sets!Min(Cached(path))].used = serial + 1]
          /\ Answer(t, path, name, Contains(folders[Sets!Min(Cached(path))].names, name))
  /\ UNCHANGED open

\* __load: all names of the directory, or nothing is known of it when it cannot be
\* opened or read, or has too many names.
\* Mutant: what was read before an error is good enough.
WholePartly(read, path) == TRUE
Whole(read, path) == read = Names(path) /\ Cardinality(read) <= MaxNames
List(t, read) ==
  /\ call[t].op = "listing" /\ read \subseteq Names(call[t].path)
  /\ IF Whole(read, call[t].path) THEN call' = [call EXCEPT ![t] = [op |-> "listed", path |-> @.path, name |-> @.name, names |-> read]]
     ELSE Answer(t, call[t].path, call[t].name, TRUE)
  /\ UNCHANGED <<folders, serial, open>>

\* The listing is put in a slot, unless another thread was faster.
Publish(t) ==
  LET path == call[t].path  known == Cached(path)
      i == IF known = {} THEN Slot ELSE Sets!Min(known)
      names == IF known = {} THEN call[t].names ELSE folders[i].names
  IN /\ call[t].op = "listed" /\ serial < MaxSerial
     /\ serial' = serial + 1
     /\ folders' = [folders EXCEPT ![i] = [path |-> path, names |-> names, used |-> serial + 1]]
     /\ Answer(t, path, call[t].name, Contains(names, call[t].name))
     /\ UNCHANGED open

Clear ==
  /\ folders' = [i \in Slots |-> Empty] /\ serial' = 0
  /\ UNCHANGED <<call, open>>

-----------------------------------------------------------------------------
\* a_asset_manager_open, from the answer on.  The drive knows a name in any case, and
\* may fail all the same.
Open(t, fails) ==
  LET there == \E n \in Names(call[t].path) : Fold(n) = Fold(call[t].name) /\ Disk[call[t].path][n] = "file" IN
  /\ call[t].op = "answered"
  /\ call' = [call EXCEPT ![t] = Idle]
  /\ open' = IF call[t].found /\ there /\ ~fails /\ NoneOpen
             THEN [open EXCEPT ![t] = [kind |-> "asset", position |-> 0, moved |-> 0, buffer |-> FALSE, lost |-> FALSE]]
             ELSE open
  /\ UNCHANGED <<folders, serial>>

Asset(t) == open[t].kind = "asset"
Set(t, o) == open' = [open EXCEPT ![t] = o] /\ UNCHANGED <<folders, serial, call>>

\* a_asset_read and a_asset_seek move the stream.
Upto(position, count) == IF position >= Length THEN position ELSE Sets!Min({position + count, Length})
Read(t, count) ==
  /\ Asset(t)
  /\ Set(t, [open[t] EXCEPT !.position = Upto(@, count), !.moved = Upto(@, count)])
Seek(t, position) ==
  /\ Asset(t)
  /\ Set(t, [open[t] EXCEPT !.position = position, !.moved = position, !.lost = FALSE])

\* a_asset_get_buffer reads the file through the same stream and moves it back, also
\* when a read fails.  Moving back may fail as well.
GetBuffer(t, read, back) ==
  /\ Asset(t) /\ ~open[t].buffer
  /\ Set(t, [open[t] EXCEPT !.buffer = read = Length /\ back, !.position = IF back THEN @ ELSE read, !.lost = @ \/ ~back])

\* a_asset_manager_open_dir: the regular files of a directory, sorted; a name that
\* cannot be examined is left out, and so are all after an error.
OpenDir(t, folder, listed) ==
  /\ call[t].op = "idle" /\ NoneOpen
  /\ listed \subseteq {n \in Names(folder) : Disk[folder][n] = "file"}
  /\ Set(t, [kind |-> "dir", folder |-> folder, names |-> listed, given |-> {}])
NextName(t) ==
  /\ open[t].kind = "dir" /\ open[t].given # open[t].names
  /\ \E n \in open[t].names \ open[t].given : Set(t, [open[t] EXCEPT !.given = @ \cup {n}])
Rewind(t) == open[t].kind = "dir" /\ open[t].given # {} /\ Set(t, [open[t] EXCEPT !.given = {}])
Close(t) == open[t].kind # "none" /\ Set(t, Nothing)

Next ==
  \/ \E t \in Threads, path \in DOMAIN Disk, name \in Probes : Probe(t, path, name)
  \/ \E t \in Threads, read \in SUBSET AllNames : List(t, read)
  \/ \E t \in Threads : Publish(t) \/ NextName(t) \/ Rewind(t) \/ Close(t)
  \/ Clear
  \/ \E t \in Threads, fails \in BOOLEAN : Open(t, fails)
  \/ \E t \in Threads, count \in 1..Length : Read(t, count)
  \/ \E t \in Threads, position \in {0, Length + 1} : Seek(t, position)
  \/ \E t \in Threads, read \in 0..Length, back \in BOOLEAN : GetBuffer(t, read, back)
  \/ \E t \in Threads, folder \in DOMAIN Disk, listed \in SUBSET AllNames : OpenDir(t, folder, listed)

Spec == Init /\ [][Next]_vars

-----------------------------------------------------------------------------
\* Listed by several threads at once, pushed out and cleared: the cache denies no
\* file that is on the drive, so none is reported missing that is there, and affirms
\* only what is there or may be; no directory stands in two slots, and the one used
\* last is never the next to go.  An asset stands where its reads and seeks left it,
\* whether its buffer was asked for or not.
AssetsFound ==
  /\ \A t \in Threads : call[t].op = "answered" /\ ~call[t].found => ~Contains(Names(call[t].path), call[t].name)
  /\ \A i, j \in Slots : folders[i].path # "" /\ i # j => folders[i].path # folders[j].path
  /\ \A i \in Slots : folders[i].path # "" =>
       folders[i].used \in 1..serial /\ folders[i].names = Names(folders[i].path)
  /\ serial > 0 /\ Cardinality(Slots) > 1 /\ (\A i \in Slots : folders[i].path # "") => folders[Slot].used < serial
  /\ \A t \in Threads : Asset(t) /\ ~open[t].lost => open[t].position = open[t].moved
=============================================================================
