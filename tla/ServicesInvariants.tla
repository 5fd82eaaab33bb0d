-------------------------- MODULE ServicesInvariants --------------------------
(***************************************************************************)
(* The inductive invariants of the services: what is true of each          *)
(* component before and after every one of its steps, and enough to imply  *)
(* what Services promises of it.  ServicesProofs proves both.              *)
(***************************************************************************)
EXTENDS Services, CountingLemmas

-----------------------------------------------------------------------------
(* GuestMaps. *)

(* What a page can hold.                                                   *)
Pages == {"file", "zero", "written"} \X Int

IsMapping(m) ==
  /\ m = [base |-> m.base, capacity |-> m.capacity, live |-> m.live,
          active |-> m.active, file |-> m.file, offset |-> m.offset,
          readonly |-> m.readonly, content |-> m.content]
  /\ m.base \in Nat /\ m.capacity \in Nat \ {0}
  /\ m.live \subseteq 0..m.capacity - 1 /\ m.live # {}
  /\ m.active = Cardinality(m.live)
  /\ m.file \in BOOLEAN /\ m.offset \in Int
  /\ m.content \in [0..m.capacity - 1 -> Pages]

Pending == {making[t] : t \in Threads} \ {Maps!None}

(* Mappings that have memory of their own.                                 *)
Apart(S) == \A m, n \in S : m # n => Maps!BlockOf(m) \cap Maps!BlockOf(n) = {}

Blocks(S) == {Maps!BlockOf(m) : m \in S}
OfFile(S) == {m \in S : m.file}

(* The registry: whole mappings, apart from each other and from those that *)
(* threads are about to register, which are no two threads' alike.         *)
Registry(S) ==
  /\ IsFiniteSet(S)
  /\ \A m \in S \cup Pending : IsMapping(m)
  /\ Apart(S \cup Pending)
  /\ S \cap Pending = {}

MakingApart ==
  /\ making = [t \in Threads |-> making[t]]
  /\ \A t, u \in Threads : t # u /\ making[t] # Maps!None => making[t] # making[u]
  /\ \A m \in Pending :
       /\ m.live = 0..m.capacity - 1
       /\ \A i \in m.live : m.content[i] = Maps!Fresh(m.file, m.offset, i)

(* What the guest is owed is there, and what comes after it in the file is *)
(* known.                                                                  *)
Held(m) == {m.base + i : i \in m.live}
Addresses(S) == UNION {Held(m) : m \in S}
ViewExact ==
  /\ DOMAIN view = Addresses(mappings)
  /\ \A m \in mappings : \A i \in m.live :
       view[m.base + i] = [value |-> m.content[i],
                           next |-> Maps!Fresh(m.file, m.offset, i)]

MapsInv ==
  /\ Registry(mappings)
  /\ MakingApart
  /\ blocks = Blocks(mappings \cup Pending)
  /\ duplicates = Cardinality(OfFile(mappings \cup Pending))
  /\ ViewExact

-----------------------------------------------------------------------------
(* GlBuffers. *)

BufferRecords == [name : Nat, native : Objects \cup {0}, created : BOOLEAN, deleted : BOOLEAN]
ArrayRecords ==
  [there : BOOLEAN, element : Objects \cup {0}, attribs : [Attribs -> Objects \cup {0}]]
GlRecords ==
  [live : SUBSET Objects, array : Objects \cup {0}, element : [Buffers!AllArrays -> Objects \cup {0}],
   attribs : [Buffers!AllArrays -> [Attribs -> Objects \cup {0}]]]

NativeIn(objs, o) == IF o = 0 THEN 0 ELSE objs[o].native

(* Objects, bindings, vertex arrays and vitaGL agree: what is referred to  *)
(* has a handle, the handles are those vitaGL has, no two objects have the *)
(* same one, and no two that are not deleted the same name.                *)
Agree(objs, binding, all, g) ==
  /\ g.array = NativeIn(objs, binding)
  /\ \A a \in Buffers!AllArrays :
       /\ g.element[a] = NativeIn(objs, all[a].element)
       /\ \A i \in Attribs : g.attribs[a][i] = NativeIn(objs, all[a].attribs[i])

Distinct(objs) ==
  /\ \A o \in Objects : objs[o].name = 0 => objs[o] = Buffers!Freed
  /\ \A o, p \in Objects : o # p =>
       /\ objs[o].native # 0 => objs[o].native # objs[p].native
       /\ objs[o].name # 0 /\ objs[o].name = objs[p].name => objs[o].deleted \/ objs[p].deleted

BufferTypes(objs, binding, all, g) ==
  /\ objs \in [Objects -> BufferRecords]
  /\ binding \in Objects \cup {0}
  /\ all \in [Buffers!AllArrays -> ArrayRecords]
  /\ g \in GlRecords

Tracked(objs, binding, all, g) ==
  /\ BufferTypes(objs, binding, all, g)
  /\ Distinct(objs)
  /\ \A o \in Objects : Buffers!Referenced(binding, all, o) => objs[o].native # 0
  /\ Agree(objs, binding, all, g)
  /\ g.live = {objs[o].native : o \in Objects} \ {0}
  /\ all[0].there
  /\ \A a \in Buffers!AllArrays : all[a].there \/ all[a] = Buffers!NoArray

BuffersInv ==
  /\ Tracked(objects, arrayBuffer, arrays, gl)
  /\ \A o \in Objects : objects[o].deleted => Buffers!Referenced(arrayBuffer, arrays, o)
  /\ current \in Buffers!AllArrays /\ arrays[current].there
  /\ nextName \in 1..MaxName

-----------------------------------------------------------------------------
(* Rename. *)

DiskEntries == {Replacing!Nothing} \cup {m[2] : m \in Made}
Disks == [Replacing!Names -> DiskEntries]
RenameStages ==
  {"idle", "stat", "list", "direct", "replace", "aside", "move", "restore", "remove", "done"}
RenameRecords ==
  [at : RenameStages, old : Replacing!Names \cup {<<"none", 0>>},
   new : Replacing!Names \cup {<<"none", 0>>}, directory : BOOLEAN, tried : Nat,
   result : {"none", "done", "refused", "EIO"}]

RenameTypes ==
  /\ disk \in Disks
  /\ sequence \in 0..MaxBackups
  /\ rename \in RenameRecords
  /\ began \in [disk : Disks, alone : BOOLEAN]
  /\ "none" \notin kept

(* What is renamed, and the backup a rename works with.                    *)
RenamePaths ==
  /\ rename.at # "idle" =>
       rename.old \in Replacing!Names /\ rename.new \in Replacing!Names \ Replacing!Backups
  /\ rename.at \notin {"idle", "done"} => rename.old # rename.new
  /\ rename.at \in {"move", "restore", "remove"} =>
       sequence # 0 /\ rename.old # Replacing!Backup(sequence)

(* The disk of a rename that was alone, stage by stage.                    *)
AsideDisk(d, before, new, backup) ==
  \A p \in Replacing!Names :
    d[p] = IF p = backup THEN before[new] ELSE IF p = new THEN Replacing!Nothing ELSE before[p]
MovedDisk(d, before, old, new, backup) ==
  \A p \in Replacing!Names :
    d[p] = IF p = backup THEN before[new] ELSE IF p = new THEN before[old]
           ELSE IF p = old THEN Replacing!Nothing ELSE before[p]
RenameAlone ==
  LET before == began.disk  backup == Replacing!Backup(sequence) IN
  began.alone =>
    /\ rename.at \in {"stat", "list", "direct", "replace", "aside"} => disk = before
    /\ rename.at \in {"move", "restore"} =>
         before[backup] = Replacing!Nothing /\ AsideDisk(disk, before, rename.new, backup)
    /\ rename.at = "remove" =>
         before[backup] = Replacing!Nothing /\ MovedDisk(disk, before, rename.old, rename.new, backup)

RenameInv ==
  /\ RenameTypes
  /\ RenamePaths
  /\ Replacing!NothingLost
  /\ rename.at = "remove" => disk[Replacing!Backup(sequence)].data \notin kept
  /\ RenameAlone
  /\ Replacing!AllOrNothing

-----------------------------------------------------------------------------
(* Preferences. *)

SettingsValues == [Keys -> Values \cup {"unset"}]
SavedSettings == [id : Nat, whole : BOOLEAN, settings : SettingsValues]
SettingsEntries == {Settings!Nothing} \cup [kind : {"file"}, data : SavedSettings]
SettingsDisks == [Settings!Names -> SettingsEntries]
SettingsRenames ==
  [at : RenameStages, old : Settings!Names \cup {<<"none", 0>>},
   new : Settings!Names \cup {<<"none", 0>>}, directory : BOOLEAN, tried : Nat,
   result : {"none", "done", "refused", "EIO"}]
Calls == [at : {"idle", "open", "write", "rename", "renaming", "remove"}, settings : SettingsValues]

SettingsTypes ==
  /\ settingsDisk \in SettingsDisks
  /\ settingsSequence \in 0..SettingsBackups
  /\ settingsRename \in SettingsRenames
  /\ saving \in Calls
  /\ history \in [written : Nat, committed : SavedSettings]

Stored(d, p) == d[p].kind # "none"
Holds(d, p, data) == Stored(d, p) /\ d[p].data = data
WholeIn(d, p) == Stored(d, p) => d[p].data.whole

(* Only the second file is renamed, only over the file, and only by a call *)
(* that has written it whole.                                              *)
SettingsInv ==
  /\ SettingsTypes
  /\ settingsRename.at # "idle" =>
       /\ saving.at = "renaming"
       /\ settingsRename.old = Settings!Temp /\ settingsRename.new = Settings!File
  /\ settingsRename.at \in {"move", "restore", "remove"} => settingsSequence # 0
  /\ saving.at \in {"rename", "renaming"} => WholeIn(settingsDisk, Settings!Temp)
  /\ WholeIn(settingsDisk, Settings!File)
  /\ settingsRename.at \in {"move", "restore"} =>
       WholeIn(settingsDisk, Settings!Backup(settingsSequence))
  /\ history.committed # Settings!NeverSaved =>
       /\ \E p \in {Settings!File} \cup Settings!Backups : Holds(settingsDisk, p, history.committed)
       /\ settingsRename.at = "remove" => Holds(settingsDisk, Settings!File, history.committed)

-----------------------------------------------------------------------------
(* Assets. *)

FolderRecords ==
  [path : DOMAIN Disk \cup {""}, names : {{}} \cup {Packaged!Names(f) : f \in DOMAIN Disk}, used : Nat]
AssetRecords == [kind : {"asset"}, position : Nat, moved : Nat, buffer : BOOLEAN, lost : BOOLEAN]

(* A directory is cached once and with all of its names, and no two slots  *)
(* were used last at the same time.                                        *)
CacheInv ==
  /\ serial \in Nat /\ folders \in [Slots -> FolderRecords]
  /\ \A i \in Slots : folders[i].path # "" =>
       /\ folders[i].used \in 1..serial
       /\ folders[i].names = Packaged!Names(folders[i].path)
       /\ \A j \in Slots \ {i} :
            folders[j].path # folders[i].path /\ (folders[j].path # "" => folders[j].used # folders[i].used)

ProbeSound(p) ==
  /\ p.op # "idle" => p.path \in DOMAIN Disk
  /\ p.op = "listed" => p.names = Packaged!Names(p.path)
  /\ p.op = "answered" => p.found \/ ~Packaged!Contains(Packaged!Names(p.path), p.name)
OpenSound(o) == o.kind = "asset" => o \in AssetRecords /\ (o.lost \/ o.position = o.moved)

AssetsInv ==
  /\ CacheInv
  /\ probe = [t \in Threads |-> probe[t]] /\ \A t \in Threads : ProbeSound(probe[t])
  /\ open = [t \in Threads |-> open[t]] /\ \A t \in Threads : OpenSound(open[t])

-----------------------------------------------------------------------------
(* Descriptors. *)

DescKinds == {"file", "dir", "socket", "random"}
DescRecords == [refs : Nat, kind : DescKinds \cup {"none"}, uid : Uids \cup {0}]
HandleRecords == [kind : DescKinds \cup {"none"}, serial : Descs \cup {0}, read : Nat]

(* The numbers of a descriptor and the calls that use it.                  *)
NumbersIn(m, d) == {fd \in Fds : m[fd] = d}
HeldBy(p) == IF p.op \in {"use", "poll", "readdir", "seekdir"} THEN p.held ELSE {}
UsersIn(c, d) == {u \in Threads \X Fds : <<u[2], d>> \in HeldBy(c[u[1]])}

Count(m, c, d) == Cardinality(NumbersIn(m, d)) + Cardinality(UsersIn(c, d))
SameNumbers(m, n, d) == \A e \in Descs \ {d} : NumbersIn(n, e) = NumbersIn(m, e)
SameUsers(c, b, d) == \A e \in Descs \ {d} : UsersIn(b, e) = UsersIn(c, e)
WithNumber(m, fd, d) == [m EXCEPT ![fd] = d]
WithCall(c, t, p) == [c EXCEPT ![t] = p]
Only(S, ss) == [fd \in S |-> ss[fd]]
SameOn(S, m, n) == \A fd \in S : n[fd] = m[fd]

(* References are counted, and a descriptor without any is cleared.        *)
DescsIn(dd) ==
  /\ dd \in [Descs -> DescRecords]
  /\ \A d \in Descs :
       IF dd[d].refs = 0 THEN dd[d] = Files!Unused
       ELSE dd[d].kind # "none" /\ (dd[d].kind = "random" <=> dd[d].uid = 0)
CountedIn(m, dd, c) ==
  \A d \in Descs : dd[d].refs = Count(m, c, d)

(* A handle belongs to one descriptor, or is the one that a directory seeks*)
(* with.                                                                   *)
HandlesIn(dd, hh, c) ==
  /\ hh \in [Uids -> HandleRecords]
  /\ \A d \in Descs : dd[d].uid # 0 => hh[dd[d].uid].kind = dd[d].kind /\ hh[dd[d].uid].serial = d
  /\ \A t \in Threads : c[t].op = "seekdir" =>
       /\ hh[c[t].candidate].kind = "dir" /\ hh[c[t].candidate].serial = c[t].of
       /\ \A d \in Descs : dd[d].uid # c[t].candidate
  /\ \A u \in Uids : hh[u].kind # "none" =>
       (\E d \in Descs : dd[d].uid = u) \/ (\E t \in Threads : c[t].op = "seekdir" /\ c[t].candidate = u)

(* What a call has read is the handle of its descriptor, unless a seek has *)
(* replaced that.                                                          *)
UsesIn(dd, c) ==
  \A t \in Threads : c[t].op = "use" =>
    \A h \in c[t].held : c[t].uid = dd[h[2]].uid \/ dd[h[2]].kind = "dir"

(* A directory stream is at its handle, or astray.                         *)
DirsIn(m, dd, hh, ss) ==
  /\ DOMAIN ss \subseteq Fds /\ ss = [fd \in DOMAIN ss |-> ss[fd]]
  /\ \A fd \in DOMAIN ss :
       m[fd] # 0 /\ dd[m[fd]].kind = "dir" /\ ss[fd] \in {Files!Astray, hh[dd[m[fd]].uid].read}

(* What a thread is in, and the mutexes it holds meanwhile.                *)
CallSound(p) ==
  \/ p = Files!Return
  \/ p \in [op : {"closed", "fclosed"}, fd : Fds]
  \/ p \in [op : {"use"}, held : SUBSET (Fds \X Descs), uid : Uids \cup {0}]
  \/ p \in [op : {"poll"}, held : SUBSET (Fds \X Descs), todo : SUBSET Fds] /\ \A h \in p.held : h[1] \notin p.todo
  \/ p \in [op : {"readdir"}, held : SUBSET (Fds \X Descs), fd : Fds, of : Descs] /\ p.held = {<<p.fd, p.of>>}
  \/ /\ p \in [op : {"seekdir"}, held : SUBSET (Fds \X Descs), fd : Fds, of : Descs, position : Nat, candidate : Uids]
     /\ p.held = {<<p.fd, p.of>>}
CallsIn(m, c, l, ss) ==
  /\ c = [t \in Threads |-> c[t]]
  /\ l \in [file : Threads \cup {Nobody}, dir : Threads \cup {Nobody}]
  /\ l.file # Nobody => c[l.file].op \in {"closed", "fclosed"}
  /\ \A t \in Threads :
       /\ CallSound(c[t])
       /\ c[t].op \in {"closed", "fclosed"} => l.file = t
       /\ c[t].op \in {"readdir", "seekdir"} => l.dir = t /\ c[t].fd \in DOMAIN ss /\ m[c[t].fd] = c[t].of

(* The flag of a number that is not being closed is the one that was asked *)
(* for; one that is may be taken by newlib before it is cleared.           *)
FlagSound(m, f, w, fd) == IF m[fd] # 0 THEN w[fd] = 2 \/ f[fd] = w[fd] ELSE f[fd] = 0
FlagsIn(m, f, w, c, l) ==
  /\ f = [fd \in Fds |-> f[fd]] /\ w = [fd \in Fds |-> w[fd]]
  /\ \A fd \in Fds :
       IF l.file # Nobody /\ c[l.file].fd = fd
       THEN c[l.file].op = "fclosed" /\ m[fd] # 0 => w[fd] = 2
       ELSE FlagSound(m, f, w, fd)

DescriptorsInv ==
  /\ fdmap \in [Fds -> Descs \cup {0}]
  /\ DescsIn(desc)
  /\ CountedIn(fdmap, desc, call)
  /\ HandlesIn(desc, handle, call) /\ UsesIn(desc, call)
  /\ DirsIn(fdmap, desc, handle, dirs)
  /\ CallsIn(fdmap, call, locks, dirs)
  /\ FlagsIn(fdmap, flags, wanted, call, locks)

-----------------------------------------------------------------------------
(* JniMembers. *)

MethodIds == [class : Classes, static : BOOLEAN, n : Nat \ {0}]
IdsOf(m, c, static) == {id \in DOMAIN m : id.class = c /\ id.static = static}
MethodTypes(m) ==
  /\ m = [id \in DOMAIN m |-> m[id]]
  /\ DOMAIN m \subseteq MethodIds
  /\ \A id \in DOMAIN m : m[id] \in Classes \cup {NoClass}

(* The IDs of a class are numbered, so that a new one is new.              *)
Numbered(m) ==
  \A c \in Classes, static \in BOOLEAN :
    /\ IsFiniteSet(IdsOf(m, c, static))
    /\ \A id \in IdsOf(m, c, static) : id.n <= Cardinality(IdsOf(m, c, static))

(* An ID is an alias of a method that has a native in a class above its    *)
(* own, and an ID there.                                                   *)
AliasesIn(m) ==
  \A id \in DOMAIN m : m[id] # NoClass =>
    /\ m[id] \in Members!DeclaringAbove(id.class) \ {id.class}
    /\ \E own \in IdsOf(m, m[id], id.static) : m[own] = NoClass
MethodsIn(m) == MethodTypes(m) /\ Numbered(m) /\ AliasesIn(m)
MembersInv ==
  /\ natives \in [Classes -> {"none", "unbound"} \cup Procs]
  /\ MethodsIn(methods)

-----------------------------------------------------------------------------
(* GameServices. *)

GamePhases ==
  {"loaded", "patched", "hook", "storage", "start", "run", "stop", "deferred", "prepare", "finish", "unmapped"}

(* Nothing is freed before the library is; what was set aside for after    *)
(* the destructors is not freed yet and is freed there, with the           *)
(* application gone and the shop told.                                     *)
GameTypes ==
  /\ game \in Games /\ phase \in GamePhases /\ listens \in {FALSE, game.listens}
  /\ hook = [init |-> hook.init, patched |-> hook.patched]
  /\ library = [prepare |-> library.prepare, finish |-> library.finish,
                context |-> library.context, tries |-> library.tries]
  /\ freed \in [Game!Parts -> {0, 1}]
FreedInOrder ==
  /\ \A o \in Game!Parts : freed[o] = 1 => Game!Recognised(o) /\ freed["application"] = 1
  /\ freed["purchase"] = 1 => ~listens
  /\ freed["application"] = 1 =>
       \/ library.context = {} /\ \A o \in Game!Captured : freed[o] = 1
       \/ phase = "finish" /\ library.finish /\ library.context = Game!Captured
          /\ \A o \in Game!Captured : freed[o] = 0
          /\ ("purchase" \in Game!Captured => ~listens)
  /\ freed["application"] = 0 => library.context = {}
  /\ phase \in {"loaded", "patched", "hook", "storage", "start", "run"} \/ library.prepare =>
       freed["application"] = 0
  /\ phase = "prepare" => library.prepare
HookedWhileRun ==
  /\ phase \in {"hook", "storage", "start", "run"} => hook.init
  /\ phase \in {"storage", "start", "run"} => hook.patched
GameInv == GameTypes /\ FreedInOrder /\ HookedWhileRun

-----------------------------------------------------------------------------
(* Tracks. *)

CallStages == {"idle", "open", "publish", "retire", "swap", "close", "play", "seek"}
TrackCalls == [at : CallStages, channel : Channels \cup {0}, feed : Feeds \cup {NoFeed}, loop : BOOLEAN]
TrackRecords == [feed : Feeds \cup {NoFeed}, loop : BOOLEAN, playing : BOOLEAN]
TracksTypes ==
  /\ refs \in [Feeds -> Nat]
  /\ channel \in [Channels -> TrackRecords]
  /\ idle \in Feeds \cup {NoFeed}
  /\ working \in [Threads -> TrackCalls]
  /\ provider \in {"none", "ready", "gone"}

(* What a call has at hand between its steps.                              *)
Stands(r) ==
  /\ r.at = "idle" => r.feed = NoFeed
  /\ r.at \in {"publish", "swap", "play", "seek"} => r.feed \in Feeds
  /\ r.at \in {"open", "publish", "play", "seek"} => r.channel \in Channels
CallsStand == \A t \in Threads : Stands(working[t])

(* A feed that is opened, published or parked has no other reference.      *)
HeldAlone ==
  \A t \in Threads :
    working[t].at \in {"open", "publish", "swap"} /\ working[t].feed \in Feeds => refs[working[t].feed] = 1

(* Before the provider is made and after it is gone there is nothing.      *)
NothingWithout ==
  provider # "ready" =>
    /\ \A t \in Threads : working[t].feed = NoFeed /\ working[t].at = "idle"
    /\ \A c \in Channels : channel[c].feed = NoFeed
    /\ idle = NoFeed

RefSum(ch, w, i, f) == CountOf(Channels, ch, f) + CountOf(Threads, w, f) + (IF i = f THEN 1 ELSE 0)
FeedRefs ==
  \A f \in Feeds :
    /\ refs[f] = RefSum(channel, working, idle, f)
    /\ idle = f => refs[f] = 1
    /\ \A c, d \in Channels : channel[c].feed = f /\ channel[d].feed = f => c = d

TracksInv == TracksTypes /\ CallsStand /\ HeldAlone /\ NothingWithout /\ FeedRefs
=============================================================================
