------------------------------ MODULE Descriptors ------------------------------
(***************************************************************************)
(* File descriptors of the guest (bridges/libc/file.c, posix.c,            *)
(* directory.c, poll.c and file/metadata.c) on the descriptor table of     *)
(* newlib.  The table has no close-on-exec flags: file.c keeps them beside *)
(* it, under a mutex.  Sockets are made by newlib directly.  Calls that    *)
(* use a descriptor hold a reference instead of the mutex, and directories *)
(* seek by replacing the native handle under a mutex of their own.         *)
(*                                                                         *)
(* A kind of descriptor is "file", "dir", "socket" or "random", the last   *)
(* without a native handle.  An operation that fails undoes what it did in *)
(* its critical section, and is not a step.                                *)
(***************************************************************************)
EXTENDS Integers, FiniteSets
Sets == INSTANCE FiniteSetsExt

CONSTANTS
  Threads, Nobody,
  Fds,        \* descriptor numbers, counted from 1
  Descs,      \* descriptors of newlib, counted from 1
  Uids,       \* native handles, counted from 1
  Entries,    \* entries of a directory
  Opens,      \* <<kind, close-on-exec>> of what is opened
  Cloexecs    \* flags descriptors are duplicated with and set to

VARIABLES
  fdmap,      \* fdmap[fd]: the descriptor, or 0
  desc,       \* desc[d]: references, kind and native handle
  handle,     \* handle[uid]: the kind of what is open, a serial number, and how many entries were read
  flags,      \* __descriptor_flags
  locks,      \* [file, dir]: holders of __descriptor_mutex and __directory_mutex
  call,       \* call[t]: the call in progress
  dirs,       \* dirs[fd]: the position of the directory stream of a number, or Astray when the
              \* handle was moved under it
  wanted      \* history: the flags asked for, or 2 when newlib raced for the number

vars == <<fdmap, desc, handle, flags, locks, call, dirs, wanted>>

Unused == [refs |-> 0, kind |-> "none", uid |-> 0]
Shut == [kind |-> "none", serial |-> 0, read |-> 0]
Return == [op |-> "none"]
Init ==
  /\ fdmap = [fd \in Fds |-> 0]
  /\ desc = [d \in Descs |-> Unused]
  /\ handle = [u \in Uids |-> Shut]
  /\ flags = [fd \in Fds |-> 0]
  /\ locks = [file |-> Nobody, dir |-> Nobody]
  /\ call = [t \in Threads |-> Return]
  /\ dirs = <<>>
  /\ wanted = [fd \in Fds |-> 0]

-----------------------------------------------------------------------------
\* newlib: the lowest number, descriptor and handle that is free; references; and
\* what becomes of the last one.
FreeFds == {fd \in Fds : fdmap[fd] = 0}
FreeDescs == {d \in Descs : desc[d].refs = 0}
FreeUids == {u \in Uids : handle[u].kind = "none"}
Open(fd) == fdmap[fd] # 0
Grabbed(dd, d) == [dd EXCEPT ![d].refs = @ + 1]
DropDesc(dd, d) == IF dd[d].refs = 1 THEN [dd EXCEPT ![d] = Unused] ELSE [dd EXCEPT ![d].refs = @ - 1]
DropHandle(hh, dd, d) == IF dd[d].refs = 1 /\ dd[d].uid # 0 THEN [hh EXCEPT ![dd[d].uid] = Shut] ELSE hh
Drop(d) == desc' = DropDesc(desc, d) /\ handle' = DropHandle(handle, desc, d)

\* A kind of handle of its own: serials tell two users of one number apart.
Opened(kind, d) == [kind |-> kind, serial |-> d, read |-> 0]
Idle(t) == call[t].op = "none"

\* __open_file, __register_descriptor: a handle, and a number that names it.
Registered(kind) ==
  LET fd == Sets!Min(FreeFds)  d == Sets!Min(FreeDescs)  u == IF kind = "random" THEN 0 ELSE Sets!Min(FreeUids) IN
  /\ FreeFds # {} /\ FreeDescs # {} /\ (kind # "random" => FreeUids # {})
  /\ fdmap' = [fdmap EXCEPT ![fd] = d]
  /\ desc' = [desc EXCEPT ![d] = [refs |-> 1, kind |-> kind, uid |-> u]]
  /\ handle' = IF u = 0 THEN handle ELSE [handle EXCEPT ![u] = Opened(kind, d)]
NewFd == Sets!Min(FreeFds)
Flagged(fd, cloexec) ==
  /\ flags' = [flags EXCEPT ![fd] = cloexec]
  /\ wanted' = [wanted EXCEPT ![fd] = cloexec]

\* __open_tracked and bridge_fopen: made and flagged in one critical section.  Nobody
\* knows the number before.
OpenTracked(t, kind, cloexec) ==
  /\ Idle(t) /\ locks.file = Nobody
  /\ Registered(kind) /\ Flagged(NewFd, cloexec)
  /\ UNCHANGED <<locks, call, dirs>>

\* socket, accept and pipe of newlib, which know neither the flags nor the mutex.
Socket(t) ==
  /\ Idle(t) /\ Registered("socket")
  /\ wanted' = [wanted EXCEPT ![NewFd] = IF \E o \in Threads : call[o].op = "fclosed" /\ call[o].fd = NewFd THEN 2 ELSE 0]
  /\ UNCHANGED <<flags, locks, call, dirs>>

\* bridge_fcntl: another number for the descriptor, with flags of its own.
\* Mutant: the flag is copied from the other number.
DupCopied(fd, cloexec) == flags[fd]
DupFlag(fd, cloexec) == cloexec
Dup(t, fd, cloexec) ==
  /\ Idle(t) /\ locks.file = Nobody /\ Open(fd) /\ FreeFds # {}
  /\ fdmap' = [fdmap EXCEPT ![NewFd] = fdmap[fd]]
  /\ desc' = Grabbed(desc, fdmap[fd])
  /\ flags' = [flags EXCEPT ![NewFd] = DupFlag(fd, cloexec)]
  /\ wanted' = [wanted EXCEPT ![NewFd] = cloexec]
  /\ UNCHANGED <<handle, locks, call, dirs>>
SetFd(t, fd, cloexec) ==
  /\ Idle(t) /\ locks.file = Nobody /\ Open(fd) /\ Flagged(fd, cloexec)
  /\ UNCHANGED <<fdmap, desc, handle, locks, call, dirs>>

-----------------------------------------------------------------------------
\* bridge_fdopendir, by itself or in bridge_opendir: a stream for a directory, which
\* counts from 0 wherever the handle is.  A number has one stream at most; numbers of
\* one descriptor may have one each, and these move one handle.  What a stream counts
\* that is not where its handle is, is left out.
Astray == 0 - 1
IsDir(fd) == fd \in DOMAIN dirs
FdOpenDir(t, fd) ==
  /\ Idle(t) /\ Open(fd) /\ desc[fdmap[fd]].kind = "dir" /\ ~IsDir(fd)
  /\ dirs' = [f \in DOMAIN dirs \cup {fd} |->
                IF f # fd THEN dirs[f] ELSE IF handle[desc[fdmap[fd]].uid].read = 0 THEN 0 ELSE Astray]
  /\ UNCHANGED <<fdmap, desc, handle, flags, locks, call, wanted>>

\* bridge_close, and bridge_closedir around it: newlib lets the number go, and then
\* its flag is cleared.
CloseBegin(t, fd) ==
  /\ Idle(t) /\ Open(fd) /\ locks.file = Nobody /\ (IsDir(fd) => locks.dir = Nobody)
  /\ locks' = [file |-> t, dir |-> IF IsDir(fd) THEN t ELSE locks.dir]
  /\ call' = [call EXCEPT ![t] = [op |-> "closed", fd |-> fd]]
  /\ fdmap' = [fdmap EXCEPT ![fd] = 0] /\ Drop(fdmap[fd])
  /\ dirs' = [d \in DOMAIN dirs \ {fd} |-> dirs[d]]
  /\ UNCHANGED <<flags, wanted>>
Unlocked(t) == [file |-> Nobody, dir |-> IF locks.dir = t THEN Nobody ELSE locks.dir]
CloseDone(t) ==
  /\ call[t].op = "closed"
  /\ flags' = [flags EXCEPT ![call[t].fd] = 0]
  /\ wanted' = [wanted EXCEPT ![call[t].fd] = 0]
  /\ locks' = Unlocked(t) /\ call' = [call EXCEPT ![t] = Return]
  /\ UNCHANGED <<fdmap, desc, handle, dirs>>

\* bridge_fclose: the flag is cleared if the number is free afterwards.
FcloseBegin(t, fd) ==
  /\ Idle(t) /\ Open(fd) /\ locks.file = Nobody /\ desc[fdmap[fd]].kind = "file"
  /\ locks' = [locks EXCEPT !.file = t]
  /\ call' = [call EXCEPT ![t] = [op |-> "fclosed", fd |-> fd]]
  /\ fdmap' = [fdmap EXCEPT ![fd] = 0] /\ Drop(fdmap[fd])
  /\ UNCHANGED <<flags, dirs, wanted>>
FcloseDone(t) ==
  /\ call[t].op = "fclosed"
  /\ IF Open(call[t].fd) THEN UNCHANGED <<flags, wanted>> ELSE Flagged(call[t].fd, 0)
  /\ locks' = Unlocked(t) /\ call' = [call EXCEPT ![t] = Return]
  /\ UNCHANGED <<fdmap, desc, handle, dirs>>

-----------------------------------------------------------------------------
\* bridge_read, _write, _lseek64, _ftruncate64 and _fstat: a reference, native calls
\* on the handle that is read then unless the kind does not allow them, and the
\* reference is given up.  No mutex is taken, so the handle of a directory (fstat) is
\* the one it had before a seek or the one it has after it.
Use(t, fd) ==
  LET d == fdmap[fd] IN
  /\ Idle(t) /\ Open(fd)
  /\ desc' = Grabbed(desc, d)
  /\ call' = [call EXCEPT ![t] = [op |-> "use", held |-> {<<fd, d>>}, uid |-> desc[d].uid]]
  /\ UNCHANGED <<fdmap, handle, flags, locks, dirs, wanted>>

\* __native_poll: a reference for every number, one at a time; then it waits, and
\* gives them up.
Poll(t) ==
  /\ Idle(t)
  /\ call' = [call EXCEPT ![t] = [op |-> "poll", held |-> {}, todo |-> Fds]]
  /\ UNCHANGED <<fdmap, desc, handle, flags, locks, dirs, wanted>>
PollGrab(t) ==
  LET fd == Sets!Min(call[t].todo)  d == fdmap[fd] IN
  /\ call[t].op = "poll" /\ call[t].todo # {}
  /\ call' = [call EXCEPT ![t] = [op |-> "poll", todo |-> call[t].todo \ {fd},
                                  held |-> call[t].held \cup IF d = 0 THEN {} ELSE {<<fd, d>>}]]
  /\ desc' = IF d = 0 THEN desc ELSE Grabbed(desc, d)
  /\ UNCHANGED <<fdmap, handle, flags, locks, dirs, wanted>>

\* The native call returns and gives up its references, as many to a descriptor that
\* is polled as it has numbers.  A poll also ends at a descriptor it cannot wait for.
Users(d) ==
  {u \in Threads \X Fds : /\ call[u[1]].op \in {"use", "poll", "readdir", "seekdir"}
                          /\ <<u[2], d>> \in call[u[1]].held}
References(t, d) == Cardinality({u \in Users(d) : u[1] = t})
Done(t) ==
  /\ call[t].op \in {"use", "poll"}
  /\ desc' = [d \in Descs |-> IF desc[d].refs = References(t, d) THEN Unused
                              ELSE [desc[d] EXCEPT !.refs = @ - References(t, d)]]
  /\ handle' = [u \in Uids |->
       IF \E h \in call[t].held : desc[h[2]].uid = u /\ desc[h[2]].refs = References(t, h[2]) THEN Shut ELSE handle[u]]
  /\ call' = [call EXCEPT ![t] = Return]
  /\ UNCHANGED <<fdmap, flags, locks, dirs, wanted>>

-----------------------------------------------------------------------------
\* bridge_readdir: the next entry, if there is one.
DirBegin(t, fd, call_) ==
  /\ Idle(t) /\ IsDir(fd) /\ Open(fd) /\ locks.dir = Nobody
  /\ locks' = [locks EXCEPT !.dir = t]
  /\ desc' = Grabbed(desc, fdmap[fd])
  /\ call' = [call EXCEPT ![t] = call_]
  /\ UNCHANGED <<fdmap, flags, dirs, wanted>>
DirEnd(t) ==
  /\ locks' = [locks EXCEPT !.dir = Nobody]
  /\ call' = [call EXCEPT ![t] = Return]
  /\ UNCHANGED <<fdmap, flags, wanted>>

\* The stream of a number moves the handle, under those of the other numbers.
Moved(fd, at) ==
  [f \in DOMAIN dirs |-> IF f = fd THEN at ELSE IF fdmap[f] = fdmap[fd] THEN Astray ELSE dirs[f]]

ReadDir(t, fd) ==
  /\ DirBegin(t, fd, [op |-> "readdir", held |-> {<<fd, fdmap[fd]>>}, fd |-> fd, of |-> fdmap[fd]])
  /\ UNCHANGED handle
ReadDirDone(t) ==
  LET fd == call[t].fd  d == call[t].of  u == desc[d].uid
      more == handle[u].read < Entries
  IN /\ call[t].op = "readdir"
     /\ desc' = DropDesc(desc, d)
     /\ handle' = DropHandle([handle EXCEPT ![u].read = IF more THEN @ + 1 ELSE @], desc, d)
     /\ dirs' = IF more THEN Moved(fd, IF dirs[fd] = Astray THEN Astray ELSE dirs[fd] + 1) ELSE dirs
     /\ DirEnd(t)

\* __seek: a second handle of the directory is read up to the position and takes the
\* place of the first, which has to be closed for that.  It is closed before the other
\* is stored; a call that reads the handle in between works on one that is closed, or
\* is another file's by then, and so does one that had read it just before.  Both are
\* one step here.
SeekDir(t, fd, position) ==
  /\ FreeUids # {}
  /\ DirBegin(t, fd, [op |-> "seekdir", held |-> {<<fd, fdmap[fd]>>}, fd |-> fd, of |-> fdmap[fd],
                      position |-> position, candidate |-> Sets!Min(FreeUids)])
  /\ handle' = [handle EXCEPT ![Sets!Min(FreeUids)] = Opened("dir", fdmap[fd])]
SeekDirDone(t, closes) ==
  LET fd == call[t].fd  d == call[t].of  c == call[t].candidate
      seeks == closes /\ call[t].position <= Entries
      dd == IF seeks THEN [desc EXCEPT ![d].uid = c] ELSE desc
      hh == IF seeks THEN [handle EXCEPT ![desc[d].uid] = Shut, ![c].read = call[t].position] ELSE [handle EXCEPT ![c] = Shut]
  IN /\ call[t].op = "seekdir"
     /\ desc' = DropDesc(dd, d)
     /\ handle' = DropHandle(hh, dd, d)
     /\ dirs' = IF seeks THEN Moved(fd, call[t].position) ELSE dirs
     /\ DirEnd(t)

Next ==
  \/ \E t \in Threads, o \in Opens : OpenTracked(t, o[1], o[2])
  \/ \E t \in Threads : Socket(t) \/ Poll(t) \/ CloseDone(t) \/ FcloseDone(t) \/ PollGrab(t) \/ Done(t) \/ ReadDirDone(t)
  \/ \E t \in Threads, fd \in Fds : CloseBegin(t, fd) \/ FcloseBegin(t, fd) \/ Use(t, fd) \/ FdOpenDir(t, fd) \/ ReadDir(t, fd)
  \/ \E t \in Threads, fd \in Fds, cloexec \in Cloexecs : Dup(t, fd, cloexec) \/ SetFd(t, fd, cloexec)
  \/ \E t \in Threads, fd \in Fds, position \in 0..Entries + 1 : SeekDir(t, fd, position)
  \/ \E t \in Threads, closes \in BOOLEAN : SeekDirDone(t, closes)

Spec == Init /\ [][Next]_vars

-----------------------------------------------------------------------------
\* Closed, duplicated, polled and sought at once: a descriptor has the references of
\* its numbers and of the calls that use it, and none is left behind by a call that
\* fails; its native handle is open and its own as long as there is one, and no handle
\* is open without a descriptor that has it, or a seek of that directory.
Numbers(d) == {fd \in Fds : fdmap[fd] = d}
HandlesOwned ==
  /\ \A d \in Descs : desc[d].refs = Cardinality(Numbers(d)) + Cardinality(Users(d))
  /\ \A d \in Descs : desc[d].refs > 0 /\ desc[d].kind # "random" =>
       handle[desc[d].uid].kind = desc[d].kind /\ handle[desc[d].uid].serial = d
  /\ \A u \in Uids : handle[u].kind # "none" =>
       \/ desc[handle[u].serial].refs > 0 /\ desc[handle[u].serial].uid = u
       \/ \E t \in Threads : call[t].op = "seekdir" /\ call[t].candidate = u /\ call[t].of = handle[u].serial

\* A call that works on a handle it has read works on an open one, of the object that
\* its number named, whatever is closed, sought and opened meanwhile; only fstat of a
\* directory may find that a seek has closed it, and even that another file has it.
HandlesUsed ==
  \A t \in Threads : call[t].op = "use" =>
    \A h \in call[t].held :
      LET d == h[2]  u == call[t].uid IN
      u = 0 \/ desc[d].kind = "dir" \/ (handle[u].kind = desc[d].kind /\ handle[u].serial = d)

\* A number has the close-on-exec flag it was opened, duplicated or set with, and a
\* free number has none, unless newlib took it in the middle of an fclose.
FlagsKept ==
  locks.file = Nobody =>
    \A fd \in Fds : IF Open(fd) THEN wanted[fd] = 2 \/ flags[fd] = wanted[fd] ELSE flags[fd] = 0

\* A directory stream stands where it says, so seekdir returns to what telldir said,
\* unless the stream of another number of the descriptor has moved the handle.
StreamsStand ==
  locks.dir = Nobody =>
    \A fd \in DOMAIN dirs : Open(fd) /\ dirs[fd] \in {Astray, handle[desc[fdmap[fd]].uid].read}

DescriptorsSound == HandlesOwned /\ HandlesUsed /\ FlagsKept /\ StreamsStand
=============================================================================
