-------------------------------- MODULE Rename --------------------------------
(***************************************************************************)
(* Renaming on a file system that does not replace (bridge_rename of       *)
(* bridges/libc/file/rename.c): the destination is moved aside to a backup *)
(* of a new name, the source is moved to its place, and the backup removed *)
(* or, if that fails, moved back.  Renames exclude each other; everything  *)
(* else the program does to files may come between any two native calls,   *)
(* any native call may fail, and the program may be killed at any point.   *)
(***************************************************************************)
EXTENDS Naturals, FiniteSets

CONSTANTS
  Paths,      \* what the program names; a path outside Data stands for itself
  Inside,     \* pairs <<p, q>>: q lies in the directory p
  Drive,      \* Drive[p]
  Attempts,   \* backup names tried by one rename (64)
  MaxBackups, \* bound: backup names used by one process
  Full        \* what directories with something in them hold

VARIABLES
  disk,       \* disk[p]: the file or directory with this name, or Nothing
  sequence,   \* __rename_sequence: backup names used by this process
  rename,     \* the rename in progress, under __rename_mutex
  began,      \* history: the disk it began with, and whether it was alone since
  kept        \* history: what nobody asked to remove or replace

vars == <<disk, sequence, rename, began, kept>>

Nothing == [kind |-> "none", data |-> "none"]
Backup(n) == <<"backup", n>>
Backups == {Backup(n) : n \in 1..MaxBackups}
Names == {<<p, 0>> : p \in Paths} \cup Backups
Idle == [at |-> "idle", old |-> <<"none", 0>>, new |-> <<"none", 0>>,
         directory |-> FALSE, tried |-> 0, result |-> "none"]
Exists(p) == disk[p].kind # "none"
IsDirectory(p) == disk[p].kind = "directory"
OnDisk == {disk[p].data : p \in Names}

NotBegun == [disk |-> [p \in Names |-> Nothing], alone |-> FALSE]

RenameInit ==
  /\ disk = [p \in Names |-> Nothing]
  /\ sequence = 0
  /\ rename = Idle
  /\ began = NotBegun
  /\ kept = {}

Become(at) == rename' = [rename EXCEPT !.at = at]
Return(result) == rename' = [rename EXCEPT !.at = "done", !.result = result]
Moved(from, to) == [disk EXCEPT ![to] = disk[from], ![from] = Nothing]
Untouched == UNCHANGED <<disk, sequence, kept, began>>

-----------------------------------------------------------------------------
\* The source is looked at.
Begin(old, new) ==
  LET job == [Idle EXCEPT !.old = old, !.new = new, !.directory = IsDirectory(old)] IN
  /\ rename = Idle
  /\ began' = [disk |-> disk, alone |-> TRUE]
  /\ rename' =
       IF ~Exists(old) THEN [job EXCEPT !.at = "done", !.result = "refused"]
       ELSE IF old = new THEN [job EXCEPT !.at = "done", !.result = "done"]
       ELSE IF Drive[old[1]] # Drive[new[1]] \/ (job.directory /\ <<old[1], new[1]>> \in Inside)
         THEN [job EXCEPT !.at = "done", !.result = "refused"]
       ELSE [job EXCEPT !.at = "stat"]
  /\ UNCHANGED <<disk, sequence, kept>>

\* The destination is looked at.
Stat ==
  /\ rename.at = "stat"
  /\ IF ~Exists(rename.new) THEN Become("direct")
     ELSE IF IsDirectory(rename.new) # rename.directory THEN Return("refused")
     ELSE IF rename.directory THEN Become("list") ELSE Become("replace")
  /\ Untouched

\* A directory is only replaced when it is empty.
List ==
  /\ rename.at = "list"
  /\ IF IsDirectory(rename.new) /\ disk[rename.new].data \notin Full
       THEN Become("replace") ELSE Return("refused")
  /\ Untouched

\* sceIoRename without a destination.
Direct ==
  /\ rename.at = "direct"
  /\ IF Exists(rename.old) /\ ~Exists(rename.new)
       THEN disk' = Moved(rename.old, rename.new) /\ Return("done")
       ELSE UNCHANGED disk /\ Return("refused")
  /\ UNCHANGED <<sequence, kept, began>>

\* sceIoRename onto the destination: a file system may replace it in one step;
\* the usual one reports EEXIST.
ReplaceNatively ==
  /\ rename.at = "replace" /\ Exists(rename.old)
  /\ disk' = Moved(rename.old, rename.new)
  /\ kept' = kept \ {disk[rename.new].data}
  /\ Return("done")
  /\ UNCHANGED <<sequence, began>>

ReplaceRefused ==
  /\ rename.at = "replace"
  /\ IF Exists(rename.old) /\ Exists(rename.new) THEN Become("aside") ELSE Return("refused")
  /\ Untouched

\* Mutant: whatever has the name of the backup is removed first.
AsideOver ==
  /\ rename.at = "aside" /\ Exists(rename.new) /\ sequence < MaxBackups
  /\ disk' = Moved(rename.new, Backup(sequence + 1))
  /\ sequence' = sequence + 1
  /\ Become("move")
  /\ UNCHANGED <<kept, began>>

\* The destination is moved aside, under the next name that is free.
Aside ==
  LET next == Backup(sequence + 1) IN
  /\ rename.at = "aside"
  /\ IF ~Exists(rename.new) \/ rename.tried = Attempts
       THEN Return("refused") /\ UNCHANGED <<disk, sequence>>
       ELSE /\ sequence < MaxBackups
            /\ sequence' = sequence + 1
            /\ IF next = rename.old \/ Exists(next)
                 THEN rename' = [rename EXCEPT !.tried = @ + 1] /\ UNCHANGED disk
                 ELSE disk' = Moved(rename.new, next) /\ Become("move")
  /\ UNCHANGED <<kept, began>>

\* The source takes the place of the destination: from here on it is renamed.
Move ==
  /\ rename.at = "move"
  /\ IF Exists(rename.old) /\ ~Exists(rename.new)
       THEN /\ disk' = Moved(rename.old, rename.new)
            /\ kept' = kept \ {disk[Backup(sequence)].data}
            /\ Become("remove")
       ELSE Become("restore") /\ UNCHANGED <<disk, kept>>
  /\ UNCHANGED <<sequence, began>>

\* It could not: the destination comes back, unless its name was taken meanwhile.
Restore ==
  /\ rename.at = "restore"
  /\ IF Exists(Backup(sequence)) /\ ~Exists(rename.new)
       THEN disk' = Moved(Backup(sequence), rename.new) /\ Return("refused")
       ELSE UNCHANGED disk /\ Return("EIO")
  /\ UNCHANGED <<sequence, kept, began>>

\* The backup is removed; if that fails the rename still has been done.
Remove ==
  /\ rename.at = "remove"
  /\ disk' = [disk EXCEPT ![Backup(sequence)] = Nothing]
  /\ Return("done")
  /\ UNCHANGED <<sequence, kept, began>>

\* A native call fails for a reason of its own.
NativeFails ==
  /\ \/ rename.at \in {"stat", "list", "direct", "replace", "aside"} /\ Return("refused")
     \/ rename.at = "move" /\ Become("restore")
     \/ rename.at = "restore" /\ Return("EIO")
     \/ rename.at = "remove" /\ Return("done")
  /\ Untouched

RenameStep ==
  \/ Stat \/ List \/ Direct \/ ReplaceNatively \/ ReplaceRefused
  \/ Aside \/ Move \/ Restore \/ Remove \/ NativeFails

\* bridge_rename returns.
Finish ==
  /\ rename.at = "done"
  /\ rename' = Idle /\ began' = NotBegun
  /\ UNCHANGED <<disk, sequence, kept>>

\* The program is killed, and started again.
Crash ==
  /\ rename' = Idle /\ sequence' = 0 /\ began' = NotBegun
  /\ UNCHANGED <<disk, kept>>

-----------------------------------------------------------------------------
\* The program's other calls: a file or directory is made, or removed.
Disturb == began' = NotBegun
Create(p, entry) ==
  /\ ~Exists(p) /\ entry.data \notin OnDisk \cup kept
  /\ disk' = [disk EXCEPT ![p] = entry]
  /\ kept' = kept \cup {entry.data}
  /\ Disturb
  /\ UNCHANGED <<sequence, rename>>

Unlink(p) ==
  /\ Exists(p)
  /\ disk' = [disk EXCEPT ![p] = Nothing]
  /\ kept' = kept \ {disk[p].data}
  /\ Disturb
  /\ UNCHANGED <<sequence, rename>>

\* What is made where is given as pairs of a name and an entry.
RenameNext(made) ==
  \/ \E old \in Names, new \in Names \ Backups : Begin(old, new)
  \/ RenameStep \/ Finish \/ Crash
  \/ \E m \in made : Create(m[1], m[2])
  \/ \E p \in Names \ Backups : Unlink(p)

-----------------------------------------------------------------------------
\* Nothing is lost: what a file or directory holds stays under some name until
\* somebody removes it or another has taken its place, whatever native calls
\* fail, wherever the program is killed and whatever else it does meanwhile.
NothingLost == kept \subseteq OnDisk

\* A rename that was alone has done all of its work or none, and says which;
\* EIO means that the destination is to be found under a backup.
AllOrNothing ==
  LET old == rename.old  new == rename.new  before == began.disk IN
  rename.at = "done" /\ began.alone =>
    \/ rename.result = "refused" /\ disk = before
    \/ /\ rename.result = "done"
       /\ \A p \in Names \ Backups :
            disk[p] = IF p = new THEN before[old] ELSE IF p = old THEN Nothing ELSE before[p]
       /\ \A p \in Backups : before[p] # Nothing /\ p # old => disk[p] = before[p]
    \/ /\ rename.result = "EIO"
       /\ disk = [before EXCEPT ![new] = Nothing, ![Backup(sequence)] = before[new]]
=============================================================================
