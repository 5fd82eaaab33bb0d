------------------------------ MODULE MCServices ------------------------------
(* Small instances of the services for TLC. *)
EXTENDS Services, TLC

Symmetry == Permutations(Threads)

\* A file of which the third and fourth page can be addressed, and memory.
MCKinds ==
  {[file |-> FALSE, offset |-> 0, readonly |-> FALSE], [file |-> TRUE, offset |-> 2, readonly |-> TRUE]}

\* Files and directories, empty or not; everything is on one drive.
MCDrive == [p \in {"a", "b", "in", "backup"} |-> 1]
MCSettingsDrive == [p \in {"prefs", "temp"} |-> 1]
MadeAt(n, kind, data) == <<<<n, 0>>, [kind |-> kind, data |-> data]>>
MCMade ==
  {MadeAt("a", "file", "x"), MadeAt("a", "directory", "f"), MadeAt("b", "file", "y"), MadeAt("b", "directory", "e")}

MCOpens == {<<"file", 1>>, <<"dir", 1>>}

\* A file under another case, a directory without it, and one with more names than
\* are kept; two of the three fit the cache.
MCFold(n) == IF n = "A" THEN "a" ELSE n
MCDisk ==
  [one |-> [a |-> "file"], two |-> [b |-> "dir"], big |-> [a |-> "file", b |-> "file", c |-> "file"]]

\* Three classes above each other.
MCSuper == [leaf |-> "mid", mid |-> "base", base |-> "no class"]

\* Games with all their objects, without a shop and with an application alone, of which
\* more or less is recognised; a shop that calls its listener has one.
Whole == {"application", "provider", "purchase", "analytics", "achievement", "platform"}
MCGames ==
  {g \in [abi : {"none", "names"}, objects : {Whole, Whole \ {"purchase"}, {"application"}},
          known : {Whole, Whole \ {"purchase"}, Whole \ {"application"}, Whole \ {"provider", "platform"}},
          bootstrap : BOOLEAN, wrapper : {"none", "enabled", "disabled", "unknown"}, listens : BOOLEAN,
          strings : BOOLEAN, layout : BOOLEAN] :
     g.listens => g.wrapper \in {"enabled", "unknown"} /\ "purchase" \in g.objects}
=============================================================================
