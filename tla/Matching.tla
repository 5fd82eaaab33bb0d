-------------------------------- MODULE Matching --------------------------------
(***************************************************************************)
(* bridge_fnmatch (bridges/libc/match.c), which goes back to the last star *)
(* only, and what a pattern means.  A pattern is a sequence of units, and  *)
(* a text one of characters; escapes, bytes and letter case are resolved.  *)
(***************************************************************************)
EXTENDS Integers, Sequences

CONSTANT Chars(_)   \* the characters that a unit of a pattern stands for

\* One character of the pattern or the text, "" behind its end.
At(s, i) == IF i \in 1..Len(s) THEN s[i] ELSE ""

\* MATCH_PERIOD: a period that starts the text, or a name of a path.
Leading(text, t, flags) == t = 1 \/ ("pathname" \in flags /\ text[t - 1] = "/")
Hidden(text, t, flags) == "period" \in flags /\ At(text, t) = "." /\ Leading(text, t, flags)

\* __unit: a star and an end match no character, and only a slash a slash of a path.
Unit(unit, c, flags) ==
  /\ unit \notin {"", "*"} /\ c # "" /\ c \in Chars(unit)
  /\ "pathname" \in flags /\ c = "/" => unit = "/"

\* The loop of bridge_fnmatch; star is 0 as long as there was none.
RECURSIVE Loop(_, _, _, _, _, _, _)
Loop(pattern, text, flags, p, t, star, retry) ==
  LET unit == At(pattern, p)
      c == At(text, t)
      next == CHOOSE q \in p..Len(pattern) + 1 : At(pattern, q) # "*" /\ \A r \in p..q - 1 : pattern[r] = "*"
  IN CASE Hidden(text, t, flags) /\ unit # "." -> FALSE
       [] unit = "*" -> Loop(pattern, text, flags, next, t, next, t)
       [] unit = "" /\ (c = "" \/ ("leading_dir" \in flags /\ c = "/")) -> TRUE
       [] Unit(unit, c, flags) -> Loop(pattern, text, flags, p + 1, t + 1, star, retry)
       [] star = 0 \/ At(text, retry) \in {""} \cup (IF "pathname" \in flags THEN {"/"} ELSE {}) -> FALSE
       [] OTHER -> Loop(pattern, text, flags, star, retry + 1, star, retry + 1)
Fnmatch(pattern, text, flags) == Loop(pattern, text, flags, 1, 1, 0, 1)

\* What it should be: a star stands for any characters, of one name if the text is a
\* path, and neither a star nor a set for a hidden period.
RECURSIVE Means(_, _, _, _, _)
Means(pattern, text, flags, p, t) ==
  LET unit == At(pattern, p)  c == At(text, t) IN
  CASE unit = "" -> c = "" \/ ("leading_dir" \in flags /\ c = "/")
    [] unit = "*" ->
         /\ ~("period" \in flags /\ c = "." /\ (t = 1 \/ ("pathname" \in flags /\ text[t - 1] = "/")))
         /\ \/ Means(pattern, text, flags, p + 1, t)
            \/ c # "" /\ ~("pathname" \in flags /\ c = "/") /\ Means(pattern, text, flags, p, t + 1)
    [] OTHER ->
         /\ c # "" /\ c \in Chars(unit)
         /\ "pathname" \in flags /\ c = "/" => unit = "/"
         /\ "period" \in flags /\ c = "." /\ (t = 1 \/ ("pathname" \in flags /\ text[t - 1] = "/")) => unit = "."
         /\ Means(pattern, text, flags, p + 1, t + 1)

\* Going back to the last star only finds every match, and no other: with hidden
\* periods, paths and leading directories in all combinations.
MatchExact(pattern, flags, texts) ==
  \A text \in texts : Fnmatch(pattern, text, flags) = Means(pattern, text, flags, 1, 1)
=============================================================================
