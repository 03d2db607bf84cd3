----------------------------- MODULE FileSearch -----------------------------
(***************************************************************************)
(* The tools glob and grep (tools/filesystem.py): braces of a pattern are  *)
(* expanded, the directory tree is walked, and what matches is listed up   *)
(* to a limit.  Searches share nothing, so one is made.                    *)
(*                                                                         *)
(* A pattern is a sequence of symbols; it is the text of a tree of         *)
(* literals and brace groups, and what the tree means is the reference for *)
(* the expansion, which only sees the text.  Backslashes have become       *)
(* slashes before the expansion.  Names are compared whole; "*" stands for *)
(* any symbols, slashes included, as in fnmatch.                           *)
(***************************************************************************)
EXTENDS Integers, SequencesExt

CONSTANTS Files,      \* the files below the workspace, as sequences of names
          Ignored,    \* names of directories that exploration leaves out, and hidden names
          HitLines,   \* how many lines of each file contain what grep looks for
          Patterns,   \* trees of patterns, see Text
          Bases,      \* directories to search in
          Unreadable, \* files that cannot be read as text
          Limits,
          MaxOutput   \* max_tool_output_chars: so many entries fit; one cut in the middle is lost

VARIABLES
  tool,      \* none, glob or grep
  tree,      \* the pattern as it is meant
  base,      \* base_path
  limit,
  variants,  \* _glob_pattern_variants
  rest,      \* what the walk has still to visit
  found,     \* the result: paths, or lines of a file
  truncated,
  returned   \* what is returned, in a sequence of one; empty before

vars == <<tool, tree, base, limit, variants, rest, found, truncated, returned>>
-----------------------------------------------------------------------------
(* Patterns and what they mean.  A tree is a sequence of items: [lit] or   *)
(* [alts], a sequence of trees.                                            *)

Lit(c) == [group |-> FALSE, lit |-> c, alts |-> <<>>]
Group(alts) == [group |-> TRUE, lit |-> "none", alts |-> alts]

RECURSIVE Text(_)
Text(t) ==
  LET Alternatives(alts) ==
        FlattenSeq([k \in DOMAIN alts |-> IF k = 1 THEN Text(alts[k]) ELSE <<",">> \o Text(alts[k])])
      Item(i) == IF i.group THEN <<"{">> \o Alternatives(i.alts) \o <<"}">> ELSE <<i.lit>>
  IN FlattenSeq([k \in DOMAIN t |-> Item(t[k])])

RECURSIVE Meaning(_)
Meaning(t) ==
  IF t = <<>> THEN {<<>>}
  ELSE LET first == IF Head(t).group THEN UNION {Meaning(a) : a \in Range(Head(t).alts)}
                    ELSE {<<Head(t).lit>>}
       IN {f \o r : f \in first, r \in Meaning(Tail(t))}
-----------------------------------------------------------------------------
(* The expansion of a text.                                                *)

\* Depth of the braces after the first n symbols; a closing brace too many does not count.
RECURSIVE Depth(_, _)
Depth(p, n) ==
  IF n = 0 THEN 0
  ELSE LET d == Depth(p, n - 1)
       IN IF p[n] = "{" THEN d + 1 ELSE IF p[n] = "}" /\ d > 0 THEN d - 1 ELSE d

\* A mutant of Commas: every comma divides.
AnyCommas(p) == SelectSeq([i \in DOMAIN p |-> i], LAMBDA i : p[i] = ",")

\* _split_brace_alternatives: the commas outside of braces divide.
Commas(p) == SelectSeq([i \in DOMAIN p |-> i], LAMBDA i : p[i] = "," /\ Depth(p, i - 1) = 0)

Alternatives(p) ==
  LET ends == <<0>> \o Commas(p) \o <<Len(p) + 1>>
  IN [k \in 1..(Len(ends) - 1) |-> SubSeq(p, ends[k] + 1, ends[k + 1] - 1)]

\* _find_first_brace_group: the first outermost group with more than one alternative.
Groups(p) ==
  {r \in (DOMAIN p) \X (DOMAIN p) :
     /\ p[r[1]] = "{" /\ Depth(p, r[1] - 1) = 0 /\ r[1] < r[2]
     /\ Depth(p, r[2]) = 0 /\ \A i \in r[1]..(r[2] - 1) : Depth(p, i) > 0
     /\ Len(Alternatives(SubSeq(p, r[1] + 1, r[2] - 1))) > 1}

Deduplicated(s) ==
  LET new == SelectSeq([i \in DOMAIN s |-> i], LAMBDA i : \A j \in 1..(i - 1) : s[j] # s[i])
  IN [k \in DOMAIN new |-> s[new[k]]]

\* _expand_brace_globs
RECURSIVE Expanded(_)
Expanded(p) ==
  IF Groups(p) = {} THEN <<p>>
  ELSE LET r == CHOOSE x \in Groups(p) : \A y \in Groups(p) : x[1] <= y[1]
           alts == Alternatives(SubSeq(p, r[1] + 1, r[2] - 1))
           prefix == SubSeq(p, 1, r[1] - 1)
           suffix == SubSeq(p, r[2] + 1, Len(p))
       IN Deduplicated(FlattenSeq([k \in DOMAIN alts |-> Expanded(prefix \o alts[k] \o suffix)]))

\* A path as symbols: _relative_label
Label(path) == FlattenSeq([k \in DOMAIN path |-> IF k = 1 THEN <<path[k]>> ELSE <<"/", path[k]>>])

\* _glob_pattern_variants: a pattern that begins with the base is also tried without it.
Variants(b, p) ==
  LET start == Label(b) \o <<"/">>
      Both(e) == IF b # <<>> /\ IsPrefix(start, e) /\ Len(e) > Len(start)
                 THEN <<e, SubSeq(e, Len(start) + 1, Len(e))>> ELSE <<e>>
      all == FlattenSeq([k \in DOMAIN Expanded(p) |-> Both(Expanded(p)[k])])
  IN SelectSeq(Deduplicated(all), LAMBDA v : v # <<>>)

\* fnmatch
RECURSIVE Matches(_, _)
Matches(label, p) ==
  IF p = <<>> THEN label = <<>>
  ELSE IF Head(p) = "*"
  THEN Matches(label, Tail(p)) \/ (label # <<>> /\ Matches(Tail(label), p))
  ELSE label # <<>> /\ Head(label) = Head(p) /\ Matches(Tail(label), Tail(p))

\* The name, the path below the base and the path below the workspace are tried.
MatchesAny(b, path, ps) ==
  LET labels == {<<Last(path)>>, Label(SubSeq(path, Len(b) + 1, Len(path))), Label(path)}
  IN \E k \in DOMAIN ps : \E l \in labels : Matches(l, ps[k])
-----------------------------------------------------------------------------
(* The walk and the result.                                                *)

\* _filtered_walk: below the base, but not in directories that are left out.
Visited(b) == {f \in Files : IsPrefix(b, f) /\ \A k \in (Len(b) + 1)..Len(f) : f[k] \notin Ignored}

\* Any order of the files is enough: what is cut off depends on it.
Init ==
  /\ tool = "none" /\ tree = <<>> /\ base = <<>> /\ limit = 1 /\ variants = <<>>
  /\ rest = {} /\ found = <<>> /\ truncated = FALSE /\ returned = <<>>

Search(which, t, b, n) ==
  /\ tool = "none"
  /\ tool' = which /\ tree' = t /\ base' = b /\ limit' = n
  /\ variants' = Variants(b, Text(t))
  /\ rest' = Visited(b)
  /\ UNCHANGED <<found, truncated, returned>>

Skip(f) ==
  /\ f \in rest /\ ~truncated
  /\ ~MatchesAny(base, f, variants)
  /\ rest' = rest \ {f}
  /\ UNCHANGED <<tool, tree, base, limit, variants, found, truncated, returned>>

Full(list) == Len(list) >= limit

\* glob_search: a file is listed once.
ListFile(f) ==
  /\ tool = "glob" /\ f \in rest /\ ~truncated /\ MatchesAny(base, f, variants)
  /\ found' = Append(found, <<f, 0>>)
  /\ truncated' = Full(found')
  /\ rest' = rest \ {f}
  /\ UNCHANGED <<tool, tree, base, limit, variants, returned>>

\* grep_search: its lines are listed until the limit; one that cannot be read is passed over.
ListLines(f) ==
  LET lines == IF f \in Unreadable THEN <<>> ELSE [n \in 1..HitLines[f] |-> <<f, n>>]
      room == limit - Len(found)
  IN /\ tool = "grep" /\ f \in rest /\ ~truncated /\ MatchesAny(base, f, variants)
     /\ found' = found \o (IF Len(lines) < room THEN lines ELSE SubSeq(lines, 1, room))
     /\ truncated' = Full(found')
     /\ rest' = rest \ {f}
     /\ UNCHANGED <<tool, tree, base, limit, variants, returned>>

\* "... (n results shown)"
Marker == <<<<>>, limit>>

\* The result is returned, as much of it as fits.
Return ==
  LET all == IF truncated THEN Append(found, Marker) ELSE found
  IN /\ tool # "none" /\ (rest = {} \/ truncated) /\ returned = <<>>
     /\ returned' = <<IF Len(all) <= MaxOutput THEN all ELSE SubSeq(all, 1, MaxOutput)>>
     /\ UNCHANGED <<tool, tree, base, limit, variants, rest, found, truncated>>

Next ==
  \/ \E which \in {"glob", "grep"}, t \in Patterns, b \in Bases, n \in Limits : Search(which, t, b, n)
  \/ \E f \in rest : Skip(f) \/ ListFile(f) \/ ListLines(f)
  \/ Return

Spec == Init /\ [][Next]_vars
-----------------------------------------------------------------------------
\* Nothing that is meant is missed: whatever way groups are nested and follow each other,
\* a result that does not say that it was cut, and does not fill the room there is, has
\* each file visited whose path matches what the pattern means, with all the lines found
\* in it if it can be read. (A result that fills the room may lack entries and the marker.)
NothingMissed ==
  \A r \in Range(returned) :
    ~Contains(r, Marker) /\ Len(r) < MaxOutput =>
      \A f \in Visited(base), m \in Meaning(tree) :
        Matches(Label(f), m) =>
          IF tool = "glob" THEN Contains(r, <<f, 0>>)
          ELSE f \in Unreadable \/ \A n \in 1..HitLines[f] : Contains(r, <<f, n>>)

=============================================================================
