----------------------------- MODULE FileEdits ------------------------------
(***************************************************************************)
(* What the file tools say of a file (tools/filesystem.py): the hunks of   *)
(* _structured_diff_hunks and the windows of                               *)
(* _render_updated_content_snippet after an edit, and the pages that       *)
(* read_file returns.                                                      *)
(*                                                                         *)
(* A text is a sequence of lines.  difflib finds which lines of the two    *)
(* texts correspond; any correspondence it could find is allowed here, and *)
(* its grouping of the differences is modelled.                            *)
(***************************************************************************)
EXTENDS Integers, SequencesExt

CONSTANTS Lines,          \* what a line may be
          Blank,          \* a line that gives no anchor
          MaxLines,       \* bound: lines of a file
          Contexts,       \* what context_lines of the diff may be
          Around,         \* context_lines of the snippet
          MaxShown,       \* max_lines of the diff
          MaxAnchors,     \* anchors taken of a text
          DefaultLines,   \* lines shown of a text without anchors
          MaxOutput       \* lines of a page that max_tool_output_chars leaves

VARIABLES
  edited,    \* an edit has been made and its result not been returned yet
  content,   \* the file
  before,    \* what the last edit found
  shown,     \* diff_hunks of the last edit
  anchors,   \* the anchors of its snippet
  windows,   \* the merged windows of its snippet, by line numbers
  page       \* the first line not read yet, and what has been read

vars == <<edited, content, before, shown, anchors, windows, page>>

Texts == UNION {[1..n -> Lines] : n \in 0..MaxLines}

Minimum(a, b) == IF a < b THEN a ELSE b
Maximum(a, b) == IF a > b THEN a ELSE b

FirstPage == [next |-> 1, read |-> <<>>]

Init ==
  /\ edited = FALSE /\ content = <<>> /\ before = <<>> /\ shown = <<>>
  /\ anchors = <<>> /\ windows = <<>> /\ page = FirstPage
-----------------------------------------------------------------------------
(* The differences.                                                        *)

\* Correspondences of two texts: pairs of equal lines, in the same order in both.
Matchings(b, a) ==
  {M \in SUBSET {p \in (DOMAIN b) \X (DOMAIN a) : b[p[1]] = a[p[2]]} :
     \A p, q \in M : p = q \/ (p[1] < q[1] /\ p[2] < q[2]) \/ (q[1] < p[1] /\ q[2] < p[2])}

Code(same, i, k, j, l) == [same |-> same, i1 |-> i, i2 |-> k, j1 |-> j, j2 |-> l]

\* get_opcodes after i lines of b and j of a; delete and insert are a replace that has
\* nothing on one side.
RECURSIVE Opcodes(_, _, _, _, _)
Opcodes(b, a, M, i, j) ==
  LET later == {p \in M : p[1] > i}
      next == IF later = {} THEN <<Len(b) + 1, Len(a) + 1>>
              ELSE CHOOSE p \in later : \A q \in later : p[1] <= q[1]
      n == CHOOSE m \in 1..(MaxLines + 1) :
             /\ \A k \in 1..(m - 1) : <<i + k, j + k>> \in M
             /\ <<i + m, j + m>> \notin M
  IN IF i = Len(b) /\ j = Len(a) THEN <<>>
     ELSE IF <<i + 1, j + 1>> \in M
     THEN <<Code(TRUE, i, i + n - 1, j, j + n - 1)>> \o Opcodes(b, a, M, i + n - 1, j + n - 1)
     ELSE <<Code(FALSE, i, next[1] - 1, j, next[2] - 1)>>
            \o Opcodes(b, a, M, next[1] - 1, next[2] - 1)

Head1(code, n) == Code(TRUE, code.i1, Minimum(code.i2, code.i1 + n),
                       code.j1, Minimum(code.j2, code.j1 + n))
Tail1(code, n) == Code(TRUE, Maximum(code.i1, code.i2 - n), code.i2,
                       Maximum(code.j1, code.j2 - n), code.j2)

\* get_grouped_opcodes: long runs of equal lines are cut down to their ends, and a
\* run in the middle divides two groups.
Grouped(codes, n) ==
  LET trimmed == [k \in DOMAIN codes |->
                    IF ~codes[k].same THEN codes[k]
                    ELSE IF k = 1 /\ k = Len(codes) THEN Head1(Tail1(codes[k], n), n)
                    ELSE IF k = 1 THEN Tail1(codes[k], n)
                    ELSE IF k = Len(codes) THEN Head1(codes[k], n) ELSE codes[k]]
      Next1(acc, code) ==
        IF code.same /\ code.i2 - code.i1 > 2 * n
        THEN [done |-> Append(acc.done, Append(acc.group, Head1(code, n))), group |-> <<Tail1(code, n)>>]
        ELSE [acc EXCEPT !.group = Append(@, code)]
      end == FoldLeft(Next1, [done |-> <<>>, group |-> <<>>], trimmed)
      whole == IF end.group = <<>> THEN end.done ELSE Append(end.done, end.group)
  IN SelectSeq(whole, LAMBDA g : Len(g) > 1 \/ ~g[1].same)

Shown(kind, old, new, text) == [kind |-> kind, old |-> old, new |-> new, text |-> text]
Gap == Shown("gap", 0, 0, Blank)
Truncated == Shown("truncated", 0, 0, Blank)

\* plausible bug: context lines numbered as if both texts had them at the same place
LinesOfOld(b, a, code) ==
  IF code.same
  THEN [k \in 1..(code.i2 - code.i1) |->
          Shown("context", code.i1 + k, code.i1 + k, b[code.i1 + k])]
  ELSE [k \in 1..(code.i2 - code.i1) |-> Shown("removed", code.i1 + k, 0, b[code.i1 + k])]
         \o [k \in 1..(code.j2 - code.j1) |-> Shown("added", 0, code.j1 + k, a[code.j1 + k])]

LinesOf(b, a, code) ==
  IF code.same
  THEN [k \in 1..(code.i2 - code.i1) |->
          Shown("context", code.i1 + k, code.j1 + k, b[code.i1 + k])]
  ELSE [k \in 1..(code.i2 - code.i1) |-> Shown("removed", code.i1 + k, 0, b[code.i1 + k])]
         \o [k \in 1..(code.j2 - code.j1) |-> Shown("added", 0, code.j1 + k, a[code.j1 + k])]

\* _structured_diff_hunks: lines are shown until there are MaxShown.
StructuredDiffHunks(b, a, M, n) ==
  LET Show(acc, group) ==
        LET all == FlattenSeq([k \in DOMAIN group |-> LinesOf(b, a, group[k])])
            start == IF acc.lines = <<>> THEN <<>> ELSE Append(acc.lines, Gap)
            room == Maximum(0, MaxShown - Len(start))
        IN IF acc.over THEN acc
           ELSE [lines |-> start \o SubSeq(all, 1, Minimum(room, Len(all))),
                 over |-> Len(all) > room]
      end == FoldLeft(Show, [lines |-> <<>>, over |-> FALSE], Grouped(Opcodes(b, a, M, 0, 0), n))
  IN IF end.over THEN Append(end.lines, Truncated) ELSE end.lines
-----------------------------------------------------------------------------
(* The snippet.                                                            *)

\* _snippet_anchor_candidates: the first few different lines that are not blank.
AnchorCandidates(text) ==
  LET new == SelectSeq([i \in DOMAIN text |-> i],
                       LAMBDA i : text[i] # Blank /\ \A j \in 1..(i - 1) : text[j] # text[i])
  IN [k \in 1..Minimum(MaxAnchors, Len(new)) |-> text[new[k]]]

\* str.find
FirstOf(text, line) == CHOOSE i \in DOMAIN text : text[i] = line /\ \A j \in 1..(i - 1) : text[j] # line

WindowsOf(text, wanted) ==
  LET found == {i \in DOMAIN text : \E k \in DOMAIN wanted : wanted[k] \in Range(text)
                                                             /\ i = FirstOf(text, wanted[k])}
  IN IF found = {} THEN {<<1, Minimum(Len(text), DefaultLines)>>}
     ELSE {<<Maximum(1, i - Around), Minimum(Len(text), i + Around)>> : i \in found}

Joins(last, w) == w[1] <= last[2] + 1

\* The windows in order, joined where they overlap or touch.
MergedWindows(text, wanted) ==
  LET Less(v, w) == v[1] < w[1] \/ (v[1] = w[1] /\ v[2] < w[2])
      Add(acc, w) == IF acc = <<>> \/ ~Joins(Last(acc), w) THEN Append(acc, w)
                     ELSE Front(acc) \o <<<<Last(acc)[1], Maximum(Last(acc)[2], w[2])>>>>
  IN IF text = <<>> THEN <<>>
     ELSE FoldLeft(Add, <<>>, SortSeq(SetToSeq(WindowsOf(text, wanted)), Less))
-----------------------------------------------------------------------------
\* write_file, and what edit_file does with one file once the text is replaced.
Edit(text, wanted) ==
  /\ ~edited /\ edited' = TRUE
  /\ content' = text /\ before' = content
  /\ \E M \in Matchings(content, text), n \in Contexts :
       shown' = StructuredDiffHunks(content, text, M, n)
  /\ anchors' = wanted
  /\ windows' = MergedWindows(text, wanted)
  /\ page' = FirstPage

WriteFile(text) == Edit(text, AnchorCandidates(text))

\* edits: the first line with the old text gets the new one; what is not found stops it.
EditFile(old, new) ==
  /\ old \in Range(content)
  /\ Edit([content EXCEPT ![FirstOf(content, old)] = new], AnchorCandidates(<<new>>))

\* The result of the edit goes to the model.
ReturnResult ==
  /\ edited /\ edited' = FALSE
  /\ before' = <<>> /\ shown' = <<>> /\ anchors' = <<>> /\ windows' = <<>>
  /\ UNCHANGED <<content, page>>

EndIndex(limit) == Minimum(Len(content), page.next - 1 + limit)

\* read_file with start_line and limit; the reader goes on after the lines it asked for.
\* A page too long for the output is cut and says so: it has to be read again with a
\* smaller limit.
ReadFile(limit) ==
  LET upTo == EndIndex(limit)
  IN /\ ~edited /\ page.next <= Len(content) /\ upTo - page.next + 1 <= MaxOutput
     /\ page' = [next |-> page.next + limit, read |-> page.read \o SubSeq(content, page.next, upTo)]
     /\ UNCHANGED <<edited, content, before, shown, anchors, windows>>

Next ==
  \/ \E text \in Texts : WriteFile(text)
  \/ \E old, new \in Lines : EditFile(old, new)
  \/ \E limit \in 1..MaxLines : ReadFile(limit)
  \/ ReturnResult

Spec == Init /\ [][Next]_vars
-----------------------------------------------------------------------------
Kind(k) == {i \in DOMAIN shown : shown[i].kind = k}

\* The hunks tell the edit: whichever lines difflib matches, a line shown as context,
\* removed or added stands, under the numbers given, in the old and the new text, and
\* if nothing is cut then the removed lines taken out of the old text and the added
\* ones put in make the new text.
HunksTellEdit ==
  edited =>
  LET removed == {shown[i].old : i \in Kind("removed")}
      added == {shown[i].new : i \in Kind("added")}
      kept == SelectSeq([i \in DOMAIN before |-> i], LAMBDA i : i \notin removed)
      others == SelectSeq([j \in DOMAIN content |-> j], LAMBDA j : j \notin added)
  IN /\ \A i \in Kind("context") \cup Kind("removed") :
          shown[i].old \in DOMAIN before /\ shown[i].text = before[shown[i].old]
     /\ \A i \in Kind("context") \cup Kind("added") :
          shown[i].new \in DOMAIN content /\ shown[i].text = content[shown[i].new]
     /\ Kind("truncated") = {} =>
          [k \in DOMAIN kept |-> before[kept[k]]] = [k \in DOMAIN others |-> content[others[k]]]

\* The snippet shows what it should: its windows are in order and apart, and cover the
\* surroundings of every anchor that the text has, and nothing else.
SnippetExact ==
  edited /\ content # <<>> =>
    /\ \A k \in 1..(Len(windows) - 1) : windows[k][2] + 1 < windows[k + 1][1]
    /\ UNION {windows[k][1]..windows[k][2] : k \in DOMAIN windows}
         = UNION {w[1]..w[2] : w \in WindowsOf(content, anchors)}

\* Pages add up: who reads a file page by page, each after the lines asked for before,
\* has read every line of it so far, once and in order.
PagesAddUp == page.read = SubSeq(content, 1, Minimum(page.next - 1, Len(content)))

\* What the tools say of a file is what is in it: the hunks and the snippet of an edit, and
\* the pages that are read.
FileTold == HunksTellEdit /\ SnippetExact /\ PagesAddUp
=============================================================================
