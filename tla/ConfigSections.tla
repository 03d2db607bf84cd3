--------------------------- MODULE ConfigSections ---------------------------
(***************************************************************************)
(* The settings page of the user interfaces and the user's configuration   *)
(* file behind it (desktop/backend/server.py): the page shows a section,   *)
(* the section as the user edited it replaces the one in the file, and the *)
(* runtime reloads what the section is about.  A load writes the block of  *)
(* built-in notification hooks anew, between two comments                  *)
(* (config/settings.py).                                                   *)
(*                                                                         *)
(* The file is a sequence of lines: headers of tables, assignments and the *)
(* two comments.                                                           *)
(***************************************************************************)
EXTENDS Integers, Sequences, SequencesExt, FiniteSetsExt

CONSTANTS Keys,     \* the sections edited, a subset of AllKeys
          Values,   \* what a section is set to
          MaxSaves  \* bound: saves

VARIABLES file,     \* the lines of the file
          loaded,   \* what the runtime has of each section
          fresh,    \* sections reloaded after they were last saved
          wanted,   \* history variable: what the user saved of each section
          saves

vars == <<file, loaded, fresh, wanted, saves>>

AllKeys == {"provider", "runtime", "mcp", "hooks", "system_prompt"}

Header(key) == [k |-> "header", n |-> key, v |-> "none"]
Hook(h) == [k |-> "hook", n |-> h, v |-> "none"]        \* [[hooks]]
Set(v) == [k |-> "value", n |-> "set", v |-> v]
Switch(v) == [k |-> "value", n |-> "enabled", v |-> v]
Begin == [k |-> "begin", n |-> "none", v |-> "none"]
End == [k |-> "end", n |-> "none", v |-> "none"]

IsHeader(line) == line.k \in {"header", "hook"}
IsValue(line) == line.k = "value"
Where(ls, I) == LET at == SelectSeq([i \in DOMAIN ls |-> i], LAMBDA i : i \in I)
                IN [j \in DOMAIN at |-> ls[at[j]]]
-----------------------------------------------------------------------------
(* The section of a line (_line_matches_config_section).                   *)

InBlock(ls, i) == \E b \in 1..i : ls[b] = Begin /\ \A j \in b..(i - 1) : ls[j] # End

\* A mutant of HeaderKey: the header of an array of tables is taken for a value.
TableKey(line, before) == IF line.k = "header" THEN line.n ELSE before

\* The section that begins with a header.
HeaderKey(line, before) == IF line.k = "hook" THEN "hooks" ELSE line.n

\* The section the lines up to i have led to: it ends at the next header or after the block.
KeyOf(ls, i) ==
  LET key[j \in 0..i] ==
        IF j = 0 THEN "none"
        ELSE LET before == IF j > 1 /\ ls[j - 1] = End THEN "none" ELSE key[j - 1]
             IN IF IsHeader(ls[j]) THEN HeaderKey(ls[j], before) ELSE before
  IN key[i]

Belongs(ls, i, key) == KeyOf(ls, i) = key \/ (key = "hooks" /\ InBlock(ls, i))

\* _extract_config_section, _remove_config_section
Extract(ls, key) == Where(ls, {i \in DOMAIN ls : Belongs(ls, i, key)})
Without(ls, key) == Where(ls, {i \in DOMAIN ls : ~Belongs(ls, i, key)})

\* _replace_config_section
Replace(ls, key, content) == Without(ls, key) \o content
-----------------------------------------------------------------------------
(* What a parser finds, comments ignored.                                  *)

\* The table of a line for the parser: comments end none.
TableOf(ls, i) ==
  LET heads == {j \in 1..i : IsHeader(ls[j])}
  IN IF heads = {} THEN Header("none") ELSE ls[Max(heads)]

\* The assignments of a section; those of built-in hooks are not the user's.
Parsed(ls, key) ==
  LET of(t) == IF key = "hooks" THEN t = Hook("own") ELSE t = Header(key)
  IN Where(ls, {i \in DOMAIN ls : IsValue(ls[i]) /\ of(TableOf(ls, i))})

Contents(ls) == [key \in AllKeys |-> Parsed(ls, key)]

\* _ensure_global_builtin_notify_hooks: what is in the block goes, with the managed hooks
\* outside of it, and the block is put at the end.
StripBlock(ls) == Where(ls, {i \in DOMAIN ls : ~InBlock(ls, i) /\ ls[i] # End})
StripManaged(ls) == Where(ls, {i \in DOMAIN ls : TableOf(ls, i) # Hook("builtin") \/ ~(IsHeader(ls[i]) \/ IsValue(ls[i]))})
EnsureBuiltin(ls) == StripManaged(StripBlock(ls)) \o <<Begin, Hook("builtin"), Set("notify"), End>>
-----------------------------------------------------------------------------
\* load_settings: at the start of the program, or when a section is reloaded.
Loaded(ls) ==
  /\ file' = EnsureBuiltin(ls)
  /\ loaded' = Contents(file')
  /\ fresh' = AllKeys

\* A file the user wrote, before the program is started with it.
Init ==
  \E order \in SetToSeqs(Keys \ {"hooks"}), v \in Values, own \in BOOLEAN :
    /\ file = EnsureBuiltin(FlattenSeq([i \in DOMAIN order |-> <<Header(order[i]), Set(v)>>])
                            \o (IF own THEN <<Hook("own"), Set(v)>> ELSE <<>>))
    /\ loaded = Contents(file)
    /\ fresh = AllKeys
    /\ wanted = loaded
    /\ saves = 0

\* What the user makes of the text of a section: other values in it, comments left as they
\* are, or a text of his own.
Drafts(key) ==
  LET shown == Extract(file, key)
      head == IF key = "hooks" THEN Hook("own") ELSE Header(key)
  IN {<<>>} \cup {<<head, Set(v)>> : v \in Values}
       \cup {[i \in DOMAIN shown |->
                IF IsValue(shown[i]) /\ shown[i].n = "set" /\ TableOf(shown, i) = head THEN Set(v) ELSE shown[i]] :
              v \in Values}

\* save_config_section. The servers are reloaded without a load of the rest.
SaveConfigSection(key, content) ==
  LET text == Replace(file, key, content)
  IN /\ saves < MaxSaves /\ saves' = saves + 1
     /\ wanted' = [wanted EXCEPT ![key] = Parsed(content, key)]
     /\ CASE key \in {"provider", "runtime"} -> Loaded(text)
          [] key = "mcp" -> /\ file' = text
                            /\ loaded' = [loaded EXCEPT ![key] = Parsed(text, key)]
                            /\ fresh' = fresh \cup {key}
          [] OTHER -> file' = text /\ fresh' = fresh \ {key} /\ UNCHANGED loaded

\* _upsert_mcp_enabled_in_table: the assignment is replaced, or put before the next header.
SwitchIn(ls, v) ==
  LET start == Min({i \in DOMAIN ls : ls[i] = Header("mcp")})
      after == Min({i \in (start + 1)..Len(ls) : IsHeader(ls[i])} \cup {Len(ls) + 1})
      there == {i \in (start + 1)..(after - 1) : IsValue(ls[i]) /\ ls[i].n = "enabled"}
  IN IF there # {} THEN ReplaceAt(ls, Min(there), Switch(v)) ELSE InsertAt(ls, after, Switch(v))

\* set_mcp_server_enabled, of the server of the file.
SetMcpServerEnabled(v) ==
  /\ saves < MaxSaves /\ saves' = saves + 1
  /\ \E i \in DOMAIN file : file[i] = Header("mcp")
  /\ file' = SwitchIn(file, v)
  /\ wanted' = [wanted EXCEPT !["mcp"] = SelectSeq(@, LAMBDA line : line.n # "enabled") \o <<Switch(v)>>]
  /\ loaded' = [loaded EXCEPT !["mcp"] = wanted'["mcp"]]
  /\ UNCHANGED fresh

\* The program is started again.
Start == Loaded(file) /\ UNCHANGED <<wanted, saves>>

Next ==
  \/ \E key \in Keys : \E content \in Drafts(key) : SaveConfigSection(key, content)
  \/ \E v \in {"true", "false"} : SetMcpServerEnabled(v)
  \/ Start

Spec == Init /\ [][Next]_vars
-----------------------------------------------------------------------------
\* Saving a section, that of the hooks with the comments around it aside, changes nothing a
\* parser finds in the others, wherever they stand in the file and wherever the two comments
\* have come to be.
OthersKept ==
  \A key \in Keys \ {"hooks"} : \A content \in Drafts(key) :
    LET text == Replace(file, key, content)
    IN \A other \in AllKeys \ {key} : Parsed(text, other) = Parsed(file, other)

\* tests/test_sidecar_server.py:501,
\* test_saving_runtime_config_reloads_limits_immediately: what was saved of a section is what
\* the runtime has after it was reloaded. The code breaks it: the comment before the block
\* belongs to the section above it, a save moves it to the end, and a load then takes all
\* that comes after it for the block.
SavedIsLoaded == \A key \in fresh : loaded[key] = wanted[key]
=============================================================================
