----------------------------- MODULE ConfigFiles -----------------------------
(* The user's and the project's configuration file as the program edits     *)
(* them: line by line, so that what the user wrote stays (config/settings). *)
(* A file is a sequence of lines.  Kept of a line is what the edits look    *)
(* at: the headers of sections and of hooks, the assignments, and the two   *)
(* comments around the block of built-in notification hooks.  A runtime     *)
(* holds what its last successful load gave it (mem).                       *)
EXTENDS Naturals, Sequences, SequencesExt, FiniteSets, FiniteSetsExt

CONSTANTS Providers, Models,
          MaxEdits,     \* bound on edits
          MaxBreaks     \* bound on files made unreadable from outside

VARIABLES file,         \* scope -> lines, or Broken
          lastGood,     \* scope -> the copy kept by the last successful load
          mem,          \* the settings of the running runtime
          wanted,       \* hook -> the switch its user last put it to, Unsaid for a
                        \*   hook that had no "enabled" line
          edits, breaks

vars == <<file, lastGood, mem, wanted, edits, breaks>>

Scopes == {"user", "project"}
Builtin == <<"AssistantResponse", "TurnFailed">>   \* two of the three events
Own == "own"                                       \* a hook of the user's
Hooks == {Own} \cup {Builtin[i] : i \in DOMAIN Builtin}

\* All values are sequences of strings; TRUE and FALSE are written likewise.
On == <<"true">>
Off == <<"false">>
Unsaid == <<>>
Section(n) == [k |-> "section", n |-> n, v |-> <<>>]
Value(key, v) == [k |-> "value", n |-> key, v |-> v]
HookLine(h) == [k |-> "hook", n |-> h, v |-> <<>>]
Enabled(v) == Value("enabled", v)
Begin == [k |-> "begin", n |-> "", v |-> <<>>]
End == [k |-> "end", n |-> "", v |-> <<>>]
Broken == <<[k |-> "broken", n |-> "", v |-> <<>>]>>
NoFile == <<>>

IsHeader(line) == line.k \in {"section", "hook"}
IsComment(line) == line.k \in {"begin", "end"}
Lines(ls, first, after) == SubSeq(ls, first, after - 1)
Positions(ls, S) == SelectSeq([i \in DOMAIN ls |-> i], LAMBDA i : i \in S)
Keep(ls, S) == LET at == Positions(ls, S) IN [j \in DOMAIN at |-> ls[at[j]]]
-----------------------------------------------------------------------------
(* Sections.                                                                *)

NextHeader(ls, i) == Min({j \in (i + 1)..Len(ls) : IsHeader(ls[j])} \cup {Len(ls) + 1})
StartsOf(ls, header) == {i \in DOMAIN ls : ls[i] = header}

Upsert(ls, n, key, v) ==
  IF StartsOf(ls, Section(n)) = {} THEN ls \o <<Section(n), Value(key, v)>>
  ELSE LET start == Max(StartsOf(ls, Section(n)))
           there == {i \in (start + 1)..(NextHeader(ls, start) - 1) :
                       ls[i].k = "value" /\ ls[i].n = key}
       IN IF there # {} THEN ReplaceAt(ls, Min(there), Value(key, v))
          ELSE InsertAt(ls, start + 1, Value(key, v))

RemoveSection(ls, n) ==
  IF StartsOf(ls, Section(n)) = {} THEN ls
  ELSE LET start == Max(StartsOf(ls, Section(n)))
       IN Lines(ls, 1, start) \o Lines(ls, NextHeader(ls, start), Len(ls) + 1)

\* An assignment goes; a section left with comments only goes with it.
RemoveValue(ls, n, key) ==
  IF StartsOf(ls, Section(n)) = {} THEN ls
  ELSE LET start == Max(StartsOf(ls, Section(n)))
           body == Lines(ls, start + 1, NextHeader(ls, start))
           kept == SelectSeq(body, LAMBDA l : ~(l.k = "value" /\ l.n = key))
       IN IF \A i \in DOMAIN kept : IsComment(kept[i]) THEN RemoveSection(ls, n)
          ELSE Lines(ls, 1, start + 1) \o kept \o Lines(ls, NextHeader(ls, start), Len(ls) + 1)

\* What a parser reads: the value of a key of a section, <<>> for none.
Read(ls, n, key) ==
  LET starts == StartsOf(ls, Section(n))
      at == {i \in DOMAIN ls : /\ ls[i].k = "value" /\ ls[i].n = key
                               /\ \E s \in starts : s < i /\ i < NextHeader(ls, s)}
  IN IF at = {} THEN <<>> ELSE ls[Min(at)].v
HasSection(ls, n) == StartsOf(ls, Section(n)) # {}
-----------------------------------------------------------------------------
(* Hooks.                                                                   *)

SwitchAt(ls, i) ==
  LET at == {j \in (i + 1)..(NextHeader(ls, i) - 1) : ls[j].n = "enabled"}
  IN IF at = {} THEN On ELSE ls[Min(at)].v
HookStarts(ls) == {i \in DOMAIN ls : ls[i].k = "hook"}

\* The hooks of a file, in its order, with the positions they are edited by.
ParsedHooks(ls) ==
  LET starts == Positions(ls, HookStarts(ls))
  IN [i \in DOMAIN starts |-> [name |-> ls[starts[i]].n, on |-> SwitchAt(ls, starts[i])]]

\* The block of built-in hooks goes, with the comments around it ...
InBlock(ls, i) == \E b \in 1..i : ls[b] = Begin /\ \A j \in b..(i - 1) : ls[j] # End
StripBlock(ls) == Keep(ls, {i \in DOMAIN ls : ~InBlock(ls, i) /\ ls[i] # End})

\* ... and so does every hook of its manager that stands outside the block.
StripNothing(ls) == ls                                             \* a mutant
StripManaged(ls) ==
  LET managed == {i \in HookStarts(ls) : ls[i].n # Own}
  IN Keep(ls, {j \in DOMAIN ls : \A i \in managed : j < i \/ j >= NextHeader(ls, i)})

KnownSwitch(ls, h) ==
  LET at == {i \in HookStarts(ls) : ls[i].n = h}
  IN IF at = {} THEN On ELSE SwitchAt(ls, Max(at))
BuiltinBlock(ls) ==
  <<Begin>> \o FlattenSeq([i \in DOMAIN Builtin |->
                 <<HookLine(Builtin[i]), Enabled(KnownSwitch(ls, Builtin[i]))>>]) \o <<End>>
EnsureBuiltin(ls) == StripManaged(StripBlock(ls)) \o BuiltinBlock(ls)

\* The block of the hook that is i-th of its file ends at the next header;
\* the switch is put there when the block has none.
SetSwitch(ls, i, v) ==
  LET start == Positions(ls, HookStarts(ls))[i]
      after == NextHeader(ls, start)
      there == {j \in (start + 1)..(after - 1) : ls[j].n = "enabled"}
  IN IF there # {} THEN ReplaceAt(ls, Min(there), Enabled(v))
     ELSE InsertAt(ls, after, Enabled(v))
-----------------------------------------------------------------------------
(* What a pair of files configures; the project's file has the last word.   *)

Override(f, n, key) ==
  IF Read(f["project"], n, key) # <<>> THEN Read(f["project"], n, key) ELSE Read(f["user"], n, key)
Configured(f) == {p \in Providers : \E s \in Scopes : HasSection(f[s], p)}
ModelsOf(f, p) == Range(Override(f, p, "models")) \cup Range(Override(f, p, "default_model"))
DefaultOf(f) == Range(Override(f, "providers", "default"))
RouteOf(f) == Override(f, "routing", "vision")
RouteStands(f) ==
  LET r == RouteOf(f) IN r # <<>> => r[1] \in Configured(f) /\ r[2] \in ModelsOf(f, r[1])
Loads(f) ==
  /\ Configured(f) # {}
  /\ DefaultOf(f) \subseteq Configured(f)
  /\ RouteStands(f)

Settings(f) ==
  [models |-> [p \in Configured(f) |-> ModelsOf(f, p)], hooks |-> ParsedHooks(f["user"])]
Prepared(f) == [f EXCEPT !["user"] = EnsureBuiltin(@)]

\* A file that cannot be read is replaced by the copy of the last load, if
\* there is one; the load is tried once more, so one file can be helped.
Restored(f, s) == [f EXCEPT ![s] = IF lastGood[s] # NoFile THEN lastGood[s] ELSE @]
Recovered(f) ==
  CASE f["user"] = Broken    -> Restored(f, "user")
    [] f["project"] = Broken -> Restored(f, "project")
    [] OTHER                 -> f
IsBroken(f) == \E s \in Scopes : f[s] = Broken

\* load_settings on the files f: the memory and the copies change only if it
\* does not raise.  What a restored file says counts as wanted.
Load(f, chosen) ==
  LET read == Recovered(f)
      found == IF read["user"] = Broken THEN read ELSE Prepared(read)
  IN /\ file' = found
     /\ wanted' = IF read["user"] = f["user"] THEN chosen
                  ELSE [h \in Hooks |-> IF chosen[h] = Unsaid THEN Unsaid
                                   ELSE KnownSwitch(read["user"], h)]
     /\ IF ~IsBroken(found) /\ Loads(found)
        THEN mem' = Settings(found) /\ lastGood' = found
        ELSE UNCHANGED <<mem, lastGood>>
-----------------------------------------------------------------------------
(* The edits.                                                               *)

Edit == edits < MaxEdits /\ edits' = edits + 1 /\ UNCHANGED breaks
Edited(s, ls) == [file EXCEPT ![s] = IF @ = Broken THEN Broken ELSE ls]
Saved(f) == file' = f /\ UNCHANGED <<lastGood, mem, wanted>>

SwitchProviderModel(p, model) ==
  /\ Edit
  /\ Saved(Edited("project", Upsert(Upsert(file["project"], "providers", "default", <<p>>),
                                    p, "default_model", <<model>>)))

SetReasoningLevel(p, level) ==
  LET cleared == RemoveValue(file["project"], p, "reasoning_level")
      traits == "traits." \o p
  IN /\ Edit
     /\ Saved(Edited("project",
          IF level = "auto" THEN RemoveValue(cleared, traits, "reasoning_level")
          ELSE Upsert(cleared, traits, "reasoning_level", <<level>>)))

SetVisionModel(s, p, model) ==
  Edit /\ Load(Edited(s, Upsert(file[s], "routing", "vision", <<p, model>>)), wanted)

NeedsDefault(old, p) == Read(file["user"], "providers", "default") \in {<<>>, <<old>>, <<p>>}
KeptModel(old, list) ==
  LET kept == Read(file["user"], old, "default_model")
  IN IF Range(kept) \cap Range(list) # {} THEN kept ELSE <<list[1]>>
Profile(old, p, list) ==
  LET fresh == IF old # p THEN RemoveSection(file["user"], old) ELSE file["user"]
      chosen == IF NeedsDefault(old, p) THEN Upsert(fresh, "providers", "default", <<p>>) ELSE fresh
  IN Upsert(Upsert(chosen, p, "models", list), p, "default_model", KeptModel(old, list))

\* The session's own command goes on to load the result; the command line's
\* is a process of its own, which loads before and leaves the memory of a
\* running one alone.
PersistProviderProfile(old, p, list, here) ==
  LET f == [file EXCEPT !["user"] = EnsureBuiltin(Profile(old, p, list))]
  IN /\ Edit
     /\ file["user"] # Broken
     /\ IF here THEN Load(f, wanted)
        ELSE /\ ~IsBroken(file) /\ Loads(file)
             /\ file' = f /\ lastGood' = file /\ UNCHANGED <<mem, wanted>>

\* The hook is found by its position in the file as it was loaded.
SetHookEnabled(i, v) ==
  /\ Edit
  /\ file["user"] # Broken
  /\ Load([file EXCEPT !["user"] = SetSwitch(@, i, v)],
          [wanted EXCEPT ![mem.hooks[i].name] = IF @ = Unsaid THEN Unsaid ELSE v])

\* The user saves a file with a mistake in it.
Break(s) ==
  /\ breaks < MaxBreaks
  /\ file[s] \notin {NoFile, Broken}
  /\ breaks' = breaks + 1
  /\ file' = [file EXCEPT ![s] = Broken]
  /\ UNCHANGED <<lastGood, mem, wanted, edits>>

Reload == Load(file, wanted) /\ UNCHANGED <<edits, breaks>>
-----------------------------------------------------------------------------
Lists == {SetToSeq(S) : S \in SUBSET Models \ {{}}}

\* The first provider was set up, the user added a hook of his own, with the
\* "enabled" line that says what it would be without or with none, and the
\* runtime has loaded that.
FirstFile(p, list, explicit) ==
  EnsureBuiltin(<<Section("providers"), Value("default", <<p>>), Section(p),
                  Value("models", list), Value("default_model", <<list[1]>>), HookLine(Own)>>
                \o (IF explicit THEN <<Enabled(On)>> ELSE <<>>))

Init ==
  \E p \in Providers, list \in Lists, explicit \in BOOLEAN :
    /\ file = [s \in Scopes |-> IF s = "user" THEN FirstFile(p, list, explicit) ELSE NoFile]
    /\ lastGood = file
    /\ mem = Settings(file)
    /\ wanted = [h \in Hooks |-> IF h = Own /\ ~explicit THEN Unsaid ELSE On]
    /\ edits = 0 /\ breaks = 0

Next ==
  \/ \E p \in DOMAIN mem.models :
       \/ \E model \in mem.models[p] :
            \/ SwitchProviderModel(p, model)
            \/ \E s \in Scopes : SetVisionModel(s, p, model)
       \/ \E level \in {"auto", "high"} : SetReasoningLevel(p, level)
  \/ \E p \in Providers, list \in Lists, here \in BOOLEAN :
       \E old \in (IF here THEN DOMAIN mem.models ELSE Configured(file)) \cup {p} : PersistProviderProfile(old, p, list, here)
  \/ \E i \in DOMAIN mem.hooks, v \in {On, Off} : SetHookEnabled(i, v)
  \/ \E s \in Scopes : Break(s)
  \/ Reload

Spec == Init /\ [][Next]_vars
-----------------------------------------------------------------------------
(* Properties.                                                              *)

\* Whatever is edited, renamed, switched or restored, the user's file has each
\* hook once, switched the way its user last left it.  Of a hook without an
\* "enabled" line only the first holds: SetSwitch puts the new line of the last
\* hook before the built-in ones after the comment Begin, and the load that
\* follows drops it with the block, against Docs/Core/14-Hooks.md:84.
HooksKept ==
  file["user"] # Broken =>
    LET found == ParsedHooks(file["user"])
    IN /\ Len(found) = Cardinality(Hooks) /\ {found[i].name : i \in DOMAIN found} = Hooks
       /\ \A h \in Hooks : wanted[h] # Unsaid => KnownSwitch(file["user"], h) = wanted[h]

=============================================================================
