------------------------------- MODULE MCTools -------------------------------
(***************************************************************************)
(* The components below the agent loop in one run: the task board, the     *)
(* calls of tools, the MCP servers, the images and the teammates, which    *)
(* this module extends, and five that share no variables with them. In     *)
(* each behaviour one component moves, the one that SuiteInit chooses, and *)
(* the others stay as they are, so the states of the run are those of the  *)
(* components side by side, not their product.                             *)
(***************************************************************************)
EXTENDS TaskBoard, ToolCalls, McpServers, ModelImages, TeamTasks, SequencesExt

CONSTANTS Providers, Models,                     \* ConfigFiles
          Keys, Values                           \* ConfigSections

\* One hook of each event and of each way to fail, of which any are switched on.
FourHooks == << [event |-> "PreToolUse", onError |-> "fail"], [event |-> "PreToolUse", onError |-> "continue"],
                [event |-> "PostToolUse", onError |-> "fail"], [event |-> "PostToolUse", onError |-> "continue"] >>

\* Files of the search: s/a, s/b, s/t/a, a and n/a, where n is left out.
SearchedFiles == {<<"s", "a">>, <<"s", "b">>, <<"s", "t", "a">>, <<"a">>, <<"n", "a">>}
Hits == [f \in SearchedFiles |-> IF f = <<"a">> THEN 2 ELSE 1]

\* The second task waits for the first; anybody may take them.
TaskChain == [t \in 1..2 |-> 1..(t - 1)]
NobodyPreferred == [t \in 1..2 |-> 0]

VARIABLES
  moves,    \* the component that moves
  configFile, lastGood, mem, configWanted, edits, breaks,
  sectionFile, loaded, fresh, sectionWanted, saves,
  raw, split, streamShown, streamSent, streamCalls, streamTurn,
  tool, tree, base, limit, variants, rest, found, truncated, returned,
  edited, content, before, editShown, anchors, windows, page

configVars == <<configFile, lastGood, mem, configWanted, edits, breaks>>
sectionsVars == <<sectionFile, loaded, fresh, sectionWanted, saves>>
streamVars == <<raw, split, streamShown, streamSent, streamCalls, streamTurn>>
searchVars == <<tool, tree, base, limit, variants, rest, found, truncated, returned>>
editsVars == <<edited, content, before, editShown, anchors, windows, page>>

Config == INSTANCE ConfigFiles WITH
            file <- configFile, wanted <- configWanted,
            MaxEdits <- 3, MaxBreaks <- 1
Sections == INSTANCE ConfigSections WITH
              file <- sectionFile, wanted <- sectionWanted, MaxSaves <- 2
Stream == INSTANCE ProviderStream WITH
            shown <- streamShown, sent <- streamSent, calls <- streamCalls, turn <- streamTurn,
            MaxText <- 7, MaxPiece <- 2, MaxCalls <- 2, MaxArguments <- 1

\* Trees with two groups one after the other or one in the other, before or after a
\* literal; groups without a literal; a star.
Lit(c) == [group |-> FALSE, lit |-> c, alts |-> <<>>]
Group(alts) == [group |-> TRUE, lit |-> "none", alts |-> alts]
Small == {<<>>, <<Lit("a")>>, <<Lit("b")>>, <<Lit("*")>>}
Flat == {<<Group(<<x, y>>)>> : x, y \in Small \ {<<Lit("*")>>}}
Below == {<<Lit("s"), Lit("/")>> \o g : g \in Flat}
          \cup {<<Lit("s"), Lit("/")>> \o g \o h : g \in Flat, h \in {<<Group(<<<<>>, <<Lit("a")>>>>)>>}}
Nested == {<<Group(<<<<Lit("s"), Lit("/")>> \o g, x>>)>> : g \in Flat, x \in Small}
Mixed == {<<Group(<<<<Lit("s")>>, <<Lit("s"), Lit("/"), Lit("t")>>>>), Lit("/")>> \o g : g \in Flat}
SearchPatterns == Flat \cup Below \cup Nested \cup Mixed
                    \cup {<<Lit("*")>>, <<Lit("s"), Lit("/"), Lit("*")>>}

Search == INSTANCE FileSearch WITH
            Files <- SearchedFiles, HitLines <- Hits, Ignored <- {"n"},
            Unreadable <- {<<"s", "b">>}, Patterns <- SearchPatterns, Bases <- {<<>>, <<"s">>},
            Limits <- {1, 4}, MaxOutput <- 4
Edits == INSTANCE FileEdits WITH
           shown <- editShown, Lines <- {"a", "b", "c"}, Blank <- "c", MaxLines <- 3, Contexts <- {0, 1},
           Around <- 0, MaxShown <- 5, MaxAnchors <- 2, DefaultLines <- 2, MaxOutput <- 2
-----------------------------------------------------------------------------
\* How the components begin that have several initial states and do not move.
FirstConfig == [s \in Config!Scopes |-> IF s = "user" THEN Config!FirstFile(CHOOSE p \in Providers : TRUE,
                                                                          CHOOSE l \in Config!Lists : TRUE, TRUE)
                                       ELSE Config!NoFile]
FirstSections ==
  LET tables == SetToSeq(Keys \ {"hooks"})
  IN Sections!EnsureBuiltin(FlattenSeq([i \in DOMAIN tables |->
       <<Sections!Header(tables[i]), Sections!Set(CHOOSE v \in Values : TRUE)>>]))

SuiteInit ==
  /\ moves \in {"board", "config", "sections", "stream", "hooks", "mcp",
                "search", "edits", "images", "team"}
  /\ Init /\ Stream!Init /\ Search!Init /\ Edits!Init /\ ImagesInit /\ TasksInit
  /\ Config!Init /\ (moves = "config" \/ configFile = FirstConfig)
  /\ Sections!Init /\ (moves = "sections" \/ sectionFile = FirstSections)
  /\ HooksInit /\ (moves = "hooks" \/ manager = {})
  /\ McpInit /\ (moves = "mcp" \/ enabled = {})

SuiteNext ==
  /\ UNCHANGED moves
  /\ IF moves = "board" THEN Next ELSE UNCHANGED vars
  /\ IF moves = "config" THEN Config!Next ELSE UNCHANGED configVars
  /\ IF moves = "sections" THEN Sections!Next ELSE UNCHANGED sectionsVars
  /\ IF moves = "stream" THEN Stream!Next ELSE UNCHANGED streamVars
  /\ IF moves = "hooks" THEN HooksNext ELSE UNCHANGED hooksVars
  /\ IF moves = "mcp" THEN McpNext ELSE UNCHANGED mcpVars
  /\ IF moves = "search" THEN Search!Next ELSE UNCHANGED searchVars
  /\ IF moves = "edits" THEN Edits!Next ELSE UNCHANGED editsVars
  /\ IF moves = "images" THEN ImagesNext ELSE UNCHANGED imagesVars
  /\ IF moves = "team" THEN TasksNext ELSE UNCHANGED tasksVars

suiteVars == <<moves, vars, configVars, sectionsVars, streamVars, hooksVars, mcpVars,
               searchVars, editsVars, imagesVars, tasksVars>>

SuiteSpec == SuiteInit /\ [][SuiteNext]_suiteVars
-----------------------------------------------------------------------------
\* The properties of the instances, stated in their modules.
HooksKept == moves = "config" => Config!HooksKept
OthersKept == moves = "sections" => Sections!OthersKept
StreamedIsReply == moves = "stream" => Stream!StreamedIsReply
NothingMissed == moves = "search" => Search!NothingMissed
FileTold == moves = "edits" => Edits!FileTold
=============================================================================
