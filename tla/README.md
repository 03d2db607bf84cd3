# A TLA+ verification project for Somnia

Somnia (`open_somnia`) is a coding agent: an agent loop that calls a model and
executes its tools in a workspace, with undo and checkpoints, a board of
persistent tasks worked on by the lead and its teammate threads, a terminal, a
desktop sidecar, and remote access from a browser through a relay. This directory
holds TLA+ models of the parts of it that keep state, the TLC configurations that
check them on small instances, and TLAPS proofs of what matters most.

Line numbers below are those of `src/open_somnia/...` unless a path is given.

## Inventory

| Component | State | Operations | What is hard, what must hold |
|---|---|---|---|
| Agent loop (`runtime/agent.py`) | messages, provider threads, flags of the loop | `run_turn`, `_agent_loop`, `_complete_with_interrupt_polling` | many ways out of a round; each call needs a result; threads left behind |
| Session history (`runtime/session.py`, `storage/transcripts.py`) | undo stack, checkpoints, session file | undo, checkpoint, rollback, prune | sequences of undo, trim and rollback; crashes between restored files |
| Context (`runtime/compact.py`, `runtime/agent.py`) | history, payload cache, janitor state | review, compact, build a payload | positions in a history that shifts; calls cut from results |
| Images (`runtime/messages.py`, `compact.py`) | image blocks of the history | send once, then refer | which image is current when notices come between |
| Tool calls and hooks (`tools/registry.py`, `hooks/`) | hook manager | before, run, after | hooks reloaded in the middle of a call; failures |
| Files and searches (`tools/filesystem.py`) | files | write, edit, read, glob, grep | line numbers, pages, nested braces, limits |
| Task board (`storage/tasks.py`) | one file per task, id counter | create, claim, update, delete | read-modify-write from many threads |
| Teammates (`runtime/teammate.py`) | members, threads, stop events | spawn, assign, auto-claim, time out, suspend, restore | assignment races the timeout; threads that come late |
| Messaging (`collaboration/`, `storage/inbox.py`) | inbox files, request tracker | send, drain, request, resolve | lost messages; files without locks; late answers |
| Turn host (`app_service/`) | active turns, pending requests | run, interrupt, answer, time out | two turns, one primary runtime; answers racing timeouts |
| Permissions (`runtime/permissions.py`) | once and workspace grants | authorize, grant | a grant used twice |
| Terminal (`cli/repl.py`) | queue of prompts, worker, handle | enter, interrupt, inject | an interrupt before the turn is known |
| Sidecar (`desktop/backend/server.py`) | active turns, client queues | publish, drain, connect | results overtaking events; clients that come late |
| Desktop client (`desktop/ui/src/App.tsx`) | queued prompts, shown turns | queue, send, inject, put back | refused and overtaken requests |
| Configuration (`config/`, `desktop/backend/server.py`) | two files, their backups | edit, rename, switch, load, save a section | edits line by line around a block the program owns |
| MCP client (`mcp/`) | clients, sessions | call, enable, refresh, close | threads that use what another closes |
| Background jobs (`tools/background.py`, `storage/jobs.py`) | `jobs.json`, processes, notices | run, time out, notify, drain | read-modify-write from several threads |
| Provider streams (`providers/openai_provider.py`) | splitter, partial calls | one reply | tags and arguments cut anywhere |
| Runtime ownership (`remote/runtime_manager.py`) | owner files, connections file | start, stop | several processes, crashes |
| Connector, Relay (`remote/connector.py`, `relay.py`) | epoch, sequence, replay ring, request cache | publish, acknowledge, resume, execute | gaps, restarts, retries |
| Browser connection (`desktop/ui/src/lib/remote-somnia-connection.ts`) | epoch, applied sequence, buffer, pending requests | open, events, replay, snapshot, resend | reconnects, reordering of replies and live events |
| Remote accounts (`remote/auth.py`, `relay.py`) | sessions, pairings, Devices, sockets | login, pair, refresh, revoke, connect, broadcast | what was checked before an await; sockets that outlive what admitted them |
| Subagents, prompts, trace viewer, prompting, rendering | mostly none | | not modelled |

How they interact: the terminal and the turn host call `run_turn`; the agent loop
calls tools through the registry, with hooks around them, which write files and
leave records on the session, or call the task store, the message bus, MCP servers
or the shell; teammate threads run a loop of their own over the same task store and
bus; the sidecar publishes the turn host's events, which the connector numbers and
sends through the relay to the browsers; the runtime manager decides which connector
process serves a project. PROJECT.json lists the hazards of all this at their lines.

## Modules

| Module | Models |
|---|---|
| `SessionHistory` | turns, undo, checkpoints, rollback, crashes |
| `ContextJanitor` | the janitor, compaction, the cached payload |
| `ModelImages` | images on their way to the model |
| `AgentLoop` | the rounds of a turn, provider threads, interrupts |
| `ToolCalls` | a tool call with its hooks |
| `ProviderStream` | a streamed reply |
| `FileEdits`, `FileSearch` | hunks, snippets and pages; glob and grep |
| `TaskBoard` | the task store under any interleaving |
| `TeamTasks` | teammates: threads, assignment, automatic claims, idle timeout |
| `TeamSessions` | teammates of the active session: suspended, restored, checked |
| `TeamMessages` | inboxes, authorization and shutdown requests |
| `TurnHost` | concurrent turns, their questions, what the answers grant |
| `ReplQueue` | the terminal's queue of prompts |
| `Sidecar` | the events of a turn on their way to clients |
| `PromptQueue` | the desktop's queue of prompts |
| `ConfigFiles`, `ConfigSections` | edits of the configuration; the settings page |
| `McpServers` | MCP clients and sessions |
| `BackgroundJobs` | commands, jobs and their notices |
| `OwnerLease` | owner leases and published runtimes of several processes |
| `RelayAccess` | who may use the Relay: sessions, codes, Devices and sockets |
| `RemoteStream` | Connector, Relay and browser: the event stream of a Project |
| `CommandService` | what remote commands are promised: the abstract specification |
| `RemoteCommands` | requests, their repetition and the cache; implements `CommandService` |

The theorems are in `SessionHistoryProofs`, about the module it is named after,
`TaskBoardProofs` (`TaskBoard`, `TeamTasks`), `TurnProofs` (`TurnHost`, `AgentLoop`,
`Sidecar`), `ToolProofs` (`McpServers`, `ModelImages`, `BackgroundJobs`, `ToolCalls`),
`PromptProofs` (`PromptQueue`, `ReplQueue`), `TeamProofs` (`TeamMessages`,
`TeamSessions`), `AccessProofs` (`OwnerLease`, `RelayAccess`) and `RemoteProofs`
(`RemoteStream`, `RemoteCommands`).

Components that share no variable are checked side by side. Each of the modules
`MCSessions`, `MCTools`, `MCClients`, `MCRemoteLive`, `MCTurns` and `MCTeam` extends
the components whose properties are proved and instantiates the others, and an extended one
again where it is checked with other bounds; its variable `moves` is chosen by the initial
state, the component it names takes the steps, and the others stay as they are. The
states of such a run are the sum of the components', not their product, and a property
of a component is one of the run. Where components do share state they are one module:
`TurnHost` is the host with permissions and interactions, `RemoteStream` is three
programs, `TeamTasks` is teammates over the board, `ReplQueue` and `PromptQueue` are
a queue with the turn host behind it. The other `MC` modules are those of the runs that
show a disagreement.

### SessionHistory

`disk` is the workspace; `messages`, `undoStack`, `pending` and `todo` are the
fields of `AgentSession`; `saved` is the session file and `checkpoints` the
checkpoint files. `phase` and `turn` hold where the agent loop is, `walk` where
an undo or a rollback is. A message is the number of its turn, a file's content a
model value. `RunTurn`, `WriteFile`, `OtherTool`, `TodoWrite`, `EndToolRound`,
`TextReply`, `StopAfterMaxRounds`, `Interrupt` and `Fail` are the steps and exits
of `_agent_loop`. `BeginUndo`, `RestoreFile`, `FinishUndo` are
`undo_last_turn`, one file per step; `BeginRollback`, `RestoreFile`,
`FinishRollback`, `PruneCheckpoint`, `PruneDone` are `rollback_to_checkpoint`
with `delete_checkpoints_after`. `Crash` forgets what is not in a file.
`ExternalEdit` is anybody else who writes a file.

Three history variables state what the properties need: `snapshot` is the
workspace at each checkpoint, `untracked` the files changed since then without
an undo record (outside edits, and records the code drops), `anchored` the
checkpoints whose part of the undo stack was neither trimmed nor undone. A
rollback promises nothing where they say so; that the promise fails there is
the subject of the run `session_rollback_reach`.

Left out: compaction, which is `ContextJanitor`'s; token usage and
`last_turn_file_changes`, which are displayed only; messages injected into a running turn,
which count as messages of that turn.

### TaskBoard

`files` are the task files, `nextId` is `meta.json`, and `op` the locals of each
thread's call in progress: the copy of the task it read, the blockers it has
still to look at, the files it has still to write. `Claim`, `Update` and
`CreateMany` read; `LookAtBlocker` reads one blocker; `SaveTask` writes one
file. `Delete` is one step, as its unlink depends on nothing read before.
Ids are taken under a lock (`NextIds`) and stay taken when a batch is refused.
Owner, status and blockers are kept, everything else reaches listings only.
Sessions, which partition the tasks, are left out: one session is modelled.
A creation of one task is a batch of one.

### OwnerLease

`lease` has the owner file of each project, `connections` the published
runtimes, `hosts` the runtimes that are up, `managed` the `_managed` of each
process, `call` where each process is in `start` or `stop`. The exclusive
creation of the owner file and the writing of its text are two steps (`Create`,
`Write`), as are the reading and the writing of the connections file, and the
check and the unlink of a release. `Crash` ends a process anywhere; its files
stay. A pid is never used again.

`Overlap` says whether two processes may be inside `start` or `stop` at the same
time. Nothing in the code prevents it: with `Overlap = TRUE` the run `owner_race`
shows two owners. The run `clients` assumes `Overlap = FALSE`, that is, users who
start and stop connectors one after the other, and then checks what crashes, failed
launches and failed writes can do. One failure of a launch is different: `start` gives a
runtime that did not become ready up and releases its lease, but does not stop it
(`NotReady`). It goes on, in `unready`, beside the one the next `start` makes, also without
overlap and in one process, so `AtMostOneRuntime` fails then too. `OneReadyRuntime` is about
the others.

### RemoteStream

`connector` is one `_ProjectStream` with what the two threads of
`RemoteConnector.run` have taken in hand and not sent yet: `RecordEvent` and
`SendEvent` are the event thread; `HandleStreamAck`, `Replay` and `SendReply`,
`GiveSnapshot` and `SnapshotFails` the relay thread. A replay is put together
under the lock and sent without it, so live events overtake it; a snapshot is
taken and sent under the lock. `wire`, `requests` and `down` are the
connections between Connector, Relay and browser, first in first out.
`StopConnector` loses what is under way, `StartConnector` begins an epoch, in
which the Relay closes the Connector registered before.
`Broadcast` sends everything to the browser, replies to other browsers included
(`OtherBrowser` asks for them). `Refuse` is `_forward_to_connector` answering
that the Device is offline, or that its connection is busy.

`browser` has the fields of `RemoteSomniaConnection` and the operators
`Handle...`, `Send...` and `Request...` are its methods, as functions from the
connection to the connection. `view` is a history variable: the epoch and number
of the last event shown, whether everything since the last snapshot was shown
(`whole`) and whether an event was ever left out (`skipped`).

Left out: requests with answers and their cache, which are `RemoteCommands`;
authentication and revocation (`RelayAccess`); several Projects of one Connector (their
streams share nothing but the send lock), and the reload that a `turn_result` triggers.

### RelayAccess

`session`, `code` and `device` are the maps of `RemoteAuth`; `connector` and `client` are
the sockets with the coroutines that serve them, `online` and `listed` the maps of
`RelayHub`. The Relay is one event loop and no lock of it is held across an await, so a
step is what a coroutine does between two awaits: `Register` and `Replaced` are before
and after the old connection is closed, `TakeFrame` and `Broadcast` before and after each
expired browser, `RevokeDevice` and `CloseRevoked` before and after each peer. `tasks`
are deliveries under way. A message carries what was over when it was sent, which is what
`AccessHolds` looks at; `shown` and `obeyed` remember what got through.

Time is left out: a session or code may expire whenever it exists. So are the limits on
attempts (a refused attempt changes nothing else), cookies, keys and signatures, project
metadata, and a Relay without a store. A claim that is stored and then lost with the
process is `ClaimPairing` followed by `Restart`.

### TurnHost

`phase` is where the thread of each turn is; `session`, `runtime` and
`interrupted` are the fields of `_ActiveTurn`, `primaryInUse` is
`_primary_runtime_in_use`. `pending` is `InteractionService._pending`, `asked`
and `answer` the request a thread waits for and its response. `mode`, `granted`
and `once` belong to a runtime, `file` is `permissions.json`. `RunTurn` is
atomic under `_state_lock`. `InterruptTurn` is the part of `interrupt_turn` under
that lock and `CancelTurnRequests` its end, so a request made in between is one
that nobody cancels. `FinishTurn` sets `done_event` and `ReleaseTurn` gives the
runtime back; another turn may begin between the two. `Ask` creates a request,
`Resolve` is whoever takes it out of `_pending`, `TimeOut` and `GiveUp` are the
end of a wait and the thread's later removal of the request, between which an
answer may still be accepted. `TakeAuthorization` and `TakeModeSwitch` are what
`PermissionManager` does with an answer.

A round is one call of a tool that some mode blocks, or one request; other tools
change nothing here. `user.credit` is a history variable: how often the user
allowed a tool once, less the runs that nothing else allows. It is counted per tool: a
grant that is left on a runtime may be used by a later turn of another session.

Left out: hooks (`ToolCalls`); events and their queues (`Sidecar`); the injection of
messages into a running turn (`ReplQueue`); `RuntimeHost.close`; what teammates and
subagents use of the lead's grants; the handlers that `bind_turn` restores, which only the
turn's own thread calls.

### TeamTasks

`status`, `reason`, `stop` and `registered` are the member's entry in the team file, the
stop request and the entry of `threads`. A thread is one start of `_loop`: `at` says where
it is, `left` counts the rounds or polls it still has, `told` are the tasks its messages
tell of and `logs` those in the member's log, from which a restarted thread takes its
messages. `Boot` to `Expire` are the loop: the inbox and the model of a round, tools,
polls, the automatic claim (the listing and the claim are two steps) and the idle timeout
(the last look at the owned tasks and the timeout are two steps). `ModelFails` is a
provider that fails for good: the thread ends as `runtime_error`, and its member keeps
what it owns. `doing` is where an actor, the lead or a thread that completed a task, is in
`assign_claimable_tasks` or `_start_thread`: the listing of tasks, the refresh with the
listing of candidates, each claim, each message and each start are steps of their own.
`Spawn` may take an idle member, whose thread still runs. The lead creates one batch;
`is_auto_assign_paused` keeps teammates from its tasks until all are written, so this is
one step.

A call of the task store is one step; TaskBoard is about what happens inside it. A
drain of an inbox is one step, and what follows a `shutdown_request` in it is lost.

Left out: sessions that are suspended and resumed (`TeamSessions`); messages that are
neither assignments nor shutdown requests (`TeamMessages`); an owner given to `claim_task`
other than the caller; what the lead and others tell the user.

### TeamSessions

A row of the team file is `status`, `reason`, `prompted` (the log has the prompt) and
`owns`; it outlives the process (`Restart`), threads do not. `lead` is where the caller
of the manager is: making a session active, suspending the members of others, and
restoring its own one by one, or spawning. `RefreshThreadHealth`, `InterruptActive` and
listings come at any time from the bounded `MaxCalls`. A thread that was told to stop
may write its row after its member was restored. Left out: what the loop does between
its updates of the row, which is `TeamTasks`.

### TeamMessages

`box` has the inbox files, `file` the tracker's file for each kind of request, and `op`
where a thread is in a call: the request file is loaded in one step and saved in
another. `Ask`, `TellLead`, `Poll`, the deadline and the thread's stop are the
teammate's side of a request, `CheckInbox` its round; the lead's calls decide,
send and drain. The active session is switched meanwhile, and a teammate's tools look
for their session in the active team (`SessionFound`). The history variables `sent`,
`shown` and `dropped` account for messages.

### ContextJanitor

`messages` is the history; a message carries its kind, the call it belongs to and, for
a result, whether a review replaced it and by the summary `of` which result. A review
is any choice of states for some candidates. `cache` is the payload kept under
`_payload_message_cache_key`. `AutoCompact`, `ReplyCompress` and `CompactSession` are
the three compactions, with the suffix `PreserveIndex` preserves. One result a round is
modelled; tokens are not, so either janitor or compaction may run whenever the code
could decide so.

### AgentLoop

`loop` is where the turn is, `threads` where each thread of
`_complete_with_interrupt_polling` is; one left behind goes on. `ProviderThread` is
its code: the checks before and after the callback are steps of their own. `ToolCall`
covers skipped, reported and executed calls, `Flood` the guard against too many, and
`Recorded` what of a reply is put into the history. `used` and `turns` are bounds.

### ModelImages, ProviderStream, ToolCalls

`ModelImages` follows images from a prompt or a result into a payload (`Payload` strips
stale prompts and results) and the history, where `Consumed` replaces them before the
call is made. `ProviderStream` is `_ThinkTagSplitter` with the assembly of calls from
pieces; a character is a letter, and every cut of a short text is tried. `ToolCalls` is
`ToolRegistry.execute` with `HookManager`, one step per hook, with denials, failures,
replaced inputs and a manager that is replaced meanwhile; `CallHooks` is
any sequence of hooks of which any set is switched on; the run takes four, one of each event
and kind of failure.

### FileEdits, FileSearch

`FileEdits` takes any correspondence of equal lines as what `difflib` may have found
and models the grouping, the hunks, the merged windows of the snippet and the pages of
`read_file`. `FileSearch` has patterns as trees; the code's expansion sees only their
text, and what the tree means (`Meaning`) is the reference it is compared with. What is
returned is cut at `MaxOutput` (`max_tool_output_chars`), in entries, without a word and
with the marker that tells of the limit; files in `Unreadable` are passed over. So
`NothingMissed` speaks of results that neither have the marker nor fill the room there is,
and of files that can be read.

### ConfigFiles, ConfigSections

Lines with what the edits look at: headers, assignments, the two comments around the block
of built-in hooks. `ConfigFiles` has the user's and the project's file with their last
good copies: providers, renamed profiles, defaults, switches, files broken from outside,
loads that restore. The user's own hook begins with or without an `enabled` line. Without
one, the default, its switch is lost (see below), so `HooksKept` says of all hooks that
they stay, once each, and of those that began with a line that it has the switch asked for
(`wanted` is `Unsaid` of the others). `ConfigSections` has the settings page, which cuts a
section out by its own rule and appends it, and the loads in between.

### McpServers, BackgroundJobs

`McpServers`: registries and clients are created by loads and reloads, a session is opened
by whoever first uses the client, under the client's lock; the threads that call, enable,
disable, refresh and close interleave. A session is looked after if a registry that is not
closed holds its client (`Held`) or is about to (`Registering`); `stray` is a history
variable, the clients whose session is opened or kept when neither is so. There are two
ways: a turn's call after its client was taken out of the registry or closed with it, and
a registration that fails after its session was opened. What Python's collection of
objects nobody refers to does to a process is left out. `BackgroundJobs`: `run` is where
`run_command` is (communication, time limit, termination, kill), `job` the thread of a
job; reading and writing `jobs.json` are two steps.

### Sidecar, ReplQueue, PromptQueue

`Sidecar`: `turn` emits events into its queue, `drainer` copies them to the queues of the
clients and at the end takes the trailing ones and the result; clients connect at any
time. Beside the turn's own thread, `interrupt_turn` emits after it has let the lock go
(`InterruptAsked`), and so does a provider thread that was left behind (`LeaveBehind`),
both also when the turn is over (`EmitBeside`). What they emit after the drainer's last
look reaches nobody; `TurnEventsComplete` promises the events up to the turn's end, `own`.
`ReplQueue`: three threads, a step is a section under a lock; the prompt that is put into
a turn is taken, prepared and used in three steps. `PromptQueue`: requests of the desktop
client, their answers and the events of turns are under way at the same time, and requests
fail or are refused. `queue` is the state with the updates that are scheduled, `queueRef`
the ref, which follows at a `Render`. A take works on the ref and makes what it leaves the
queue (`Overwrite`), so an item put into the queue since the last render is gone, and one
taken out is back. `overwritten` is a history variable: the prompts a take may have lost.

### RemoteCommands and CommandService

`RemoteCommands` has each client's pending requests, the relay's queues, the
connector's cache (`Remember` evicts the oldest of `Window`), lost connections and
restarts of the connector. `CommandService` says what a client may count on: a command
runs again only if the connector was restarted or `Window` other commands were served
since, and an answer is the outcome of a run. The refinement mapping is the identity on
the history variables `log`, `since` and `answer`, which record the services as the
sidecar performs them; what is checked is that the cache, with its keys, evictions and
repetitions, gives just those services.

## Runs

All runs set `CHECK_DEADLOCK FALSE`: a session, a task board or a device may stop
for good, and the bounds end every behaviour.

| Run | Parts and bounds | Shows |
|---|---|---|
| `sessions` | history: 1 file, 2 tags, 3 turns, 1 outside edit, undo limit 2; with crashes: 2 files, 2 turns of 2 writes, 1 tag at a time; janitor: 2 turns, 4 calls, 2 empty replies, 2 reviews, 1 compaction; 2 jobs and 1 call on 2 runtimes | `RollbackExact`, `TimelineLinear`; `UndoExactAfterCrash`; `HistoryExact`, `PayloadPaired`; `ToldOutcome` |
| `tools` | board: 2 threads, 2 tasks; team: 2 members, 2 tasks in a chain, 3 threads; configuration: 2 providers, 3 edits, 1 broken file; 4 sections, 2 saves; 7 characters in pieces of 2, 2 calls; 2 callers, 1 reload; 2 servers, 4 clients, 3 sessions; 74 patterns on 5 files; texts of 3 lines; 3 prompts with 2 images | `StartedAfterBlockers`, `NoDependencyCycle`; `NoTaskLeftBehind`; `HooksKept`; `OthersKept`; `StreamedIsReply`; `AuditedAsRun`; `SessionsKnown`; `NothingMissed`; `FileTold`; `ImagesSentOnce` |
| `clients` | stream: 2 epochs of 2 events, a ring of 1, 1 disconnection, and 1 refusal with 1 failed snapshot, or 1 other browser; leases: 3 processes, 2 projects, 4 leases, 1 failure; 2 prompts, 2 turns, 1 turn of another client, 1 failure; Relay, with 1 message: 2 accounts, 2 sessions and 1 restart, or 2 Connectors, or 2 browsers, or 2 Devices | `NothingSkipped`, `AppliedIsAcknowledged`; `OneReadyRuntime`, `RefusedOnlyByLiveOwner`; `LostOnlyByTake`; `AccessHolds` |
| `remote_live` | the same stream without other browsers, failures and refusals; 2 clients with 1 request each, a cache of 1, 1 drop, 1 restart | `CatchesUp`; `EveryRequestAnswered`, `CommandsServed` |
| `turns` | host: 3 turns of 2 sessions, 2 at a time, 1 round, 2 modes; loop: 2 turns of 2 rounds, replies of 2 calls, 2 provider threads; 2 clients, 2 events; 3 tasks, 2 interrupts | `TurnSlots`, `PendingIsAwaited`, `RunsAreApproved`, `EveryTurnEnds`; `CallsAnswered`, `LateTextAtMostOnce`, `InterruptEndsTurn`; `TurnEventsComplete`; `PromptsInOrder`, `InterruptReachesTurn` |
| `team` | 1 member, 2 tasks, 3 threads, 1 stop; 2 teammates and 2 sessions with 2 requests, or 1 request and 1 message; 1 member of one of 2 sessions, 2 threads, 1 restart | `OwnersAreTold`; `MessagesAccounted`, `AnswerIsOwn`; `ActiveHasThread` |
| `session_rollback_reach` | 1 file, 3 turns | violation: a rollback by stack length misses newer entries |
| `owner_race` | 2 processes, 1 project, overlapping | violation: two owners |
| `remote_resync` | as `clients`, with another browser | violation: the browser ignores its own snapshot |
| `janitor_positions` | 2 turns, 3 calls, 2 empty replies, 1 review | violation: a protected result is replaced in the payload |
| `prompt_images` | 3 prompts, 1 notice | violation: the image of a prompt never reaches the model |
| `section_saved` | 4 sections, 3 saves | violation: a saved section is gone after the reload |

Why the bounds are enough: three turns trim an undo stack of two, and two checkpoints
suffice for an order between them. Two tasks make the smallest chain and the smallest
cycle, two threads every race of a read with a write. Four calls give a review two
candidates beside the two protected rounds. The third turn of the host takes over a
runtime with the grants left on it. Two events leave a ring of one, two epochs have an
old and a new one, and a cache of one evicts at the second client's request. Two provider
threads are one left behind and one of the next turn. A text of seven characters holds a
tag that opens and one that closes. Where a property failed in a smaller instance only
after a definition was broken on purpose, the bounds were raised until it did here:
each property of a passing run is violated in its run by the mutant that PROJECT.json
names.

The six violations are disagreements between the code and its documentation, tests or
comments; PROJECT.json quotes both sides under "findings".

- *Rollback.* `rollback_to_checkpoint` walks down to the length the stack had
  (session.py:300-308). `MAX_UNDO_TURNS` drops entries at the bottom and `/undo`
  at the top, so later entries may lie below that length.
- *Owner race.* The owner file exists before it has text; `_owner_is_alive`
  answers False for it and `acquire` unlinks it (runtime_manager.py:302-312).
- *Resync.* A browser that gave up its epoch adopts that of any message; if it is a
  replay for somebody else, the snapshot it asked for comes too late
  (remote-somnia-connection.ts:275).
- *Janitor.* `build_payload_messages` leaves out empty messages before it applies
  decisions by position (compact.py:329-338): after an empty reply they hit a later,
  protected result. The history itself stays exact (`HistoryExact`).
- *Images of prompts.* Only the latest message of the user keeps its images
  (compact.py:139-158); a notice is one too, and the history is consumed all the same.
- *Sections.* The settings page takes the comment before the built-in block for a line
  of the section above; once a save has moved it to the end, a load strips whatever
  follows it (server.py:144-213, settings.py:644-659).

Met on the way, and not a property of any run. Of the first four the models have the
behaviour, and TLC finds it when the exception is taken out of the property that names it:

- `start` releases the lease of a runtime that did not become ready and leaves its server
  running (runtime_manager.py:190-195, 374-381), though "Own at most one live Runtime host"
  (164): `OneReadyRuntime` does not count it.
- `takeNextQueuedPrompt` reads the ref as of the last render and sets the queue to what it
  leaves of it (App.tsx:1410-1422), over an update not rendered yet, so a prompt just queued
  or put back is lost, against `.scratch/remote-somnia/spec.md:132`. `LostOnlyByTake` says that
  this is the only way.
- A missing line that switches a hook is inserted before the next `[[hooks]]`, so behind the
  comment that begins the built-in block, which the next load replaces (settings.py:773-806,
  644-659): the hook stays enabled, against Docs/Core/14-Hooks.md:84. `HooksKept` says nothing
  of the switch of such a hook.
- An MCP client that was closed is initialized again by a turn that fetched it before
  (registry.py:251-253, 341-343, client.py:66-77), and not closed again, against
  Docs/Core/09-MCP.md:157. `SessionsKnown` has it among `stray`.
- A turn that completes in the reconcile pass returns without
  `_capture_turn_file_changes` (agent.py:3666), so `/undo` does not see its files.
- `claim` (tasks.py:363-374) writes back what it read before another thread
  completed the task, which reopens it.
- A refused or expired mode switch gives a runtime the mode of the request,
  whatever it was set to meanwhile (interaction_service.py:204).
- `_Peer.send` gives up when another send is under way (relay.py:48). The answer
  names no request, `resumeInFlight` stays true, and the browser waits until its
  next reconnection: with `MaxRefusals = 1`, `CatchesUp` fails.
- A turn beside another has a runtime of its own, which read `permissions.json`
  when it was made (runtime_host.py:163); each writes the set it has in memory over
  the file (permissions.py:92), so one grant for the workspace erases another.
- A teammate may be given a task between its last look at what it owns
  (teammate.py:879) and its idle timeout (897). It stops, owns an open task, and
  is therefore no candidate for a restart (470-476).
- A thread is registered after it was started (teammate.py:438-439). A health check
  in between takes the ended thread before it for the current one, and a task that
  becomes ready then may be left behind. A pass of the assignment also works on a listing
  that is out of date, so it may give a task to a member that is timing out, and of several
  tasks that are ready together one may be left. `NoTaskLeftBehind` is therefore stated for
  tasks that follow one another and prefer nobody (`OneByOne`); without that it fails.
- A queued prompt may run twice, which `.scratch/remote-somnia/spec.md:132` excludes. The
  events of two turns may overtake each other, so the result of one turn can be handled
  after the prompt was put into the next turn, another client's. The client starts what
  heads the queue (App.tsx:1484-1701), is refused, and puts the prompt back under a new
  id, under which it can be put into the turn again. A take from an old ref may also bring back
  an item that was taken out. `LostOnlyByTake` is about lost prompts only.
- `MCPRegistry.close` closes the clients the registry holds, and a client whose tools could
  not be listed is not among them (mcp/registry.py:167-175), so its session may stay open;
  `SessionsKnown` has it among `stray`.
- Three promises have a gap that the code leaves: `MessagesAccounted`
  allows that what the lead drains at its last look (agent.py:3469) and what a stopped
  teammate has in hand is dropped; `ActiveHasThread` leaves out failures of the files; and
  the tasks of a teammate whose provider failed stay claimed (teammate.py:908-921).
- A hook after a tool with `on_error = "fail"` changes the result of a tool that has run
  (tools/registry.py:84-92); Docs/Core/14-Hooks.md:263 says that only `PreToolUse` may.
- `_refresh_thread_health` (teammate.py:986) marks a member whose thread has ended as shut
  down, a suspended one too, so it is not restored when its session becomes active again.
  A quick change from one session to another and
  back starts a second thread for a member whose first has not yet stopped.
- A stop asked for between the start of a thread and its loop is forgotten, because
  `_loop` clears the request again (teammate.py:663).
- Docs/Core/13-AgentTeam.md:223 has a teammate send `shutdown_response`; it marks the
  tracker instead (teammate.py:954-961).
- A Connector that is lost after its proof and before its greeting stays registered
  (relay.py:105-111, outside the `try`). Closing it again, by the next Connector, raises an
  error that ends that one too, so the Device shows as online and nobody is served until
  the Relay restarts.
- The connections file has no lock across processes (runtime_manager.py): a process that
  starts writes back what it read before another one published its own.

Fairness. Each formula is stated in the host module, of the component that moves.

- *Teammates*: every thread, and the lead's assignment, goes on whenever it can; which
  tool the model calls, and whether it calls one, is free.
- *Turn host*: weak fairness of every turn's thread, which includes the expiry of its
  wait; the user need not answer, interrupt or set anything.
- *Agent loop*: weak fairness of the turn's own thread (`Loop`) and of nothing else. The
  provider's thread need never answer: an interrupt must end the turn all the same,
  because the loop polls.
- *Remote stream*: weak fairness of the two threads of the Connector (`SendEvent`,
  `RelayThread`), of the Relay's delivery and of the browser, whose timer reconnects.
- *Remote commands*: weak fairness of a client's receiving and reconnecting, of the
  relay's forwarding, and of the connector's executing and responding. Nothing obliges a
  connector that is gone to come back; `EveryRequestAnswered` speaks of behaviours in
  which it is not lost, since what is lost with it stays pending.

Threads that are not blocked run, and sockets deliver or fail, so this is what the code
and its host provide. Nothing obliges a Connector to start or an event to occur.

## Proofs

| Theorem | Module | Statement |
|---|---|---|
| `TypeCorrect`, `SpecTypeOK` | `SessionHistoryProofs` | types, with or without crashes |
| `Timeline` | `SessionHistoryProofs` | `TimelineLinear` |
| `Rollback` | `SessionHistoryProofs` | `RollbackExact` |
| `Undo` | `SessionHistoryProofs` | `UndoExact`, with or without crashes |
| `BoardInvariant`, `BoardTypes` | `TaskBoardProofs` | the inductive invariant and the types |
| `BlockersFirst` | `TaskBoardProofs` | `StartedAfterBlockers` |
| `NoCycle` | `TaskBoardProofs` | `NoDependencyCycle` |
| `NothingLeft` | `TaskBoardProofs` | `NoTaskLeftBehind` |
| `HostTypes` | `TurnProofs` | the types |
| `HostSlots` | `TurnProofs` | `TurnSlots` |
| `HostAsks` | `TurnProofs` | `PendingIsAwaited` |
| `HostApprovals` | `TurnProofs` | `RunsAreApproved` |
| `CallAnswers` | `TurnProofs` | `CallsAnswered` |
| `LateTexts` | `TurnProofs` | `LateTextAtMostOnce` |
| `TurnEvents` | `TurnProofs` | `TurnEventsComplete` |
| `PromptsKept` | `PromptProofs` | `LostOnlyByTake` |
| `Order` | `PromptProofs` | `PromptsInOrder` |
| `Interrupts` | `PromptProofs` | `InterruptReachesTurn` |
| `Known` | `ToolProofs` | `SessionsKnown` |
| `Images` | `ToolProofs` | `ImagesSentOnce` |
| `Outcome` | `ToolProofs` | `ToldOutcome` |
| `Audited` | `ToolProofs` | `AuditedAsRun` |
| `Messages` | `TeamProofs` | `MessagesAccounted`, if `TeamAssumption` |
| `OwnAnswers` | `TeamProofs` | `AnswerIsOwn`, if `TeamAssumption` |
| `ActiveMembers` | `TeamProofs` | `ActiveHasThread`, if `MaxThreads` is a natural number |
| `OneRuntime` | `AccessProofs` | `OneReadyRuntime`, if `~Overlap` |
| `RefusedByLiveOwner` | `AccessProofs` | `RefusedOnlyByLiveOwner`, if `~Overlap` |
| `Access` | `AccessProofs` | `AccessHolds` |
| `Shown` | `RemoteProofs` | `NothingSkipped` |
| `Acknowledged` | `RemoteProofs` | `AppliedIsAcknowledged` |
| `Commands` | `RemoteProofs` | `CommandsServed`: `RemoteCommands` implements `CommandService` |

They hold for every value of the constants that satisfies `HistoryAssumption`,
`BoardAssumption`, `HostAssumption`, `StreamAssumption`, `CommandsAssumption`,
`HooksAssumption` or `TasksAssumption`, the bounds included. The other modules assume
nothing; where a theorem needs something it is a hypothesis. Without `~Overlap` the run
`owner_race` refutes the two about leases. `TeamAssumption` says that each teammate has a
session and that none is called "lead": the code does not check the name it is given
(`spawn`, teammate.py:374), and a teammate of that name would share the inbox of the lead.
`Known` needs that there is a registry, which the runtime makes when it starts
(`MaxRegistries` is positive).

*Timeline.* `TimelineLinear` is not inductive: during the pruning phase newer
checkpoints may hold longer conversations than the live one. The invariant adds
that every checkpoint's time is at most the clock and that during pruning the
live conversation is that of the target checkpoint, older checkpoints being
prefixes of it. Turns only append, so prefixes stay prefixes.

*Rollback.* A region of the undo stack leads back to a content v of a file if the
region's oldest record of the file has v, or if it has none and the file is v now
(`Traced`). `LiveInv` says that what is still to be restored above a checkpoint leads
back to the checkpoint's workspace, for every file changed only with records, at every
moment of a turn, an undo or another rollback. This is not inductive alone: after a
rollback to t the stack is t's, and older checkpoints must be reachable from there.
`ChainInv` says so, of every two checkpoints, by their times; `PruneInv` says that while
the checkpoints after t are deleted the workspace is t's. The lemmas `SameRecords`,
`MoreRecords`, `FewerRecords` and `OtherRecords` are what steps do to a region: they
capture it, write, restore, drop what was pending. `Rollback` needs `Timeline` and shares
its condition, that no crash separates a rollback from its pruning.

*Undo.* Of the records that are already restored each is in the file, or has an older
one of its file behind it that is restored too, or the file was edited since.

*Task board.* A call in progress may write an outdated copy, so the invariant
speaks about copies too. For a copy that will start a task, every blocker is
either still to be looked at or has once been completed (a fact that stays true
whatever happens to the blocker later). For cycles, `accepted` remembers the
blockers of every task that was accepted: the graph of accepted tasks is
acyclic, and every file and every copy of a task in it has exactly those
blockers. A batch refers only to itself, where it is acyclic, and to older
tasks that were accepted before it, so a set of tasks waiting for itself would
lie in the batch or outside it.

*Tasks of a team.* The promise is about the end, when everybody has stopped; the invariant
has to say who is still coming. `ServedInv` does: for a claimable task there is a thread
with a round or a poll before it or about to claim the task (`Serves`), or one about to be
started; or it is the first task and the lead is about to assign it, or there are no members
yet. A thread that times out had its last poll when the task was not yet claimable, or it
would have gone to claim it. Whoever completes a task is a thread with a round before it,
after it has assigned, so what its pass of the assignment missed, because its listing is old,
is left to its own polls. The lead is not a thread, and it is why more is needed: its one
assignment comes before any task is completed, so `EarlyInv` says that until then nobody
else assigns and a thread can only have ended by its timeout, so that the members whom the
lead's refresh finds ended are those it may start again. `RowsInv` adds that a member
whose row says that it works or starts has a thread that is not yet idle, or gets one.
`FilesInv` and `RunnersInv` say that what is once not blocked stays so, so that the claim of
a thread that is about to take the task does not raise. All this is so as long as nobody
is told to stop and no provider fails for good (`Undisturbed`); such a state is not left
again, so the invariant need not speak of what follows.

*Turn host.* `SlotInv` adds to `TurnSlots` that a turn runs on the primary runtime
or on the one made for it; without that a new runtime might be somebody else's.
The number of turns under way is bounded because a turn that is not begun is not
among them, and every other step keeps the set or shrinks it. `AskInv` adds to
`PendingIsAwaited` that a request carries the number of the turn that waits for
it, so that requests of different turns differ, and that a turn which does not
wait has neither request nor answer.

*Permissions.* `RunsAreApproved` compares the runs with what the user allowed. `GrantInv`
takes the single runs that are still to come as a set, the numbered grants of each runtime
and the answers that no turn has taken yet, and says that the set is finite and no larger
than the user's credit: a run takes an element out and a unit of credit away, an approval
adds one of each, and whoever takes over a runtime takes its grants with it, also a turn
of another session. The credit is therefore one for each tool. What a runtime or the file
holds for good, the user allowed for good.

*Agent loop.* `HistoryInv` says that calls and their results are next to each other, in
`messages` and in what is saved; they are recorded together, at every exit of a round.
`ThreadsInv` says that a provider thread that is not over and not cancelled is the one
the loop waits for. A thread left behind is cancelled itself, so the next turn, which
resets the interrupt, does not bring it back, and it shows one text at most.

*Events of a turn.* `BatchInv` says that the batch of the drainer and the queue of the
turn behind it hold consecutive numbers up to the last event emitted, and that the result
goes alone when nothing that was emitted up to the turn's end is left. So there is a place
that the drainer puts next (`NextPlace`), and for each client one that it has had its
chance of (`Upto`), which depends on whether the broadcast under way has still to reach
it. `ClientInv` says that a client has the events of an interval of places, which ends at
`Upto` as long as the client gets more, and begins at the first if it was there when the
turn began. Connecting sets both ends of an empty interval; no step moves `Upto` of a
client that gets more without an event.

*Prompts of the desktop.* A take moves the head of the ref into a request and the rest of
the ref into the queue; what was in the queue and not in the ref is `overwritten`.
Otherwise a prompt is lost if an event takes an item out of the queue whose prompt has not
reached the model. `IdsInv` says that a number is given to one prompt only, so the prompt
that is under way under the number of an item, in a request, with the turn or announced by
an event, is the item's own; and whatever is announced has run.

*Prompts of the terminal.* `OrderInv` puts the places where a prompt can be, from those
that have reached the model through those prepared for the turn, taken from the queue,
held by the worker and queued to those being entered, one behind the other, and says that
the numbers increase along this line. The terminal, the worker and the turn each move
prompts along a part of it; `TurnInv` says that a turn is the one the worker waits for and
that what was prepared goes with it. `StopInv` says that an interrupt which is accepted
and not on its way has reached the turn once the worker waits.

*MCP sessions.* A session is opened under the lock of its client. `SessionsInv` says that
they are numbered as they were opened, that a client refers to a session of its own, and
that an open one is referred to, so a new number is nobody's; `ThreadInv` that a thread uses a
client that exists. `HeldInv` adds that the client of a session is held by a registry that
is not closed, being registered, or stray. For it to stay so when a client is stored,
`RegistriesInv` says that registries still to come are empty and the one being filled has
nothing yet for the servers that are still to be registered, so no client is displaced.

*Images.* `History` says that data of an image is only in messages that came after the
last call of the model, which took all there was; that a round of results with a new image
is the latest one, so its images are not stripped as stale; and that an image is sent by the
call after it came. While the call is under way nothing is fresh.

*Background jobs.* `FilesTrue` says that whatever any copy of `jobs.json` says of a job that
is over is true: an update that writes back an old copy may set a job back to running, never
to an end it did not have, since a job that is over stays over with its outcome.
`NoticesInv` says that a notice is made when its job is over and is then either in the queue of
its job's runtime or told, once, with the outcome.

*Hooks of a call.* `CallInv` says that the hooks that have run are those of the call without
the ones still to run, which all come later in the configuration, and that only hooks
before the tool may have seen another input than the tool was given. A hook that ends the
call is the least of those still to run, so what has run is closed downward, and the last
entry of the log is the one that failed. What is switched on meanwhile is not mentioned:
a call never reads it again.

*Messages of a team.* `TeamInv` has six parts: the file of requests says only what was
decided (`FilesInv`, although copies are read and written back without a lock, since of two
writers each may undo the other's entry but none invents one), a teammate was told that
too (`Told`), each request has one call that waits for it (`CallsInv`), messages differ
(`SentInv`), boxes hold what was sent to them (`BoxInv`), and each message is in one place
(`PlacesInv`).

*Sessions of a team.* `RowsInv` says of every row that claims to run: its member has a
thread that has not written for the last time, or is about to be given one, or is still
to be looked at: no session is active yet, members are being suspended, or those of the
active session restored.

*Runtime ownership.* `LeaseInv` ties runtimes to files: whoever runs or manages a runtime
holds the written owner file of its Project under its token, from the write of the file
to its release, and a file that is about to be unlinked names nobody alive. Two runtimes
of one Project would hold one file under two tokens. It says nothing of runtimes that were
given up, which hold none. `~Overlap` gives that at most one
process is in a call, so that nobody reads a file that has no text yet.

*Relay access.* A message carries what was over when it was sent. `RelayInv` says of
every message on its way that this was so (`Sound`), of those that were let through that
they came in time (`Timely`), and of every browser that its session and Device are of one
account. Nothing that was over comes back, so this stays true while messages wait; a
coroutine that is past its check is in the socket's state, so that a revocation which runs
in between finds the socket. `OnlineInv` follows each Connector through its registration
and the closing of the one before.

*Remote stream.* `Sound` says of the browser that what it has buffered is of its epoch
and not applied yet, and that what it has applied is what its listeners were shown last;
`Acked` that this is acknowledged. Each handler of a message keeps both, whatever the
message, as long as its events come after the number it starts from, which is so of every
message on its way (`Carried`). Nothing more is needed of the Connector and the Relay:
they may lose, repeat and reorder, and the browser does not skip. A replay applies its
events one by one, by a recursive function of their number; `FromNumber` is the induction
for it, stated of a set of numbers and proved from the library's `WFMin`. The same way
`LastOfBuffer` shows that the buffer has a last number without a gap before it.

*Remote commands.* `CommandService` remembers a command by counting the other commands
served since. The invariant connects this to the cache: the cache is in the order of
last services and has their outcomes, the request being executed was served last, and
what is in neither was served before everything cached, by a cache that is full. Hence
fewer than `Window` others were served since a cached request, and at least `Window`
since a forgotten one. `Execute` maps to `Run`, `AnswerAgain` to `Repeat`,
`ReceiveResponse` to `Answer`, `Refuse` or a stutter, `ConnectorLost` to `Restart`, and
everything else to a stutter.

Only model-checked. `CatchesUp`, `EveryTurnEnds`, `InterruptEndsTurn`, `OwnersAreTold` and
`EveryRequestAnswered` depend on fairness, which is out of the prover's reach.
`NothingMissed` and `FileTold` are about recursive operators. `HistoryExact`,
`PayloadPaired`, `HooksKept`, `OthersKept` and `StreamedIsReply` say what folds, selections
and recursive functions make of whole sequences, which would each need an induction of its
own. `UndoExactAfterCrash` is the `UndoExact` of `SessionHistory` at other bounds, and
proved as such (`Undo`).

## Plan

1. Abstract specifications: a rollback as one atomic step that `SessionHistory`
   implements; a board whose calls are atomic, and what of it survives.
2. `TeamTasks` with preferred owners; two Projects of one Connector.

## Not modelled

- The limits on attempts to log in or pair, and the metadata of Devices that is only listed.
- Subagents: a sequential loop over messages of its own; what it shares with its parent
  (hooks, once-only grants) is the second caller of `ToolCalls`.
- The trace viewer, prompting, rendering in terminal and browser, the system prompt: they
  keep no state, or their correctness is about text.
- The wire formats of the providers and the Anthropic adapter, whose SDK puts streamed
  blocks together; the transports of MCP, which belong to its SDK.
- The parsing of settings other than providers, hooks and their switches.
- Cryptography and the HTTP servers' plumbing.
