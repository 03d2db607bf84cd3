----------------------------- MODULE ToolCalls -----------------------------
(***************************************************************************)
(* One call of a tool from the permission check to the result              *)
(* (tools/registry.py) and the hooks around it (hooks/manager.py,          *)
(* hooks/runner.py), for threads that call tools at the same time while    *)
(* the user switches hooks on and off (agent.py).                          *)
(*                                                                         *)
(* A hook is a program of the user: what it answers, that it fails or runs *)
(* into its timeout, is a choice.  An input is a number: 0 is what the     *)
(* model asked for, each replacement is a new one.                         *)
(***************************************************************************)
EXTENDS Integers, Sequences, FiniteSetsExt

CONSTANTS Callers,     \* threads: the lead, a subagent, a teammate
          CallHooks,   \* the configured hooks that match the calls
          MaxCalls,    \* bound: calls of one thread
          MaxReloads   \* bound: reloads of the hooks

Hook == [event : {"PreToolUse", "PostToolUse"}, onError : {"fail", "continue"}]

\* A hook run in the background comes after the tool and has on_error = "continue": the
\* loop sees at most that it did not start.
ASSUME HooksAssumption == CallHooks \in Seq(Hook)

VARIABLES
  manager,   \* hook_manager: the hooks switched on, a set of positions in CallHooks
  reloads,   \* reloads so far
  call,      \* what a thread does in execute
  calls,     \* calls of a thread so far
  log        \* history variable: hooks run for the call of a thread

hooksVars == <<manager, reloads, call, calls, log>>

NoCall == [step |-> "idle", input |-> 0, hooks |-> {}, todo |-> {}, ran |-> "no", result |-> "none"]

HooksInit ==
  /\ manager \in SUBSET DOMAIN CallHooks
  /\ reloads = 0
  /\ call = [a \in Callers |-> NoCall]
  /\ calls = [a \in Callers |-> 0]
  /\ log = [a \in Callers |-> <<>>]

\* _matching_hooks. They run in the order of the configuration.
Matching(enabled, event) == {i \in enabled : CallHooks[i].event = event}

\* The next one of those that are still to run.
First(todo) == {h \in todo : \A k \in todo : h <= k}

CallAt(a, step) == call[a].step = step

CallGoes(a, c) == call' = [call EXCEPT ![a] = c]

\* execute returns a result to the loop, or raises: the loop makes a result of what it raises.
Result(c, result) == [c EXCEPT !.step = "done", !.result = result]
-----------------------------------------------------------------------------
(* ToolRegistry.execute.                                                   *)

\* The tool is unknown, the permission manager blocks the call, or it goes to the hooks the
\* runtime has by now: they stay those of the call.
Authorize(a) ==
  /\ CallAt(a, "idle") /\ calls[a] < MaxCalls
  /\ calls' = [calls EXCEPT ![a] = @ + 1]
  /\ log' = [log EXCEPT ![a] = <<>>]
  /\ \/ CallGoes(a, Result(NoCall, "blocked"))
     \/ CallGoes(a, [NoCall EXCEPT !.step = "pre", !.hooks = manager, !.todo = Matching(manager, "PreToolUse")])
  /\ UNCHANGED <<manager, reloads>>

\* The input a hook is told of.
Told(a) == call[a].input

Logged(a, h) == log' = [log EXCEPT ![a] = Append(@, [hook |-> h, input |-> Told(a)])]

\* The next hook.
Passed(a, h) == [call[a] EXCEPT !.todo = @ \ {h}]

\* What hooks have replaced is given to the call when all of them let it through.
Asked(a) == [call[a] EXCEPT !.input = IF CallAt(a, "pre") THEN 0 ELSE @]

\* _execute_hook, of a hook that fails: on_error decides.
Failed(a, h) ==
  IF CallHooks[h].onError = "fail" THEN Result(Asked(a), "hook_error") ELSE Passed(a, h)

\* _run_pre_tool_use, one hook.
PreToolUse(a) ==
  /\ CallAt(a, "pre")
  /\ \E h \in First(call[a].todo) :
       /\ Logged(a, h)
       /\ \/ CallGoes(a, Passed(a, h))
          \/ CallGoes(a, [Passed(a, h) EXCEPT !.input = @ + 1])
          \/ CallGoes(a, Result(Asked(a), "denied"))
          \/ CallGoes(a, Failed(a, h))
  /\ UNCHANGED <<manager, reloads, calls>>

\* A mutant of PostHooks: the hooks the runtime has when the tool is over.
PostHooksNow(a) == Matching(manager, "PostToolUse")

\* The hooks after_tool_use runs.
PostHooks(a) == Matching(call[a].hooks, "PostToolUse")

\* The tool has a result, its validation or its handler an error.
AfterTool(a, ran, result) ==
  CallGoes(a, [call[a] EXCEPT !.step = "post", !.todo = PostHooks(a), !.ran = ran, !.result = result])

\* validate_tool_payload refuses the input, or the handler begins.
Validate(a) ==
  /\ CallAt(a, "pre") /\ call[a].todo = {}
  /\ \/ AfterTool(a, "no", "invalid")
     \/ CallGoes(a, [call[a] EXCEPT !.step = "handler"])
  /\ UNCHANGED <<manager, reloads, calls, log>>

\* The handler returns, fails, or raises TurnInterrupted.
RunHandler(a) ==
  /\ CallAt(a, "handler")
  /\ \/ AfterTool(a, "yes", "ok")
     \/ AfterTool(a, "yes", "tool_error")
     \/ CallGoes(a, Result([call[a] EXCEPT !.ran = "interrupted"], "interrupted"))
  /\ UNCHANGED <<manager, reloads, calls, log>>

\* after_tool_use, one hook: it runs, is started in the background, or fails.
PostToolUse(a) ==
  /\ CallAt(a, "post")
  /\ \E h \in First(call[a].todo) :
       Logged(a, h) /\ (CallGoes(a, Passed(a, h)) \/ CallGoes(a, Failed(a, h)))
  /\ UNCHANGED <<manager, reloads, calls>>

\* The result goes to the loop, with the input of the call as it is now.
Returned(a) ==
  /\ CallAt(a, "post") /\ call[a].todo = {}
  /\ CallGoes(a, [call[a] EXCEPT !.step = "done"])
  /\ UNCHANGED <<manager, reloads, calls, log>>

\* The loop has recorded the call.
Recorded(a) ==
  /\ CallAt(a, "done")
  /\ CallGoes(a, NoCall)
  /\ UNCHANGED <<manager, reloads, calls, log>>
-----------------------------------------------------------------------------
\* set_hook_enabled and reload_hook_configuration, in the thread of the user interface.
SetHookEnabled ==
  /\ reloads < MaxReloads
  /\ reloads' = reloads + 1
  /\ \E i \in DOMAIN CallHooks : manager' = SymDiff(manager, {i})
  /\ UNCHANGED <<call, calls, log>>

HooksNext ==
  \/ SetHookEnabled
  \/ \E a \in Callers : Authorize(a) \/ PreToolUse(a) \/ Validate(a) \/ RunHandler(a) \/ PostToolUse(a)
                         \/ Returned(a) \/ Recorded(a)

HooksSpec == HooksInit /\ [][HooksNext]_hooksVars
-----------------------------------------------------------------------------
\* The hooks run for the call of a thread.
HooksRun(a) == {log[a][i].hook : i \in DOMAIN log[a]}

\* Hooks before the tool come first, those of one event in the order of the configuration.
Sooner(i, k) == IF CallHooks[i].event = CallHooks[k].event THEN i < k ELSE CallHooks[i].event = "PreToolUse"

Failing(i) == CallHooks[i].onError = "fail"

\* A tool runs only after all hooks before it of one configuration, whatever is switched
\* meanwhile, and then the hooks after it of the same configuration are told of the call,
\* in their order and with the input the tool was given; only a hook that fails the call,
\* or an interruption, cuts them short.
AuditedAsRun ==
  \A a \in Callers :
    LET before == Matching(call[a].hooks, "PreToolUse")
        all == before \cup Matching(call[a].hooks, "PostToolUse")
        told == log[a]
    IN /\ CallAt(a, "handler") => HooksRun(a) = before
       /\ CallAt(a, "done") /\ call[a].ran # "no" =>
            /\ before \subseteq HooksRun(a) /\ HooksRun(a) \subseteq all
            /\ \A i, k \in DOMAIN told : i < k => Sooner(told[i].hook, told[k].hook)
            /\ \A i \in HooksRun(a), k \in all : Sooner(k, i) => k \in HooksRun(a)
            /\ \A i \in DOMAIN told : told[i].hook \notin before => told[i].input = call[a].input
            /\ call[a].result = "hook_error" => told # <<>> /\ Failing(told[Len(told)].hook)
            /\ call[a].result \in {"ok", "tool_error"} => HooksRun(a) = all
=============================================================================
