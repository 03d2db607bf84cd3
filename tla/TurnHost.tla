------------------------------ MODULE TurnHost ------------------------------
(***************************************************************************)
(* The turns of one project in one process: RuntimeHost                    *)
(* (app_service/runtime_host.py), the questions its turns put to the user  *)
(* (InteractionService, app_service/interaction_service.py) and what the   *)
(* answers grant (PermissionManager, runtime/permissions.py).              *)
(*                                                                         *)
(* Each turn is a thread.  The first runs on the primary runtime, the one  *)
(* beside it on a fresh runtime, which has its own mode and grants.  Other *)
(* threads serve the user: they start and interrupt turns, answer, and set *)
(* the mode.  A round of the agent loop is one tool call or one request.   *)
(***************************************************************************)
EXTENDS Integers, FiniteSets

CONSTANTS MaxTurns,       \* bound: turns begun
          Sessions,
          Tools,          \* tools no mode below yolo allows, or only accept_edits
          EditTools,      \* of these, the ones accept_edits allows
          Modes,          \* bound: the execution modes in use
          MaxActiveTurns, \* RuntimeHost.MAX_ACTIVE_TURNS
          MaxRounds,      \* max_agent_rounds
          UserModes,      \* bound: modes the user sets
          MaxActs         \* bound: times the user interrupts a turn or sets the mode

ModeOrder == <<"shortcuts", "plan", "accept_edits", "yolo">>

ASSUME HostAssumption ==
  /\ MaxTurns \in Nat
  /\ EditTools \subseteq Tools
  /\ "accept_edits" \in Modes
  /\ \A m \in Modes : m \notin Tools /\ \E i \in 1..4 : m = ModeOrder[i]
  /\ MaxActiveTurns \in Nat /\ MaxRounds \in Nat /\ MaxActs \in Nat
  /\ UserModes \subseteq Modes

VARIABLES
  phase,        \* where each turn's thread is
  session,      \* the session of each turn
  runtime,      \* the runtime of each turn
  interrupted,  \* interrupt_event of each turn
  cancelling,   \* turns whose interrupter has still to cancel their requests
  rounds,       \* rounds each turn has begun
  primaryInUse, \* _primary_runtime_in_use
  asked,        \* the request each turn waits for
  answer,       \* its response
  pending,      \* InteractionService._pending
  mode,         \* execution_mode of each runtime
  granted,      \* _workspace_authorized_tools of each runtime
  once,         \* _once_authorized_tools of each runtime
  file,         \* permissions.json
  user          \* what the user did: tools allowed for good, and for so many runs
                \* that have not taken place; its other acts

turnVars == <<phase, session, runtime, interrupted, cancelling, rounds, primaryInUse>>
askVars == <<asked, answer, pending>>
grantVars == <<mode, granted, once, file>>
vars == <<turnVars, askVars, grantVars, user>>

Turns == 1..MaxTurns   \* in the order they begin; the ids are random in the code
Primary == 0           \* the primary runtime; the own one of a turn has its number
Runtimes == 0..MaxTurns
Phases == {"new", "loop", "calling", "waiting", "timed_out", "ending", "done", "gone"}
Requests == [turn : Turns, round : 0..MaxRounds, about : Tools \cup Modes, current : Modes]
Answers == [approved : BOOLEAN, scope : {"once", "workspace", "deny"}, active : Modes]

NoSession == "none"
NoRequest == [turn |-> 0, round |-> 0, about |-> "none", current |-> "none"]
NoGrants == [x \in Tools |-> 0]
NoAnswer == [approved |-> FALSE, scope |-> "none", active |-> "none"]

\* is_mode_escalation
Escalates(m, n) == \E i, j \in 1..4 : i < j /\ ModeOrder[i] = m /\ ModeOrder[j] = n

Unfinished == {t \in Turns : phase[t] \notin {"new", "done", "gone"}}
Registered == {t \in Turns : phase[t] \notin {"new", "gone"}}

Init ==
  /\ phase = [t \in Turns |-> "new"]
  /\ session = [t \in Turns |-> NoSession]
  /\ runtime = [t \in Turns |-> Primary]
  /\ interrupted = [t \in Turns |-> FALSE]
  /\ cancelling = {}
  /\ rounds = [t \in Turns |-> 0]
  /\ primaryInUse = FALSE
  /\ asked = [t \in Turns |-> NoRequest]
  /\ answer = [t \in Turns |-> NoAnswer]
  /\ pending = {}
  /\ mode = [r \in Runtimes |-> "accept_edits"]
  /\ granted = [r \in Runtimes |-> {}]
  /\ once = [r \in Runtimes |-> NoGrants]
  /\ file = {}
  /\ user = [credit |-> NoGrants, standing |-> {}, acts |-> 0]
-----------------------------------------------------------------------------
(* RuntimeHost: a turn begins, is interrupted, ends.                       *)

MayRun(s) ==
  /\ Cardinality(Unfinished) < MaxActiveTurns
  /\ \A t \in Unfinished : session[t] # s

\* run_turn, under _state_lock; a fresh runtime loads the grants of the file.
RunTurn(t, s) ==
  /\ phase[t] = "new" /\ \A u \in Turns : u < t => phase[u] # "new"
  /\ MayRun(s)
  /\ phase' = [phase EXCEPT ![t] = "loop"]
  /\ session' = [session EXCEPT ![t] = s]
  /\ IF primaryInUse
     THEN /\ runtime' = [runtime EXCEPT ![t] = t]
          /\ mode' = [mode EXCEPT ![t] = mode[Primary]]
          /\ granted' = [granted EXCEPT ![t] = file]
          /\ UNCHANGED primaryInUse
     ELSE /\ runtime' = [runtime EXCEPT ![t] = Primary]
          /\ primaryInUse' = TRUE
          /\ UNCHANGED <<mode, granted>>
  /\ UNCHANGED <<interrupted, cancelling, rounds, askVars, once, file, user>>

\* interrupt_turn: the event is set under _state_lock, the requests are cancelled after.
InterruptTurn(t) ==
  /\ user.acts < MaxActs /\ t \in Unfinished /\ ~interrupted[t]
  /\ user' = [user EXCEPT !.acts = @ + 1]
  /\ interrupted' = [interrupted EXCEPT ![t] = TRUE]
  /\ cancelling' = cancelling \cup {t}
  /\ UNCHANGED <<phase, session, runtime, rounds, primaryInUse, askVars, grantVars>>

\* The head of a round: max_agent_rounds is tested first, then the interrupt.
BeginRound(t) ==
  /\ phase[t] = "loop"
  /\ IF rounds[t] = MaxRounds \/ interrupted[t]
     THEN phase' = [phase EXCEPT ![t] = "ending"] /\ UNCHANGED rounds
     ELSE /\ phase' = [phase EXCEPT ![t] = "calling"]
          /\ rounds' = [rounds EXCEPT ![t] = @ + 1]
  /\ UNCHANGED <<session, runtime, interrupted, cancelling, primaryInUse, askVars,
                 grantVars, user>>

\* The model calls no tool, or the round raises.
StopRounds(t) ==
  /\ phase[t] = "calling"
  /\ phase' = [phase EXCEPT ![t] = "ending"]
  /\ UNCHANGED <<session, runtime, interrupted, cancelling, rounds, primaryInUse,
                 askVars, grantVars, user>>

\* The thread has its result and sets done_event.
FinishTurn(t) ==
  /\ phase[t] = "ending"
  /\ phase' = [phase EXCEPT ![t] = "done"]
  /\ UNCHANGED <<session, runtime, interrupted, cancelling, rounds, primaryInUse,
                 askVars, grantVars, user>>

\* plausible bug: the flag is cleared whatever runtime the turn had
AnyRuntime(t) == TRUE

OnPrimary(t) == runtime[t] = Primary

\* Under _state_lock: the turn leaves the table, its own runtime is closed; what
\* both held is gone with them.
ReleaseTurn(t) ==
  /\ phase[t] = "done"
  /\ phase' = [phase EXCEPT ![t] = "gone"]
  /\ primaryInUse' = (primaryInUse /\ ~OnPrimary(t))
  /\ mode' = [mode EXCEPT ![t] = "accept_edits"]
  /\ granted' = [granted EXCEPT ![t] = {}]
  /\ once' = [once EXCEPT ![t] = NoGrants]
  /\ session' = [session EXCEPT ![t] = NoSession]
  /\ runtime' = [runtime EXCEPT ![t] = Primary]
  /\ interrupted' = [interrupted EXCEPT ![t] = FALSE]
  /\ rounds' = [rounds EXCEPT ![t] = 0]
  /\ UNCHANGED <<cancelling, askVars, file, user>>
-----------------------------------------------------------------------------
(* PermissionManager: what a call may do, and what it asks.                *)

\* tool_block_message
ModeAllows(m, x) == m = "yolo" \/ (m = "accept_edits" /\ x \in EditTools)

HasOnce(r, x) == once[r][x] > 0

\* plausible bug: a grant for one call is not used up
KeepOnce(r, x) == once

UseOnce(r, x) == [once EXCEPT ![r][x] = @ - 1]

EndRound(t) == phase' = [phase EXCEPT ![t] = "loop"]

\* A run that neither the mode nor a standing approval of the user allows.
CountRun(r, x) ==
  user' = IF ModeAllows(mode[r], x) \/ x \in user.standing THEN user
          ELSE [user EXCEPT !.credit[x] = @ - 1]

\* authorize_tool_call, then the tool; a blocked call only reports.
CallTool(t, x) ==
  LET r == runtime[t]
  IN /\ phase[t] = "calling"
     /\ EndRound(t)
     /\ \/ x \in granted[r] /\ CountRun(r, x) /\ UNCHANGED once
        \/ x \notin granted[r] /\ HasOnce(r, x) /\ CountRun(r, x) /\ once' = UseOnce(r, x)
        \/ /\ x \notin granted[r] /\ ~HasOnce(r, x) /\ ModeAllows(mode[r], x)
           /\ UNCHANGED <<once, user>>
        \/ /\ x \notin granted[r] /\ ~HasOnce(r, x) /\ ~ModeAllows(mode[r], x)
           /\ UNCHANGED <<once, user>>
     /\ UNCHANGED <<session, runtime, interrupted, cancelling, rounds, primaryInUse,
                    askVars, mode, granted, file>>

\* _create_request, before the event that tells the user.
Ask(t, about) ==
  LET request == [turn |-> t, round |-> rounds[t], about |-> about,
                  current |-> mode[runtime[t]]]
  IN /\ phase' = [phase EXCEPT ![t] = "waiting"]
     /\ asked' = [asked EXCEPT ![t] = request]
     /\ pending' = pending \cup {request}
     /\ UNCHANGED answer

\* request_authorization asks unless a grant, or yolo, answers already.
RequestAuthorization(t, x) ==
  LET r == runtime[t]
  IN /\ phase[t] = "calling"
     /\ mode[r] # "yolo" /\ x \notin granted[r] /\ ~HasOnce(r, x)
     /\ Ask(t, x)
     /\ UNCHANGED <<session, runtime, interrupted, cancelling, rounds, primaryInUse,
                    grantVars, user>>

\* request_mode_switch: yolo cannot be asked for, a lower mode is taken at once.
RequestModeSwitch(t, m) ==
  LET r == runtime[t]
  IN /\ phase[t] = "calling" /\ m # "yolo" /\ m # mode[r]
     /\ IF Escalates(mode[r], m)
        THEN Ask(t, m) /\ UNCHANGED mode
        ELSE EndRound(t) /\ mode' = [mode EXCEPT ![r] = m] /\ UNCHANGED askVars
     /\ UNCHANGED <<session, runtime, interrupted, cancelling, rounds, primaryInUse,
                    granted, once, file, user>>

WithTool(r, x) == granted[r] \cup {x}

Settle(t) ==
  /\ EndRound(t)
  /\ asked' = [asked EXCEPT ![t] = NoRequest]
  /\ answer' = [answer EXCEPT ![t] = NoAnswer]

\* The rest of request_authorization: permissions.json becomes this runtime's set.
TakeAuthorization(t) ==
  LET r == runtime[t]
      x == asked[t].about
  IN /\ phase[t] = "waiting" /\ answer[t] # NoAnswer /\ x \in Tools
     /\ Settle(t)
     /\ \/ /\ answer[t].approved /\ answer[t].scope = "workspace"
           /\ granted' = [granted EXCEPT ![r] = WithTool(r, x)]
           /\ file' = WithTool(r, x)
           /\ UNCHANGED once
        \/ /\ answer[t].approved /\ answer[t].scope = "once"
           /\ once' = [once EXCEPT ![r][x] = @ + 1]
           /\ UNCHANGED <<granted, file>>
        \/ ~answer[t].approved /\ UNCHANGED <<granted, once, file>>
     /\ UNCHANGED <<session, runtime, interrupted, cancelling, rounds, primaryInUse,
                    pending, mode, user>>

\* The rest of _request_mode_switch and request_mode_switch: the primary runtime
\* and this turn's get the mode of the answer, be it a refusal.
TakeModeSwitch(t) ==
  /\ phase[t] = "waiting" /\ answer[t] # NoAnswer /\ asked[t].about \in Modes
  /\ Settle(t)
  /\ mode' = [mode EXCEPT ![Primary] = answer[t].active, ![runtime[t]] = answer[t].active]
  /\ UNCHANGED <<session, runtime, interrupted, cancelling, rounds, primaryInUse,
                 pending, granted, once, file, user>>

NeverExpires(t) == FALSE   \* plausible bug: the wait has no timeout

\* REQUEST_TIMEOUT_SECONDS have passed.
WaitExpires(t) == phase[t] = "waiting" /\ answer[t] = NoAnswer

\* The answer may still come before the thread has the lock.
TimeOut(t) ==
  /\ WaitExpires(t)
  /\ phase' = [phase EXCEPT ![t] = "timed_out"]
  /\ UNCHANGED <<session, runtime, interrupted, cancelling, rounds, primaryInUse,
                 askVars, grantVars, user>>

KeepRequest(t) == pending   \* plausible bug: a request that timed out stays pending

DropRequest(t) == pending \ {asked[t]}

\* Nothing is granted, whatever the answer was; a mode goes back to what it was.
GiveUp(t) ==
  /\ phase[t] = "timed_out"
  /\ pending' = DropRequest(t)
  /\ Settle(t)
  /\ mode' = IF asked[t].about \in Modes
             THEN [mode EXCEPT ![runtime[t]] = asked[t].current] ELSE mode
  /\ UNCHANGED <<session, runtime, interrupted, cancelling, rounds, primaryInUse,
                 granted, once, file, user>>
-----------------------------------------------------------------------------
(* InteractionService: answers.                                            *)

\* resolve_request: whoever takes the request out of _pending answers it.
Resolve(request, response) ==
  /\ pending' = pending \ {request}
  /\ answer' = [answer EXCEPT ![request.turn] = response]
  /\ UNCHANGED <<turnVars, asked, grantVars>>

ResolveAuthorization(request, scope) ==
  /\ request.about \in Tools
  /\ Resolve(request, [approved |-> scope # "deny", scope |-> scope,
                       active |-> request.current])
  /\ user' = CASE scope = "workspace" -> [user EXCEPT !.standing = @ \cup {request.about}]
               [] scope = "once" -> [user EXCEPT !.credit[request.about] = @ + 1]
               [] scope = "deny" -> user

\* A client that refuses sends the mode of the request, or of the primary runtime.
ResolveModeSwitch(request) ==
  /\ request.about \in Modes
  /\ \/ Resolve(request, [approved |-> TRUE, scope |-> "deny", active |-> request.about])
     \/ \E m \in {request.current, mode[Primary]} :
          Resolve(request, [approved |-> FALSE, scope |-> "deny", active |-> m])
  /\ UNCHANGED user

OfTurn(t) == {request \in pending : request.turn = t}

\* cancel_turn_requests, by the thread that interrupted the turn.
CancelTurnRequests(t) ==
  /\ t \in cancelling
  /\ cancelling' = cancelling \ {t}
  /\ pending' = pending \ OfTurn(t)
  /\ answer' = IF \E request \in pending : request.turn = t
               THEN [answer EXCEPT ![t] = [approved |-> FALSE, scope |-> "deny",
                                           active |-> mode[Primary]]]
               ELSE answer
  /\ UNCHANGED <<phase, session, runtime, interrupted, rounds, primaryInUse, asked,
                 grantVars, user>>

\* The user sets the mode of the project (SidecarServer.set_execution_mode).
SetExecutionMode(m) ==
  /\ user.acts < MaxActs /\ m # mode[Primary]
  /\ mode' = [mode EXCEPT ![Primary] = m]
  /\ user' = [user EXCEPT !.acts = @ + 1]
  /\ UNCHANGED <<turnVars, askVars, granted, once, file>>
-----------------------------------------------------------------------------
TurnStep(t) ==
  \/ BeginRound(t) \/ StopRounds(t) \/ FinishTurn(t) \/ ReleaseTurn(t)
  \/ TakeAuthorization(t) \/ TakeModeSwitch(t) \/ TimeOut(t) \/ GiveUp(t)
  \/ \E x \in Tools : CallTool(t, x) \/ RequestAuthorization(t, x)
  \/ \E m \in Modes : RequestModeSwitch(t, m)

UserStep ==
  \/ \E t \in Turns, s \in Sessions : RunTurn(t, s)
  \/ \E t \in Turns : InterruptTurn(t) \/ CancelTurnRequests(t)
  \/ \E request \in pending :
       \/ \E scope \in {"once", "workspace", "deny"} : ResolveAuthorization(request, scope)
       \/ ResolveModeSwitch(request)
  \/ \E m \in UserModes : SetExecutionMode(m)

Next == (\E t \in Turns : TurnStep(t)) \/ UserStep

Spec == Init /\ [][Next]_vars

\* The threads of turns run on; the user need not do anything.
FairSpec == Spec /\ \A t \in Turns : WF_vars(TurnStep(t))
-----------------------------------------------------------------------------
TypeOK ==
  /\ phase \in [Turns -> Phases]
  /\ session \in [Turns -> Sessions \cup {NoSession}]
  /\ runtime \in [Turns -> Runtimes]
  /\ interrupted \in [Turns -> BOOLEAN] /\ cancelling \subseteq Turns
  /\ rounds \in [Turns -> 0..MaxRounds]
  /\ primaryInUse \in BOOLEAN
  /\ asked \in [Turns -> Requests \cup {NoRequest}]
  /\ answer \in [Turns -> Answers \cup {NoAnswer}]
  /\ pending \subseteq Requests
  /\ mode \in [Runtimes -> Modes]
  /\ granted \in [Runtimes -> SUBSET Tools]
  /\ once \in [Runtimes -> [Tools -> Nat]]
  /\ file \subseteq Tools
  /\ user \in [credit : [Tools -> Int], standing : SUBSET Tools, acts : 0..MaxActs]

\* At most MAX_ACTIVE_TURNS turns are under way, at most one of a session, and no
\* two turns share a runtime, also while one of them is still being released
\* (run_turn and the end of _run_turn_worker, which do not hold one lock throughout).
TurnSlots ==
  /\ Cardinality(Unfinished) <= MaxActiveTurns
  /\ \A t, u \in Unfinished : session[t] = session[u] => t = u
  /\ \A t, u \in Registered : runtime[t] = runtime[u] => t = u
  /\ primaryInUse <=> \E t \in Registered : OnPrimary(t)

\* Nobody waits for a question that can no longer be answered, and no question
\* stays pending that nobody waits for: a waiting turn has its request in _pending
\* or its answer, and _pending holds nothing else (resolve_request, timeouts and
\* cancel_turn_requests take requests out of it at any moment).
PendingIsAwaited ==
  /\ \A t \in Turns : phase[t] = "waiting" => (asked[t] \in pending <=> answer[t] = NoAnswer)
  /\ \A request \in pending :
       /\ phase[request.turn] \in {"waiting", "timed_out"}
       /\ asked[request.turn] = request

\* A tool that the mode blocks, and that the user allowed for no workspace, runs at
\* most once for each time the user allowed it once, whatever timed out, was
\* cancelled or was left over from an earlier turn on the same runtime. Counted is the
\* tool and not who asked: a single approval that its turn did not use stays with the
\* runtime, and a later turn of another session may use it there.
RunsAreApproved == \A x \in Tools : user.credit[x] >= 0

\* Every turn comes to its end and leaves the table, also when nobody answers what
\* it asks or it is interrupted just before it asks: of the MaxTurns turns, those
\* that begin are all gone in the end.
EveryTurnEnds == <>[](Registered = {})
=============================================================================
