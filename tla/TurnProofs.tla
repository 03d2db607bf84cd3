----------------------------- MODULE TurnProofs -----------------------------
(* Theorems about a turn: first about the host that starts and releases    *)
(* turns (TurnHost), then about the loop a turn runs (AgentLoop), at last  *)
(* about its events on their way to the clients (Sidecar).                 *)
EXTENDS TurnHost, AgentLoop, Sidecar, FiniteSetTheorems, SequenceTheorems, TLAPS

-----------------------------------------------------------------------------
(***************************************************************************)
(* What the turn host guarantees for any number of turns, sessions and     *)
(* tools.                                                                  *)
(*                                                                         *)
(* SlotInv adds to TurnSlots that a turn runs on the primary runtime or on *)
(* its own.  AskInv adds to PendingIsAwaited that a request carries the    *)
(* number of the turn that waits for it, and that a turn which does not    *)
(* wait holds no answer.  GrantInv compares what the user allowed with     *)
(* what the runtimes may still run: the single runs that are allowed and   *)
(* have not taken place form a set, no larger than the user's credit.      *)
(***************************************************************************)

OwnRuntime == \A t \in Turns : runtime[t] \in {Primary, t}

SlotInv == OwnRuntime /\ TurnSlots

Waiting(t) == phase[t] \in {"waiting", "timed_out"}

AskedOfTurn ==
  \A t \in Turns :
    /\ Waiting(t) => asked[t].turn = t
    /\ ~Waiting(t) => asked[t] = NoRequest /\ answer[t] = NoAnswer

AskInv == AskedOfTurn /\ PendingIsAwaited

\* "none" is no mode, so that a turn with NoRequest waits for no mode switch.
LEMMA NoneIsNoMode == "none" \notin Modes
  BY HostAssumption DEF HostAssumption, ModeOrder

\* The bounds, without the order of the modes.
LEMMA Bounds ==
  /\ MaxTurns \in Nat /\ MaxActiveTurns \in Nat /\ MaxRounds \in Nat /\ MaxActs \in Nat
  /\ UserModes \subseteq Modes
  BY HostAssumption DEF HostAssumption

UserType == [credit : [Tools -> Int], standing : SUBSET Tools, acts : 0..MaxActs]

\* One more act of the user.
LEMMA ActOfUser ==
  ASSUME NEW u \in UserType, u.acts < MaxActs
  PROVE  [u EXCEPT !.acts = @ + 1] \in UserType
  <1>1. u.acts + 1 \in 0..MaxActs
    BY Bounds DEF UserType
  <1> QED
    BY <1>1 DEF UserType

\* A tool's credit becomes another integer.
LEMMA CreditOfUser ==
  ASSUME NEW u \in UserType, NEW x \in Tools
  PROVE  /\ [u EXCEPT !.credit[x] = @ + 1] \in UserType
         /\ [u EXCEPT !.credit[x] = @ - 1] \in UserType
         /\ [u EXCEPT !.standing = @ \cup {x}] \in UserType
  BY DEF UserType

\* A turn's runtime and the primary one are runtimes.
LEMMA RuntimesOf == Primary \in Runtimes /\ Turns \subseteq Runtimes
  BY HostAssumption DEF HostAssumption, Primary, Runtimes, Turns
-----------------------------------------------------------------------------
THEOREM InitInv == Init => TypeOK /\ SlotInv /\ AskInv
  <1> SUFFICES ASSUME Init PROVE TypeOK /\ SlotInv /\ AskInv
    OBVIOUS
  <1>1. TypeOK
    <2>1. /\ phase \in [Turns -> Phases] /\ session \in [Turns -> Sessions \cup {NoSession}]
          /\ runtime \in [Turns -> Runtimes] /\ interrupted \in [Turns -> BOOLEAN]
          /\ cancelling \subseteq Turns /\ primaryInUse \in BOOLEAN
      BY RuntimesOf DEF Init, Phases
    <2>2. rounds \in [Turns -> 0..MaxRounds]
      BY HostAssumption DEF Init, HostAssumption
    <2>3. /\ asked \in [Turns -> Requests \cup {NoRequest}]
          /\ answer \in [Turns -> Answers \cup {NoAnswer}] /\ pending \subseteq Requests
      BY DEF Init
    <2>4. /\ mode \in [Runtimes -> Modes] /\ granted \in [Runtimes -> SUBSET Tools]
          /\ file \subseteq Tools
      BY HostAssumption DEF Init, HostAssumption
    <2>5. NoGrants \in [Tools -> Nat]
      BY DEF NoGrants
    <2>6. /\ once \in [Runtimes -> [Tools -> Nat]]
          /\ user \in [credit : [Tools -> Int], standing : SUBSET Tools, acts : 0..MaxActs]
      BY <2>5, HostAssumption DEF Init, HostAssumption
    <2> QED
      BY <2>1, <2>2, <2>3, <2>4, <2>6 DEF TypeOK
  <1>2. Unfinished = {} /\ Registered = {}
    BY DEF Init, Unfinished, Registered
  <1>3. Cardinality(Unfinished) <= MaxActiveTurns
    BY <1>2, FS_EmptySet, HostAssumption DEF HostAssumption
  <1>4. SlotInv
    BY <1>2, <1>3 DEF Init, SlotInv, OwnRuntime, TurnSlots
  <1>5. AskInv
    BY DEF Init, AskInv, AskedOfTurn, PendingIsAwaited, Waiting
  <1> QED
    BY <1>1, <1>4, <1>5
-----------------------------------------------------------------------------
(* Types.                                                                  *)

LEMMA RunTurnTypes ==
  ASSUME TypeOK, NEW t \in Turns, NEW s \in Sessions, RunTurn(t, s)
  PROVE  TypeOK'
  <1>1. phase' \in [Turns -> Phases] /\ session' \in [Turns -> Sessions \cup {NoSession}]
    BY DEF TypeOK, RunTurn, Phases
  <1>2. /\ runtime' \in [Turns -> Runtimes] /\ primaryInUse' \in BOOLEAN
        /\ mode' \in [Runtimes -> Modes] /\ granted' \in [Runtimes -> SUBSET Tools]
    <2>0. t \in Runtimes /\ Primary \in Runtimes
      BY RuntimesOf
    <2>1. CASE primaryInUse
      <3>1. runtime' = [runtime EXCEPT ![t] = t] /\ mode' = [mode EXCEPT ![t] = mode[Primary]]
            /\ granted' = [granted EXCEPT ![t] = file] /\ primaryInUse' = primaryInUse
        BY <2>1 DEF RunTurn
      <3>2. mode[Primary] \in Modes
        BY <2>0 DEF TypeOK
      <3> QED
        BY <3>1, <3>2, <2>0 DEF TypeOK
    <2>2. CASE ~primaryInUse
      <3>1. runtime' = [runtime EXCEPT ![t] = Primary] /\ primaryInUse' = TRUE
            /\ mode' = mode /\ granted' = granted
        BY <2>2 DEF RunTurn
      <3> QED
        BY <3>1, <2>0 DEF TypeOK
    <2> QED
      BY <2>1, <2>2
  <1> QED
    BY <1>1, <1>2 DEF TypeOK, RunTurn, askVars

LEMMA InterruptTurnTypes ==
  ASSUME TypeOK, NEW t \in Turns, InterruptTurn(t)
  PROVE  TypeOK'
  <1>1. user' \in UserType
    BY ActOfUser DEF TypeOK, UserType, InterruptTurn
  <1>2. interrupted' \in [Turns -> BOOLEAN] /\ cancelling' \subseteq Turns
    BY DEF TypeOK, InterruptTurn
  <1> QED
    BY <1>1, <1>2 DEF TypeOK, UserType, InterruptTurn, askVars, grantVars

LEMMA BeginRoundTypes ==
  ASSUME TypeOK, NEW t \in Turns, BeginRound(t)
  PROVE  TypeOK'
  <1>1. rounds' \in [Turns -> 0..MaxRounds]
    <2>1. rounds \in [Turns -> 0..MaxRounds]
      BY DEF TypeOK
    <2>2. rounds' = rounds \/ (rounds[t] # MaxRounds /\ rounds' = [rounds EXCEPT ![t] = @ + 1])
      BY DEF BeginRound
    <2>3. rounds[t] # MaxRounds => rounds[t] + 1 \in 0..MaxRounds
      BY <2>1, Bounds
    <2>4. \A n \in 0..MaxRounds : [rounds EXCEPT ![t] = n] \in [Turns -> 0..MaxRounds]
      BY <2>1
    <2> QED
      BY <2>1, <2>2, <2>3, <2>4
  <1>2. phase' \in [Turns -> Phases]
    <2>1. \E p \in {"ending", "calling"} : phase' = [phase EXCEPT ![t] = p]
      BY DEF BeginRound
    <2> QED
      BY <2>1 DEF TypeOK, Phases
  <1>3. /\ UNCHANGED <<session, runtime, interrupted, cancelling, primaryInUse>>
        /\ UNCHANGED <<asked, answer, pending, mode, granted, once, file, user>>
    BY DEF BeginRound, askVars, grantVars
  <1> QED
    BY <1>1, <1>2, <1>3 DEF TypeOK

LEMMA PhaseStepTypes ==
  ASSUME TypeOK, NEW t \in Turns, StopRounds(t) \/ FinishTurn(t) \/ TimeOut(t)
  PROVE  TypeOK'
  BY DEF TypeOK, StopRounds, FinishTurn, TimeOut, Phases, askVars, grantVars

LEMMA ReleaseTurnTypes ==
  ASSUME TypeOK, NEW t \in Turns, ReleaseTurn(t)
  PROVE  TypeOK'
  BY RuntimesOf, HostAssumption
  DEF TypeOK, ReleaseTurn, Phases, askVars, HostAssumption, NoGrants

LEMMA CallToolTypes ==
  ASSUME TypeOK, NEW t \in Turns, NEW x \in Tools, CallTool(t, x)
  PROVE  TypeOK'
  <1>1. phase' \in [Turns -> Phases]
    BY DEF TypeOK, CallTool, EndRound, Phases
  <1>2. ASSUME CountRun(runtime[t], x)
        PROVE  user' \in UserType
    BY <1>2, CreditOfUser DEF TypeOK, UserType, CountRun
  <1>3. user' \in UserType
    BY <1>2 DEF TypeOK, UserType, CallTool
  <1>4. HasOnce(runtime[t], x) => UseOnce(runtime[t], x) \in [Runtimes -> [Tools -> Nat]]
    BY DEF TypeOK, UseOnce, HasOnce
  <1>5. once' \in [Runtimes -> [Tools -> Nat]]
    BY <1>4 DEF TypeOK, CallTool
  <1>6. /\ UNCHANGED <<session, runtime, interrupted, cancelling, rounds, primaryInUse>>
        /\ UNCHANGED <<asked, answer, pending, mode, granted, file>>
    BY DEF CallTool, askVars
  <1> QED
    BY <1>1, <1>3, <1>5, <1>6 DEF TypeOK, UserType

LEMMA AskTypes ==
  ASSUME TypeOK, NEW t \in Turns, NEW about \in Tools \cup Modes, Ask(t, about)
  PROVE  /\ phase' \in [Turns -> Phases]
         /\ asked' \in [Turns -> Requests \cup {NoRequest}]
         /\ answer' \in [Turns -> Answers \cup {NoAnswer}]
         /\ pending' \subseteq Requests
  BY DEF TypeOK, Ask, Phases, Requests

LEMMA RequestTypes ==
  ASSUME TypeOK, NEW t \in Turns,
         (\E x \in Tools : RequestAuthorization(t, x)) \/ (\E m \in Modes : RequestModeSwitch(t, m))
  PROVE  TypeOK'
  <1>1. ASSUME NEW x \in Tools, RequestAuthorization(t, x)
        PROVE  TypeOK'
    BY <1>1, AskTypes DEF TypeOK, RequestAuthorization, grantVars
  <1>2. ASSUME NEW m \in Modes, RequestModeSwitch(t, m), Escalates(mode[runtime[t]], m)
        PROVE  TypeOK'
    BY <1>2, AskTypes DEF TypeOK, RequestModeSwitch
  <1>3. ASSUME NEW m \in Modes, RequestModeSwitch(t, m), ~Escalates(mode[runtime[t]], m)
        PROVE  TypeOK'
    <2>1. /\ phase' = [phase EXCEPT ![t] = "loop"] /\ mode' = [mode EXCEPT ![runtime[t]] = m]
          /\ UNCHANGED <<session, runtime, interrupted, cancelling, rounds, primaryInUse>>
          /\ UNCHANGED <<asked, answer, pending, granted, once, file, user>>
      BY <1>3 DEF RequestModeSwitch, EndRound, askVars
    <2> QED
      BY <2>1 DEF TypeOK, Phases
  <1> QED
    BY <1>1, <1>2, <1>3

LEMMA SettleTypes ==
  ASSUME TypeOK, NEW t \in Turns, Settle(t)
  PROVE  /\ phase' \in [Turns -> Phases]
         /\ asked' \in [Turns -> Requests \cup {NoRequest}]
         /\ answer' \in [Turns -> Answers \cup {NoAnswer}]
  BY DEF TypeOK, Settle, EndRound, Phases

LEMMA TakeAuthorizationTypes ==
  ASSUME TypeOK, NEW t \in Turns, TakeAuthorization(t)
  PROVE  TypeOK'
  <1>1. granted' \in [Runtimes -> SUBSET Tools] /\ file' \subseteq Tools
    <2>1. \/ granted' = granted /\ file' = file
          \/ /\ asked[t].about \in Tools
             /\ granted' = [granted EXCEPT ![runtime[t]] = WithTool(runtime[t], asked[t].about)]
             /\ file' = WithTool(runtime[t], asked[t].about)
      BY DEF TakeAuthorization
    <2>2. runtime[t] \in Runtimes
      BY DEF TypeOK
    <2>3. /\ granted \in [Runtimes -> SUBSET Tools] /\ file \subseteq Tools
          /\ \A x \in Tools : WithTool(runtime[t], x) \subseteq Tools
      BY <2>2 DEF TypeOK, WithTool
    <2> QED
      BY <2>1, <2>2, <2>3
  <1>2. \A r \in Runtimes, x \in Tools : [once EXCEPT ![r][x] = @ + 1] \in [Runtimes -> [Tools -> Nat]]
    BY DEF TypeOK
  <1>3. once' \in [Runtimes -> [Tools -> Nat]]
    <2>1. runtime[t] \in Runtimes /\ once \in [Runtimes -> [Tools -> Nat]]
      BY DEF TypeOK
    <2> QED
      BY <2>1, <1>2 DEF TakeAuthorization
  <1> QED
    BY <1>1, <1>3, SettleTypes DEF TypeOK, TakeAuthorization

LEMMA TakeModeSwitchTypes ==
  ASSUME TypeOK, NEW t \in Turns, TakeModeSwitch(t)
  PROVE  TypeOK'
  <1>1. answer[t] \in Answers
    BY DEF TypeOK, TakeModeSwitch
  <1>2. mode' \in [Runtimes -> Modes]
    BY <1>1, RuntimesOf DEF TypeOK, TakeModeSwitch, Answers
  <1> QED
    BY <1>2, SettleTypes DEF TypeOK, TakeModeSwitch

LEMMA GiveUpTypes ==
  ASSUME TypeOK, NEW t \in Turns, GiveUp(t)
  PROVE  TypeOK'
  <1>1. asked[t].about \in Modes => asked[t].current \in Modes
    BY NoneIsNoMode DEF TypeOK, NoRequest, Requests
  <1>2. mode' \in [Runtimes -> Modes]
    BY <1>1 DEF TypeOK, GiveUp
  <1> QED
    BY <1>2, SettleTypes DEF TypeOK, GiveUp, DropRequest

LEMMA ResolveTypes ==
  ASSUME TypeOK, NEW request \in pending, NEW response \in Answers, Resolve(request, response)
  PROVE  /\ pending' \subseteq Requests
         /\ answer' \in [Turns -> Answers \cup {NoAnswer}]
  BY DEF TypeOK, Resolve, Requests

LEMMA AnswerTypes ==
  ASSUME TypeOK, NEW request \in pending,
         \/ \E scope \in {"once", "workspace", "deny"} : ResolveAuthorization(request, scope)
         \/ ResolveModeSwitch(request)
  PROVE  TypeOK'
  <1>1. request \in Requests
    BY DEF TypeOK
  <1>2. ASSUME NEW scope \in {"once", "workspace", "deny"}, ResolveAuthorization(request, scope)
        PROVE  TypeOK'
    <2> DEFINE response == [approved |-> scope # "deny", scope |-> scope,
                            active |-> request.current]
    <2>1. response \in Answers
      BY <1>1 DEF Answers, Requests
    <2>2. Resolve(request, response)
      BY <1>2 DEF ResolveAuthorization
    <2>3. user' \in UserType
      <3>1. user \in UserType /\ request.about \in Tools
        BY <1>2 DEF ResolveAuthorization, TypeOK, UserType
      <3>2. \/ user' = [user EXCEPT !.standing = @ \cup {request.about}]
            \/ user' = [user EXCEPT !.credit[request.about] = @ + 1]
            \/ user' = user
        BY <1>2 DEF ResolveAuthorization
      <3> QED
        BY <3>1, <3>2, CreditOfUser
    <2> HIDE DEF response
    <2> QED
      BY <2>1, <2>2, <2>3, ResolveTypes DEF TypeOK, UserType, Resolve, turnVars, grantVars
  <1>3. CASE ResolveModeSwitch(request)
    <2>1. request.about \in Modes /\ request.current \in Modes /\ mode[Primary] \in Modes
      BY <1>1, <1>3, RuntimesOf DEF ResolveModeSwitch, Requests, TypeOK
    <2>2. PICK response \in Answers : Resolve(request, response)
      BY <2>1, <1>3 DEF ResolveModeSwitch, Answers
    <2>3. user' = user
      BY <1>3 DEF ResolveModeSwitch
    <2> QED
      BY <2>2, <2>3, ResolveTypes DEF TypeOK, Resolve, turnVars, grantVars
  <1> QED
    BY <1>2, <1>3

LEMMA CancelTypes ==
  ASSUME TypeOK, NEW t \in Turns, CancelTurnRequests(t)
  PROVE  TypeOK'
  BY RuntimesOf DEF TypeOK, CancelTurnRequests, OfTurn, Answers, grantVars

LEMMA SetModeTypes ==
  ASSUME TypeOK, NEW m \in UserModes, SetExecutionMode(m)
  PROVE  TypeOK'
  <1>1. user' \in UserType
    BY ActOfUser DEF TypeOK, UserType, SetExecutionMode
  <1> QED
    BY <1>1, RuntimesOf, Bounds DEF TypeOK, UserType, SetExecutionMode, turnVars, askVars

LEMMA StutterTypes ==
  ASSUME TypeOK, UNCHANGED vars
  PROVE  TypeOK'
  BY DEF TypeOK, vars, turnVars, askVars, grantVars

LEMMA NextTypes == TypeOK /\ [Next]_vars => TypeOK'
  <1> SUFFICES ASSUME TypeOK, [Next]_vars PROVE TypeOK'
    OBVIOUS
  <1>1. ASSUME NEW t \in Turns, TurnStep(t) PROVE TypeOK'
    BY <1>1, BeginRoundTypes, PhaseStepTypes, ReleaseTurnTypes, TakeAuthorizationTypes,
       TakeModeSwitchTypes, GiveUpTypes, CallToolTypes, RequestTypes
    DEF TurnStep
  <1>2. CASE UserStep
    BY <1>2, RunTurnTypes, InterruptTurnTypes, CancelTypes, AnswerTypes, SetModeTypes
    DEF UserStep
  <1>3. CASE UNCHANGED vars
    BY <1>3, StutterTypes
  <1> QED
    BY <1>1, <1>2, <1>3 DEF Next

\* TypeOK, for every number of turns, sessions and tools.
THEOREM HostTypes == Spec => []TypeOK
  <1>1. Init => TypeOK
    BY InitInv
  <1> QED
    BY <1>1, NextTypes, PTL DEF Spec
-----------------------------------------------------------------------------
(* Slots: who is under way, and on which runtime.                          *)

\* The turns under way are finitely many.
LEMMA UnfinishedFinite == IsFiniteSet(Unfinished)
  <1>1. IsFiniteSet(Turns)
    BY FS_Interval, Bounds DEF Turns
  <1>2. Unfinished \in SUBSET Turns
    BY DEF Unfinished
  <1> QED
    BY <1>1, <1>2, FS_Subset

\* Nothing that TurnSlots speaks of changes, except that turns end.
LEMMA SlotFrame ==
  ASSUME SlotInv, UNCHANGED <<session, runtime, primaryInUse>>,
         Unfinished' \subseteq Unfinished, Registered' = Registered
  PROVE  SlotInv'
  <1>1. Cardinality(Unfinished') <= MaxActiveTurns
    <2>1. Unfinished' \in SUBSET Unfinished
      OBVIOUS
    <2>2. IsFiniteSet(Unfinished') /\ Cardinality(Unfinished') <= Cardinality(Unfinished)
      BY <2>1, UnfinishedFinite, FS_Subset
    <2>3. Cardinality(Unfinished) \in Nat /\ Cardinality(Unfinished') \in Nat
      BY <2>2, UnfinishedFinite, FS_CardinalityType
    <2>4. Cardinality(Unfinished) <= MaxActiveTurns
      BY DEF SlotInv, TurnSlots
    <2> QED
      BY <2>2, <2>3, <2>4, Bounds
  <1> QED
    BY <1>1 DEF SlotInv, OwnRuntime, TurnSlots, OnPrimary

\* A turn under way goes on, or is done but not yet released.
LEMMA SlotStep ==
  ASSUME TypeOK, SlotInv, NEW t \in Unfinished, NEW p \in Phases \ {"new", "gone"},
         phase' = [phase EXCEPT ![t] = p], UNCHANGED <<session, runtime, primaryInUse>>
  PROVE  SlotInv'
  <1>1. phase \in [Turns -> Phases] /\ t \in Turns
    BY DEF TypeOK, Unfinished
  <1>2. Unfinished' \subseteq Unfinished /\ Registered' = Registered
    BY <1>1 DEF Unfinished, Registered
  <1> QED
    BY <1>2, SlotFrame

LEMMA RunTurnSlots ==
  ASSUME TypeOK, SlotInv, NEW t \in Turns, NEW s \in Sessions, RunTurn(t, s)
  PROVE  SlotInv'
  <1>1. /\ phase \in [Turns -> Phases] /\ session \in [Turns -> Sessions \cup {NoSession}]
        /\ runtime \in [Turns -> Runtimes]
    BY DEF TypeOK
  <1>2. /\ phase[t] = "new" /\ phase' = [phase EXCEPT ![t] = "loop"]
        /\ session' = [session EXCEPT ![t] = s] /\ MayRun(s)
    BY DEF RunTurn
  <1>3. t \notin Unfinished /\ Unfinished' = Unfinished \cup {t}
    BY <1>1, <1>2 DEF Unfinished
  <1>4. t \notin Registered /\ Registered' = Registered \cup {t}
    BY <1>1, <1>2 DEF Registered
  <1>5. Cardinality(Unfinished') <= MaxActiveTurns
    <2>1. Cardinality(Unfinished') = Cardinality(Unfinished) + 1
      BY <1>3, UnfinishedFinite, FS_AddElement
    <2>2. Cardinality(Unfinished) \in Nat /\ Cardinality(Unfinished) < MaxActiveTurns
      BY <1>2, UnfinishedFinite, FS_CardinalityType DEF MayRun
    <2> QED
      BY <2>1, <2>2, Bounds
  <1>6. \A u, v \in Unfinished' : session'[u] = session'[v] => u = v
    <2>1. \A u, v \in Unfinished : session[u] = session[v] => u = v
      BY DEF SlotInv, TurnSlots
    <2>2. \A u \in Unfinished : session[u] # s /\ u \in Turns
      BY <1>2 DEF MayRun, Unfinished
    <2> QED
      BY <2>1, <2>2, <1>1, <1>2, <1>3
  <1>7. /\ \A u \in Turns : runtime[u] \in {Primary, u} /\ u # Primary
        /\ \A u, v \in Registered : runtime[u] = runtime[v] => u = v
        /\ primaryInUse <=> \E u \in Registered : runtime[u] = Primary
        /\ Registered \subseteq Turns
    BY Bounds DEF SlotInv, OwnRuntime, TurnSlots, OnPrimary, Registered, Turns, Primary
  <1>8. CASE primaryInUse
    <2>1. runtime' = [runtime EXCEPT ![t] = t] /\ primaryInUse' = primaryInUse
      BY <1>8 DEF RunTurn
    <2>2. /\ \A u \in Turns : runtime'[u] \in {Primary, u}
          /\ \A u, v \in Registered' : runtime'[u] = runtime'[v] => u = v
          /\ primaryInUse' <=> \E u \in Registered' : runtime'[u] = Primary
      BY <2>1, <1>1, <1>4, <1>7
    <2> QED
      BY <2>2, <1>5, <1>6 DEF SlotInv, OwnRuntime, TurnSlots, OnPrimary
  <1>9. CASE ~primaryInUse
    <2>1. runtime' = [runtime EXCEPT ![t] = Primary] /\ primaryInUse' = TRUE
      BY <1>9 DEF RunTurn
    <2>2. /\ \A u \in Turns : runtime'[u] \in {Primary, u}
          /\ \A u, v \in Registered' : runtime'[u] = runtime'[v] => u = v
          /\ primaryInUse' <=> \E u \in Registered' : runtime'[u] = Primary
      BY <2>1, <1>1, <1>4, <1>7, <1>9
    <2> QED
      BY <2>2, <1>5, <1>6 DEF SlotInv, OwnRuntime, TurnSlots, OnPrimary
  <1> QED
    BY <1>8, <1>9

LEMMA ReleaseTurnSlots ==
  ASSUME TypeOK, SlotInv, NEW t \in Turns, ReleaseTurn(t)
  PROVE  SlotInv'
  <1>1. /\ phase \in [Turns -> Phases] /\ session \in [Turns -> Sessions \cup {NoSession}]
        /\ runtime \in [Turns -> Runtimes] /\ primaryInUse \in BOOLEAN
    BY DEF TypeOK
  <1>2. /\ phase[t] = "done" /\ phase' = [phase EXCEPT ![t] = "gone"]
        /\ session' = [session EXCEPT ![t] = NoSession]
        /\ runtime' = [runtime EXCEPT ![t] = Primary]
        /\ primaryInUse' = (primaryInUse /\ runtime[t] # Primary)
    BY DEF ReleaseTurn, OnPrimary
  <1>3. t \notin Unfinished /\ Unfinished' = Unfinished /\ Unfinished \subseteq Turns
    BY <1>1, <1>2 DEF Unfinished
  <1>4. /\ t \in Registered /\ Registered' = Registered \ {t} /\ Registered \subseteq Turns
    BY <1>1, <1>2 DEF Registered
  <1>5. /\ \A u \in Turns : runtime[u] \in {Primary, u}
        /\ \A u, v \in Registered : runtime[u] = runtime[v] => u = v
        /\ primaryInUse <=> \E u \in Registered : runtime[u] = Primary
    BY DEF SlotInv, OwnRuntime, TurnSlots, OnPrimary
  <1>6. /\ Cardinality(Unfinished') <= MaxActiveTurns
        /\ \A u, v \in Unfinished' : session'[u] = session'[v] => u = v
    <2>1. /\ Cardinality(Unfinished) <= MaxActiveTurns
          /\ \A u, v \in Unfinished : session[u] = session[v] => u = v
      BY DEF SlotInv, TurnSlots
    <2> QED
      BY <2>1, <1>1, <1>2, <1>3
  <1>7. /\ \A u \in Turns : runtime'[u] \in {Primary, u}
        /\ \A u, v \in Registered' : runtime'[u] = runtime'[v] => u = v
    BY <1>1, <1>2, <1>4, <1>5
  <1>8. primaryInUse' <=> \E u \in Registered' : runtime'[u] = Primary
    BY <1>1, <1>2, <1>4, <1>5
  <1> QED
    BY <1>6, <1>7, <1>8 DEF SlotInv, OwnRuntime, TurnSlots, OnPrimary

\* Every step of a turn but its release is one of SlotStep.
LEMMA TurnStepSlots ==
  ASSUME TypeOK, SlotInv, NEW t \in Turns, TurnStep(t)
  PROVE  SlotInv'
  <1>1. CASE ReleaseTurn(t)
    BY <1>1, ReleaseTurnSlots
  <1>2. CASE BeginRound(t) \/ StopRounds(t) \/ FinishTurn(t) \/ TimeOut(t)
    <2>1. t \in Unfinished /\ UNCHANGED <<session, runtime, primaryInUse>>
      BY <1>2 DEF BeginRound, StopRounds, FinishTurn, TimeOut, WaitExpires, Unfinished
    <2>2. \E p \in Phases \ {"new", "gone"} : phase' = [phase EXCEPT ![t] = p]
      BY <1>2 DEF BeginRound, StopRounds, FinishTurn, TimeOut, Phases
    <2> QED
      BY <2>1, <2>2, SlotStep
  <1>3. CASE TakeAuthorization(t) \/ TakeModeSwitch(t) \/ GiveUp(t)
    <2>1. t \in Unfinished /\ UNCHANGED <<session, runtime, primaryInUse>>
      BY <1>3 DEF TakeAuthorization, TakeModeSwitch, GiveUp, Unfinished
    <2>2. phase' = [phase EXCEPT ![t] = "loop"]
      BY <1>3 DEF TakeAuthorization, TakeModeSwitch, GiveUp, Settle, EndRound
    <2>3. "loop" \in Phases \ {"new", "gone"}
      BY DEF Phases
    <2> QED
      BY <2>1, <2>2, <2>3, SlotStep
  <1>4. ASSUME NEW x \in Tools, CallTool(t, x) \/ RequestAuthorization(t, x)
        PROVE  SlotInv'
    <2>1. t \in Unfinished /\ UNCHANGED <<session, runtime, primaryInUse>>
      BY <1>4 DEF CallTool, RequestAuthorization, Unfinished
    <2>2. phase' = [phase EXCEPT ![t] = "loop"] \/ phase' = [phase EXCEPT ![t] = "waiting"]
      BY <1>4 DEF CallTool, RequestAuthorization, EndRound, Ask
    <2>3. {"loop", "waiting"} \subseteq Phases \ {"new", "gone"}
      BY DEF Phases
    <2> QED
      BY <2>1, <2>2, <2>3, SlotStep
  <1>5. ASSUME NEW m \in Modes, RequestModeSwitch(t, m)
        PROVE  SlotInv'
    <2>1. t \in Unfinished /\ UNCHANGED <<session, runtime, primaryInUse>>
      BY <1>5 DEF RequestModeSwitch, Unfinished
    <2>2. phase' = [phase EXCEPT ![t] = "loop"] \/ phase' = [phase EXCEPT ![t] = "waiting"]
      BY <1>5 DEF RequestModeSwitch, EndRound, Ask
    <2>3. {"loop", "waiting"} \subseteq Phases \ {"new", "gone"}
      BY DEF Phases
    <2> QED
      BY <2>1, <2>2, <2>3, SlotStep
  <1> QED
    BY <1>1, <1>2, <1>3, <1>4, <1>5 DEF TurnStep

\* The other steps leave every turn where it is.
LEMMA UserStepSlots ==
  ASSUME TypeOK, SlotInv, UserStep \/ UNCHANGED vars
  PROVE  SlotInv'
  <1>1. ASSUME NEW t \in Turns, NEW s \in Sessions, RunTurn(t, s)
        PROVE  SlotInv'
    BY <1>1, RunTurnSlots
  <1>2. ASSUME UNCHANGED <<phase, session, runtime, primaryInUse>>
        PROVE  SlotInv'
    BY <1>2, SlotFrame DEF Unfinished, Registered
  <1>3. ASSUME NEW t \in Turns, InterruptTurn(t) \/ CancelTurnRequests(t)
        PROVE  SlotInv'
    BY <1>3, <1>2 DEF InterruptTurn, CancelTurnRequests
  <1>4. ASSUME NEW request \in pending,
               \/ \E scope \in {"once", "workspace", "deny"} : ResolveAuthorization(request, scope)
               \/ ResolveModeSwitch(request)
        PROVE  SlotInv'
    BY <1>4, <1>2 DEF ResolveAuthorization, ResolveModeSwitch, Resolve, turnVars
  <1>5. ASSUME NEW m \in UserModes, SetExecutionMode(m)
        PROVE  SlotInv'
    BY <1>5, <1>2 DEF SetExecutionMode, turnVars
  <1>6. CASE UNCHANGED vars
    BY <1>6, <1>2 DEF vars, turnVars
  <1> QED
    BY <1>1, <1>3, <1>4, <1>5, <1>6 DEF UserStep

\* TurnSlots, for every number of turns, sessions and tools.
THEOREM HostSlots == Spec => []TurnSlots
  <1>1. Init => TypeOK /\ SlotInv
    BY InitInv
  <1>2. TypeOK /\ SlotInv /\ [Next]_vars => TypeOK' /\ SlotInv'
    BY NextTypes, TurnStepSlots, UserStepSlots DEF Next
  <1>3. SlotInv => TurnSlots
    BY DEF SlotInv
  <1> QED
    BY <1>1, <1>2, <1>3, PTL DEF Spec
-----------------------------------------------------------------------------
(* Questions: who waits for which request.                                 *)

\* Every pending request is the one its turn waits for.
LEMMA PendingOf ==
  ASSUME TypeOK, AskInv, NEW request \in pending
  PROVE  /\ request \in Requests /\ request.turn \in Turns
         /\ Waiting(request.turn) /\ asked[request.turn] = request
  BY DEF TypeOK, AskInv, PendingIsAwaited, Waiting, Requests

\* A turn that waits for nothing goes on to wait for nothing.
LEMMA AskFrame ==
  ASSUME TypeOK, AskInv, NEW t \in Turns, NEW p \in Phases, phase' = [phase EXCEPT ![t] = p],
         ~Waiting(t), p \notin {"waiting", "timed_out"}, UNCHANGED askVars
  PROVE  AskInv'
  <1>1. phase \in [Turns -> Phases] /\ UNCHANGED <<asked, answer, pending>>
    BY DEF TypeOK, askVars
  <1>2. \A u \in Turns : /\ (phase'[u] = "waiting") = (phase[u] = "waiting")
                         /\ (phase'[u] = "timed_out") = (phase[u] = "timed_out")
    BY <1>1 DEF Waiting
  <1>3. AskedOfTurn'
    BY <1>1, <1>2 DEF AskInv, AskedOfTurn, Waiting
  <1>4. \A request \in pending : request.turn \in Turns
    BY PendingOf
  <1>5. PendingIsAwaited'
    BY <1>1, <1>2, <1>4 DEF AskInv, PendingIsAwaited
  <1> QED
    BY <1>3, <1>5 DEF AskInv

\* No thread moves, nothing is asked or answered.
LEMMA AskStutter ==
  ASSUME AskInv, UNCHANGED <<phase, askVars>>
  PROVE  AskInv'
  BY DEF AskInv, AskedOfTurn, PendingIsAwaited, Waiting, askVars

LEMMA AskKeeps ==
  ASSUME TypeOK, AskInv, NEW t \in Turns, NEW about \in Tools \cup Modes,
         phase[t] = "calling", Ask(t, about)
  PROVE  AskInv'
  <1>1. /\ phase \in [Turns -> Phases] /\ asked \in [Turns -> Requests \cup {NoRequest}]
        /\ ~Waiting(t)
    BY DEF TypeOK, Waiting
  <1>2. PICK request : /\ request.turn = t
                       /\ phase' = [phase EXCEPT ![t] = "waiting"]
                       /\ asked' = [asked EXCEPT ![t] = request]
                       /\ pending' = pending \cup {request} /\ answer' = answer
    BY DEF Ask
  <1>3. \A r \in pending : r.turn \in Turns \ {t}
    BY <1>1, PendingOf
  <1>4. AskedOfTurn'
    BY <1>1, <1>2 DEF AskInv, AskedOfTurn, Waiting
  <1>5. answer[t] = NoAnswer
    BY <1>1 DEF AskInv, AskedOfTurn
  <1>6. \A u \in Turns : phase'[u] = "waiting" => (asked'[u] \in pending' <=> answer'[u] = NoAnswer)
    <2> SUFFICES ASSUME NEW u \in Turns, phase'[u] = "waiting"
                 PROVE  asked'[u] \in pending' <=> answer'[u] = NoAnswer
      OBVIOUS
    <2>1. CASE u = t
      BY <2>1, <1>1, <1>2, <1>5
    <2>2. CASE u # t
      <3>1. phase[u] = "waiting" /\ asked'[u] = asked[u]
        BY <2>2, <1>1, <1>2
      <3>2. asked[u].turn = u
        BY <3>1 DEF AskInv, AskedOfTurn, Waiting
      <3> QED
        BY <3>1, <3>2, <2>2, <1>2 DEF AskInv, PendingIsAwaited
    <2> QED
      BY <2>1, <2>2
  <1>7. \A r \in pending' : phase'[r.turn] \in {"waiting", "timed_out"} /\ asked'[r.turn] = r
    BY <1>1, <1>2, <1>3 DEF AskInv, PendingIsAwaited
  <1> QED
    BY <1>4, <1>6, <1>7 DEF AskInv, PendingIsAwaited

\* The turn has its answer, or gives up: its request is gone with it.
LEMMA SettleKeeps ==
  ASSUME TypeOK, AskInv, NEW t \in Turns, Waiting(t), Settle(t),
         pending' = pending \ {asked[t]}
  PROVE  AskInv'
  <1>1. /\ phase \in [Turns -> Phases] /\ asked \in [Turns -> Requests \cup {NoRequest}]
        /\ answer \in [Turns -> Answers \cup {NoAnswer}]
    BY DEF TypeOK
  <1>2. /\ phase' = [phase EXCEPT ![t] = "loop"] /\ asked' = [asked EXCEPT ![t] = NoRequest]
        /\ answer' = [answer EXCEPT ![t] = NoAnswer]
    BY DEF Settle, EndRound
  <1>3. AskedOfTurn'
    BY <1>1, <1>2 DEF AskInv, AskedOfTurn, Waiting
  <1>4. \A r \in pending' : r.turn \in Turns \ {t}
    BY PendingOf
  <1>5. \A u \in Turns : phase'[u] = "waiting" => (asked'[u] \in pending' <=> answer'[u] = NoAnswer)
    <2> SUFFICES ASSUME NEW u \in Turns, phase'[u] = "waiting"
                 PROVE  asked'[u] \in pending' <=> answer'[u] = NoAnswer
      OBVIOUS
    <2>1. u # t /\ phase[u] = "waiting" /\ asked'[u] = asked[u] /\ answer'[u] = answer[u]
      BY <1>1, <1>2
    <2>2. asked[u].turn = u /\ (asked[u] \in pending <=> answer[u] = NoAnswer)
      BY <2>1 DEF AskInv, AskedOfTurn, PendingIsAwaited, Waiting
    <2>3. asked[t].turn = t
      BY DEF AskInv, AskedOfTurn
    <2> QED
      BY <2>1, <2>2, <2>3
  <1>6. \A r \in pending' : phase'[r.turn] \in {"waiting", "timed_out"} /\ asked'[r.turn] = r
    BY <1>1, <1>2, <1>4 DEF AskInv, PendingIsAwaited
  <1> QED
    BY <1>3, <1>5, <1>6 DEF AskInv, PendingIsAwaited

LEMMA TimeOutKeeps ==
  ASSUME TypeOK, AskInv, NEW t \in Turns, TimeOut(t)
  PROVE  AskInv'
  <1>1. /\ phase \in [Turns -> Phases] /\ phase[t] = "waiting"
        /\ phase' = [phase EXCEPT ![t] = "timed_out"] /\ UNCHANGED <<asked, answer, pending>>
    BY DEF TypeOK, TimeOut, WaitExpires, askVars
  <1>2. AskedOfTurn'
    BY <1>1 DEF AskInv, AskedOfTurn, Waiting
  <1>3. \A r \in pending : r.turn \in Turns
    BY PendingOf
  <1>4. PendingIsAwaited'
    BY <1>1, <1>3 DEF AskInv, PendingIsAwaited
  <1> QED
    BY <1>2, <1>4 DEF AskInv

\* Requests of t leave _pending, with an answer for t.
LEMMA ResolveKeeps ==
  ASSUME TypeOK, AskInv, NEW request \in pending, NEW response, response # NoAnswer,
         phase' = phase, asked' = asked, pending' = pending \ {request},
         answer' = [answer EXCEPT ![request.turn] = response]
  PROVE  AskInv'
  <1> DEFINE t == request.turn
  <1>1. t \in Turns /\ Waiting(t) /\ asked[t] = request
    BY PendingOf
  <1>2. answer \in [Turns -> Answers \cup {NoAnswer}]
    BY DEF TypeOK
  <1> HIDE DEF t
  <1>3. answer' = [answer EXCEPT ![t] = response]
    BY DEF t
  <1>4. AskedOfTurn'
    BY <1>1, <1>2, <1>3 DEF AskInv, AskedOfTurn, Waiting
  <1>5. \A u \in Turns : phase'[u] = "waiting" => (asked'[u] \in pending' <=> answer'[u] = NoAnswer)
    <2> SUFFICES ASSUME NEW u \in Turns, phase[u] = "waiting"
                 PROVE  asked[u] \in pending' <=> answer'[u] = NoAnswer
      OBVIOUS
    <2>1. CASE u = t
      BY <2>1, <1>1, <1>2, <1>3
    <2>2. CASE u # t
      <3>1. asked[u].turn = u /\ request.turn # u
        BY <2>2 DEF AskInv, AskedOfTurn, Waiting, t
      <3> QED
        BY <3>1, <2>2, <1>2, <1>3 DEF AskInv, PendingIsAwaited
    <2> QED
      BY <2>1, <2>2
  <1>6. \A r \in pending' : phase'[r.turn] \in {"waiting", "timed_out"} /\ asked'[r.turn] = r
    BY DEF AskInv, PendingIsAwaited
  <1> QED
    BY <1>4, <1>5, <1>6 DEF AskInv, PendingIsAwaited

LEMMA CancelKeeps ==
  ASSUME TypeOK, AskInv, NEW t \in Turns, CancelTurnRequests(t)
  PROVE  AskInv'
  <1>1. UNCHANGED <<phase, asked>> /\ pending' = pending \ OfTurn(t)
    BY DEF CancelTurnRequests
  <1>2. CASE OfTurn(t) = {}
    <2>1. UNCHANGED <<phase, askVars>>
      BY <1>1, <1>2 DEF CancelTurnRequests, OfTurn, askVars
    <2> QED
      BY <2>1, AskStutter
  <1>3. CASE OfTurn(t) # {}
    <2>1. PICK request \in pending : request.turn = t
      BY <1>3 DEF OfTurn
    <2>2. \A r \in pending : r.turn = t => r = request
      BY <2>1 DEF AskInv, PendingIsAwaited
    <2>3. OfTurn(t) = {request}
      BY <2>1, <2>2 DEF OfTurn
    <2> DEFINE response == [approved |-> FALSE, scope |-> "deny", active |-> mode[Primary]]
    <2>4. answer' = [answer EXCEPT ![t] = response]
      BY <2>1 DEF CancelTurnRequests
    <2>5. response # NoAnswer
      BY DEF NoAnswer
    <2> HIDE DEF response
    <2> QED
      BY <1>1, <2>1, <2>3, <2>4, <2>5, ResolveKeeps
  <1> QED
    BY <1>2, <1>3

LEMMA AnswerKeeps ==
  ASSUME TypeOK, AskInv, NEW request \in pending,
         \/ \E scope \in {"once", "workspace", "deny"} : ResolveAuthorization(request, scope)
         \/ ResolveModeSwitch(request)
  PROVE  AskInv'
  <1>1. PICK response : Resolve(request, response) /\ response.scope \in {"once", "workspace", "deny"}
    <2>1. CASE ResolveModeSwitch(request)
      BY <2>1 DEF ResolveModeSwitch
    <2>2. CASE \E scope \in {"once", "workspace", "deny"} : ResolveAuthorization(request, scope)
      BY <2>2 DEF ResolveAuthorization
    <2> QED
      BY <2>1, <2>2
  <1>2. response # NoAnswer
    BY <1>1 DEF NoAnswer
  <1>3. /\ UNCHANGED <<phase, asked>> /\ pending' = pending \ {request}
        /\ answer' = [answer EXCEPT ![request.turn] = response]
    BY <1>1 DEF Resolve, turnVars
  <1> QED
    BY <1>2, <1>3, ResolveKeeps

\* A turn with its answer has no request pending: asked[t] is not there to take out.
LEMMA TakeKeeps ==
  ASSUME TypeOK, AskInv, NEW t \in Turns, phase[t] = "waiting", answer[t] # NoAnswer,
         Settle(t), pending' = pending
  PROVE  AskInv'
  <1>1. asked[t] \notin pending
    BY DEF AskInv, PendingIsAwaited
  <1>2. pending' = pending \ {asked[t]}
    BY <1>1
  <1> QED
    BY <1>2, SettleKeeps DEF Waiting

LEMMA TurnStepKeeps ==
  ASSUME TypeOK, AskInv, NEW t \in Turns, TurnStep(t)
  PROVE  AskInv'
  <1>1. CASE BeginRound(t) \/ StopRounds(t) \/ FinishTurn(t) \/ ReleaseTurn(t)
    <2>1. ~Waiting(t) /\ UNCHANGED askVars
      BY <1>1 DEF BeginRound, StopRounds, FinishTurn, ReleaseTurn, Waiting
    <2>2. \E p \in Phases : phase' = [phase EXCEPT ![t] = p] /\ p \notin {"waiting", "timed_out"}
      BY <1>1 DEF BeginRound, StopRounds, FinishTurn, ReleaseTurn, Phases
    <2> QED
      BY <2>1, <2>2, AskFrame
  <1>2. CASE TimeOut(t)
    BY <1>2, TimeOutKeeps
  <1>3. CASE TakeAuthorization(t) \/ TakeModeSwitch(t)
    BY <1>3, TakeKeeps DEF TakeAuthorization, TakeModeSwitch
  <1>4. CASE GiveUp(t)
    BY <1>4, SettleKeeps DEF GiveUp, DropRequest, Waiting
  <1>5. ASSUME phase[t] = "calling", EndRound(t), UNCHANGED askVars
        PROVE  AskInv'
    BY <1>5, AskFrame DEF EndRound, Phases, Waiting
  <1>6. ASSUME NEW x \in Tools, CallTool(t, x) PROVE AskInv'
    BY <1>6, <1>5 DEF CallTool
  <1>7. ASSUME NEW x \in Tools, RequestAuthorization(t, x) PROVE AskInv'
    BY <1>7, AskKeeps DEF RequestAuthorization
  <1>8. ASSUME NEW m \in Modes, RequestModeSwitch(t, m) PROVE AskInv'
    BY <1>8, <1>5, AskKeeps DEF RequestModeSwitch
  <1> QED
    BY <1>1, <1>2, <1>3, <1>4, <1>6, <1>7, <1>8 DEF TurnStep

LEMMA UserStepKeeps ==
  ASSUME TypeOK, AskInv, UserStep \/ UNCHANGED vars
  PROVE  AskInv'
  <1>1. ASSUME NEW t \in Turns, NEW s \in Sessions, RunTurn(t, s)
        PROVE  AskInv'
    BY <1>1, AskFrame DEF RunTurn, Phases, Waiting
  <1>2. ASSUME NEW t \in Turns, InterruptTurn(t) PROVE AskInv'
    BY <1>2, AskStutter DEF InterruptTurn
  <1>3. ASSUME NEW t \in Turns, CancelTurnRequests(t) PROVE AskInv'
    BY <1>3, CancelKeeps
  <1>4. ASSUME NEW request \in pending,
               \/ \E scope \in {"once", "workspace", "deny"} : ResolveAuthorization(request, scope)
               \/ ResolveModeSwitch(request)
        PROVE  AskInv'
    BY <1>4, AnswerKeeps
  <1>5. ASSUME NEW m \in UserModes, SetExecutionMode(m) PROVE AskInv'
    BY <1>5, AskStutter DEF SetExecutionMode, turnVars
  <1>6. CASE UNCHANGED vars
    BY <1>6, AskStutter DEF vars, turnVars
  <1> QED
    BY <1>1, <1>2, <1>3, <1>4, <1>5, <1>6 DEF UserStep

\* PendingIsAwaited, for every number of turns, sessions and tools.
THEOREM HostAsks == Spec => []PendingIsAwaited
  <1>1. Init => TypeOK /\ AskInv
    BY InitInv
  <1>2. TypeOK /\ AskInv /\ [Next]_vars => TypeOK' /\ AskInv'
    BY NextTypes, TurnStepKeeps, UserStepKeeps DEF Next
  <1>3. AskInv => PendingIsAwaited
    BY DEF AskInv
  <1> QED
    BY <1>1, <1>2, <1>3, PTL DEF Spec
-----------------------------------------------------------------------------
(* Permissions: what the user allowed covers what runs.                    *)

Answered(t, x, scope) ==
  answer[t].approved /\ answer[t].scope = scope /\ asked[t].about = x

\* The single runs of x that are allowed and have not taken place: the numbered
\* grants of each runtime, and 0 for an answer that its turn has not taken yet.
SingleRuns(x) ==
  {run \in Runtimes \X Nat :
     \/ run[2] \in 1..once[run[1]][x]
     \/ run[2] = 0 /\ run[1] \in Turns /\ Answered(run[1], x, "once")}

Covered(x) == IsFiniteSet(SingleRuns(x)) /\ Cardinality(SingleRuns(x)) <= user.credit[x]

\* What a runtime or the file holds for good, the user allowed for good.
StandingInv ==
  /\ file \subseteq user.standing
  /\ \A r \in Runtimes : granted[r] \subseteq user.standing
  /\ \A t \in Turns, x \in Tools : Answered(t, x, "workspace") => x \in user.standing

GrantInv == StandingInv /\ \A x \in Tools : Covered(x)

LEMMA AddOne ==
  ASSUME NEW S, IsFiniteSet(S), NEW n
  PROVE  /\ IsFiniteSet(S \cup {n}) /\ Cardinality(S \cup {n}) <= Cardinality(S) + 1
         /\ Cardinality(S \cup {n}) \in Nat
  <1>1. Cardinality(S) \in Nat
    BY FS_CardinalityType
  <1>2. IsFiniteSet(S \cup {n}) /\ Cardinality(S \cup {n}) = IF n \in S THEN Cardinality(S) ELSE Cardinality(S) + 1
    BY FS_AddElement
  <1> QED
    BY <1>1, <1>2

\* The sizes of what is allowed, after one run was added, taken out, or both.
LEMMA RunsSize ==
  ASSUME NEW S, IsFiniteSet(S), NEW c \in Int, Cardinality(S) <= c, NEW T
  PROVE  /\ T \subseteq S => IsFiniteSet(T) /\ Cardinality(T) <= c
         /\ \A n : T \subseteq S \cup {n} => IsFiniteSet(T) /\ Cardinality(T) <= c + 1
         /\ \A o \in S : T \subseteq S \ {o} => IsFiniteSet(T) /\ Cardinality(T) <= c - 1
         /\ \A o \in S : \A n : T \subseteq (S \ {o}) \cup {n} => IsFiniteSet(T) /\ Cardinality(T) <= c
  <1>1. Cardinality(S) \in Nat
    BY FS_CardinalityType
  <1>2. ASSUME T \subseteq S PROVE IsFiniteSet(T) /\ Cardinality(T) <= c
    <2>1. IsFiniteSet(T) /\ Cardinality(T) <= Cardinality(S) /\ Cardinality(T) \in Nat
      BY <1>2, FS_Subset, FS_CardinalityType
    <2> QED
      BY <1>1, <2>1
  <1>3. ASSUME NEW n, T \subseteq S \cup {n} PROVE IsFiniteSet(T) /\ Cardinality(T) <= c + 1
    <2>1. IsFiniteSet(S \cup {n}) /\ Cardinality(S \cup {n}) <= Cardinality(S) + 1
          /\ Cardinality(S \cup {n}) \in Nat
      BY AddOne
    <2>2. IsFiniteSet(T) /\ Cardinality(T) <= Cardinality(S \cup {n}) /\ Cardinality(T) \in Nat
      BY <1>3, <2>1, FS_Subset, FS_CardinalityType
    <2> QED
      BY <1>1, <2>1, <2>2
  <1>4. ASSUME NEW o \in S
        PROVE  IsFiniteSet(S \ {o}) /\ Cardinality(S \ {o}) = Cardinality(S) - 1 /\ Cardinality(S \ {o}) \in Nat
    BY <1>4, FS_RemoveElement, FS_CardinalityType
  <1>5. ASSUME NEW o \in S, T \subseteq S \ {o} PROVE IsFiniteSet(T) /\ Cardinality(T) <= c - 1
    <2>1. IsFiniteSet(T) /\ Cardinality(T) <= Cardinality(S \ {o}) /\ Cardinality(T) \in Nat
      BY <1>4, <1>5, FS_Subset, FS_CardinalityType
    <2> QED
      BY <1>1, <1>4, <2>1
  <1>6. ASSUME NEW o \in S, NEW n, T \subseteq (S \ {o}) \cup {n} PROVE IsFiniteSet(T) /\ Cardinality(T) <= c
    <2> DEFINE rest == S \ {o}
    <2>1. IsFiniteSet(rest) /\ Cardinality(rest) = Cardinality(S) - 1 /\ T \subseteq rest \cup {n}
      BY <1>4, <1>6
    <2> HIDE DEF rest
    <2>2. /\ IsFiniteSet(rest \cup {n}) /\ Cardinality(rest \cup {n}) <= Cardinality(rest) + 1
          /\ Cardinality(rest \cup {n}) \in Nat
      BY <2>1, AddOne
    <2>3. IsFiniteSet(T) /\ Cardinality(T) <= Cardinality(rest \cup {n}) /\ Cardinality(T) \in Nat
      BY <2>1, <2>2, FS_Subset, FS_CardinalityType
    <2> QED
      BY <1>1, <2>1, <2>2, <2>3
  <1> QED
    BY <1>2, <1>3, <1>5, <1>6

LEMMA InitGrants == Init => GrantInv
  <1> SUFFICES ASSUME Init PROVE GrantInv
    OBVIOUS
  <1>1. StandingInv
    BY DEF Init, StandingInv, Answered, NoAnswer
  <1>2. ASSUME NEW x \in Tools PROVE SingleRuns(x) = {} /\ user.credit[x] = 0
    BY <1>2, RuntimesOf DEF Init, SingleRuns, Answered, NoAnswer, NoGrants
  <1> QED
    BY <1>1, <1>2, FS_EmptySet DEF GrantInv, Covered

\* Nothing is granted, answered or used: a runtime may lose what it held.
LEMMA GrantsFrame ==
  ASSUME TypeOK, GrantInv, user'.credit = user.credit, user'.standing = user.standing,
         file' = file, \A r \in Runtimes : granted'[r] \subseteq user.standing,
         \A r \in Runtimes, x \in Tools : once'[r][x] <= once[r][x],
         \A r \in Runtimes : once'[r] \in [Tools -> Nat],
         \A t \in Turns, x \in Tools, s \in {"once", "workspace"} : Answered(t, x, s)' => Answered(t, x, s)
  PROVE  GrantInv'
  <1>1. StandingInv'
    BY DEF GrantInv, StandingInv
  <1>2. ASSUME NEW x \in Tools PROVE Covered(x)'
    <2>1. SingleRuns(x)' \subseteq SingleRuns(x)
      <3> SUFFICES ASSUME NEW r \in Runtimes, NEW k \in Nat,
                          \/ k \in 1..once'[r][x]
                          \/ k = 0 /\ r \in Turns /\ Answered(r, x, "once")'
                   PROVE  \/ k \in 1..once[r][x]
                          \/ k = 0 /\ r \in Turns /\ Answered(r, x, "once")
        BY DEF SingleRuns
      <3>1. once[r] \in [Tools -> Nat] /\ once'[r] \in [Tools -> Nat] /\ once'[r][x] <= once[r][x]
        BY <1>2 DEF TypeOK
      <3>2. once[r][x] \in Nat /\ once'[r][x] \in Nat
        BY <1>2, <3>1
      <3>3. CASE k \in 1..once'[r][x]
        BY <3>1, <3>2, <3>3
      <3>4. CASE k = 0 /\ r \in Turns /\ Answered(r, x, "once")'
        BY <1>2, <3>4
      <3> QED
        BY <3>3, <3>4
    <2>2. IsFiniteSet(SingleRuns(x)) /\ user.credit[x] \in Int /\ Cardinality(SingleRuns(x)) <= user.credit[x]
      BY DEF GrantInv, Covered, TypeOK
    <2>3. IsFiniteSet(SingleRuns(x)') /\ Cardinality(SingleRuns(x)') <= user.credit[x]
      BY <2>1, <2>2, RunsSize
    <2> QED
      BY <2>3 DEF Covered
  <1> QED
    BY <1>1, <1>2 DEF GrantInv

\* No grant changes hands; what the turn asks or is answered allows nothing.
LEMMA AnswersFrame ==
  ASSUME TypeOK, GrantInv, user'.credit = user.credit, user'.standing = user.standing,
         UNCHANGED <<granted, once, file>>,
         \A t \in Turns, x \in Tools, s \in {"once", "workspace"} : Answered(t, x, s)' => Answered(t, x, s)
  PROVE  GrantInv'
  <1>1. once \in [Runtimes -> [Tools -> Nat]]
    BY DEF TypeOK
  <1>2. \A r \in Runtimes, x \in Tools : once'[r][x] <= once[r][x]
    BY <1>1
  <1>3. \A r \in Runtimes : once'[r] \in [Tools -> Nat]
    BY <1>1
  <1>4. \A r \in Runtimes : granted'[r] \subseteq user.standing
    BY DEF GrantInv, StandingInv
  <1> QED
    BY <1>2, <1>3, <1>4, GrantsFrame

LEMMA ReleaseTurnGrants ==
  ASSUME TypeOK, GrantInv, NEW t \in Turns, ReleaseTurn(t)
  PROVE  GrantInv'
  <1>1. /\ granted' = [granted EXCEPT ![t] = {}] /\ once' = [once EXCEPT ![t] = NoGrants]
        /\ UNCHANGED <<asked, answer, file, user>>
    BY DEF ReleaseTurn, askVars
  <1>2. once \in [Runtimes -> [Tools -> Nat]] /\ granted \in [Runtimes -> SUBSET Tools]
    BY DEF TypeOK
  <1>3. NoGrants \in [Tools -> Nat] /\ \A x \in Tools : NoGrants[x] = 0
    BY DEF NoGrants
  <1>4. \A r \in Runtimes : granted'[r] \subseteq user.standing
    BY <1>1, <1>2 DEF GrantInv, StandingInv
  <1>5. \A r \in Runtimes : once'[r] \in [Tools -> Nat] /\ (once'[r] = once[r] \/ once'[r] = NoGrants)
    BY <1>1, <1>2, <1>3
  <1>6. ASSUME NEW r \in Runtimes, NEW x \in Tools PROVE once'[r][x] <= once[r][x]
    <2>1. once[r][x] \in Nat
      BY <1>2
    <2> QED
      BY <1>3, <1>5, <2>1
  <1>7. \A u \in Turns, x \in Tools, s \in {"once", "workspace"} : Answered(u, x, s)' => Answered(u, x, s)
    BY <1>1 DEF Answered
  <1> QED
    BY <1>1, <1>4, <1>5, <1>6, <1>7, GrantsFrame

LEMMA RunTurnGrants ==
  ASSUME TypeOK, GrantInv, NEW t \in Turns, NEW s \in Sessions, RunTurn(t, s)
  PROVE  GrantInv'
  <1>1. /\ granted' = granted \/ granted' = [granted EXCEPT ![t] = file]
        /\ UNCHANGED <<asked, answer, once, file, user>>
    BY DEF RunTurn, askVars
  <1>2. once \in [Runtimes -> [Tools -> Nat]] /\ granted \in [Runtimes -> SUBSET Tools]
    BY DEF TypeOK
  <1>3. \A r \in Runtimes : granted'[r] \subseteq user.standing
    BY <1>1, <1>2 DEF GrantInv, StandingInv
  <1>4. \A r \in Runtimes : once'[r] \in [Tools -> Nat] /\ \A x \in Tools : once'[r][x] <= once[r][x]
    BY <1>1, <1>2
  <1>5. \A u \in Turns, x \in Tools, k \in {"once", "workspace"} : Answered(u, x, k)' => Answered(u, x, k)
    BY <1>1 DEF Answered
  <1> QED
    BY <1>1, <1>3, <1>4, <1>5, GrantsFrame

\* A run by a standing approval, by a single one, by the mode, or none at all.
LEMMA CallToolGrants ==
  ASSUME TypeOK, GrantInv, NEW t \in Turns, NEW x \in Tools, CallTool(t, x)
  PROVE  GrantInv'
  <1> DEFINE r == runtime[t]
  <1>1. r \in Runtimes /\ once \in [Runtimes -> [Tools -> Nat]] /\ UNCHANGED <<asked, answer, granted, file>>
    BY DEF TypeOK, CallTool, askVars
  <1>2. UNCHANGED <<once, user>> => GrantInv'
    BY <1>1, AnswersFrame DEF Answered
  <1>3. CASE x \in granted[r] /\ CountRun(r, x) /\ UNCHANGED once
    <2>1. x \in user.standing
      BY <1>1, <1>3 DEF GrantInv, StandingInv
    <2> QED
      BY <1>2, <1>3, <2>1 DEF CountRun
  <1>4. CASE HasOnce(r, x) /\ CountRun(r, x) /\ once' = UseOnce(r, x)
    <2>1. /\ once' = [once EXCEPT ![r][x] = once[r][x] - 1]
          /\ once[r][x] \in Nat /\ once[r][x] > 0
      BY <1>1, <1>4 DEF UseOnce, HasOnce
    <2>2. user \in UserType
      BY DEF TypeOK, UserType
    <2>3. /\ user' = user \/ user' = [user EXCEPT !.credit[x] = @ - 1]
          /\ user'.standing = user.standing
          /\ user'.credit \in [Tools -> Int] /\ user'.credit[x] >= user.credit[x] - 1
          /\ \A y \in Tools \ {x} : user'.credit[y] = user.credit[y]
      <3>1. user' = user \/ user' = [user EXCEPT !.credit[x] = @ - 1]
        BY <1>4 DEF CountRun
      <3>2. user.credit \in [Tools -> Int]
        BY <2>2 DEF UserType
      <3>3. CASE user' = user
        BY <3>2, <3>3
      <3>4. CASE user' = [user EXCEPT !.credit[x] = @ - 1]
        <4>1. user'.standing = user.standing /\ user'.credit = [user.credit EXCEPT ![x] = user.credit[x] - 1]
          BY <2>2, <3>4 DEF UserType
        <4> QED
          BY <3>2, <3>4, <4>1
      <3> QED
        BY <3>1, <3>3, <3>4
    <2>4. StandingInv'
      BY <1>1, <2>3 DEF GrantInv, StandingInv, Answered
    <2>5. Covered(x)'
      <3> DEFINE run == <<r, once[r][x]>>
      <3>1. run \in SingleRuns(x)
        BY <1>1, <2>1 DEF SingleRuns
      <3>2. SingleRuns(x)' \subseteq SingleRuns(x) \ {run}
        BY <1>1, <2>1 DEF SingleRuns, Answered
      <3>3. IsFiniteSet(SingleRuns(x)) /\ user.credit[x] \in Int /\ Cardinality(SingleRuns(x)) <= user.credit[x]
        BY <2>2 DEF GrantInv, Covered, UserType
      <3> HIDE DEF run
      <3>4. IsFiniteSet(SingleRuns(x)') /\ Cardinality(SingleRuns(x)') <= user.credit[x] - 1
        BY <3>1, <3>2, <3>3, RunsSize
      <3>5. Cardinality(SingleRuns(x)') \in Nat /\ user'.credit[x] \in Int
        BY <2>3, <3>4, FS_CardinalityType
      <3> QED
        BY <2>3, <3>3, <3>4, <3>5 DEF Covered
    <2>6. ASSUME NEW y \in Tools \ {x} PROVE Covered(y)'
      <3>1. SingleRuns(y)' = SingleRuns(y)
        BY <1>1, <2>1, <2>6 DEF SingleRuns, Answered
      <3> QED
        BY <2>3, <2>6, <3>1 DEF GrantInv, Covered
    <2> QED
      BY <2>4, <2>5, <2>6 DEF GrantInv
  <1>5. CASE UNCHANGED <<once, user>>
    BY <1>2, <1>5
  <1> QED
    BY <1>3, <1>4, <1>5 DEF CallTool

\* The turn has taken its answer to a mode request, or given up.
LEMMA SettleGrants ==
  ASSUME TypeOK, GrantInv, NEW t \in Turns, Settle(t), UNCHANGED <<granted, once, file, user>>
  PROVE  GrantInv'
  <1>1. answer \in [Turns -> Answers \cup {NoAnswer}] /\ asked \in [Turns -> Requests \cup {NoRequest}]
    BY DEF TypeOK
  <1>2. /\ asked' = [asked EXCEPT ![t] = NoRequest] /\ answer' = [answer EXCEPT ![t] = NoAnswer]
    BY DEF Settle
  <1>3. \A u \in Turns, x \in Tools, s \in {"once", "workspace"} : Answered(u, x, s)' => Answered(u, x, s)
    BY <1>1, <1>2 DEF Answered, NoAnswer
  <1> QED
    BY <1>3, AnswersFrame

\* A grant for good is one the user gave; a single one moves from the answer to the
\* runtime.
LEMMA TakeAuthorizationGrants ==
  ASSUME TypeOK, GrantInv, NEW t \in Turns, TakeAuthorization(t)
  PROVE  GrantInv'
  <1>0. asked[t].about \in Tools /\ runtime[t] \in Runtimes
    BY DEF TypeOK, TakeAuthorization
  <1> PICK x \in Tools, r \in Runtimes : x = asked[t].about /\ r = runtime[t]
    BY <1>0
  <1>1. /\ r \in Runtimes /\ once \in [Runtimes -> [Tools -> Nat]] /\ granted \in [Runtimes -> SUBSET Tools]
        /\ x \in Tools /\ user' = user /\ Settle(t)
    BY DEF TypeOK, TakeAuthorization
  <1>2. answer \in [Turns -> Answers \cup {NoAnswer}] /\ asked \in [Turns -> Requests \cup {NoRequest}]
    BY DEF TypeOK
  <1>3. asked' = [asked EXCEPT ![t] = NoRequest] /\ answer' = [answer EXCEPT ![t] = NoAnswer]
    BY <1>1 DEF Settle
  <1>4. /\ \A u \in Turns : \A y, s : Answered(u, y, s)' => u # t /\ Answered(u, y, s)
    BY <1>2, <1>3 DEF Answered, NoAnswer
  <1>5. CASE UNCHANGED <<granted, once, file>>
    BY <1>1, <1>5, SettleGrants
  <1>6. CASE /\ answer[t].approved /\ answer[t].scope = "workspace" /\ UNCHANGED once
             /\ granted' = [granted EXCEPT ![r] = WithTool(r, x)] /\ file' = WithTool(r, x)
    <2>1. x \in user.standing
      BY <1>1, <1>6 DEF GrantInv, StandingInv, Answered
    <2>2. WithTool(r, x) \subseteq user.standing
      BY <1>1, <2>1 DEF WithTool, GrantInv, StandingInv
    <2>3. StandingInv'
      BY <1>1, <1>4, <1>6, <2>2 DEF GrantInv, StandingInv
    <2>4. ASSUME NEW y \in Tools PROVE Covered(y)'
      <3>1. SingleRuns(y)' \subseteq SingleRuns(y)
        BY <1>4, <1>6 DEF SingleRuns
      <3>2. IsFiniteSet(SingleRuns(y)) /\ user.credit[y] \in Int /\ Cardinality(SingleRuns(y)) <= user.credit[y]
        BY <2>4 DEF GrantInv, Covered, TypeOK
      <3>3. IsFiniteSet(SingleRuns(y)') /\ Cardinality(SingleRuns(y)') <= user.credit[y]
        BY <3>1, <3>2, RunsSize
      <3> QED
        BY <1>1, <3>3 DEF Covered
    <2> QED
      BY <2>3, <2>4 DEF GrantInv
  <1>7. CASE /\ answer[t].approved /\ answer[t].scope = "once" /\ UNCHANGED <<granted, file>>
             /\ once' = [once EXCEPT ![r][x] = @ + 1]
    <2>1. StandingInv'
      BY <1>1, <1>4, <1>7 DEF GrantInv, StandingInv
    <2>2. ASSUME NEW y \in Tools, y # x PROVE SingleRuns(y)' \subseteq SingleRuns(y)
      BY <1>1, <1>4, <1>7, <2>2 DEF SingleRuns
    <2>3. Covered(x)'
      <3> DEFINE from == <<t, 0>>
                 to == <<r, once[r][x] + 1>>
      <3>1. from \in SingleRuns(x)
        BY <1>1, <1>7, RuntimesOf DEF SingleRuns, Answered
      <3>2. SingleRuns(x)' \subseteq (SingleRuns(x) \ {from}) \cup {to}
        <4> SUFFICES ASSUME NEW s \in Runtimes, NEW k \in Nat,
                            \/ k \in 1..once'[s][x]
                            \/ k = 0 /\ s \in Turns /\ Answered(s, x, "once")',
                            <<s, k>> # to
                     PROVE  /\ <<s, k>> # from
                            /\ \/ k \in 1..once[s][x]
                               \/ k = 0 /\ s \in Turns /\ Answered(s, x, "once")
          BY DEF SingleRuns
        <4>1. once[s][x] \in Nat /\ once'[s][x] = IF s = r THEN once[s][x] + 1 ELSE once[s][x]
          BY <1>1, <1>7
        <4>2. CASE k \in 1..once'[s][x]
          BY <4>1, <4>2
        <4>3. CASE k = 0 /\ s \in Turns /\ Answered(s, x, "once")'
          BY <1>4, <4>3
        <4> QED
          BY <4>2, <4>3
      <3>3. IsFiniteSet(SingleRuns(x)) /\ user.credit[x] \in Int /\ Cardinality(SingleRuns(x)) <= user.credit[x]
        BY <1>1 DEF GrantInv, Covered, TypeOK
      <3> HIDE DEF from, to
      <3>4. IsFiniteSet(SingleRuns(x)') /\ Cardinality(SingleRuns(x)') <= user.credit[x]
        BY <3>1, <3>2, <3>3, RunsSize, ZenonT(30)
      <3> QED
        BY <1>1, <3>4 DEF Covered
    <2>4. ASSUME NEW y \in Tools, y # x PROVE Covered(y)'
      <3>1. IsFiniteSet(SingleRuns(y)) /\ user.credit[y] \in Int /\ Cardinality(SingleRuns(y)) <= user.credit[y]
        BY <2>4 DEF GrantInv, Covered, TypeOK
      <3>2. IsFiniteSet(SingleRuns(y)') /\ Cardinality(SingleRuns(y)') <= user.credit[y]
        BY <2>2, <2>4, <3>1, RunsSize
      <3> QED
        BY <1>1, <3>2 DEF Covered
    <2> QED
      BY <2>1, <2>3, <2>4 DEF GrantInv
  <1> QED
    BY <1>5, <1>6, <1>7 DEF TakeAuthorization

\* A turn gets an answer that allows nothing.
LEMMA RefusalGrants ==
  ASSUME TypeOK, GrantInv, NEW t \in Turns, NEW response, UNCHANGED <<asked, granted, once, file, user>>,
         answer' = [answer EXCEPT ![t] = response],
         ~response.approved \/ response.scope \notin {"once", "workspace"}
  PROVE  GrantInv'
  <1>1. answer \in [Turns -> Answers \cup {NoAnswer}]
    BY DEF TypeOK
  <1>2. \A u \in Turns, x \in Tools, s \in {"once", "workspace"} : Answered(u, x, s)' => Answered(u, x, s)
    BY <1>1 DEF Answered
  <1> QED
    BY <1>2, AnswersFrame

LEMMA ResolveAuthorizationGrants ==
  ASSUME TypeOK, AskInv, GrantInv, NEW request \in pending, NEW scope \in {"once", "workspace", "deny"},
         ResolveAuthorization(request, scope)
  PROVE  GrantInv'
  <1>1. request.about \in Tools /\ request.turn \in Turns /\ asked[request.turn] = request
    BY PendingOf DEF ResolveAuthorization
  <1> PICK x \in Tools, t \in Turns : x = request.about /\ t = request.turn
    BY <1>1
  <1> DEFINE response == [approved |-> scope # "deny", scope |-> scope, active |-> request.current]
  <1>2. UNCHANGED <<asked, granted, once, file>> /\ answer' = [answer EXCEPT ![t] = response]
    BY DEF ResolveAuthorization, Resolve, grantVars
  <1>3. response.approved = (scope # "deny") /\ response.scope = scope
    OBVIOUS
  <1> HIDE DEF response
  <1>4. answer \in [Turns -> Answers \cup {NoAnswer}] /\ user \in UserType
        /\ once \in [Runtimes -> [Tools -> Nat]]
    BY DEF TypeOK, UserType
  <1>5. \A u \in Turns : \A y, s : Answered(u, y, s)' => Answered(u, y, s) \/ (u = t /\ y = x /\ s = scope)
    BY <1>1, <1>2, <1>3, <1>4 DEF Answered
  <1>6. CASE scope = "deny"
    <2>1. user' = user
      BY <1>6 DEF ResolveAuthorization
    <2> QED
      BY <1>2, <1>3, <1>6, <2>1, RefusalGrants
  <1>7. CASE scope = "workspace"
    <2>1. user' = [user EXCEPT !.standing = @ \cup {x}]
      BY <1>7 DEF ResolveAuthorization
    <2>2. user'.standing = user.standing \cup {x} /\ user'.credit = user.credit
      BY <1>4, <2>1 DEF UserType
    <2>3. StandingInv'
      BY <1>2, <1>5, <2>2 DEF GrantInv, StandingInv
    <2>4. ASSUME NEW y \in Tools PROVE Covered(y)'
      <3>1. SingleRuns(y)' \subseteq SingleRuns(y)
        BY <1>2, <1>5, <1>7 DEF SingleRuns
      <3>2. IsFiniteSet(SingleRuns(y)) /\ user.credit[y] \in Int /\ Cardinality(SingleRuns(y)) <= user.credit[y]
        BY <1>4, <2>4 DEF GrantInv, Covered, UserType
      <3>3. IsFiniteSet(SingleRuns(y)') /\ Cardinality(SingleRuns(y)') <= user.credit[y]
        BY <3>1, <3>2, RunsSize
      <3> QED
        BY <2>2, <3>3 DEF Covered
    <2> QED
      BY <2>3, <2>4 DEF GrantInv
  <1>8. CASE scope = "once"
    <2>1. user' = [user EXCEPT !.credit[x] = @ + 1]
      BY <1>8 DEF ResolveAuthorization
    <2>2. user'.standing = user.standing /\ user'.credit = [user.credit EXCEPT ![x] = user.credit[x] + 1]
      BY <1>4, <2>1 DEF UserType
    <2>3. StandingInv'
      BY <1>2, <1>5, <1>8, <2>2 DEF GrantInv, StandingInv
    <2>4. user.credit \in [Tools -> Int]
      BY <1>4 DEF UserType
    <2>5. ASSUME NEW y \in Tools PROVE Covered(y)'
      <3>1. IsFiniteSet(SingleRuns(y)) /\ user.credit[y] \in Int /\ Cardinality(SingleRuns(y)) <= user.credit[y]
        BY <2>4, <2>5 DEF GrantInv, Covered
      <3>2. CASE y = x
        <4> DEFINE run == <<t, 0>>
        <4>1. SingleRuns(y)' \subseteq SingleRuns(y) \cup {run}
          BY <1>2, <1>5 DEF SingleRuns
        <4> HIDE DEF run
        <4>2. IsFiniteSet(SingleRuns(y)') /\ Cardinality(SingleRuns(y)') <= user.credit[y] + 1
          BY <3>1, <4>1, RunsSize
        <4> QED
          BY <2>2, <2>4, <3>2, <4>2 DEF Covered
      <3>3. CASE y # x
        <4>1. SingleRuns(y)' \subseteq SingleRuns(y)
          BY <1>2, <1>5, <3>3 DEF SingleRuns
        <4>2. IsFiniteSet(SingleRuns(y)') /\ Cardinality(SingleRuns(y)') <= user.credit[y]
          BY <3>1, <4>1, RunsSize
        <4> QED
          BY <2>2, <2>4, <3>3, <4>2 DEF Covered
      <3> QED
        BY <3>2, <3>3
    <2> QED
      BY <2>3, <2>5 DEF GrantInv
  <1> QED
    BY <1>6, <1>7, <1>8

LEMMA ResolveModeSwitchGrants ==
  ASSUME TypeOK, AskInv, GrantInv, NEW request \in pending, ResolveModeSwitch(request)
  PROVE  GrantInv'
  <1>1. PICK response : Resolve(request, response) /\ response.scope = "deny" /\ user' = user
    BY DEF ResolveModeSwitch
  <1> QED
    BY <1>1, PendingOf, RefusalGrants DEF Resolve, grantVars

LEMMA CancelGrants ==
  ASSUME TypeOK, GrantInv, NEW t \in Turns, CancelTurnRequests(t)
  PROVE  GrantInv'
  <1> DEFINE response == [approved |-> FALSE, scope |-> "deny", active |-> mode[Primary]]
  <1>1. UNCHANGED <<asked, granted, once, file, user>>
    BY DEF CancelTurnRequests, grantVars
  <1>2. CASE answer' = answer
    BY <1>1, <1>2, AnswersFrame DEF Answered
  <1>3. CASE answer' = [answer EXCEPT ![t] = response]
    <2>1. response.scope = "deny"
      OBVIOUS
    <2> HIDE DEF response
    <2> QED
      BY <1>1, <1>3, <2>1, RefusalGrants
  <1> QED
    BY <1>2, <1>3 DEF CancelTurnRequests

\* A turn asks: it had no answer.
LEMMA AskGrants ==
  ASSUME TypeOK, AskInv, GrantInv, NEW t \in Turns, NEW about, phase[t] = "calling", Ask(t, about),
         UNCHANGED <<granted, once, file, user>>
  PROVE  GrantInv'
  <1>1. answer[t] = NoAnswer /\ answer' = answer
    BY DEF AskInv, AskedOfTurn, Waiting, Ask
  <1>2. \A u \in Turns : u # t => asked'[u] = asked[u]
    BY DEF Ask, TypeOK
  <1>3. \A u \in Turns, x \in Tools, s \in {"once", "workspace"} : Answered(u, x, s)' => Answered(u, x, s)
    BY <1>1, <1>2 DEF Answered, NoAnswer
  <1> QED
    BY <1>3, AnswersFrame

LEMMA NextGrants ==
  ASSUME TypeOK, AskInv, GrantInv, [Next]_vars
  PROVE  GrantInv'
  <1>1. ASSUME UNCHANGED <<asked, answer, granted, once, file>>, user'.credit = user.credit,
               user'.standing = user.standing
        PROVE  GrantInv'
    BY <1>1, AnswersFrame DEF Answered
  <1>2. ASSUME NEW t \in Turns, TurnStep(t)
        PROVE  GrantInv'
    <2>1. CASE BeginRound(t) \/ StopRounds(t) \/ FinishTurn(t) \/ TimeOut(t)
      BY <1>1, <2>1 DEF BeginRound, StopRounds, FinishTurn, TimeOut, askVars, grantVars
    <2>2. CASE ReleaseTurn(t)
      BY <2>2, ReleaseTurnGrants
    <2>3. CASE TakeAuthorization(t)
      BY <2>3, TakeAuthorizationGrants
    <2>4. CASE TakeModeSwitch(t) \/ GiveUp(t)
      BY <2>4, SettleGrants DEF TakeModeSwitch, GiveUp
    <2>5. ASSUME NEW x \in Tools, CallTool(t, x) PROVE GrantInv'
      BY <2>5, CallToolGrants
    <2>6. ASSUME NEW x \in Tools, RequestAuthorization(t, x) PROVE GrantInv'
      BY <2>6, AskGrants DEF RequestAuthorization, grantVars
    <2>7. ASSUME NEW m \in Modes, RequestModeSwitch(t, m) PROVE GrantInv'
      BY <1>1, <2>7, AskGrants DEF RequestModeSwitch, askVars
    <2> QED
      BY <1>2, <2>1, <2>2, <2>3, <2>4, <2>5, <2>6, <2>7 DEF TurnStep
  <1>3. CASE UserStep
    <2>1. user \in UserType
      BY DEF TypeOK, UserType
    <2>2. user' = [user EXCEPT !.acts = @ + 1] => user'.credit = user.credit /\ user'.standing = user.standing
      BY <2>1 DEF UserType
    <2>3. ASSUME NEW t \in Turns, NEW s \in Sessions, RunTurn(t, s) PROVE GrantInv'
      BY <2>3, RunTurnGrants
    <2>4. ASSUME NEW t \in Turns, InterruptTurn(t) PROVE GrantInv'
      BY <1>1, <2>2, <2>4 DEF InterruptTurn, askVars, grantVars
    <2>5. ASSUME NEW t \in Turns, CancelTurnRequests(t) PROVE GrantInv'
      BY <2>5, CancelGrants
    <2>6. ASSUME NEW request \in pending, NEW scope \in {"once", "workspace", "deny"},
                 ResolveAuthorization(request, scope)
          PROVE  GrantInv'
      BY <2>6, ResolveAuthorizationGrants
    <2>7. ASSUME NEW request \in pending, ResolveModeSwitch(request) PROVE GrantInv'
      BY <2>7, ResolveModeSwitchGrants
    <2>8. ASSUME NEW m \in UserModes, SetExecutionMode(m) PROVE GrantInv'
      BY <1>1, <2>2, <2>8 DEF SetExecutionMode, askVars
    <2> QED
      BY <1>3, <2>3, <2>4, <2>5, <2>6, <2>7, <2>8 DEF UserStep
  <1>4. CASE UNCHANGED vars
    BY <1>1, <1>4 DEF vars, askVars, grantVars
  <1> QED
    BY <1>2, <1>3, <1>4 DEF Next

\* RunsAreApproved, for every number of turns, sessions, tools, rounds and answers: a tool
\* that the mode blocks runs no more often than the user allowed it, in whatever session
\* (PermissionManager.authorize_tool_call).
THEOREM HostApprovals == Spec => []RunsAreApproved
  <1>1. Init => TypeOK /\ AskInv /\ GrantInv
    BY InitInv, InitGrants
  <1>2. TypeOK /\ AskInv /\ GrantInv /\ [Next]_vars => TypeOK' /\ AskInv' /\ GrantInv'
    BY NextTypes, TurnStepKeeps, UserStepKeeps, NextGrants DEF Next
  <1>3. TypeOK /\ GrantInv => RunsAreApproved
    <2> SUFFICES ASSUME TypeOK, GrantInv, NEW x \in Tools
                 PROVE  user.credit[x] >= 0
      BY DEF RunsAreApproved
    <2>1. Cardinality(SingleRuns(x)) \in Nat /\ Cardinality(SingleRuns(x)) <= user.credit[x]
      BY FS_CardinalityType DEF GrantInv, Covered
    <2>2. user.credit[x] \in Int
      BY DEF TypeOK
    <2> QED
      BY <2>1, <2>2
  <1> QED
    BY <1>1, <1>2, <1>3, PTL DEF Spec

-----------------------------------------------------------------------------
(***************************************************************************)
(* The agent loop for any number of turns, rounds, tool calls, provider    *)
(* threads and texts.                                                      *)
(*                                                                         *)
(* HistoryInv says that what is recorded and what is saved are both        *)
(* answered; ThreadsInv that a provider thread nobody waits for is marked  *)
(* as cancelled or over, which is why the next turn, which resets the      *)
(* interrupt, cannot set a thread that was left behind going again.        *)
(***************************************************************************)

PhasesOfLoop == {"idle", "round", "attempt", "call", "backoff", "text", "tools", "record"}

CallLists == Seq(Int)   \* the numbers of calls of a reply

Counts == Int

LoopRecord ==
  [phase : PhasesOfLoop, outcome : {"none", "interrupted", "failed", "completed"}, round : Counts,
   attempt : Counts, call : Counts, reply : Calls \cup {<<>>}, at : Counts, done : CallLists,
   open : BOOLEAN, stale : BOOLEAN, reconcile : BOOLEAN, ready : BOOLEAN]

Results == {"none", "stopped", "turn", "retryable", "fatal"}

Thread ==
  [state : {"over", "stream", "deliver", "delivered"}, cancelled : BOOLEAN, chunks : Int, late : Int,
   result : Results]

Messages == [kind : {"user", "text", "calls", "results"}, calls : CallLists]

Types ==
  /\ messages \in Seq(Messages) /\ saved \in Seq(Messages)
  /\ loop \in LoopRecord /\ shouldInterrupt \in BOOLEAN
  /\ threads \in [Threads -> Thread] /\ used \in Int

\* Tool calls and their results are next to each other.
AllAnswered(msgs) ==
  \A i \in DOMAIN msgs :
    /\ msgs[i].kind = "calls" => i < Len(msgs) /\ msgs[i + 1] = Message("results", msgs[i].calls)
    /\ msgs[i].kind = "results" => i > 1 /\ msgs[i - 1] = Message("calls", msgs[i].calls)

HistoryInv == AllAnswered(messages) /\ AllAnswered(saved)

\* A thread shows at most one text too late and stops after it; one that is not over and
\* not cancelled is the one the loop waits for; a thread with a result is over.
ThreadKept(c) ==
  /\ threads[c].late \in {0, 1}
  /\ threads[c].late = 1 => \/ threads[c].state = "over"
                            \/ threads[c].state = "delivered" /\ StopRequested(c)
  /\ threads[c].state # "over" /\ ~threads[c].cancelled => loop.phase = "call" /\ loop.call = c
  /\ threads[c].result # "none" => threads[c].state = "over"

ThreadsInv == \A c \in Threads : ThreadKept(c)

LoopInv == Types /\ HistoryInv /\ ThreadsInv
-----------------------------------------------------------------------------
(* What is appended to the history.                                        *)

LEMMA CallListsOf == <<>> \in CallLists /\ \A done \in CallLists, i \in Int : Append(done, i) \in CallLists
  BY DEF CallLists

LEMMA AppendKeeps ==
  ASSUME NEW msgs \in Seq(Messages), AllAnswered(msgs), NEW m \in Messages, m.kind \in {"user", "text"}
  PROVE  Append(msgs, m) \in Seq(Messages) /\ AllAnswered(Append(msgs, m))
  <1> DEFINE new == Append(msgs, m)
  <1>1. /\ new \in Seq(Messages) /\ Len(new) = Len(msgs) + 1 /\ new[Len(msgs) + 1] = m
        /\ DOMAIN msgs = 1..Len(msgs) /\ DOMAIN new = 1..(Len(msgs) + 1) /\ Len(msgs) \in Nat
        /\ \A i \in 1..Len(msgs) : new[i] = msgs[i]
    OBVIOUS
  <1> HIDE DEF new
  <1>2. ASSUME NEW i \in DOMAIN new
        PROVE  /\ new[i].kind = "calls" => i < Len(new) /\ new[i + 1] = Message("results", new[i].calls)
               /\ new[i].kind = "results" => i > 1 /\ new[i - 1] = Message("calls", new[i].calls)
    <2>1. CASE i = Len(msgs) + 1
      BY <1>1, <2>1
    <2>2. CASE i \in 1..Len(msgs)
      BY <1>1, <2>2 DEF AllAnswered
    <2> QED
      BY <1>1, <1>2, <2>1, <2>2
  <1> QED
    BY <1>1, <1>2 DEF AllAnswered, new

LEMMA PairKeeps ==
  ASSUME NEW msgs \in Seq(Messages), AllAnswered(msgs), NEW done \in CallLists
  PROVE  LET new == msgs \o <<Message("calls", done), Message("results", done)>>
         IN  new \in Seq(Messages) /\ AllAnswered(new)
  <1> DEFINE call == Message("calls", done)
             result == Message("results", done)
             new == msgs \o <<call, result>>
             n == Len(msgs)
  <1>1. call \in Messages /\ result \in Messages
    BY CallListsOf DEF Message, Messages
  <1>2. /\ call.kind = "calls" /\ call.calls = done /\ result.kind = "results" /\ result.calls = done
    BY DEF Message
  <1>3. call = Message("calls", done) /\ result = Message("results", done)
    OBVIOUS
  <1> HIDE DEF call, result
  <1>4. /\ new \in Seq(Messages) /\ Len(new) = n + 2 /\ new[n + 1] = call /\ new[n + 2] = result
        /\ DOMAIN msgs = 1..n /\ DOMAIN new = 1..(n + 2) /\ n \in Nat
        /\ \A i \in 1..n : new[i] = msgs[i]
    BY <1>1
  <1>5. new = msgs \o <<call, result>>
    OBVIOUS
  <1> HIDE DEF new, n
  <1>6. ASSUME NEW i \in DOMAIN new
        PROVE  /\ new[i].kind = "calls" => i < Len(new) /\ new[i + 1] = Message("results", new[i].calls)
               /\ new[i].kind = "results" => i > 1 /\ new[i - 1] = Message("calls", new[i].calls)
    <2>1. CASE i = n + 1
      BY <1>2, <1>3, <1>4, <2>1
    <2>2. CASE i = n + 2
      BY <1>2, <1>3, <1>4, <2>2
    <2>3. CASE i \in 1..n
      BY <1>4, <2>3 DEF AllAnswered, n
    <2> QED
      BY <1>4, <1>6, <2>1, <2>2, <2>3
  <1>7. AllAnswered(new)
    BY <1>6 DEF AllAnswered
  <1> QED
    BY <1>3, <1>4, <1>5, <1>7

LEMMA IdleRecord ==
  ASSUME NEW outcome \in {"none", "interrupted", "failed", "completed"}
  PROVE  Idle(outcome) \in LoopRecord /\ Idle(outcome).phase = "idle"
  BY CallListsOf DEF Idle, LoopRecord, PhasesOfLoop, Counts

LEMMA EndedRecord ==
  ASSUME NEW record \in LoopRecord, NEW open \in BOOLEAN, NEW stale \in BOOLEAN
  PROVE  LET ended == [record EXCEPT !.open = open, !.stale = stale]
         IN  ended \in LoopRecord /\ ended.phase = record.phase
  BY DEF LoopRecord

LEMMA InitLoop == LoopInit => LoopInv
  <1> SUFFICES ASSUME LoopInit PROVE LoopInv
    OBVIOUS
  <1>1. <<>> \in Seq(Messages)
    OBVIOUS
  <1>2. loop \in LoopRecord
    BY IdleRecord DEF LoopInit
  <1>3. threads \in [Threads -> Thread]
    <2>1. NoThread \in Thread
      BY DEF NoThread, Thread, Results
    <2> QED
      BY <2>1 DEF LoopInit
  <1>4. Types
    <2>1. messages \in Seq(Messages) /\ saved \in Seq(Messages)
      BY <1>1 DEF LoopInit
    <2>2. shouldInterrupt \in BOOLEAN
      BY DEF LoopInit
    <2>3. used \in Int
      BY DEF LoopInit
    <2> QED
      BY <1>2, <1>3, <2>1, <2>2, <2>3 DEF Types
  <1>5. HistoryInv
    BY DEF LoopInit, HistoryInv, AllAnswered
  <1> QED
    BY <1>4, <1>5 DEF LoopInit, LoopInv, ThreadsInv, ThreadKept, NoThread
-----------------------------------------------------------------------------
(* The ways a turn ends, and what the threads know of it.                  *)

\* Every thread that is not over is cancelled while the loop waits for none.
LEMMA Forsaken ==
  ASSUME ThreadsInv, loop.phase # "call", NEW c \in Threads, threads[c].state # "over"
  PROVE  threads[c].cancelled
  BY DEF ThreadsInv, ThreadKept

\* The threads stay as they are, and the loop waits for none or for the same one.
LEMMA ThreadsStay ==
  ASSUME ThreadsInv, UNCHANGED <<threads, shouldInterrupt>>,
         \A c \in Threads : threads[c].state # "over" /\ ~threads[c].cancelled =>
                            loop'.phase = "call" /\ loop'.call = c
  PROVE  ThreadsInv'
  BY DEF ThreadsInv, ThreadKept, StopRequested

LEMMA RaiseLoop ==
  ASSUME LoopInv, Raise
  PROVE  /\ loop' \in LoopRecord /\ loop'.phase = "idle"
         /\ messages' \in Seq(Messages) /\ saved' \in Seq(Messages) /\ HistoryInv'
  <1>1. loop' = [Idle("interrupted") EXCEPT !.open = loop.open, !.stale = loop.stale]
    BY DEF Raise
  <1>2. Idle("interrupted") \in LoopRecord /\ Idle("interrupted").phase = "idle"
    BY IdleRecord
  <1>3. loop.open \in BOOLEAN /\ loop.stale \in BOOLEAN
    BY DEF LoopInv, Types, LoopRecord
  <1>4. loop' \in LoopRecord /\ loop'.phase = "idle"
    BY <1>1, <1>2, <1>3, EndedRecord
  <1> QED
    BY <1>4 DEF LoopInv, Types, Raise, HistoryInv

LEMMA AbortLoop ==
  ASSUME LoopInv, Abort
  PROVE  /\ loop' \in LoopRecord /\ loop'.phase = "idle"
         /\ messages' \in Seq(Messages) /\ saved' \in Seq(Messages) /\ HistoryInv'
  <1>1. loop' = [Idle("failed") EXCEPT !.open = loop.open, !.stale = loop.stale]
    BY DEF Abort
  <1>2. Idle("failed") \in LoopRecord /\ Idle("failed").phase = "idle"
    BY IdleRecord
  <1>3. loop.open \in BOOLEAN /\ loop.stale \in BOOLEAN
    BY DEF LoopInv, Types, LoopRecord
  <1>4. loop' \in LoopRecord /\ loop'.phase = "idle"
    BY <1>1, <1>2, <1>3, EndedRecord
  <1> QED
    BY <1>4 DEF LoopInv, Types, Abort, HistoryInv

LEMMA ReturnLoop ==
  ASSUME LoopInv, NEW msgs \in Seq(Messages), AllAnswered(msgs), NEW open \in BOOLEAN, NEW stale \in BOOLEAN,
         Return(msgs, open, stale)
  PROVE  /\ loop' \in LoopRecord /\ loop'.phase = "idle"
         /\ messages' \in Seq(Messages) /\ saved' \in Seq(Messages) /\ HistoryInv'
  <1>1. loop' = [Idle("completed") EXCEPT !.open = open, !.stale = stale]
    BY DEF Return
  <1>2. Idle("completed") \in LoopRecord /\ Idle("completed").phase = "idle"
    BY IdleRecord
  <1>3. loop' \in LoopRecord /\ loop'.phase = "idle"
    BY <1>1, <1>2, EndedRecord
  <1> QED
    BY <1>3 DEF LoopInv, Types, Return, HistoryInv

\* A step of the loop that waits for no thread and touches none.
LEMMA LoopAlone ==
  ASSUME LoopInv, loop.phase # "call", UNCHANGED <<threads, shouldInterrupt, used>>,
         loop' \in LoopRecord, messages' \in Seq(Messages), saved' \in Seq(Messages), HistoryInv'
  PROVE  LoopInv'
  <1>1. Types'
    BY DEF LoopInv, Types
  <1>2. \A c \in Threads : threads[c].state # "over" => threads[c].cancelled
    BY Forsaken DEF LoopInv
  <1>3. ThreadsInv'
    BY <1>2, ThreadsStay DEF LoopInv
  <1> QED
    BY <1>1, <1>3 DEF LoopInv
-----------------------------------------------------------------------------
(* The steps of the loop that touch no thread.                             *)

\* The messages of the user.
LEMMA UserMessage ==
  Message("user", <<>>) \in Messages /\ Message("user", <<>>).kind = "user"
  BY CallListsOf DEF Message, Messages

LEMMA TextMessage ==
  Message("text", <<>>) \in Messages /\ Message("text", <<>>).kind = "text"
  BY CallListsOf DEF Message, Messages

LEMMA BeginRoundKeeps ==
  ASSUME LoopInv, StartRound
  PROVE  LoopInv'
  <1>1. loop.phase # "call" /\ UNCHANGED <<threads, shouldInterrupt, used>>
    BY DEF StartRound, In
  <1>2. CASE shouldInterrupt
    BY <1>1, <1>2, RaiseLoop, LoopAlone DEF StartRound
  <1>3. CASE ~shouldInterrupt
    <2>1. loop' = [loop EXCEPT !.phase = "attempt", !.round = @ + 1, !.attempt = 1, !.ready = FALSE]
          /\ saved' = saved
      BY <1>3 DEF StartRound
    <2>2. loop \in LoopRecord /\ messages \in Seq(Messages) /\ saved \in Seq(Messages)
          /\ AllAnswered(messages) /\ AllAnswered(saved)
      BY DEF LoopInv, Types, HistoryInv
    <2>3. loop' \in LoopRecord
      <3>1. ASSUME NEW record \in LoopRecord, NEW round \in Counts, NEW attempt \in Counts
            PROVE  [record EXCEPT !.phase = "attempt", !.round = round, !.attempt = attempt, !.ready = FALSE]
                     \in LoopRecord
        BY DEF LoopRecord, PhasesOfLoop
      <3>2. loop.round + 1 \in Counts /\ 1 \in Counts
        BY <2>2 DEF LoopRecord, Counts
      <3> QED
        BY <2>1, <2>2, <3>1, <3>2
    <2> DEFINE prompt == Message("user", <<>>)
               first == messages \o (IF loop.ready THEN <<prompt>> ELSE <<>>)
    <2>4. prompt \in Messages /\ prompt.kind = "user"
      BY UserMessage
    <2>5. messages' = first \/ messages' = first \o <<prompt>>
      <3>1. PICK notes \in {<<>>, <<prompt>>} : messages' = first \o notes
        BY <1>3 DEF StartRound
      <3>2. first \in Seq(Messages)
        BY <2>2, <2>4
      <3> HIDE DEF first, prompt
      <3> QED
        BY <3>1, <3>2
    <2>6. first = messages \/ first = Append(messages, prompt)
      <3> HIDE DEF prompt
      <3> QED
        BY <2>2, <2>4
    <2> HIDE DEF prompt, first
    <2>7. first \in Seq(Messages) /\ AllAnswered(first)
      BY <2>2, <2>4, <2>6, AppendKeeps
    <2>8. messages' \in Seq(Messages) /\ AllAnswered(messages')
      <3>1. CASE messages' = first
        BY <2>7, <3>1
      <3>2. CASE messages' = first \o <<prompt>>
        <4>1. messages' = Append(first, prompt)
          BY <2>4, <2>7, <3>2
        <4> QED
          BY <2>4, <2>7, <4>1, AppendKeeps
      <3> QED
        BY <2>5, <3>1, <3>2
    <2>9. HistoryInv'
      BY <2>1, <2>2, <2>8 DEF HistoryInv, AllAnswered
    <2> QED
      BY <1>1, <2>1, <2>2, <2>3, <2>8, <2>9, LoopAlone
  <1> QED
    BY <1>2, <1>3

LEMMA QuietKeeps ==
  ASSUME LoopInv, StopAfterMaxRounds \/ NoMoreCalls \/ Backoff
  PROVE  LoopInv'
  <1>1. loop.phase # "call" /\ UNCHANGED <<threads, shouldInterrupt, used>>
    BY DEF StopAfterMaxRounds, NoMoreCalls, Backoff, In
  <1>2. loop \in LoopRecord /\ loop.open \in BOOLEAN /\ loop.stale \in BOOLEAN
        /\ messages \in Seq(Messages) /\ saved \in Seq(Messages) /\ AllAnswered(messages)
    BY DEF LoopInv, Types, LoopRecord, HistoryInv
  <1>3. CASE StopAfterMaxRounds
    BY <1>1, <1>2, <1>3, ReturnLoop, LoopAlone DEF StopAfterMaxRounds
  <1>4. CASE NoMoreCalls
    BY <1>1, <1>4, AbortLoop, LoopAlone DEF NoMoreCalls
  <1>5. CASE Backoff /\ shouldInterrupt
    BY <1>1, <1>5, RaiseLoop, LoopAlone DEF Backoff
  <1>6. CASE Backoff /\ ~shouldInterrupt
    <2>1. loop' = [loop EXCEPT !.phase = "attempt"] /\ UNCHANGED <<messages, saved>>
      BY <1>6 DEF Backoff
    <2>2. loop' \in LoopRecord
      BY <1>2, <2>1 DEF LoopRecord, PhasesOfLoop
    <2>3. HistoryInv'
      BY <2>1 DEF LoopInv, HistoryInv, AllAnswered
    <2> QED
      BY <1>1, <1>2, <2>1, <2>2, <2>3, LoopAlone
  <1> QED
    BY <1>3, <1>4, <1>5, <1>6

LEMMA TextReplyKeeps ==
  ASSUME LoopInv, TextReply
  PROVE  LoopInv'
  <1>1. loop.phase # "call" /\ UNCHANGED <<threads, shouldInterrupt, used>>
    BY DEF TextReply, In
  <1>2. loop \in LoopRecord /\ loop.open \in BOOLEAN /\ loop.stale \in BOOLEAN
        /\ messages \in Seq(Messages) /\ AllAnswered(messages)
    BY DEF LoopInv, Types, LoopRecord, HistoryInv
  <1> DEFINE msgs == Append(messages, Message("text", <<>>))
  <1>3. msgs \in Seq(Messages) /\ AllAnswered(msgs)
    BY <1>2, TextMessage, AppendKeeps
  <1>4. \/ Return(msgs, loop.open, loop.stale)
        \/ /\ \E remind \in BOOLEAN : loop' = [loop EXCEPT !.phase = "round", !.reconcile = @ \/ remind]
           /\ messages' = msgs /\ saved' = msgs
    BY <1>2 DEF TextReply
  <1> HIDE DEF msgs
  <1>5. CASE Return(msgs, loop.open, loop.stale)
    BY <1>1, <1>2, <1>3, <1>5, ReturnLoop, LoopAlone
  <1>6. CASE /\ \E remind \in BOOLEAN : loop' = [loop EXCEPT !.phase = "round", !.reconcile = @ \/ remind]
             /\ messages' = msgs /\ saved' = msgs
    <2>1. loop' \in LoopRecord
      BY <1>2, <1>6 DEF LoopRecord, PhasesOfLoop
    <2>2. HistoryInv'
      BY <1>3, <1>6 DEF HistoryInv, AllAnswered
    <2> QED
      BY <1>1, <1>3, <1>6, <2>1, <2>2, LoopAlone
  <1> QED
    BY <1>4, <1>5, <1>6

LEMMA ToolCallKeeps ==
  ASSUME LoopInv, ToolCall
  PROVE  LoopInv'
  <1>1. loop.phase # "call" /\ UNCHANGED <<threads, shouldInterrupt, used>>
    BY DEF ToolCall, In
  <1>2. loop \in LoopRecord /\ loop.open \in BOOLEAN /\ loop.ready \in BOOLEAN /\ loop.at \in Counts
        /\ loop.done \in CallLists /\ messages \in Seq(Messages) /\ saved \in Seq(Messages)
    BY DEF LoopInv, Types, LoopRecord
  <1>3. loop.at + 1 \in Counts /\ Append(loop.done, loop.at) \in CallLists
    BY <1>2, CallListsOf DEF Counts
  <1>4. CASE shouldInterrupt /\ Raise
    BY <1>1, <1>4, RaiseLoop, LoopAlone
  <1>5. CASE loop' \in LoopRecord /\ UNCHANGED <<messages, saved>>
    <2>1. HistoryInv'
      BY <1>5 DEF LoopInv, HistoryInv, AllAnswered
    <2> QED
      BY <1>1, <1>2, <1>5, <2>1, LoopAlone
  <1>6. CASE loop' = [loop EXCEPT !.at = @ + 1] /\ UNCHANGED <<messages, saved>>
    <2>1. ASSUME NEW record \in LoopRecord, NEW at \in Counts
          PROVE  [record EXCEPT !.at = at] \in LoopRecord
      BY DEF LoopRecord
    <2> QED
      BY <1>2, <1>3, <1>5, <1>6, <2>1
  <1>7. ASSUME NEW prepared \in BOOLEAN, NEW open \in BOOLEAN, NEW stage \in PhasesOfLoop,
               loop' = [loop EXCEPT !.at = @ + 1, !.done = Append(@, loop.at), !.open = open,
                                    !.ready = @ \/ prepared, !.phase = stage],
               UNCHANGED <<messages, saved>>
        PROVE  LoopInv'
    <2>1. ASSUME NEW record \in LoopRecord, NEW at \in Counts, NEW done \in CallLists, NEW ready \in BOOLEAN
          PROVE  [record EXCEPT !.at = at, !.done = done, !.open = open, !.ready = ready, !.phase = stage]
                   \in LoopRecord
      BY <1>7 DEF LoopRecord
    <2>2. (loop.ready \/ prepared) \in BOOLEAN
      BY <1>2, <1>7
    <2>3. loop' \in LoopRecord
      BY <1>2, <1>3, <1>7, <2>1, <2>2
    <2> QED
      BY <1>5, <1>7, <2>3
  <1>8. loop.phase \in PhasesOfLoop /\ "record" \in PhasesOfLoop
    BY <1>2 DEF LoopRecord, PhasesOfLoop
  <1>9. CASE LET kind == loop.reply[loop.at]
             IN /\ \E prepared \in IF kind = "boundary" THEN {FALSE} ELSE BOOLEAN,
                       open \in IF kind = "todo" /\ ~Flood THEN BOOLEAN ELSE {loop.open} :
                    loop' = [loop EXCEPT
                      !.at = @ + 1, !.done = Append(@, loop.at), !.open = open, !.ready = @ \/ prepared,
                      !.phase = IF Flood \/ prepared \/ kind \in {"boundary", "spent"} THEN "record" ELSE @]
                /\ UNCHANGED <<messages, saved>>
    <2>1. PICK prepared \in BOOLEAN, open \in BOOLEAN, stage \in PhasesOfLoop :
            loop' = [loop EXCEPT !.at = @ + 1, !.done = Append(@, loop.at), !.open = open,
                                 !.ready = @ \/ prepared, !.phase = stage]
      BY <1>2, <1>8, <1>9
    <2> QED
      BY <1>7, <1>9, <2>1
  <1> QED
    BY <1>4, <1>6, <1>9 DEF ToolCall

LEMMA EndRoundKeeps ==
  ASSUME LoopInv, FinishRound
  PROVE  LoopInv'
  <1>1. loop.phase # "call" /\ UNCHANGED <<threads, shouldInterrupt, used>>
    BY DEF FinishRound, In
  <1>2. loop \in LoopRecord /\ loop.open \in BOOLEAN /\ loop.reconcile \in BOOLEAN
        /\ loop.done \in CallLists /\ messages \in Seq(Messages) /\ AllAnswered(messages)
    BY DEF LoopInv, Types, LoopRecord, HistoryInv
  <1> DEFINE msgs == messages \o <<Message("calls", loop.done), Message("results", loop.done)>>
  <1>3. msgs \in Seq(Messages) /\ AllAnswered(msgs)
    BY <1>2, PairKeeps
  <1>4. \/ Return(msgs, loop.open, FALSE)
        \/ /\ \E usedTodo \in BOOLEAN :
                loop' = [loop EXCEPT !.phase = "round", !.stale = ~usedTodo, !.reply = <<>>, !.done = <<>>,
                                     !.at = 0, !.reconcile = @ /\ ~usedTodo]
           /\ messages' = msgs /\ saved' = msgs
    BY DEF FinishRound, Recorded
  <1> HIDE DEF msgs
  <1>5. CASE Return(msgs, loop.open, FALSE)
    BY <1>1, <1>2, <1>3, <1>5, ReturnLoop, LoopAlone
  <1>6. ASSUME NEW usedTodo \in BOOLEAN,
               loop' = [loop EXCEPT !.phase = "round", !.stale = ~usedTodo, !.reply = <<>>, !.done = <<>>,
                                    !.at = 0, !.reconcile = @ /\ ~usedTodo],
               messages' = msgs, saved' = msgs
        PROVE  LoopInv'
    <2>1. ASSUME NEW record \in LoopRecord, NEW at \in Counts, NEW stale \in BOOLEAN, NEW reconcile \in BOOLEAN
          PROVE  [record EXCEPT !.phase = "round", !.stale = stale, !.reply = <<>>, !.done = <<>>,
                                !.at = at, !.reconcile = reconcile] \in LoopRecord
      BY CallListsOf DEF LoopRecord, PhasesOfLoop
    <2>2. 0 \in Counts /\ (~usedTodo) \in BOOLEAN /\ (loop.reconcile /\ ~usedTodo) \in BOOLEAN
      BY <1>2 DEF Counts
    <2>3. loop' \in LoopRecord
      BY <1>2, <1>6, <2>1, <2>2
    <2>4. HistoryInv'
      BY <1>3, <1>6 DEF HistoryInv, AllAnswered
    <2> QED
      BY <1>1, <1>3, <1>6, <2>3, <2>4, LoopAlone
  <1> QED
    BY <1>4, <1>5, <1>6
-----------------------------------------------------------------------------
(* The steps that the threads are part of.                                 *)

\* The interrupt is reset: the threads that were left behind are cancelled themselves.
LEMMA RunTurnKeeps ==
  ASSUME LoopInv, StartTurn
  PROVE  LoopInv'
  <1>1. loop.phase # "call" /\ UNCHANGED <<threads, used, saved>> /\ shouldInterrupt' = FALSE
    BY DEF StartTurn, In
  <1>2. loop \in LoopRecord /\ messages \in Seq(Messages) /\ saved \in Seq(Messages)
        /\ threads \in [Threads -> Thread] /\ used \in Int /\ AllAnswered(messages) /\ AllAnswered(saved)
    BY DEF LoopInv, Types, HistoryInv
  <1>3. messages' \in Seq(Messages) /\ AllAnswered(messages')
    BY <1>2, UserMessage, AppendKeeps DEF StartTurn
  <1>4. loop' \in LoopRecord
    <2>1. loop' = [loop EXCEPT !.phase = "round", !.outcome = "none"]
      BY DEF StartTurn
    <2> QED
      BY <1>2, <2>1 DEF LoopRecord, PhasesOfLoop
  <1>5. HistoryInv'
    BY <1>1, <1>2, <1>3 DEF HistoryInv, AllAnswered
  <1>6. shouldInterrupt' \in BOOLEAN
    BY <1>1
  <1>7. Types'
    BY <1>1, <1>2, <1>3, <1>4, <1>6 DEF Types
  <1>8. ASSUME NEW c \in Threads PROVE ThreadKept(c)'
    <2>1. ThreadKept(c)
      BY DEF LoopInv, ThreadsInv
    <2>2. threads[c].state # "over" => threads[c].cancelled
      BY <1>1, Forsaken DEF LoopInv
    <2> QED
      BY <1>1, <2>1, <2>2 DEF ThreadKept, StopRequested
  <1> QED
    BY <1>5, <1>7, <1>8 DEF LoopInv, ThreadsInv

LEMMA InterruptKeeps ==
  ASSUME LoopInv, Interrupt
  PROVE  LoopInv'
  <1>1. UNCHANGED <<messages, saved, loop, threads, used>> /\ shouldInterrupt' = TRUE
    BY DEF Interrupt
  <1>2. HistoryInv'
    BY <1>1 DEF LoopInv, HistoryInv, AllAnswered
  <1>3. shouldInterrupt' \in BOOLEAN
    BY <1>1
  <1>4. Types'
    BY <1>1, <1>3 DEF LoopInv, Types
  <1>5. ThreadsInv'
    BY <1>1 DEF LoopInv, ThreadsInv, ThreadKept, StopRequested
  <1> QED
    BY <1>2, <1>4, <1>5 DEF LoopInv

\* A thread takes a step of its own; the others and the loop stay as they are.
LEMMA ThreadStep ==
  ASSUME LoopInv, NEW c \in Threads, NEW thread \in Thread, threads' = [threads EXCEPT ![c] = thread],
         UNCHANGED <<messages, saved, loop, shouldInterrupt, used>>,
         thread.late \in {0, 1},
         thread.late = 1 => \/ thread.state = "over"
                            \/ thread.state = "delivered" /\ (thread.cancelled \/ shouldInterrupt),
         thread.state # "over" /\ ~thread.cancelled => threads[c].state # "over" /\ ~threads[c].cancelled,
         thread.result # "none" => thread.state = "over"
  PROVE  LoopInv'
  <1>1. threads \in [Threads -> Thread]
    BY DEF LoopInv, Types
  <1>2. Types'
    BY <1>1 DEF LoopInv, Types
  <1>3. HistoryInv'
    BY DEF LoopInv, HistoryInv, AllAnswered
  <1>4. threads'[c] = thread /\ \A d \in Threads : d # c => threads'[d] = threads[d]
    BY <1>1
  <1>5. ASSUME NEW d \in Threads PROVE ThreadKept(d)'
    <2>1. ThreadKept(d) /\ ThreadKept(c)
      BY DEF LoopInv, ThreadsInv
    <2>2. CASE d = c
      BY <1>4, <2>1, <2>2 DEF ThreadKept, StopRequested
    <2>3. CASE d # c
      BY <1>4, <2>1, <2>3 DEF ThreadKept, StopRequested
    <2> QED
      BY <2>2, <2>3
  <1> QED
    BY <1>2, <1>3, <1>5 DEF LoopInv, ThreadsInv

\* A thread that is over leaves no more than its result.
LEMMA EndsKeeps ==
  ASSUME LoopInv, NEW c \in Threads, NEW result \in Results, Ends(c, result),
         UNCHANGED <<messages, saved, loop, shouldInterrupt, used>>
  PROVE  LoopInv'
  <1>1. threads[c] \in Thread /\ threads[c].late \in {0, 1}
    BY DEF LoopInv, Types, ThreadsInv, ThreadKept
  <1>2. PICK told \in Results : threads' = [threads EXCEPT ![c] = [NoThread EXCEPT !.late = threads[c].late, !.result = told]]
    BY DEF Ends, Results
  <1> DEFINE thread == [NoThread EXCEPT !.late = threads[c].late, !.result = told]
  <1>3. thread \in Thread /\ thread.late = threads[c].late /\ thread.state = "over"
    <2>1. NoThread \in Thread /\ NoThread.state = "over" /\ threads[c].late \in Int
      BY <1>1 DEF NoThread, Thread, Results
    <2>2. ASSUME NEW over \in Thread, NEW late \in Int
          PROVE  LET new == [over EXCEPT !.late = late, !.result = told]
                 IN  new \in Thread /\ new.late = late /\ new.state = over.state
      BY DEF Thread
    <2> QED
      BY <2>1, <2>2
  <1> HIDE DEF thread
  <1>4. threads' = [threads EXCEPT ![c] = thread]
    BY <1>2 DEF thread
  <1> QED
    BY <1>1, <1>3, <1>4, ThreadStep

LEMMA ProviderThreadKeeps ==
  ASSUME LoopInv, NEW c \in Threads, ProviderThread(c)
  PROVE  LoopInv'
  <1>1. UNCHANGED <<messages, saved, loop, shouldInterrupt, used>>
    BY DEF ProviderThread, CheckBefore, Deliver, CheckAfter, Answer
  <1>2. threads[c] \in Thread /\ ThreadKept(c) /\ "stopped" \in Results /\ threads \in [Threads -> Thread]
    BY DEF LoopInv, Types, ThreadsInv, Results
  <1>3. CASE \E result \in Results : Ends(c, result)
    BY <1>1, <1>3, EndsKeeps
  <1>4. CASE CheckBefore(c) /\ ~StopRequested(c)
    <2>1. threads' = [threads EXCEPT ![c] = [threads[c] EXCEPT !.state = "deliver"]]
          /\ threads[c].state = "stream" /\ ~threads[c].cancelled /\ ~shouldInterrupt
      BY <1>4 DEF CheckBefore, StopRequested
    <2> DEFINE thread == [threads[c] EXCEPT !.state = "deliver"]
    <2>2. /\ thread \in Thread /\ thread.state = "deliver" /\ thread.late = threads[c].late
          /\ thread.cancelled = threads[c].cancelled /\ thread.result = threads[c].result
      BY <1>2 DEF Thread
    <2> HIDE DEF thread
    <2>3. threads' = [threads EXCEPT ![c] = thread]
      BY <2>1 DEF thread
    <2>4. threads[c].late = 0 /\ threads[c].result = "none"
      BY <1>2, <2>1 DEF ThreadKept
    <2>5. thread.late = 0 /\ thread.result = "none" /\ threads[c].state # "over"
      BY <2>1, <2>2, <2>4
    <2>6. thread.late \in {0, 1} /\ thread.late # 1
      BY <2>5
    <2>7. thread.state # "over" /\ ~thread.cancelled => threads[c].state # "over" /\ ~threads[c].cancelled
      BY <2>2, <2>5
    <2> QED
      BY <1>1, <2>2, <2>3, <2>5, <2>6, <2>7, ThreadStep
  <1>5. CASE Deliver(c)
    <2>1. threads[c].state = "deliver" /\ threads[c].late = 0
      BY <1>2, <1>5 DEF Deliver, ThreadKept
    <2> DEFINE late == threads[c].cancelled \/ shouldInterrupt
               thread == [threads[c] EXCEPT !.state = "delivered", !.chunks = @ + 1, !.late = IF late THEN @ + 1 ELSE @]
    <2>2. threads' = [threads EXCEPT ![c] = thread]
      BY <1>5 DEF Deliver
    <2>3. /\ thread \in Thread /\ thread.state = "delivered" /\ thread.late = IF late THEN 1 ELSE 0
          /\ thread.cancelled = threads[c].cancelled /\ thread.result = threads[c].result
      <3> DEFINE record == threads[c]
                 chunks == threads[c].chunks + 1
                 number == IF late THEN threads[c].late + 1 ELSE threads[c].late
      <3>1. record \in Thread /\ chunks \in Int /\ number \in Int /\ number = IF late THEN 1 ELSE 0
        BY <1>2, <2>1 DEF Thread
      <3>2. thread = [record EXCEPT !.state = "delivered", !.chunks = chunks, !.late = number]
        OBVIOUS
      <3> HIDE DEF record, thread, number, late, chunks
      <3>3. /\ thread \in Thread /\ thread.state = "delivered" /\ thread.late = number
            /\ thread.cancelled = record.cancelled /\ thread.result = record.result
        BY <3>1, <3>2 DEF Thread
      <3> QED
        BY <3>1, <3>3 DEF record
    <2> HIDE DEF thread
    <2>4. threads[c].result = "none" /\ threads[c].state # "over"
      BY <1>2, <2>1 DEF ThreadKept
    <2>5. thread.result = "none" /\ thread.late \in {0, 1}
      BY <2>3, <2>4
    <2>6. thread.late = 1 => thread.cancelled \/ shouldInterrupt
      BY <2>3
    <2>7. thread.state # "over" /\ ~thread.cancelled => threads[c].state # "over" /\ ~threads[c].cancelled
      BY <2>3, <2>4
    <2> QED
      BY <1>1, <2>2, <2>3, <2>5, <2>6, <2>7, ThreadStep
  <1>6. CASE CheckAfter(c) /\ ~StopRequested(c)
    <2>1. threads' = [threads EXCEPT ![c] = [threads[c] EXCEPT !.state = "stream"]]
          /\ threads[c].state = "delivered" /\ ~threads[c].cancelled /\ ~shouldInterrupt
      BY <1>6 DEF CheckAfter, StopRequested
    <2> DEFINE thread == [threads[c] EXCEPT !.state = "stream"]
    <2>2. /\ thread \in Thread /\ thread.state = "stream" /\ thread.late = threads[c].late
          /\ thread.cancelled = threads[c].cancelled /\ thread.result = threads[c].result
      BY <1>2 DEF Thread
    <2> HIDE DEF thread
    <2>3. threads' = [threads EXCEPT ![c] = thread]
      BY <2>1 DEF thread
    <2>4. threads[c].late = 0 /\ threads[c].result = "none"
      BY <1>2, <2>1 DEF ThreadKept, StopRequested
    <2>5. thread.late = 0 /\ thread.result = "none" /\ threads[c].state # "over"
      BY <2>1, <2>2, <2>4
    <2>6. thread.late \in {0, 1} /\ thread.late # 1
      BY <2>5
    <2>7. thread.state # "over" /\ ~thread.cancelled => threads[c].state # "over" /\ ~threads[c].cancelled
      BY <2>2, <2>5
    <2> QED
      BY <1>1, <2>2, <2>3, <2>5, <2>6, <2>7, ThreadStep
  <1>7. CASE Answer(c)
    BY <1>3, <1>7 DEF Answer, Results
  <1> QED
    BY <1>2, <1>3, <1>4, <1>5, <1>6, <1>7 DEF ProviderThread, CheckBefore, CheckAfter

\* A thread of its own for the call: it is the one the loop waits for.
LEMMA StartCallKeeps ==
  ASSUME LoopInv, StartCall
  PROVE  LoopInv'
  <1>1. loop.phase # "call" /\ UNCHANGED shouldInterrupt
    BY DEF StartCall, In
  <1>2. loop \in LoopRecord /\ messages \in Seq(Messages) /\ saved \in Seq(Messages)
        /\ threads \in [Threads -> Thread] /\ used \in Int /\ shouldInterrupt \in BOOLEAN
    BY DEF LoopInv, Types
  <1>3. CASE shouldInterrupt
    BY <1>1, <1>3, RaiseLoop, LoopAlone DEF StartCall
  <1>4. CASE ~shouldInterrupt
    <2> DEFINE thread == [NoThread EXCEPT !.state = "stream", !.cancelled = FALSE]
               new == used + 1
    <2>1. /\ used' = new /\ threads' = [threads EXCEPT ![new] = thread]
          /\ loop' = [loop EXCEPT !.phase = "call", !.call = new] /\ UNCHANGED <<messages, saved>>
      BY <1>4 DEF StartCall
    <2>2. /\ thread \in Thread /\ thread.state = "stream" /\ ~thread.cancelled /\ thread.late = 0
          /\ thread.result = "none"
      <3>1. NoThread \in Thread /\ NoThread.late = 0 /\ NoThread.result = "none"
        BY DEF NoThread, Thread, Results
      <3>2. thread = [NoThread EXCEPT !.state = "stream", !.cancelled = FALSE]
        OBVIOUS
      <3> HIDE DEF thread
      <3> QED
        BY <3>1, <3>2 DEF Thread
    <2>3. new \in Int /\ new \in Counts
      BY <1>2 DEF Counts
    <2> HIDE DEF thread, new
    <2>4. loop' \in LoopRecord /\ loop'.phase = "call" /\ loop'.call = new
      BY <1>2, <2>1, <2>3 DEF LoopRecord, PhasesOfLoop
    <2>5. HistoryInv'
      BY <2>1 DEF LoopInv, HistoryInv, AllAnswered
    <2>6. threads' \in [Threads -> Thread]
      BY <1>2, <2>1, <2>2
    <2>7. Types'
      BY <1>1, <1>2, <2>1, <2>3, <2>4, <2>6 DEF Types
    <2>8. ASSUME NEW c \in Threads PROVE ThreadKept(c)'
      <3>1. CASE c = new
        BY <1>2, <2>1, <2>2, <2>4, <3>1 DEF ThreadKept
      <3>2. CASE c # new
        <4>1. threads'[c] = threads[c] /\ ThreadKept(c)
          BY <1>2, <2>1, <3>2 DEF LoopInv, ThreadsInv
        <4>2. threads[c].state # "over" => threads[c].cancelled
          BY <1>1, Forsaken DEF LoopInv
        <4> QED
          BY <1>1, <4>1, <4>2 DEF ThreadKept, StopRequested
      <3> QED
        BY <3>1, <3>2
    <2> QED
      BY <2>5, <2>7, <2>8 DEF LoopInv, ThreadsInv
  <1> QED
    BY <1>3, <1>4

\* The loop no longer waits for the thread, which is over or has just been cancelled.
LEMMA LoopLeaves ==
  ASSUME LoopInv, loop' \in LoopRecord, messages' \in Seq(Messages), saved' \in Seq(Messages), HistoryInv',
         UNCHANGED <<shouldInterrupt, used>>,
         NEW c, NEW thread, threads' = [threads EXCEPT ![c] = thread], c = loop.call,
         c \in Threads => /\ thread \in Thread /\ thread.state = threads[c].state
                          /\ thread.late = threads[c].late
                          /\ thread.state # "over" => thread.cancelled
                          /\ thread.result # "none" => thread.result = threads[c].result
  PROVE  LoopInv'
  <1>1. threads \in [Threads -> Thread]
    BY DEF LoopInv, Types
  <1>2. Types'
    BY <1>1 DEF LoopInv, Types
  <1>3. ASSUME NEW d \in Threads PROVE ThreadKept(d)'
    <2>1. ThreadKept(d)
      BY DEF LoopInv, ThreadsInv
    <2>2. CASE d = c
      <3>1. threads'[d] = thread
        BY <1>1, <2>2
      <3>2. /\ thread.state = threads[d].state /\ thread.late = threads[d].late
            /\ thread.state # "over" => thread.cancelled
            /\ thread.result # "none" => thread.result = threads[d].result
        BY <2>2
      <3> QED
        BY <2>1, <3>1, <3>2 DEF ThreadKept, StopRequested
    <2>3. CASE d # c
      <3>1. threads'[d] = threads[d]
        BY <1>1, <2>3
      <3>2. threads[d].state # "over" => threads[d].cancelled
        BY <2>1, <2>3 DEF ThreadKept
      <3> QED
        BY <2>1, <3>1, <3>2 DEF ThreadKept, StopRequested
    <2> QED
      BY <2>2, <2>3
  <1> QED
    BY <1>2, <1>3 DEF LoopInv, ThreadsInv

LEMMA PollInterruptKeeps ==
  ASSUME LoopInv, PollInterrupt
  PROVE  LoopInv'
  <1> DEFINE c == loop.call
             thread == [threads[c] EXCEPT !.cancelled = TRUE]
  <1>1. Raise /\ UNCHANGED <<shouldInterrupt, used>> /\ threads' = [threads EXCEPT ![c] = thread]
    BY DEF PollInterrupt
  <1>2. c \in Threads => threads[c] \in Thread
    BY DEF LoopInv, Types
  <1>3. c \in Threads => /\ thread \in Thread /\ thread.state = threads[c].state /\ thread.late = threads[c].late
                         /\ thread.cancelled /\ thread.result = threads[c].result
    BY <1>2 DEF Thread
  <1>4. /\ loop' \in LoopRecord /\ messages' \in Seq(Messages) /\ saved' \in Seq(Messages) /\ HistoryInv'
    BY <1>1, RaiseLoop
  <1>5. c = loop.call
    OBVIOUS
  <1> HIDE DEF c, thread
  <1> QED
    BY <1>1, <1>3, <1>4, <1>5, LoopLeaves

LEMMA ReceiveKeeps ==
  ASSUME LoopInv, Receive
  PROVE  LoopInv'
  <1> DEFINE c == loop.call
             thread == [threads[c] EXCEPT !.result = "none"]
  <1>1. UNCHANGED <<shouldInterrupt, used>> /\ threads' = [threads EXCEPT ![c] = thread]
    BY DEF Receive
  <1>2. c \in Threads => threads[c] \in Thread /\ ThreadKept(c) /\ threads[c].result # "none"
    BY DEF LoopInv, Types, ThreadsInv, Receive
  <1>3. c \in Threads => /\ thread \in Thread /\ thread.state = threads[c].state /\ thread.late = threads[c].late
                         /\ thread.state = "over" /\ thread.result = "none"
    BY <1>2 DEF Thread, ThreadKept, Results
  <1>4. loop \in LoopRecord /\ messages \in Seq(Messages) /\ saved \in Seq(Messages)
    BY DEF LoopInv, Types
  <1>5. /\ loop' \in LoopRecord /\ messages' \in Seq(Messages) /\ saved' \in Seq(Messages) /\ HistoryInv'
    <2>1. CASE Raise
      BY <2>1, RaiseLoop
    <2>2. CASE Abort
      BY <2>2, AbortLoop
    <2>3. UNCHANGED <<messages, saved>> => HistoryInv'
      BY DEF LoopInv, HistoryInv, AllAnswered
    <2>4. CASE loop' = [loop EXCEPT !.phase = "backoff", !.call = 0, !.attempt = @ + 1] /\ UNCHANGED <<messages, saved>>
      <3>1. ASSUME NEW record \in LoopRecord, NEW none \in Counts, NEW attempt \in Counts
            PROVE  [record EXCEPT !.phase = "backoff", !.call = none, !.attempt = attempt] \in LoopRecord
        BY DEF LoopRecord, PhasesOfLoop
      <3>2. 0 \in Counts /\ loop.attempt + 1 \in Counts
        BY <1>4 DEF LoopRecord, Counts
      <3> QED
        BY <1>4, <2>3, <2>4, <3>1, <3>2
    <2>5. CASE loop' = [loop EXCEPT !.phase = "text", !.call = 0, !.attempt = 0] /\ UNCHANGED <<messages, saved>>
      <3>1. ASSUME NEW record \in LoopRecord, NEW none \in Counts
            PROVE  [record EXCEPT !.phase = "text", !.call = none, !.attempt = none] \in LoopRecord
        BY DEF LoopRecord, PhasesOfLoop
      <3>2. 0 \in Counts
        BY DEF Counts
      <3> QED
        BY <1>4, <2>3, <2>5, <3>1, <3>2
    <2>6. ASSUME NEW reply \in Calls, UNCHANGED <<messages, saved>>,
                 loop' = [loop EXCEPT !.phase = "tools", !.call = 0, !.attempt = 0, !.reply = reply, !.at = 1]
          PROVE  loop' \in LoopRecord /\ HistoryInv'
      <3>1. ASSUME NEW record \in LoopRecord, NEW none \in Counts, NEW one \in Counts
            PROVE  [record EXCEPT !.phase = "tools", !.call = none, !.attempt = none, !.reply = reply, !.at = one]
                     \in LoopRecord
        BY DEF LoopRecord, PhasesOfLoop
      <3>2. 0 \in Counts /\ 1 \in Counts
        BY DEF Counts
      <3> QED
        BY <1>4, <2>3, <2>6, <3>1, <3>2
    <2> QED
      BY <1>4, <2>1, <2>2, <2>4, <2>5, <2>6 DEF Receive, Retry
  <1>6. c = loop.call
    OBVIOUS
  <1> HIDE DEF c, thread
  <1> QED
    BY <1>1, <1>3, <1>5, <1>6, LoopLeaves

LEMMA NextLoop == LoopInv /\ [LoopNext]_loopVars => LoopInv'
  <1> SUFFICES ASSUME LoopInv, [LoopNext]_loopVars PROVE LoopInv'
    OBVIOUS
  <1>1. CASE Loop
    BY <1>1, BeginRoundKeeps, QuietKeeps, StartCallKeeps, PollInterruptKeeps, ReceiveKeeps, TextReplyKeeps,
       ToolCallKeeps, EndRoundKeeps DEF Loop
  <1>2. CASE UNCHANGED loopVars
    BY <1>2 DEF loopVars, LoopInv, Types, HistoryInv, AllAnswered, ThreadsInv, ThreadKept, StopRequested
  <1> QED
    BY <1>1, <1>2, RunTurnKeeps, InterruptKeeps, ProviderThreadKeeps DEF LoopNext

\* Every message with tool calls is followed by the results of just these calls, in the
\* history and in the session file (_agent_loop): for any number of turns, rounds and calls,
\* with or without a flood guard, and wherever a turn is interrupted or fails.
THEOREM CallAnswers == LoopSpec => []CallsAnswered
  <1>1. LoopInv => CallsAnswered
    BY DEF LoopInv, HistoryInv, AllAnswered, CallsAnswered
  <1> QED
    BY <1>1, InitLoop, NextLoop, PTL DEF LoopSpec

\* A provider thread that an interrupted turn left behind shows one text at most, the one
\* it was about to show (_complete_with_interrupt_polling), for any number of such threads
\* and of turns begun since, each of which resets the interrupt.
THEOREM LateTexts == LoopSpec => []LateTextAtMostOnce
  <1>1. LoopInv => LateTextAtMostOnce
    BY DEF LoopInv, ThreadsInv, ThreadKept, LateTextAtMostOnce
  <1> QED
    BY <1>1, InitLoop, NextLoop, PTL DEF LoopSpec

-----------------------------------------------------------------------------
(***************************************************************************)
(* A theorem about Sidecar, for any turns, clients and events: what a      *)
(* client is sent of a turn has no gap.                                    *)
(***************************************************************************)

-----------------------------------------------------------------------------
(* The invariant.                                                          *)

Events == [turn : SidecarTurns, n : Nat]
DrainerSteps == {"none", "wait", "drain", "check", "send", "put", "sent", "ended"}

TurnRecords == [phase : {"none", "running", "done"}, emitted : Nat, events : Seq(Events), interrupted : BOOLEAN,
                beside : SUBSET {"interrupt", "provider"}, own : Nat]
DrainerRecords == [at : DrainerSteps, block : BOOLEAN, batch : Seq(Events), to : SUBSET Clients]

SidecarTypes ==
  /\ turn \in [SidecarTurns -> TurnRecords] /\ drainer \in [SidecarTurns -> DrainerRecords]
  /\ clients \subseteq Clients /\ watching \in [SidecarTurns -> SUBSET Clients]
  /\ queue \in [Clients -> Seq(Events)] /\ sent \in [Clients -> Seq(Events)]

\* Events of a turn with one number after the other.
Numbered(s, t, from) == \A i \in DOMAIN s : s[i] = [turn |-> t, n |-> from + i]

Over(t) == drainer[t].at \in {"sent", "ended"}

\* The drainer has taken its last look at the queue.
Resulting(t) == Over(t) \/ drainer[t].batch = <<ResultOf(t)>>

\* How many events of the turn go before its result: those in the queue after the last look
\* reach nobody.
Counted(t) == IF Resulting(t) THEN turn[t].emitted - Len(turn[t].events) ELSE turn[t].emitted

\* Behind the batch that is on its way to the clients is what is in the queue of the turn;
\* the result goes alone.
BatchInv(t) ==
  LET held == Len(turn[t].events)
      batch == drainer[t].batch
  IN /\ held <= turn[t].emitted /\ Numbered(turn[t].events, t, turn[t].emitted - held)
     /\ \/ batch = <<ResultOf(t)>> /\ turn[t].phase = "done"
        \/ /\ held + Len(batch) <= turn[t].emitted
           /\ Numbered(batch, t, turn[t].emitted - held - Len(batch))

DrainerInv(t) ==
  /\ turn[t].phase = "none" => drainer[t].at = "none" /\ turn[t].emitted = 0 /\ turn[t].beside = {}
  /\ drainer[t].at \notin {"send", "put"} => drainer[t].batch = <<>>
  /\ drainer[t].at = "put" => drainer[t].batch # <<>>
  /\ Over(t) => turn[t].phase = "done"
  /\ turn[t].own <= Counted(t)
  /\ BatchInv(t)

\* The place of the event that the drainer puts next into the queues of the clients.
NextPlace(t) ==
  IF Over(t) THEN Counted(t) + 2
  ELSE IF drainer[t].batch = <<ResultOf(t)>> THEN Counted(t) + 1
  ELSE turn[t].emitted - Len(turn[t].events) - Len(drainer[t].batch) + 1

\* The place of the last event that was put into the queue of a client, if it was there.
Upto(c, t) == IF At(t, "put") /\ c \notin drainer[t].to THEN NextPlace(t) ELSE NextPlace(t) - 1

\* Whoever is connected gets the next event, and so does who was when it was broadcast.
Gets(c, t) == c \in clients \/ (At(t, "put") /\ c \in drainer[t].to)

Seen(c) == sent[c] \o queue[c]

PlaceIn(e, last) == IF e.n = 0 THEN last ELSE e.n

\* Of the events of a turn a sequence has those behind place a up to place b, in order.
Shows(s, t, last, a, b) ==
  /\ \A i \in DOMAIN s : s[i].turn = t => a < PlaceIn(s[i], last) /\ PlaceIn(s[i], last) <= b /\ s[i].n < last
  /\ \A i, k \in DOMAIN s : s[i].turn = t /\ s[k].turn = t /\ i < k => PlaceIn(s[i], last) < PlaceIn(s[k], last)
  /\ \A x \in a + 1 .. b : \E i \in DOMAIN s : s[i].turn = t /\ PlaceIn(s[i], last) = x

ClientInv(c, t) ==
  \E a, b \in Nat :
    /\ a <= b /\ b <= Upto(c, t)
    /\ Shows(Seen(c), t, Counted(t) + 1, a, b)
    /\ Gets(c, t) => b = Upto(c, t)
    /\ c \in watching[t] => c \in clients /\ a = 0

SidecarInv ==
  /\ SidecarTypes
  /\ \A t \in SidecarTurns : DrainerInv(t)
  /\ \A c \in Clients, t \in SidecarTurns : ClientInv(c, t)

-----------------------------------------------------------------------------
(* Sequences of events.                                                    *)

LEMMA ShowsNone ==
  ASSUME NEW s, NEW t, NEW last, NEW b \in Nat, \A i \in DOMAIN s : s[i].turn # t
  PROVE  Shows(s, t, last, b, b)
BY DEF Shows

\* The next event of the turn.
LEMMA ShowsNext ==
  ASSUME NEW s \in Seq(Events), NEW t, NEW last \in Nat, NEW a \in Nat, NEW b \in Nat, a <= b,
         Shows(s, t, last, a, b), NEW e \in Events, e.turn = t, PlaceIn(e, last) = b + 1, e.n < last
  PROVE  Shows(Append(s, e), t, last, a, b + 1)
<1> DEFINE u == Append(s, e)
<1>1. /\ u \in Seq(Events) /\ Len(u) = Len(s) + 1 /\ u[Len(s) + 1] = e
      /\ \A i \in 1..Len(s) : u[i] = s[i]
  BY AppendProperties
<1>2. Len(s) \in Nat /\ DOMAIN s = 1..Len(s) /\ DOMAIN u = 1..Len(s) + 1
  BY <1>1
<1>3. \A i \in DOMAIN s : PlaceIn(s[i], last) \in Nat
  <2>1. \A i \in DOMAIN s : s[i] \in Events
    BY <1>2
  <2>2. \A f \in Events : f.n \in Nat
    BY DEF Events
  <2>. QED  BY <2>1, <2>2 DEF PlaceIn
<1> HIDE DEF u
<1>4. ASSUME NEW i \in DOMAIN u, u[i].turn = t
      PROVE  a < PlaceIn(u[i], last) /\ PlaceIn(u[i], last) <= b + 1 /\ u[i].n < last
  BY <1>1, <1>2, <1>3, <1>4 DEF Shows
<1>5. ASSUME NEW i \in DOMAIN u, NEW k \in DOMAIN u, u[i].turn = t, u[k].turn = t, i < k
      PROVE  PlaceIn(u[i], last) < PlaceIn(u[k], last)
  BY <1>1, <1>2, <1>3, <1>5, SMTT(20) DEF Shows
<1>6. ASSUME NEW x \in a + 1 .. b + 1 PROVE \E i \in DOMAIN u : u[i].turn = t /\ PlaceIn(u[i], last) = x
  <2>1. CASE x = b + 1
    BY <1>1, <1>2, <2>1
  <2>2. CASE x # b + 1
    <3>1. x \in a + 1 .. b
      BY <2>2
    <3>2. PICK i \in DOMAIN s : s[i].turn = t /\ PlaceIn(s[i], last) = x
      BY <3>1 DEF Shows
    <3>. QED  BY <3>2, <1>1, <1>2
  <2>. QED  BY <2>1, <2>2
<1>7. Shows(u, t, last, a, b + 1)
  BY <1>4, <1>5, <1>6 DEF Shows
<1>. QED  BY <1>7 DEF u

\* An event of another turn.
LEMMA ShowsOther ==
  ASSUME NEW s \in Seq(Events), NEW t, NEW last, NEW a \in Nat, NEW b \in Nat,
         Shows(s, t, last, a, b), NEW e \in Events, e.turn # t
  PROVE  Shows(Append(s, e), t, last, a, b)
<1> DEFINE u == Append(s, e)
<1>1. /\ Len(u) = Len(s) + 1 /\ u[Len(s) + 1] = e
      /\ \A i \in 1..Len(s) : u[i] = s[i]
  BY AppendProperties
<1>2. Len(s) \in Nat /\ DOMAIN s = 1..Len(s) /\ DOMAIN u = 1..Len(s) + 1
  BY AppendProperties
<1> HIDE DEF u
<1>3. \A i \in DOMAIN u : u[i].turn = t => i \in DOMAIN s /\ u[i] = s[i]
  BY <1>1, <1>2
<1>4. \A i \in DOMAIN s : i \in DOMAIN u /\ u[i] = s[i]
  BY <1>1, <1>2
<1>5. Shows(u, t, last, a, b)
  <2>1. \A i \in DOMAIN u : u[i].turn = t => a < PlaceIn(u[i], last) /\ PlaceIn(u[i], last) <= b /\ u[i].n < last
    BY <1>3 DEF Shows
  <2>2. \A i, k \in DOMAIN u : u[i].turn = t /\ u[k].turn = t /\ i < k => PlaceIn(u[i], last) < PlaceIn(u[k], last)
    BY <1>3 DEF Shows
  <2>3. \A x \in a + 1 .. b : \E i \in DOMAIN u : u[i].turn = t /\ PlaceIn(u[i], last) = x
    BY <1>4 DEF Shows
  <2>. QED  BY <2>1, <2>2, <2>3 DEF Shows
<1>. QED  BY <1>5 DEF u

\* The turn goes on, and its result is not there yet.
LEMMA ShowsLater ==
  ASSUME NEW s \in Seq(Events), NEW t, NEW last \in Nat, NEW a \in Nat, NEW b \in Nat,
         Shows(s, t, last, a, b), b < last
  PROVE  Shows(s, t, last + 1, a, b)
<1>1. \A i \in DOMAIN s : s[i].turn = t => PlaceIn(s[i], last + 1) = PlaceIn(s[i], last)
  BY DEF Shows, PlaceIn
<1>2. \A i \in DOMAIN s : s[i].turn = t => s[i].n < last + 1
  <2>1. ASSUME NEW i \in DOMAIN s, s[i].turn = t PROVE s[i].n < last + 1
    <3>1. s[i] \in Events /\ s[i].n < last
      BY <2>1 DEF Shows
    <3>2. s[i].n \in Nat
      BY <3>1 DEF Events
    <3>. QED  BY <3>1, <3>2
  <2>. QED  BY <2>1
<1>. QED  BY <1>1, <1>2 DEF Shows

\* What a client has seen changes by what is put into its queue and by nothing else.
LEMMA SeenSend ==
  ASSUME NEW s \in Seq(Events), NEW q \in Seq(Events), q # <<>>
  PROVE  Append(s, Head(q)) \o Tail(q) = s \o q
OBVIOUS

LEMMA SeenPut ==
  ASSUME NEW s \in Seq(Events), NEW q \in Seq(Events), NEW e \in Events
  PROVE  s \o Append(q, e) = Append(s \o q, e) /\ s \o q \in Seq(Events)
OBVIOUS

-----------------------------------------------------------------------------
(* Places.                                                                 *)

LEMMA TurnTypes ==
  ASSUME SidecarTypes, NEW t \in SidecarTurns
  PROVE  /\ turn[t].phase \in {"none", "running", "done"} /\ turn[t].emitted \in Nat
         /\ turn[t].events \in Seq(Events) /\ Len(turn[t].events) \in Nat /\ turn[t].own \in Nat
         /\ drainer[t].at \in DrainerSteps /\ drainer[t].batch \in Seq(Events) /\ Len(drainer[t].batch) \in Nat
         /\ drainer[t].to \subseteq Clients
<1>1. turn[t] \in TurnRecords /\ drainer[t] \in DrainerRecords
  BY DEF SidecarTypes
<1>. QED  BY <1>1 DEF TurnRecords, DrainerRecords

LEMMA Remaining ==
  ASSUME NEW e \in Nat, NEW h \in Nat, NEW k \in Nat, h + k <= e
  PROVE  e - h - k \in Nat /\ (k > 0 => e - h - k < e)
OBVIOUS

LEMMA OneMore ==
  ASSUME NEW e \in Nat, NEW h \in Nat, NEW k \in Nat, h + k <= e
  PROVE  (e + 1) - (h + 1) = e - h /\ (e + 1) - (h + 1) - k = e - h - k /\ (h + 1) + k <= e + 1
OBVIOUS

LEMMA OneLess ==
  ASSUME NEW e \in Nat, NEW h \in Nat, NEW k \in Nat, e - h - k \in Nat
  PROVE  h + (k - 1) <= e /\ e - h - (k - 1) = (e - h - k) + 1
OBVIOUS

\* The result of a turn is in no batch of other events.
LEMMA BatchKinds ==
  ASSUME SidecarTypes, NEW t \in SidecarTurns, BatchInv(t), drainer[t].batch # <<>>
  PROVE  /\ Head(drainer[t].batch) \in Events /\ Head(drainer[t].batch).turn = t
         /\ \/ /\ drainer[t].batch = <<ResultOf(t)>> /\ Head(drainer[t].batch) = ResultOf(t)
               /\ turn[t].phase = "done"
            \/ LET from == turn[t].emitted - Len(turn[t].events) - Len(drainer[t].batch)
               IN /\ from \in Nat /\ from < turn[t].emitted
                  /\ Numbered(drainer[t].batch, t, from)
                  /\ Head(drainer[t].batch) = [turn |-> t, n |-> from + 1]
                  /\ Head(drainer[t].batch) # ResultOf(t) /\ drainer[t].batch # <<ResultOf(t)>>
<1>1. /\ turn[t].emitted \in Nat /\ Len(turn[t].events) \in Nat
      /\ drainer[t].batch \in Seq(Events) /\ Len(drainer[t].batch) \in Nat
  BY TurnTypes
<1> DEFINE batch == drainer[t].batch
           from == turn[t].emitted - Len(turn[t].events) - Len(batch)
<1>2. Len(batch) > 0 /\ Head(batch) = batch[1] /\ 1 \in DOMAIN batch /\ batch[1] \in Events
  BY <1>1
<1>3. CASE batch = <<ResultOf(t)>> /\ turn[t].phase = "done"
  BY <1>3, <1>2 DEF ResultOf
<1>4. CASE Len(turn[t].events) + Len(batch) <= turn[t].emitted /\ Numbered(batch, t, from)
  <2>1. from \in Nat
    BY <1>1, <1>4, Remaining
  <2>0. batch[1] = [turn |-> t, n |-> from + 1]
    BY <1>2, <1>4 DEF Numbered
  <2>2. batch[1] # ResultOf(t)
    BY <2>1, <2>0 DEF ResultOf
  <2>3. batch # <<ResultOf(t)>>
    BY <2>2
  <2>4. from < turn[t].emitted
    BY <1>1, <1>2, <1>4, Remaining
  <2>. QED  BY <1>2, <1>4, <2>1, <2>0, <2>2, <2>3, <2>4
<1>. QED  BY <1>3, <1>4 DEF BatchInv

LEMMA CountedBound ==
  ASSUME SidecarTypes, NEW t \in SidecarTurns, DrainerInv(t)
  PROVE  Counted(t) \in Nat /\ (~Resulting(t) => Counted(t) = turn[t].emitted)
         /\ Counted(t) <= turn[t].emitted /\ (Resulting(t) => turn[t].phase = "done")
<1>1. turn[t].emitted \in Nat /\ Len(turn[t].events) \in Nat
  BY TurnTypes
<1>2. Len(turn[t].events) <= turn[t].emitted
  BY DEF DrainerInv, BatchInv
<1>3. Counted(t) \in Nat /\ (~Resulting(t) => Counted(t) = turn[t].emitted) /\ Counted(t) <= turn[t].emitted
  BY <1>1, <1>2 DEF Counted
<1>4. Resulting(t) => turn[t].phase = "done"
  <2>1. CASE Over(t)
    BY <2>1 DEF DrainerInv
  <2>2. CASE drainer[t].batch = <<ResultOf(t)>>
    <3>1. BatchInv(t) /\ drainer[t].batch # <<>>
      BY <2>2 DEF DrainerInv
    <3>. QED  BY <2>2, <3>1, BatchKinds
  <2>. QED  BY <2>1, <2>2 DEF Resulting
<1>. QED  BY <1>3, <1>4

\* What the drainer puts next is the event with the next place.
LEMMA PlaceOfHead ==
  ASSUME SidecarTypes, NEW t \in SidecarTurns, DrainerInv(t), At(t, "put")
  PROVE  /\ PlaceIn(Head(drainer[t].batch), Counted(t) + 1) = NextPlace(t)
         /\ Head(drainer[t].batch).n < Counted(t) + 1
<1>1. drainer[t].batch # <<>> /\ BatchInv(t) /\ ~Over(t)
  BY DEF DrainerInv, At, Over
<1>2. turn[t].emitted \in Nat /\ Counted(t) \in Nat
  BY TurnTypes, CountedBound
<1>3. CASE drainer[t].batch = <<ResultOf(t)>> /\ Head(drainer[t].batch) = ResultOf(t)
  BY <1>1, <1>2, <1>3 DEF PlaceIn, NextPlace, ResultOf
<1> DEFINE from == turn[t].emitted - Len(turn[t].events) - Len(drainer[t].batch)
<1>4. CASE /\ from \in Nat /\ drainer[t].batch # <<ResultOf(t)>>
           /\ Head(drainer[t].batch) = [turn |-> t, n |-> from + 1] /\ from < turn[t].emitted
  <2>1. Head(drainer[t].batch).n = from + 1 /\ from + 1 # 0
    BY <1>4
  <2>2. Counted(t) = turn[t].emitted
    BY <1>1, <1>4, CountedBound DEF Resulting
  <2>3. from + 1 < Counted(t) + 1
    BY <1>2, <1>4, <2>2
  <2>. QED  BY <1>1, <1>4, <2>1, <2>3 DEF PlaceIn, NextPlace
<1>. QED  BY <1>1, <1>3, <1>4, BatchKinds

LEMMA UptoBound ==
  ASSUME SidecarTypes, NEW t \in SidecarTurns, DrainerInv(t), NEW c
  PROVE  /\ NextPlace(t) \in Nat \ {0} /\ Upto(c, t) \in Nat
         /\ Upto(c, t) <= Counted(t) + 1
         /\ ~Resulting(t) => Upto(c, t) <= Counted(t)
         /\ At(t, "ended") => Upto(c, t) = Counted(t) + 1
<1>1. /\ turn[t].emitted \in Nat /\ Len(turn[t].events) \in Nat /\ Counted(t) \in Nat
      /\ drainer[t].batch \in Seq(Events) /\ Len(drainer[t].batch) \in Nat
      /\ ~Resulting(t) => Counted(t) = turn[t].emitted
  BY TurnTypes, CountedBound
<1>2. BatchInv(t)
  BY DEF DrainerInv
<1>3. CASE Over(t)
  <2>1. ~At(t, "put") /\ Resulting(t)
    BY <1>3 DEF Over, At, Resulting
  <2>. QED  BY <1>1, <1>3, <2>1 DEF NextPlace, Upto
<1>4. CASE ~Over(t)
  <2>1. ~At(t, "ended")
    BY <1>4 DEF Over, At
  <2>2. CASE drainer[t].batch = <<>>
    <3>1. /\ ~At(t, "put") /\ drainer[t].batch # <<ResultOf(t)>> /\ Len(drainer[t].batch) = 0
          /\ Counted(t) = turn[t].emitted
      BY <1>1, <1>4, <2>2 DEF At, DrainerInv, Resulting
    <3>2. Len(turn[t].events) <= turn[t].emitted
      BY <1>1, <1>2, <3>1 DEF BatchInv
    <3>3. NextPlace(t) = turn[t].emitted - Len(turn[t].events) + 1 /\ Upto(c, t) = NextPlace(t) - 1
      BY <1>1, <1>4, <3>1 DEF NextPlace, Upto
    <3>4. turn[t].emitted - Len(turn[t].events) \in Nat /\ turn[t].emitted - Len(turn[t].events) <= turn[t].emitted
      BY <1>1, <3>2
    <3>5. NextPlace(t) \in Nat \ {0} /\ Upto(c, t) = turn[t].emitted - Len(turn[t].events)
      BY <3>3, <3>4
    <3>. QED  BY <1>1, <2>1, <3>1, <3>4, <3>5
  <2>3. CASE drainer[t].batch # <<>>
    <3>1. CASE drainer[t].batch = <<ResultOf(t)>>
      BY <1>1, <1>4, <2>1, <3>1 DEF NextPlace, Upto, Resulting
    <3> DEFINE from == turn[t].emitted - Len(turn[t].events) - Len(drainer[t].batch)
    <3>2. CASE from \in Nat /\ drainer[t].batch # <<ResultOf(t)>> /\ from < turn[t].emitted
      <4>1. NextPlace(t) = from + 1
        BY <1>4, <3>2 DEF NextPlace
      <4> HIDE DEF from
      <4>3. Upto(c, t) \in {from, from + 1}
        BY <3>2, <4>1 DEF Upto
      <4>4. Counted(t) = turn[t].emitted
        BY <1>1, <1>4, <3>2 DEF Resulting
      <4>. QED  BY <1>1, <2>1, <3>2, <4>1, <4>3, <4>4
    <3>. QED  BY <1>2, <2>3, <3>1, <3>2, BatchKinds
  <2>. QED  BY <2>2, <2>3
<1>. QED  BY <1>3, <1>4

-----------------------------------------------------------------------------
(* What a step leaves alone.                                               *)

\* A client keeps what it has seen, and gets no more than before.
LEMMA ClientKept ==
  ASSUME NEW c, NEW t, ClientInv(c, t), Seen(c)' = Seen(c), Counted(t)' = Counted(t),
         Upto(c, t) \in Nat, Upto(c, t)' \in Nat, Upto(c, t) <= Upto(c, t)',
         Gets(c, t)' => Gets(c, t) /\ Upto(c, t)' = Upto(c, t),
         c \in watching'[t] => c \in watching[t] /\ c \in clients'
  PROVE  ClientInv(c, t)'
<1>1. PICK a \in Nat, b \in Nat :
        /\ a <= b /\ b <= Upto(c, t)
        /\ Shows(Seen(c), t, Counted(t) + 1, a, b)
        /\ Gets(c, t) => b = Upto(c, t)
        /\ c \in watching[t] => c \in clients /\ a = 0
  BY DEF ClientInv
<1>2. b <= Upto(c, t)'
  BY <1>1
<1>3. Shows(Seen(c), t, Counted(t) + 1, a, b)'
  BY <1>1 DEF Shows, PlaceIn
<1>. QED  BY <1>1, <1>2, <1>3 DEF ClientInv

LEMMA BatchKept ==
  ASSUME NEW t, BatchInv(t), drainer'[t].batch = drainer[t].batch, turn'[t].events = turn[t].events,
         turn'[t].emitted = turn[t].emitted, turn[t].phase = "done" => turn'[t].phase = "done"
  PROVE  BatchInv(t)'
BY DEF BatchInv, Numbered, ResultOf

\* A turn that a step has nothing to do with.
LEMMA Untouched ==
  ASSUME NEW t, turn'[t] = turn[t], drainer'[t] = drainer[t], NEW c
  PROVE  /\ DrainerInv(t) => DrainerInv(t)'
         /\ NextPlace(t)' = NextPlace(t) /\ Upto(c, t)' = Upto(c, t)
         /\ At(t, "put") <=> At(t, "put")'
         /\ drainer[t].to = (drainer[t].to)' /\ Counted(t) = Counted(t)'
BY DEF DrainerInv, BatchInv, Numbered, Over, NextPlace, Upto, At, Counted, Resulting

-----------------------------------------------------------------------------
(* Types.                                                                  *)

LEMMA DrainerTyped ==
  ASSUME SidecarTypes, NEW t \in SidecarTurns, NEW d \in DrainerRecords, Go(t, d), UNCHANGED clientVars,
         turn' \in [SidecarTurns -> TurnRecords]
  PROVE  SidecarTypes'
<1>1. drainer' \in [SidecarTurns -> DrainerRecords]
  BY DEF SidecarTypes, Go
<1>. QED  BY <1>1 DEF SidecarTypes, clientVars

LEMMA TurnTyped ==
  ASSUME SidecarTypes, NEW t \in SidecarTurns, NEW x \in TurnRecords, turn' = [turn EXCEPT ![t] = x],
         drainer' = drainer, UNCHANGED <<clients, queue, sent>>, watching' \in [SidecarTurns -> SUBSET Clients]
  PROVE  SidecarTypes'
<1>1. turn' \in [SidecarTurns -> TurnRecords]
  BY DEF SidecarTypes
<1>. QED  BY <1>1 DEF SidecarTypes

\* The drainer goes on with the batch it has.
LEMMA Moved ==
  ASSUME SidecarTypes, NEW t \in SidecarTurns, NEW at \in DrainerSteps,
         NEW block \in BOOLEAN, NEW to \in SUBSET Clients
  PROVE  [drainer[t] EXCEPT !.at = at, !.block = block, !.to = to] \in DrainerRecords
<1>1. drainer[t] \in DrainerRecords
  BY DEF SidecarTypes
<1>. QED  BY <1>1 DEF DrainerRecords

LEMMA WithBatch ==
  ASSUME SidecarTypes, NEW t \in SidecarTurns, NEW at \in DrainerSteps, NEW batch \in Seq(Events)
  PROVE  [drainer[t] EXCEPT !.at = at, !.batch = batch] \in DrainerRecords
<1>1. drainer[t] \in DrainerRecords
  BY DEF SidecarTypes
<1>. QED  BY <1>1 DEF DrainerRecords

\* What becomes of the drainer of a turn, field by field.
LEMMA MovedFields ==
  ASSUME SidecarTypes, NEW t \in SidecarTurns, NEW at, Go(t, [drainer[t] EXCEPT !.at = at])
  PROVE  /\ drainer'[t].at = at /\ drainer'[t].batch = drainer[t].batch /\ drainer'[t].to = drainer[t].to
         /\ \A u \in SidecarTurns \ {t} : drainer'[u] = drainer[u]
         /\ at \in DrainerSteps /\ turn' = turn /\ UNCHANGED clientVars => SidecarTypes'
<1>1. drainer[t] \in DrainerRecords /\ DOMAIN drainer = SidecarTurns /\ turn \in [SidecarTurns -> TurnRecords]
  BY DEF SidecarTypes
<1>2. drainer'[t] = [drainer[t] EXCEPT !.at = at] /\ \A u \in SidecarTurns \ {t} : drainer'[u] = drainer[u]
  BY <1>1 DEF Go
<1>3. at \in DrainerSteps => [drainer[t] EXCEPT !.at = at] \in DrainerRecords
  BY <1>1 DEF DrainerRecords
<1>4. at \in DrainerSteps /\ turn' = turn /\ UNCHANGED clientVars => SidecarTypes'
  BY <1>1, <1>3, DrainerTyped
<1>. QED  BY <1>1, <1>2, <1>4 DEF DrainerRecords

-----------------------------------------------------------------------------
(* Steps of a turn and its drainer.                                        *)

\* A step that changes neither who gets an event next nor which one.
LEMMA QuietStep ==
  ASSUME SidecarInv, SidecarTypes', UNCHANGED clientVars, NEW t \in SidecarTurns,
         \A u \in SidecarTurns \ {t} : turn'[u] = turn[u] /\ drainer'[u] = drainer[u],
         At(t, "put") <=> At(t, "put")', At(t, "put") => (drainer[t].to)' = drainer[t].to,
         DrainerInv(t)', NextPlace(t)' = NextPlace(t), Counted(t)' = Counted(t)
  PROVE  SidecarInv'
<1>1. \A u \in SidecarTurns : DrainerInv(u)'
  BY Untouched DEF SidecarInv
<1>2. ASSUME NEW c \in Clients, NEW u \in SidecarTurns PROVE ClientInv(c, u)'
  <2>1. /\ ClientInv(c, u) /\ SidecarTypes /\ DrainerInv(u)
    BY DEF SidecarInv
  <2>2. Seen(c)' = Seen(c) /\ clients' = clients /\ watching' = watching
    BY DEF clientVars, Seen
  <2>3. Upto(c, u) \in Nat
    BY <2>1, UptoBound
  <2>4. Upto(c, u)' = Upto(c, u) /\ Counted(u)' = Counted(u) /\ (Gets(c, u)' => Gets(c, u))
    <3>1. CASE u = t
      BY <2>2, <3>1 DEF Upto, Gets
    <3>2. CASE u # t
      BY <2>2, <3>2, Untouched DEF Gets
    <3>. QED  BY <3>1, <3>2
  <2>5. c \in watching'[u] => c \in watching[u] /\ c \in clients'
    BY <2>1, <2>2 DEF ClientInv
  <2>6. Upto(c, u)' \in Nat /\ Upto(c, u) <= Upto(c, u)'
    BY <2>3, <2>4
  <2>. QED  BY <2>1, <2>2, <2>3, <2>4, <2>5, <2>6, ClientKept
<1>. QED  BY <1>1, <1>2 DEF SidecarInv

LEMMA RegisterKeeps ==
  ASSUME SidecarInv, NEW t \in SidecarTurns, Register(t)
  PROVE  SidecarInv'
<1>1. /\ SidecarTypes /\ DrainerInv(t) /\ drainer[t].at = "none" /\ turn[t].phase # "none"
      /\ Go(t, [NoDrainer EXCEPT !.at = "wait"]) /\ turn' = turn
      /\ UNCHANGED clientVars /\ DOMAIN drainer = SidecarTurns /\ turn \in [SidecarTurns -> TurnRecords]
  BY DEF SidecarInv, Register, At, SidecarTypes
<1>2. [NoDrainer EXCEPT !.at = "wait"] \in DrainerRecords
  <2>1. <<>> \in Seq(Events)
    OBVIOUS
  <2>2. NoDrainer \in DrainerRecords
    BY <2>1 DEF DrainerRecords, DrainerSteps, NoDrainer
  <2>. QED  BY <2>2 DEF DrainerRecords, DrainerSteps
<1>3. SidecarTypes'
  BY <1>1, <1>2, DrainerTyped
<1>4. drainer'[t] = [NoDrainer EXCEPT !.at = "wait"] /\ \A u \in SidecarTurns \ {t} : drainer'[u] = drainer[u]
  BY <1>1 DEF Go
<1>5. drainer'[t].at = "wait" /\ drainer'[t].batch = <<>> /\ drainer[t].batch = <<>>
  BY <1>1, <1>4 DEF NoDrainer, DrainerInv
<1>6. BatchInv(t)'
  BY <1>1, <1>5, BatchKept DEF DrainerInv
<1>9. Counted(t)' = Counted(t)
  BY <1>1, <1>5 DEF Counted, Resulting, Over, ResultOf
<1>7. DrainerInv(t)'
  BY <1>1, <1>5, <1>6, <1>9 DEF DrainerInv, Over
<1>8. NextPlace(t)' = NextPlace(t)
  BY <1>1, <1>5, <1>9 DEF NextPlace, Over, ResultOf
<1>. QED  BY <1>1, <1>3, <1>4, <1>5, <1>7, <1>8, <1>9, QuietStep DEF At

\* Something happens to the turn, and its queue is as it was: its result is there, it is
\* interrupted or leaves a thread behind.
LEMMA RunningKeeps ==
  ASSUME SidecarInv, NEW t \in SidecarTurns, NEW x \in TurnRecords, turn[t].phase = "running",
         turn' = [turn EXCEPT ![t] = x], drainer' = drainer, UNCHANGED clientVars,
         x.phase \in {"running", "done"}, x.events = turn[t].events, x.emitted = turn[t].emitted,
         x.own \in {turn[t].own, turn[t].emitted}
  PROVE  SidecarInv'
<1>1. SidecarTypes /\ DrainerInv(t) /\ DOMAIN turn = SidecarTurns
  BY DEF SidecarInv, SidecarTypes
<1>2. SidecarTypes'
  <2>1. watching' \in [SidecarTurns -> SUBSET Clients] /\ UNCHANGED <<clients, queue, sent>>
    BY <1>1 DEF SidecarTypes, clientVars
  <2>. QED  BY <1>1, <2>1, TurnTyped
<1>3. turn'[t] = x /\ \A u \in SidecarTurns \ {t} : turn'[u] = turn[u]
  BY <1>1
<1>4. BatchInv(t)'
  BY <1>1, <1>3, BatchKept DEF DrainerInv
<1>5. Counted(t)' = Counted(t) /\ Counted(t) = turn[t].emitted
  <2>1. Counted(t) = turn[t].emitted
    BY <1>1, CountedBound
  <2>. QED  BY <1>3, <2>1 DEF Counted, Resulting, Over, ResultOf
<1>6. x.own <= Counted(t) /\ ~Over(t)
  <2>1. turn[t].own <= Counted(t) /\ Counted(t) \in Nat /\ ~Over(t)
    BY <1>1, CountedBound DEF DrainerInv, Over
  <2>. QED  BY <1>5, <2>1
<1>7. DrainerInv(t)'
  BY <1>1, <1>3, <1>4, <1>5, <1>6 DEF DrainerInv, Over
<1>8. NextPlace(t)' = NextPlace(t)
  BY <1>3, <1>5 DEF NextPlace, Over, ResultOf
<1>. QED  BY <1>2, <1>3, <1>5, <1>7, <1>8, QuietStep DEF At

LEMMA TurnKeeps ==
  ASSUME SidecarInv, NEW t \in SidecarTurns, ResultReady(t) \/ InterruptAsked(t) \/ LeaveBehind(t)
  PROVE  SidecarInv'
<1>1. turn[t] \in TurnRecords /\ DOMAIN turn = SidecarTurns
  BY DEF SidecarInv, SidecarTypes
<1>2. CASE ResultReady(t)
  <2> DEFINE x == [turn[t] EXCEPT !.phase = "done", !.own = turn[t].emitted]
  <2>1. /\ turn[t].phase = "running" /\ turn' = [turn EXCEPT ![t] = x] /\ drainer' = drainer
        /\ UNCHANGED clientVars
    BY <1>2 DEF ResultReady
  <2>2. /\ x \in TurnRecords /\ x.phase = "done" /\ x.events = turn[t].events
        /\ x.emitted = turn[t].emitted /\ x.own = turn[t].emitted
    BY <1>1 DEF TurnRecords
  <2> HIDE DEF x
  <2>. QED  BY <2>1, <2>2, RunningKeeps
<1>3. ASSUME NEW flag \in BOOLEAN, NEW beside \in SUBSET {"interrupt", "provider"},
             turn[t].phase = "running", drainer' = drainer, UNCHANGED clientVars,
             turn' = [turn EXCEPT ![t] = [turn[t] EXCEPT !.interrupted = flag, !.beside = beside]]
      PROVE  SidecarInv'
  <2> DEFINE x == [turn[t] EXCEPT !.interrupted = flag, !.beside = beside]
  <2>1. /\ x \in TurnRecords /\ x.phase = "running" /\ x.events = turn[t].events
        /\ x.emitted = turn[t].emitted /\ x.own = turn[t].own
    BY <1>1, <1>3 DEF TurnRecords
  <2> HIDE DEF x
  <2>2. turn' = [turn EXCEPT ![t] = x]
    BY <1>3 DEF x
  <2>. QED  BY <1>3, <2>1, <2>2, RunningKeeps
<1>4. CASE InterruptAsked(t)
  <2>1. /\ turn[t].phase = "running" /\ drainer' = drainer /\ UNCHANGED clientVars
        /\ turn' = [turn EXCEPT ![t] = [turn[t] EXCEPT !.interrupted = TRUE,
                                                      !.beside = turn[t].beside \cup {"interrupt"}]]
    BY <1>4 DEF InterruptAsked
  <2>2. turn[t].beside \cup {"interrupt"} \in SUBSET {"interrupt", "provider"}
    BY <1>1 DEF TurnRecords
  <2>. QED  BY <1>3, <2>1, <2>2
<1>5. CASE LeaveBehind(t)
  <2>1. /\ turn[t].phase = "running" /\ drainer' = drainer /\ UNCHANGED clientVars
        /\ turn' = [turn EXCEPT ![t] = [turn[t] EXCEPT !.interrupted = turn[t].interrupted,
                                                      !.beside = turn[t].beside \cup {"provider"}]]
    BY <1>1, <1>5 DEF LeaveBehind, TurnRecords
  <2>2. /\ turn[t].beside \cup {"provider"} \in SUBSET {"interrupt", "provider"}
        /\ turn[t].interrupted \in BOOLEAN
    BY <1>1 DEF TurnRecords
  <2>. QED  BY <1>3, <2>1, <2>2
<1>. QED  BY <1>2, <1>4, <1>5

\* The drainer looks at its turn and goes on: it waits, gives up waiting, has sent a batch
\* or is at its end.
LEMMA DrainerMoves ==
  ASSUME SidecarInv, SidecarTypes', NEW t \in SidecarTurns, turn' = turn, UNCHANGED clientVars, NEW at,
         drainer'[t].at = at, drainer'[t].batch = drainer[t].batch,
         \A u \in SidecarTurns \ {t} : drainer'[u] = drainer[u],
         \/ /\ drainer[t].at \in {"wait", "drain", "check", "send"} /\ drainer[t].batch = <<>>
            /\ at \in {"check", "wait", "drain"}
         \/ drainer[t].at = "sent" /\ at = "ended"
  PROVE  SidecarInv'
<1>1. /\ SidecarTypes /\ DrainerInv(t)
  BY DEF SidecarInv
<1>2. BatchInv(t)'
  BY <1>1, BatchKept DEF DrainerInv
<1>5. Counted(t)' = Counted(t)
  BY DEF Counted, Resulting, Over, ResultOf
<1>3. DrainerInv(t)' /\ turn[t].phase # "none"
  BY <1>1, <1>2, <1>5 DEF DrainerInv, Over
<1>4. NextPlace(t)' = NextPlace(t)
  BY <1>5 DEF NextPlace, Over, ResultOf
<1>. QED  BY <1>1, <1>3, <1>4, <1>5, QuietStep DEF At

LEMMA WaitKeeps ==
  ASSUME SidecarInv, NEW t \in SidecarTurns, Wait(t)
  PROVE  SidecarInv'
<1>1. /\ SidecarTypes /\ DrainerInv(t) /\ drainer[t].at = "wait" /\ drainer[t] \in DrainerRecords
      /\ Go(t, [drainer[t] EXCEPT !.at = "drain", !.block = ~IsDone(t)]) /\ turn' = turn
      /\ UNCHANGED clientVars /\ DOMAIN drainer = SidecarTurns /\ turn \in [SidecarTurns -> TurnRecords]
  BY DEF SidecarInv, Wait, At, SidecarTypes
<1>2. [drainer[t] EXCEPT !.at = "drain", !.block = ~IsDone(t)] \in DrainerRecords
  BY <1>1 DEF DrainerRecords, DrainerSteps, IsDone
<1>3. SidecarTypes'
  BY <1>1, <1>2, DrainerTyped
<1>4. /\ drainer'[t].at = "drain" /\ drainer'[t].batch = drainer[t].batch
      /\ \A u \in SidecarTurns \ {t} : drainer'[u] = drainer[u]
  BY <1>1 DEF Go, DrainerRecords
<1>5. drainer[t].batch = <<>>
  BY <1>1 DEF DrainerInv
<1>. QED  BY <1>1, <1>3, <1>4, <1>5, DrainerMoves

LEMMA GoKeeps ==
  ASSUME SidecarInv, NEW t \in SidecarTurns, turn' = turn, UNCHANGED clientVars, NEW at,
         Go(t, [drainer[t] EXCEPT !.at = at]),
         \/ drainer[t].at \in {"drain", "check", "send"} /\ drainer[t].batch = <<>> /\ at \in {"check", "wait"}
         \/ drainer[t].at = "sent" /\ at = "ended"
  PROVE  SidecarInv'
<1>1. SidecarTypes /\ at \in DrainerSteps
  BY DEF SidecarInv, DrainerSteps
<1>. QED  BY <1>1, MovedFields, DrainerMoves

\* What is in the queue of the turn becomes the batch.
LEMMA TakenKeeps ==
  ASSUME SidecarInv, NEW t \in SidecarTurns, Taken(t), UNCHANGED clientVars, drainer[t].at \in {"drain", "check"}
  PROVE  SidecarInv'
<1> DEFINE e == turn[t].emitted
           events == turn[t].events
<1>1. /\ SidecarTypes /\ DrainerInv(t) /\ events # <<>> /\ turn[t] \in TurnRecords /\ drainer[t] \in DrainerRecords
      /\ turn' = [turn EXCEPT ![t] = [turn[t] EXCEPT !.events = <<>>]]
      /\ Go(t, [drainer[t] EXCEPT !.at = "send", !.batch = events])
      /\ DOMAIN drainer = SidecarTurns /\ turn \in [SidecarTurns -> TurnRecords]
  BY DEF SidecarInv, Taken, SidecarTypes
<1>2. <<>> \in Seq(Events) /\ events \in Seq(Events) /\ e \in Nat /\ Len(events) \in Nat /\ Len(events) > 0
  BY <1>1, TurnTypes
<1>3. SidecarTypes'
  <2>1. [turn[t] EXCEPT !.events = <<>>] \in TurnRecords
    BY <1>1, <1>2 DEF TurnRecords
  <2>2. turn' \in [SidecarTurns -> TurnRecords]
    BY <1>1, <2>1
  <2>3. [drainer[t] EXCEPT !.at = "send", !.batch = events] \in DrainerRecords
    BY <1>1, <1>2, WithBatch DEF DrainerSteps
  <2>. QED  BY <1>1, <2>2, <2>3, DrainerTyped
<1>4. /\ turn'[t].phase = turn[t].phase /\ turn'[t].events = <<>> /\ turn'[t].emitted = e
      /\ turn'[t].own = turn[t].own
      /\ \A u \in SidecarTurns \ {t} : turn'[u] = turn[u] /\ drainer'[u] = drainer[u]
      /\ drainer'[t].at = "send" /\ drainer'[t].batch = events
  BY <1>1 DEF TurnRecords, DrainerRecords, Go
<1>5. drainer[t].batch = <<>> /\ ~Over(t) /\ turn[t].phase # "none" /\ BatchInv(t)
  BY <1>1 DEF DrainerInv, Over
<1>6. Len(events) <= e /\ Numbered(events, t, e - Len(events))
  BY <1>2, <1>5 DEF BatchInv
<1>7. BatchInv(t)'
  <2>1. e - 0 - Len(events) = e - Len(events) /\ 0 + Len(events) <= e
    BY <1>2, <1>6
  <2>2. Numbered(events, t, e - 0 - Len(events))
    BY <1>6, <2>1
  <2>3. Numbered(<<>>, t, e - 0) /\ Len(<<>>) = 0
    BY DEF Numbered
  <2>4. Len(turn'[t].events) <= turn'[t].emitted
    BY <1>2, <1>4
  <2>. QED  BY <1>4, <2>1, <2>2, <2>3, <2>4 DEF BatchInv, Numbered
<1>10. events # <<ResultOf(t)>>
  <2>1. e - Len(events) + 1 # 0
    BY <1>2, <1>6
  <2>2. 1 \in DOMAIN events
    BY <1>2
  <2>3. events[1] = [turn |-> t, n |-> e - Len(events) + 1]
    BY <2>2, <1>6 DEF Numbered
  <2>. QED  BY <2>1, <2>3 DEF ResultOf
<1>11. Counted(t)' = Counted(t) /\ ~Over(t)'
  <2>1. ~Resulting(t)' /\ ~Resulting(t)
    BY <1>4, <1>5, <1>10 DEF Resulting, Over, ResultOf
  <2>. QED  BY <1>4, <2>1 DEF Counted, Over
<1>8. DrainerInv(t)'
  BY <1>1, <1>4, <1>5, <1>7, <1>11 DEF DrainerInv, Over
<1>9. NextPlace(t)' = NextPlace(t)
  <2>2. drainer[t].batch # <<ResultOf(t)>> /\ Len(drainer[t].batch) = 0 /\ Len(turn'[t].events) = 0
    BY <1>4, <1>5
  <2>3. NextPlace(t) = e - Len(events) - 0 + 1
    BY <1>5, <2>2 DEF NextPlace
  <2>4. NextPlace(t)' = e - 0 - Len(events) + 1
    BY <1>4, <1>10, <1>11, <2>2 DEF NextPlace, ResultOf
  <2>. QED  BY <1>2, <2>3, <2>4
<1>. QED  BY <1>1, <1>3, <1>4, <1>8, <1>9, <1>11, QuietStep DEF At

\* The turn is over, its queue empty: the result becomes the batch.
LEMMA ToResultKeeps ==
  ASSUME SidecarInv, NEW t \in SidecarTurns, ToResult(t), IsDone(t), turn[t].events = <<>>,
         UNCHANGED clientVars, drainer[t].at = "check"
  PROVE  SidecarInv'
<1>1. /\ SidecarTypes /\ DrainerInv(t) /\ drainer[t] \in DrainerRecords /\ turn[t].phase = "done"
      /\ Go(t, [drainer[t] EXCEPT !.at = "send", !.batch = <<ResultOf(t)>>]) /\ turn' = turn
      /\ DOMAIN drainer = SidecarTurns /\ turn \in [SidecarTurns -> TurnRecords] /\ turn[t].emitted \in Nat
  BY TurnTypes DEF SidecarInv, ToResult, IsDone, SidecarTypes
<1>2. SidecarTypes'
  <2>1. <<ResultOf(t)>> \in Seq(Events)
    BY DEF ResultOf, Events
  <2>2. [drainer[t] EXCEPT !.at = "send", !.batch = <<ResultOf(t)>>] \in DrainerRecords
    BY <1>1, <2>1, WithBatch DEF DrainerSteps
  <2>. QED  BY <1>1, <2>2, DrainerTyped
<1>3. /\ drainer'[t].at = "send" /\ drainer'[t].batch = <<ResultOf(t)>>
      /\ \A u \in SidecarTurns \ {t} : drainer'[u] = drainer[u]
  BY <1>1 DEF DrainerRecords, Go
<1>4. drainer[t].batch = <<>> /\ ~Over(t) /\ BatchInv(t) /\ Len(turn[t].events) = 0
  BY <1>1 DEF DrainerInv, Over
<1>5. BatchInv(t)'
  BY <1>1, <1>3, <1>4 DEF BatchInv, ResultOf, Numbered
<1>8. Counted(t) = turn[t].emitted /\ Counted(t)' = turn[t].emitted
  BY <1>1, <1>3, <1>4 DEF Counted
<1>6. DrainerInv(t)' /\ ~Over(t)'
  BY <1>1, <1>3, <1>5, <1>8 DEF DrainerInv, Over
<1>7. NextPlace(t)' = NextPlace(t)
  <2>1. drainer[t].batch # <<ResultOf(t)>> /\ Len(drainer[t].batch) = 0
    BY <1>4
  <2>2. NextPlace(t) = turn[t].emitted - 0 - 0 + 1
    BY <1>4, <2>1 DEF NextPlace
  <2>3. NextPlace(t)' = turn[t].emitted + 1
    BY <1>1, <1>3, <1>6, <1>8 DEF NextPlace, ResultOf
  <2>. QED  BY <1>1, <2>2, <2>3
<1>. QED  BY <1>1, <1>2, <1>3, <1>6, <1>7, <1>8, QuietStep DEF At

\* The steps of a drainer between its turn and the clients.
LEMMA DrainKeeps ==
  ASSUME SidecarInv, NEW t \in SidecarTurns, Drain(t) \/ Check(t) \/ Sent(t) \/ Unregister(t)
  PROVE  SidecarInv'
<1>1. UNCHANGED clientVars /\ DrainerInv(t)
  BY DEF Drain, Check, Sent, Unregister, SidecarInv
<1>2. drainer[t].at \in {"drain", "check"} => drainer[t].batch = <<>>
  BY <1>1 DEF DrainerInv
<1>3. CASE Drain(t)
  BY <1>1, <1>2, <1>3, TakenKeeps, GoKeeps DEF Drain, At
<1>4. CASE Check(t)
  BY <1>1, <1>2, <1>4, TakenKeeps, ToResultKeeps, GoKeeps DEF Check, Trailing, At
<1>5. CASE Sent(t)
  BY <1>1, <1>5, GoKeeps DEF Sent, At
<1>6. CASE Unregister(t)
  BY <1>1, <1>6, GoKeeps DEF Unregister, At
<1>. QED  BY <1>3, <1>4, <1>5, <1>6

\* An event of the turn is put behind the others. Either nobody has seen the result, or
\* nobody looks at the queue any more.
LEMMA PutBehind ==
  ASSUME SidecarInv, NEW t \in SidecarTurns, NEW x \in TurnRecords, turn[t].phase # "none",
         turn' = [turn EXCEPT ![t] = x], drainer' = drainer, UNCHANGED clientVars,
         x.phase = turn[t].phase, x.own = turn[t].own, x.emitted = turn[t].emitted + 1,
         x.events = Append(turn[t].events, [turn |-> t, n |-> turn[t].emitted + 1])
  PROVE  SidecarInv'
<1> DEFINE e == turn[t].emitted
           events == turn[t].events
           new == [turn |-> t, n |-> e + 1]
           batch == drainer[t].batch
<1>1. SidecarTypes /\ DrainerInv(t) /\ DOMAIN turn = SidecarTurns
  BY DEF SidecarInv, SidecarTypes
<1>2. e \in Nat /\ events \in Seq(Events) /\ Len(events) \in Nat /\ Len(batch) \in Nat /\ turn[t].own \in Nat
  BY <1>1, TurnTypes
<1>0. e + 1 \in Nat /\ new \in Events
  BY <1>2 DEF Events
<1>3. /\ Append(events, new) \in Seq(Events) /\ Len(Append(events, new)) = Len(events) + 1
      /\ \A i \in 1..Len(events) : Append(events, new)[i] = events[i]
      /\ Append(events, new)[Len(events) + 1] = new
  BY <1>2, <1>0, AppendProperties
<1>4. SidecarTypes'
  <2>1. watching' \in [SidecarTurns -> SUBSET Clients] /\ UNCHANGED <<clients, queue, sent>>
    BY <1>1 DEF SidecarTypes, clientVars
  <2>. QED  BY <1>1, <2>1, TurnTyped
<1>5. /\ turn'[t].phase = turn[t].phase /\ turn'[t].own = turn[t].own
      /\ turn'[t].events = Append(events, new) /\ turn'[t].emitted = e + 1
      /\ \A u \in SidecarTurns \ {t} : turn'[u] = turn[u]
  BY <1>1
<1>6. BatchInv(t) /\ Len(events) <= e /\ Numbered(events, t, e - Len(events))
  BY <1>1 DEF DrainerInv, BatchInv
<1>12. Counted(t) \in Nat /\ Counted(t) <= e /\ (~Resulting(t) => Counted(t) = e) /\ turn[t].own <= Counted(t)
  BY <1>1, CountedBound DEF DrainerInv
<1> HIDE DEF e, events, batch
<1>13. /\ (e + 1) - (Len(events) + 1) = e - Len(events) /\ Len(events) + 1 <= e + 1
       /\ Len(turn'[t].events) = Len(events) + 1
  BY <1>2, <1>3, <1>5, <1>6
<1>14. Numbered(Append(events, new), t, e - Len(events))
  <2>1. SUFFICES ASSUME NEW i \in 1 .. Len(events) + 1
                 PROVE  Append(events, new)[i] = [turn |-> t, n |-> (e - Len(events)) + i]
    BY <1>2, <1>3 DEF Numbered
  <2>2. CASE i \in 1..Len(events)
    <3>1. i \in DOMAIN events
      BY <1>2, <2>2
    <3>. QED  BY <1>3, <1>6, <2>2, <3>1 DEF Numbered
  <2>3. CASE i = Len(events) + 1
    <3>1. (e - Len(events)) + i = e + 1
      BY <1>2, <2>3
    <3>. QED  BY <1>3, <2>3, <3>1
  <2>. QED  BY <1>2, <2>2, <2>3
<1>15. /\ Len(turn'[t].events) <= turn'[t].emitted
       /\ Numbered(turn'[t].events, t, turn'[t].emitted - Len(turn'[t].events))
  BY <1>5, <1>13, <1>14
<1>7. BatchInv(t)'
  <2>1. CASE batch = <<ResultOf(t)>> /\ turn[t].phase = "done"
    <3>1. drainer'[t].batch = <<ResultOf(t)>> /\ turn'[t].phase = "done"
      BY <1>5, <2>1 DEF batch
    <3>. QED  BY <1>15, <3>1 DEF BatchInv, Numbered, ResultOf
  <2>2. CASE Len(events) + Len(batch) <= e /\ Numbered(batch, t, e - Len(events) - Len(batch))
    <3>1. /\ (e + 1) - (Len(events) + 1) - Len(batch) = e - Len(events) - Len(batch)
          /\ (Len(events) + 1) + Len(batch) <= e + 1
      BY <1>2, <2>2, OneMore
    <3>2. drainer'[t].batch = batch
      BY DEF batch
    <3>3. /\ Len(turn'[t].events) + Len(drainer'[t].batch) <= turn'[t].emitted
          /\ Numbered(drainer'[t].batch, t, turn'[t].emitted - Len(turn'[t].events) - Len(drainer'[t].batch))
      BY <1>5, <1>13, <2>2, <3>1, <3>2
    <3>. QED  BY <1>15, <3>3 DEF BatchInv, Numbered
  <2>. QED  BY <1>6, <2>1, <2>2 DEF BatchInv, e, events, batch
<1>16. (Over(t)' <=> Over(t)) /\ (Resulting(t)' <=> Resulting(t))
  BY DEF Over, Resulting, ResultOf
<1>17. Counted(t)' = IF Resulting(t) THEN Counted(t) ELSE e + 1
  <2>1. CASE Resulting(t)
    <3>1. Counted(t) = e - Len(events)
      BY <2>1 DEF Counted, e, events
    <3>2. Counted(t)' = turn'[t].emitted - Len(turn'[t].events)
      BY <1>16, <2>1 DEF Counted
    <3>. QED  BY <1>5, <1>13, <2>1, <3>1, <3>2
  <2>2. CASE ~Resulting(t)
    BY <1>5, <1>16, <2>2 DEF Counted
  <2>. QED  BY <2>1, <2>2
<1>8. DrainerInv(t)'
  <2>1. turn'[t].own <= Counted(t)'
    BY <1>2, <1>5, <1>12, <1>17
  <2>. QED  BY <1>1, <1>5, <1>7, <1>16, <2>1 DEF DrainerInv
<1>9. NextPlace(t)' = NextPlace(t)
  <2>1. CASE Resulting(t)
    BY <1>16, <1>17, <2>1 DEF NextPlace, Resulting, ResultOf
  <2>2. CASE ~Resulting(t)
    <3>1. NextPlace(t) = e - Len(events) - Len(batch) + 1
      BY <2>2 DEF NextPlace, Resulting, e, events, batch
    <3>2. NextPlace(t)' = (e + 1) - (Len(events) + 1) - Len(batch) + 1
      BY <1>5, <1>13, <1>16, <2>2 DEF NextPlace, Resulting, ResultOf, batch
    <3>. QED  BY <1>13, <3>1, <3>2
  <2>. QED  BY <2>1, <2>2
<1>10. CASE Resulting(t)
  BY <1>4, <1>5, <1>8, <1>9, <1>10, <1>17, QuietStep DEF At
<1>11. CASE ~Resulting(t)
  <2>1. \A u \in SidecarTurns : DrainerInv(u)'
    BY <1>1, <1>5, <1>8, Untouched DEF SidecarInv
  <2>2. ASSUME NEW c \in Clients, NEW u \in SidecarTurns PROVE ClientInv(c, u)'
    <3>1. ClientInv(c, u) /\ DrainerInv(u) /\ Upto(c, u) \in Nat
      BY <1>1, UptoBound DEF SidecarInv
    <3>2. Seen(c)' = Seen(c) /\ clients' = clients /\ watching' = watching /\ (Gets(c, u)' <=> Gets(c, u))
      BY DEF clientVars, Seen, Gets, At
    <3>3. CASE u # t
      <4>1. c \in watching'[u] => c \in watching[u] /\ c \in clients'
        BY <3>1, <3>2 DEF ClientInv
      <4>2. Counted(u)' = Counted(u) /\ Upto(c, u)' = Upto(c, u)
        BY <1>1, <1>5, <3>3, Untouched
      <4>. QED  BY <3>1, <3>2, <4>1, <4>2, ClientKept
    <3>4. CASE u = t
      <4>1. PICK a \in Nat, b \in Nat :
              /\ a <= b /\ b <= Upto(c, t)
              /\ Shows(Seen(c), t, e + 1, a, b)
              /\ Gets(c, t) => b = Upto(c, t)
              /\ c \in watching[t] => c \in clients /\ a = 0
        BY <1>11, <1>12, <3>1, <3>4 DEF ClientInv
      <4>2. Upto(c, t) <= e
        BY <1>1, <1>11, <1>12, UptoBound
      <4>3. Seen(c) \in Seq(Events)
        <5>1. sent[c] \in Seq(Events) /\ queue[c] \in Seq(Events)
          BY <1>1 DEF SidecarTypes
        <5>. QED  BY <5>1, ConcatProperties DEF Seen
      <4>4. b < e + 1
        BY <1>2, <3>1, <3>4, <4>1, <4>2
      <4>5. Shows(Seen(c), t, (e + 1) + 1, a, b)
        BY <1>0, <4>1, <4>3, <4>4, ShowsLater
      <4>6. Shows(Seen(c), t, Counted(t) + 1, a, b)'
        BY <1>11, <1>17, <3>2, <4>5 DEF Shows, PlaceIn
      <4>7. Upto(c, t)' = Upto(c, t)
        BY <1>9 DEF Upto, At
      <4>. QED  BY <3>2, <3>4, <4>1, <4>6, <4>7 DEF ClientInv
    <3>. QED  BY <3>3, <3>4
  <2>. QED  BY <1>4, <2>1, <2>2 DEF SidecarInv
<1>. QED  BY <1>10, <1>11

LEMMA EmitKeeps ==
  ASSUME SidecarInv, NEW t \in SidecarTurns, Emit(t) \/ EmitBeside(t)
  PROVE  SidecarInv'
<1> DEFINE e == turn[t].emitted
           new == [turn |-> t, n |-> e + 1]
<1>1. /\ SidecarTypes /\ DrainerInv(t) /\ turn[t] \in TurnRecords /\ DOMAIN turn = SidecarTurns
      /\ drainer' = drainer /\ UNCHANGED clientVars
  BY DEF SidecarInv, SidecarTypes, Emit, EmitBeside
<1>2. e + 1 \in Nat /\ Append(turn[t].events, new) \in Seq(Events)
  <2>1. e \in Nat /\ turn[t].events \in Seq(Events)
    BY <1>1, TurnTypes
  <2>2. new \in Events
    BY <2>1 DEF Events
  <2>. QED  BY <2>1, <2>2, AppendProperties
<1>3. turn[t].phase # "none"
  BY <1>1 DEF Emit, EmitBeside, DrainerInv
<1>4. \E beside \in SUBSET {"interrupt", "provider"} :
        turn' = [turn EXCEPT ![t] = [turn[t] EXCEPT !.emitted = e + 1, !.events = Append(turn[t].events, new),
                                                    !.beside = beside]]
  <2>1. /\ turn[t].beside \in SUBSET {"interrupt", "provider"}
        /\ [turn[t] EXCEPT !.beside = turn[t].beside] = turn[t]
    BY <1>1 DEF TurnRecords
  <2>2. CASE turn' = [turn EXCEPT ![t] = Emitted(t)]
    <3>1. Emitted(t) = [turn[t] EXCEPT !.emitted = e + 1, !.events = Append(turn[t].events, new),
                                       !.beside = turn[t].beside]
      BY <1>1 DEF Emitted, TurnRecords
    <3>. QED  BY <2>1, <2>2, <3>1
  <2>3. CASE turn' = [turn EXCEPT ![t] = [Emitted(t) EXCEPT !.beside = @ \ {"interrupt"}]]
    <3>1. [Emitted(t) EXCEPT !.beside = @ \ {"interrupt"}]
            = [turn[t] EXCEPT !.emitted = e + 1, !.events = Append(turn[t].events, new),
                              !.beside = turn[t].beside \ {"interrupt"}]
      BY <1>1 DEF Emitted, TurnRecords
    <3>2. turn[t].beside \ {"interrupt"} \in SUBSET {"interrupt", "provider"}
      BY <2>1
    <3>. QED  BY <2>3, <3>1, <3>2
  <2>. QED  BY <2>2, <2>3 DEF Emit, EmitBeside
<1>5. PICK beside \in SUBSET {"interrupt", "provider"} :
        turn' = [turn EXCEPT ![t] = [turn[t] EXCEPT !.emitted = e + 1, !.events = Append(turn[t].events, new),
                                                    !.beside = beside]]
  BY <1>4
<1> DEFINE x == [turn[t] EXCEPT !.emitted = e + 1, !.events = Append(turn[t].events, new), !.beside = beside]
<1>6. /\ x \in TurnRecords /\ x.phase = turn[t].phase /\ x.own = turn[t].own
      /\ x.emitted = e + 1 /\ x.events = Append(turn[t].events, new)
  <2>1. \A n \in Nat, s \in Seq(Events) :
          [turn[t] EXCEPT !.emitted = n, !.events = s, !.beside = beside] \in TurnRecords
    BY <1>1 DEF TurnRecords
  <2>2. x \in TurnRecords
    BY <1>2, <2>1
  <2>. QED  BY <1>1, <2>2 DEF TurnRecords
<1>7. turn' = [turn EXCEPT ![t] = x]
  BY <1>5
<1> HIDE DEF x
<1>. QED  BY <1>1, <1>3, <1>6, <1>7, PutBehind

\* A turn begins: of it nobody has seen anything.
LEMMA BeginKeeps ==
  ASSUME SidecarInv, NEW t \in SidecarTurns, BeginTurn(t)
  PROVE  SidecarInv'
<1>1. /\ SidecarTypes /\ DrainerInv(t) /\ turn[t].phase = "none" /\ turn[t] \in TurnRecords
      /\ turn' = [turn EXCEPT ![t] = [turn[t] EXCEPT !.phase = "running"]] /\ drainer' = drainer
      /\ watching' = [watching EXCEPT ![t] = clients] /\ UNCHANGED <<clients, queue, sent>>
      /\ DOMAIN turn = SidecarTurns /\ DOMAIN watching = SidecarTurns
  BY DEF SidecarInv, BeginTurn, SidecarTypes
<1>2. SidecarTypes'
  <2>1. [turn[t] EXCEPT !.phase = "running"] \in TurnRecords
    BY <1>1 DEF TurnRecords
  <2>2. watching' \in [SidecarTurns -> SUBSET Clients]
    BY <1>1 DEF SidecarTypes
  <2>. QED  BY <1>1, <2>1, <2>2, TurnTyped
<1>3. /\ turn'[t].phase = "running" /\ turn'[t].events = turn[t].events /\ turn'[t].emitted = turn[t].emitted
      /\ turn'[t].own = turn[t].own
      /\ \A u \in SidecarTurns \ {t} : turn'[u] = turn[u] /\ watching'[u] = watching[u]
  BY <1>1 DEF TurnRecords
<1>4. BatchInv(t)'
  BY <1>1, <1>3, BatchKept DEF DrainerInv
<1>8. Counted(t)' = Counted(t) /\ Counted(t) = 0 /\ ~Resulting(t)
  <2>1. turn[t].emitted = 0 /\ ~Resulting(t)
    BY <1>1, CountedBound DEF DrainerInv
  <2>2. Counted(t) = 0
    BY <1>1, <2>1, CountedBound
  <2>. QED  BY <1>1, <1>3, <2>1, <2>2 DEF Counted, Resulting, Over, ResultOf
<1>5. DrainerInv(t)' /\ drainer[t].at = "none"
  BY <1>1, <1>3, <1>4, <1>8 DEF DrainerInv, Over
<1>6. \A u \in SidecarTurns : DrainerInv(u)'
  BY <1>1, <1>3, <1>5, Untouched DEF SidecarInv
<1>7. ASSUME NEW c \in Clients, NEW u \in SidecarTurns PROVE ClientInv(c, u)'
  <2>1. ClientInv(c, u) /\ DrainerInv(u) /\ Upto(c, u) \in Nat
    BY <1>1, UptoBound DEF SidecarInv
  <2>2. Seen(c)' = Seen(c) /\ (Gets(c, u)' <=> Gets(c, u)) /\ clients' = clients
    BY <1>1 DEF Seen, Gets, At
  <2>3. Upto(c, u)' = Upto(c, u) /\ Counted(u)' = Counted(u)
    <3>1. CASE u = t
      BY <1>1, <1>3, <1>8, <3>1 DEF Upto, At, NextPlace, Over, ResultOf
    <3>2. CASE u # t
      BY <1>1, <1>3, <3>2, Untouched
    <3>. QED  BY <3>1, <3>2
  <2>4. CASE u # t
    <3>1. c \in watching'[u] => c \in watching[u] /\ c \in clients'
      BY <1>3, <2>1, <2>2, <2>4 DEF ClientInv
    <3>. QED  BY <2>1, <2>2, <2>3, <3>1, ClientKept
  <2>5. CASE u = t
    <3>1. PICK a \in Nat, b \in Nat :
            /\ a <= b /\ b <= Upto(c, t)
            /\ Shows(Seen(c), t, Counted(t) + 1, a, b)
            /\ Gets(c, t) => b = Upto(c, t)
      BY <2>1, <2>5 DEF ClientInv
    <3>2. Upto(c, t) <= 0
      BY <1>1, <1>8, UptoBound
    <3>3. a = 0
      BY <2>1, <2>5, <3>1, <3>2
    <3>4. Shows(Seen(c), t, Counted(t) + 1, a, b)'
      BY <1>8, <2>2, <3>1 DEF Shows, PlaceIn
    <3>5. c \in watching'[t] => c \in clients'
      BY <1>1
    <3>. QED  BY <2>2, <2>3, <2>5, <3>1, <3>3, <3>4, <3>5 DEF ClientInv
  <2>. QED  BY <2>4, <2>5
<1>. QED  BY <1>2, <1>6, <1>7 DEF SidecarInv

-----------------------------------------------------------------------------
(* Steps of a drainer among the clients.                                   *)

\* A step of a drainer that leaves turns and clients alone, but may put an event into the
\* queue of a client: all it has to show is the batch and what became of the clients.
LEMMA BroadcastStep ==
  ASSUME SidecarInv, SidecarTypes', NEW t \in SidecarTurns, DrainerInv(t)',
         turn' = turn, clients' = clients, watching' = watching,
         \A u \in SidecarTurns \ {t} : drainer'[u] = drainer[u],
         \A c \in Clients : ClientInv(c, t)' /\ \A u \in SidecarTurns \ {t} : ClientInv(c, u)'
  PROVE  SidecarInv'
<1>1. \A u \in SidecarTurns : DrainerInv(u)'
  BY Untouched DEF SidecarInv
<1>. QED  BY <1>1 DEF SidecarInv

LEMMA BroadcastKeeps ==
  ASSUME SidecarInv, NEW t \in SidecarTurns, Broadcast(t)
  PROVE  SidecarInv'
<1>1. /\ SidecarTypes /\ DrainerInv(t) /\ drainer[t].at = "send" /\ drainer[t].batch # <<>>
      /\ drainer[t] \in DrainerRecords
      /\ Go(t, [drainer[t] EXCEPT !.at = "put", !.to = clients]) /\ turn' = turn /\ UNCHANGED clientVars
      /\ DOMAIN drainer = SidecarTurns /\ clients \subseteq Clients /\ turn \in [SidecarTurns -> TurnRecords]
  BY DEF SidecarInv, Broadcast, At, SidecarTypes
<1>2. [drainer[t] EXCEPT !.at = "put", !.to = clients] \in DrainerRecords
  BY <1>1 DEF DrainerRecords, DrainerSteps
<1>3. SidecarTypes'
  BY <1>1, <1>2, DrainerTyped
<1>4. /\ drainer'[t].at = "put" /\ drainer'[t].batch = drainer[t].batch /\ drainer'[t].to = clients
      /\ \A u \in SidecarTurns \ {t} : drainer'[u] = drainer[u]
  BY <1>1 DEF Go, DrainerRecords
<1>5. BatchInv(t)'
  BY <1>1, <1>4, BatchKept DEF DrainerInv
<1>9. Counted(t)' = Counted(t)
  BY <1>1, <1>4 DEF Counted, Resulting, Over, ResultOf
<1>6. DrainerInv(t)'
  BY <1>1, <1>4, <1>5, <1>9 DEF DrainerInv, Over
<1>7. NextPlace(t)' = NextPlace(t) /\ NextPlace(t) \in Nat \ {0}
  BY <1>1, <1>4, <1>9, UptoBound DEF NextPlace, Over, ResultOf
<1>8. ASSUME NEW c \in Clients, NEW u \in SidecarTurns PROVE ClientInv(c, u)'
  <2>1. ClientInv(c, u) /\ DrainerInv(u) /\ Upto(c, u) \in Nat
    BY <1>1, UptoBound DEF SidecarInv
  <2>2. Seen(c)' = Seen(c) /\ clients' = clients /\ watching' = watching
    BY <1>1 DEF clientVars, Seen
  <2>3. c \in watching'[u] => c \in watching[u] /\ c \in clients'
    BY <2>1, <2>2 DEF ClientInv
  <2>4. CASE u # t
    <3>1. Upto(c, u)' = Upto(c, u) /\ (Gets(c, u)' <=> Gets(c, u)) /\ Counted(u)' = Counted(u)
      BY <1>1, <1>4, <2>2, <2>4, Untouched DEF Gets
    <3>. QED  BY <1>1, <2>1, <2>2, <2>3, <3>1, ClientKept
  <2>5. CASE u = t
    <3>1. Upto(c, t) = NextPlace(t) - 1
      BY <1>1 DEF Upto, At
    <3>2. Upto(c, t)' = IF c \in clients THEN NextPlace(t) - 1 ELSE NextPlace(t)
      BY <1>4, <1>7 DEF Upto, At
    <3>3. Upto(c, t)' \in Nat /\ Upto(c, t) <= Upto(c, t)' /\ (c \in clients => Upto(c, t)' = Upto(c, t))
      BY <1>7, <3>1, <3>2
    <3>4. Gets(c, t)' => c \in clients /\ Gets(c, t)
      BY <1>4, <2>2 DEF Gets, At
    <3>. QED  BY <1>1, <1>9, <2>1, <2>2, <2>3, <2>5, <3>3, <3>4, ClientKept
  <2>. QED  BY <2>4, <2>5
<1>. QED  BY <1>1, <1>3, <1>4, <1>6, <1>8, BroadcastStep DEF clientVars

\* The event goes into the queue of one client, which has everything up to it.
LEMMA PutKeeps ==
  ASSUME SidecarInv, NEW t \in SidecarTurns, At(t, "put"), NEW d \in drainer[t].to,
         queue' = [queue EXCEPT ![d] = Append(@, Head(drainer[t].batch))],
         Go(t, [drainer[t] EXCEPT !.to = @ \ {d}]), UNCHANGED <<turn, clients, sent, watching>>
  PROVE  SidecarInv'
<1> DEFINE new == Head(drainer[t].batch)
<1>1. /\ SidecarTypes /\ DrainerInv(t) /\ drainer[t].at = "put" /\ drainer[t] \in DrainerRecords
      /\ drainer[t].batch # <<>> /\ BatchInv(t)
      /\ DOMAIN drainer = SidecarTurns /\ d \in Clients
  BY TurnTypes DEF SidecarInv, At, SidecarTypes, DrainerInv
<1>2. new \in Events /\ new.turn = t
  BY <1>1, BatchKinds
<1>3. /\ PlaceIn(new, Counted(t) + 1) = NextPlace(t) /\ NextPlace(t) \in Nat \ {0} /\ Counted(t) \in Nat
      /\ new.n < Counted(t) + 1
  BY <1>1, PlaceOfHead, UptoBound, CountedBound
<1>4. /\ drainer'[t].at = "put" /\ drainer'[t].batch = drainer[t].batch /\ drainer'[t].to = drainer[t].to \ {d}
      /\ \A u \in SidecarTurns \ {t} : drainer'[u] = drainer[u]
  BY <1>1 DEF Go, DrainerRecords
<1>5. /\ sent \in [Clients -> Seq(Events)] /\ queue \in [Clients -> Seq(Events)]
      /\ queue'[d] = Append(queue[d], new) /\ \A c \in Clients \ {d} : queue'[c] = queue[c]
  BY <1>1 DEF SidecarTypes
<1>6. SidecarTypes'
  <2>1. [drainer[t] EXCEPT !.to = @ \ {d}] \in DrainerRecords
    BY <1>1 DEF DrainerRecords
  <2>2. drainer' \in [SidecarTurns -> DrainerRecords]
    BY <1>1, <2>1 DEF SidecarTypes, Go
  <2>3. Append(queue[d], new) \in Seq(Events)
    BY <1>1, <1>2, <1>5, AppendProperties
  <2>4. queue' \in [Clients -> Seq(Events)]
    BY <1>5, <2>3
  <2>. QED  BY <1>1, <2>2, <2>4 DEF SidecarTypes
<1>7. BatchInv(t)'
  BY <1>1, <1>4, BatchKept
<1>12. Counted(t)' = Counted(t)
  BY <1>1, <1>4 DEF Counted, Resulting, Over, ResultOf
<1>8. DrainerInv(t)'
  BY <1>1, <1>4, <1>7, <1>12 DEF DrainerInv, Over
<1>9. NextPlace(t)' = NextPlace(t)
  BY <1>1, <1>4, <1>12 DEF NextPlace, Over, ResultOf
<1>10. sent[d] \o queue[d] \in Seq(Events) /\ Seen(d)' = Append(Seen(d), new) /\ Seen(d) \in Seq(Events)
  <2>1. sent[d] \in Seq(Events) /\ queue[d] \in Seq(Events)
    BY <1>1, <1>5
  <2>. QED  BY <1>2, <1>5, <2>1, SeenPut DEF Seen
<1> HIDE DEF new
<1>11. ASSUME NEW c \in Clients, NEW u \in SidecarTurns PROVE ClientInv(c, u)'
  <2>1. ClientInv(c, u) /\ DrainerInv(u) /\ Upto(c, u) \in Nat
    BY <1>1, UptoBound DEF SidecarInv
  <2>2. c \in watching'[u] => c \in watching[u] /\ c \in clients'
    BY <2>1 DEF ClientInv
  <2>6. Counted(u)' = Counted(u)
    BY <1>4, <1>12, Untouched
  <2>3. u # t \/ c # d => Upto(c, u)' = Upto(c, u) /\ (Gets(c, u)' <=> Gets(c, u))
    <3>1. CASE u # t
      BY <1>4, <3>1, Untouched DEF Gets
    <3>2. CASE u = t /\ c # d
      BY <1>1, <1>4, <1>9, <3>2 DEF Upto, Gets, At
    <3>. QED  BY <3>1, <3>2
  <2>4. CASE c # d
    <3>1. Seen(c)' = Seen(c)
      BY <1>5, <2>4 DEF Seen
    <3>. QED  BY <2>1, <2>2, <2>3, <2>4, <2>6, <3>1, ClientKept
  <2>5. CASE c = d
    <3>1. PICK a \in Nat, b \in Nat :
            /\ a <= b /\ b <= Upto(d, u)
            /\ Shows(Seen(d), u, Counted(u) + 1, a, b)
            /\ Gets(d, u) => b = Upto(d, u)
            /\ d \in watching[u] => d \in clients /\ a = 0
      BY <2>1, <2>5 DEF ClientInv
    <3>2. CASE u # t
      <4>1. Shows(Seen(d)', u, Counted(u) + 1, a, b)
        BY <1>2, <1>10, <3>1, <3>2, ShowsOther
      <4>2. Shows(Seen(d), u, Counted(u) + 1, a, b)'
        BY <2>6, <4>1 DEF Shows, PlaceIn
      <4>. QED  BY <2>3, <2>5, <3>1, <3>2, <4>2 DEF ClientInv
    <3>3. CASE u = t
      <4>1. Gets(d, t) /\ Upto(d, t) = NextPlace(t) - 1
        BY <1>1 DEF Gets, Upto, At
      <4>2. b + 1 = NextPlace(t)
        BY <1>3, <3>1, <3>3, <4>1
      <4>3. Shows(Seen(d)', t, Counted(t) + 1, a, b + 1)
        BY <1>1, <1>2, <1>3, <1>10, <3>1, <3>3, <4>2, ShowsNext, SMTT(20)
      <4>4. Upto(d, t)' = b + 1
        BY <1>4, <1>9, <4>2 DEF Upto, At
      <4>5. a <= b + 1 /\ b + 1 \in Nat
        BY <3>1
      <4>6. Shows(Seen(d), t, Counted(t) + 1, a, b + 1)'
        BY <1>12, <4>3 DEF Shows, PlaceIn
      <4>. QED  BY <2>5, <3>1, <3>3, <4>4, <4>5, <4>6 DEF ClientInv
    <3>. QED  BY <3>2, <3>3
  <2>. QED  BY <2>4, <2>5
<1>. QED  BY <1>4, <1>6, <1>8, <1>11, BroadcastStep

\* The event is in the queues of all the clients there were; the next one follows.
LEMMA NextKeeps ==
  ASSUME SidecarInv, NEW t \in SidecarTurns, At(t, "put"), drainer[t].to = {},
         Go(t, [drainer[t] EXCEPT !.at = IF Head(drainer[t].batch) = ResultOf(t) THEN "sent" ELSE "send",
                                  !.batch = Tail(@)]),
         UNCHANGED <<turn, clientVars>>
  PROVE  SidecarInv'
<1> DEFINE batch == drainer[t].batch
           at == IF Head(batch) = ResultOf(t) THEN "sent" ELSE "send"
           e == turn[t].emitted
           h == Len(turn[t].events)
<1>1. /\ SidecarTypes /\ DrainerInv(t) /\ drainer[t].at = "put" /\ drainer[t] \in DrainerRecords
      /\ batch # <<>> /\ BatchInv(t) /\ DOMAIN drainer = SidecarTurns
      /\ e \in Nat /\ h \in Nat /\ Len(batch) \in Nat /\ batch \in Seq(Events)
      /\ turn \in [SidecarTurns -> TurnRecords]
  BY TurnTypes DEF SidecarInv, At, SidecarTypes, DrainerInv
<1>2. /\ Len(batch) > 0 /\ Tail(batch) \in Seq(Events) /\ Len(Tail(batch)) = Len(batch) - 1
      /\ \A i \in 1 .. Len(batch) - 1 : Tail(batch)[i] = batch[i + 1]
  BY <1>1
<1>3. [drainer[t] EXCEPT !.at = at, !.batch = Tail(@)] \in DrainerRecords
  BY <1>1, <1>2 DEF DrainerRecords, DrainerSteps
<1>4. SidecarTypes'
  BY <1>1, <1>3, DrainerTyped
<1>5. /\ drainer'[t].at = at /\ drainer'[t].batch = Tail(batch)
      /\ \A u \in SidecarTurns \ {t} : drainer'[u] = drainer[u]
  BY <1>1 DEF Go, DrainerRecords
<1>6. /\ turn[t].phase # "none" /\ ~Over(t) /\ h <= e /\ Numbered(turn[t].events, t, e - h)
      /\ turn[t].own <= Counted(t) /\ Counted(t) \in Nat
  BY <1>1, CountedBound DEF DrainerInv, Over, BatchInv
<1>7. DrainerInv(t)' /\ NextPlace(t)' = NextPlace(t) + 1 /\ Counted(t)' = Counted(t)
  <2>1. CASE /\ batch = <<ResultOf(t)>> /\ Head(batch) = ResultOf(t)
             /\ turn[t].phase = "done"
    <3>1. drainer'[t].at = "sent" /\ drainer'[t].batch = <<>> /\ Len(<<>>) = 0
      BY <1>5, <2>1
    <3>2. Counted(t)' = Counted(t) /\ Over(t)'
      BY <1>5, <2>1, <3>1 DEF Counted, Resulting, Over
    <3>3. BatchInv(t)'
      <4>1. Numbered(<<>>, t, e - h - 0) /\ h + 0 <= e
        BY <1>1, <1>6 DEF Numbered
      <4>. QED  BY <1>1, <1>6, <3>1, <4>1 DEF BatchInv, Numbered
    <3>4. DrainerInv(t)'
      BY <1>6, <2>1, <3>1, <3>2, <3>3 DEF DrainerInv
    <3>5. NextPlace(t) = Counted(t) + 1 /\ NextPlace(t)' = Counted(t) + 2
      BY <1>6, <2>1, <3>2 DEF NextPlace
    <3>. QED  BY <1>6, <3>2, <3>4, <3>5
  <2> DEFINE from == e - h - Len(batch)
  <2>2. CASE /\ from \in Nat /\ from < e /\ Numbered(batch, t, from)
             /\ Head(batch) # ResultOf(t) /\ batch # <<ResultOf(t)>>
    <3>1. drainer'[t].at = "send" /\ drainer'[t].batch = Tail(batch) /\ ~Over(t)'
      BY <1>5, <2>2 DEF Over
    <3>2. h + (Len(batch) - 1) <= e /\ e - h - (Len(batch) - 1) = from + 1
      BY <1>1, <2>2, OneLess
    <3> HIDE DEF from
    <3>3. Numbered(Tail(batch), t, from + 1)
      <4>1. SUFFICES ASSUME NEW i \in 1 .. Len(batch) - 1
                     PROVE  Tail(batch)[i] = [turn |-> t, n |-> (from + 1) + i]
        BY <1>1, <1>2 DEF Numbered
      <4>2. i + 1 \in DOMAIN batch /\ (from + 1) + i = from + (i + 1)
        BY <1>1, <2>2
      <4>. QED  BY <1>2, <2>2, <4>2 DEF Numbered
    <3>4. h + Len(Tail(batch)) <= e /\ Numbered(Tail(batch), t, e - h - Len(Tail(batch)))
      BY <1>2, <3>2, <3>3
    <3>5. BatchInv(t)'
      BY <1>6, <3>1, <3>4 DEF BatchInv, Numbered
    <3>7. NextPlace(t) = from + 1
      BY <1>6, <2>2 DEF NextPlace, from
    <3>8. Tail(batch) # <<ResultOf(t)>>
      <4>1. ASSUME Tail(batch) = <<ResultOf(t)>> PROVE FALSE
        <5> DEFINE rest == Tail(batch)
        <5>0. rest = <<ResultOf(t)>> /\ Numbered(rest, t, from + 1)
          BY <3>3, <4>1
        <5> HIDE DEF rest
        <5>1. 1 \in DOMAIN rest /\ rest[1] = ResultOf(t)
          BY <5>0
        <5>2. rest[1] = [turn |-> t, n |-> (from + 1) + 1]
          BY <5>0, <5>1 DEF Numbered
        <5>3. (from + 1) + 1 # 0
          BY <2>2
        <5>. QED  BY <5>1, <5>2, <5>3 DEF ResultOf
      <4>. QED  BY <4>1
    <3>10. Counted(t)' = Counted(t)
      BY <1>6, <2>2, <3>1, <3>8 DEF Counted, Resulting, ResultOf
    <3>6. DrainerInv(t)'
      BY <1>6, <3>1, <3>5, <3>10 DEF DrainerInv
    <3>9. NextPlace(t)' = e - h - (Len(batch) - 1) + 1
      BY <1>2, <3>1, <3>8 DEF NextPlace, ResultOf
    <3>. QED  BY <2>2, <3>2, <3>6, <3>7, <3>9, <3>10
  <2>. QED  BY <1>1, <2>1, <2>2, BatchKinds
<1>8. NextPlace(t) \in Nat
  BY <1>1, UptoBound
<1>9. ASSUME NEW c \in Clients, NEW u \in SidecarTurns PROVE ClientInv(c, u)'
  <2>1. ClientInv(c, u) /\ DrainerInv(u) /\ Upto(c, u) \in Nat
    BY <1>1, UptoBound DEF SidecarInv
  <2>2. Seen(c)' = Seen(c) /\ clients' = clients /\ watching' = watching
    BY DEF clientVars, Seen
  <2>3. c \in watching'[u] => c \in watching[u] /\ c \in clients'
    BY <2>1, <2>2 DEF ClientInv
  <2>4. Upto(c, u)' = Upto(c, u) /\ (Gets(c, u)' => Gets(c, u)) /\ Counted(u)' = Counted(u)
    <3>1. CASE u # t
      BY <1>5, <2>2, <3>1, Untouched DEF Gets
    <3>2. CASE u = t
      <4>1. drainer'[t].at # "put"
        BY <1>5
      <4>2. Upto(c, t) = NextPlace(t) /\ Upto(c, t)' = NextPlace(t)' - 1
        BY <1>1, <4>1 DEF Upto, At
      <4>. QED  BY <1>7, <1>8, <2>2, <3>2, <4>1, <4>2 DEF Gets, At
    <3>. QED  BY <3>1, <3>2
  <2>. QED  BY <2>1, <2>2, <2>3, <2>4, ClientKept
<1>. QED  BY <1>4, <1>5, <1>7, <1>9, BroadcastStep DEF clientVars

LEMMA PutEventKeeps ==
  ASSUME SidecarInv, NEW t \in SidecarTurns, PutEvent(t)
  PROVE  SidecarInv'
BY PutKeeps, NextKeeps DEF PutEvent, clientVars

-----------------------------------------------------------------------------
(* Steps of the clients.                                                   *)

\* A step of a client that shows nothing new and connects nobody.
LEMMA ClientStep ==
  ASSUME SidecarInv, SidecarTypes', turn' = turn, drainer' = drainer,
         \A c \in Clients : Seen(c)' = Seen(c), clients' \subseteq clients,
         \A c \in Clients, t \in SidecarTurns : c \in watching'[t] => c \in watching[t] /\ c \in clients'
  PROVE  SidecarInv'
<1>1. \A t \in SidecarTurns : DrainerInv(t)'
  BY Untouched DEF SidecarInv
<1>2. ASSUME NEW c \in Clients, NEW t \in SidecarTurns PROVE ClientInv(c, t)'
  <2>1. ClientInv(c, t) /\ DrainerInv(t) /\ Upto(c, t) \in Nat
    BY UptoBound DEF SidecarInv
  <2>2. Upto(c, t)' = Upto(c, t) /\ (Gets(c, t)' => Gets(c, t)) /\ Counted(t)' = Counted(t)
    BY Untouched DEF Gets, At
  <2>. QED  BY <2>1, <2>2, ClientKept
<1>. QED  BY <1>1, <1>2 DEF SidecarInv

\* Whoever connects has seen nothing.
LEMMA ConnectKeeps ==
  ASSUME SidecarInv, NEW d \in Clients, Connect(d)
  PROVE  SidecarInv'
<1>1. /\ SidecarTypes /\ d \notin clients /\ queue[d] = <<>> /\ sent[d] = <<>>
      /\ \A t \in SidecarTurns : d \notin watching[t]
      /\ clients' = clients \cup {d} /\ UNCHANGED <<turn, drainer, queue, sent, watching>>
  BY DEF Connect, SidecarInv
<1>2. SidecarTypes'
  BY <1>1 DEF SidecarTypes
<1>3. \A t \in SidecarTurns : DrainerInv(t)'
  BY <1>1, Untouched DEF SidecarInv
<1>4. ASSUME NEW c \in Clients, NEW t \in SidecarTurns PROVE ClientInv(c, t)'
  <2>1. ClientInv(c, t) /\ DrainerInv(t) /\ Upto(c, t) \in Nat
    BY <1>1, UptoBound DEF SidecarInv
  <2>2. Upto(c, t)' = Upto(c, t) /\ Seen(c)' = Seen(c) /\ Counted(t)' = Counted(t)
    BY <1>1, Untouched DEF Seen
  <2>3. CASE c # d
    <3>1. Gets(c, t)' => Gets(c, t)
      BY <1>1, <2>3 DEF Gets, At
    <3>2. c \in watching'[t] => c \in watching[t] /\ c \in clients'
      BY <1>1, <2>1 DEF ClientInv
    <3>. QED  BY <1>1, <2>1, <2>2, <3>1, <3>2, ClientKept
  <2>4. CASE c = d
    <3> DEFINE b == Upto(d, t)
    <3>1. Seen(d) = <<>>
      BY <1>1 DEF Seen
    <3>2. Shows(Seen(d), t, Counted(t) + 1, b, b)
      <4>1. \A i \in DOMAIN Seen(d) : Seen(d)[i].turn # t
        BY <3>1
      <4>. QED  BY <2>1, <2>4, <4>1, ShowsNone
    <3>3. Upto(d, t)' = b /\ Shows(Seen(d)', t, Counted(t)' + 1, b, b) /\ b \in Nat /\ d \notin watching'[t]
      BY <1>1, <2>1, <2>2, <2>4, <3>2
    <3> HIDE DEF b
    <3>4. \E a, z \in Nat :
            /\ a <= z /\ z <= Upto(d, t)' /\ Shows(Seen(d)', t, Counted(t)' + 1, a, z)
            /\ Gets(d, t)' => z = Upto(d, t)'
      BY <3>3
    <3>. QED  BY <2>4, <3>3, <3>4 DEF ClientInv
  <2>. QED  BY <2>3, <2>4
<1>. QED  BY <1>2, <1>3, <1>4 DEF SidecarInv

LEMMA SendKeeps ==
  ASSUME SidecarInv, NEW d \in Clients, Send(d)
  PROVE  SidecarInv'
<1>1. /\ SidecarTypes /\ queue[d] # <<>> /\ queue[d] \in Seq(Events) /\ sent[d] \in Seq(Events)
      /\ sent \in [Clients -> Seq(Events)] /\ queue \in [Clients -> Seq(Events)]
      /\ sent' = [sent EXCEPT ![d] = Append(sent[d], Head(queue[d]))]
      /\ queue' = [queue EXCEPT ![d] = Tail(queue[d])]
      /\ UNCHANGED <<turn, drainer, clients, watching>>
  BY DEF Send, SidecarInv, SidecarTypes
<1>2. Append(sent[d], Head(queue[d])) \in Seq(Events) /\ Tail(queue[d]) \in Seq(Events)
  BY <1>1
<1>3. SidecarTypes'
  BY <1>1, <1>2 DEF SidecarTypes
<1>4. \A c \in Clients : Seen(c)' = Seen(c)
  <2>1. Seen(d)' = Append(sent[d], Head(queue[d])) \o Tail(queue[d])
    BY <1>1 DEF Seen
  <2>2. Seen(d)' = Seen(d)
    BY <1>1, <2>1, SeenSend DEF Seen
  <2>3. \A c \in Clients \ {d} : Seen(c)' = Seen(c)
    BY <1>1 DEF Seen
  <2>. QED  BY <2>2, <2>3
<1>5. \A c \in Clients, t \in SidecarTurns : c \in watching'[t] => c \in watching[t] /\ c \in clients'
  BY <1>1 DEF SidecarInv, ClientInv
<1>. QED  BY <1>1, <1>3, <1>4, <1>5, ClientStep

LEMMA LeaveKeeps ==
  ASSUME SidecarInv, CloseSidecar \/ \E c \in Clients : Disconnect(c)
  PROVE  SidecarInv'
<1>1. /\ SidecarTypes /\ clients' \subseteq clients /\ UNCHANGED <<turn, drainer, queue, sent>>
      /\ watching' \in [SidecarTurns -> SUBSET Clients]
      /\ \A t \in SidecarTurns : watching'[t] \subseteq watching[t]
      /\ \A c \in Clients, t \in SidecarTurns : c \in watching'[t] => c \in watching[t]
      /\ \A c \in Clients, t \in SidecarTurns : c \in watching'[t] /\ c \in clients => c \in clients'
  BY DEF CloseSidecar, Disconnect, SidecarInv, SidecarTypes
<1>2. SidecarTypes'
  BY <1>1 DEF SidecarTypes
<1>3. \A c \in Clients : Seen(c)' = Seen(c)
  BY <1>1 DEF Seen
<1>4. \A c \in Clients, t \in SidecarTurns : c \in watching'[t] => c \in watching[t] /\ c \in clients'
  BY <1>1 DEF SidecarInv, ClientInv
<1>. QED  BY <1>1, <1>2, <1>3, <1>4, ClientStep

-----------------------------------------------------------------------------
LEMMA SidecarStart == SidecarInit => SidecarInv
<1> SUFFICES ASSUME SidecarInit PROVE SidecarInv
  OBVIOUS
<1>1. <<>> \in Seq(Events) /\ Len(<<>>) = 0
  OBVIOUS
<1>2. SidecarTypes
  BY <1>1 DEF SidecarInit, SidecarTypes, TurnRecords, DrainerRecords, DrainerSteps, NoDrainer
<1>3. ASSUME NEW t \in SidecarTurns
      PROVE  /\ turn[t].phase = "none" /\ turn[t].emitted = 0 /\ turn[t].events = <<>>
             /\ drainer[t].at = "none" /\ drainer[t].batch = <<>> /\ watching[t] = {}
             /\ turn[t].own = 0 /\ turn[t].beside = {}
  BY DEF SidecarInit, NoDrainer
<1>4. ASSUME NEW t \in SidecarTurns PROVE DrainerInv(t)
  <2>1. \A from : Numbered(<<>>, t, from)
    BY DEF Numbered
  <2>2. BatchInv(t)
    <3>1. Len(turn[t].events) = 0 /\ Len(drainer[t].batch) = 0
      BY <1>1, <1>3
    <3>2. Len(turn[t].events) + Len(drainer[t].batch) <= turn[t].emitted
      BY <1>3, <3>1
    <3>3. /\ Numbered(turn[t].events, t, turn[t].emitted - Len(turn[t].events))
          /\ Numbered(drainer[t].batch, t, turn[t].emitted - Len(turn[t].events) - Len(drainer[t].batch))
      BY <1>3, <2>1
    <3>4. Len(turn[t].events) <= turn[t].emitted
      BY <1>3, <3>1
    <3>. QED  BY <3>2, <3>3, <3>4 DEF BatchInv
  <2>3. Counted(t) = 0
    BY <1>3 DEF Counted, Resulting, Over
  <2>. QED  BY <1>3, <2>2, <2>3 DEF DrainerInv, Over
<1>5. ASSUME NEW c \in Clients, NEW t \in SidecarTurns PROVE ClientInv(c, t)
  <2>1. Seen(c) = <<>> /\ ~Gets(c, t)
    BY <1>3 DEF SidecarInit, Seen, Gets, At
  <2>2. Upto(c, t) \in Nat
    BY <1>2, <1>4, UptoBound
  <2>3. \A i \in DOMAIN Seen(c) : Seen(c)[i].turn # t
    BY <2>1
  <2>4. Shows(Seen(c), t, Counted(t) + 1, 0, 0)
    BY <2>3, ShowsNone
  <2>. QED  BY <1>3, <2>1, <2>2, <2>4 DEF ClientInv
<1>. QED  BY <1>2, <1>4, <1>5 DEF SidecarInv

LEMMA SidecarStep == SidecarInv /\ [SidecarNext]_sidecarVars => SidecarInv'
<1> SUFFICES ASSUME SidecarInv, [SidecarNext]_sidecarVars PROVE SidecarInv'
  OBVIOUS
<1>1. CASE UNCHANGED sidecarVars
  <2>1. SidecarTypes'
    BY <1>1 DEF sidecarVars, SidecarInv, SidecarTypes
  <2>2. \A c \in Clients, t \in SidecarTurns : c \in watching'[t] => c \in watching[t] /\ c \in clients'
    BY <1>1 DEF sidecarVars, SidecarInv, ClientInv
  <2>. QED  BY <1>1, <2>1, <2>2, ClientStep DEF sidecarVars, Seen
<1>2. CASE SidecarNext
  BY <1>2, BeginKeeps, RegisterKeeps, EmitKeeps, TurnKeeps, WaitKeeps, DrainKeeps, BroadcastKeeps,
     PutEventKeeps, ConnectKeeps, SendKeeps, LeaveKeeps DEF SidecarNext
<1>. QED  BY <1>1, <1>2

\* A client gets the events of a turn without a gap from the first it gets on, each once
\* and in order, and after them the result; with the result it has all that were emitted up
\* to the end of the turn, and one that was there when the turn began gets the result.
THEOREM TurnEvents == SidecarSpec => []TurnEventsComplete
<1>1. SidecarInv => TurnEventsComplete
  <2> SUFFICES ASSUME SidecarInv, NEW c \in Clients, NEW t \in SidecarTurns
               PROVE  LET all == sent[c] \o queue[c]
                          of == {i \in DOMAIN all : all[i].turn = t}
                          got == {all[i].n : i \in of} \ {0}
                          result == \E i \in of : all[i] = ResultOf(t)
                      IN /\ \A i, k \in of : i < k => /\ all[i] # ResultOf(t)
                                                      /\ all[k] = ResultOf(t) \/ all[i].n < all[k].n
                         /\ \E first, next \in 1..turn[t].emitted + 1 :
                              /\ got = first..(next - 1)
                              /\ c \in watching[t] => first = 1
                              /\ result /\ (c \in watching[t] \/ got # {}) => turn[t].own < next
                         /\ c \in watching[t] /\ At(t, "ended") => result
    BY DEF TurnEventsComplete
  <2> DEFINE all == sent[c] \o queue[c]
             of == {i \in DOMAIN all : all[i].turn = t}
             got == {all[i].n : i \in of} \ {0}
             result == \E i \in of : all[i] = ResultOf(t)
             last == Counted(t) + 1
  <2>1. /\ SidecarTypes /\ DrainerInv(t) /\ Counted(t) \in Nat /\ last \in Nat \ {0} /\ turn[t].emitted \in Nat
        /\ Counted(t) <= turn[t].emitted /\ turn[t].own <= Counted(t) /\ turn[t].own \in Nat
    BY TurnTypes, CountedBound DEF SidecarInv, DrainerInv
  <2>2. PICK a \in Nat, b \in Nat :
          /\ a <= b /\ b <= Upto(c, t)
          /\ Shows(Seen(c), t, Counted(t) + 1, a, b)
          /\ Gets(c, t) => b = Upto(c, t)
          /\ c \in watching[t] => c \in clients /\ a = 0
    BY DEF SidecarInv, ClientInv
  <2>3. Upto(c, t) \in Nat /\ Upto(c, t) <= last /\ (At(t, "ended") => Upto(c, t) = last)
    BY <2>1, UptoBound
  <2>4. all \in Seq(Events) /\ Seen(c) = all
    <3>1. sent[c] \in Seq(Events) /\ queue[c] \in Seq(Events)
      BY <2>1 DEF SidecarTypes
    <3>. QED  BY <3>1, ConcatProperties DEF Seen
  <2> HIDE DEF all
  <2>5. \A i \in of : i \in DOMAIN all /\ all[i] \in Events /\ all[i].turn = t
    BY <2>4
  <2>6. \A i \in of : /\ all[i].n \in Nat /\ (all[i] = ResultOf(t) <=> all[i].n = 0)
                      /\ PlaceIn(all[i], last) = (IF all[i].n = 0 THEN last ELSE all[i].n)
    <3>1. ASSUME NEW f \in Events, f.turn = t PROVE f.n \in Nat /\ (f = ResultOf(t) <=> f.n = 0)
      BY <3>1 DEF Events, ResultOf
    <3>. QED  BY <2>5, <3>1 DEF PlaceIn
  <2>7. Shows(all, t, last, a, b)
    BY <2>2, <2>4
  <2>8. \A i \in of : a < PlaceIn(all[i], last) /\ PlaceIn(all[i], last) <= b
    BY <2>7 DEF Shows
  <2>9. \A x \in a + 1 .. b : \E i \in of : PlaceIn(all[i], last) = x
    BY <2>7 DEF Shows
  <2>10. \A i, k \in of : i < k => PlaceIn(all[i], last) < PlaceIn(all[k], last)
    BY <2>7 DEF Shows
  <2>14. \A i \in of : all[i].n < last
    BY <2>7 DEF Shows
  <2> HIDE DEF last, of
  <2>11. b <= last
    BY <2>1, <2>2, <2>3
  <2>12. ASSUME NEW i \in of, NEW k \in of, i < k
         PROVE  all[i] # ResultOf(t) /\ (all[k] = ResultOf(t) \/ all[i].n < all[k].n)
    BY <2>1, <2>2, <2>6, <2>8, <2>10, <2>11, <2>12
  <2>13. result <=> a < b /\ b = last
    <3>1. ASSUME NEW i \in of, all[i] = ResultOf(t) PROVE a < b /\ b = last
      <4>1. PlaceIn(all[i], last) = last
        BY <2>6, <3>1
      <4>. QED  BY <2>1, <2>2, <2>8, <2>11, <4>1
    <3>2. ASSUME a < b, b = last PROVE result
      <4>1. b \in a + 1 .. b
        BY <2>2, <3>2
      <4>2. PICK i \in of : PlaceIn(all[i], last) = last
        BY <2>9, <3>2, <4>1
      <4>3. CASE all[i].n = 0
        BY <2>6, <4>3
      <4>4. CASE all[i].n # 0
        <5>1. all[i].n = last
          BY <2>6, <4>2, <4>4
        <5>. QED  BY <2>1, <2>14, <5>1
      <4>. QED  BY <4>3, <4>4
    <3>. QED  BY <3>1, <3>2
  <2>15. ASSUME NEW x \in Nat, x # 0 PROVE x \in got <=> x \in a + 1 .. b /\ x < last
    <3>1. ASSUME x \in got PROVE x \in a + 1 .. b /\ x < last
      <4>1. PICK i \in of : all[i].n = x
        BY <3>1
      <4>. QED  BY <2>2, <2>6, <2>8, <2>14, <2>15, <4>1
    <3>2. ASSUME x \in a + 1 .. b, x < last PROVE x \in got
      <4>1. PICK i \in of : PlaceIn(all[i], last) = x
        BY <2>9, <3>2
      <4>2. all[i].n = x
        BY <2>1, <2>6, <3>2, <4>1
      <4>. QED  BY <2>15, <4>2
    <3>. QED  BY <3>1, <3>2
  <2>16. got \subseteq Nat \ {0}
    BY <2>6
  <2> HIDE DEF got, result
  <2> DEFINE next == IF b = last THEN last ELSE b + 1
             Gapless(first, nxt) ==
               /\ got = first..(nxt - 1)
               /\ c \in watching[t] => first = 1
               /\ result /\ (c \in watching[t] \/ got # {}) => turn[t].own < nxt
  <2>17. ASSUME a < last
         PROVE  \E first, nxt \in 1..turn[t].emitted + 1 : Gapless(first, nxt)
    <3>1. a + 1 \in 1..turn[t].emitted + 1 /\ next \in 1..turn[t].emitted + 1
      BY <2>1, <2>2, <2>11, <2>17 DEF last
    <3>2. got = a + 1 .. next - 1
      <4>1. \A x \in Nat \ {0} : x \in a + 1 .. b /\ x < last <=> x \in a + 1 .. next - 1
        BY <2>1, <2>2, <2>11
      <4>2. a + 1 .. next - 1 \subseteq Nat \ {0}
        BY <2>1, <2>2, <2>11
      <4>. QED  BY <2>15, <2>16, <4>1, <4>2
    <3>3. result => turn[t].own < next
      BY <2>1, <2>13 DEF last
    <3> HIDE DEF next
    <3>. QED  BY <2>2, <3>1, <3>2, <3>3
  <2>18. ASSUME ~(a < last)
         PROVE  \E first, nxt \in 1..turn[t].emitted + 1 : Gapless(first, nxt)
    <3>1. a = last /\ b = last
      BY <2>1, <2>2, <2>11, <2>18
    <3>2. got = {}
      BY <2>1, <2>15, <2>16, <3>1
    <3>3. ~result /\ c \notin watching[t]
      BY <2>1, <2>2, <2>13, <3>1
    <3>4. 1 \in 1..turn[t].emitted + 1 /\ 1 .. 1 - 1 = {}
      BY <2>1
    <3>. QED  BY <3>2, <3>3, <3>4
  <2>19. c \in watching[t] /\ At(t, "ended") => result
    BY <2>1, <2>2, <2>3, <2>13 DEF Gets
  <2>. QED  BY <2>12, <2>17, <2>18, <2>19 DEF got, of, all, result
<1>. QED  BY <1>1, SidecarStart, SidecarStep, PTL DEF SidecarSpec
=============================================================================
