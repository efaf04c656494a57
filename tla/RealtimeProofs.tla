--------------------------- MODULE RealtimeProofs ---------------------------
(***************************************************************************)
(* Proofs about Realtime, for any number of sockets, attempts, faults and  *)
(* changes of visibility.                                                  *)
(***************************************************************************)
EXTENDS Realtime, TLAPS

-----------------------------------------------------------------------------
(* Every method leaves an object of the class. *)

LEMMA ConnectType ==
    ASSUME NEW c \in Client
    PROVE  Connect(c) \in Client
<1>1. [c EXCEPT !.intentional = FALSE, !.state = "connecting", !.tokens = @ + 1] \in Client
  <2>1. c.tokens + 1 \in Nat
    BY DEF Client
  <2> QED
    BY <2>1 DEF Client, ConnectionState
<1> QED
  BY <1>1 DEF Connect

LEMMA ScheduleType ==
    ASSUME NEW c \in Client
    PROVE  ScheduleReconnect(c) \in Client
<1>1. CASE c.attempts >= MaxAttempts
  BY <1>1 DEF Client, ScheduleReconnect, ConnectionState
<1>2. CASE ~(c.attempts >= MaxAttempts)
  <2>1. c.attempts + 1 \in 0..MaxAttempts
    BY <1>2, AttemptsAssumption DEF Client
  <2>2. (IF c.timer THEN c.stray + 1 ELSE c.stray) \in Nat
    BY DEF Client
  <2> QED
    BY <1>2, <2>1, <2>2 DEF Client, ScheduleReconnect, ConnectionState
<1> QED
  BY <1>1, <1>2

LEMMA StopType ==
    ASSUME NEW c \in Client
    PROVE  Stop(c) \in Client
BY DEF Client, Stop, ConnectionState

LEMMA OnCloseType ==
    ASSUME NEW c \in Client
    PROVE  OnClose(c) \in Client
<1>1. [c EXCEPT !.beat = FALSE] \in Client
  BY DEF Client
<1>2. [[c EXCEPT !.beat = FALSE] EXCEPT !.state = "disconnected"] \in Client
  BY <1>1 DEF Client, ConnectionState
<1> QED
  BY <1>1, <1>2, ScheduleType DEF OnClose

LEMMA FreshType == Fresh \in Client
BY AttemptsAssumption DEF Fresh, Client, ConnectionState

LEMMA CloseCurrentType ==
    ASSUME sock \in [Sockets -> ReadyState]
    PROVE  CloseCurrent \in [Sockets -> ReadyState]
BY DEF CloseCurrent, ReadyState

-----------------------------------------------------------------------------
(* The variables of the page. *)

ClientTypeOK == client \in Client /\ sock \in [Sockets -> ReadyState] /\ page \in Page

ClientAction ==
    \/ SignIn \/ SignOut \/ HideTab \/ ShowTab \/ TimerFires \/ StrayTimerFires
    \/ (\E s \in Sockets : TokenArrives(s) \/ Opens(s) \/ Closes(s))
    \/ TokenFails \/ Reload

LEMMA ClientStepType ==
    ASSUME ClientTypeOK, ClientAction
    PROVE  ClientTypeOK'
<1> USE DEF ClientTypeOK
<1>1. CASE SignIn
  BY <1>1, ConnectType DEF SignIn, Page
<1>2. CASE SignOut
  <2>1. [Stop(client) EXCEPT !.paused = FALSE, !.watching = FALSE] \in Client
    BY StopType DEF Client
  <2> QED
    BY <1>2, <2>1, CloseCurrentType DEF SignOut, Page, Disconnect
<1>3. CASE HideTab
  <2>1. Pause(client) \in Client
    <3>1. (IF PauseStops(client) THEN Stop(client) ELSE client) \in Client
      BY StopType
    <3> QED
      BY <3>1 DEF Pause, Client
  <2> QED
    BY <1>3, <2>1, CloseCurrentType DEF HideTab, Page
<1>4. CASE ShowTab
  <2>1. [client EXCEPT !.paused = FALSE] \in Client
    BY DEF Client
  <2> QED
    BY <1>4, <2>1, ConnectType DEF ShowTab, Resume, Page
<1>5. CASE TimerFires
  <2>1. [client EXCEPT !.timer = FALSE] \in Client
    BY DEF Client
  <2> QED
    BY <1>5, <2>1, ConnectType DEF TimerFires
<1>6. CASE StrayTimerFires
  <2>1. [client EXCEPT !.stray = @ - 1] \in Client
    BY <1>6 DEF Client, StrayTimerFires
  <2> QED
    BY <1>6, <2>1, ConnectType DEF StrayTimerFires
<1>7. CASE \E s \in Sockets : TokenArrives(s) \/ Opens(s) \/ Closes(s)
  <2>1. PICK s \in Sockets : TokenArrives(s) \/ Opens(s) \/ Closes(s)
    BY <1>7
  <2>2. CASE TokenArrives(s)
    <3>1. client.tokens - 1 \in Nat
      BY <2>2 DEF TokenArrives, Client
    <3> QED
      BY <2>2, <3>1 DEF TokenArrives, Client, ReadyState
  <2>3. CASE Opens(s)
    <3>1. 0 \in 0..MaxAttempts
      BY AttemptsAssumption
    <3> QED
      BY <2>3, <3>1 DEF Opens, OnOpen, Client, ReadyState, ConnectionState
  <2>4. CASE Closes(s)
    BY <2>4, OnCloseType DEF Closes, ReadyState
  <2> QED
    BY <2>1, <2>2, <2>3, <2>4
<1>8. CASE TokenFails
  <2>1. [client EXCEPT !.tokens = @ - 1] \in Client
    BY <1>8 DEF Client, TokenFails
  <2> QED
    BY <1>8, <2>1, ScheduleType DEF TokenFails
<1>9. CASE Reload
  BY <1>9, FreshType DEF Reload, Page, ReadyState
<1> QED
  BY <1>1, <1>2, <1>3, <1>4, <1>5, <1>6, <1>7, <1>8, <1>9 DEF ClientAction

\* the page's variables change by one of its actions or not at all
LEMMA PageSteps ==
    ASSUME Next
    PROVE  ClientAction \/ UNCHANGED clientVars
BY DEF Next, ClientAction, clientVars, PageSignsIn, PageSignsOut, TabHides, TabShows, Timers,
       ClientStep, ClientDials, ClientOpens, ClientSeesClose, ServerStep, ServerAccepts,
       ServerAuthenticates, ServerTiresOfAuth, ServerReads, ServerIdleCloses, ServerSeesClose,
       HangUp, ServerBroadcasts, Misfortune, ClientHasNoToken, ServerRestarts, PageReloads,
       ServerRefuses, LinkBreaks

-----------------------------------------------------------------------------
(* The server and the links. *)

ServerTypeOK ==
    /\ endpoint \in [Sockets -> Endpoint]
    /\ connections \in SUBSET Sockets
    /\ subscriptions \in SUBSET Sockets

\* The server's maps name live coroutines only; this is inductive as it stands.
ServerInv == ServerTypeOK /\ NothingInherited

ServerAction ==
    \/ \E s \in Sockets : Accept(s) \/ Register(s) \/ SetSubscriptions(s) \/ Leave(s)
    \/ \E stale \in SUBSET Sockets : Prune(stale)
    \/ Restart

LEMMA ServerSteps ==
    ASSUME ServerTypeOK, up \in SUBSET Sockets, Next
    PROVE  ServerAction \/ UNCHANGED serverVars
<1>1. CASE \E s \in Sockets : ServerStep(s)
  <2>1. PICK s \in Sockets : ServerStep(s)
    BY <1>1
  <2> QED
    BY <2>1 DEF ServerAction, ServerStep, ServerAccepts, ServerAuthenticates, ServerTiresOfAuth,
                ServerReads, ServerIdleCloses, ServerSeesClose, HangUp
<1>2. CASE ServerBroadcasts
  BY <1>2 DEF ServerAction, ServerBroadcasts, ServerTypeOK
<1>3. CASE Misfortune
  BY <1>3 DEF ServerAction, Misfortune, ClientHasNoToken, ServerRestarts, PageReloads,
              ServerRefuses, LinkBreaks, HangUp
<1>4. CASE \E s \in Sockets : ClientStep(s)
  BY <1>4 DEF ClientStep, ClientDials, ClientOpens, ClientSeesClose
<1> QED
  BY <1>1, <1>2, <1>3, <1>4
     DEF Next, PageSignsIn, PageSignsOut, TabHides, TabShows, Timers

LEMMA ServerStepKeeps ==
    ASSUME ServerInv, ServerAction \/ UNCHANGED serverVars
    PROVE  ServerInv'
<1> USE DEF ServerInv, ServerTypeOK, NothingInherited, Endpoint
<1>1. ASSUME NEW s \in Sockets, Accept(s)
      PROVE  ServerInv'
  BY <1>1 DEF Accept
<1>2. ASSUME NEW s \in Sockets, Register(s)
      PROVE  ServerInv'
  BY <1>2 DEF Register
<1>3. ASSUME NEW s \in Sockets, SetSubscriptions(s)
      PROVE  ServerInv'
  BY <1>3 DEF SetSubscriptions
<1>4. ASSUME NEW s \in Sockets, Leave(s)
      PROVE  ServerInv'
  BY <1>4 DEF Leave
<1>5. ASSUME NEW stale \in SUBSET Sockets, Prune(stale)
      PROVE  ServerInv'
  BY <1>5 DEF Prune
<1>6. CASE Restart
  BY <1>6 DEF Restart
<1>7. CASE UNCHANGED serverVars
  BY <1>7 DEF serverVars
<1> QED
  BY <1>1, <1>2, <1>3, <1>4, <1>5, <1>6, <1>7 DEF ServerAction

NetTypeOK ==
    /\ up \in SUBSET Sockets
    /\ inbox \in [Sockets -> SUBSET {"auth", "subscribe"}]
    /\ faults \in 0..MaxFaults
    /\ toggles \in 0..MaxToggles

LEMMA NetStepType ==
    ASSUME NetTypeOK, Next
    PROVE  NetTypeOK'
<1> USE DEF NetTypeOK
<1>1. Fault => faults' \in 0..MaxFaults
  BY BoundsAssumption DEF Fault
<1>2. Toggle => toggles' \in 0..MaxToggles
  BY BoundsAssumption DEF Toggle
<1>3. CASE PageSignsIn
  BY <1>3 DEF PageSignsIn, netVars
<1>4. CASE PageSignsOut
  BY <1>4 DEF PageSignsOut, StillUp
<1>5. CASE TabHides
  BY <1>2, <1>5 DEF TabHides, StillUp
<1>6. CASE TabShows
  BY <1>2, <1>6 DEF TabShows, netVars
<1>7. CASE Timers
  BY <1>7 DEF Timers, netVars
<1>8. ASSUME NEW s \in Sockets, ClientStep(s)
      PROVE  NetTypeOK'
  <2>1. CASE ClientDials(s)
    BY <2>1 DEF ClientDials
  <2>2. CASE ClientOpens(s)
    BY <2>2 DEF ClientOpens
  <2>3. CASE ClientSeesClose(s)
    BY <2>3 DEF ClientSeesClose, netVars
  <2> QED
    BY <1>8, <2>1, <2>2, <2>3 DEF ClientStep
<1>9. ASSUME NEW s \in Sockets, HangUp(s)
      PROVE  (up \in SUBSET Sockets)' /\ (inbox \in [Sockets -> SUBSET {"auth", "subscribe"}])'
  BY <1>9 DEF HangUp
<1>10. ASSUME NEW s \in Sockets, ServerStep(s)
       PROVE  NetTypeOK'
  <2>1. CASE ServerAccepts(s)
    BY <2>1 DEF ServerAccepts, netVars
  <2>2. CASE ServerAuthenticates(s)
    BY <2>2 DEF ServerAuthenticates
  <2>3. CASE ServerTiresOfAuth(s)
    BY <1>9, <2>3 DEF ServerTiresOfAuth
  <2>4. CASE ServerReads(s)
    BY <2>4 DEF ServerReads
  <2>5. CASE ServerIdleCloses(s)
    BY <1>9, <2>5 DEF ServerIdleCloses
  <2>6. CASE ServerSeesClose(s)
    BY <1>9, <2>6 DEF ServerSeesClose
  <2> QED
    BY <1>10, <2>1, <2>2, <2>3, <2>4, <2>5, <2>6 DEF ServerStep
<1>11. CASE ServerBroadcasts
  BY <1>11 DEF ServerBroadcasts, netVars
<1>12. CASE Misfortune
  <2>1. CASE ClientHasNoToken
    BY <1>1, <2>1 DEF ClientHasNoToken, netVars
  <2>2. CASE ServerRestarts
    BY <1>1, <2>2 DEF ServerRestarts
  <2>3. CASE PageReloads
    BY <1>1, <2>3 DEF PageReloads
  <2>4. ASSUME NEW s \in Sockets, ServerRefuses(s)
        PROVE  NetTypeOK'
    BY <1>1, <1>9, <2>4 DEF ServerRefuses
  <2>5. ASSUME NEW s \in Sockets, LinkBreaks(s)
        PROVE  NetTypeOK'
    BY <1>1, <2>5 DEF LinkBreaks
  <2> QED
    BY <1>12, <2>1, <2>2, <2>3, <2>4, <2>5 DEF Misfortune
<1> QED
  BY <1>3, <1>4, <1>5, <1>6, <1>7, <1>8, <1>10, <1>11, <1>12 DEF Next

-----------------------------------------------------------------------------
(* The page never shows a dead end. *)

\* A paused client hears of the tab's return: what a suppressed connect()
\* relies on.
PausedIsAsleep == client.paused => client.watching /\ page.hidden

PageInv == ClientTypeOK /\ NoDeadEnd /\ PausedIsAsleep

LEMMA PageStepKeeps ==
    ASSUME PageInv, ClientAction \/ UNCHANGED clientVars
    PROVE  PageInv'
<1> USE DEF NoDeadEnd, PausedIsAsleep, SocketLeft, TimerLeft, Asleep
<1>0. ClientTypeOK'
  BY ClientStepType DEF PageInv, ClientTypeOK, clientVars
<1>1. client \in Client /\ client' \in Client
  BY <1>0 DEF PageInv, ClientTypeOK
<1>2. CASE SignIn
  BY <1>0, <1>1, <1>2 DEF PageInv, SignIn, Connect, Live, Client, Page, ClientTypeOK
<1>3. CASE SignOut
  BY <1>0, <1>1, <1>3 DEF PageInv, SignOut, Disconnect, Stop, Client, Page, ClientTypeOK
<1>4. CASE HideTab
  <2>1. page'.hidden
    BY <1>4 DEF HideTab, PageInv, ClientTypeOK, Page
  <2>2. CASE client' = client /\ sock' = sock
    BY <1>0, <1>4, <2>1, <2>2 DEF PageInv, HideTab
  <2>3. CASE client.watching /\ ~PauseStops(client)
    <3>1. client' = [client EXCEPT !.paused = TRUE] /\ sock' = sock
      BY <1>4, <2>3 DEF HideTab, Pause
    <3> QED
      BY <1>0, <1>1, <2>1, <2>3, <3>1 DEF PageInv, Client
  <2>4. CASE client.watching /\ PauseStops(client)
    <3>1. client' = [Stop(client) EXCEPT !.paused = TRUE]
      BY <1>4, <2>4 DEF HideTab, Pause
    <3>2. client'.state = "disconnected" /\ client'.watching
      BY <1>1, <2>4, <3>1 DEF Stop, Client
    <3> QED
      BY <1>0, <2>1, <3>2 DEF PageInv
  <2> QED
    BY <1>4, <2>2, <2>3, <2>4 DEF HideTab
<1>5. CASE ShowTab
  BY <1>0, <1>1, <1>5 DEF PageInv, ShowTab, Resume, Connect, Live, Client, Page, ClientTypeOK
<1>6. CASE TimerFires
  BY <1>0, <1>1, <1>6 DEF PageInv, TimerFires, Connect, Live, Client, ClientTypeOK
<1>7. CASE StrayTimerFires
  BY <1>0, <1>1, <1>7 DEF PageInv, StrayTimerFires, Connect, Live, Client, ClientTypeOK
<1>8. ASSUME NEW s \in Sockets, TokenArrives(s)
      PROVE  PageInv'
  BY <1>0, <1>1, <1>8 DEF PageInv, TokenArrives, Client, ClientTypeOK
<1>9. ASSUME NEW s \in Sockets, Opens(s)
      PROVE  PageInv'
  BY <1>0, <1>1, <1>9 DEF PageInv, Opens, OnOpen, Client, ClientTypeOK
<1>10. ASSUME NEW s \in Sockets, Closes(s)
       PROVE  PageInv'
  BY <1>0, <1>1, <1>10, AttemptsAssumption DEF PageInv, Closes, OnClose, ScheduleReconnect, Client, ClientTypeOK
<1>11. CASE TokenFails
  BY <1>0, <1>1, <1>11, AttemptsAssumption DEF PageInv, TokenFails, ScheduleReconnect, Client, ClientTypeOK
<1>12. CASE Reload
  BY <1>0, <1>1, <1>12 DEF PageInv, Reload, Fresh
<1>13. CASE UNCHANGED clientVars
  BY <1>0, <1>13 DEF PageInv, clientVars
<1> QED
  BY <1>2, <1>3, <1>4, <1>5, <1>6, <1>7, <1>8, <1>9, <1>10, <1>11, <1>12, <1>13 DEF ClientAction

-----------------------------------------------------------------------------
(* The theorems. *)

IInv == PageInv /\ ServerInv /\ NetTypeOK

LEMMA InitIInv == Init => IInv
<1> SUFFICES ASSUME Init PROVE IInv
  OBVIOUS
<1>1. PageInv
  BY FreshType DEF Init, ClientInit, PageInv, ClientTypeOK, NoDeadEnd, PausedIsAsleep,
                   Fresh, Page, ReadyState
<1>2. ServerInv
  BY DEF Init, ServerInit, ServerInv, ServerTypeOK, NothingInherited, Endpoint
<1>3. NetTypeOK
  BY BoundsAssumption DEF Init, NetTypeOK
<1> QED
  BY <1>1, <1>2, <1>3 DEF IInv

LEMMA StepIInv == IInv /\ [Next]_vars => IInv'
<1> SUFFICES ASSUME IInv, [Next]_vars PROVE IInv'
  OBVIOUS
<1>1. CASE Next
  BY <1>1, PageSteps, PageStepKeeps, ServerSteps, ServerStepKeeps, NetStepType
     DEF IInv, ServerInv, NetTypeOK
<1>2. CASE UNCHANGED vars
  <2>1. UNCHANGED clientVars /\ UNCHANGED serverVars
    BY <1>2 DEF vars, clientVars, serverVars
  <2>2. PageInv' /\ ServerInv'
    BY <2>1, PageStepKeeps, ServerStepKeeps DEF IInv
  <2> QED
    BY <1>2, <2>2 DEF IInv, NetTypeOK, vars
<1> QED
  BY <1>1, <1>2

LEMMA IInvHolds == Spec => []IInv
BY InitIInv, StepIInv, PTL DEF Spec

\* The variables keep their types: in particular the client never counts more
\* than maxReconnectAttempts.
THEOREM RealtimeTypeCorrect == Spec => []TypeOK
<1>1. IInv => TypeOK
  BY DEF IInv, PageInv, ClientTypeOK, ServerInv, ServerTypeOK, NetTypeOK, TypeOK
<1> QED
  BY <1>1, IInvHolds, PTL

\* Whatever earlier sockets and timers still do, the state the client shows
\* is never a dead end.
THEOREM NoDeadEndEver == Spec => []NoDeadEnd
<1>1. IInv => NoDeadEnd
  BY DEF IInv, PageInv
<1> QED
  BY <1>1, IInvHolds, PTL

\* A recycled id(websocket) meets no registration and no topics of its
\* predecessor.
THEOREM MapsNameTheLiving == Spec => []NothingInherited
<1>1. IInv => NothingInherited
  BY DEF IInv, ServerInv
<1> QED
  BY <1>1, IInvHolds, PTL

\* A page that disconnected with nothing in flight stays without a connection
\* until it is loaded again.
THEOREM QuietForGood == Spec => StaysQuiet
<1>1. ASSUME IInv, Quiet, [Next]_vars
      PROVE  Quiet' \/ PageReloads
  <2> USE DEF Quiet, TimerLeft
  <2>1. ASSUME ClientAction, ~Reload
        PROVE  Quiet'
    <3>1. ~SignIn /\ ~SignOut /\ ~TimerFires /\ ~StrayTimerFires /\ ~TokenFails
      BY <1>1 DEF SignIn, SignOut, TimerFires, StrayTimerFires, TokenFails
    <3>2. CASE HideTab
      BY <1>1, <3>2 DEF HideTab
    <3>3. CASE ShowTab
      BY <1>1, <3>3 DEF ShowTab
    <3>4. ASSUME NEW s \in Sockets, TokenArrives(s) \/ Opens(s)
          PROVE  FALSE
      BY <1>1, <3>4 DEF TokenArrives, Opens
    <3>5. ASSUME NEW s \in Sockets, Closes(s)
          PROVE  Quiet'
      <4>1. client \in Client /\ sock \in [Sockets -> ReadyState]
        BY <1>1 DEF IInv, PageInv, ClientTypeOK
      <4> QED
        BY <1>1, <3>5, <4>1 DEF Closes, OnClose, Client
    <3> QED
      BY <2>1, <3>1, <3>2, <3>3, <3>4, <3>5 DEF ClientAction
  <2>2. CASE UNCHANGED clientVars
    BY <1>1, <2>2 DEF clientVars
  <2>3. ASSUME Reload, Next
        PROVE  PageReloads
    <3>1. page.signed = "out" /\ page'.signed = "no"
      BY <1>1, <2>3 DEF Reload
    <3>2. page' # page
      BY <3>1
    <3>3. ~PageSignsIn /\ ~PageSignsOut
      BY <3>1 DEF PageSignsIn, PageSignsOut, SignIn, SignOut
    <3>4. ~TabHides /\ ~TabShows
      BY <1>1, <3>1 DEF TabHides, TabShows, HideTab, ShowTab, IInv, PageInv, ClientTypeOK, Page
    <3> QED
      BY <2>3, <3>2, <3>3, <3>4
         DEF Next, Timers, TimerFires, StrayTimerFires, ClientStep, ClientDials, TokenArrives,
             ClientOpens, Opens, ClientSeesClose, Closes, ServerStep, ServerAccepts,
             ServerAuthenticates, ServerTiresOfAuth, ServerReads, ServerIdleCloses,
             ServerSeesClose, HangUp, ServerBroadcasts, Misfortune, ClientHasNoToken, TokenFails,
             ServerRestarts, ServerRefuses, LinkBreaks, clientVars
  <2>4. CASE Next
    BY <2>1, <2>2, <2>3, <2>4, PageSteps
  <2>5. CASE UNCHANGED vars
    BY <2>2, <2>5 DEF vars, clientVars
  <2> QED
    BY <1>1, <2>4, <2>5
<1>2. IInv /\ [Next]_vars => [Quiet => Quiet' \/ PageReloads]_vars
  BY <1>1
<1> QED
  BY <1>2, IInvHolds, PTL DEF Spec, StaysQuiet

-----------------------------------------------------------------------------
(* A page whose tab does not come back from being hidden.                  *)

\* A tab shown since its page was loaded has had nothing paused or stopped but
\* by its sign-out; a hidden one has used up the toggle.
ShownInv ==
    /\ page.hidden => toggles > 0
    /\ ~page.hidden =>
         /\ ~client.paused
         /\ page.signed = "no" => client = Fresh /\ \A s \in Sockets : sock[s] = "free"
         /\ page.signed = "yes" => ~client.intentional /\ client.state # "disconnected"

\* What may happen to the page but hiding and showing it.
ActionInView ==
    \/ SignIn \/ SignOut \/ TimerFires \/ StrayTimerFires \/ TokenFails \/ Reload
    \/ \E s \in Sockets : TokenArrives(s) \/ Opens(s) \/ Closes(s)

LEMMA ShownStepKeeps ==
    ASSUME MaxToggles <= 1, IInv, ShownInv, [Next]_vars
    PROVE  ShownInv'
<1> USE DEF ShownInv
<1>1. /\ client \in Client /\ page \in Page /\ sock \in [Sockets -> ReadyState]
      /\ toggles \in 0..MaxToggles /\ MaxToggles \in Nat
  BY BoundsAssumption DEF IInv, PageInv, ClientTypeOK, NetTypeOK
<1>2. ASSUME ActionInView, toggles' = toggles
      PROVE  ShownInv'
  <2>1. CASE SignIn
    BY <1>1, <1>2, <2>1 DEF SignIn, Connect, Fresh, Live, Page, Client
  <2>2. CASE SignOut
    BY <1>1, <1>2, <2>2 DEF SignOut, Disconnect, Stop, Page, Client
  <2>3. CASE TimerFires
    BY <1>1, <1>2, <2>3 DEF TimerFires, Connect, Client, Fresh
  <2>4. CASE StrayTimerFires
    BY <1>1, <1>2, <2>4 DEF StrayTimerFires, Connect, Client, Fresh
  <2>5. ASSUME NEW s \in Sockets, TokenArrives(s)
        PROVE  ShownInv'
    BY <1>1, <1>2, <2>5 DEF TokenArrives, Client, Fresh
  <2>6. ASSUME NEW s \in Sockets, Opens(s)
        PROVE  ShownInv'
    BY <1>1, <1>2, <2>6 DEF Opens, OnOpen, Client
  <2>7. ASSUME NEW s \in Sockets, Closes(s)
        PROVE  ShownInv'
    BY <1>1, <1>2, <2>7 DEF Closes, OnClose, ScheduleReconnect, Client
  <2>8. CASE TokenFails
    BY <1>1, <1>2, <2>8 DEF TokenFails, ScheduleReconnect, Client, Fresh
  <2>9. CASE Reload
    BY <2>9 DEF Reload, Fresh
  <2> QED
    BY <1>2, <2>1, <2>2, <2>3, <2>4, <2>5, <2>6, <2>7, <2>8, <2>9 DEF ActionInView
<1>3. CASE TabHides
  BY <1>1, <1>3 DEF TabHides, HideTab, Toggle, Page
<1>4. CASE TabShows
  BY <1>1, <1>4 DEF TabShows, ShowTab, Toggle
<1>5. CASE Next /\ ~TabHides /\ ~TabShows
  <2>1. toggles' = toggles
    BY <1>5 DEF Next, PageSignsIn, PageSignsOut, Timers, ClientStep, ClientDials, ClientOpens,
       ClientSeesClose, ServerStep, ServerAccepts, ServerAuthenticates, ServerTiresOfAuth,
       ServerReads, ServerIdleCloses, ServerSeesClose, ServerBroadcasts, Misfortune,
       ClientHasNoToken, ServerRestarts, PageReloads, ServerRefuses, LinkBreaks
  <2>2. CASE UNCHANGED clientVars
    BY <2>1, <2>2 DEF clientVars
  <2>3. ActionInView \/ UNCHANGED clientVars
    BY <1>5 DEF Next, ActionInView, clientVars, PageSignsIn, PageSignsOut, Timers, ClientStep,
       ClientDials, ClientOpens, ClientSeesClose, ServerStep, ServerAccepts,
       ServerAuthenticates, ServerTiresOfAuth, ServerReads, ServerIdleCloses, ServerSeesClose,
       HangUp, ServerBroadcasts, Misfortune, ClientHasNoToken, ServerRestarts, PageReloads,
       ServerRefuses, LinkBreaks
  <2> QED
    BY <1>2, <2>1, <2>2, <2>3
<1>6. CASE UNCHANGED vars
  BY <1>6 DEF vars
<1> QED
  BY <1>3, <1>4, <1>5, <1>6

\* "Automatic reconnection with exponential backoff" is kept for a page whose
\* tab does not come back from being hidden, whatever links, tokens and servers
\* do: it takes a tab hidden and shown again, with a close event in between
\* still to come, to leave a signed-in page disconnected for good.
THEOREM NeverAbandonedInOneSitting ==
    ASSUME MaxToggles <= 1 PROVE Spec => []NeverAbandoned
<1>1. Init => ShownInv
  BY DEF Init, ClientInit, Fresh, ShownInv
<1>2. IInv /\ ShownInv /\ [Next]_vars => ShownInv'
  BY ShownStepKeeps
<1>3. ShownInv => NeverAbandoned
  BY DEF ShownInv, NeverAbandoned
<1> QED
  BY <1>1, <1>2, <1>3, IInvHolds, PTL DEF Spec
=============================================================================
