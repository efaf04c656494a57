------------------------------ MODULE Realtime ------------------------------
(***************************************************************************)
(* One page's realtime client and the server it talks to, over links that  *)
(* can break at any moment: either end learns of a broken link, or of the  *)
(* other end's close, in a step of its own.                                *)
(***************************************************************************)
EXTENDS RealtimeClient, RealtimeServer

CONSTANTS MaxFaults,   \* bound: broken links, failed tokens, refused tokens, restarts
          MaxToggles   \* bound: changes of the tab's visibility

ASSUME BoundsAssumption == MaxFaults \in Nat /\ MaxToggles \in Nat

VARIABLES up,      \* the sockets whose link is intact
          inbox,   \* messages of each socket the server has not read
          faults, toggles

netVars == <<up, inbox>>
vars == <<client, sock, page, endpoint, connections, subscriptions, up, inbox, faults, toggles>>

Init ==
    /\ ClientInit
    /\ ServerInit
    /\ up = {}
    /\ inbox = [s \in Sockets |-> {}]
    /\ faults = 0
    /\ toggles = 0

Fault == faults < MaxFaults /\ faults' = faults + 1
Toggle == toggles < MaxToggles /\ toggles' = toggles + 1

\* a close by the page reaches the other end through the link
StillUp == {s \in up : sock'[s] \in {"connecting", "open"}}

-----------------------------------------------------------------------------
(* The page. *)

PageSignsIn == SignIn /\ UNCHANGED <<serverVars, netVars, faults, toggles>>

PageSignsOut == SignOut /\ up' = StillUp /\ UNCHANGED <<serverVars, inbox, faults, toggles>>

TabHides == HideTab /\ up' = StillUp /\ Toggle /\ UNCHANGED <<serverVars, inbox, faults>>

TabShows == ShowTab /\ Toggle /\ UNCHANGED <<serverVars, netVars, faults>>

PageReloads == Reload /\ up' = {} /\ Fault /\ UNCHANGED <<serverVars, inbox, toggles>>

Timers == (TimerFires \/ StrayTimerFires) /\ UNCHANGED <<serverVars, netVars, faults, toggles>>

\* a socket of an identity both ends have finished with
ClientDials(s) ==
    /\ endpoint[s] = "none"
    /\ TokenArrives(s)
    /\ up' = up \cup {s}
    /\ UNCHANGED <<serverVars, inbox, faults, toggles>>

ClientHasNoToken == TokenFails /\ Fault /\ UNCHANGED <<serverVars, netVars, toggles>>

\* onopen sends through this.ws, whichever socket opened
ClientOpens(s) ==
    /\ s \in up
    /\ endpoint[s] = "auth"
    /\ Opens(s)
    /\ inbox' = [w \in Sockets |-> IF w = client.ws /\ sock'[w] = "open" /\ w \in up
                                   THEN inbox[w] \cup {"auth", "subscribe"} ELSE inbox[w]]
    /\ UNCHANGED <<serverVars, up, faults, toggles>>

ClientSeesClose(s) ==
    /\ s \notin up
    /\ Closes(s)
    /\ UNCHANGED <<serverVars, netVars, faults, toggles>>

-----------------------------------------------------------------------------
(* The server. *)

ServerAccepts(s) ==
    /\ s \in up
    /\ sock[s] = "connecting"
    /\ Accept(s)
    /\ UNCHANGED <<clientVars, netVars, faults, toggles>>

ServerAuthenticates(s) ==
    /\ "auth" \in inbox[s]
    /\ Register(s)
    /\ inbox' = [inbox EXCEPT ![s] = @ \ {"auth"}]
    /\ UNCHANGED <<clientVars, up, faults, toggles>>

\* websocket.close() or the end of the coroutine: nothing more is read
HangUp(s) ==
    /\ Leave(s)
    /\ up' = up \ {s}
    /\ inbox' = [inbox EXCEPT ![s] = {}]
    /\ UNCHANGED clientVars

\* the token is expired or revoked
ServerRefuses(s) ==
    /\ endpoint[s] = "auth"
    /\ "auth" \in inbox[s]
    /\ HangUp(s)
    /\ Fault
    /\ UNCHANGED toggles

\* ten seconds without a message; one that comes later than that is a broken link
ServerTiresOfAuth(s) ==
    /\ endpoint[s] = "auth"
    /\ sock[s] = "open"
    /\ inbox[s] = {}
    /\ HangUp(s)
    /\ UNCHANGED <<faults, toggles>>

\* a subscribe message, or a second auth message, which the loop ignores
ServerReads(s) ==
    /\ endpoint[s] = "live"
    /\ \E msg \in inbox[s] :
         /\ inbox' = [inbox EXCEPT ![s] = @ \ {msg}]
         /\ IF msg = "subscribe" THEN SetSubscriptions(s) ELSE UNCHANGED serverVars
    /\ UNCHANGED <<clientVars, up, faults, toggles>>

Pinged(s) == client.beat /\ client.ws = s /\ sock[s] = "open"

\* sixty seconds without a message; a reconnect timer runs at most thirty
ServerIdleCloses(s) ==
    /\ endpoint[s] = "live"
    /\ s \in up
    /\ inbox[s] = {}
    /\ ~Pinged(s)
    /\ s = client.ws => ~client.timer /\ client.stray = 0
    /\ HangUp(s)
    /\ UNCHANGED <<faults, toggles>>

\* receive_text raises WebSocketDisconnect
ServerSeesClose(s) ==
    /\ s \notin up
    /\ HangUp(s)
    /\ UNCHANGED <<faults, toggles>>

\* a broadcast whose sends to some broken links raise
ServerBroadcasts ==
    /\ connections \ up # {}
    /\ Prune(connections \ up)
    /\ UNCHANGED <<clientVars, netVars, faults, toggles>>

ServerRestarts ==
    /\ \E s \in Sockets : endpoint[s] # "none"
    /\ Restart
    /\ up' = {s \in up : endpoint[s] = "none"}
    /\ inbox' = [s \in Sockets |-> {}]
    /\ Fault
    /\ UNCHANGED <<clientVars, toggles>>

LinkBreaks(s) ==
    /\ s \in up
    /\ up' = up \ {s}
    /\ Fault
    /\ UNCHANGED <<clientVars, serverVars, inbox, toggles>>

-----------------------------------------------------------------------------

ClientStep(s) == ClientDials(s) \/ ClientOpens(s) \/ ClientSeesClose(s)

ServerStep(s) ==
    \/ ServerAccepts(s) \/ ServerAuthenticates(s) \/ ServerTiresOfAuth(s)
    \/ ServerReads(s) \/ ServerIdleCloses(s) \/ ServerSeesClose(s)

Misfortune ==
    \/ ClientHasNoToken \/ ServerRestarts \/ PageReloads
    \/ \E s \in Sockets : ServerRefuses(s) \/ LinkBreaks(s)

Next ==
    \/ PageSignsIn \/ PageSignsOut \/ TabHides \/ TabShows \/ Timers
    \/ \E s \in Sockets : ClientStep(s) \/ ServerStep(s)
    \/ ServerBroadcasts
    \/ Misfortune

Spec == Init /\ [][Next]_vars

\* Timers fire, requests for a token end, sockets open or close, and the
\* server reads what it was sent; nobody has to toggle a tab, to sign in or
\* out, or to broadcast
Fairness ==
    /\ WF_vars(TimerFires /\ Timers)
    /\ WF_vars(StrayTimerFires /\ Timers)
    /\ WF_vars(\E s \in Sockets : ClientDials(s))
    /\ \A s \in Sockets :
         /\ WF_vars(ClientOpens(s)) /\ WF_vars(ClientSeesClose(s))
         /\ WF_vars(ServerAccepts(s)) /\ WF_vars(ServerAuthenticates(s))
         /\ WF_vars(ServerTiresOfAuth(s)) /\ WF_vars(ServerReads(s))
         /\ WF_vars(ServerIdleCloses(s)) /\ WF_vars(ServerSeesClose(s))

FairSpec == Spec /\ Fairness

-----------------------------------------------------------------------------
(* Properties. *)

\* Every field has a value the program can give it.
TypeOK ==
    /\ client \in Client
    /\ sock \in [Sockets -> ReadyState]
    /\ page \in Page
    /\ endpoint \in [Sockets -> Endpoint]
    /\ connections \in SUBSET Sockets
    /\ subscriptions \in SUBSET Sockets
    /\ up \in SUBSET Sockets
    /\ inbox \in [Sockets -> SUBSET {"auth", "subscribe"}]
    /\ faults \in 0..MaxFaults
    /\ toggles \in 0..MaxToggles

SocketLeft == \E s \in Sockets : sock[s] # "free"
TimerLeft == client.timer \/ client.stray > 0

\* paused by the hidden tab, which will resume it
Asleep == client.paused /\ client.watching /\ page.hidden

\* What the status indicator shows is never a dead end: "connecting" and
\* "reconnecting" have a request, a timer or a socket that will still report,
\* "connected" has a heartbeat and a socket, and "failed" has used up every
\* attempt (setState in connect, onclose and scheduleReconnect), whatever
\* sockets and timers of earlier connections are still around.
NoDeadEnd ==
    /\ client.state = "connecting" => client.tokens > 0 \/ SocketLeft
    /\ client.state = "reconnecting" => TimerLeft \/ SocketLeft \/ Asleep
    /\ client.state = "connected" => client.beat /\ SocketLeft
    /\ client.state = "failed" => client.attempts = MaxAttempts

\* The maps keyed by id(websocket) hold only sockets whose coroutine is still
\* in its loop, so that a later socket that gets the same id starts with no
\* registration and no topics of a dead one, also when broadcast() pruned the
\* entry and a buffered subscribe message put the topics back.
NothingInherited == \A s \in connections \cup subscriptions : endpoint[s] = "live"

\* The page has no way left to connect: what disconnect() leaves behind when
\* nothing was in flight (in-flight work makes it noisy again).
Quiet ==
    /\ page.signed = "out"
    /\ client.intentional /\ client.tokens = 0 /\ ~TimerLeft /\ ~client.watching
    /\ \A s \in Sockets : sock[s] \in {"free", "closing"}

\* disconnect() "No reconnect will be attempted", for a client that had
\* nothing in flight: late close events of its sockets do not wake it.
StaysQuiet == [][Quiet => Quiet' \/ PageReloads]_vars

\* one socket, registered and pinged
Online == \E s \in Sockets : Pinged(s) /\ connections = {s}

Offline ==
    /\ connections = {} /\ client.tokens = 0 /\ ~TimerLeft
    /\ client.state \in {"failed", "disconnected"} \/ Asleep

\* Once links hold and the tab is left alone, second sockets, late close
\* events and stray timers die out: the page comes to rest with exactly one
\* socket registered on the server, the one it pings, or with none at all and
\* an indicator that says so.
Settles == <>[](Online \/ Offline)

\* "Automatic reconnection with exponential backoff": a signed-in page whose
\* tab is visible and that gave up no attempt is never left disconnected
\* with nothing on the way.
NeverAbandoned ==
    page.signed = "yes" /\ ~page.hidden /\ client.state = "disconnected"
        => client.tokens > 0 \/ TimerLeft \/ SocketLeft
=============================================================================
