--------------------------- MODULE RealtimeClient ---------------------------
(***************************************************************************)
(* The browser's realtime client (frontend/lib/realtime.ts): the one       *)
(* RealtimeClient object of a page, the WebSockets it opened, and the page *)
(* events that call its methods (sign-in, sign-out, tab visibility).       *)
(*                                                                         *)
(* Every method runs to completion between two turns of the event loop,    *)
(* except connect(), which waits for a token in the middle; a method is    *)
(* therefore an operator from the object's fields to their new values, and *)
(* connect() two of them.  The object never waits for a socket it replaced *)
(* or closed: the close event of an old socket runs the same onclose as    *)
(* that of the current one, which is what makes this component hard.       *)
(***************************************************************************)
EXTENDS Naturals, RealtimeSockets

CONSTANT MaxAttempts   \* maxReconnectAttempts, 10 in the code

ASSUME AttemptsAssumption == MaxAttempts \in Nat

VARIABLES client,  \* the fields of the page's RealtimeClient
          sock,    \* readyState of every socket, as the page sees it
          page     \* [signed, hidden]: AuthProvider's session, document.hidden

clientVars == <<client, sock, page>>

ConnectionState == {"disconnected", "connecting", "connected", "reconnecting", "failed"}

\* "free" stands for a socket not created yet and for one whose onclose ran
ReadyState == {"free", "connecting", "open", "closing"}

\* tokens: connect() calls waiting for getToken; timer: the pending timer
\* reconnectTimer refers to; stray: pending timers it no longer refers to;
\* beat: heartbeatTimer is set; watching: the visibility handler is bound
Client == [state : ConnectionState, ws : Sockets \cup {NoSocket}, attempts : 0..MaxAttempts,
           tokens : Nat, timer : BOOLEAN, stray : Nat, beat : BOOLEAN,
           intentional : BOOLEAN, paused : BOOLEAN, watching : BOOLEAN]

Page == [signed : {"no", "yes", "out"}, hidden : BOOLEAN]

Fresh == [state |-> "disconnected", ws |-> NoSocket, attempts |-> 0, tokens |-> 0,
          timer |-> FALSE, stray |-> 0, beat |-> FALSE,
          intentional |-> FALSE, paused |-> FALSE, watching |-> FALSE]

-----------------------------------------------------------------------------
(* The methods. *)

Live(s) == s # NoSocket /\ sock[s] \in {"connecting", "open"}

\* connect() up to the await
Connect(c) ==
    IF c.paused \/ Live(c.ws) THEN c
    ELSE [c EXCEPT !.intentional = FALSE, !.state = "connecting", !.tokens = @ + 1]

\* mutant: no limit
ScheduleAlways(c) == [c EXCEPT !.state = "reconnecting", !.attempts = @ + 1,
                               !.stray = IF c.timer THEN @ + 1 ELSE @, !.timer = TRUE]

\* the new timer takes the field of one that may still be pending
ScheduleReconnect(c) ==
    IF c.attempts >= MaxAttempts
    THEN [c EXCEPT !.state = "failed"]
    ELSE [c EXCEPT !.state = "reconnecting", !.attempts = @ + 1,
                   !.stray = IF c.timer THEN @ + 1 ELSE @, !.timer = TRUE]

\* what pause() and disconnect() have in common
Stop(c) == [c EXCEPT !.intentional = TRUE, !.beat = FALSE, !.timer = FALSE,
                     !.ws = NoSocket, !.state = "disconnected"]

\* ws.close() on the current socket
CloseCurrent == [s \in Sockets |-> IF s = client.ws /\ Live(s) THEN "closing" ELSE sock[s]]

Disconnect(c) == [Stop(c) EXCEPT !.paused = FALSE, !.watching = FALSE]

PauseStops(c) == ~c.paused /\ c.state \in {"connected", "connecting", "reconnecting"}

Pause(c) == [(IF PauseStops(c) THEN Stop(c) ELSE c) EXCEPT !.paused = TRUE]

Resume(c) == IF c.paused THEN Connect([c EXCEPT !.paused = FALSE]) ELSE c

\* mutant: no heartbeat
OpenSilently(c) == [c EXCEPT !.attempts = 0, !.state = "connected", !.watching = TRUE]

OnOpen(c) == [c EXCEPT !.attempts = 0, !.state = "connected", !.beat = TRUE, !.watching = TRUE]

\* mutant: only the hidden tab counts as a reason not to reconnect
CloseAndRetry(c) ==
    IF c.paused THEN [c EXCEPT !.beat = FALSE, !.state = "disconnected"]
    ELSE ScheduleReconnect([c EXCEPT !.beat = FALSE])

\* mutant: pause() and disconnect() are trusted to have set the state
CloseUnreported(c) ==
    IF c.intentional \/ c.paused THEN [c EXCEPT !.beat = FALSE]
    ELSE ScheduleReconnect([c EXCEPT !.beat = FALSE])

OnClose(c) ==
    LET stopped == [c EXCEPT !.beat = FALSE]
    IN  IF c.intentional \/ c.paused
        THEN [stopped EXCEPT !.state = "disconnected"]
        ELSE ScheduleReconnect(stopped)

-----------------------------------------------------------------------------
(* What calls them. *)

ClientInit ==
    /\ client = Fresh
    /\ sock = [s \in Sockets |-> "free"]
    /\ page = [signed |-> "no", hidden |-> FALSE]

\* AuthProvider's effect: the first render with a user and a token
SignIn ==
    /\ page.signed = "no"
    /\ page' = [page EXCEPT !.signed = "yes"]
    /\ client' = Connect(client)
    /\ UNCHANGED sock

\* a logout the server forces: the page stays
SignOut ==
    /\ page.signed = "yes"
    /\ page' = [page EXCEPT !.signed = "out"]
    /\ client' = Disconnect(client)
    /\ sock' = CloseCurrent

HideTab ==
    /\ ~page.hidden
    /\ page' = [page EXCEPT !.hidden = TRUE]
    /\ IF client.watching
       THEN /\ client' = Pause(client)
            /\ sock' = IF PauseStops(client) THEN CloseCurrent ELSE sock
       ELSE UNCHANGED <<client, sock>>

ShowTab ==
    /\ page.hidden
    /\ page' = [page EXCEPT !.hidden = FALSE]
    /\ client' = IF client.watching THEN Resume(client) ELSE client
    /\ UNCHANGED sock

TimerFires ==
    /\ client.timer
    /\ client' = Connect([client EXCEPT !.timer = FALSE])
    /\ UNCHANGED <<sock, page>>

StrayTimerFires ==
    /\ client.stray > 0
    /\ client' = Connect([client EXCEPT !.stray = @ - 1])
    /\ UNCHANGED <<sock, page>>

\* the rest of connect(): nothing is looked at again after the await
TokenArrives(s) ==
    /\ client.tokens > 0
    /\ sock[s] = "free"
    /\ client' = [client EXCEPT !.tokens = @ - 1, !.ws = s]
    /\ sock' = [sock EXCEPT ![s] = "connecting"]
    /\ UNCHANGED page

TokenFails ==
    /\ client.tokens > 0
    /\ client' = ScheduleReconnect([client EXCEPT !.tokens = @ - 1])
    /\ UNCHANGED <<sock, page>>

Opens(s) ==
    /\ sock[s] = "connecting"
    /\ client' = OnOpen(client)
    /\ sock' = [sock EXCEPT ![s] = "open"]
    /\ UNCHANGED page

Closes(s) ==
    /\ sock[s] # "free"
    /\ client' = OnClose(client)
    /\ sock' = [sock EXCEPT ![s] = "free"]
    /\ UNCHANGED page

\* the page is loaded again
Reload ==
    /\ page.signed # "no"
    /\ client' = Fresh
    /\ sock' = [s \in Sockets |-> "free"]
    /\ page' = [signed |-> "no", hidden |-> FALSE]
=============================================================================
