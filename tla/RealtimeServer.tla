--------------------------- MODULE RealtimeServer ---------------------------
(***************************************************************************)
(* The server's side of a WebSocket: one coroutine of websocket_events per *)
(* connection (app/kernel/events/router.py), the ConnectionManager's map   *)
(* and the SubscriptionManager's (app/kernel/events/realtime.py), both     *)
(* keyed by id(websocket).  No critical section of the manager's lock      *)
(* contains an await, so each is one step.                                 *)
(***************************************************************************)
EXTENDS RealtimeSockets

VARIABLES endpoint,       \* where the coroutine of each socket is
          connections,    \* the ConnectionManager's map
          subscriptions   \* the SubscriptionManager's

serverVars == <<endpoint, connections, subscriptions>>

\* "auth": accepted, waiting for the first message; "live": in the loop
Endpoint == {"none", "auth", "live"}

ServerInit ==
    /\ endpoint = [s \in Sockets |-> "none"]
    /\ connections = {}
    /\ subscriptions = {}

Accept(s) ==
    /\ endpoint[s] = "none"
    /\ endpoint' = [endpoint EXCEPT ![s] = "auth"]
    /\ UNCHANGED <<connections, subscriptions>>

\* a valid first message: registered in the map, the loop begins
Register(s) ==
    /\ endpoint[s] = "auth"
    /\ endpoint' = [endpoint EXCEPT ![s] = "live"]
    /\ connections' = connections \cup {s}
    /\ UNCHANGED subscriptions

SetSubscriptions(s) ==
    /\ endpoint[s] = "live"
    /\ subscriptions' = subscriptions \cup {s}
    /\ UNCHANGED <<endpoint, connections>>

\* mutant: broadcast() is trusted to have removed the topics
LeaveTopics(s) ==
    /\ endpoint[s] # "none"
    /\ endpoint' = [endpoint EXCEPT ![s] = "none"]
    /\ connections' = connections \ {s}
    /\ subscriptions' = IF s \in connections THEN subscriptions \ {s} ELSE subscriptions

\* the finally clause: only what was authenticated is taken out of the maps
Leave(s) ==
    /\ endpoint[s] # "none"
    /\ endpoint' = [endpoint EXCEPT ![s] = "none"]
    /\ IF endpoint[s] = "live"
       THEN /\ subscriptions' = subscriptions \ {s}
            /\ connections' = connections \ {s}
       ELSE UNCHANGED <<connections, subscriptions>>

\* broadcast(): the sends that raised are taken out, whatever their
\* coroutine is doing
Prune(stale) ==
    /\ connections' = connections \ stale
    /\ subscriptions' = subscriptions \ (stale \cap connections)
    /\ UNCHANGED endpoint

\* the process ends; its successor starts with empty maps
Restart ==
    /\ endpoint' = [s \in Sockets |-> "none"]
    /\ connections' = {}
    /\ subscriptions' = {}
=============================================================================
