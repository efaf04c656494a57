-------------------------- MODULE RealtimeSockets ---------------------------
(***************************************************************************)
(* The identities both ends give a WebSocket: the WebSocket object in the  *)
(* page (frontend/lib/realtime.ts) and id(websocket) in the server's maps  *)
(* (app/kernel/events/realtime.py).  An identity is used again once both   *)
(* ends have dropped the socket.                                           *)
(***************************************************************************)
CONSTANTS Sockets,
          NoSocket   \* ws = null

ASSUME SocketsAssumption == NoSocket \notin Sockets
=============================================================================
