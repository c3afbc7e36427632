------------------------------- MODULE Browser ------------------------------
(***************************************************************************)
(* The browser's live connection (useLiveMetrics): the summary request,    *)
(* the one socket of the page, its reconnection, the online and offline    *)
(* events, the retry button and unmounting.                                *)
(*                                                                         *)
(* A retry runs the effect's cleanup and the effect again, but refs are    *)
(* shared: a summary request of the old effect that is still pending       *)
(* connects when it is answered, like the new one's.  Which effect a       *)
(* request or a timer belongs to makes no difference, so requests are      *)
(* counted.  What the messages of a socket do is LiveRoom's page.          *)
(***************************************************************************)
EXTENDS Naturals

CONSTANTS
  MaxSockets,   \* bound: sockets the page makes
  MaxRequests,  \* bound: summary requests pending at once
  MaxTroubles   \* bound: failed requests, broken sockets, offline periods,
                \* retries

VARIABLES
  online,     \* navigator.onLine
  event,      \* the online or offline event not yet dispatched
  mounted,    \* ~closedRef
  requests,   \* summary requests pending
  timer,      \* retryTimerRef
  sockets,    \* the state of each socket; those not yet made are "new"
  current,    \* socketRef, NoSocket when null
  transport,  \* the transport state the page shows
  troubles    \* how much of the bound is used

browserVars == <<online, event, mounted, requests, timer, sockets, current, transport, troubles>>

NoSocket == 0
SocketIds == 1 .. MaxSockets
NoEvent == "none"

BrowserInit ==
  /\ online \in BOOLEAN /\ event = NoEvent /\ mounted = TRUE
  /\ requests = (IF online THEN 1 ELSE 0)
  /\ timer = FALSE
  /\ sockets = [s \in SocketIds |-> "new"] /\ current = NoSocket
  /\ transport = (IF online THEN "loading" ELSE "offline")
  /\ troubles = 0

Trouble == troubles < MaxTroubles /\ troubles' = troubles + 1

(* Mutant: the previous socket is dropped without being closed. *)
DisplacedOpen(s) == "open"

(* close() of a socket; its close event comes later. *)
Displaced(s) == IF sockets[s] \in {"connecting", "open"} THEN "closing" ELSE sockets[s]

Closing == [s \in SocketIds |-> IF s = current THEN Displaced(s) ELSE sockets[s]]

Fresh == CHOOSE s \in SocketIds : sockets[s] = "new"
CanMake == \E s \in SocketIds : sockets[s] = "new"

(* connect(), after the transport state was set to before. *)
ConnectFrom(before) ==
  IF ~mounted \/ ~online
  THEN /\ transport' = "offline"
       /\ UNCHANGED <<timer, sockets, current>>
  ELSE /\ CanMake
       /\ timer' = FALSE
       /\ sockets' = [Closing EXCEPT ![Fresh] = "connecting"]
       /\ current' = Fresh
       /\ transport' = CASE before = "error" -> "error"
                         [] before = "loading" -> "connecting"
                         [] OTHER -> "reconnecting"

(* The summary request is answered, or fails, and the page connects. *)
Hydrated ==
  /\ requests > 0 /\ requests' = requests - 1
  /\ ConnectFrom(transport)
  /\ UNCHANGED <<online, event, mounted, troubles>>

HydrateFails ==
  /\ requests > 0 /\ requests' = requests - 1
  /\ Trouble
  /\ ConnectFrom(IF online THEN "error" ELSE "offline")
  /\ UNCHANGED <<online, event, mounted>>

(* The reconnect delay is over. *)
TimerFires ==
  /\ timer
  /\ IF mounted /\ online THEN ConnectFrom(transport)
     ELSE transport' = "offline" /\ timer' = FALSE /\ UNCHANGED <<sockets, current>>
  /\ UNCHANGED <<online, event, mounted, requests, troubles>>

(* The open event of a socket. *)
Opened(s) ==
  /\ sockets[s] = "connecting" /\ online
  /\ sockets' = [sockets EXCEPT ![s] = "open"]
  /\ transport' = IF current = s THEN "live" ELSE transport
  /\ UNCHANGED <<online, event, mounted, requests, timer, current, troubles>>

(* Mutant: the page does not reconnect by itself. *)
RescheduledNever == FALSE

(* scheduleReconnect, and whether it starts the timer. *)
Rescheduled == mounted /\ online /\ ~timer

(* The close event of a socket: only the current one's matters. *)
CloseEvent(s) ==
  /\ sockets' = [sockets EXCEPT ![s] = "closed"]
  /\ IF current = s
     THEN /\ current' = NoSocket
          /\ timer' = (timer \/ Rescheduled)
          /\ transport' = IF Rescheduled THEN "reconnecting" ELSE transport
     ELSE UNCHANGED <<current, timer, transport>>
  /\ UNCHANGED <<online, event, mounted, requests>>

CloseCompletes(s) == sockets[s] = "closing" /\ CloseEvent(s) /\ UNCHANGED troubles

(* The server closes the socket, or the network loses it. *)
Broken(s) == sockets[s] \in {"connecting", "open"} /\ Trouble /\ CloseEvent(s)

(* The network goes or comes; the event is dispatched a little later. *)
Switch ==
  /\ event = NoEvent
  /\ online' = ~online
  /\ event' = IF online THEN "offline" ELSE "online"
  /\ IF online THEN Trouble ELSE UNCHANGED troubles
  /\ UNCHANGED <<mounted, requests, timer, sockets, current, transport>>

HandleOffline ==
  /\ event = "offline" /\ event' = NoEvent
  /\ IF mounted THEN transport' = "offline" /\ sockets' = Closing
                ELSE UNCHANGED <<transport, sockets>>
  /\ UNCHANGED <<online, mounted, requests, timer, current, troubles>>

HandleOnline ==
  /\ event = "online" /\ event' = NoEvent
  /\ IF mounted
     THEN /\ requests < MaxRequests /\ requests' = requests + 1
          /\ timer' = FALSE /\ transport' = "reconnecting"
     ELSE UNCHANGED <<requests, timer, transport>>
  /\ UNCHANGED <<online, mounted, sockets, current, troubles>>

(* The effect's cleanup. *)
CleanUp ==
  /\ timer' = FALSE
  /\ sockets' = Closing
  /\ current' = NoSocket

(* The retry button; offline, the new effect's request ends at once. *)
Retry ==
  /\ mounted /\ requests < MaxRequests
  /\ Trouble
  /\ CleanUp
  /\ IF online THEN /\ requests' = requests + 1
                    /\ transport' = IF transport = "reconnecting" THEN transport ELSE "loading"
               ELSE transport' = "offline" /\ UNCHANGED requests
  /\ UNCHANGED <<online, event, mounted>>

Unmount ==
  /\ mounted /\ mounted' = FALSE
  /\ CleanUp
  /\ UNCHANGED <<online, event, requests, transport, troubles>>

BrowserNext ==
  \/ Hydrated \/ HydrateFails \/ TimerFires
  \/ Switch \/ HandleOffline \/ HandleOnline \/ Retry \/ Unmount
  \/ \E s \in SocketIds : Opened(s) \/ CloseCompletes(s) \/ Broken(s)

(* Requests end, timers fire, events are dispatched, sockets open or fail. *)
BrowserGoesOn ==
  \/ Hydrated \/ TimerFires \/ HandleOffline \/ HandleOnline
  \/ \E s \in SocketIds : Opened(s) \/ CloseCompletes(s)

BrowserFair == WF_browserVars(BrowserGoesOn)

BrowserSpec == BrowserInit /\ [][BrowserNext]_browserVars /\ BrowserFair

-----------------------------------------------------------------------------
(* Properties. *)

(* Whatever effects, retries, late answers and timers run into each other, *)
(* the page has one socket: every other one it made is closed or being     *)
(* closed, none is left when it is unmounted, no timer is waiting to       *)
(* replace it, and the page says live only of an open one.                 *)
OneSocket ==
  /\ \A s \in SocketIds : sockets[s] \in {"connecting", "open"} => s = current
  /\ current # NoSocket => mounted /\ ~timer
  /\ mounted /\ transport = "live" /\ event # "offline" =>
       current # NoSocket /\ sockets[current] = "open"

(* A page that stays online is live again after any trouble. *)
Recovers == (mounted /\ online) ~> (transport = "live" \/ ~mounted \/ ~online)
=============================================================================
