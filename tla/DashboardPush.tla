----------------------------- MODULE DashboardPush -----------------------------
(***************************************************************************)
(* One dashboard page and what the coordinator pushes to it: the page's    *)
(* WebSocket client (static/js/ws-client.js), the endpoint of each of its  *)
(* connections (dashboard_ws_endpoint.py), the hub and its broadcast       *)
(* (dashboard_ws.py), and who broadcasts: handlers, through event_bus.py,  *)
(* and the notification manager, which stores first (notifications.py,     *)
(* storage/notifications.py, notification_router.py).                      *)
(*                                                                         *)
(* A browser tells of the end of a socket some time after close(), and the *)
(* endpoint learns of it on its own; broadcast_event awaits each send      *)
(* within a loop over the dictionary of clients, and such a loop raises    *)
(* when the dictionary has changed its size.  Projects are left out.       *)
(*                                                                         *)
(* The shipped program registers /ws/{agent_id} before /ws/dashboard       *)
(* (main.py:252-254), and the first route that matches is taken: there,    *)
(* Reached = {"agents"}, the page's socket is that of an agent "dashboard" *)
(* nobody has registered, and is refused.                                  *)
(***************************************************************************)
EXTENDS Naturals, Sequences, SequencesExt, Lists

CONSTANTS
    Links,        \* connections of the page, used again when both sides are through with one
    NoLink,
    Publishers,   \* coroutines that broadcast
    Notices,
    Reached,      \* endpoints that /ws/dashboard leads to
    Wishes,       \* channels the page's code may subscribe to or unsubscribe from
    MaxQueue,     \* MAX_QUEUE
    MaxConnects,  \* calls of connect
    MaxFaults,    \* connections that are lost
    MaxChanges    \* calls of subscribe and unsubscribe

Defaults == {"events", "notifications"}
Channels == Defaults \cup {"pipelines"}

Events == {"event", "pipeline"}

ASSUME PushAssumption ==
    /\ Reached \subseteq {"agents", "dashboard"} /\ Wishes \subseteq Channels /\ NoLink \notin Links /\ Events \cap Notices = {}
    /\ MaxQueue \in Nat /\ MaxConnects \in Nat /\ MaxFaults \in Nat /\ MaxChanges \in Nat

VARIABLES
    page,       \* the variables of ws-client.js
    link,       \* [Links -> ready: readyState; served: the endpoint; up: messages to it; subs]
    clients,    \* _clients, in the order of the dictionary
    publisher,  \* [Publishers -> where the coroutine is in broadcast_event]
    notice,     \* [Notices -> "none", "unread", "read"]: the table
    dropped,    \* history: the page's queue was full
    connects, faults, changes

pushVars == <<page, link, clients, publisher, notice, dropped, connects, faults, changes>>

Unused == [ready |-> "closed", served |-> "over", up |-> <<>>, subs |-> {}]
Dialled == [Unused EXCEPT !.ready = "connecting", !.served = "none"]
Quiet == [at |-> "idle", what |-> "event", seen |-> {}, size |-> 0, stale |-> {}]

PushInit ==
    /\ page = [socket |-> NoLink, timer |-> FALSE, token |-> "none", status |-> "offline",
               subscribed |-> {}, queue |-> <<>>]
    /\ link = [l \in Links |-> Unused]
    /\ clients = <<>>
    /\ publisher = [p \in Publishers |-> Quiet]
    /\ notice = [n \in Notices |-> "none"]
    /\ dropped = FALSE
    /\ connects = 0 /\ faults = 0 /\ changes = 0

-----------------------------------------------------------------------------
(* ws-client.js.                                                             *)

Closing(r) == IF r.ready \in {"connecting", "open"} THEN [r EXCEPT !.ready = "closing"] ELSE r

\* Nobody remembers the connection: the next one may have its name.
Free(l) ==
    /\ link[l].ready = "closed" /\ link[l].served \in {"none", "over"} /\ l \notin ToSet(clients)
    /\ \A p \in Publishers : l \notin publisher[p].seen

\* connect: the socket there is gets closed, whatever state it is in, and a new one is opened.
Dial(token, timer) ==
    \E l \in Links :
        /\ Free(l)
        /\ link' = [k \in Links |-> IF k = l THEN Dialled
                                    ELSE IF k = page.socket THEN Closing(link[k]) ELSE link[k]]
        /\ page' = [page EXCEPT !.socket = l, !.token = token, !.timer = timer, !.status = "reconnecting"]

ConnectPage ==
    /\ connects < MaxConnects
    /\ connects' = connects + 1
    /\ Dial("valid", page.timer)
    /\ UNCHANGED <<clients, publisher, notice, dropped, faults, changes>>

TimerFires ==
    /\ page.timer
    /\ \/ page.token # "none" /\ Dial(page.token, FALSE)
       \/ page.token = "none" /\ page' = [page EXCEPT !.timer = FALSE] /\ UNCHANGED link
    /\ UNCHANGED <<clients, publisher, notice, dropped, connects, faults, changes>>

Subscription == IF page.subscribed = {} THEN <<>> ELSE <<<<"SUBSCRIBE", page.subscribed>>>>

\* onopen: the subscriptions, then the queue.
OnOpen(l) ==
    /\ link[l].ready = "connecting" /\ link[l].served \in {"greet", "serving"}
    /\ link' = [link EXCEPT ![l].ready = "open", ![l].up = @ \o Subscription \o page.queue]
    /\ page' = [page EXCEPT !.status = "connected", !.queue = <<>>]
    /\ UNCHANGED <<clients, publisher, notice, dropped, connects, faults, changes>>

\* MUTANT of OnClose: only a connection that was there is made again.
OnCloseOnce(l) ==
    /\ link[l].ready = "closing"
    /\ link' = [link EXCEPT ![l].ready = "closed"]
    /\ page' = [page EXCEPT !.timer = @ \/ page.status = "connected", !.status = "offline"]
    /\ UNCHANGED <<clients, publisher, notice, dropped, connects, faults, changes>>

\* onclose, of whichever socket: scheduleReconnect, unless it is scheduled.
OnClose(l) ==
    /\ link[l].ready = "closing"
    /\ link' = [link EXCEPT ![l].ready = "closed"]
    /\ page' = [page EXCEPT !.timer = TRUE, !.status = IF page.timer THEN "offline" ELSE "reconnecting"]
    /\ UNCHANGED <<clients, publisher, notice, dropped, connects, faults, changes>>

\* send: now, or from the queue when the next socket opens, or not at all.
Send(message, wanted) ==
    IF page.socket # NoLink /\ link[page.socket].ready = "open"
    THEN /\ link' = [link EXCEPT ![page.socket].up = Append(@, message)]
         /\ page' = [page EXCEPT !.subscribed = wanted]
         /\ UNCHANGED dropped
    ELSE /\ page' = [page EXCEPT !.subscribed = wanted,
                                 !.queue = IF Len(@) < MaxQueue THEN Append(@, message) ELSE @]
         /\ dropped' = (dropped \/ Len(page.queue) >= MaxQueue)
         /\ UNCHANGED link

Change(message, wanted) ==
    /\ changes < MaxChanges
    /\ changes' = changes + 1
    /\ Send(message, wanted)
    /\ UNCHANGED <<clients, publisher, notice, connects, faults>>

Subscribe(ch) == Change(<<"SUBSCRIBE", {ch}>>, page.subscribed \cup {ch})
Unsubscribe(ch) == Change(<<"UNSUBSCRIBE", {ch}>>, page.subscribed \ {ch})

DisconnectPage ==
    /\ page.token # "none"
    /\ link' = [k \in Links |-> IF k = page.socket THEN Closing(link[k]) ELSE link[k]]
    /\ page' = [socket |-> NoLink, timer |-> FALSE, token |-> "none", status |-> "offline",
                subscribed |-> {}, queue |-> <<>>]
    /\ UNCHANGED <<clients, publisher, notice, dropped, connects, faults, changes>>

-----------------------------------------------------------------------------
(* The network, and the endpoint of a connection.                            *)

Lose(l) ==
    /\ faults < MaxFaults /\ link[l].ready \in {"connecting", "open"}
    /\ faults' = faults + 1
    /\ link' = [link EXCEPT ![l].ready = "closing"]
    /\ UNCHANGED <<page, clients, publisher, notice, dropped, connects, changes>>

\* The token's time is over, or it is revoked.
ExpireToken ==
    /\ page.token = "valid"
    /\ page' = [page EXCEPT !.token = "expired"]
    /\ UNCHANGED <<link, clients, publisher, notice, dropped, connects, faults, changes>>

\* A socket that is not the page's any more may have been dialled with another token.
MayBeValid(l) == page.token = "valid" \/ l # page.socket
MayBeInvalid(l) == page.token # "valid" \/ l # page.socket

\* websocket_endpoint, for an agent that is not registered, or DashboardHub.connect, for a
\* token that is not valid: closed before it is accepted.
Refuse(l) ==
    /\ link[l].served = "none" /\ link[l].ready # "closed"
    /\ "agents" \in Reached \/ MayBeInvalid(l)
    /\ link' = [link EXCEPT ![l].ready = "closing", ![l].served = "over"]
    /\ UNCHANGED <<page, clients, publisher, notice, dropped, connects, faults, changes>>

\* DashboardHub.connect: accepted and registered.
Accept(l) ==
    /\ link[l].served = "none" /\ link[l].ready # "closed"
    /\ "dashboard" \in Reached /\ MayBeValid(l)
    /\ link' = [link EXCEPT ![l].served = "greet"]
    /\ clients' = Append(clients, l)
    /\ UNCHANGED <<page, publisher, notice, dropped, connects, faults, changes>>

\* WELCOME is on its way, or is not: the default channels, then the loop.
Greet(l) ==
    /\ link[l].served = "greet"
    /\ link' = [link EXCEPT ![l].served = "serving", ![l].subs = @ \cup Defaults]
    /\ UNCHANGED <<page, clients, publisher, notice, dropped, connects, faults, changes>>

\* handle_message: ignored if a broadcast has removed the client.
HandleMessage(l) ==
    /\ link[l].served = "serving" /\ link[l].up # <<>>
    /\ LET m == Head(link[l].up)
           subs == IF l \notin ToSet(clients) THEN link[l].subs
                   ELSE IF m[1] = "SUBSCRIBE" THEN link[l].subs \cup (m[2] \cap Channels)
                   ELSE link[l].subs \ m[2]
       IN link' = [link EXCEPT ![l].up = Tail(@), ![l].subs = subs]
    /\ UNCHANGED <<page, clients, publisher, notice, dropped, connects, faults, changes>>

\* MUTANT of EndpointEnds: no disconnect, the next broadcast finds out.
EndpointEndsOnly(l) ==
    /\ link[l].served = "serving" /\ link[l].ready \in {"closing", "closed"}
    /\ link' = [link EXCEPT ![l].served = "over"]
    /\ UNCHANGED <<page, clients, publisher, notice, dropped, connects, faults, changes>>

\* receive_text raises, and disconnect.
EndpointEnds(l) ==
    /\ link[l].served = "serving" /\ link[l].ready \in {"closing", "closed"}
    /\ link' = [link EXCEPT ![l].served = "over"]
    /\ clients' = Without(clients, {l})
    /\ UNCHANGED <<page, publisher, notice, dropped, connects, faults, changes>>

-----------------------------------------------------------------------------
(* Events and notices.                                                       *)

Channel(what) == CASE what = "event" -> "events" [] what = "pipeline" -> "pipelines"
                   [] OTHER -> "notifications"

\* publish.
Publish(p) ==
    /\ publisher[p].at = "idle"
    /\ publisher' = [publisher EXCEPT ![p].at = "push"]
    /\ UNCHANGED <<page, link, clients, notice, dropped, connects, faults, changes>>

\* handle_pipeline_phase_change and the like.
PublishPipeline(p) ==
    /\ publisher[p].at = "idle"
    /\ publisher' = [publisher EXCEPT ![p].at = "push", ![p].what = "pipeline"]
    /\ UNCHANGED <<page, link, clients, notice, dropped, connects, faults, changes>>

\* create_notification: the row.
Stored(n) == [notice EXCEPT ![n] = "unread"]

\* create: the row is committed; _push_to_dashboards comes next.
CreateNotification(p, n) ==
    /\ publisher[p].at = "idle" /\ notice[n] = "none"
    /\ notice' = Stored(n)
    /\ publisher' = [publisher EXCEPT ![p].at = "push", ![p].what = n]
    /\ UNCHANGED <<page, link, clients, dropped, connects, faults, changes>>

MarkRead(n) ==
    /\ notice[n] # "none"
    /\ notice' = [notice EXCEPT ![n] = "read"]
    /\ UNCHANGED <<page, link, clients, publisher, dropped, connects, faults, changes>>

MarkAllRead ==
    /\ notice' = [n \in Notices |-> IF notice[n] = "none" THEN "none" ELSE "read"]
    /\ UNCHANGED <<page, link, clients, publisher, dropped, connects, faults, changes>>

\* The places of the clients the loop has not come to and whose turn it may be.
Due(p) == {i \in DOMAIN clients : /\ clients[i] \notin publisher[p].seen
                                 /\ Channel(publisher[p].what) \in link[clients[i]].subs}
Size(p) == IF publisher[p].at = "push" THEN Len(clients) ELSE publisher[p].size

\* One turn of the loop, up to the await: the message arrives, or send returns False.
SendTo(p, i) ==
    /\ publisher' = [publisher EXCEPT ![p].at = "sending", ![p].size = Size(p),
                                      ![p].seen = @ \cup {clients[j] : j \in 1..i},
                                      ![p].stale = IF link[clients[i]].ready \in {"connecting", "open"} THEN @
                                                   ELSE @ \cup {clients[i]}]
    /\ UNCHANGED clients

\* broadcast_event: the loop goes on, or is over and removes those it could not reach, or raises.
BroadcastEvent(p) ==
    /\ publisher[p].at \in {"push", "sending"}
    /\ IF Len(clients) # Size(p)
       THEN publisher' = [publisher EXCEPT ![p] = Quiet] /\ UNCHANGED clients
       ELSE IF Due(p) # {} THEN SendTo(p, Min(Due(p)))
       ELSE /\ publisher' = [publisher EXCEPT ![p] = Quiet]
            /\ clients' = Without(clients, publisher[p].stale)
    /\ UNCHANGED <<page, link, notice, dropped, connects, faults, changes>>

LinkStep(l) ==
    \/ OnOpen(l) \/ OnClose(l)
    \/ Refuse(l) \/ Accept(l) \/ Greet(l) \/ HandleMessage(l) \/ EndpointEnds(l)

ConnectionNext ==
    \/ ConnectPage \/ DisconnectPage \/ TimerFires \/ ExpireToken
    \/ \E l \in Links : LinkStep(l) \/ Lose(l)
    \/ \E p \in Publishers : BroadcastEvent(p)

\* What concerns a channel the page subscribes to, and what concerns the default ones.
ChannelNext ==
    \/ \E ch \in Wishes : Subscribe(ch) \/ Unsubscribe(ch)
    \/ \E p \in Publishers : PublishPipeline(p)

NoticeNext ==
    \/ \E p \in Publishers : Publish(p)
    \/ \E p \in Publishers, n \in Notices : CreateNotification(p, n)
    \/ MarkAllRead \/ \E n \in Notices : MarkRead(n)

PushNext == ConnectionNext \/ ChannelNext \/ NoticeNext

\* The browser, the event loop and the network go on with what they have begun.
PageProgress == TimerFires \/ \E l \in Links : LinkStep(l)
PushFairness == WF_pushVars(PageProgress) /\ \A p \in Publishers : WF_pushVars(BroadcastEvent(p))

PushSpec == PushInit /\ [][PushNext]_pushVars /\ PushFairness

-----------------------------------------------------------------------------
PushTypes ==
    /\ page \in [socket : Links \cup {NoLink}, timer : BOOLEAN, token : {"none", "valid", "expired"},
                 status : {"offline", "reconnecting", "connected"}, subscribed : SUBSET Channels,
                 queue : Seq({"SUBSCRIBE", "UNSUBSCRIBE"} \X SUBSET Channels)]
    /\ link \in [Links -> [ready : {"connecting", "open", "closing", "closed"},
                         served : {"none", "greet", "serving", "over"},
                         up : Seq({"SUBSCRIBE", "UNSUBSCRIBE"} \X SUBSET Channels), subs : SUBSET Channels]]
    /\ clients \in Seq(Links)
    /\ publisher \in [Publishers -> [at : {"idle", "push", "sending"}, what : Notices \cup Events,
                                     seen : SUBSET Links, size : Nat, stale : SUBSET Links]]
    /\ notice \in [Notices -> {"none", "unread", "read"}]

\* The hub has every connection that an endpoint serves once, whatever a broadcast
\* removes long after it failed to send, and nobody is told of a notice that is not in
\* the table (DashboardHub.connect, disconnect, broadcast_event; NotificationManager.create).
HubTruthful ==
    /\ IsInjective(clients)
    /\ \A l \in ToSet(clients) : link[l].served \in {"greet", "serving"}
    /\ \A l \in Links :
           link[l].served \in {"greet", "serving"} /\ link[l].ready \in {"connecting", "open"}
               => l \in ToSet(clients)
    /\ \A p \in Publishers :
           publisher[p].at # "idle" /\ publisher[p].what \in Notices => notice[publisher[p].what] # "none"

Settled ==
    LET l == page.socket IN
    /\ l # NoLink /\ page.status = "connected" /\ ~ page.timer
    /\ link[l].ready = "open" /\ link[l].served = "serving" /\ l \in ToSet(clients)
    /\ link[l].up = <<>>
    /\ dropped \/ page.subscribed \subseteq link[l].subs

Dialling == page.socket # NoLink /\ link[page.socket].ready = "connecting"

\* "WebSocket push with reconnection" (ws-client.js:1): a page that was told to connect
\* and not to disconnect is in the end connected, known to the hub and subscribed to what its
\* code asked for, or has its socket closed and is on its way to the next one, whatever
\* becomes of its token, however often it is refused, and in whatever order losses, repeated calls
\* of connect and broadcasts meet its connections (ws-client.js:18-44).
KeepsTrying == []<>(page.token = "none" \/ Settled \/ Dialling)

\* "Real-time updates are pushed via the /ws/dashboard WebSocket endpoint" (dashboard.py:3): a page
\* that has called connect once, with a token that stays valid, gets connected and subscribed.
PageSettles == <>[](page.token = "valid" /\ connects = 1 => Settled)
=============================================================================
