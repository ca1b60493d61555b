--------------------------- MODULE CameraService ---------------------------
(***************************************************************************)
(* The camera service of usbCameraTest4: UVCService and its CameraServer,  *)
(* one device.  Each client makes its calls from a thread of its own, one  *)
(* at a time, and in the service each runs on a binder thread.  A worker   *)
(* thread makes and removes servers as the USB monitor tells, the main     *)
(* thread releases them when the last client has gone, and every server    *)
(* has a camera thread that handles its messages.                          *)
(*                                                                         *)
(* The device is one attachment: plugged in again it has another key.      *)
(* Closing a camera closes the clone of a control block, whose close calls *)
(* onDisconnect (USBMonitor.java): so it asks the worker to remove the     *)
(* server.  An exception nobody catches ends the process.                  *)
(***************************************************************************)
EXTENDS Integers, Sequences

CONSTANTS Clients,
          Worker,      \* the thread behind queueEvent
          Main,        \* the thread of onUnbind
          Nobody,
          MaxServers,  \* bound: servers made
          MaxCalls     \* bound: calls of the clients

ASSUME ServiceAssumption ==
    /\ Worker \notin Clients /\ Main \notin Clients /\ Worker # Main
    /\ Nobody \notin Clients \cup {Worker, Main}
    /\ MaxServers \in Nat /\ MaxCalls \in Nat

Servers == 1..MaxServers
Threads == Clients \cup {Worker, Main}

VARIABLES
    plugged, block,      \* the device; it has an entry in mCtrlBlocks
    asked,               \* the user is asked for permission
    events,              \* queueEvent: "connect" and "remove"
    lock,                \* the owner of sServiceSync while a server is released
    server, made,        \* the entry of sCameraServers, or 0; servers made
    pc, held, op,        \* each thread: where it is, its server, what for
    bound, selected,     \* clients bound to the service, and done with select
    calls,
    msgs, thread,        \* each camera thread: its queue, and where it is
    camera,              \* mUVCCamera, each server's
    released,            \* release was called to its end
    overtaken,           \* history: asked to open once told to close for good
    callbacks,           \* mCallbacks
    told,                \* clients told onConnected and not onDisconnected since
    forgotten,           \* history: those told whose cookie that said so is gone
    broadcast,           \* who is between beginBroadcast and finishBroadcast
    dead,                \* the process ended by an exception
    misled               \* history: told of a camera that was closed, or not
                         \* told when setPreviewSize destroyed it

usb == <<plugged, block, asked>>
table == <<lock, server, made>>
client == <<bound, selected, calls>>
remote == <<callbacks, told, forgotten, broadcast, misled>>
cameras == <<thread, camera>>
ending == <<released, overtaken>>
system == <<usb, events, table>>
rest == <<ending, remote, dead>>
vars == <<system, pc, held, op, client, msgs, cameras, rest>>

Init ==
    /\ plugged = TRUE /\ block = FALSE /\ asked = FALSE /\ events = <<>>
    /\ lock = Nobody /\ server = 0 /\ made = 0
    /\ pc = [t \in Threads |-> "idle"] /\ held = [t \in Threads |-> 0]
    /\ op = [t \in Threads |-> "none"]
    /\ bound = Clients /\ selected = {} /\ calls = 0
    /\ msgs = [s \in Servers |-> <<>>] /\ thread = [s \in Servers |-> "idle"]
    /\ camera = [s \in Servers |-> "null"]
    /\ released = {} /\ overtaken = {}
    /\ callbacks = [s \in Servers |-> {}] /\ told = [s \in Servers |-> {}]
    /\ forgotten = [s \in Servers |-> {}]
    /\ broadcast = [s \in Servers |-> Nobody]
    /\ dead = FALSE /\ misled = {}

Goto(t, where) == pc' = [pc EXCEPT ![t] = where]
Take(t, s) == held' = [held EXCEPT ![t] = s]
Send(s, list) == msgs' = [msgs EXCEPT ![s] = @ \o list]

\* sServiceSync.notifyAll, after which t goes on.
NotifyService(t, where) ==
    pc' = [u \in Threads |-> CASE u = t -> where
                               [] u # t /\ pc[u] = "permission" -> "permitted"
                               [] u # t /\ pc[u] = "absent" -> "again"
                               [] OTHER -> pc[u]]

\* A server's mSync is held for long only by an open.
SyncFree(s) == camera[s] # "opening"

(***************************************************************************)
(* The USB monitor and its user.                                           *)
(***************************************************************************)
\* The user grants the permission, or it was there: a control block is made
\* and onConnect posts an event.
Grant ==
    /\ asked /\ plugged
    /\ asked' = FALSE /\ block' = TRUE
    /\ events' = Append(events, "connect")
    /\ UNCHANGED <<plugged, table, pc, held, op, client, msgs, cameras, rest>>

\* onCancel.
Deny ==
    /\ asked /\ lock = Nobody
    /\ asked' = FALSE
    /\ NotifyService(Nobody, "idle")
    /\ UNCHANGED <<plugged, block, events, table, held, op, client, msgs,
                   cameras, rest>>

\* The control block, if the monitor still has it, is closed: onDisconnect.
Unplug ==
    /\ plugged /\ plugged' = FALSE
    /\ block' = FALSE
    /\ events' = IF block THEN Append(events, "remove") ELSE events
    /\ UNCHANGED <<asked, table, pc, held, op, client, msgs, cameras, rest>>

(***************************************************************************)
(* The clients: IUVCService, as CameraClient calls it.                     *)
(***************************************************************************)
Call(c) == c \in bound /\ pc[c] = "idle" /\ calls < MaxCalls /\ calls' = calls + 1

\* select, up to registerCallback.
Select(c) ==
    /\ Call(c) /\ lock = Nobody
    /\ Take(c, server)
    /\ IF server # 0
       THEN Goto(c, "register") /\ UNCHANGED asked
       ELSE Goto(c, "permission") /\ asked' = TRUE
    /\ UNCHANGED <<plugged, block, events, table, op, bound, selected, msgs,
                   cameras, rest>>

Permitted(c) ==
    /\ pc[c] = "permitted" /\ lock = Nobody
    /\ Take(c, server)
    /\ Goto(c, IF server # 0 THEN "register" ELSE "idle")
    /\ UNCHANGED <<system, op, client, msgs, cameras, rest>>

\* A list that was killed takes no more callbacks.  A client registered before
\* gets a new cookie, which knows of no onConnected.
RegisterCallback(c) ==
    /\ pc[c] = "register"
    /\ LET s == held[c] IN
       IF s \in released THEN UNCHANGED <<callbacks, forgotten>>
       ELSE /\ callbacks' = [callbacks EXCEPT ![s] = @ \cup {c}]
            /\ forgotten' = [forgotten EXCEPT ![s] = @ \cup (told[s] \cap {c})]
    /\ selected' = selected \cup {c}
    /\ Goto(c, "idle")
    /\ UNCHANGED <<system, held, op, bound, calls, msgs, cameras, ending,
                   told, broadcast, misled, dead>>

Ask(c, what) ==
    /\ Call(c) /\ c \in selected
    /\ op' = [op EXCEPT ![c] = what]
    /\ Goto(c, "lookup")
    /\ UNCHANGED <<system, held, bound, selected, msgs, cameras, rest>>
Connect(c) == Ask(c, "connect")
Disconnect(c) == Ask(c, "isConnected")

\* getCameraServer waits once for any change, then takes what there is.
GetCameraServer(c) ==
    /\ pc[c] \in {"lookup", "again"} /\ lock = Nobody
    /\ Take(c, server)
    /\ Goto(c, CASE server # 0 -> op[c]
                 [] server = 0 /\ pc[c] = "lookup" -> "absent"
                 [] OTHER -> "idle")
    /\ UNCHANGED <<system, op, client, msgs, cameras, rest>>

\* A release, which disconnects first, has told s to close.
Ending(s) ==
    \/ s \in released
    \/ \E t \in {Worker, Main} :
          held[t] = s /\ pc[t] \in {"waiting", "notified", "release"}

\* CameraServer.connect: the camera may be open already.
SendOpen(c) ==
    /\ pc[c] = "connect"
    /\ LET s == held[c] IN
       IF camera[s] = "null"
       THEN /\ Send(s, <<"open">>)
            /\ overtaken' = IF Ending(s) THEN overtaken \cup {s} ELSE overtaken
            /\ Goto(c, "surface")
       ELSE Goto(c, "announce") /\ UNCHANGED <<msgs, overtaken>>
    /\ UNCHANGED <<system, held, op, client, cameras, released, remote, dead>>
\* mRendererHolder is null after the release, which the client is told.
SendStart(c) ==
    /\ pc[c] = "surface"
    /\ IF held[c] \in released THEN UNCHANGED msgs ELSE Send(held[c], <<"start">>)
    /\ Goto(c, "idle")
    /\ UNCHANGED <<system, held, op, client, cameras, rest>>

IsConnected(c) ==
    /\ pc[c] = "isConnected"
    /\ IF camera[held[c]] = "null"
       THEN Goto(c, "idle") /\ UNCHANGED op
       ELSE Goto(c, "lookup") /\ op' = [op EXCEPT ![c] = "disconnect"]
    /\ UNCHANGED <<system, held, client, msgs, cameras, rest>>

\* A client that has finished unbinds; one that dies does so at any time, its
\* callback is dropped, and what it called goes on.
Unbind(c) ==
    /\ c \in bound
    /\ bound' = bound \ {c}
    /\ \/ pc[c] = "idle" /\ UNCHANGED <<callbacks, told, forgotten>>
       \/ /\ callbacks' = [s \in Servers |-> callbacks[s] \ {c}]
          /\ told' = [s \in Servers |-> told[s] \ {c}]
          /\ forgotten' = [s \in Servers |-> forgotten[s] \ {c}]
    /\ UNCHANGED <<system, pc, held, op, selected, calls, msgs, cameras,
                   ending, broadcast, misled, dead>>

(***************************************************************************)
(* CameraServer.disconnect and release, on any thread: the messages are    *)
(* sent and the wait begun under mSync.                                    *)
(***************************************************************************)
\* Slip: the messages are sent before mSync is taken.
SendCloseEarly(t) ==
    \/ /\ pc[t] = "disconnect"
       /\ Send(held[t], <<"stop", "close">>)
       /\ Goto(t, "sent")
       /\ UNCHANGED <<system, held, op, client, cameras, rest>>
    \/ /\ pc[t] = "sent" /\ SyncFree(held[t])
       /\ Goto(t, "waiting")
       /\ UNCHANGED <<system, held, op, client, msgs, cameras, rest>>

\* Slip: a camera that is not open is not closed.
SendCloseIfOpen(t) ==
    /\ pc[t] = "disconnect" /\ SyncFree(held[t])
    /\ IF camera[held[t]] = "null"
       THEN Goto(t, "notified") /\ UNCHANGED msgs
       ELSE Send(held[t], <<"stop", "close">>) /\ Goto(t, "waiting")
    /\ UNCHANGED <<system, held, op, client, cameras, rest>>

SendClose(t) ==
    /\ pc[t] = "disconnect" /\ SyncFree(held[t])
    /\ Send(held[t], <<"stop", "close">>)
    /\ Goto(t, "waiting")
    /\ UNCHANGED <<system, held, op, client, cameras, rest>>

Disconnected(t) ==
    /\ pc[t] = "notified" /\ SyncFree(held[t])
    /\ Goto(t, IF t \in Clients THEN "idle" ELSE "release")
    /\ UNCHANGED <<system, held, op, client, msgs, cameras, rest>>

(***************************************************************************)
(* The worker and the main thread.                                         *)
(***************************************************************************)
Event(e) ==
    /\ pc[Worker] = "idle" /\ lock = Nobody
    /\ events # <<>> /\ Head(events) = e
    /\ events' = Tail(events)

\* onConnect's task: createServer waits, under the lock, for the new thread.
CreateServer ==
    /\ Event("connect")
    /\ IF server = 0
       THEN made < MaxServers /\ made' = made + 1 /\ server' = made + 1
       ELSE UNCHANGED <<made, server>>
    /\ NotifyService(Worker, "idle")
    /\ UNCHANGED <<usb, lock, held, op, client, msgs, cameras, rest>>

\* removeService.
RemoveService ==
    /\ Event("remove")
    /\ Take(Worker, server)
    /\ IF server # 0
       THEN /\ lock' = Worker
            /\ op' = [op EXCEPT ![Worker] = "remove"]
            /\ Goto(Worker, "disconnect")
       ELSE NotifyService(Worker, "check") /\ UNCHANGED <<lock, op>>
    /\ UNCHANGED <<usb, server, made, client, msgs, cameras, rest>>

\* checkReleaseService, by the worker or in onUnbind.
CheckReleaseService(t) ==
    /\ pc[t] = "check" /\ lock = Nobody
    /\ IF server # 0 /\ camera[server] = "null"
       THEN /\ Take(t, server)
            /\ server' = 0 /\ lock' = t
            /\ op' = [op EXCEPT ![t] = "check"]
            /\ Goto(t, "disconnect")
       ELSE Goto(t, "idle") /\ UNCHANGED <<server, lock, held, op>>
    /\ UNCHANGED <<usb, events, made, client, msgs, cameras, rest>>

\* onUnbind comes once when the last client has unbound.
OnUnbind ==
    /\ bound = {} /\ pc[Main] = "idle" /\ op[Main] = "none"
    /\ op' = [op EXCEPT ![Main] = "unbind"]
    /\ Goto(Main, "check")
    /\ UNCHANGED <<system, held, client, msgs, cameras, rest>>

\* The end of release, and what follows: the server is removed, and the worker
\* notifies and looks for more to release.  The list is killed with the cookies
\* of whoever has not been told of the end.
Release(t) ==
    /\ pc[t] = "release"
    /\ released' = released \cup {held[t]}
    /\ callbacks' = [callbacks EXCEPT ![held[t]] = {}]
    /\ forgotten' = [forgotten EXCEPT ![held[t]] = told[held[t]]]
    /\ lock' = Nobody
    /\ IF op[t] = "remove"
       THEN server' = 0 /\ NotifyService(t, "check")
       ELSE Goto(t, "idle") /\ UNCHANGED server
    /\ UNCHANGED <<usb, events, made, held, op, client, msgs, cameras,
                   overtaken, told, broadcast, misled, dead>>

(***************************************************************************)
(* processOnCameraStart and processOnCameraStop: each tells those whose    *)
(* cookie says that they have not been told.  beginBroadcast throws while  *)
(* another broadcast goes on, which only the first of them catches.        *)
(***************************************************************************)
Begin(s, who) == broadcast' = [broadcast EXCEPT ![s] = who]
\* Slip: every client that is bound, with a callback or without.
TellStartBound(s) ==
    /\ told' = [told EXCEPT ![s] = @ \cup bound]
    /\ forgotten' = [forgotten EXCEPT ![s] = @ \ bound]
TellStart(s) ==
    /\ told' = [told EXCEPT ![s] = @ \cup callbacks[s]]
    /\ forgotten' = [forgotten EXCEPT ![s] = @ \ callbacks[s]]
TellStop(s) ==
    /\ told' = [told EXCEPT ![s] = @ \cap forgotten[s]]
    /\ UNCHANGED forgotten
Mislead(s) == misled' = IF camera[s] = "null" THEN misled \cup {s} ELSE misled

AnnounceConnect(c) ==
    /\ pc[c] = "announce"
    /\ LET s == held[c] IN
       IF broadcast[s] = Nobody
       THEN Begin(s, c) /\ TellStart(s) /\ Mislead(s) /\ Goto(c, "announced")
       ELSE Goto(c, "idle") /\ UNCHANGED <<broadcast, told, forgotten, misled>>
    /\ UNCHANGED <<system, held, op, client, msgs, cameras, ending, callbacks,
                   dead>>
AnnouncedConnect(c) ==
    /\ pc[c] = "announced"
    /\ Begin(held[c], Nobody)
    /\ Goto(c, "idle")
    /\ UNCHANGED <<system, held, op, client, msgs, cameras, ending, callbacks,
                   told, forgotten, misled, dead>>

(***************************************************************************)
(* The camera threads.                                                     *)
(***************************************************************************)
Message(s, m) ==
    /\ thread[s] = "idle"
    /\ msgs[s] # <<>> /\ Head(msgs[s]) = m
    /\ msgs' = [msgs EXCEPT ![s] = Tail(@)]
Camera(s, c) == camera' = [camera EXCEPT ![s] = c]
Thread(s, where) == thread' = [thread EXCEPT ![s] = where]

\* mUVCCamera.destroy closes the clone of the control block: onDisconnect posts
\* an event, and mCtrlBlocks loses the entry of the block it was cloned from.
Destroy(s) ==
    /\ Camera(s, "null")
    /\ IF camera[s] = "null"
       THEN UNCHANGED <<block, events>>
       ELSE block' = FALSE /\ events' = Append(events, "remove")

NotifySync(s) ==
    pc' = [t \in Threads |-> IF pc[t] = "waiting" /\ held[t] = s
                             THEN "notified" ELSE pc[t]]

\* Slip: nobody is told.
HandleCloseQuiet(s, next) ==
    /\ Destroy(s)
    /\ NotifySync(s)
    /\ Thread(s, next)

\* handleClose, up to processOnCameraStop.
HandleClose(s, next) ==
    /\ Destroy(s)
    /\ NotifySync(s)
    /\ Thread(s, IF camera[s] = "null" THEN next
                 ELSE IF next = "idle" THEN "closed" ELSE "reopen")

Close(s) ==
    /\ Message(s, "close")
    /\ HandleClose(s, "idle")
    /\ UNCHANGED <<plugged, asked, table, held, op, client, rest>>
\* handleOpen closes first.
Open(s) ==
    /\ Message(s, "open")
    /\ HandleClose(s, "open")
    /\ UNCHANGED <<plugged, asked, table, held, op, client, rest>>

AnnounceStop(s) ==
    /\ thread[s] \in {"closed", "reopen"}
    /\ IF broadcast[s] = Nobody
       THEN /\ Begin(s, s) /\ TellStop(s) /\ misled' = misled \ {s}
            /\ Thread(s, IF thread[s] = "closed" THEN "stopped" ELSE "restopped")
            /\ UNCHANGED dead
       ELSE dead' = TRUE /\ UNCHANGED <<broadcast, told, forgotten, misled,
                                      thread>>
    /\ UNCHANGED <<system, pc, held, op, client, msgs, camera, ending,
                   callbacks>>
Announced(s) ==
    /\ thread[s] \in {"stopped", "restopped", "started"}
    /\ Begin(s, Nobody)
    /\ Thread(s, IF thread[s] = "restopped" THEN "open" ELSE "idle")
    /\ UNCHANGED <<system, pc, held, op, client, msgs, camera, ending,
                   callbacks, told, forgotten, misled, dead>>

\* mUVCCamera is there before it is open.
NewCamera(s) ==
    /\ thread[s] = "open" /\ camera[s] = "null"
    /\ Camera(s, "opening")
    /\ UNCHANGED <<system, pc, held, op, client, msgs, thread, rest>>

\* The open of a device that is gone throws, and others may.
OpenCamera(s) ==
    /\ camera[s] = "opening"
    /\ \/ /\ plugged /\ Camera(s, "opened") /\ Thread(s, "announce")
          /\ UNCHANGED dead
       \/ dead' = TRUE /\ UNCHANGED cameras
    /\ UNCHANGED <<system, pc, held, op, client, msgs, ending, remote>>

AnnounceStart(s) ==
    /\ thread[s] = "announce"
    /\ IF broadcast[s] = Nobody
       THEN Begin(s, s) /\ TellStart(s) /\ Mislead(s) /\ Thread(s, "started")
       ELSE Thread(s, "idle") /\ UNCHANGED <<broadcast, told, forgotten, misled>>
    /\ UNCHANGED <<system, pc, held, op, client, msgs, camera, ending,
                   callbacks, dead>>

\* handleStartPreview: a camera that takes neither format is destroyed.
StartPreview(s) ==
    /\ Message(s, "start")
    /\ \/ /\ camera[s] # "null" /\ Camera(s, "previewing")
          /\ UNCHANGED <<block, events, misled>>
       \/ /\ camera[s] # "null" /\ Destroy(s)
          /\ misled' = misled \cup {s}
       \/ camera[s] = "null" /\ UNCHANGED <<camera, block, events, misled>>
    /\ UNCHANGED <<plugged, asked, table, pc, held, op, client, thread,
                   ending, callbacks, told, forgotten, broadcast, dead>>

StopPreview(s) ==
    /\ Message(s, "stop")
    /\ Camera(s, IF camera[s] = "previewing" THEN "opened" ELSE camera[s])
    /\ UNCHANGED <<system, pc, held, op, client, thread, rest>>

-----------------------------------------------------------------------------
Monitor == Grant \/ Deny
Binder(c) ==
    \/ Permitted(c) \/ RegisterCallback(c) \/ GetCameraServer(c)
    \/ SendOpen(c) \/ SendStart(c) \/ IsConnected(c)
    \/ SendClose(c) \/ Disconnected(c)
    \/ AnnounceConnect(c) \/ AnnouncedConnect(c)
Service(t) ==
    \/ SendClose(t) \/ Disconnected(t) \/ Release(t) \/ CheckReleaseService(t)
    \/ t = Worker /\ (CreateServer \/ RemoveService)
    \/ t = Main /\ OnUnbind
CameraThread(s) ==
    \/ Open(s) \/ Close(s) \/ StartPreview(s) \/ StopPreview(s)
    \/ AnnounceStop(s) \/ Announced(s) \/ AnnounceStart(s)
    \/ NewCamera(s) \/ OpenCamera(s)

Next ==
    /\ ~dead
    /\ \/ Monitor \/ Unplug
       \/ \E c \in Clients : Select(c) \/ Connect(c) \/ Disconnect(c) \/ Unbind(c)
       \/ \E c \in Clients : Binder(c)
       \/ \E t \in {Worker, Main} : Service(t)
       \/ \E s \in Servers : CameraThread(s)

Spec == Init /\ [][Next]_vars

\* Every thread of the service runs, and the user answers.
FairSpec ==
    /\ Spec
    /\ WF_vars(~dead /\ Monitor)
    /\ \A c \in Clients : WF_vars(~dead /\ Binder(c))
    /\ \A t \in {Worker, Main} : WF_vars(~dead /\ Service(t))
    /\ \A s \in Servers : WF_vars(~dead /\ CameraThread(s))

-----------------------------------------------------------------------------
TypeOK ==
    /\ plugged \in BOOLEAN /\ block \in BOOLEAN
    /\ asked \in BOOLEAN /\ dead \in BOOLEAN
    /\ events \in Seq({"connect", "remove"})
    /\ lock \in {Worker, Main, Nobody}
    /\ server \in 0..made /\ made \in 0..MaxServers
    /\ pc \in [Threads -> {"idle", "permission", "permitted", "register",
           "lookup", "absent", "again", "connect", "surface", "announce",
           "announced", "isConnected", "disconnect", "sent", "waiting", "notified",
           "release", "check"}]
    /\ held \in [Threads -> 0..MaxServers]
    /\ op \in [Threads -> {"none", "connect", "isConnected", "disconnect",
                           "remove", "check", "unbind"}]
    /\ bound \subseteq Clients /\ selected \subseteq Clients
    /\ calls \in 0..MaxCalls
    /\ msgs \in [Servers -> Seq({"open", "start", "stop", "close"})]
    /\ thread \in [Servers -> {"idle", "closed", "reopen", "stopped", "restopped",
                               "open", "announce", "started"}]
    /\ camera \in [Servers -> {"null", "opening", "opened", "previewing"}]
    /\ released \subseteq Servers /\ misled \subseteq Servers
    /\ overtaken \subseteq Servers
    /\ callbacks \in [Servers -> SUBSET Clients]
    /\ told \in [Servers -> SUBSET Clients]
    /\ forgotten \in [Servers -> SUBSET Clients]
    /\ \A s \in Servers : told[s] \ forgotten[s] \subseteq callbacks[s]
    /\ broadcast \in [Servers -> Servers \cup Clients \cup {Nobody}]

At(s, m) == {i \in DOMAIN msgs[s] : msgs[s][i] = m}
Opening(s) == thread[s] \in {"reopen", "restopped", "open"}

\* Once a server has been released its camera is closed, or will be by a
\* message that comes after every open, unless a client that had found the
\* server before asked it to open after the release had told it to close.
ReleasedCloses ==
    \A s \in released \ overtaken :
        camera[s] # "null" \/ Opening(s) \/ At(s, "open") # {} =>
            \E j \in At(s, "close") : \A i \in At(s, "open") : i < j

\* Whoever was told by onConnected that the camera is connected is told by
\* onDisconnected when handleClose has closed it.  The exceptions: an onConnected
\* that was late, for a camera already closed; a camera that setPreviewSize
\* destroyed; and a client whose cookie is gone, because it has registered again
\* or because a release has killed the list, which it can do between the close
\* and the broadcast: handleClose notifies it first.
ToldTruth ==
    \A s \in Servers :
        camera[s] = "null" /\ s \notin misled /\ thread[s] \notin {"closed", "reopen"}
            => told[s] \subseteq forgotten[s]

\* A select that waits for the user's answer returns, and so does a disconnect:
\* the camera thread handles the close it sent and notifies.  The worker and the
\* main thread give sServiceSync back, although they wait for a camera thread
\* while they have it.  (getCameraServer is not among them: it may wait for ever.)
CallsEnd ==
    /\ \A c \in Clients : pc[c] \in {"permission", "disconnect"} ~> dead \/ pc[c] = "idle"
    /\ \A t \in {Worker, Main} : lock = t ~> dead \/ lock # t
=============================================================================
