------------------------- MODULE CameraServiceProofs -------------------------
(***************************************************************************)
(* Proofs about CameraService, for any number of clients, servers and      *)
(* calls: a released server closes its camera, and clients are told the    *)
(* truth.                                                                  *)
(***************************************************************************)
EXTENDS CameraService, SequenceTheorems, TLAPS

Places == {"idle", "permission", "permitted", "register", "lookup", "absent",
           "again", "connect", "surface", "announce", "announced", "isConnected",
           "disconnect", "sent", "waiting", "notified", "release", "check"}
Tasks == {"none", "connect", "isConnected", "disconnect", "remove", "check",
          "unbind"}
Messages == {"open", "start", "stop", "close"}
Steps == {"idle", "closed", "reopen", "stopped", "restopped", "open", "announce",
          "started"}
States == {"null", "opening", "opened", "previewing"}

\* TypeOK in four parts: the service and its clients, the threads, the cameras,
\* the callbacks.
ServiceType ==
    /\ plugged \in BOOLEAN /\ block \in BOOLEAN
    /\ asked \in BOOLEAN /\ dead \in BOOLEAN
    /\ events \in Seq({"connect", "remove"})
    /\ lock \in {Worker, Main, Nobody}
    /\ server \in 0..made /\ made \in 0..MaxServers
    /\ bound \subseteq Clients /\ selected \subseteq Clients
    /\ calls \in 0..MaxCalls
ThreadsType ==
    /\ pc \in [Threads -> Places]
    /\ held \in [Threads -> 0..MaxServers]
    /\ op \in [Threads -> Tasks]
CamerasType ==
    /\ msgs \in [Servers -> Seq(Messages)]
    /\ thread \in [Servers -> Steps]
    /\ camera \in [Servers -> States]
    /\ released \subseteq Servers /\ misled \subseteq Servers
    /\ overtaken \subseteq Servers
CallbacksType ==
    /\ callbacks \in [Servers -> SUBSET Clients]
    /\ told \in [Servers -> SUBSET Clients]
    /\ forgotten \in [Servers -> SUBSET Clients]
    /\ \A s \in Servers : told[s] \ forgotten[s] \subseteq callbacks[s]
    /\ broadcast \in [Servers -> Servers \cup Clients \cup {Nobody}]
Types == ServiceType /\ ThreadsType /\ CamerasType /\ CallbacksType

\* A thread that works on a server has found one, and one that looks for a
\* server knows what for.
HeldInv ==
    \A t \in Threads :
        /\ pc[t] \in {"register", "connect", "surface", "announce", "announced",
                      "isConnected", "disconnect", "waiting", "notified", "release"}
              => held[t] \in Servers
        /\ pc[t] \in {"lookup", "absent", "again"}
              => op[t] \in {"connect", "isConnected", "disconnect"}

\* A queue of messages whose last close comes after every open.
Opens(q) == \E i \in DOMAIN q : q[i] = "open"
EndsClosed(q) ==
    \E j \in DOMAIN q : q[j] = "close" /\ \A i \in DOMAIN q : q[i] = "open" => i < j

\* ReleasedCloses, already from the moment at which a release tells the server
\* to close.
InUse(s) == camera[s] # "null" \/ Opening(s) \/ Opens(msgs[s])
EndingCloses ==
    \A s \in Servers \ overtaken : Ending(s) /\ InUse(s) => EndsClosed(msgs[s])

IInv == Types /\ HeldInv /\ EndingCloses /\ ToldTruth

-----------------------------------------------------------------------------

\* What closing a camera leaves behind.
LEMMA DestroyTyped ==
    ASSUME Types, NEW s \in Servers, Destroy(s)
    PROVE  /\ block' \in BOOLEAN /\ events' \in Seq({"connect", "remove"})
           /\ camera' \in [Servers -> States]
<1>1. camera' \in [Servers -> States]
    BY DEF Types, CamerasType, Destroy, Camera, States
<1>2. CASE camera[s] = "null"
    BY <1>1, <1>2 DEF Types, ServiceType, Destroy
<1>3. CASE camera[s] # "null"
    <2>1. events' = Append(events, "remove") /\ block' = FALSE
        BY <1>3 DEF Destroy
    <2>2. events \in Seq({"connect", "remove"}) /\ block' \in BOOLEAN
        BY <2>1 DEF Types, ServiceType
    <2> QED
        BY <1>1, <2>1, <2>2
<1> QED
    BY <1>2, <1>3

\* A function to sets, changed at one place.
LEMMA Updated ==
    ASSUME NEW D, NEW S, NEW f \in [D -> SUBSET S], NEW d, NEW v \in SUBSET S
    PROVE  [f EXCEPT ![d] = v] \in [D -> SUBSET S]
OBVIOUS

\* A step is one of the actions, or a stutter.
LEMMA Cases ==
    ASSUME [Next]_vars
    PROVE
    \/ Grant
    \/ Deny
    \/ Unplug
    \/ \E c \in Clients : Select(c)
    \/ \E c \in Clients : Permitted(c)
    \/ \E c \in Clients : RegisterCallback(c)
    \/ \E c \in Clients : Connect(c)
    \/ \E c \in Clients : Disconnect(c)
    \/ \E c \in Clients : GetCameraServer(c)
    \/ \E c \in Clients : SendOpen(c)
    \/ \E c \in Clients : SendStart(c)
    \/ \E c \in Clients : IsConnected(c)
    \/ \E c \in Clients : Unbind(c)
    \/ \E t \in Threads : SendClose(t)
    \/ \E t \in Threads : Disconnected(t)
    \/ \E w \in {Worker, Main} : Release(w)
    \/ \E w \in {Worker, Main} : CheckReleaseService(w)
    \/ CreateServer
    \/ RemoveService
    \/ OnUnbind
    \/ \E c \in Clients : AnnounceConnect(c)
    \/ \E c \in Clients : AnnouncedConnect(c)
    \/ \E s \in Servers : Open(s)
    \/ \E s \in Servers : Close(s)
    \/ \E s \in Servers : StartPreview(s)
    \/ \E s \in Servers : StopPreview(s)
    \/ \E s \in Servers : AnnounceStop(s)
    \/ \E s \in Servers : Announced(s)
    \/ \E s \in Servers : AnnounceStart(s)
    \/ \E s \in Servers : NewCamera(s)
    \/ \E s \in Servers : OpenCamera(s)
    \/ UNCHANGED vars
BY Zenon DEF Next, Monitor, Binder, Service, CameraThread, Threads

\* Each action preserves each part of the types,
LEMMA ServiceStep == Types /\ HeldInv /\ [Next]_vars => ServiceType'
<1> SUFFICES ASSUME Types /\ HeldInv, [Next]_vars PROVE ServiceType'
    OBVIOUS
<1> USE ServiceAssumption DEF Types, ServiceType, ThreadsType, CamerasType,
        CallbacksType, HeldInv, Threads, Servers, Places, Tasks, Messages,
        Steps, States, vars, system, usb, table, client, remote, cameras,
        ending, rest, Goto, Take, Send, NotifyService
<1>1. CASE Grant
    <2>1. plugged' \in BOOLEAN /\ block' \in BOOLEAN /\ asked' \in BOOLEAN
        BY <1>1 DEF Grant
    <2>2. dead' \in BOOLEAN
        BY <1>1 DEF Grant
    <2>3. events' \in Seq({"connect", "remove"})
        BY <1>1 DEF Grant
    <2>4. lock' \in {Worker, Main, Nobody} /\ server' \in 0..made' /\ made' \in 0..MaxServers
        BY <1>1 DEF Grant
    <2>5. bound' \subseteq Clients /\ selected' \subseteq Clients /\ calls' \in 0..MaxCalls
        BY <1>1 DEF Grant
    <2> QED
        BY <2>1, <2>2, <2>3, <2>4, <2>5
<1>2. CASE Deny
    BY <1>2 DEF Deny
<1>3. CASE Unplug
    <2>1. plugged' \in BOOLEAN /\ block' \in BOOLEAN /\ asked' \in BOOLEAN
        BY <1>3 DEF Unplug
    <2>2. dead' \in BOOLEAN
        BY <1>3 DEF Unplug
    <2>3. events' \in Seq({"connect", "remove"})
        BY <1>3 DEF Unplug
    <2>4. lock' \in {Worker, Main, Nobody} /\ server' \in 0..made' /\ made' \in 0..MaxServers
        BY <1>3 DEF Unplug
    <2>5. bound' \subseteq Clients /\ selected' \subseteq Clients /\ calls' \in 0..MaxCalls
        BY <1>3 DEF Unplug
    <2> QED
        BY <2>1, <2>2, <2>3, <2>4, <2>5
<1>4. CASE \E c \in Clients : Select(c)
    <2>0. PICK c \in Clients : Select(c)
        BY <1>4
    <2>1. plugged' \in BOOLEAN /\ block' \in BOOLEAN /\ asked' \in BOOLEAN
        BY <2>0 DEF Select, Call
    <2>2. dead' \in BOOLEAN
        BY <2>0 DEF Select, Call
    <2>3. events' \in Seq({"connect", "remove"})
        BY <2>0 DEF Select, Call
    <2>4. lock' \in {Worker, Main, Nobody} /\ server' \in 0..made' /\ made' \in 0..MaxServers
        BY <2>0 DEF Select, Call
    <2>5. bound' \subseteq Clients /\ selected' \subseteq Clients /\ calls' \in 0..MaxCalls
        BY <2>0 DEF Select, Call
    <2> QED
        BY <2>1, <2>2, <2>3, <2>4, <2>5
<1>5. CASE \E c \in Clients : Permitted(c)
    BY <1>5 DEF Permitted
<1>6. CASE \E c \in Clients : RegisterCallback(c)
    BY <1>6 DEF RegisterCallback
<1>7. CASE \E c \in Clients : Connect(c)
    BY <1>7 DEF Connect, Ask, Call
<1>8. CASE \E c \in Clients : Disconnect(c)
    BY <1>8 DEF Disconnect, Ask, Call
<1>9. CASE \E c \in Clients : GetCameraServer(c)
    BY <1>9 DEF GetCameraServer
<1>10. CASE \E c \in Clients : SendOpen(c)
    BY <1>10 DEF SendOpen
<1>11. CASE \E c \in Clients : SendStart(c)
    BY <1>11 DEF SendStart
<1>12. CASE \E c \in Clients : IsConnected(c)
    BY <1>12 DEF IsConnected
<1>13. CASE \E c \in Clients : Unbind(c)
    BY <1>13 DEF Unbind
<1>14. CASE \E t \in Threads : SendClose(t)
    BY <1>14 DEF SendClose, SyncFree
<1>15. CASE \E t \in Threads : Disconnected(t)
    BY <1>15 DEF Disconnected, SyncFree
<1>16. CASE \E w \in {Worker, Main} : Release(w)
    BY <1>16 DEF Release
<1>17. CASE \E w \in {Worker, Main} : CheckReleaseService(w)
    BY <1>17 DEF CheckReleaseService
<1>18. CASE CreateServer
    BY <1>18 DEF CreateServer, Event
<1>19. CASE RemoveService
    BY <1>19 DEF RemoveService, Event
<1>20. CASE OnUnbind
    BY <1>20 DEF OnUnbind
<1>21. CASE \E c \in Clients : AnnounceConnect(c)
    BY <1>21 DEF AnnounceConnect, Begin, TellStart, Mislead
<1>22. CASE \E c \in Clients : AnnouncedConnect(c)
    BY <1>22 DEF AnnouncedConnect, Begin
<1>23. CASE \E s \in Servers : Open(s)
    <2>0. PICK s \in Servers : Open(s)
        BY <1>23
    <2>1. block' \in BOOLEAN /\ events' \in Seq({"connect", "remove"})
        BY <2>0, DestroyTyped DEF Open, HandleClose
    <2> QED
        BY <2>0, <2>1 DEF Open
<1>24. CASE \E s \in Servers : Close(s)
    <2>0. PICK s \in Servers : Close(s)
        BY <1>24
    <2>1. block' \in BOOLEAN /\ events' \in Seq({"connect", "remove"})
        BY <2>0, DestroyTyped DEF Close, HandleClose
    <2> QED
        BY <2>0, <2>1 DEF Close
<1>25. CASE \E s \in Servers : StartPreview(s)
    <2>0. PICK s \in Servers : StartPreview(s)
        BY <1>25
    <2>1. block' \in BOOLEAN /\ events' \in Seq({"connect", "remove"})
        <3>1. Destroy(s) \/ UNCHANGED <<block, events>>
            BY <2>0 DEF StartPreview
        <3> QED
            BY <3>1, DestroyTyped
    <2> QED
        BY <2>0, <2>1 DEF StartPreview
<1>26. CASE \E s \in Servers : StopPreview(s)
    BY <1>26 DEF StopPreview, Message, Camera
<1>27. CASE \E s \in Servers : AnnounceStop(s)
    <2>0. PICK s \in Servers : AnnounceStop(s)
        BY <1>27
    <2>1. dead' \in {dead, TRUE}
        BY <2>0, Zenon DEF AnnounceStop
    <2>2. UNCHANGED <<system, client>>
        BY <2>0 DEF AnnounceStop
    <2> QED
        BY <2>1, <2>2
<1>28. CASE \E s \in Servers : Announced(s)
    BY <1>28 DEF Announced, Begin, Thread
<1>29. CASE \E s \in Servers : AnnounceStart(s)
    BY <1>29 DEF AnnounceStart, Begin, TellStart, Mislead, Thread
<1>30. CASE \E s \in Servers : NewCamera(s)
    BY <1>30 DEF NewCamera, Camera
<1>31. CASE \E s \in Servers : OpenCamera(s)
    <2>0. PICK s \in Servers : OpenCamera(s)
        BY <1>31
    <2>1. dead' \in {dead, TRUE}
        BY <2>0, Zenon DEF OpenCamera
    <2>2. UNCHANGED <<system, client>>
        BY <2>0 DEF OpenCamera
    <2> QED
        BY <2>1, <2>2
<1>32. CASE UNCHANGED vars
    BY <1>32 DEF vars
<1> QED
    BY <1>1, <1>2, <1>3, <1>4, <1>5, <1>6, <1>7, <1>8, <1>9, <1>10, <1>11,
       <1>12, <1>13, <1>14, <1>15, <1>16, <1>17, <1>18, <1>19, <1>20, <1>21,
       <1>22, <1>23, <1>24, <1>25, <1>26, <1>27, <1>28, <1>29, <1>30, <1>31,
       <1>32, Cases

LEMMA ThreadsStep == Types /\ HeldInv /\ [Next]_vars => ThreadsType'
<1> SUFFICES ASSUME Types /\ HeldInv, [Next]_vars PROVE ThreadsType'
    OBVIOUS
<1> USE ServiceAssumption DEF Types, ServiceType, ThreadsType, CamerasType,
        CallbacksType, HeldInv, Threads, Servers, Places, Tasks, Messages,
        Steps, States, vars, system, usb, table, client, remote, cameras,
        ending, rest, Goto, Take, Send, NotifyService
<1>1. CASE Grant
    BY <1>1 DEF Grant
<1>2. CASE Deny
    BY <1>2 DEF Deny
<1>3. CASE Unplug
    BY <1>3 DEF Unplug
<1>4. CASE \E c \in Clients : Select(c)
    <2>0. PICK c \in Clients : Select(c)
        BY <1>4
    <2>1. server \in 0..MaxServers /\ c \in Threads
        OBVIOUS
    <2>2. held' = [held EXCEPT ![c] = server] /\ op' = op
        BY <2>0 DEF Select
    <2>3. pc' = [pc EXCEPT ![c] = IF server # 0 THEN "register" ELSE "permission"]
        BY <2>0 DEF Select
    <2> QED
        BY <2>1, <2>2, <2>3
<1>5. CASE \E c \in Clients : Permitted(c)
    BY <1>5 DEF Permitted
<1>6. CASE \E c \in Clients : RegisterCallback(c)
    BY <1>6 DEF RegisterCallback
<1>7. CASE \E c \in Clients : Connect(c)
    BY <1>7 DEF Connect, Ask, Call
<1>8. CASE \E c \in Clients : Disconnect(c)
    BY <1>8 DEF Disconnect, Ask, Call
<1>9. CASE \E c \in Clients : GetCameraServer(c)
    BY <1>9 DEF GetCameraServer
<1>10. CASE \E c \in Clients : SendOpen(c)
    <2>0. PICK c \in Clients : SendOpen(c)
        BY <1>10
    <2>1. CASE camera[held[c]] = "null"
        BY <2>0, <2>1 DEF SendOpen
    <2>2. CASE ~(camera[held[c]] = "null")
        BY <2>0, <2>2 DEF SendOpen
    <2> QED
        BY <2>1, <2>2
<1>11. CASE \E c \in Clients : SendStart(c)
    BY <1>11 DEF SendStart
<1>12. CASE \E c \in Clients : IsConnected(c)
    <2>0. PICK c \in Clients : IsConnected(c)
        BY <1>12
    <2>1. held' = held /\ op' \in {op, [op EXCEPT ![c] = "disconnect"]}
        BY <2>0, Zenon DEF IsConnected
    <2>2. \E l \in {"idle", "lookup"} : pc' = [pc EXCEPT ![c] = l]
        BY <2>0, Zenon DEF IsConnected, Goto
    <2>3. op' \in [Threads -> Tasks]
        <3>1. CASE op' = op
            BY <3>1
        <3>2. CASE op' = [op EXCEPT ![c] = "disconnect"]
            BY <3>2
        <3> QED
            BY <2>1, <3>1, <3>2
    <2>4. pc' \in [Threads -> Places]
        BY <2>2
    <2> QED
        BY <2>1, <2>3, <2>4
<1>13. CASE \E c \in Clients : Unbind(c)
    BY <1>13 DEF Unbind
<1>14. CASE \E t \in Threads : SendClose(t)
    BY <1>14 DEF SendClose, SyncFree
<1>15. CASE \E t \in Threads : Disconnected(t)
    BY <1>15 DEF Disconnected, SyncFree
<1>16. CASE \E w \in {Worker, Main} : Release(w)
    BY <1>16 DEF Release
<1>17. CASE \E w \in {Worker, Main} : CheckReleaseService(w)
    <2>0. PICK t \in {Worker, Main} : CheckReleaseService(t)
        BY <1>17
    <2>1. CASE server # 0 /\ camera[server] = "null"
        <3>1. server \in 0..MaxServers /\ t \in Threads
            OBVIOUS
        <3>2. /\ held' = [held EXCEPT ![t] = server] /\ op' = [op EXCEPT ![t] = "check"]
              /\ pc' = [pc EXCEPT ![t] = "disconnect"]
            BY <2>0, <2>1 DEF CheckReleaseService
        <3> QED
            BY <3>1, <3>2
    <2>2. CASE ~(server # 0 /\ camera[server] = "null")
        BY <2>0, <2>2 DEF CheckReleaseService
    <2> QED
        BY <2>1, <2>2
<1>18. CASE CreateServer
    BY <1>18 DEF CreateServer, Event
<1>19. CASE RemoveService
    BY <1>19 DEF RemoveService, Event
<1>20. CASE OnUnbind
    BY <1>20 DEF OnUnbind
<1>21. CASE \E c \in Clients : AnnounceConnect(c)
    <2>0. PICK c \in Clients : AnnounceConnect(c)
        BY <1>21
    <2>1. held' = held /\ op' = op
        BY <2>0 DEF AnnounceConnect
    <2>2. \E l \in {"announced", "idle"} : Goto(c, l)
        BY <2>0, Zenon DEF AnnounceConnect
    <2> QED
        BY <2>1, <2>2
<1>22. CASE \E c \in Clients : AnnouncedConnect(c)
    BY <1>22 DEF AnnouncedConnect, Begin
<1>23. CASE \E s \in Servers : Open(s)
    BY <1>23 DEF Open, Message, HandleClose, Destroy, Camera, Thread, NotifySync
<1>24. CASE \E s \in Servers : Close(s)
    BY <1>24 DEF Close, Message, HandleClose, Destroy, Camera, Thread, NotifySync
<1>25. CASE \E s \in Servers : StartPreview(s)
    BY <1>25 DEF StartPreview, Message, Destroy, Camera
<1>26. CASE \E s \in Servers : StopPreview(s)
    BY <1>26 DEF StopPreview, Message, Camera
<1>27. CASE \E s \in Servers : AnnounceStop(s)
    BY <1>27 DEF AnnounceStop, Begin, TellStop, Thread
<1>28. CASE \E s \in Servers : Announced(s)
    BY <1>28 DEF Announced, Begin, Thread
<1>29. CASE \E s \in Servers : AnnounceStart(s)
    BY <1>29 DEF AnnounceStart, Begin, TellStart, Mislead, Thread
<1>30. CASE \E s \in Servers : NewCamera(s)
    BY <1>30 DEF NewCamera, Camera
<1>31. CASE \E s \in Servers : OpenCamera(s)
    BY <1>31 DEF OpenCamera, Camera, Thread
<1>32. CASE UNCHANGED vars
    BY <1>32 DEF vars
<1> QED
    BY <1>1, <1>2, <1>3, <1>4, <1>5, <1>6, <1>7, <1>8, <1>9, <1>10, <1>11,
       <1>12, <1>13, <1>14, <1>15, <1>16, <1>17, <1>18, <1>19, <1>20, <1>21,
       <1>22, <1>23, <1>24, <1>25, <1>26, <1>27, <1>28, <1>29, <1>30, <1>31,
       <1>32, Cases

LEMMA CamerasStep == Types /\ HeldInv /\ [Next]_vars => CamerasType'
<1> SUFFICES ASSUME Types /\ HeldInv, [Next]_vars PROVE CamerasType'
    OBVIOUS
<1> USE ServiceAssumption DEF Types, ServiceType, ThreadsType, CamerasType,
        CallbacksType, HeldInv, Threads, Servers, Places, Tasks, Messages,
        Steps, States, vars, system, usb, table, client, remote, cameras,
        ending, rest, Goto, Take, Send, NotifyService
<1>1. CASE Grant
    BY <1>1 DEF Grant
<1>2. CASE Deny
    BY <1>2 DEF Deny
<1>3. CASE Unplug
    BY <1>3 DEF Unplug
<1>4. CASE \E c \in Clients : Select(c)
    BY <1>4 DEF Select, Call
<1>5. CASE \E c \in Clients : Permitted(c)
    BY <1>5 DEF Permitted
<1>6. CASE \E c \in Clients : RegisterCallback(c)
    BY <1>6 DEF RegisterCallback
<1>7. CASE \E c \in Clients : Connect(c)
    BY <1>7 DEF Connect, Ask, Call
<1>8. CASE \E c \in Clients : Disconnect(c)
    BY <1>8 DEF Disconnect, Ask, Call
<1>9. CASE \E c \in Clients : GetCameraServer(c)
    BY <1>9 DEF GetCameraServer
<1>10. CASE \E c \in Clients : SendOpen(c)
    <2>0. PICK c \in Clients : SendOpen(c)
        BY <1>10
    <2>1. held[c] \in Servers
        BY <2>0 DEF SendOpen
    <2>2. CASE camera[held[c]] = "null"
        <3>1. msgs[held[c]] \o <<"open">> \in Seq(Messages)
            BY <2>1
        <3>2. msgs' = [msgs EXCEPT ![held[c]] = msgs[held[c]] \o <<"open">>]
            BY <2>0, <2>2 DEF SendOpen
        <3>3. overtaken' \in {overtaken, overtaken \cup {held[c]}}
            BY <2>0, <2>2, Zenon DEF SendOpen
        <3>4. UNCHANGED <<thread, camera, released, misled>>
            BY <2>0 DEF SendOpen
        <3> QED
            BY <2>1, <3>1, <3>2, <3>3, <3>4
    <2>3. CASE ~(camera[held[c]] = "null")
        <3>1. UNCHANGED <<msgs, overtaken>>
            BY <2>0, <2>3, Zenon DEF SendOpen
        <3>2. UNCHANGED <<thread, camera, released, misled>>
            BY <2>0 DEF SendOpen
        <3> QED
            BY <3>1, <3>2
    <2> QED
        BY <2>2, <2>3
<1>11. CASE \E c \in Clients : SendStart(c)
    <2>0. PICK c \in Clients : SendStart(c)
        BY <1>11
    <2>1. held[c] \in Servers
        BY <2>0 DEF SendStart
    <2>2. CASE held[c] \in released
        BY <2>0, <2>1, <2>2 DEF SendStart
    <2>3. CASE ~(held[c] \in released)
        <3>1. msgs[held[c]] \o <<"start">> \in Seq(Messages)
            BY <2>1
        <3>2. msgs' = [msgs EXCEPT ![held[c]] = msgs[held[c]] \o <<"start">>]
            BY <2>0, <2>3 DEF SendStart
        <3>3. UNCHANGED <<cameras, ending, misled>>
            BY <2>0 DEF SendStart
        <3> QED
            BY <3>1, <3>2, <3>3
    <2> QED
        BY <2>2, <2>3
<1>12. CASE \E c \in Clients : IsConnected(c)
    BY <1>12 DEF IsConnected
<1>13. CASE \E c \in Clients : Unbind(c)
    BY <1>13 DEF Unbind
<1>14. CASE \E t \in Threads : SendClose(t)
    BY <1>14 DEF SendClose, SyncFree
<1>15. CASE \E t \in Threads : Disconnected(t)
    BY <1>15 DEF Disconnected, SyncFree
<1>16. CASE \E w \in {Worker, Main} : Release(w)
    <2>0. PICK w \in {Worker, Main} : Release(w)
        BY <1>16
    <2>1. held[w] \in Servers
        BY <2>0 DEF Release
    <2>2. released' = released \cup {held[w]}
        BY <2>0 DEF Release
    <2>3. UNCHANGED <<msgs, thread, camera, misled, overtaken>>
        BY <2>0 DEF Release
    <2>4. released \subseteq Servers
        OBVIOUS
    <2>5. released' \subseteq Servers
        <3> HIDE DEF Types, CamerasType, HeldInv, Servers, vars
        <3> QED
            BY <2>1, <2>2, <2>4
    <2> QED
        BY <2>3, <2>5
<1>17. CASE \E w \in {Worker, Main} : CheckReleaseService(w)
    BY <1>17 DEF CheckReleaseService
<1>18. CASE CreateServer
    BY <1>18 DEF CreateServer, Event
<1>19. CASE RemoveService
    BY <1>19 DEF RemoveService, Event
<1>20. CASE OnUnbind
    BY <1>20 DEF OnUnbind
<1>21. CASE \E c \in Clients : AnnounceConnect(c)
    <2>0. PICK c \in Clients : AnnounceConnect(c)
        BY <1>21
    <2>1. held[c] \in Servers
        BY <2>0 DEF AnnounceConnect
    <2>2. CASE broadcast[held[c]] = Nobody
        <3>1. misled' \in {misled, misled \cup {held[c]}}
            BY <2>0, <2>2, Zenon DEF AnnounceConnect, Mislead
        <3>2. UNCHANGED <<msgs, cameras, ending>>
            BY <2>0 DEF AnnounceConnect
        <3> QED
            BY <2>1, <3>1, <3>2
    <2>3. CASE broadcast[held[c]] # Nobody
        BY <2>0, <2>1, <2>3 DEF AnnounceConnect
    <2> QED
        BY <2>2, <2>3
<1>22. CASE \E c \in Clients : AnnouncedConnect(c)
    BY <1>22 DEF AnnouncedConnect, Begin
<1>23. CASE \E s \in Servers : Open(s)
    BY <1>23 DEF Open, Message, HandleClose, Destroy, Camera, Thread, NotifySync
<1>24. CASE \E s \in Servers : Close(s)
    BY <1>24 DEF Close, Message, HandleClose, Destroy, Camera, Thread, NotifySync
<1>25. CASE \E s \in Servers : StartPreview(s)
    <2>0. PICK s \in Servers : StartPreview(s)
        BY <1>25
    <2>1. msgs' \in [Servers -> Seq(Messages)]
        BY <2>0 DEF StartPreview, Message, Destroy, Camera
    <2>2. thread' \in [Servers -> Steps]
        BY <2>0 DEF StartPreview, Message, Destroy, Camera
    <2>3. camera' \in {camera, [camera EXCEPT ![s] = "previewing"], [camera EXCEPT ![s] = "null"]}
        BY <2>0, Zenon DEF StartPreview, Destroy, Camera
    <2>4. misled' \in {misled, misled \cup {s}}
        BY <2>0, Zenon DEF StartPreview
    <2>5. UNCHANGED ending
        BY <2>0 DEF StartPreview
    <2>6. camera' \in [Servers -> States]
        <3>1. CASE camera' = camera
            BY <3>1
        <3>2. CASE camera' = [camera EXCEPT ![s] = "previewing"]
            BY <3>2
        <3>3. CASE camera' = [camera EXCEPT ![s] = "null"]
            BY <3>3
        <3> QED
            BY <2>3, <3>1, <3>2, <3>3
    <2>7. misled' \subseteq Servers
        BY <2>4
    <2> QED
        BY <2>1, <2>2, <2>5, <2>6, <2>7
<1>26. CASE \E s \in Servers : StopPreview(s)
    BY <1>26 DEF StopPreview, Message, Camera
<1>27. CASE \E s \in Servers : AnnounceStop(s)
    <2>0. PICK s \in Servers : AnnounceStop(s)
        BY <1>27
    <2>1. msgs' \in [Servers -> Seq(Messages)]
        BY <2>0 DEF AnnounceStop, Begin, TellStop, Thread
    <2>2. thread' \in [Servers -> Steps]
        BY <2>0 DEF AnnounceStop, Begin, TellStop, Thread
    <2>3. camera' \in [Servers -> States]
        BY <2>0 DEF AnnounceStop, Begin, TellStop, Thread
    <2>4. misled' \in {misled, misled \ {s}}
        BY <2>0, Zenon DEF AnnounceStop
    <2>5. UNCHANGED ending
        BY <2>0 DEF AnnounceStop
    <2> QED
        BY <2>1, <2>2, <2>3, <2>4, <2>5
<1>28. CASE \E s \in Servers : Announced(s)
    BY <1>28 DEF Announced, Begin, Thread
<1>29. CASE \E s \in Servers : AnnounceStart(s)
    <2>0. PICK s \in Servers : AnnounceStart(s)
        BY <1>29
    <2>1. CASE broadcast[s] = Nobody
        <3>1. misled' \in {misled, misled \cup {s}}
            BY <2>0, <2>1, Zenon DEF AnnounceStart, Mislead
        <3>2. thread' = [thread EXCEPT ![s] = "started"]
            BY <2>0, <2>1, Zenon DEF AnnounceStart, Thread
        <3>3. UNCHANGED <<msgs, camera, ending>>
            BY <2>0 DEF AnnounceStart
        <3> QED
            BY <3>1, <3>2, <3>3
    <2>2. CASE broadcast[s] # Nobody
        <3>1. misled' = misled /\ thread' = [thread EXCEPT ![s] = "idle"]
            BY <2>0, <2>2, Zenon DEF AnnounceStart, Thread
        <3>2. UNCHANGED <<msgs, camera, ending>>
            BY <2>0 DEF AnnounceStart
        <3> QED
            BY <3>1, <3>2
    <2> QED
        BY <2>1, <2>2
<1>30. CASE \E s \in Servers : NewCamera(s)
    BY <1>30 DEF NewCamera, Camera
<1>31. CASE \E s \in Servers : OpenCamera(s)
    <2>0. PICK s \in Servers : OpenCamera(s)
        BY <1>31
    <2>1. msgs' \in [Servers -> Seq(Messages)]
        BY <2>0 DEF OpenCamera, Camera, Thread
    <2>2. thread' \in [Servers -> Steps]
        BY <2>0 DEF OpenCamera, Camera, Thread
    <2>3. camera' \in [Servers -> States]
        BY <2>0 DEF OpenCamera, Camera, Thread
    <2>4. released' \subseteq Servers /\ misled' \subseteq Servers /\ overtaken' \subseteq Servers
        BY <2>0 DEF OpenCamera, Camera, Thread
    <2> QED
        BY <2>1, <2>2, <2>3, <2>4
<1>32. CASE UNCHANGED vars
    BY <1>32 DEF vars
<1> QED
    BY <1>1, <1>2, <1>3, <1>4, <1>5, <1>6, <1>7, <1>8, <1>9, <1>10, <1>11,
       <1>12, <1>13, <1>14, <1>15, <1>16, <1>17, <1>18, <1>19, <1>20, <1>21,
       <1>22, <1>23, <1>24, <1>25, <1>26, <1>27, <1>28, <1>29, <1>30, <1>31,
       <1>32, Cases

LEMMA CallbacksStep == Types /\ HeldInv /\ [Next]_vars => CallbacksType'
<1> SUFFICES ASSUME Types /\ HeldInv, [Next]_vars PROVE CallbacksType'
    OBVIOUS
<1> USE ServiceAssumption DEF Types, ServiceType, ThreadsType, CamerasType,
        CallbacksType, HeldInv, Threads, Servers, Places, Tasks, Messages,
        Steps, States, vars, system, usb, table, client, remote, cameras,
        ending, rest, Goto, Take, Send, NotifyService
<1>1. CASE Grant
    BY <1>1 DEF Grant
<1>2. CASE Deny
    BY <1>2 DEF Deny
<1>3. CASE Unplug
    BY <1>3 DEF Unplug
<1>4. CASE \E c \in Clients : Select(c)
    BY <1>4 DEF Select, Call
<1>5. CASE \E c \in Clients : Permitted(c)
    BY <1>5 DEF Permitted
<1>6. CASE \E c \in Clients : RegisterCallback(c)
    <2>0. PICK c \in Clients : RegisterCallback(c)
        BY <1>6
    <2>1. held[c] \in Servers
        BY <2>0 DEF RegisterCallback
    <2>2. UNCHANGED <<told, broadcast, misled, camera, thread>>
        BY <2>0 DEF RegisterCallback
    <2>3. CASE held[c] \in released
        <3>1. UNCHANGED <<callbacks, forgotten>>
            BY <2>0, <2>3, Zenon DEF RegisterCallback
        <3> QED
            BY <2>2, <3>1
    <2>4. CASE held[c] \notin released
        <3>1. /\ callbacks' = [callbacks EXCEPT ![held[c]] = @ \cup {c}]
              /\ forgotten' = [forgotten EXCEPT ![held[c]] = @ \cup (told[held[c]] \cap {c})]
            BY <2>0, <2>4, Zenon DEF RegisterCallback
        <3> QED
            BY <2>1, <2>2, <3>1
    <2> QED
        BY <2>3, <2>4
<1>7. CASE \E c \in Clients : Connect(c)
    BY <1>7 DEF Connect, Ask, Call
<1>8. CASE \E c \in Clients : Disconnect(c)
    BY <1>8 DEF Disconnect, Ask, Call
<1>9. CASE \E c \in Clients : GetCameraServer(c)
    BY <1>9 DEF GetCameraServer
<1>10. CASE \E c \in Clients : SendOpen(c)
    BY <1>10, SMTT(20) DEF SendOpen
<1>11. CASE \E c \in Clients : SendStart(c)
    BY <1>11 DEF SendStart
<1>12. CASE \E c \in Clients : IsConnected(c)
    BY <1>12 DEF IsConnected
<1>13. CASE \E c \in Clients : Unbind(c)
    BY <1>13 DEF Unbind
<1>14. CASE \E t \in Threads : SendClose(t)
    BY <1>14 DEF SendClose, SyncFree
<1>15. CASE \E t \in Threads : Disconnected(t)
    BY <1>15 DEF Disconnected, SyncFree
<1>16. CASE \E w \in {Worker, Main} : Release(w)
    BY <1>16 DEF Release
<1>17. CASE \E w \in {Worker, Main} : CheckReleaseService(w)
    BY <1>17 DEF CheckReleaseService
<1>18. CASE CreateServer
    BY <1>18 DEF CreateServer, Event
<1>19. CASE RemoveService
    BY <1>19 DEF RemoveService, Event
<1>20. CASE OnUnbind
    BY <1>20 DEF OnUnbind
<1>21. CASE \E c \in Clients : AnnounceConnect(c)
    <2>0. PICK c \in Clients : AnnounceConnect(c)
        BY <1>21
    <2>1. held[c] \in Servers
        BY <2>0 DEF AnnounceConnect
    <2>2. CASE broadcast[held[c]] = Nobody
        <3>1. /\ told' = [told EXCEPT ![held[c]] = @ \cup callbacks[held[c]]]
              /\ forgotten' = [forgotten EXCEPT ![held[c]] = @ \ callbacks[held[c]]]
              /\ callbacks' = callbacks
            BY <2>0, <2>2 DEF AnnounceConnect, TellStart
        <3>2. broadcast' = [broadcast EXCEPT ![held[c]] = c]
            BY <2>0, <2>2 DEF AnnounceConnect, Begin
        <3>3. broadcast' \in [Servers -> Servers \cup Clients \cup {Nobody}]
            BY <3>2
        <3>4. told' \in [Servers -> SUBSET Clients] /\ forgotten' \in [Servers -> SUBSET Clients]
            <4>1. told[held[c]] \cup callbacks[held[c]] \in SUBSET Clients
                BY <2>1
            <4>2. forgotten[held[c]] \ callbacks[held[c]] \in SUBSET Clients
                BY <2>1
            <4>3. told \in [Servers -> SUBSET Clients] /\ forgotten \in [Servers -> SUBSET Clients]
                OBVIOUS
            <4> QED
                BY <3>1, <4>1, <4>2, <4>3, Updated, Zenon
        <3>5. \A r \in Servers : told'[r] \ forgotten'[r] \subseteq callbacks'[r]
            BY <2>1, <3>1
        <3> QED
            BY <3>1, <3>3, <3>4, <3>5
    <2>3. CASE broadcast[held[c]] # Nobody
        BY <2>0, <2>1, <2>3 DEF AnnounceConnect
    <2> QED
        BY <2>2, <2>3
<1>22. CASE \E c \in Clients : AnnouncedConnect(c)
    BY <1>22 DEF AnnouncedConnect, Begin
<1>23. CASE \E s \in Servers : Open(s)
    BY <1>23 DEF Open
<1>24. CASE \E s \in Servers : Close(s)
    BY <1>24 DEF Close
<1>25. CASE \E s \in Servers : StartPreview(s)
    BY <1>25 DEF StartPreview, Message, Destroy, Camera
<1>26. CASE \E s \in Servers : StopPreview(s)
    BY <1>26 DEF StopPreview, Message, Camera
<1>27. CASE \E s \in Servers : AnnounceStop(s)
    <2>0. PICK s \in Servers : AnnounceStop(s)
        BY <1>27
    <2>1. callbacks' \in [Servers -> SUBSET Clients]
        BY <2>0 DEF AnnounceStop, Begin, TellStop, Thread
    <2>2. told' \in [Servers -> SUBSET Clients] /\ forgotten' \in [Servers -> SUBSET Clients]
        BY <2>0 DEF AnnounceStop, Begin, TellStop, Thread
    <2>3. \A r \in Servers : told'[r] \ forgotten'[r] \subseteq callbacks'[r]
        <3>1. CASE broadcast[s] = Nobody
            <4>1. told' = [told EXCEPT ![s] = @ \cap forgotten[s]]
                BY <2>0, <3>1, Zenon DEF AnnounceStop, TellStop
            <4>2. UNCHANGED <<callbacks, forgotten>>
                BY <2>0, <3>1 DEF AnnounceStop, TellStop
            <4> QED
                BY <4>1, <4>2
        <3>2. CASE broadcast[s] # Nobody
            BY <2>0, <3>2 DEF AnnounceStop
        <3> QED
            BY <3>1, <3>2
    <2>4. broadcast' \in [Servers -> Servers \cup Clients \cup {Nobody}]
        <3>1. CASE broadcast[s] = Nobody
            <4>1. broadcast' = [broadcast EXCEPT ![s] = s]
                BY <2>0, <3>1 DEF AnnounceStop, Begin
            <4> QED
                BY <4>1
        <3>2. CASE broadcast[s] # Nobody
            BY <2>0, <3>2 DEF AnnounceStop
        <3> QED
            BY <3>1, <3>2
    <2> QED
        BY <2>1, <2>2, <2>3, <2>4
<1>28. CASE \E s \in Servers : Announced(s)
    BY <1>28 DEF Announced, Begin, Thread
<1>29. CASE \E s \in Servers : AnnounceStart(s)
    <2>0. PICK s \in Servers : AnnounceStart(s)
        BY <1>29
    <2>1. CASE broadcast[s] = Nobody
        <3>1. /\ told' = [told EXCEPT ![s] = @ \cup callbacks[s]]
              /\ forgotten' = [forgotten EXCEPT ![s] = @ \ callbacks[s]]
              /\ callbacks' = callbacks
            BY <2>0, <2>1 DEF AnnounceStart, TellStart
        <3>2. broadcast' = [broadcast EXCEPT ![s] = s]
            BY <2>0, <2>1 DEF AnnounceStart, Begin
        <3> QED
            BY <3>1, <3>2
    <2>2. CASE broadcast[s] # Nobody
        BY <2>0, <2>2 DEF AnnounceStart, Thread
    <2> QED
        BY <2>1, <2>2
<1>30. CASE \E s \in Servers : NewCamera(s)
    BY <1>30 DEF NewCamera, Camera
<1>31. CASE \E s \in Servers : OpenCamera(s)
    BY <1>31 DEF OpenCamera, Camera, Thread
<1>32. CASE UNCHANGED vars
    BY <1>32 DEF vars
<1> QED
    BY <1>1, <1>2, <1>3, <1>4, <1>5, <1>6, <1>7, <1>8, <1>9, <1>10, <1>11,
       <1>12, <1>13, <1>14, <1>15, <1>16, <1>17, <1>18, <1>19, <1>20, <1>21,
       <1>22, <1>23, <1>24, <1>25, <1>26, <1>27, <1>28, <1>29, <1>30, <1>31,
       <1>32, Cases

\* what a thread holds,
LEMMA HeldStep == Types /\ HeldInv /\ [Next]_vars => HeldInv'
<1> SUFFICES ASSUME Types /\ HeldInv, [Next]_vars PROVE HeldInv'
    OBVIOUS
<1> USE ServiceAssumption DEF Types, ServiceType, ThreadsType, CamerasType,
        CallbacksType, HeldInv, Threads, Servers, Places, Tasks, Messages,
        Steps, States, vars, system, usb, table, client, remote, cameras,
        ending, rest, Goto, Take, Send, NotifyService
<1>1. CASE Grant
    BY <1>1 DEF Grant
<1>2. CASE Deny
    BY <1>2 DEF Deny
<1>3. CASE Unplug
    BY <1>3 DEF Unplug
<1>4. CASE \E c \in Clients : Select(c)
    BY <1>4 DEF Select, Call
<1>5. CASE \E c \in Clients : Permitted(c)
    BY <1>5 DEF Permitted
<1>6. CASE \E c \in Clients : RegisterCallback(c)
    BY <1>6 DEF RegisterCallback
<1>7. CASE \E c \in Clients : Connect(c)
    BY <1>7 DEF Connect, Ask, Call
<1>8. CASE \E c \in Clients : Disconnect(c)
    BY <1>8 DEF Disconnect, Ask, Call
<1>9. CASE \E c \in Clients : GetCameraServer(c)
    BY <1>9 DEF GetCameraServer
<1>10. CASE \E c \in Clients : SendOpen(c)
    BY <1>10 DEF SendOpen
<1>11. CASE \E c \in Clients : SendStart(c)
    BY <1>11 DEF SendStart
<1>12. CASE \E c \in Clients : IsConnected(c)
    BY <1>12 DEF IsConnected
<1>13. CASE \E c \in Clients : Unbind(c)
    BY <1>13 DEF Unbind
<1>14. CASE \E t \in Threads : SendClose(t)
    BY <1>14 DEF SendClose, SyncFree
<1>15. CASE \E t \in Threads : Disconnected(t)
    BY <1>15 DEF Disconnected, SyncFree
<1>16. CASE \E w \in {Worker, Main} : Release(w)
    BY <1>16 DEF Release
<1>17. CASE \E w \in {Worker, Main} : CheckReleaseService(w)
    BY <1>17 DEF CheckReleaseService
<1>18. CASE CreateServer
    BY <1>18 DEF CreateServer, Event
<1>19. CASE RemoveService
    <2>1. UNCHANGED op \/ op' = [op EXCEPT ![Worker] = "remove"]
        BY <1>19 DEF RemoveService
    <2>2. held' = [held EXCEPT ![Worker] = server]
        BY <1>19 DEF RemoveService
    <2>3. CASE server # 0
        <3>1. pc' = [pc EXCEPT ![Worker] = "disconnect"]
            BY <1>19, <2>3 DEF RemoveService
        <3>2. op' = [op EXCEPT ![Worker] = "remove"]
            BY <1>19, <2>3 DEF RemoveService
        <3>3. server \in Servers
            BY <2>3
        <3> QED
            BY <2>2, <3>1, <3>2, <3>3
    <2>4. CASE server = 0
        <3>1. op' = op /\ NotifyService(Worker, "check")
            BY <1>19, <2>4 DEF RemoveService
        <3> QED
            BY <2>2, <3>1
    <2> QED
        BY <2>3, <2>4
<1>20. CASE OnUnbind
    BY <1>20 DEF OnUnbind
<1>21. CASE \E c \in Clients : AnnounceConnect(c)
    BY <1>21 DEF AnnounceConnect, Begin, TellStart, Mislead
<1>22. CASE \E c \in Clients : AnnouncedConnect(c)
    BY <1>22 DEF AnnouncedConnect, Begin
<1>23. CASE \E s \in Servers : Open(s)
    BY <1>23 DEF Open, Message, HandleClose, Destroy, Camera, Thread, NotifySync
<1>24. CASE \E s \in Servers : Close(s)
    BY <1>24 DEF Close, Message, HandleClose, Destroy, Camera, Thread, NotifySync
<1>25. CASE \E s \in Servers : StartPreview(s)
    BY <1>25 DEF StartPreview, Message, Destroy, Camera
<1>26. CASE \E s \in Servers : StopPreview(s)
    BY <1>26 DEF StopPreview, Message, Camera
<1>27. CASE \E s \in Servers : AnnounceStop(s)
    BY <1>27 DEF AnnounceStop, Begin, TellStop, Thread
<1>28. CASE \E s \in Servers : Announced(s)
    BY <1>28 DEF Announced, Begin, Thread
<1>29. CASE \E s \in Servers : AnnounceStart(s)
    BY <1>29 DEF AnnounceStart, Begin, TellStart, Mislead, Thread
<1>30. CASE \E s \in Servers : NewCamera(s)
    BY <1>30 DEF NewCamera, Camera
<1>31. CASE \E s \in Servers : OpenCamera(s)
    BY <1>31 DEF OpenCamera, Camera, Thread
<1>32. CASE UNCHANGED vars
    BY <1>32 DEF vars
<1> QED
    BY <1>1, <1>2, <1>3, <1>4, <1>5, <1>6, <1>7, <1>8, <1>9, <1>10, <1>11,
       <1>12, <1>13, <1>14, <1>15, <1>16, <1>17, <1>18, <1>19, <1>20, <1>21,
       <1>22, <1>23, <1>24, <1>25, <1>26, <1>27, <1>28, <1>29, <1>30, <1>31,
       <1>32, Cases

\* and the truth of what clients were told.
LEMMA TruthStep == Types /\ HeldInv /\ ToldTruth /\ [Next]_vars => ToldTruth'
<1> SUFFICES ASSUME Types /\ HeldInv /\ ToldTruth, [Next]_vars PROVE ToldTruth'
    OBVIOUS
<1> USE ServiceAssumption DEF Types, ServiceType, ThreadsType, CamerasType,
        CallbacksType, HeldInv, Threads, Servers, Places, Tasks, Messages,
        Steps, States, vars, system, usb, table, client, remote, cameras,
        ending, rest, Goto, Take, Send, NotifyService, ToldTruth
<1>1. CASE Grant
    BY <1>1 DEF Grant
<1>2. CASE Deny
    BY <1>2 DEF Deny
<1>3. CASE Unplug
    BY <1>3 DEF Unplug
<1>4. CASE \E c \in Clients : Select(c)
    BY <1>4 DEF Select, Call
<1>5. CASE \E c \in Clients : Permitted(c)
    BY <1>5 DEF Permitted
<1>6. CASE \E c \in Clients : RegisterCallback(c)
    <2>0. PICK c \in Clients : RegisterCallback(c)
        BY <1>6
    <2>1. held[c] \in Servers
        BY <2>0 DEF RegisterCallback
    <2>2. UNCHANGED <<told, broadcast, misled, camera, thread>>
        BY <2>0 DEF RegisterCallback
    <2>3. CASE held[c] \in released
        <3>1. UNCHANGED <<callbacks, forgotten>>
            BY <2>0, <2>3, Zenon DEF RegisterCallback
        <3> QED
            BY <2>2, <3>1
    <2>4. CASE held[c] \notin released
        <3>1. /\ callbacks' = [callbacks EXCEPT ![held[c]] = @ \cup {c}]
              /\ forgotten' = [forgotten EXCEPT ![held[c]] = @ \cup (told[held[c]] \cap {c})]
            BY <2>0, <2>4, Zenon DEF RegisterCallback
        <3> QED
            BY <2>1, <2>2, <3>1
    <2> QED
        BY <2>3, <2>4
<1>7. CASE \E c \in Clients : Connect(c)
    BY <1>7 DEF Connect, Ask, Call
<1>8. CASE \E c \in Clients : Disconnect(c)
    BY <1>8 DEF Disconnect, Ask, Call
<1>9. CASE \E c \in Clients : GetCameraServer(c)
    BY <1>9 DEF GetCameraServer
<1>10. CASE \E c \in Clients : SendOpen(c)
    BY <1>10 DEF SendOpen
<1>11. CASE \E c \in Clients : SendStart(c)
    BY <1>11 DEF SendStart
<1>12. CASE \E c \in Clients : IsConnected(c)
    BY <1>12 DEF IsConnected
<1>13. CASE \E c \in Clients : Unbind(c)
    BY <1>13 DEF Unbind
<1>14. CASE \E t \in Threads : SendClose(t)
    BY <1>14 DEF SendClose, SyncFree
<1>15. CASE \E t \in Threads : Disconnected(t)
    BY <1>15 DEF Disconnected, SyncFree
<1>16. CASE \E w \in {Worker, Main} : Release(w)
    BY <1>16 DEF Release
<1>17. CASE \E w \in {Worker, Main} : CheckReleaseService(w)
    BY <1>17 DEF CheckReleaseService
<1>18. CASE CreateServer
    BY <1>18 DEF CreateServer, Event
<1>19. CASE RemoveService
    BY <1>19 DEF RemoveService, Event
<1>20. CASE OnUnbind
    BY <1>20 DEF OnUnbind
<1>21. CASE \E c \in Clients : AnnounceConnect(c)
    <2>0. PICK c \in Clients : AnnounceConnect(c)
        BY <1>21
    <2>1. held[c] \in Servers
        BY <2>0 DEF AnnounceConnect
    <2>2. UNCHANGED <<camera, thread>>
        BY <2>0 DEF AnnounceConnect
    <2>3. CASE broadcast[held[c]] = Nobody
        <3>1. /\ told' = [told EXCEPT ![held[c]] = @ \cup callbacks[held[c]]]
              /\ forgotten' = [forgotten EXCEPT ![held[c]] = @ \ callbacks[held[c]]]
            BY <2>0, <2>3 DEF AnnounceConnect, TellStart
        <3>2. misled' = IF camera[held[c]] = "null" THEN misled \cup {held[c]} ELSE misled
            BY <2>0, <2>3, Zenon DEF AnnounceConnect, Mislead
        <3> QED
            BY <2>1, <2>2, <3>1, <3>2
    <2>4. CASE broadcast[held[c]] # Nobody
        BY <2>0, <2>2, <2>4 DEF AnnounceConnect
    <2> QED
        BY <2>3, <2>4
<1>22. CASE \E c \in Clients : AnnouncedConnect(c)
    BY <1>22 DEF AnnouncedConnect, Begin
<1>23. CASE \E s \in Servers : Open(s)
    BY <1>23 DEF Open, Message, HandleClose, Destroy, Camera, Thread, NotifySync
<1>24. CASE \E s \in Servers : Close(s)
    BY <1>24 DEF Close, Message, HandleClose, Destroy, Camera, Thread, NotifySync
<1>25. CASE \E s \in Servers : StartPreview(s)
    <2>0. PICK s \in Servers : StartPreview(s)
        BY <1>25
    <2>1. told' = told /\ forgotten' = forgotten /\ thread' = thread
        BY <2>0 DEF StartPreview
    <2>2. \/ camera' = [camera EXCEPT ![s] = "previewing"] /\ misled' = misled
          \/ camera' = [camera EXCEPT ![s] = "null"] /\ misled' = misled \cup {s}
          \/ camera' = camera /\ misled' = misled
        BY <2>0, Zenon DEF StartPreview, Destroy, Camera
    <2> QED
        BY <2>1, <2>2
<1>26. CASE \E s \in Servers : StopPreview(s)
    BY <1>26 DEF StopPreview, Message, Camera
<1>27. CASE \E s \in Servers : AnnounceStop(s)
    <2>0. PICK s \in Servers : AnnounceStop(s)
        BY <1>27
    <2>1. camera' = camera
        BY <2>0 DEF AnnounceStop
    <2>2. CASE broadcast[s] = Nobody
        <3>1. /\ told' = [told EXCEPT ![s] = @ \cap forgotten[s]]
              /\ forgotten' = forgotten /\ misled' = misled \ {s}
            BY <2>0, <2>2 DEF AnnounceStop, TellStop
        <3>2. \A r \in Servers : r # s => thread'[r] = thread[r]
            BY <2>0, <2>2 DEF AnnounceStop, Thread
        <3> QED
            BY <2>1, <3>1, <3>2
    <2>3. CASE broadcast[s] # Nobody
        BY <2>0, <2>1, <2>3 DEF AnnounceStop
    <2> QED
        BY <2>2, <2>3
<1>28. CASE \E s \in Servers : Announced(s)
    BY <1>28 DEF Announced, Begin, Thread
<1>29. CASE \E s \in Servers : AnnounceStart(s)
    <2>0. PICK s \in Servers : AnnounceStart(s)
        BY <1>29
    <2>1. camera' = camera /\ thread[s] = "announce"
        BY <2>0 DEF AnnounceStart
    <2>2. CASE broadcast[s] = Nobody
        <3>1. /\ told' = [told EXCEPT ![s] = @ \cup callbacks[s]]
              /\ forgotten' = [forgotten EXCEPT ![s] = @ \ callbacks[s]]
              /\ thread' = [thread EXCEPT ![s] = "started"]
            BY <2>0, <2>2 DEF AnnounceStart, TellStart, Thread
        <3>2. misled' = IF camera[s] = "null" THEN misled \cup {s} ELSE misled
            BY <2>0, <2>2, Zenon DEF AnnounceStart, Mislead
        <3> QED
            BY <2>1, <3>1, <3>2
    <2>3. CASE broadcast[s] # Nobody
        <3>1. /\ UNCHANGED <<told, forgotten, misled>>
              /\ thread' = [thread EXCEPT ![s] = "idle"]
            BY <2>0, <2>3, Zenon DEF AnnounceStart, Thread
        <3> QED
            BY <2>1, <3>1
    <2> QED
        BY <2>2, <2>3
<1>30. CASE \E s \in Servers : NewCamera(s)
    BY <1>30 DEF NewCamera, Camera
<1>31. CASE \E s \in Servers : OpenCamera(s)
    BY <1>31 DEF OpenCamera, Camera, Thread
<1>32. CASE UNCHANGED vars
    BY <1>32 DEF vars
<1> QED
    BY <1>1, <1>2, <1>3, <1>4, <1>5, <1>6, <1>7, <1>8, <1>9, <1>10, <1>11,
       <1>12, <1>13, <1>14, <1>15, <1>16, <1>17, <1>18, <1>19, <1>20, <1>21,
       <1>22, <1>23, <1>24, <1>25, <1>26, <1>27, <1>28, <1>29, <1>30, <1>31,
       <1>32, Cases

-----------------------------------------------------------------------------
(***************************************************************************)
(* The order of open and close in a queue.                                 *)
(***************************************************************************)
\* A close that was just sent comes after every open; another message, other than
\* an open, changes nothing.
LEMMA CloseSent ==
    ASSUME NEW q \in Seq(Messages)
    PROVE  EndsClosed(q \o <<"stop", "close">>)
<1> DEFINE r == q \o <<"stop", "close">>
<1>1. Len(r) = Len(q) + 2 /\ DOMAIN r = 1 .. Len(r) /\ Len(q) \in Nat
    OBVIOUS
<1>2. r[Len(r)] = "close"
    OBVIOUS
<1>3. \A i \in DOMAIN r : r[i] = "open" => i < Len(r)
    BY <1>1, <1>2
<1> HIDE DEF r
<1> QED
    BY <1>1, <1>2, <1>3 DEF EndsClosed, r

LEMMA OtherSent ==
    ASSUME NEW q \in Seq(Messages), NEW m \in Messages \ {"open"}
    PROVE  /\ Opens(q \o <<m>>) => Opens(q)
           /\ EndsClosed(q) => EndsClosed(q \o <<m>>)
<1> DEFINE r == q \o <<m>>
<1>1. /\ Len(r) = Len(q) + 1 /\ DOMAIN r = 1 .. Len(r) /\ DOMAIN q = 1 .. Len(q)
      /\ Len(q) \in Nat /\ r[Len(r)] = m
    OBVIOUS
<1>2. \A i \in DOMAIN q : r[i] = q[i]
    OBVIOUS
<1>3. m # "open"
    OBVIOUS
<1> HIDE DEF r
<1>4. \A i \in DOMAIN r : i \in DOMAIN q \/ i = Len(r)
    BY <1>1
<1>5. Opens(r) => Opens(q)
    BY <1>1, <1>2, <1>3, <1>4 DEF Opens
<1>6. EndsClosed(q) => EndsClosed(r)
    BY <1>1, <1>2, <1>3, <1>4 DEF EndsClosed
<1> QED
    BY <1>5, <1>6 DEF r

\* A message was handled: the close comes later if there is an open that does,
\* or if it was another message.
LEMMA Handled ==
    ASSUME NEW q \in Seq(Messages), q # <<>>
    PROVE  /\ Opens(Tail(q)) => Opens(q)
           /\ EndsClosed(q) /\ (Head(q) # "close" \/ Opens(Tail(q)))
                 => EndsClosed(Tail(q))
<1> DEFINE r == Tail(q)
<1>1. /\ Len(r) = Len(q) - 1 /\ DOMAIN r = 1 .. Len(r) /\ DOMAIN q = 1 .. Len(q)
      /\ Len(q) \in Nat /\ Len(q) > 0 /\ Head(q) = q[1]
    OBVIOUS
<1>2. \A i \in DOMAIN r : r[i] = q[i + 1] /\ i + 1 \in DOMAIN q
    BY <1>1
<1> HIDE DEF r
<1>3. \A i \in DOMAIN q : i # 1 => i - 1 \in DOMAIN r /\ r[i - 1] = q[i]
    <2> SUFFICES ASSUME NEW i \in DOMAIN q, i # 1
                 PROVE  i - 1 \in DOMAIN r /\ r[i - 1] = q[i]
        OBVIOUS
    <2>1. i - 1 \in DOMAIN r /\ (i - 1) + 1 = i
        BY <1>1
    <2> QED
        BY <1>2, <2>1
<1>4. Opens(r) => Opens(q)
    BY <1>2 DEF Opens
<1>5. ASSUME EndsClosed(q), Head(q) # "close" \/ Opens(r)
      PROVE  EndsClosed(r)
    <2>1. PICK j \in DOMAIN q : q[j] = "close" /\ \A i \in DOMAIN q : q[i] = "open" => i < j
        BY <1>5 DEF EndsClosed
    <2>2. j # 1
        <3>1. CASE Head(q) # "close"
            BY <1>1, <2>1, <3>1
        <3>2. CASE Opens(r)
            <4>1. PICK i \in DOMAIN r : r[i] = "open"
                BY <3>2 DEF Opens
            <4>2. i + 1 < j /\ i \in Nat
                BY <1>1, <1>2, <2>1, <4>1
            <4> QED
                BY <4>2
        <3> QED
            BY <1>5, <3>1, <3>2
    <2>3. j - 1 \in DOMAIN r /\ r[j - 1] = "close"
        BY <1>3, <2>1, <2>2
    <2>4. \A i \in DOMAIN r : r[i] = "open" => i < j - 1
        <3> SUFFICES ASSUME NEW i \in DOMAIN r, r[i] = "open"
                     PROVE  i < j - 1
            OBVIOUS
        <3>1. i + 1 < j
            BY <1>2, <2>1
        <3> QED
            BY <1>1, <3>1
    <2> QED
        BY <2>3, <2>4 DEF EndsClosed
<1> QED
    BY <1>4, <1>5 DEF r

-----------------------------------------------------------------------------
(***************************************************************************)
(* A server that is being released closes its camera.                      *)
(***************************************************************************)
\* Nothing is asked of a server that the release has not yet told to close.
LEMMA Settled ==
    ASSUME EndingCloses, overtaken' = overtaken,
           \A s \in Servers : Ending(s)' => Ending(s),
           \A s \in Servers : InUse(s)' => InUse(s),
           \A s \in Servers : InUse(s)' /\ EndsClosed(msgs[s]) => EndsClosed(msgs[s])'
    PROVE  EndingCloses'
BY DEF EndingCloses

\* Nothing happens to the camera threads.
LEMMA Quiet ==
    ASSUME EndingCloses, UNCHANGED <<msgs, thread, camera, overtaken>>,
           \A s \in Servers : Ending(s)' => Ending(s)
    PROVE  EndingCloses'
<1>1. \A s \in Servers : InUse(s)' = InUse(s) /\ msgs'[s] = msgs[s]
    BY DEF InUse, Opening
<1> QED
    BY <1>1, Settled

\* A camera thread that goes on by itself, or notifies who waits for it.
LEMMA NotEnding ==
    ASSUME UNCHANGED <<held, released>>, Types, NEW s \in Servers,
           pc' = pc \/ NotifySync(s)
    PROVE  \A r \in Servers : Ending(r)' => Ending(r)
BY DEF Ending, NotifySync, Types, ThreadsType, Threads

\* Only the release makes a server end, and it sends the close.
LEMMA EndingStep == Types /\ HeldInv /\ EndingCloses /\ [Next]_vars => EndingCloses'
<1> SUFFICES ASSUME Types, HeldInv, EndingCloses, [Next]_vars PROVE EndingCloses'
    OBVIOUS
<1> USE ServiceAssumption DEF Types, ThreadsType, CamerasType, HeldInv,
        Threads, Servers,
          vars, system, usb, table, client, remote, cameras, ending, rest
<1>1. CASE Grant
    <2>1. UNCHANGED <<msgs, thread, camera, overtaken>>
        BY <1>1 DEF Grant
    <2>2. \A s \in Servers : Ending(s)' => Ending(s)
        BY <1>1 DEF Grant, Goto, Take, Ending
    <2> QED
        BY <2>1, <2>2, Quiet
<1>2. CASE Deny
    <2>1. UNCHANGED <<msgs, thread, camera, overtaken>>
        BY <1>2 DEF Deny
    <2>2. \A s \in Servers : Ending(s)' => Ending(s)
        BY <1>2 DEF Deny, NotifyService, Goto, Take, Ending
    <2> QED
        BY <2>1, <2>2, Quiet
<1>3. CASE Unplug
    <2>1. UNCHANGED <<msgs, thread, camera, overtaken>>
        BY <1>3 DEF Unplug
    <2>2. \A s \in Servers : Ending(s)' => Ending(s)
        BY <1>3 DEF Unplug, Goto, Take, Ending
    <2> QED
        BY <2>1, <2>2, Quiet
<1>4. CASE \E c \in Clients : Select(c)
    <2>1. UNCHANGED <<msgs, thread, camera, overtaken>>
        BY <1>4 DEF Select
    <2>2. \A s \in Servers : Ending(s)' => Ending(s)
        BY <1>4 DEF Select, Goto, Take, Ending
    <2> QED
        BY <2>1, <2>2, Quiet
<1>5. CASE \E c \in Clients : Permitted(c)
    <2>1. UNCHANGED <<msgs, thread, camera, overtaken>>
        BY <1>5 DEF Permitted
    <2>2. \A s \in Servers : Ending(s)' => Ending(s)
        BY <1>5 DEF Permitted, Goto, Take, Ending
    <2> QED
        BY <2>1, <2>2, Quiet
<1>6. CASE \E c \in Clients : RegisterCallback(c)
    <2>1. UNCHANGED <<msgs, thread, camera, overtaken>>
        BY <1>6 DEF RegisterCallback
    <2>2. \A s \in Servers : Ending(s)' => Ending(s)
        BY <1>6 DEF RegisterCallback, Goto, Take, Ending
    <2> QED
        BY <2>1, <2>2, Quiet
<1>7. CASE \E c \in Clients : Connect(c)
    <2>1. UNCHANGED <<msgs, thread, camera, overtaken>>
        BY <1>7 DEF Connect, Ask, Call
    <2>2. \A s \in Servers : Ending(s)' => Ending(s)
        BY <1>7 DEF Connect, Ask, Call, Goto, Take, Ending
    <2> QED
        BY <2>1, <2>2, Quiet
<1>8. CASE \E c \in Clients : Disconnect(c)
    <2>1. UNCHANGED <<msgs, thread, camera, overtaken>>
        BY <1>8 DEF Disconnect, Ask, Call
    <2>2. \A s \in Servers : Ending(s)' => Ending(s)
        BY <1>8 DEF Disconnect, Ask, Call, Goto, Take, Ending
    <2> QED
        BY <2>1, <2>2, Quiet
<1>9. CASE \E c \in Clients : GetCameraServer(c)
    <2>1. UNCHANGED <<msgs, thread, camera, overtaken>>
        BY <1>9 DEF GetCameraServer
    <2>2. \A s \in Servers : Ending(s)' => Ending(s)
        BY <1>9 DEF GetCameraServer, Goto, Take, Ending
    <2> QED
        BY <2>1, <2>2, Quiet
<1>10. CASE \E c \in Clients : SendOpen(c)
    <2>0. PICK c \in Clients : SendOpen(c)
        BY <1>10
    <2>1. held[c] \in Servers
        BY <2>0 DEF SendOpen
    <2>2. /\ \A s \in Servers : Ending(s)' => Ending(s)
          /\ UNCHANGED <<thread, camera>>
        BY <2>0 DEF SendOpen, Goto, Ending
    <2>3. CASE camera[held[c]] # "null"
        <3>1. UNCHANGED <<msgs, overtaken>>
            BY <2>0, <2>3 DEF SendOpen
        <3> QED
            BY <2>2, <3>1, Quiet
    <2>4. CASE camera[held[c]] = "null"
        <3>1. \A s \in Servers : s # held[c] => msgs'[s] = msgs[s]
            BY <2>0, <2>4 DEF SendOpen, Send
        <3>2. overtaken' = IF Ending(held[c]) THEN overtaken \cup {held[c]} ELSE overtaken
            BY <2>0, <2>4, Zenon DEF SendOpen
        <3>3. \A s \in Servers : s # held[c] => InUse(s)' = InUse(s)
            BY <2>2, <3>1 DEF InUse, Opening
        <3> SUFFICES ASSUME NEW s \in Servers \ overtaken', Ending(s)', InUse(s)'
                     PROVE  EndsClosed(msgs'[s])
            BY DEF EndingCloses
        <3>4. Ending(s) /\ s \notin overtaken /\ s # held[c]
            BY <2>2, <3>2
        <3> QED
            BY <3>1, <3>3, <3>4 DEF EndingCloses
    <2> QED
        BY <2>3, <2>4
<1>11. CASE \E c \in Clients : SendStart(c)
    <2>0. PICK c \in Clients : SendStart(c)
        BY <1>11
    <2>1. held[c] \in Servers
        BY <2>0 DEF SendStart
    <2>2. /\ \A s \in Servers : Ending(s)' => Ending(s)
          /\ UNCHANGED <<thread, camera, overtaken>>
        BY <2>0 DEF SendStart, Goto, Ending
    <2>3. CASE held[c] \in released
        BY <2>0, <2>2, <2>3, Quiet DEF SendStart
    <2>4. CASE held[c] \notin released
        <3>1. msgs' = [msgs EXCEPT ![held[c]] = msgs[held[c]] \o <<"start">>]
            BY <2>0, <2>4 DEF SendStart, Send
        <3>2. \A s \in Servers : s # held[c] => InUse(s)' = InUse(s) /\ msgs'[s] = msgs[s]
            BY <2>2, <3>1 DEF InUse, Opening
        <3>3. /\ msgs[held[c]] \in Seq(Messages) /\ "start" \in Messages \ {"open"}
              /\ msgs'[held[c]] = msgs[held[c]] \o <<"start">>
            BY <2>1, <3>1 DEF Messages
        <3>4. /\ Opens(msgs'[held[c]]) => Opens(msgs[held[c]])
              /\ EndsClosed(msgs[held[c]]) => EndsClosed(msgs'[held[c]])
            BY <3>3, OtherSent
        <3>5. \A s \in Servers : s = held[c] => (InUse(s)' => InUse(s))
            BY <2>2, <3>4 DEF InUse, Opening
        <3>6. \A s \in Servers : InUse(s)' /\ EndsClosed(msgs[s]) => EndsClosed(msgs'[s])
            BY <3>2, <3>4
        <3>7. \A s \in Servers : InUse(s)' => InUse(s)
            BY <3>2, <3>5
        <3> QED
            BY <2>2, <3>6, <3>7, Settled
    <2> QED
        BY <2>3, <2>4
<1>12. CASE \E c \in Clients : IsConnected(c)
    <2>1. UNCHANGED <<msgs, thread, camera, overtaken>>
        BY <1>12 DEF IsConnected
    <2>2. \A s \in Servers : Ending(s)' => Ending(s)
        BY <1>12 DEF IsConnected, Goto, Take, Ending
    <2> QED
        BY <2>1, <2>2, Quiet
<1>13. CASE \E c \in Clients : Unbind(c)
    <2>1. UNCHANGED <<msgs, thread, camera, overtaken>>
        BY <1>13 DEF Unbind
    <2>2. \A s \in Servers : Ending(s)' => Ending(s)
        BY <1>13 DEF Unbind, Goto, Take, Ending
    <2> QED
        BY <2>1, <2>2, Quiet
<1>14. CASE \E t \in Threads : SendClose(t)
    <2>0. PICK t \in Threads : SendClose(t)
        BY <1>14
    <2>1. held[t] \in Servers /\ msgs[held[t]] \in Seq(Messages)
        BY <2>0 DEF SendClose
    <2>2. /\ msgs' = [msgs EXCEPT ![held[t]] = msgs[held[t]] \o <<"stop", "close">>]
          /\ UNCHANGED <<thread, camera, overtaken, released, held>>
        BY <2>0 DEF SendClose, Send
    <2>3. EndsClosed(msgs'[held[t]])
        BY <2>1, <2>2, CloseSent
    <2>4. \A s \in Servers : s # held[t] => msgs'[s] = msgs[s] /\ (Ending(s)' => Ending(s))
        BY <2>0, <2>2 DEF SendClose, Goto, Ending
    <2>5. \A s \in Servers : s # held[t] => (InUse(s)' => InUse(s))
        BY <2>2, <2>4 DEF InUse, Opening
    <2> QED
        BY <2>2, <2>3, <2>4, <2>5 DEF EndingCloses
<1>15. CASE \E t \in Threads : Disconnected(t)
    <2>1. UNCHANGED <<msgs, thread, camera, overtaken>>
        BY <1>15 DEF Disconnected
    <2>2. \A s \in Servers : Ending(s)' => Ending(s)
        BY <1>15 DEF Disconnected, Goto, Take, Ending
    <2> QED
        BY <2>1, <2>2, Quiet
<1>16. CASE \E w \in {Worker, Main} : Release(w)
    <2>1. UNCHANGED <<msgs, thread, camera, overtaken>>
        BY <1>16 DEF Release
    <2>2. PICK t \in {Worker, Main} : Release(t)
        BY <1>16
    <2>3. held' = held /\ released' = released \cup {held[t]} /\ pc[t] = "release"
        BY <2>2 DEF Release
    <2>4. \A u \in {Worker, Main} : pc'[u] \in {"waiting", "notified", "release"} => pc'[u] = pc[u]
        BY <2>2 DEF Release, NotifyService, Goto
    <2>5. \A s \in Servers : Ending(s)' => Ending(s)
        BY <2>3, <2>4 DEF Ending
    <2> QED
        BY <2>1, <2>5, Quiet
<1>17. CASE \E w \in {Worker, Main} : CheckReleaseService(w)
    <2>1. UNCHANGED <<msgs, thread, camera, overtaken>>
        BY <1>17 DEF CheckReleaseService
    <2>2. \A s \in Servers : Ending(s)' => Ending(s)
        BY <1>17 DEF CheckReleaseService, Goto, Take, Ending
    <2> QED
        BY <2>1, <2>2, Quiet
<1>18. CASE CreateServer
    <2>1. UNCHANGED <<msgs, thread, camera, overtaken>>
        BY <1>18 DEF CreateServer
    <2>2. \A s \in Servers : Ending(s)' => Ending(s)
        BY <1>18 DEF CreateServer, NotifyService, Goto, Take, Ending
    <2> QED
        BY <2>1, <2>2, Quiet
<1>19. CASE RemoveService
    <2>1. UNCHANGED <<msgs, thread, camera, overtaken>>
        BY <1>19 DEF RemoveService
    <2>2. \A s \in Servers : Ending(s)' => Ending(s)
        BY <1>19 DEF RemoveService, NotifyService, Event, Goto, Take, Ending
    <2> QED
        BY <2>1, <2>2, Quiet
<1>20. CASE OnUnbind
    <2>1. UNCHANGED <<msgs, thread, camera, overtaken>>
        BY <1>20 DEF OnUnbind
    <2>2. \A s \in Servers : Ending(s)' => Ending(s)
        BY <1>20 DEF OnUnbind, Goto, Take, Ending
    <2> QED
        BY <2>1, <2>2, Quiet
<1>21. CASE \E c \in Clients : AnnounceConnect(c)
    <2>1. UNCHANGED <<msgs, thread, camera, overtaken>>
        BY <1>21 DEF AnnounceConnect
    <2>2. \A s \in Servers : Ending(s)' => Ending(s)
        BY <1>21 DEF AnnounceConnect, Goto, Take, Ending
    <2> QED
        BY <2>1, <2>2, Quiet
<1>22. CASE \E c \in Clients : AnnouncedConnect(c)
    <2>1. UNCHANGED <<msgs, thread, camera, overtaken>>
        BY <1>22 DEF AnnouncedConnect
    <2>2. \A s \in Servers : Ending(s)' => Ending(s)
        BY <1>22 DEF AnnouncedConnect, Goto, Take, Ending
    <2> QED
        BY <2>1, <2>2, Quiet
<1>23. CASE \E s \in Servers : Open(s)
    <2>0. PICK s \in Servers : Open(s)
        BY <1>23
    <2>1. /\ msgs[s] \in Seq(Messages) /\ msgs[s] # <<>> /\ Head(msgs[s]) = "open"
          /\ thread[s] = "idle" /\ msgs' = [msgs EXCEPT ![s] = Tail(msgs[s])]
        BY <2>0 DEF Open, Message
    <2>2. /\ \A r \in Servers : Ending(r)' => Ending(r)
          /\ overtaken' = overtaken
        BY <2>0, NotEnding DEF Open, HandleClose
    <2>3. /\ camera' = [camera EXCEPT ![s] = "null"]
          /\ thread' = [thread EXCEPT ![s] = IF camera[s] = "null" THEN "open" ELSE "reopen"]
        BY <2>0 DEF Open, HandleClose, Destroy, Camera, Thread
    <2>4. \A r \in Servers : r # s => InUse(r)' = InUse(r) /\ msgs'[r] = msgs[r]
        BY <2>1, <2>3 DEF InUse, Opening
    <2>5. InUse(s)
        BY <2>1 DEF InUse, Opens
    <2>6. EndsClosed(msgs[s]) => EndsClosed(msgs'[s])
        BY <2>1, Handled
    <2> QED
        BY <2>2, <2>4, <2>5, <2>6, Settled
<1>24. CASE \E s \in Servers : Close(s)
    <2>0. PICK s \in Servers : Close(s)
        BY <1>24
    <2>1. /\ msgs[s] \in Seq(Messages) /\ msgs[s] # <<>> /\ Head(msgs[s]) = "close"
          /\ thread[s] = "idle" /\ msgs' = [msgs EXCEPT ![s] = Tail(msgs[s])]
        BY <2>0 DEF Close, Message
    <2>2. /\ \A r \in Servers : Ending(r)' => Ending(r)
          /\ overtaken' = overtaken
        BY <2>0, NotEnding DEF Close, HandleClose
    <2>3. /\ camera' = [camera EXCEPT ![s] = "null"]
          /\ thread' = [thread EXCEPT ![s] = IF camera[s] = "null" THEN "idle" ELSE "closed"]
        BY <2>0 DEF Close, HandleClose, Destroy, Camera, Thread
    <2>4. \A r \in Servers : r # s => InUse(r)' = InUse(r) /\ msgs'[r] = msgs[r]
        BY <2>1, <2>3 DEF InUse, Opening
    <2>5. InUse(s)' => Opens(Tail(msgs[s]))
        BY <2>1, <2>3 DEF InUse, Opening
    <2>6. InUse(s)' => InUse(s)
        BY <2>1, <2>5, Handled DEF InUse
    <2>7. InUse(s)' /\ EndsClosed(msgs[s]) => EndsClosed(msgs'[s])
        BY <2>1, <2>5, Handled
    <2> QED
        BY <2>2, <2>4, <2>6, <2>7, Settled
<1>25. CASE \E s \in Servers : StartPreview(s)
    <2>0. PICK s \in Servers : StartPreview(s)
        BY <1>25
    <2>1. /\ msgs[s] \in Seq(Messages) /\ msgs[s] # <<>> /\ Head(msgs[s]) = "start"
          /\ msgs' = [msgs EXCEPT ![s] = Tail(msgs[s])]
        BY <2>0 DEF StartPreview, Message
    <2>2. /\ \A r \in Servers : Ending(r)' => Ending(r)
          /\ overtaken' = overtaken /\ thread' = thread
        BY <2>0 DEF StartPreview, Ending
    <2>3. \/ camera' = camera
          \/ camera[s] # "null" /\ \E x \in States : camera' = [camera EXCEPT ![s] = x]
        BY <2>0 DEF StartPreview, Destroy, Camera, States
    <2>4. \A r \in Servers : r # s => InUse(r)' = InUse(r) /\ msgs'[r] = msgs[r]
        BY <2>1, <2>2, <2>3 DEF InUse, Opening
    <2>5. InUse(s)' => InUse(s)
        BY <2>1, <2>2, <2>3, Handled DEF InUse, Opening
    <2>6. EndsClosed(msgs[s]) => EndsClosed(msgs'[s])
        BY <2>1, Handled
    <2> QED
        BY <2>2, <2>4, <2>5, <2>6, Settled
<1>26. CASE \E s \in Servers : StopPreview(s)
    <2>0. PICK s \in Servers : StopPreview(s)
        BY <1>26
    <2>1. /\ msgs[s] \in Seq(Messages) /\ msgs[s] # <<>> /\ Head(msgs[s]) = "stop"
          /\ msgs' = [msgs EXCEPT ![s] = Tail(msgs[s])]
        BY <2>0 DEF StopPreview, Message
    <2>2. /\ \A r \in Servers : Ending(r)' => Ending(r)
          /\ overtaken' = overtaken /\ thread' = thread
        BY <2>0 DEF StopPreview, Ending
    <2>3. \/ camera' = camera
          \/ camera[s] # "null" /\ \E x \in States : camera' = [camera EXCEPT ![s] = x]
        BY <2>0 DEF StopPreview, Destroy, Camera, States
    <2>4. \A r \in Servers : r # s => InUse(r)' = InUse(r) /\ msgs'[r] = msgs[r]
        BY <2>1, <2>2, <2>3 DEF InUse, Opening
    <2>5. InUse(s)' => InUse(s)
        BY <2>1, <2>2, <2>3, Handled DEF InUse, Opening
    <2>6. EndsClosed(msgs[s]) => EndsClosed(msgs'[s])
        BY <2>1, Handled
    <2> QED
        BY <2>2, <2>4, <2>5, <2>6, Settled
<1>27. CASE \E s \in Servers : AnnounceStop(s)
    <2>0. PICK s \in Servers : AnnounceStop(s)
        BY <1>27
    <2>1. /\ \A r \in Servers : Ending(r)' => Ending(r)
          /\ msgs' = msgs /\ overtaken' = overtaken
        BY <2>0 DEF AnnounceStop, Ending
    <2>2. \A r \in Servers : InUse(r)' => InUse(r)
        BY <2>0, <2>1 DEF AnnounceStop, Thread, InUse, Opening
    <2> QED
        BY <2>1, <2>2, Settled
<1>28. CASE \E s \in Servers : Announced(s)
    <2>0. PICK s \in Servers : Announced(s)
        BY <1>28
    <2>1. /\ \A r \in Servers : Ending(r)' => Ending(r)
          /\ msgs' = msgs /\ overtaken' = overtaken
        BY <2>0 DEF Announced, Ending
    <2>2. \A r \in Servers : InUse(r)' => InUse(r)
        BY <2>0, <2>1 DEF Announced, Thread, InUse, Opening
    <2> QED
        BY <2>1, <2>2, Settled
<1>29. CASE \E s \in Servers : AnnounceStart(s)
    <2>0. PICK s \in Servers : AnnounceStart(s)
        BY <1>29
    <2>1. /\ \A r \in Servers : Ending(r)' => Ending(r)
          /\ msgs' = msgs /\ overtaken' = overtaken
        BY <2>0 DEF AnnounceStart, Ending
    <2>2. \A r \in Servers : InUse(r)' => InUse(r)
        BY <2>0, <2>1 DEF AnnounceStart, Thread, InUse, Opening
    <2> QED
        BY <2>1, <2>2, Settled
<1>30. CASE \E s \in Servers : NewCamera(s)
    <2>0. PICK s \in Servers : NewCamera(s)
        BY <1>30
    <2>1. /\ \A r \in Servers : Ending(r)' => Ending(r)
          /\ msgs' = msgs /\ overtaken' = overtaken
        BY <2>0 DEF NewCamera, Ending
    <2>2. \A r \in Servers : InUse(r)' => InUse(r)
        BY <2>0, <2>1 DEF NewCamera, Camera, InUse, Opening
    <2> QED
        BY <2>1, <2>2, Settled
<1>31. CASE \E s \in Servers : OpenCamera(s)
    <2>0. PICK s \in Servers : OpenCamera(s)
        BY <1>31
    <2>1. /\ \A r \in Servers : Ending(r)' => Ending(r)
          /\ msgs' = msgs /\ overtaken' = overtaken
        BY <2>0 DEF OpenCamera, Ending
    <2>2. \A r \in Servers : InUse(r)' => InUse(r)
        BY <2>0, <2>1 DEF OpenCamera, Camera, Thread, InUse, Opening
    <2> QED
        BY <2>1, <2>2, Settled
<1>32. CASE UNCHANGED vars
    <2>1. UNCHANGED <<msgs, thread, camera, overtaken, pc, held, released>>
        BY <1>32
    <2>2. \A s \in Servers : Ending(s)' => Ending(s)
        BY <2>1 DEF Ending
    <2> QED
        BY <2>1, <2>2, Quiet
<1> QED
    BY <1>1, <1>2, <1>3, <1>4, <1>5, <1>6, <1>7, <1>8, <1>9, <1>10, <1>11,
       <1>12, <1>13, <1>14, <1>15, <1>16, <1>17, <1>18, <1>19, <1>20, <1>21,
       <1>22, <1>23, <1>24, <1>25, <1>26, <1>27, <1>28, <1>29, <1>30, <1>31,
       <1>32, Cases

-----------------------------------------------------------------------------
\* The invariant holds at first and is preserved.
LEMMA Initially == Init => IInv
<1> SUFFICES ASSUME Init PROVE IInv
    OBVIOUS
<1> USE ServiceAssumption DEF Init, Servers, Threads
<1>1. ServiceType
    <2>1. server \in 0..made /\ made \in 0..MaxServers /\ calls \in 0..MaxCalls
        OBVIOUS
    <2>2. /\ plugged \in BOOLEAN /\ block \in BOOLEAN
          /\ asked \in BOOLEAN /\ dead \in BOOLEAN
        OBVIOUS
    <2>3. events \in Seq({"connect", "remove"}) /\ lock \in {Worker, Main, Nobody}
        OBVIOUS
    <2>4. bound \subseteq Clients /\ selected \subseteq Clients
        OBVIOUS
    <2> QED
        BY <2>1, <2>2, <2>3, <2>4 DEF ServiceType
<1>2. ThreadsType /\ HeldInv
    BY DEF ThreadsType, HeldInv, Places, Tasks
<1>3. CamerasType
    BY DEF CamerasType, Messages, Steps, States
<1>4. CallbacksType
    BY DEF CallbacksType
<1>5. EndingCloses /\ ToldTruth
    BY DEF EndingCloses, Ending, ToldTruth
<1> QED
    BY <1>1, <1>2, <1>3, <1>4, <1>5 DEF IInv, Types

LEMMA Inductive == IInv /\ [Next]_vars => IInv'
BY ServiceStep, ThreadsStep, CamerasStep, CallbacksStep, HeldStep, EndingStep,
   TruthStep
DEF IInv, Types

-----------------------------------------------------------------------------
\* What holds of the service at every step, whoever calls what when.
THEOREM Invariance == Spec => []IInv
<1>1. Init => IInv
    BY Initially
<1>2. IInv /\ [Next]_vars => IInv'
    BY Inductive
<1> QED
    BY <1>1, <1>2, PTL DEF Spec

\* The variables have their types: whoever was told has a callback, unless its
\* cookie is gone.
THEOREM TypeCorrect == Spec => []TypeOK
<1>1. IInv => TypeOK
    BY DEF IInv, Types, ServiceType, ThreadsType, CamerasType, CallbacksType, Places,
           Tasks, Messages, Steps, States, TypeOK
<1> QED
    BY <1>1, Invariance, PTL

\* A server that was released closes its camera, whatever its clients do, unless
\* one of them asked it to open after the release had told it to close.
THEOREM ReleaseClosesCamera == Spec => []ReleasedCloses
<1>1. IInv => ReleasedCloses
    <2> SUFFICES ASSUME IInv, NEW s \in released \ overtaken,
                        camera[s] # "null" \/ Opening(s) \/ At(s, "open") # {}
                 PROVE  \E j \in At(s, "close") : \A i \in At(s, "open") : i < j
        BY DEF ReleasedCloses
    <2>1. s \in Servers /\ Ending(s)
        BY DEF IInv, Types, CamerasType, Ending
    <2>2. InUse(s)
        BY DEF InUse, Opens, At
    <2>3. EndsClosed(msgs[s])
        BY <2>1, <2>2 DEF IInv, EndingCloses
    <2> QED
        BY <2>3 DEF EndsClosed, At
<1> QED
    BY <1>1, Invariance, PTL

\* Whoever was told that the camera is connected is told when handleClose has
\* closed it, outside the exceptions that ToldTruth names.
THEOREM ClientsToldTruth == Spec => []ToldTruth
<1>1. IInv => ToldTruth
    BY DEF IInv
<1> QED
    BY <1>1, Invariance, PTL
=============================================================================
