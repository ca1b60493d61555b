----------------------------- MODULE UsbMonitor -----------------------------
(***************************************************************************)
(* USBMonitor.java: who may use which USB device.  Three threads share its *)
(* table of open devices: the main thread (the application's calls and the *)
(* broadcasts of the system), the handler thread behind mAsyncHandler      *)
(* (which polls for devices, opens them and calls the listener), and the   *)
(* camera thread, which opens a clone of a control block and closes it.    *)
(*                                                                         *)
(* A device is one attachment: a camera plugged in again has another name  *)
(* and so is another UsbDevice.  Devices and control blocks are numbered.  *)
(***************************************************************************)
EXTENDS Integers, Sequences, FiniteSets, SequencesExt

CONSTANTS MaxPlugs,    \* bound: cameras plugged in
          MaxCalls,    \* bound: calls of the application, register aside
          MaxClones    \* bound: blocks cloned by the camera thread

ASSUME MonitorAssumption ==
    MaxPlugs \in Nat /\ MaxCalls \in Nat /\ MaxClones \in Nat

Devices == 1..MaxPlugs

VARIABLES
    present, plugs,       \* devices plugged in now; how many there have been
    permitted, asked,     \* the user's permissions, and pending questions
    inbox,                \* broadcasts on their way to the main thread
    registered,           \* mPermissionIntent # null
    destroyed,
    mDeviceCounts,
    mHasPermissions,
    mCtrlBlocks,          \* number of the block of each device, or 0
    block,                \* every block made: its device, connection, clone or not
    queue, polls,         \* mAsyncHandler: tasks; delayed checks
    main, async, camera,  \* what each thread is doing, with which block
    calls,                \* calls made by the application
    announced,            \* history: onAttach delivered for a present device
    lost,                 \* history: blocks that left the table, or came too late
    raced                 \* history: mDeviceCounts reset under a running check

system  == <<present, plugs, permitted, asked>>
table   == <<mCtrlBlocks, block, lost>>
counts  == <<mDeviceCounts, mHasPermissions, raced>>
handler == <<queue, polls>>
vars == <<system, inbox, registered, destroyed, counts, table, handler,
          main, async, camera, calls, announced>>

Idle == [pc |-> "idle"]
At(pc, d, b) == [pc |-> pc, dev |-> d, blk |-> b]
Broken == [pc |-> "dead"]              \* ended by an exception

Init ==
    /\ present = {} /\ plugs = 0 /\ permitted = {} /\ asked = {}
    /\ inbox = <<>> /\ registered = FALSE /\ destroyed = FALSE
    /\ mDeviceCounts = 0 /\ mHasPermissions = {}
    /\ mCtrlBlocks = [d \in Devices |-> 0] /\ block = <<>>
    /\ queue = <<>> /\ polls = 0
    /\ main = Idle /\ async = Idle /\ camera = Idle /\ calls = 0
    /\ announced = {} /\ lost = {}
    /\ raced = FALSE

\* Posting to a looper that has quit does nothing.
Quit == main.pc = "gone"
Post(k, d) == queue' = IF Quit THEN queue ELSE Append(queue, <<k, d>>)

\* UsbManager.openDevice: a connection, or null when the device is gone.
NewBlock(d, clone) ==
    block' = Append(block, [dev |-> d, clone |-> clone,
                 conn |-> IF d \in permitted \cap present THEN "open" ELSE "null"])

InTable(d) == IF mCtrlBlocks[d] = 0 THEN {} ELSE {mCtrlBlocks[d]}
OpenBlocks == {b \in DOMAIN block : block[b].conn = "open" /\ ~block[b].clone}

\* A device that is gone, of which no broadcast will come any more.
Forsaken(d) == d \notin present /\ \A i \in DOMAIN inbox : inbox[i] # <<"detached", d>>

\* mCtrlBlocks.remove and put.  What is replaced or removed without having
\* been closed is lost, and so is what is put when nobody will look for it.
RemoveEntry(d) ==
    /\ mCtrlBlocks' = [mCtrlBlocks EXCEPT ![d] = 0]
    /\ lost' = lost \cup (InTable(d) \cap OpenBlocks)
PutEntry(d, b) ==
    /\ mCtrlBlocks' = [mCtrlBlocks EXCEPT ![d] = b]
    /\ lost' = lost \cup (InTable(d) \cap OpenBlocks)
                    \cup (IF destroyed \/ Forsaken(d) THEN {b} ELSE {})

\* The first half of UsbControlBlock.close: the connection is closed and
\* onDisconnect is called.
Disconnect(b) == block' = [block EXCEPT ![b].conn = "closed"]

ZeroCounts ==
    /\ mDeviceCounts' = 0
    /\ raced' = (raced \/ async.pc = "compare")

(***************************************************************************)
(* The application's calls, on the main thread.                            *)
(***************************************************************************)
Call == main = Idle /\ calls < MaxCalls /\ calls' = calls + 1

Register ==
    /\ main = Idle /\ ~destroyed /\ ~registered
    /\ registered' = TRUE
    /\ ZeroCounts
    /\ polls' = polls + 1
    /\ UNCHANGED <<system, inbox, destroyed, mHasPermissions, table, queue,
                   main, async, camera, calls, announced>>

RemoveCallbacks == polls' = 0

\* mUsbReceiver gets no broadcast after it was unregistered.
Unregister ==
    /\ Call /\ ~destroyed /\ registered
    /\ registered' = FALSE /\ inbox' = <<>>
    /\ ZeroCounts
    /\ RemoveCallbacks
    /\ UNCHANGED <<system, destroyed, mHasPermissions, table, queue, main,
                   async, camera, announced>>

ProcessConnect(d) ==
    /\ mHasPermissions' = mHasPermissions \cup {d}
    /\ Post("connect", d)
ProcessCancel(d) ==
    /\ mHasPermissions' = mHasPermissions \ {d}
    /\ Post("cancel", d)

\* A device that is gone makes UsbManager throw, which cancels too.
RequestPermission(d) ==
    /\ Call /\ ~destroyed /\ d \in 1..plugs
    /\ IF registered /\ d \in present
       THEN IF d \in permitted
            THEN ProcessConnect(d) /\ UNCHANGED asked
            ELSE asked' = asked \cup {d} /\ UNCHANGED <<mHasPermissions, queue>>
       ELSE ProcessCancel(d) /\ UNCHANGED asked
    /\ UNCHANGED <<present, plugs, permitted, inbox, registered, destroyed,
                   mDeviceCounts, raced, table, polls, main, async, camera,
                   announced>>

\* openDevice looks into the table, opens the device, and puts it there.
OpenDevice(d) ==
    /\ Call /\ ~destroyed /\ d \in permitted
    /\ mCtrlBlocks[d] = 0
    /\ mHasPermissions' = mHasPermissions \cup {d}
    /\ NewBlock(d, FALSE)
    /\ main' = At("put", d, Len(block) + 1)
    /\ UNCHANGED <<system, inbox, registered, destroyed, mDeviceCounts, raced,
                   mCtrlBlocks, lost, handler, async, camera, announced>>
OpenDevicePut ==
    /\ main.pc = "put"
    /\ PutEntry(main.dev, main.blk)
    /\ main' = Idle
    /\ UNCHANGED <<system, inbox, registered, destroyed, counts, block, handler,
                   async, camera, calls, announced>>

Destroy ==
    /\ Call /\ ~destroyed
    /\ registered' = FALSE /\ inbox' = <<>>
    /\ ZeroCounts
    /\ polls' = 0
    /\ destroyed' = TRUE
    /\ main' = [pc |-> "destroy"]
    /\ UNCHANGED <<system, mHasPermissions, table, queue, async, camera, announced>>

\* One key of the table: remove, and the first half of close.  A block
\* without connection is only removed.
DestroyNext(d) ==
    /\ main.pc = "destroy" /\ mCtrlBlocks[d] # 0
    /\ mCtrlBlocks' = [mCtrlBlocks EXCEPT ![d] = 0]
    /\ IF block[mCtrlBlocks[d]].conn = "open"
       THEN Disconnect(mCtrlBlocks[d]) /\ main' = At("close", d, "destroy")
       ELSE UNCHANGED <<block, main>>
    /\ UNCHANGED <<system, inbox, registered, destroyed, counts, lost, handler,
                   async, camera, calls, announced>>

\* The second half of close removes whatever the device has in the table.
CloseRemove ==
    /\ main.pc = "close"
    /\ RemoveEntry(main.dev)
    /\ main' = IF main.blk = "destroy" THEN [pc |-> "destroy"]
               ELSE At("dettach", main.dev, 0)
    /\ UNCHANGED <<system, inbox, registered, destroyed, counts, block, handler,
                   async, camera, calls, announced>>

\* Slip: the table is cleared without the blocks being closed.
DestroyEndEarly ==
    /\ main.pc = "destroy"
    /\ mCtrlBlocks' = [d \in Devices |-> 0]
    /\ queue' = <<>> /\ polls' = 0
    /\ main' = [pc |-> "gone"]
    /\ UNCHANGED <<system, inbox, registered, destroyed, counts, block, lost,
                   async, camera, calls, announced>>

\* The iteration need not see what was put meanwhile, which is lost already.
DestroyEnd ==
    /\ main.pc = "destroy"
    /\ \A d \in Devices : InTable(d) \subseteq lost
    /\ mCtrlBlocks' = [d \in Devices |-> 0]
    /\ queue' = <<>> /\ polls' = 0
    /\ main' = [pc |-> "gone"]
    /\ UNCHANGED <<system, inbox, registered, destroyed, counts, block, lost,
                   async, camera, calls, announced>>

(***************************************************************************)
(* mUsbReceiver, on the main thread.                                       *)
(***************************************************************************)
Received(k) == main = Idle /\ inbox # <<>> /\ Head(inbox)[1] = k
                 /\ inbox' = Tail(inbox)

OnPermission ==
    /\ \/ Received("granted") /\ ProcessConnect(Head(inbox)[2])
       \/ Received("denied") /\ ProcessCancel(Head(inbox)[2])
    /\ UNCHANGED <<system, registered, destroyed, mDeviceCounts, raced, table,
                   polls, main, async, camera, calls, announced>>

\* Slip: onDettach is posted and the block left alone.
OnDetachedNot ==
    /\ Received("detached")
    /\ main' = At("dettach", Head(inbox)[2], 0)
    /\ UNCHANGED <<mCtrlBlocks, block>>
    /\ UNCHANGED <<system, registered, destroyed, counts, lost, handler, async,
                   camera, calls, announced>>

OnDetached ==
    /\ Received("detached")
    /\ LET d == Head(inbox)[2]
           b == mCtrlBlocks[d]
       IN  /\ mCtrlBlocks' = [mCtrlBlocks EXCEPT ![d] = 0]
           /\ IF b # 0 /\ block[b].conn = "open"
              THEN Disconnect(b) /\ main' = At("close", d, "detach")
              ELSE UNCHANGED block /\ main' = At("dettach", d, 0)
    /\ UNCHANGED <<system, registered, destroyed, counts, lost, handler, async,
                   camera, calls, announced>>

\* Slip: the number of known devices is kept.
DettachKeep ==
    /\ main.pc = "dettach"
    /\ UNCHANGED <<mDeviceCounts, raced>>
    /\ Post("dettach", main.dev)
    /\ main' = Idle
    /\ UNCHANGED <<system, inbox, registered, destroyed, mHasPermissions, table,
                   polls, async, camera, calls, announced>>

Dettach ==
    /\ main.pc = "dettach"
    /\ ZeroCounts
    /\ Post("dettach", main.dev)
    /\ main' = Idle
    /\ UNCHANGED <<system, inbox, registered, destroyed, mHasPermissions, table,
                   polls, async, camera, calls, announced>>

(***************************************************************************)
(* The handler thread.                                                     *)
(***************************************************************************)
\* mDeviceCheckRunnable, two seconds late and so behind the other tasks: the
\* devices there are and those with a permission,
Check ==
    /\ async = Idle /\ polls > 0 /\ queue = <<>>
    /\ polls' = polls - 1
    /\ IF destroyed THEN UNCHANGED <<async, mHasPermissions>>
       ELSE /\ mHasPermissions' = present \cap permitted
            /\ async' = [pc |-> "compare", devices |-> present,
                         more |-> Cardinality(present \cap permitted)
                                    > Cardinality(mHasPermissions)]
    /\ UNCHANGED <<system, inbox, registered, destroyed, mDeviceCounts, raced,
                   table, queue, main, camera, calls, announced>>

\* A HashMap of the devices gives them in any order.
AnnounceAll ==
    \E order \in SetToSeqs(async.devices) :
        queue' = IF Quit THEN queue
                 ELSE queue \o [i \in DOMAIN order |-> <<"attach", order[i]>>]

\* Slip: the devices are added to those known.
CompareSum ==
    /\ async.pc = "compare"
    /\ LET n == Cardinality(async.devices) IN
       IF n > mDeviceCounts \/ async.more
       THEN /\ mDeviceCounts' = mDeviceCounts + n
            /\ AnnounceAll
       ELSE UNCHANGED <<mDeviceCounts, queue>>
    /\ polls' = IF Quit THEN polls ELSE polls + 1
    /\ async' = Idle
    /\ UNCHANGED <<system, inbox, registered, destroyed, mHasPermissions, raced,
                   table, main, camera, calls, announced>>

\* and the comparison, which announces all of them or none.
Compare ==
    /\ async.pc = "compare"
    /\ LET n == Cardinality(async.devices) IN
       IF n > mDeviceCounts \/ async.more
       THEN /\ mDeviceCounts' = n
            /\ AnnounceAll
       ELSE UNCHANGED <<mDeviceCounts, queue>>
    /\ polls' = IF Quit THEN polls ELSE polls + 1
    /\ async' = Idle
    /\ UNCHANGED <<system, inbox, registered, destroyed, mHasPermissions, raced,
                   table, main, camera, calls, announced>>

\* getDeviceList and hasPermission throw if the monitor is destroyed after the
\* look at destroyed that begins the check, and nobody catches it.
CheckThrows ==
    /\ async.pc = "compare" /\ destroyed
    /\ async' = Broken
    /\ UNCHANGED <<system, inbox, registered, destroyed, counts, table, handler,
                   main, camera, calls, announced>>

Task(k) == async = Idle /\ queue # <<>> /\ Head(queue)[1] = k
             /\ queue' = Tail(queue)

\* The run of processConnect: look into the table,
RunConnect ==
    /\ Task("connect")
    /\ LET d == Head(queue)[2] IN
         async' = IF mCtrlBlocks[d] = 0 THEN At("open", d, 0) ELSE Idle
    /\ UNCHANGED <<system, inbox, registered, destroyed, counts, table, polls,
                   main, camera, calls, announced>>

\* open the device,
RunOpen ==
    /\ async.pc = "open"
    /\ NewBlock(async.dev, FALSE)
    /\ async' = At("put", async.dev, Len(block) + 1)
    /\ UNCHANGED <<system, inbox, registered, destroyed, counts, mCtrlBlocks,
                   lost, handler, main, camera, calls, announced>>

\* Slip: the new block is handed out but not remembered.
RunPutNot ==
    /\ async.pc = "put"
    /\ async' = Idle
    /\ UNCHANGED <<system, inbox, registered, destroyed, counts, table, handler,
                   main, camera, calls, announced>>

\* put it into the table and call onConnect.
RunPut ==
    /\ async.pc = "put"
    /\ PutEntry(async.dev, async.blk)
    /\ async' = Idle
    /\ UNCHANGED <<system, inbox, registered, destroyed, counts, block, handler,
                   main, camera, calls, announced>>

\* The runs that only call the listener.
RunCallback ==
    /\ \/ Task("attach") /\ announced' = announced \cup ({Head(queue)[2]} \cap present)
       \/ (Task("dettach") \/ Task("cancel")) /\ UNCHANGED announced
    /\ UNCHANGED <<system, inbox, registered, destroyed, counts, table, polls,
                   main, async, camera, calls>>

(***************************************************************************)
(* The camera thread: UVCCamera.open clones the block it was given, and    *)
(* UVCCamera.close closes the clone.                                       *)
(***************************************************************************)
CameraOpen(d) ==
    /\ camera = Idle /\ mCtrlBlocks[d] # 0
    /\ d \in permitted \cap present
    /\ Cardinality({b \in DOMAIN block : block[b].clone}) < MaxClones
    /\ NewBlock(d, TRUE)
    /\ camera' = At("opened", d, Len(block) + 1)
    /\ UNCHANGED <<system, inbox, registered, destroyed, counts, mCtrlBlocks,
                   lost, handler, main, async, calls, announced>>

CameraClose ==
    /\ camera.pc = "opened"
    /\ Disconnect(camera.blk)
    /\ camera' = At("close", camera.dev, camera.blk)
    /\ UNCHANGED <<system, inbox, registered, destroyed, counts, mCtrlBlocks,
                   lost, handler, main, async, calls, announced>>

\* The entry that is removed is that of the original.
CameraRemove ==
    /\ camera.pc = "close"
    /\ RemoveEntry(camera.dev)
    /\ camera' = Idle
    /\ UNCHANGED <<system, inbox, registered, destroyed, counts, block, handler,
                   main, async, calls, announced>>

(***************************************************************************)
(* The user and the system.                                                *)
(***************************************************************************)
Broadcast(k, d) ==
    inbox' = IF registered THEN Append(inbox, <<k, d>>) ELSE inbox

Plug(d) ==
    /\ d \in Devices /\ d = plugs + 1
    /\ present' = present \cup {d} /\ plugs' = d
    /\ UNCHANGED <<permitted, asked, inbox, registered, destroyed, counts,
                   table, handler, main, async, camera, calls, announced>>
Unplug(d) ==
    /\ d \in present
    /\ present' = present \ {d} /\ permitted' = permitted \ {d}
    /\ asked' = asked \ {d} /\ announced' = announced \ {d}
    /\ Broadcast("detached", d)
    /\ UNCHANGED <<plugs, registered, destroyed, counts, table, handler, main,
                   async, camera, calls>>
Answer(d) ==
    /\ d \in asked
    /\ asked' = asked \ {d}
    /\ \/ permitted' = permitted \cup {d} /\ Broadcast("granted", d)
       \/ UNCHANGED permitted /\ Broadcast("denied", d)
    /\ UNCHANGED <<present, plugs, registered, destroyed, counts, table, handler,
                   main, async, camera, calls, announced>>

-----------------------------------------------------------------------------
Application == Register \/ Unregister \/ Destroy
                 \/ \E d \in Devices : RequestPermission(d) \/ OpenDevice(d)
MainStep == OpenDevicePut \/ CloseRemove \/ DestroyEnd \/ OnPermission
              \/ OnDetached \/ Dettach \/ \E d \in Devices : DestroyNext(d)
AsyncStep == Check \/ Compare \/ CheckThrows \/ RunConnect \/ RunOpen \/ RunPut
               \/ RunCallback
CameraStep == CameraClose \/ CameraRemove \/ \E d \in Devices : CameraOpen(d)
User == \E d \in Devices : Plug(d) \/ Unplug(d) \/ Answer(d)

Next == Application \/ MainStep \/ AsyncStep \/ CameraStep \/ User

Spec == Init /\ [][Next]_vars
\* The two loopers run what they are given.
FairSpec == Spec /\ WF_vars(MainStep) /\ WF_vars(AsyncStep)

-----------------------------------------------------------------------------
(***************************************************************************)
(* Properties.                                                             *)
(***************************************************************************)
Tasks == {"attach", "connect", "dettach", "cancel"}
TypeOK ==
    /\ plugs \in 0..MaxPlugs /\ present \subseteq 1..plugs
    /\ permitted \subseteq present /\ asked \subseteq present
    /\ inbox \in Seq({"granted", "denied", "detached"} \X Devices)
    /\ registered \in BOOLEAN /\ destroyed \in BOOLEAN /\ raced \in BOOLEAN
    /\ mDeviceCounts \in 0..Cardinality(Devices)
    /\ mHasPermissions \subseteq Devices
    /\ mCtrlBlocks \in [Devices -> 0..Len(block)]
    /\ block \in Seq([dev : Devices, clone : BOOLEAN,
                      conn : {"open", "null", "closed"}])
    /\ queue \in Seq(Tasks \X Devices) /\ polls \in Nat
    /\ announced \subseteq present /\ lost \subseteq DOMAIN block

\* Blocks that a thread has opened and is about to put into the table.
InHand == {t.blk : t \in {x \in {main, async} : x.pc = "put"}}

\* No connection is forgotten: the table has every open block, unless the
\* close of a clone, an openDevice beside a connect, or a connect overtaken by
\* a detach or by destroy has taken it away.
Tracked == \A b \in OpenBlocks : mCtrlBlocks[block[b].dev] = b \/ b \in InHand \cup lost

\* "called when device dettach(after onDisconnect)": once onDettach is on its
\* way to the listener, the connections to that device are closed.  "Release
\* all related resources": once destroy has returned, all are, but for those.
ClosedInTime ==
    \A b \in OpenBlocks \ (InHand \cup lost) :
        ~Quit /\ \A i \in DOMAIN queue : queue[i] # <<"dettach", block[b].dev>>

\* A device that stays plugged in while the monitor is registered is announced
\* by onAttach, unless a reset of mDeviceCounts was overwritten by a check.
AttachAnnounced ==
    \A d \in Devices :
        d \in present /\ registered ~> d \in announced \/ d \notin present
                                         \/ ~registered \/ raced
=============================================================================
