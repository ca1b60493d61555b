---------------------------- MODULE LibuvcProofs ----------------------------
(***************************************************************************)
(* Proofs about the two modules of libuvc that are not about its stream    *)
(* handle.  UvcDevice, for any set of callback objects and any number of   *)
(* connects: whichever step of a connect fails, references are counted,    *)
(* what was made is taken back, and callbacks run on what exists.          *)
(* UvcPayload, for frames of any number of packets and any number of       *)
(* frames: what reaches the user is one picture of the camera, and its     *)
(* pictures come in order.                                                 *)
(***************************************************************************)
EXTENDS UvcDevice, UvcPayload, TLAPS

-----------------------------------------------------------------------------
(***************************************************************************)
(* The camera object.                                                      *)
(***************************************************************************)
\* Where the calls have an open handle, before and after the handler thread
\* and the callback objects belong to it.
Probing == {"info", "claim", "submit", "start", "fail", "fail2"}
Closing == {"delete", "release_if", "close", "join"}
Resting == {"idle", "set"}

\* The fields of the camera tell how far connect and release have come.
HandleInv ==
    /\ app \in {"hook", "set"} \cup Closing => mDeviceHandle
    /\ mDeviceHandle => app \in {"hook"} \cup Resting \cup Closing
    /\ devh <=> app \in Probing \/ mDeviceHandle
    /\ opened <=> devh /\ app # "join"
    /\ app # "unref" => (mDevice <=> devh \/ app \in {"open", "refuse"})
    /\ app = "unref" => (mDevice <=> mFd = 1)
    /\ app \in {"submit", "start"} => claimed
    /\ mDeviceHandle /\ app \notin {"close", "join"} => claimed
    /\ claimed => mDeviceHandle \/ app \in {"submit", "start", "fail"}
    /\ app \in {"close", "join"} => ~claimed

\* The descriptor made by connect is remembered once uvc_open has succeeded.
DescriptorInv ==
    /\ mDeviceHandle => mFd = 1
    /\ app \notin {"unref", "close_fd"} /\ ~mDeviceHandle => mFd = 0
    /\ IF app \in {"open", "refuse"} \cup Probing THEN dups = 1 ELSE dups = mFd
    /\ app \in {"unref", "close_fd"} /\ mFd = 0 => failed
    /\ app = "idle" /\ mUsbFs /\ ~mDeviceHandle => failed

\* The callback objects, and what the handle calls.
ObjectsInv ==
    /\ ~mDeviceHandle \/ app \in {"release_if", "close", "join"} => objects = {}
    /\ ~mDeviceHandle => hooked = {}
    /\ app = "hook" => hooked = objects
    /\ mDeviceHandle /\ app # "hook" => hooked = Kinds
    /\ mDeviceHandle /\ app \in Resting => objects = Kinds

\* The handler thread lives as long as the handle, and calls back from its
\* status transfer.
ThreadInv ==
    /\ ~mDeviceHandle => thread = "dead"
    /\ mDeviceHandle /\ thread = "dead" => kill_handler_thread
    /\ InCallback => status_xfer = "ready" /\ app # "join"
    /\ thread \in {"called", "java"} => kind \in hooked
    /\ status_xfer = "dropped" => app = "join"
    /\ InFlight => opened /\ app \notin {"info", "claim", "submit", "fail", "fail2"}

\* The references of the libusb_device: the first one, one of each user, and
\* one for a transfer that was dropped in flight.
CountInv ==
    /\ ref = Holds(mDevice) + Holds(devh)
    /\ mDevice =>
        LET users == 1 + ref + Holds(opened) + Holds(InFlight) IN
        refcnt \in users .. users + (IF app \in {"join", "unref"} THEN 1 ELSE 0)
    /\ ~mDevice => refcnt <= 2

DeviceInv == DeviceTypeOK /\ HandleInv /\ DescriptorInv /\ ObjectsInv /\ ThreadInv /\ CountInv

-----------------------------------------------------------------------------
LEMMA DeviceInitially == DeviceInit => DeviceInv
<1> SUFFICES ASSUME DeviceInit PROVE DeviceInv
    OBVIOUS
<1> USE DEF DeviceInit, Holds, InFlight, InCallback, Places, Probing, Closing, Resting
<1>1. DeviceTypeOK
    <2>1. /\ connects \in 0..MaxConnects /\ ref \in 0..2 /\ refcnt \in 0..5
          /\ mFd \in 0..1 /\ dups \in 0..1
        BY DeviceAssumption
    <2> QED
        BY <2>1 DEF DeviceTypeOK
<1>2. HandleInv /\ DescriptorInv /\ ObjectsInv /\ ThreadInv
    BY DEF HandleInv, DescriptorInv, ObjectsInv, ThreadInv
<1>3. CountInv
    BY DEF CountInv
<1> QED
    BY <1>1, <1>2, <1>3 DEF DeviceInv

LEMMA DeviceInductive == DeviceInv /\ [DeviceNext]_deviceVars => DeviceInv'
<1> SUFFICES ASSUME DeviceInv, [DeviceNext]_deviceVars PROVE DeviceInv'
    OBVIOUS
<1> USE DeviceAssumption
    DEF DeviceInv, DeviceTypeOK, HandleInv, DescriptorInv, ObjectsInv, ThreadInv, CountInv,
        Holds, InFlight, InCallback, Places, Probing, Closing, Resting, usb,
        instance, handler
\* connect: one step after another, each of which may fail.
<1>1. CASE Connect
    <2>0. /\ connects' \in 0..MaxConnects /\ mFd' \in 0..1 /\ dups' \in 0..1
          /\ ref' \in 0..2 /\ refcnt' \in 0..5
        BY <1>1 DEF Connect
    <2>1. DeviceTypeOK'
        BY <1>1, <2>0 DEF Connect
    <2>2. HandleInv' /\ DescriptorInv'
        BY <1>1 DEF Connect
    <2>3. ObjectsInv' /\ ThreadInv'
        BY <1>1 DEF Connect
    <2>4. CountInv'
        BY <1>1 DEF Connect
    <2> QED
        BY <2>1, <2>2, <2>3, <2>4
<1>2. CASE InitContext
    BY <1>2 DEF InitContext
<1>3. CASE GetDevice
    <2>0. /\ connects' \in 0..MaxConnects /\ mFd' \in 0..1 /\ dups' \in 0..1
          /\ ref' \in 0..2 /\ refcnt' \in 0..5
        BY <1>3 DEF GetDevice
    <2>1. DeviceTypeOK'
        BY <1>3, <2>0 DEF GetDevice
    <2>2. HandleInv' /\ DescriptorInv'
        BY <1>3 DEF GetDevice
    <2>3. ObjectsInv' /\ ThreadInv'
        BY <1>3 DEF GetDevice
    <2>4. CountInv'
        BY <1>3 DEF GetDevice
    <2> QED
        BY <2>1, <2>2, <2>3, <2>4
<1>4. CASE LibusbOpen
    <2>0. /\ connects' \in 0..MaxConnects /\ mFd' \in 0..1 /\ dups' \in 0..1
          /\ ref' \in 0..2 /\ refcnt' \in 0..5
        BY <1>4 DEF LibusbOpen
    <2>1. DeviceTypeOK'
        BY <1>4, <2>0 DEF LibusbOpen
    <2>2. HandleInv' /\ DescriptorInv'
        BY <1>4 DEF LibusbOpen
    <2>3. ObjectsInv' /\ ThreadInv'
        BY <1>4 DEF LibusbOpen
    <2>4. CountInv'
        BY <1>4 DEF LibusbOpen
    <2> QED
        BY <2>1, <2>2, <2>3, <2>4
<1>5. CASE GetInfo
    BY <1>5 DEF GetInfo
<1>6. CASE ClaimInterface
    BY <1>6 DEF ClaimInterface
<1>7. CASE SubmitStatus
    BY <1>7 DEF SubmitStatus
<1>8. CASE StartThread
    BY <1>8 DEF StartThread
<1>9. CASE \E k \in Kinds : HookCallback(k)
    BY <1>9 DEF HookCallback
<1>10. CASE FailRelease
    BY <1>10 DEF FailRelease
<1>11. CASE FailClose
    <2>0. /\ connects' \in 0..MaxConnects /\ mFd' \in 0..1 /\ dups' \in 0..1
          /\ ref' \in 0..2 /\ refcnt' \in 0..5
        BY <1>11 DEF FailClose
    <2>1. DeviceTypeOK'
        BY <1>11, <2>0 DEF FailClose
    <2>2. HandleInv' /\ DescriptorInv'
        BY <1>11 DEF FailClose
    <2>3. ObjectsInv' /\ ThreadInv'
        BY <1>11 DEF FailClose
    <2>4. CountInv'
        BY <1>11 DEF FailClose
    <2> QED
        BY <2>1, <2>2, <2>3, <2>4
<1>12. CASE Refuse
    <2>0. /\ connects' \in 0..MaxConnects /\ mFd' \in 0..1 /\ dups' \in 0..1
          /\ ref' \in 0..2 /\ refcnt' \in 0..5
        BY <1>12 DEF Refuse
    <2>1. DeviceTypeOK'
        BY <1>12, <2>0 DEF Refuse
    <2>2. HandleInv' /\ DescriptorInv'
        BY <1>12 DEF Refuse
    <2>3. ObjectsInv' /\ ThreadInv'
        BY <1>12 DEF Refuse
    <2>4. CountInv'
        BY <1>12 DEF Refuse
    <2> QED
        BY <2>1, <2>2, <2>3, <2>4
\* The setters, release and the destructor.
<1>13. CASE \E k \in Kinds : SetCallback(k)
    BY <1>13 DEF SetCallback
<1>14. CASE SetReturns
    BY <1>14 DEF SetReturns
<1>15. CASE Release
    BY <1>15 DEF Release
<1>16. CASE \E k \in Kinds : DeleteCallback(k)
    BY <1>16 DEF DeleteCallback
<1>17. CASE ReleaseInterface
    BY <1>17 DEF ReleaseInterface
<1>18. CASE LibusbClose
    <2>0. /\ connects' \in 0..MaxConnects /\ mFd' \in 0..1 /\ dups' \in 0..1
          /\ ref' \in 0..2 /\ refcnt' \in 0..5
        BY <1>18 DEF LibusbClose
    <2>1. DeviceTypeOK'
        BY <1>18, <2>0 DEF LibusbClose
    <2>2. HandleInv' /\ DescriptorInv'
        BY <1>18 DEF LibusbClose
    <2>3. ObjectsInv' /\ ThreadInv'
        BY <1>18 DEF LibusbClose
    <2>4. CountInv'
        BY <1>18 DEF LibusbClose
    <2> QED
        BY <2>1, <2>2, <2>3, <2>4
<1>19. CASE JoinAndFree
    <2>0. /\ connects' \in 0..MaxConnects /\ mFd' \in 0..1 /\ dups' \in 0..1
          /\ ref' \in 0..2 /\ refcnt' \in 0..5
        BY <1>19 DEF JoinAndFree
    <2>1. DeviceTypeOK'
        BY <1>19, <2>0 DEF JoinAndFree
    <2>2. HandleInv' /\ DescriptorInv'
        BY <1>19 DEF JoinAndFree
    <2>3. ObjectsInv' /\ ThreadInv'
        BY <1>19 DEF JoinAndFree
    <2>4. CountInv'
        BY <1>19 DEF JoinAndFree
    <2> QED
        BY <2>1, <2>2, <2>3, <2>4
<1>20. CASE ReleaseDevice
    <2>0. /\ connects' \in 0..MaxConnects /\ mFd' \in 0..1 /\ dups' \in 0..1
          /\ ref' \in 0..2 /\ refcnt' \in 0..5
        BY <1>20 DEF ReleaseDevice
    <2>1. DeviceTypeOK'
        BY <1>20, <2>0 DEF ReleaseDevice
    <2>2. HandleInv' /\ DescriptorInv'
        BY <1>20 DEF ReleaseDevice
    <2>3. ObjectsInv' /\ ThreadInv'
        BY <1>20 DEF ReleaseDevice
    <2>4. CountInv'
        BY <1>20 DEF ReleaseDevice
    <2> QED
        BY <2>1, <2>2, <2>3, <2>4
<1>21. CASE CloseFd
    <2>0. /\ connects' \in 0..MaxConnects /\ mFd' \in 0..1 /\ dups' \in 0..1
          /\ ref' \in 0..2 /\ refcnt' \in 0..5
        BY <1>21 DEF CloseFd
    <2>1. DeviceTypeOK'
        BY <1>21, <2>0 DEF CloseFd
    <2>2. HandleInv' /\ DescriptorInv'
        BY <1>21 DEF CloseFd
    <2>3. ObjectsInv' /\ ThreadInv'
        BY <1>21 DEF CloseFd
    <2>4. CountInv'
        BY <1>21 DEF CloseFd
    <2> QED
        BY <2>1, <2>2, <2>3, <2>4
<1>22. CASE Destroy
    BY <1>22 DEF Destroy
\* The status transfer and the handler thread.
<1>23. CASE StatusEvent
    BY <1>23 DEF StatusEvent
<1>24. CASE HandlerCheck
    BY <1>24 DEF HandlerCheck
<1>25. CASE HandlerWakes
    BY <1>25 DEF HandlerWakes
<1>26. CASE StatusCallback
    BY <1>26 DEF StatusCallback
<1>27. CASE CallJava
    BY <1>27 DEF CallJava
<1>28. CASE JavaReturns
    BY <1>28 DEF JavaReturns
<1>29. CASE Resubmit
    BY <1>29 DEF Resubmit
<1>30. CASE StatusGone
    BY <1>30 DEF StatusGone
<1>31. CASE UNCHANGED deviceVars
    BY <1>31 DEF deviceVars
<1> QED
    BY <1>1, <1>2, <1>3, <1>4, <1>5, <1>6, <1>7, <1>8, <1>9, <1>10, <1>11,
       <1>12, <1>13, <1>14, <1>15, <1>16, <1>17, <1>18, <1>19, <1>20, <1>21,
       <1>22, <1>23, <1>24, <1>25, <1>26, <1>27, <1>28, <1>29, <1>30, <1>31
    DEF DeviceNext, Connecting, Releasing, HandlerThread

LEMMA DeviceConsequences == DeviceInv => CallbackInTime /\ RefsCounted /\ Unwound
<1> SUFFICES ASSUME DeviceInv PROVE CallbackInTime /\ RefsCounted /\ Unwound
    OBVIOUS
<1> USE DEF DeviceInv, DeviceTypeOK, HandleInv, Probing, Closing, Resting, Places
<1>1. CallbackInTime
    BY DEF CallbackInTime, ObjectsInv, ThreadInv, InCallback, InFlight
<1>2. RefsCounted
    BY DEF RefsCounted, CountInv, Holds, InFlight
<1>3. Unwound
    BY DEF Unwound, DescriptorInv, ObjectsInv, ThreadInv
<1> QED
    BY <1>1, <1>2, <1>3

LEMMA DeviceInvariance == DeviceSpec => []DeviceInv
BY DeviceInitially, DeviceInductive, PTL DEF DeviceSpec

-----------------------------------------------------------------------------
\* The variables have their types; at most one descriptor is open, and the
\* counts of references stay small however often connect fails.
THEOREM DeviceTypeCorrect == DeviceSpec => []DeviceTypeOK
BY DeviceInvariance, PTL DEF DeviceInv

\* A callback of libusb runs on a handle that is open and not being freed, and
\* calls an object that exists, unless release is between deleting the objects
\* and libusb_close.
THEOREM CallbacksInTime == DeviceSpec => []CallbackInTime
BY DeviceInvariance, DeviceConsequences, PTL

\* Whoever has a pointer to a device holds a reference to it.
THEOREM ReferencesCounted == DeviceSpec => []RefsCounted
BY DeviceInvariance, DeviceConsequences, PTL

\* Every step of connect that fails, and every release, takes back what was
\* made.
THEOREM FailuresUnwound == DeviceSpec => []Unwound
BY DeviceInvariance, DeviceConsequences, PTL
-----------------------------------------------------------------------------
(***************************************************************************)
(* The assembly of frames.                                                 *)
(***************************************************************************)
\* While every frame id was read, what outbuf holds has the frame id fid, and
\* the packet at hand too once its header was read: a picture of another
\* parity is another picture.
Parity == ~unread => /\ \A a \in outbuf : a[1] % 2 = fid
                     /\ event # "header" => fid = Fid

\* The buffers hold older and newer packets: frame, holdbuf, outbuf, and the
\* packet at hand.
Order ==
    /\ \A a \in outbuf : SentBefore(a, camera)
    /\ \A a \in holdbuf \cup frame : Ordered(a, camera)
    /\ \A a \in holdbuf \cup frame, b \in outbuf : Ordered(a, b)
    /\ last_seq # hold_seq => \A a \in frame, b \in holdbuf : Ordered(a, b)

Single(buf) == \A a, b \in buf : a[1] = b[1]

\* Of the camera's picture, or of the one before it if no packet since its end
\* has left a trace.
Recent(a) == \/ a[1] = camera[1]
             \/ event = "header" /\ a[1] = camera[1] - 1 /\ gap >= camera[2] - 1

\* Without an error mark the frame in the making is of one recent picture.
Marks == ~Missed /\ ~unread =>
    /\ ~bfh_err => Single(outbuf) /\ \A a \in outbuf : Recent(a)
    /\ ~hold_bfh_err => Single(holdbuf)
    /\ Single(frame)

\* A packet at hand exists.
InFrame == event # "header" => Arrived

IInv == TypeOK /\ InFrame /\ Parity /\ Order /\ Marks

-----------------------------------------------------------------------------
LEMMA Initially == Init => IInv
<1> SUFFICES ASSUME Init PROVE IInv
    OBVIOUS
<1>1. TypeOK
    <2>1. camera \in (1 .. MaxFrames + 1) \X Positions /\ gap \in 0 .. Packets
        BY PayloadAssumption DEF Init, Positions
    <2>2. hold_seq \in 0 .. seq /\ last_seq \in 0 .. hold_seq /\ seq \in Nat
        BY DEF Init
    <2> QED
        BY <2>1, <2>2 DEF Init, TypeOK, Buffers
<1>2. InFrame /\ Parity /\ Order /\ Marks
    BY DEF Init, InFrame, Parity, Order, Marks, Single
<1> QED
    BY <1>1, <1>2 DEF IInv

\* What a buffer holds.
LEMMA Held ==
    ASSUME TypeOK
    PROVE  /\ \A a \in outbuf \cup holdbuf \cup frame : a[1] \in Nat /\ a[2] \in Nat
           /\ camera[1] \in Nat /\ camera[2] \in Nat /\ gap \in Nat
           /\ Arrived => camera \in FrameIds \X Positions
BY PayloadAssumption DEF TypeOK, Buffers, FrameIds, Positions, Arrived

\* What the next packet is: the next of its picture, or the first of the next
\* picture.
LEMMA Advance ==
    ASSUME TypeOK, Arrived, NextPacket
    PROVE  /\ camera' \in (1 .. MaxFrames + 1) \X Positions
           /\ ~Eof => camera'[1] = camera[1] /\ camera'[2] = camera[2] + 1
           /\ Eof => camera'[1] = camera[1] + 1 /\ camera'[2] = 1
           /\ camera'[1] \in Nat /\ camera'[2] \in Nat
           /\ event' = "header"
<1>1. /\ camera[1] \in 1 .. MaxFrames /\ camera[2] \in 1 .. Packets
      /\ camera = <<camera[1], camera[2]>>
    BY PayloadAssumption DEF TypeOK, Arrived, Positions
<1>2. CASE Eof
    BY <1>1, <1>2, PayloadAssumption DEF NextPacket, Eof, Positions
<1>3. CASE ~Eof
    BY <1>1, <1>3, PayloadAssumption DEF NextPacket, Eof, Positions
<1> QED
    BY <1>2, <1>3

\* What is recent stays recent over a packet that is read, or passed over while
\* less than a picture was missed.
LEMMA StillRecent ==
    ASSUME TypeOK, Arrived, NextPacket, NEW a, Recent(a), a[1] \in Nat,
           \/ gap' = gap + 1 /\ gap + 1 < Packets
           \/ a[1] = camera[1] /\ gap' \in Nat
    PROVE  Recent(a)'
<1>1. camera[2] \in 1 .. Packets
    BY DEF TypeOK, Positions
<1> QED
    BY <1>1, Held, Advance, PayloadAssumption DEF Recent, Eof

-----------------------------------------------------------------------------
\* A packet of which nothing is kept.
LEMMA Dropped ==
    ASSUME IInv, Passed \/ Bad \/ BogusBulk \/ BogusIso
    PROVE  IInv'
<1> USE PayloadAssumption DEF IInv
<1>1. /\ Arrived /\ NextPacket
      /\ UNCHANGED <<isochronous, unread, fid, outbuf, seq, held, caller>>
      /\ \/ /\ bfh_err' = bfh_err /\ event = "header"
            /\ gap' = IF Missed THEN gap ELSE gap + 1
         \/ bfh_err' = TRUE /\ gap' = IF Missed THEN gap ELSE 0
    BY DEF Passed, Bad, BogusBulk, BogusIso, Mark, Awaited, Noted, InFrame, assembly
<1>2. /\ camera' \in (1 .. MaxFrames + 1) \X Positions
      /\ camera'[1] \in Nat /\ camera'[2] \in Nat /\ event' = "header"
      /\ \A a : a[1] \in Nat /\ a[2] \in Nat /\ SentBefore(a, camera)
                => SentBefore(a, camera')
      /\ camera[1] <= camera'[1]
    BY <1>1, Advance, Held DEF SentBefore
<1>3. gap' \in 0 .. Packets /\ (Missed => Missed')
    BY <1>1 DEF TypeOK, Missed
<1>4. TypeOK' /\ InFrame' /\ Parity'
    BY <1>1, <1>2, <1>3 DEF TypeOK, held, caller, InFrame, Parity
<1>5. Order'
    BY <1>1, <1>2, Held DEF Order, Ordered, held, caller
<1>6. Marks'
    <2> SUFFICES ASSUME ~Missed', ~unread', ~bfh_err', NEW a \in outbuf
                 PROVE  Recent(a)'
        BY <1>1, <1>3 DEF Marks, Single, held, caller
    <2>1. ~Missed /\ gap' = gap + 1 /\ gap + 1 < Packets
        BY <1>1, <1>3 DEF Missed, TypeOK
    <2>2. Recent(a) /\ a[1] \in Nat
        BY <1>1, <2>1, Held DEF Marks
    <2> QED
        BY <1>1, <2>1, <2>2, StillRecent
<1> QED
    BY <1>4, <1>5, <1>6

\* A buffer that is published: it is newer than what was held.
LEMMA Published ==
    ASSUME TypeOK, Order, NEW buf \in Buffers, NEW err \in BOOLEAN,
           SwapBuffers(buf, err),
           \A a \in holdbuf \cup frame, b \in buf : Ordered(a, b)
    PROVE  /\ holdbuf' = buf /\ hold_bfh_err' = err
           /\ outbuf' = {} /\ bfh_err' = FALSE /\ UNCHANGED frame
           /\ seq' \in Nat /\ hold_seq' \in 0 .. seq' /\ last_seq' \in 0 .. hold_seq'
           /\ user' \in {"check", "asleep", "look", "call"}
BY DEF SwapBuffers, TypeOK

\* The header of a packet: what is held with another frame id is published.
LEMMA HeaderRead ==
    ASSUME IInv, Header
    PROVE  IInv'
<1> USE PayloadAssumption DEF IInv, Header
<1>1. /\ fid' \in {0, 1} /\ fid' = Fid' /\ event' \in {"data", "bogus"}
      /\ camera' = camera /\ Arrived' /\ Arrived /\ event = "header"
    BY Held DEF Fid, Awaited, Arrived
<1>2. gap' \in 0 .. Packets /\ (Missed => Missed')
    BY DEF Noted, TypeOK, Missed
<1>3. CASE fid # Fid /\ outbuf # {}
    <2>1. SwapBuffers(outbuf, bfh_err)
        BY <1>3
    <2>2. /\ holdbuf' = outbuf /\ hold_bfh_err' = bfh_err
          /\ outbuf' = {} /\ bfh_err' = FALSE /\ UNCHANGED frame
          /\ seq' \in Nat /\ hold_seq' \in 0 .. seq' /\ last_seq' \in 0 .. hold_seq'
          /\ user' \in {"check", "asleep", "look", "call"}
        BY <2>1, Published DEF TypeOK, Order
    <2>3. TypeOK' /\ InFrame' /\ Parity'
        BY <2>2, <1>1, <1>2 DEF TypeOK, Buffers, InFrame, Parity
    <2>4. \A a \in outbuf : Ordered(a, camera)
        <3> SUFFICES ASSUME NEW a \in outbuf, ~unread PROVE a[1] < camera[1]
            BY DEF Ordered, Order
        <3>1. a[1] # camera[1]
            BY <1>3 DEF Parity, Fid
        <3> QED
            BY <3>1 DEF Order, SentBefore
    <2>5. Order'
        BY <2>2, <2>4, <1>1 DEF Order, Ordered
    <2>6. Marks'
        BY <2>2, <1>2 DEF Marks, Single
    <2> QED
        BY <2>3, <2>5, <2>6
<1>4. CASE ~(fid # Fid /\ outbuf # {})
    <2>1. UNCHANGED <<outbuf, bfh_err, seq, held, caller>>
        BY <1>4
    <2>2. TypeOK'
        BY <2>1, <1>1, <1>2 DEF TypeOK, held, caller
    <2>3. InFrame' /\ Parity'
        BY <2>1, <1>1, <1>4 DEF InFrame, Parity, Fid
    <2>4. Order'
        BY <2>1, <1>1 DEF Order, Ordered, held, caller
    <2>5. Marks'
        <3> SUFFICES ASSUME ~Missed', ~unread', ~bfh_err', NEW a \in outbuf
                     PROVE  a[1] = camera[1]
            BY <2>1, <1>1, <1>2 DEF Marks, Single, Recent, held, caller
        <3>1. Recent(a) /\ a[1] \in Nat /\ camera[1] \in Nat
            BY <2>1, <1>2, Held DEF Marks
        <3>2. a[1] % 2 = camera[1] % 2
            BY <1>4 DEF Parity, Fid
        <3> QED
            BY <3>1, <3>2 DEF Recent
    <2> QED
        BY <2>2, <2>3, <2>4, <2>5
<1> QED
    BY <1>3, <1>4

\* The data of a packet is appended or not, and the frame published or not.
LEMMA Made ==
    ASSUME IInv, Arrived, NextPacket,
           NEW buf \in {outbuf, outbuf \cup {camera}}, NEW err \in {bfh_err, TRUE},
           NEW end \in {FALSE, Eof}, Make(buf, err, end),
           UNCHANGED <<isochronous, gap, fid>>,
           unread' \in BOOLEAN, unread => unread', ~unread' => event = "data"
    PROVE  IInv'
<1> USE PayloadAssumption DEF IInv
<1>1. /\ camera' \in (1 .. MaxFrames + 1) \X Positions
      /\ camera'[1] \in Nat /\ camera'[2] \in Nat /\ event' = "header"
      /\ \A a : a[1] \in Nat /\ a[2] \in Nat /\ SentBefore(a, camera)
                => SentBefore(a, camera')
      /\ camera[1] <= camera'[1] /\ (end => camera[1] < camera'[1])
      /\ SentBefore(camera, camera')
    <2>1. /\ camera[1] \in Nat /\ camera[2] \in Nat
          /\ end => Eof
        BY Held DEF Eof
    <2> QED
        BY <2>1, Advance DEF SentBefore
<1>2. buf \in Buffers /\ err \in BOOLEAN
    BY Held DEF TypeOK, Buffers
<1>3. \A a \in buf : /\ a[1] \in Nat /\ a[2] \in Nat /\ a[1] <= camera[1]
                     /\ SentBefore(a, camera')
    BY <1>1, Held DEF Order, SentBefore
<1>4. \A a \in holdbuf \cup frame, b \in buf : Ordered(a, b)
    BY DEF Order
<1>5. ~unread' => \A a \in buf : a[1] % 2 = fid
    BY DEF Parity, Fid
<1>6. ~Missed /\ ~unread' /\ ~err => \A a \in buf : a[1] = camera[1]
    <2> SUFFICES ASSUME ~Missed, ~unread', ~err PROVE \A a \in outbuf : a[1] = camera[1]
        OBVIOUS
    <2>1. ~bfh_err
        OBVIOUS
    <2>2. ~unread /\ event = "data"
        OBVIOUS
    <2> QED
        BY <2>1, <2>2 DEF Marks, Recent
<1>7. CASE end
    <2>1. /\ holdbuf' = buf /\ hold_bfh_err' = err
          /\ outbuf' = {} /\ bfh_err' = FALSE /\ UNCHANGED frame
          /\ seq' \in Nat /\ hold_seq' \in 0 .. seq' /\ last_seq' \in 0 .. hold_seq'
          /\ user' \in {"check", "asleep", "look", "call"}
        BY <1>2, <1>4, <1>7, Published DEF Make
    <2>2. TypeOK' /\ InFrame' /\ Parity'
        BY <2>1, <1>1, <1>2 DEF TypeOK, Buffers, InFrame, Parity
    <2>3. Order'
        BY <2>1, <1>1, <1>3, <1>4, <1>7, Held DEF Order, Ordered
    <2>4. Marks'
        BY <2>1, <1>6 DEF Marks, Single, Missed
    <2> QED
        BY <2>2, <2>3, <2>4
<1>8. CASE ~end
    <2>1. outbuf' = buf /\ bfh_err' = err /\ UNCHANGED <<seq, held, caller>>
        BY <1>8 DEF Make
    <2>2. TypeOK' /\ InFrame' /\ Parity'
        BY <2>1, <1>1, <1>2, <1>5 DEF TypeOK, held, caller, InFrame, Parity
    <2>3. Order'
        BY <2>1, <1>1, <1>3, <1>4, Held DEF Order, Ordered, held, caller
    <2>4. Marks'
        <3> SUFFICES ASSUME ~Missed', ~unread', ~bfh_err', NEW a \in buf
                     PROVE  Recent(a)'
            BY <2>1, <1>6 DEF Marks, Single, Missed, held, caller
        <3>1. a[1] = camera[1] /\ a[1] \in Nat /\ gap' \in Nat
            BY <2>1, <1>3, <1>6, Held DEF Missed
        <3> QED
            BY <3>1, StillRecent DEF Recent
    <2> QED
        BY <2>2, <2>3, <2>4
<1> QED
    BY <1>7, <1>8

LEMMA Inductive == IInv /\ [Next]_vars => IInv'
<1> SUFFICES ASSUME IInv, [Next]_vars PROVE IInv'
    OBVIOUS
<1>1. CASE UNCHANGED vars
    BY <1>1
    DEF IInv, vars, source, history, assembly, held, caller, TypeOK, InFrame,
        Arrived, Parity, Fid, Order, Ordered, Marks, Missed, Recent, Single
<1>2. CASE Passed \/ Bad \/ BogusBulk \/ BogusIso
    BY <1>2, Dropped
<1>3. CASE Header
    BY <1>3, HeaderRead
<1>4. CASE Data
    <2>1. /\ Arrived /\ NextPacket /\ event = "data"
          /\ UNCHANGED <<isochronous, unread, gap, fid>>
        BY <1>4 DEF Data, history, IInv, InFrame
    <2>2. unread \in BOOLEAN
        BY DEF IInv, TypeOK
    <2>3. PICK buf \in {outbuf, outbuf \cup {camera}}, err \in {bfh_err, TRUE},
               end \in {FALSE, Eof} : Make(buf, err, end)
        <3>1. CASE isochronous /\ DataIso
            <4>1. PICK buf \in {outbuf, outbuf \cup {camera}} :
                     Make(buf, bfh_err, Eof /\ buf # {})
                BY <3>1 DEF DataIso
            <4>2. (Eof /\ buf # {}) \in {FALSE, Eof}
                BY DEF Eof
            <4> QED
                BY <4>1, <4>2
        <3>2. CASE ~isochronous /\ (DataBulk(Eof) \/ Make(outbuf, bfh_err, FALSE))
            BY <3>2 DEF DataBulk
        <3> QED
            BY <1>4, <3>1, <3>2 DEF Data
    <2> QED
        BY <2>1, <2>2, <2>3, Made
<1>5. CASE Short
    <2>1. /\ Arrived /\ NextPacket /\ unread' = TRUE
          /\ UNCHANGED <<isochronous, gap, fid>>
        BY <1>5 DEF Short, Awaited
    <2>2. PICK buf \in {outbuf, outbuf \cup {camera}}, err \in {bfh_err, TRUE},
               end \in {FALSE, Eof} : Make(buf, err, end)
        BY <1>5 DEF Short, DataBulk
    <2> QED
        BY <2>1, <2>2, Made
<1>6. CASE TakeFrame
    BY <1>6
    DEF IInv, TakeFrame, source, history, assembly, held, TypeOK, InFrame,
        Arrived, Parity, Fid, Order, Ordered, Marks, Missed, Recent, Single
<1>7. CASE Look \/ UserReturns
    BY <1>7
    DEF IInv, Look, UserReturns, source, history, assembly, held, TypeOK,
        InFrame, Arrived, Parity, Fid, Order, Ordered, Marks, Missed, Recent,
        Single
<1> QED
    BY <1>1, <1>2, <1>3, <1>4, <1>5, <1>6, <1>7 DEF Next, UserStep, EventStep

LEMMA Invariance == Spec => []IInv
BY Initially, Inductive, PTL DEF Spec

-----------------------------------------------------------------------------
\* The variables have their types; frame numbers go forward.
THEOREM TypeCorrect == Spec => []TypeOK
BY Invariance, PTL DEF IInv

\* No frame that the user is called with mixes two pictures, whatever gets lost
\* with or without a mark, unless a whole picture's worth of packets was passed
\* over in a row or a bulk payload came without a frame id.
THEOREM NeverMixed == Spec => []NotMixed
<1>1. IInv => NotMixed
    BY DEF IInv, Marks, Single, NotMixed
<1> QED
    BY <1>1, Invariance, PTL

\* The copies made for the user are of later and later packets, and of later
\* and later pictures unless a bulk payload came without a frame id.
THEOREM PicturesInOrder == Spec => InOrder
<1>1. IInv /\ [Next]_vars
        => [frame' # frame => \A a \in frame, b \in frame' : Ordered(a, b)]_vars
    <2> SUFFICES ASSUME IInv, Next, frame' # frame
                 PROVE  \A a \in frame, b \in frame' : Ordered(a, b)
        BY DEF vars, caller
    <2>1. TakeFrame
        BY DEF Next, UserStep, EventStep, Look, UserReturns, Passed, Mark, Bad,
               BogusBulk, BogusIso, Header, Data, DataIso, DataBulk, Short, Make,
               SwapBuffers, caller
    <2> QED
        BY <2>1 DEF TakeFrame, IInv, Order
<1> QED
    BY <1>1, Invariance, PTL DEF Spec, InOrder
=============================================================================
