------------------------------ MODULE UvcDevice ------------------------------
(***************************************************************************)
(* A camera object from connect to release: UVCCamera.cpp, uvc_open and    *)
(* uvc_close, with the reference counts, the file descriptor, the status   *)
(* transfer and its two callback objects.  The application's calls come    *)
(* one at a time (open, close and destroy are synchronized; the setters    *)
(* of callbacks are not, and are taken to come in between); beside them    *)
(* runs the handler thread, which calls the callbacks.  How the threads    *)
(* share the events of libusb is the subject of UsbEvents: here a callback *)
(* holds the events lock, and libusb_close waits for it.                   *)
(***************************************************************************)
EXTENDS Naturals

CONSTANTS Kinds,       \* callback objects: status and button
          MaxConnects  \* bound: calls of connect

ASSUME DeviceAssumption == MaxConnects \in Nat

VARIABLES
    app, connects,        \* what the application's call is doing; bound
    mContext, mDevice, mDeviceHandle, mUsbFs, mFd,
    objects,              \* mStatusCallback and mButtonCallback that exist
    devh,                 \* the uvc_device_handle_t is allocated
    hooked,               \* callbacks its status_cb and button_cb name
    opened, claimed,      \* libusb handle open, control interface claimed
    status_xfer,          \* the status transfer: none, kernel, ready, dropped
    ref, refcnt,          \* counts of the uvc_device_t and the libusb_device
    dups,                 \* descriptors made by connect and still open
    kill_handler_thread, thread, kind,
    failed                \* history: the last connect failed

usb  == <<devh, opened, claimed, status_xfer, ref, refcnt>>
instance == <<mContext, mDevice, mDeviceHandle, mUsbFs, mFd, dups, objects, hooked>>
handler == <<kill_handler_thread, thread, kind>>
deviceVars == <<app, connects, instance, usb, handler, failed>>

DeviceInit ==
    /\ app = "idle" /\ connects = 0
    /\ mContext = FALSE /\ mDevice = FALSE /\ mDeviceHandle = FALSE
    /\ mUsbFs = FALSE /\ mFd = 0 /\ dups = 0
    /\ objects = {} /\ hooked = {}
    /\ devh = FALSE /\ opened = FALSE /\ claimed = FALSE
    /\ status_xfer = "none" /\ ref = 0 /\ refcnt = 0
    /\ kill_handler_thread = FALSE /\ thread = "dead" /\ kind \in Kinds
    /\ failed = FALSE

InCallback == thread \in {"called", "java", "resubmit"}

(***************************************************************************)
(* connect, with uvc_get_device_with_fd and uvc_open.  Each step may fail. *)
(***************************************************************************)
\* The name of the file system is kept whatever happens next.
Connect ==
    /\ app = "idle" /\ ~mDeviceHandle
    /\ connects < MaxConnects /\ connects' = connects + 1
    /\ mUsbFs' = TRUE
    /\ failed' = FALSE
    /\ app' = IF mContext THEN "get" ELSE "init"
    /\ UNCHANGED <<mContext, mDevice, mDeviceHandle, mFd, dups, objects,
                   hooked, usb, handler>>

\* uvc_init2.  A new context has a handler thread that was not told to end.
InitContext ==
    /\ app = "init"
    /\ \/ /\ mContext' = TRUE /\ kill_handler_thread' = FALSE
          /\ app' = "get" /\ UNCHANGED failed
       \/ /\ app' = "idle" /\ failed' = TRUE
          /\ UNCHANGED <<mContext, kill_handler_thread>>
    /\ UNCHANGED <<connects, mDevice, mDeviceHandle, mUsbFs, mFd, dups, objects,
                   hooked, usb, thread, kind>>

\* The descriptor is duplicated, and closed again when there is no device.
\* A libusb_device is made with one reference, and gets one more.
GetDevice ==
    /\ app = "get"
    /\ \/ /\ dups' = dups + 1
          /\ mDevice' = TRUE /\ ref' = 1 /\ refcnt' = 2
          /\ app' = "open" /\ UNCHANGED failed
       \/ /\ mDevice' = FALSE
          /\ app' = "idle" /\ failed' = TRUE
          /\ UNCHANGED <<dups, ref, refcnt>>
    /\ UNCHANGED <<connects, mContext, mDeviceHandle, mUsbFs, mFd, objects,
                   hooked, devh, opened, claimed, status_xfer, handler>>

\* Slip: the handle does not count as a user of the device.
LibusbOpenUnref ==
    /\ app = "open"
    /\ \/ /\ opened' = TRUE /\ devh' = TRUE /\ refcnt' = refcnt + 1
          /\ app' = "info"
       \/ app' = "refuse" /\ UNCHANGED <<opened, devh, refcnt>>
    /\ UNCHANGED <<connects, instance, ref, claimed, status_xfer, handler, failed>>

\* libusb_open takes a reference, uvc_ref_device another of each kind.
LibusbOpen ==
    /\ app = "open"
    /\ \/ /\ opened' = TRUE /\ devh' = TRUE
          /\ ref' = ref + 1 /\ refcnt' = refcnt + 2
          /\ app' = "info"
       \/ app' = "refuse" /\ UNCHANGED <<opened, devh, ref, refcnt>>
    /\ UNCHANGED <<connects, instance, claimed, status_xfer, handler, failed>>

GetInfo ==
    /\ app = "info"
    /\ app' \in {"claim", "fail2"}
    /\ UNCHANGED <<connects, instance, usb, handler, failed>>

ClaimInterface ==
    /\ app = "claim"
    /\ \/ claimed' = TRUE /\ app' = "submit"
       \/ app' = "fail" /\ UNCHANGED claimed
    /\ UNCHANGED <<connects, instance, devh, opened, status_xfer, ref, refcnt,
                   handler, failed>>

\* A camera without a status endpoint has no status transfer.
SubmitStatus ==
    /\ app = "submit"
    /\ \/ status_xfer' = "kernel" /\ refcnt' = refcnt + 1 /\ app' = "start"
       \/ app' \in {"start", "fail"} /\ UNCHANGED <<status_xfer, refcnt>>
    /\ UNCHANGED <<connects, instance, devh, opened, claimed, ref, handler, failed>>

\* uvc_open has succeeded: the context had no other open device.
StartThread ==
    /\ app = "start"
    /\ thread' = "check"
    /\ mDeviceHandle' = TRUE /\ mFd' = 1
    /\ app' = "hook"
    /\ UNCHANGED <<connects, mContext, mDevice, mUsbFs, dups, objects, hooked,
                   usb, kill_handler_thread, kind, failed>>

\* The constructor of a callback object takes status_mutex to set status_cb,
\* which a callback that runs holds.
HookCallback(k) ==
    /\ app = "hook" /\ thread \notin {"called", "java"}
    /\ k \notin objects
    /\ objects' = objects \cup {k} /\ hooked' = hooked \cup {k}
    /\ app' = IF objects' = Kinds THEN "idle" ELSE "hook"
    /\ UNCHANGED <<connects, mContext, mDevice, mDeviceHandle, mUsbFs, mFd, dups,
                   usb, handler, failed>>

\* Slip: the interface is not released.
FailReleaseNot ==
    /\ app = "fail"
    /\ app' = "fail2"
    /\ UNCHANGED <<connects, instance, usb, handler, failed>>

FailRelease ==
    /\ app = "fail"
    /\ claimed' = FALSE
    /\ app' = "fail2"
    /\ UNCHANGED <<connects, instance, devh, opened, status_xfer, ref, refcnt,
                   handler, failed>>

\* libusb_close and uvc_unref_device give one reference back each.
FailClose ==
    /\ app = "fail2"
    /\ opened' = FALSE /\ devh' = FALSE
    /\ ref' = ref - 1 /\ refcnt' = refcnt - 2
    /\ app' = "refuse"
    /\ UNCHANGED <<connects, instance, claimed, status_xfer, handler, failed>>

\* The camera could not be opened.
Refuse ==
    /\ app = "refuse"
    /\ ref' = ref - 1 /\ refcnt' = refcnt - 1
    /\ mDevice' = FALSE /\ dups' = dups - 1
    /\ failed' = TRUE /\ app' = "idle"
    /\ UNCHANGED <<connects, mContext, mDeviceHandle, mUsbFs, mFd, objects,
                   hooked, devh, opened, claimed, status_xfer, handler>>

\* setStatusCallback and setButtonCallback wait for a Java callback to return.
SetCallback(k) ==
    /\ app = "idle" /\ k \in objects
    /\ app' = "set"
    /\ UNCHANGED <<connects, instance, usb, handler, failed>>
SetReturns ==
    /\ app = "set" /\ thread # "java"
    /\ app' = "idle"
    /\ UNCHANGED <<connects, instance, usb, handler, failed>>

(***************************************************************************)
(* release, and uvc_close within it.                                       *)
(***************************************************************************)
Release ==
    /\ app = "idle" /\ mUsbFs
    /\ app' = IF mDeviceHandle THEN "delete" ELSE "unref"
    /\ UNCHANGED <<connects, instance, usb, handler, failed>>

\* The destructor does not take the callback back from the handle.
DeleteCallback(k) ==
    /\ app = "delete" /\ k \in objects
    /\ objects' = objects \ {k}
    /\ app' = IF objects' = {} THEN "release_if" ELSE "delete"
    /\ UNCHANGED <<connects, mContext, mDevice, mDeviceHandle, mUsbFs, mFd, dups,
                   hooked, usb, handler, failed>>

ReleaseInterface ==
    /\ app = "release_if"
    /\ claimed' = FALSE
    /\ kill_handler_thread' = TRUE
    /\ app' = "close"
    /\ UNCHANGED <<connects, instance, devh, opened, status_xfer, ref, refcnt,
                   thread, kind, failed>>

\* Slip: the events lock is not taken.
LibusbCloseNow ==
    /\ app = "close"
    /\ opened' = FALSE /\ refcnt' = refcnt - 1
    /\ status_xfer' = IF status_xfer = "none" THEN "none" ELSE "dropped"
    /\ app' = "join"
    /\ UNCHANGED <<connects, instance, devh, claimed, ref, handler, failed>>

\* A transfer in flight is dropped, with the reference it holds.
LibusbClose ==
    /\ app = "close" /\ ~InCallback
    /\ opened' = FALSE /\ refcnt' = refcnt - 1
    /\ status_xfer' = IF status_xfer = "none" THEN "none" ELSE "dropped"
    /\ app' = "join"
    /\ UNCHANGED <<connects, instance, devh, claimed, ref, handler, failed>>

\* pthread_join, uvc_unref_device and uvc_free_devh.
JoinAndFree ==
    /\ app = "join" /\ thread = "dead"
    /\ ref' = ref - 1 /\ refcnt' = refcnt - 1
    /\ devh' = FALSE /\ hooked' = {} /\ status_xfer' = "none"
    /\ mDeviceHandle' = FALSE
    /\ app' = "unref"
    /\ UNCHANGED <<connects, mContext, mDevice, mUsbFs, mFd, dups, objects,
                   opened, claimed, handler, failed>>

ReleaseDevice ==
    /\ app = "unref"
    /\ IF mDevice
       THEN ref' = ref - 1 /\ refcnt' = refcnt - 1
       ELSE UNCHANGED <<ref, refcnt>>
    /\ mDevice' = FALSE
    /\ app' = "close_fd"
    /\ UNCHANGED <<connects, mContext, mDeviceHandle, mUsbFs, mFd, dups, objects,
                   hooked, devh, opened, claimed, status_xfer, handler, failed>>

\* Slip: the number of the closed descriptor is kept.
CloseFdStale ==
    /\ app = "close_fd"
    /\ dups' = IF mFd = 0 THEN dups ELSE dups - 1
    /\ mUsbFs' = FALSE
    /\ app' = "idle"
    /\ UNCHANGED <<connects, mContext, mDevice, mDeviceHandle, mFd, objects,
                   hooked, usb, handler, failed>>

\* After a connect that failed, mFd is still 0, and 0 is closed.
CloseFd ==
    /\ app = "close_fd"
    /\ dups' = IF mFd = 0 THEN dups ELSE dups - 1
    /\ mFd' = 0 /\ mUsbFs' = FALSE
    /\ app' = "idle"
    /\ UNCHANGED <<connects, mContext, mDevice, mDeviceHandle, objects, hooked,
                   usb, handler, failed>>

\* The destructor, after release: uvc_exit.  The next camera is a new object.
Destroy ==
    /\ app = "idle" /\ mContext /\ ~mUsbFs
    /\ mContext' = FALSE
    /\ failed' = FALSE
    /\ UNCHANGED <<app, connects, mDevice, mDeviceHandle, mUsbFs, mFd, dups,
                   objects, hooked, usb, handler>>

(***************************************************************************)
(* The handler thread, and what the camera sends.                          *)
(***************************************************************************)
StatusEvent ==
    /\ status_xfer = "kernel"
    /\ status_xfer' = "ready"
    /\ UNCHANGED <<app, connects, instance, devh, opened, claimed, ref, refcnt,
                   handler, failed>>

HandlerCheck ==
    /\ thread = "check"
    /\ thread' = IF kill_handler_thread THEN "dead" ELSE "poll"
    /\ UNCHANGED <<app, connects, instance, usb, kill_handler_thread, kind, failed>>

\* A poll that finds nothing returns after a minute, or when it is interrupted.
HandlerWakes ==
    /\ thread = "poll"
    /\ thread' = "check"
    /\ UNCHANGED <<app, connects, instance, usb, kill_handler_thread, kind, failed>>

\* _uvc_status_callback looks for the callback, under status_mutex.
StatusCallback ==
    /\ thread = "poll" /\ status_xfer = "ready"
    /\ kind' \in Kinds
    /\ thread' = IF kind' \in hooked THEN "called" ELSE "resubmit"
    /\ UNCHANGED <<app, connects, instance, usb, kill_handler_thread, failed>>

\* The callback object takes its own mutex and calls Java.
CallJava ==
    /\ thread = "called"
    /\ thread' = "java"
    /\ UNCHANGED <<app, connects, instance, usb, kill_handler_thread, kind, failed>>
JavaReturns ==
    /\ thread = "java"
    /\ thread' = "resubmit"
    /\ UNCHANGED <<app, connects, instance, usb, kill_handler_thread, kind, failed>>

\* The transfer is submitted again, with a reference, before the completion
\* gives the old one back.
Resubmit ==
    /\ thread = "resubmit"
    /\ \/ status_xfer' = "kernel" /\ UNCHANGED refcnt
       \/ status_xfer' = "none" /\ refcnt' = refcnt - 1
    /\ thread' = "check"
    /\ UNCHANGED <<app, connects, instance, devh, opened, claimed, ref,
                   kill_handler_thread, kind, failed>>

\* The camera is gone: the transfer completes and is not submitted again.
StatusGone ==
    /\ thread = "poll" /\ status_xfer \in {"kernel", "ready"}
    /\ status_xfer' = "none" /\ refcnt' = refcnt - 1
    /\ thread' = "check"
    /\ UNCHANGED <<app, connects, instance, devh, opened, claimed, ref,
                   kill_handler_thread, kind, failed>>

Connecting == InitContext \/ GetDevice \/ LibusbOpen \/ GetInfo \/ ClaimInterface
              \/ SubmitStatus \/ StartThread \/ (\E k \in Kinds : HookCallback(k))
              \/ FailRelease \/ FailClose \/ Refuse
Releasing == (\E k \in Kinds : DeleteCallback(k)) \/ ReleaseInterface
             \/ LibusbClose \/ JoinAndFree \/ ReleaseDevice \/ CloseFd
HandlerThread == HandlerCheck \/ HandlerWakes \/ StatusCallback \/ CallJava
                 \/ JavaReturns \/ Resubmit \/ StatusGone

DeviceNext == \/ Connect \/ Connecting \/ Release \/ Releasing \/ Destroy
        \/ (\E k \in Kinds : SetCallback(k)) \/ SetReturns
        \/ StatusEvent \/ HandlerThread

DeviceSpec == DeviceInit /\ [][DeviceNext]_deviceVars

-----------------------------------------------------------------------------
Places == {"idle", "init", "get", "open", "info", "claim", "submit", "start",
    "hook", "fail", "fail2", "refuse", "set", "delete", "release_if", "close",
    "join", "unref", "close_fd"}

DeviceTypeOK ==
    /\ app \in Places /\ connects \in 0..MaxConnects
    /\ mContext \in BOOLEAN /\ mDevice \in BOOLEAN /\ mDeviceHandle \in BOOLEAN
    /\ mUsbFs \in BOOLEAN
    /\ mFd \in 0..1 /\ dups \in 0..1
    /\ objects \subseteq Kinds /\ hooked \subseteq Kinds
    /\ devh \in BOOLEAN /\ opened \in BOOLEAN /\ claimed \in BOOLEAN
    /\ status_xfer \in {"none", "kernel", "ready", "dropped"}
    /\ ref \in 0..2 /\ refcnt \in 0..5
    /\ kill_handler_thread \in BOOLEAN
    /\ thread \in {"check", "poll", "called", "java", "resubmit", "dead"}
    /\ kind \in Kinds
    /\ failed \in BOOLEAN

\* No callback of libusb runs on a handle that is being freed ("Streaming must
\* be stopped, and threads must have died", device.c:1530), and a callback
\* object is called only while it exists.  The exception: release deletes the
\* objects without taking them back from the handle, so until libusb_close a
\* status event still calls the one that is gone.
CallbackInTime ==
    InCallback =>
        /\ devh /\ opened
        /\ thread \in {"called", "java"} =>
             kind \in objects \/ app \in {"delete", "release_if", "close"}

\* Whoever has a pointer to a device holds a reference, on every path of
\* uvc_open and uvc_close: the uvc_device_t is not freed under mDevice or a
\* handle, nor the libusb_device under them, the open handle or a transfer.
\* The first reference of the libusb_device is never given back.
Holds(b) == IF b THEN 1 ELSE 0
InFlight == status_xfer \in {"kernel", "ready"}
RefsCounted ==
    /\ ref = Holds(mDevice) + Holds(devh)
    /\ mDevice => refcnt > ref + Holds(opened) + Holds(InFlight)

\* When no call runs, a camera is either open, with its thread, interface,
\* descriptor and callbacks, or everything a connect made was taken back,
\* whichever of its steps failed.  And nothing else is: release closes the
\* descriptor that connect made, unless the last connect failed; then it closes
\* descriptor 0, which is not its own.
Unwound ==
    /\ app = "idle" =>
        IF mDeviceHandle
        THEN /\ mDevice /\ devh /\ opened /\ claimed
             /\ dups = 1 /\ objects = Kinds /\ hooked = Kinds
             /\ thread # "dead" \/ kill_handler_thread
        ELSE /\ ~mDevice /\ ~devh /\ ~opened /\ ~claimed
             /\ dups = 0 /\ objects = {} /\ thread = "dead"
    /\ app = "close_fd" => (mFd = 1 /\ dups = 1) \/ (mFd = 0 /\ failed)
=============================================================================
