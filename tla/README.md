# UVCCameraAI: specifications, model checks and proofs

UVCCameraAI is an Android library that drives USB video cameras (UVC): a Java
API over a C++ preview engine, over a modified libuvc, over a modified libusb.
This directory models its concurrent core in TLA+, from the camera service of a
sample down to the URBs of a USB transfer, checks the models with TLC and proves
the invariants of all ten with TLAPS. `PROJECT.json` lists the runs, which
source lines each definition stands for, and the hazards the properties are for.

## 1. The system

```
 clients --binder--> UVCService, CameraServer                CameraService
      |                      |
 application threads   USBMonitor: permission, attach,       UsbMonitor
      |  messages      connect, control blocks
 camera thread: AbstractUVCCameraHandler.CameraThread        CameraHandler
      |-- encoder threads, muxer: MediaEncoder, MuxerWrapper MediaRecorder
      |  methods of UVCCamera.java
 camera object: UVCCamera.cpp, uvc_open, uvc_close           UvcDevice
      |
 preview engine: UVCPreview.cpp                              UvcPreview
      |  preview thread, capture thread; queue, slot, pool
      |  uvc_start_streaming / uvc_stop_streaming            StreamContract
 stream handle: libuvc stream.c                              UvcStream
      |  event thread, user caller thread; transfers         TransferContract
      |  payloads to frames                                  UvcPayload
 libusb: who handles events, control transfers, close        UsbEvents
      |  a transfer and its URBs, android_usbfs.c            UsbTransfer
 the kernel, the camera                                      (external)
```

| Component | State | Operations | What is hard | What makes it correct |
|---|---|---|---|---|
| Camera service (`usbCameraTest4`: `UVCService`, `CameraServer`, `CameraClient`) | table of servers, message queue and camera of each, callbacks and whether they were told | select, connect, disconnect, onConnect, onDisconnect, onUnbind, the camera thread's handlers | binder threads, a worker, the main thread and one thread per camera meet on two monitors; a server found may be released before it is used | a released server closes its camera; a client is told the truth; calls end |
| USB monitor (`USBMonitor.java`) | permitted devices, `mCtrlBlocks`, `mDeviceCounts`, the handler's tasks | register, requestPermission, openDevice, destroy, the broadcasts, the poll for devices, connect, close | main thread, handler thread and camera thread share the table; broadcasts and tasks overtake calls | every open connection is in the table and closed in time; a device that stays is announced |
| Camera handler (`AbstractUVCCameraHandler`) | message queue, `mUVCCamera`, `mIsPreviewing`, `mIsRecording`, `mMuxer` | open, close, preview, record, release | check-then-act against the camera thread; callbacks of encoders | the flags tell the truth; waits end; release ends the thread |
| Recorder (`MediaEncoder`, `MediaMuxerWrapper`) | requests, `mStatredCount`, `mIsStarted`, the muxer | start, drain, stop, for each encoder | two threads share a muxer they start and stop by counting | the muxer is never misused; a file is finished; encoders end |
| Camera object (`UVCCamera.cpp`), libuvc device and context (`device.c`, `init.c`) | handles, descriptor, reference counts, claims, callback objects, status transfer | connect, release, the destructor, uvc_open, uvc_close, the handler thread | every step of connect can fail; callbacks run on another thread | what was made is taken back; references are counted; callbacks run on what exists |
| Preview engine (`UVCPreview.cpp`) | `mIsRunning`, `mIsCapturing`, frame pool, preview queue, capture slot, windows, callback | `startPreview`, `stopPreview`, frame callback, preview and capture threads, `setFrameCallback`, `setCaptureDisplay` | two volatile flags, signals sent without the mutex, one condition for two purposes, threads joined that may not exist | every buffer has one owner; nobody sleeps on a frame; a stop returns and leaves nothing behind; nothing is replaced while in use |
| Stream handle (`stream.c`) | `running`, `transfers[]`, `cb_mutex`/`cb_cond` | open, start, transfer callback, user caller, stop, close | transfers completed, cancelled, resubmitted by another thread; unplugging | after a stop nobody uses the handle; the stop returns; frames are delivered only in between |
| Frame assembly (`stream.c`) | `outbuf`, `holdbuf`, `fid`, `bfh_err` marks, `hold_seq` | one packet, swap, take a frame | lost packets, a one-bit frame id | no frame mixes two pictures; frames go forward; the last good one arrives |
| libusb's events (`io.c`, `core.c`, `sync.c`) | `events_lock`, the waiters' condition, `pollfd_modify`, the control pipe, the polled descriptors | handle events, wait for a transfer, `libusb_close` | any thread may be the one that handles events, and may go away | nobody sleeps unserved; a closed device is not touched; waits end |
| libusb's transfers (`android_usbfs.c`, `io.c`) | URBs in the kernel, `num_retired`, `reap_action`, flags | submit, cancel, time out, reap, report, disconnect | a transfer is several URBs that finish in any order and may be submitted in part | nothing is freed under the kernel; the status is true; a transfer that should end does |
| Pipelines, JNI glue, controls, conversions, views, samples' user interface, classification, other libusb backends, libjpeg, rapidjson | - | - | - | not modelled, see the end |

The hazards (which steps, at which line, in what order) are in `PROJECT.json`
under `hazards`, each with the properties that watch it.

## 2. The modules

**`CameraService`** models the service with one device. Each client calls from
a thread of its own, one call at a time, and its program counter is that of the
binder thread in the service; `Worker` runs what `queueEvent` posts, `Main` is
`onUnbind`. `lock` is `sServiceSync` where it is held across steps: the release
of a server waits under it for the camera thread. A server has a queue `msgs`
and a `thread`; `mSync` is held for several steps only by an open
(`SyncFree`). Closing a camera closes its clone of the control block, whose
`close` calls `onDisconnect`: so `Destroy` posts the removal of the server. An
exception that nobody catches sets `dead`. `told` is what the clients know: those
told `onConnected` and not `onDisconnected` since. The server knows less, since it
keeps this in the cookies of `mCallbacks`: `forgotten` are the clients told whose
cookie is gone, because they registered again (`97`) or the list was killed (`113`).
`overtaken` and `misled` are history variables that name other exceptions below.

**`UsbMonitor`** models `USBMonitor.java` with its three threads. A device is
one attachment (plugged in again it is another `UsbDevice`); `block` lists every
control block ever made, `mCtrlBlocks` the one that the table has for each
device. `lost` and `raced` are histories of the known ways to lose a block or
an announcement. The poll announces the devices in any order (a `HashMap` has none).

**`CameraHandler`** models the messages between the application's threads and
the camera thread, with the wait in `stopPreview`, and the end of encoders. A
synchronized block is one step and so is a call to the camera, which may fail
(`HandleStartPreview`: the flag is set all the same); what happens below is
`UvcPreview`'s subject. An encoder's thread has steps of its own: its end clears
`mIsRecording` (`OnStopped`), stops the capture (`StopCapture`) and announces the
file (`Announce`); without a name, in a handler that is released or whose activity
is gone, it runs `handleRelease` there, step by step beside the camera thread
(`StopRecordingBeside`, `CloseBeside`, `ReleaseBeside`). `handleUpdateMedia`
releases for the same reasons, on the camera thread. `leaving` are the threads that
took the camera out of `mUVCCamera` and have not stopped it yet. A recording is its
video encoder: the audio encoder only shares the muxer, and is `MediaRecorder`'s
subject. Still capture is left out, and so are spurious wakeups of the wait, which
the code does not check for and no platform promises not to happen: `WokenAfterStop`
and `StopReturns` are about the notifies.

**`MediaRecorder`** models the encoder threads and the muxer wrapper. The
codec is external: it gives its format once and one output per input, after
any delay. `missed` are encoders that fell asleep on a stop already notified.
`Collect` is the garbage collector, which may take the wrapper the encoders
hold only weakly.

**`UvcDevice`** models a camera object from connect to release, with `uvc_open`
and `uvc_close` inside: one action per step that can fail, the way back from
each, the two counts of references (of libuvc and of libusb), the descriptor
that connect duplicates, and the handler thread that calls the status and button
callbacks. (Definitions here and in `UsbEvents` are named `Device...`, `Events...`
because each shares a module of proofs with another component.)

**`UvcPreview`** models `UVCPreview.cpp`. One action is one critical section
or one step between two accesses to shared variables; the long methods
(`stopPreview`, `do_preview`, `do_capture`) are program counters. Frame buffers
have no identity: `held` is the set of pointers that own one, `live` counts
the allocated ones, and what neither the pool, the queue nor a pointer has is
`Lost`. The client calls the `synchronized` methods of `UVCCamera.java`; the
setter calls those that are not synchronized. `late` is a history variable:
workers that began to sleep after the stop had been asked for.

**`StreamContract`** is what a user of a libuvc stream may rely on: stopped,
streaming, stopping; the callback begins only while streaming, may still run
while stopping, and has returned when the stream is stopped. It is a
refinement target on both sides: `UvcStream` implements it (`phase` from the
client's program counter, `calling` from the user caller's), and so does
`UvcPreview`'s picture of the stream it uses.

**`UvcStream`** models the life of a stream handle: the client, libusb's event
thread and the user caller. Each transfer is `ready`, in `flight`,
`cancelled`, in its `callback`, `stuck` (its resubmission failed) or `null`.
libusb is external here: it completes every transfer submitted to it, with data,
an error, or its cancellation, which is what `UsbEvents` and `UsbTransfer` are
about. Steps on a handle that was freed are not modelled.

**`UvcPayload`** models how packets become frames: `_uvc_process_payload` and
`_uvc_process_payload_iso`, the swap of the two buffers, and the user caller
that takes, copies and offers a frame. A packet is the picture it belongs to
and its place in it. What can befall a packet are the paths of the code: it is lost
or damaged and the frame is marked (`Bad`, `BogusIso`, `BogusBulk`); it is passed
over and leaves no trace (`Passed`: a transfer that timed out is submitted again
unread, an empty packet is skipped, one with the error bit as well); a bulk payload
has a header too short for a frame id and is appended unseen (`Short`), or does not
fit (`DataBulk`). `gap` counts the packets passed over in a row, up to a whole
picture's worth, and `unread` says that a payload came without a frame id.

**`UsbEvents`** models who handles the events of a libusb context: the loop of
`libusb_handle_events_timeout_completed` with its locks, active flag and waiters,
a control transfer that waits for itself, libuvc's handler thread, and
`libusb_close` with its interruption through the control pipe, for a context that
is opened and closed again and again. Each thread has one transfer, `transfer`.

**`UsbTransfer`** models one transfer and its URBs: the submission URB by URB,
the reaping in the order in which the kernel finished them, the discarding of
the rest after an error, cancellation, timeout, disconnection, and the callback,
which may submit again. A submission holds the transfer's lock over several
steps; a cancellation and the handling of one URB are one step. The kernel may refuse
to discard any URB: the code takes each refusal for a URB that is about to be reaped,
and a comment says that on some devices it always fails (`android_usbfs.c:2097`).
`kept` remembers the URBs that it did not discard when it was last asked to.

The `...Proofs` modules hold the theorems of section 4. A definition whose
comment begins with "Slip" is a plausible mistake in the definition after it. No
action uses one: each is there to show, by replacing its neighbour, that a
property notices it.


## 3. The runs

| Run | Bounds | Checks |
|---|---|---|
| `preview` | queue of 1, one capture thread, one preview, one call of the setter, spurious wakeups | `FramesAccounted`, `NoSleepOnFrame`, `StoppedIsEmpty`, `IInv` |
| `preview_stop` | queue of 1, two previews, no setter, fair threads | `StopReturns`, `ContractKept` |
| `preview_replace` | one preview, one setter call | `ReplacedIdle` is violated |
| `stream` | 3 transfers, unplugging, failed submissions, fair | `StoppedQuiet`, `IInv`, `ContractKept`, `StopReturns` |
| `payload` | 4 pictures of 2 packets, isochronous and bulk | `NotMixed`, `InOrder`, `LastDelivered` |
| `recorder` | video and audio, 2 outstanding inputs, fair | `NeverMisused`, `FileFinished`, `EncodersEnd` |
| `handler` | two callers, 4 calls, fair | `PreviewTruth`, `RecordingSupplied`, `QuitAfterEncoders`, `WokenAfterStop`, `StopReturns`, `ReleaseEnds` |
| `usb_monitor` | 2 devices, 2 calls, 1 clone, fair | `TypeOK`, `Tracked`, `ClosedInTime`, `AttachAnnounced` |
| `usb_events` | application, handler thread, one more thread; 4 calls, fair | `SleepersServed`, `ClosedNotPolled`, `WaitsEnd` |
| `uvc_device` | 3 connects, 2 kinds of callback | `CallbackInTime`, `RefsCounted`, `Unwound` |
| `usb_transfer` | 3 URBs, 2 submissions, 2 cancellations; bulk, interrupt, isochronous, control; fair | `TypeOK`, `ReapedUnlessHalted`, `StatusTruth`, `TransferKept` |
| `camera_service` | 2 clients, 2 servers, 3 calls, fair | `TypeOK`, `ReleasedCloses`, `ToldTruth`, `CallsEnd` |

Why the bounds are enough. A queue of one frame (the source has four) is full,
empty and overflows in the same run, and every comparison with its capacity
is with the constant. Two previews are what it takes for a thread or a frame
of the first to meet the second; one setter call meets every step of one
(both at once, two previews and a setter, have been run too: 7.5 million
states, the same result; and the theorems hold for any number of both).
Three transfers: one in its callback, one in flight, one already gone. Four
pictures: the frame id repeats after two, so a lost picture can be mistaken
for its second next; two packets are a first and a last one. Two
encoders are what the handler always creates. Four calls of the handler: open,
preview or record, and two that race. Two devices and one clone: the table's entry of one device can be right while that of the
other is lost, and a clone is what takes away an entry. Three threads at
libusb's events: one that handles them, one that sleeps, one that closes. Three
connects: a success, a failure, and one that meets what both left. Three URBs:
a first, a middle and a last one. Three calls of the service: select, connect,
and one that races with the first server's end; the second server is the one
that a late event may hit (with four calls the invariants hold too, over 1.9
million states). Spurious wakeups are on where safety is checked, off where
liveness is (nothing promises them).

### What the code does not promise

The failing run shows a disagreement between a comment and the code,
`preview_replace`: `setFrameCallback` and `setCaptureDisplay` "wait finishing
capturing", but any signal on `capture_sync` ends the wait and a second replacement
skips it.

Other behaviours of this kind are exceptions that the passing properties name,
so that each property says exactly what the code does prevent:

- `StopReturns` of `UvcPreview`: a worker that fell asleep after the signals,
  which are sent without the mutex. `FramesAccounted`: one buffer lost per
  preview, in `addCaptureFrame` after the stop.
- `ContractKept` and `StopReturns` of `UvcStream`: after
  `LIBUSB_TRANSFER_NO_DEVICE` cleared `running`, `uvc_stream_close` frees the
  handle without stopping it (`stream.c:1867`); a resubmission that fails after
  the stop leaves a transfer it waits for forever (`stream.c:985`, `1003`).
- `NotMixed`: a picture's worth of packets passed over in a row without a mark
  (`stream.c:835-838`, `994-1003`), after which the frame id is that of another
  picture; a bulk payload without a frame id (`718`), which excuses also the half of
  `InOrder` that speaks of later pictures.
- `EncodersEnd`: a lost notify, a muxer that never starts, and the end of stream,
  which `signalEndOfInputStream` never queues because `encode`'s loop does not
  run for a length of zero (`MediaEncoder.java:254`). `FileFinished`: a
  collected wrapper.
- `PreviewTruth`: `mIsPreviewing` survives a close (`460`), and is set although the
  camera refused to start, since `UVCCamera.java:417` drops the result (`misled`); that
  no preview is hidden has no exception. `RecordingSupplied`, `QuitAfterEncoders`: one
  `mIsRecording` for overlapping recordings, whose end takes the capture, or in
  `handleRelease` on the encoder's thread (`691`) the camera, from the next one.
  `StopReturns` of `CameraHandler`: a preview that ended between the question and
  the wait (`175`), which nobody announces any more. A `stopPreview` that comes
  while `handleStartPreview` is at work (`491-494`) finds neither a message to remove
  nor the flag set and returns while the preview starts, so no property says that
  the preview has stopped when `stopPreview` returns. `ReleaseEnds`: an encoder
  without a file name, a preparation that failed half-way (`565`).
- `Tracked`, `ClosedInTime`: the close of a clone takes the original's entry out
  of `mCtrlBlocks` (`USBMonitor.java:1022`), and a detach or `destroy` may
  overtake a connect. `AttachAnnounced`: the check of `mDeviceCounts` is not
  atomic (`531`).
- `WaitsEnd`: `kill_handler_thread` is never reset (`device.c:1575`), so
  on a context opened again no handler thread runs.
- `CallbackInTime`: release deletes the callback objects without unregistering
  them (`UVCCamera.cpp:198`). `Unwound`: after a failed connect the next
  release closes descriptor 0 (`214`).
- `ReapedUnlessHalted`: a bulk transfer with a halted endpoint, on an old kernel.
  `StatusTruth`: a refused later submission passes for a short transfer, and hides
  what failed before. `TransferKept`: a transfer that was cancelled or timed out while
  the kernel refused to discard one of its URBs (`android_usbfs.c:2097`) ends when
  the camera lets that URB finish, or is unplugged, and if it stays silent never.
- `ReleasedCloses`: a client that found the server before its release can make it
  open again (`CameraServer.java:133-138`). `ToldTruth`: an `onConnected` that comes
  late (`140`), a camera that `setPreviewSize` destroyed, a client that registered
  again after it was told (`97`), and a list killed by a release (`113`), which may
  come between the close and the broadcast: `handleClose` wakes the release (`396`)
  before it tells the clients (`399`). `CallsEnd`: until
  the process dies, by the failure to open (`374-383`) or by two broadcasts at
  once (`230`); and `getCameraServer`, which waits once and for as long as nobody
  notifies (`UVCService.java:216-231`).

### Fairness

Weak fairness for the steps of each thread: a thread that can run does run
(the operating system schedules it, and mutexes are held for finite critical
sections). Beyond that:

- `UvcStream`: a submitted transfer is completed, by data, timeout or
  cancellation. `UsbTransfer` is where that is checked: a transfer that is
  cancelled or timed out ends if the kernel discards its URBs, and one without a
  device ends. There the camera may stay silent, and only a disconnection is
  noticed; for a stream whose URBs the kernel does not discard the fairness
  assumes a camera that goes on sending.
- `UsbEvents`: the kernel finishes the transfers of callers; the end of the
  one-minute poll is assumed only while a close waits for the handler thread.
- `CameraHandler`: an encoder asked to stop ends, which is `EncodersEnd` of
  `MediaRecorder` outside its exceptions.
- `UsbMonitor`: the main and the handler's looper run their tasks.
- `CameraService`: the user answers the question for permission.

There is no fairness for calls, frames from the camera or spurious wakeups.
`CHECK_DEADLOCK FALSE` is set where the bounded behaviours end because the
application makes no more calls.

## 4. The proofs

Each theorem holds for every value of the module's constants, under the one
named assumption the module makes about them (`PreviewAssumption` and its like)
and the library's theorems on finite sets. Each has the same shape: an inductive
invariant `IInv` made of named parts, a lemma per part with a case per action,
and the property as a consequence.

`UvcPreviewProofs`, for every `MAX_FRAME`, every set of capture threads, any
number of previews and calls, with or without spurious wakeups:

| Theorem | States |
|---|---|
| `TypeCorrect` | `Spec => []TypeOK`: also that the two arrays never exceed their capacity |
| `Invariance` | `Spec => []IInv` |
| `FramesAccountedFor` | `Spec => []FramesAccounted` |
| `NeverAsleepOnFrame` | `Spec => []NoSleepOnFrame` |
| `StoppedQueuesEmpty` | `Spec => []StoppedIsEmpty` |
| `PreviewKeepsContract` | `Spec => ContractKept`: the preview uses the stream as `StreamContract` says |

`IInv` is needed because none of the properties is inductive. `HeldByPc` says
which program counters own which buffer (without it a recycle could be of a
buffer nobody has); `Lifecycle` says that client and preview thread agree on
whether a preview runs (without it `StoppedIsEmpty` fails as soon as a thread
of the last preview is supposed to live on); `EmptyBetween` carries the emptied
queues from the end of one stop to the next start; `LostByStop` sharpens
`FramesAccounted` by the loss the preview in progress may still cause. The
lemmas on `Cardinality(held)` say how taking and giving back a pointer change
the count. `PreviewKeepsContract` rests on `Lifecycle` alone: libuvc delivers
exactly while the preview thread is between its start and its stop.

`UvcStreamProofs`, for any non-empty set of transfers:

| Theorem | States |
|---|---|
| `Invariance` | `Spec => []IInv` |
| `StopLeavesNobody` | `Spec => []StoppedQuiet` |
| `NobodyForgotten` | no thread asleep on `cb_cond` is forgotten |
| `ClosedLeavesNobody` | without faults, a closed stream has no user left |
| `StreamKeepsContract` | `Spec => ContractKept`, whatever fails, but for the close of a stream that was not stopped |
| `FaultlessContract` | without faults, the contract without exception |
| `TransfersAsPromised` | each transfer follows `TransferContract` |

`StopInv` is what makes them inductive: the event thread always has a transfer
in its callback, so once every transfer is deleted it is out of the callback
too. Without faults means `~Unplug` and `~SubmitFails`; `FaultlessInv` then says
that `running` goes down only by the client's hand. With
`PreviewKeepsContract` the two sides of `StreamContract` meet: what the preview
assumes of the stream, the stream provides.

`LibuvcProofs` has the theorems of two modules. Of `UvcPayload`, for pictures of any
size and any pattern of losses, bulk and isochronous:

| Theorem | States |
|---|---|
| `TypeCorrect` | `Spec => []TypeOK` |
| `NeverMixed` | `Spec => []NotMixed` |
| `PicturesInOrder` | `Spec => InOrder` |

`Parity` says that the buffer holds packets with the current frame id, so that a
picture of the other parity is another one; `Marks` that a buffer without an error
mark is of one picture, outside the exceptions, and the one in the making of the
camera's, or of the one before if no packet since has left a trace (`Recent`, where
`gap` comes in); `Order` that the user's frame, the held and the assembled buffer were
sent in this order; `InFrame` that a packet at hand exists.

Of `UvcDevice`, for any number of connects and any step of each failing:

| Theorem | States |
|---|---|
| `DeviceTypeCorrect` | `DeviceSpec => []DeviceTypeOK` |
| `CallbacksInTime` | `DeviceSpec => []CallbackInTime` |
| `ReferencesCounted` | `DeviceSpec => []RefsCounted` |
| `FailuresUnwound` | `DeviceSpec => []Unwound` |

`HandleInv`, `DescriptorInv`, `ObjectsInv`, `ThreadInv` say at each step of connect
and release which of the parts exist; `CountInv` counts the references from them.

`MediaRecorderProofs`, for any finite set of encoders:

| Theorem | States |
|---|---|
| `TypeCorrect` | `Spec => []TypeOK`: `mStatredCount` stays within the number of encoders |
| `MuxerInTurn` | `Spec => []NeverMisused` |
| `FilesFinished` | `Spec => []FileFinished` |

`Before` says that until the muxer starts `mStatredCount` is the number of encoders
that wait for it, `Running` that afterwards it is the number of those that have
not left (at least that, once the wrapper was collected), `After` that nobody is
left when it stops; `Begun` and `Formats` say who has a track.

`LibusbProofs` has the theorems of two modules. Of `UsbTransfer`, for transfers of any
type, of any number of URBs:

| Theorem | States |
|---|---|
| `Invariance` | `Spec => []IInv` |
| `TypeCorrect` | `Spec => []TypeOK`: also that `num_retired` stays within `num_urbs` |
| `FreedWhenReaped` | `Spec => []ReapedUnlessHalted` |
| `CallbackTold` | `Spec => []StatusTruth` |
| `ReportedOnce` | `Spec => Once`: the callback is called once for each submission that succeeded, the part of `TransferKept` that is not about its end |

The code frees the URBs when `num_retired` has reached `num_urbs`; that this is
when the kernel has none left is `CountInv`: each URB is retired, in the kernel,
or not yet submitted. That it counts none twice needs `TurnInv`: the URBs that
finished have distinct turns to be reaped. `StatusTruth` is about the order in
which they finish: `NormalInv` says that as long as nothing ended the transfer
early they finish and are reaped from the first to the last, `KernelInv` what the
kernel may have done to each and why, `EarlyInv` what is known of the rest once
`reap_action` has left `NORMAL`, and `ReportInv` carries that to the callback.
`SubmitInv` says that nothing is reaped while the submission is under way, whose
lock the reaper waits for. `FlyingInv` ties the list of flying transfers to the
URBs and to the thread that reports, and is all that `ReportedOnce` needs. With
`TransfersAsPromised` it joins the stream to the URBs as
`PreviewKeepsContract` and `StreamKeepsContract` join the preview to the stream.

Of `UsbEvents`, for any number of threads and calls:

| Theorem | States |
|---|---|
| `EventsTypeCorrect` | `EventsSpec => []EventsTypeOK` |
| `NoLostWakeup` | `EventsSpec => []SleepersServed` |
| `CloseIsSafe` | `EventsSpec => []ClosedNotPolled` |

`LockOwner`, `WaitersOwner`, `ActiveOwned` and `ModifyCounted` tie each lock, flag
and counter to program counters; `SleepersInv` says who is about to wake the
sleepers, also those that have only decided to sleep; `PollingInv` that nobody is
in a poll of a closed device; `HandlerEnded` and `OthersIdle` that a close comes
when the other threads are done; `Delivered` that who does not wait has no
transfer left.

`CameraHandlerProofs`, for any number of callers and calls:

| Theorem | States |
|---|---|
| `Invariance` | `Spec => []IInv` |
| `TypeCorrect` | `Spec => []TypeOK`: also that no more ends are announced than encoders have ended |
| `FlagTellsTruth` | `Spec => []PreviewTruth` |
| `RecordingHasSource` | `Spec => []RecordingSupplied` |
| `ThreadOutlivesEncoders` | `Spec => []QuitAfterEncoders` |
| `SleepersWokenAfterStop` | `Spec => WokenAfterStop` |

Most properties speak of the camera thread between two messages; `ThreadByPc`,
`PreviewByPc`, `HasCamera` and `Supplied` say what holds at each step inside a
handler, where camera, preview and muxer are changed one after the other, by the
camera thread or by an encoder's thread that releases the handler. `Alone` is why
these do not meet over one recording: unless recordings overlapped, an encoder that
reports its end leaves none running behind it, so what it takes is its own. `Busy`
is why the thread outlives the encoders: `mIsRecording` is set while one works,
unless an encoder of an earlier recording cleared it. `Announced` counts the ends of
encoders against the updates of the media store. A lemma about `Without` shows
that what `removeMessages` leaves is a queue of the messages that were there,
whichever were taken out.

`CameraServiceProofs`, for any number of clients, servers and calls:

| Theorem | States |
|---|---|
| `Invariance` | `Spec => []IInv` |
| `TypeCorrect` | `Spec => []TypeOK`: also that who was told has a callback, or its cookie is gone |
| `ReleaseClosesCamera` | `Spec => []ReleasedCloses` |
| `ClientsToldTruth` | `Spec => []ToldTruth` |

`ReleasedCloses` is not inductive: a server is `released` only after a wait, during
which its camera thread works off the queue. `EndingCloses` says it from the moment
the release sent its close: behind every open in the queue of a server that is ending
there is a close, if the camera is or will be in use. What keeps it is how a queue
changes (`CloseSent`, `OtherSent`, `Handled`): a close sent last covers every open
before it, another message covers nothing it did not, and the message that is taken
from the front is either an open, which a later close still covers, or the close
itself, after which no open is left. `HeldInv` says that a thread that works on a
server holds one, without which the steps would speak of servers that do not exist.
`ToldTruth` is inductive beside the types, since the step that closes a camera is
also the one that announces it.

`UsbMonitorProofs`, for any number of cameras, calls and clones:

| Theorem | States |
|---|---|
| `Invariance` | `Spec => []IInv` |
| `TypeCorrect` | `Spec => []TypeOK`: also that no more devices are counted than there can be |
| `NoConnectionForgotten` | `Spec => []Tracked` |
| `ClosedBeforeTold` | `Spec => []ClosedInTime` |

`ClosedInTime` is about what may still happen behind a detach: a connect that was
under way may put an open block into the table after `OnDetached` emptied it. The
invariant follows the blocks that only the table knows (`Loose`). `Carried` says for
each action what becomes of the open blocks: they leave the table only closed or
lost, and a thread's hand only into the table or lost; `HandsInv` that they are put
under the device they were opened for. So a block becomes loose only for a device whose
detach is still to come (`TrackedNext`), and since a detach is broadcast once, after
the device has gone for ever (`DetachedInv`, `OnceInv`), none becomes loose while an
`onDettach` is on its way (`OnWayInv`). `EndInv` says the same of `destroy`. `lost` is
where the proof uses the exceptions, and nowhere else.

Only model-checked: everything under fairness (`StopReturns`, `LastDelivered`,
`EncodersEnd`, `ReleaseEnds`, `AttachAnnounced`, `WaitsEnd`, `CallsEnd`, the end of a
transfer in `TransferKept`), which the prover cannot do. Every invariant that a
passing run checks is also a theorem, and so are `InOrder`, `WokenAfterStop` and
`ContractKept`.

## 5. Plan

Done: the modules above. Next, in this order:

1. The parts of the liveness properties that are invariants: who will wake each
   waiting caller of `CameraHandler` and `CameraService`.
2. The pure algorithms (negotiation of formats, device filters) against reference
   definitions.

Not modelled, and why: pixel conversions and still capture (arithmetic and
files); control setters (clamp and forward, one transfer each); the contents of
frames beyond which picture they show; failures of memory allocation;
applications that call the handler from inside its own callbacks; the pipelines
(`pipeline/`, which `Android.mk` does not build); libusb's backends for other
systems and the desktop variant of its files; the vendored libjpeg-turbo and
rapidjson; the activities, views and adapters of the samples; image
classification. Most lines of the repository are of these kinds, above all
vendored code, which is why the modules stand for a small share of them.
