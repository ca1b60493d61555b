----------------------------- MODULE UvcPreview -----------------------------
(***************************************************************************)
(* The preview engine of one opened camera, UVCPreview.cpp: frames go from *)
(* libuvc's callback thread through a bounded queue to the preview thread, *)
(* and from there through a slot that keeps the latest one to the capture  *)
(* thread, while the application's threads start and stop the preview and  *)
(* replace the frame callback and the capture surface.                     *)
(*                                                                         *)
(* Threads: the "client" (the synchronized methods of UVCCamera.java), the *)
(* "setter" (setFrameCallback, startCapture and stopCapture, which are not *)
(* synchronized), libuvc's callback thread, the preview thread, and the    *)
(* capture threads, of which a racing stop can leave several alive.        *)
(*                                                                         *)
(* A critical section of a mutex is one step; capture_mutex alone is a     *)
(* variable, because replace() gives it up in the middle.  A frame buffer  *)
(* has no identity: the model counts the buffers alive and names the       *)
(* pointers that own one.                                                  *)
(***************************************************************************)
EXTENDS Integers, FiniteSets

CONSTANTS MaxFrame,    \* MAX_FRAME, the capacity of previewFrames
          Capturers,   \* identities for the capture threads that get created
          MaxStarts,   \* bound: previews started in one behaviour
          MaxCalls,    \* bound: calls made by the setter
          Spurious,    \* TRUE: pthread_cond_wait may return without a signal
          NULL

ASSUME PreviewAssumption ==
    /\ MaxFrame \in Nat \ {0}
    /\ IsFiniteSet(Capturers)
    /\ MaxStarts \in Nat /\ MaxCalls \in Nat /\ Spurious \in BOOLEAN
    /\ "client" \notin Capturers /\ "setter" \notin Capturers
    /\ NULL \notin Capturers \cup {"client", "setter"}

FramePoolSz == MaxFrame + 2
Callers == {"client", "setter"}

\* The pointers that own a frame buffer outside the pool and previewFrames.
CaptureQueu == <<"this", "captureQueu">>
Copy        == <<"uvc", "copy">>
Mjpeg       == <<"preview", "frame_mjpeg">>
Frame       == <<"preview", "frame">>
Converted   == <<"preview", "converted">>
Captured(k)  == <<k, "captured">>
Drawn(k)     == <<k, "drawn">>
Callback(k)  == <<k, "callback">>
Pointers == {CaptureQueu, Copy, Mjpeg, Frame, Converted}
              \cup (Capturers \X {"captured", "drawn", "callback"})

VARIABLES
    mIsRunning, mIsCapturing,             \* the two volatile flags
    mPreviewWindow, mCaptureWindow,       \* TRUE: the surface is set
    mFrameCallbackObj,                    \* TRUE: a callback object is set
    capture_thread,                       \* the pthread_t: NULL until created
    streaming, frameMode,                 \* libuvc delivers frames; as MJPEG or not
    mFramePool, previewFrames,            \* how many frames the two arrays hold
    live,                                 \* frames allocated and not freed
    held,                                 \* the pointers that own a frame
    captureLock,                          \* who keeps capture_mutex
    previewSync, captureSync,             \* threads asleep on the two conditions
    caller, want,                         \* what each application thread does
    preview, uvc, capture,                \* program counters of the workers
    surface,                              \* which of them are in do_capture_surface
    late,                                 \* workers asleep since after the stop
    starts, calls                         \* counters behind the bounds

flags   == <<mIsRunning, mIsCapturing>>
windows == <<mPreviewWindow, mCaptureWindow, mFrameCallbackObj>>
frames  == <<mFramePool, previewFrames, live, held>>
sync    == <<captureLock, previewSync, captureSync, late>>
workers == <<preview, uvc, capture, surface>>
clients == <<caller, want, starts, calls>>
stream  == <<capture_thread, streaming, frameMode>>
rest    == <<want, starts, calls>>
vars == <<flags, windows, frames, sync, workers, clients, stream>>

CallerPc  == {"idle", "replace", "handshake", "asleep",
              "start", "stop", "signalPreview", "signalCapture",
              "joinCapture", "joinPreview", "clearPreview", "clearCapture",
              "release"}
PreviewPc == {"none", "prepare", "clear", "create", "loop", "wait", "waiting",
              "decode", "decoded", "broken", "draw", "drawn", "add",
              "signal", "stopStream", "drain", "exited"}
CapturePc == {"none", "clear", "loop", "begin", "poll", "wait", "waiting",
              "drawing", "offer", "convert", "converted", "invoke", "recycle",
              "end", "broadcast", "exited"}

\* What a caller asks for; setFrameCallback(null, 0) when it asks for nothing.
Requests == [field : {"callback", "display"}, set : BOOLEAN]
NoCallback == [field |-> "callback", set |-> FALSE]

Min2(a, b) == IF a < b THEN a ELSE b

Init ==
    /\ mIsRunning = FALSE /\ mIsCapturing = FALSE
    /\ mPreviewWindow = FALSE /\ mCaptureWindow = FALSE
    /\ mFrameCallbackObj = FALSE
    /\ capture_thread = NULL /\ streaming = FALSE /\ frameMode = "yuyv"
    /\ mFramePool = 0 /\ previewFrames = 0 /\ live = 0 /\ held = {}
    /\ captureLock = NULL /\ previewSync = {} /\ captureSync = {} /\ late = {}
    /\ caller = [c \in Callers |-> "idle"]
    /\ want = [c \in Callers |-> NoCallback]
    /\ preview = "none" /\ uvc = "idle"
    /\ capture = [k \in Capturers |-> "none"]
    /\ surface = [k \in Capturers |-> FALSE]
    /\ starts = 0 /\ calls = 0

(***************************************************************************)
(* The frame pool.                                                         *)
(***************************************************************************)
\* get_frame: a pooled frame, or a new one when the pool is empty.
GetFrame ==
    IF mFramePool > 0 THEN mFramePool' = mFramePool - 1 /\ UNCHANGED live
                      ELSE live' = live + 1 /\ UNCHANGED mFramePool

\* recycle_frame, n times: what the pool has no room for is freed.
RecycleFrames(n) ==
    /\ mFramePool' = Min2(mFramePool + n, FramePoolSz)
    /\ live' = live - (mFramePool + n - mFramePool')

Take(p)    == GetFrame /\ held' = held \cup {p}
Recycle(p) == RecycleFrames(1) /\ held' = held \ {p}

\* clearPreviewFrame
ClearPreviewFrame ==
    /\ RecycleFrames(previewFrames)
    /\ previewFrames' = 0
    /\ UNCHANGED held

\* clearCaptureFrame, under capture_mutex
ClearCaptureFrame ==
    /\ captureLock = NULL
    /\ IF CaptureQueu \in held THEN Recycle(CaptureQueu)
                               ELSE UNCHANGED <<mFramePool, live, held>>
    /\ UNCHANGED previewFrames

(***************************************************************************)
(* Condition variables: pthread_cond_signal wakes one sleeper if there is  *)
(* one; a sleeper that left the set goes on once it has the mutex.         *)
(***************************************************************************)
SignalPreview == previewSync' = {} /\ late' = late \ {"preview"}
SignalCapture ==
    \/ captureSync = {} /\ UNCHANGED <<captureSync, late>>
    \/ \E t \in captureSync :
          captureSync' = captureSync \ {t} /\ late' = late \ {t}
BroadcastCapture == captureSync' = {} /\ late' = late \cap {"preview"}

\* POSIX lets pthread_cond_wait return without a signal.
SpuriousWakeup ==
    /\ Spurious
    /\ \/ previewSync # {} /\ SignalPreview /\ UNCHANGED captureSync
       \/ captureSync # {} /\ SignalCapture /\ UNCHANGED previewSync
    /\ UNCHANGED <<flags, windows, frames, captureLock, workers, clients,
                   stream>>

(***************************************************************************)
(* Application threads.                                                    *)
(***************************************************************************)
Goto(c, pc) == caller' = [caller EXCEPT ![c] = pc]

\* UVCCamera.setPreviewDisplay
SetPreviewDisplay ==
    /\ caller["client"] = "idle"
    /\ mPreviewWindow' \in BOOLEAN
    /\ UNCHANGED <<flags, mCaptureWindow, mFrameCallbackObj, frames, sync,
                   workers, clients, stream>>

\* startPreview when no preview runs: the flag goes up before any lock.
StartPreview ==
    /\ caller["client"] = "idle"
    /\ ~mIsRunning
    /\ starts < MaxStarts
    /\ mIsRunning' = TRUE
    /\ Goto("client", "start")
    /\ UNCHANGED <<mIsCapturing, windows, frames, sync, workers, stream,
                   rest>>

\* ... and the thread is created if there is a surface to draw on.
CreatePreviewThread ==
    /\ caller["client"] = "start"
    /\ \/ /\ mPreviewWindow
          /\ preview' = "prepare"
          /\ starts' = starts + 1
          /\ UNCHANGED <<mIsRunning, previewSync, late>>
       \/ /\ mIsRunning' = FALSE
          /\ SignalPreview
          /\ UNCHANGED <<preview, starts>>
    /\ Goto("client", "idle")
    /\ UNCHANGED <<mIsCapturing, windows, frames, captureLock, captureSync,
                   uvc, capture, surface, want, calls, stream>>

\* The setter calls setFrameCallback or setCaptureDisplay; the client's
\* stopPreview begins with setFrameCallback(null, 0).
Call(c) ==
    /\ caller[c] = "idle"
    /\ Goto(c, "replace")
    /\ IF c = "client"
       THEN UNCHANGED <<want, calls>>
       ELSE /\ calls < MaxCalls
            /\ calls' = calls + 1
            /\ \E r \in Requests : want' = [want EXCEPT ![c] = r]
    /\ UNCHANGED <<flags, windows, frames, sync, workers, starts, stream>>

AfterReplace(c) == IF c = "client" THEN "stop" ELSE "idle"

\* The assignment: a callback without onFrame, or a surface of the wrong
\* format, ends up as NULL.
Assign(c) ==
    /\ IF want[c].field = "callback"
       THEN /\ mFrameCallbackObj' \in {want[c].set, FALSE}
            /\ UNCHANGED mCaptureWindow
       ELSE /\ mCaptureWindow' \in {want[c].set, FALSE}
            /\ UNCHANGED mFrameCallbackObj
    /\ want' = [want EXCEPT ![c] = NoCallback]
    /\ Goto(c, AfterReplace(c))
    /\ UNCHANGED <<mIsRunning, mPreviewWindow, frames, sync, workers, starts,
                   calls, stream>>

\* A capture in progress is told to stop, and is waited for if it may be
\* using what is about to be replaced.
Replace(c) ==
    LET inUse == IF want[c].field = "callback" THEN mFrameCallbackObj
                                               ELSE mCaptureWindow
    IN  /\ caller[c] = "replace"
        /\ captureLock = NULL
        /\ IF mIsRunning /\ mIsCapturing /\ inUse
           THEN /\ mIsCapturing' = FALSE
                /\ captureLock' = c
                /\ Goto(c, "handshake")
                /\ UNCHANGED <<mIsRunning, windows, frames, previewSync,
                               captureSync, late, workers, stream, rest>>
           ELSE /\ mIsCapturing' = (mIsCapturing /\ ~mIsRunning)
                /\ Assign(c)

\* pthread_cond_signal, then pthread_cond_wait on the same condition
Handshake(c) ==
    /\ caller[c] = "handshake"
    /\ \/ captureSync = {} /\ captureSync' = {c} /\ UNCHANGED late
       \/ \E t \in captureSync : /\ captureSync' = (captureSync \ {t}) \cup {c}
                                 /\ late' = late \ {t}
    /\ captureLock' = NULL
    /\ Goto(c, "asleep")
    /\ UNCHANGED <<flags, windows, frames, previewSync, workers, stream,
                   rest>>

Replaced(c) ==
    /\ caller[c] = "asleep"
    /\ c \notin captureSync
    /\ captureLock = NULL
    /\ UNCHANGED mIsCapturing
    /\ Assign(c)

StopPreview ==
    /\ caller["client"] = "stop"
    /\ mIsRunning' = FALSE
    /\ Goto("client", IF mIsRunning THEN "signalPreview" ELSE "clearPreview")
    /\ UNCHANGED <<mIsCapturing, windows, frames, sync, workers, stream,
                   rest>>

\* Slip: the flag alone is expected to stop the preview thread.
StopSignalPreviewNot ==
    /\ caller["client"] = "signalPreview"
    /\ Goto("client", "signalCapture")
    /\ UNCHANGED <<flags, windows, frames, sync, workers, stream, rest>>

\* The two signals of stopPreview are sent without the mutexes.
StopSignalPreview ==
    /\ caller["client"] = "signalPreview"
    /\ SignalPreview
    /\ Goto("client", "signalCapture")
    /\ UNCHANGED <<flags, windows, frames, captureLock, captureSync, workers,
                   stream, rest>>

StopSignalCapture ==
    /\ caller["client"] = "signalCapture"
    /\ SignalCapture
    /\ Goto("client", "joinCapture")
    /\ UNCHANGED <<flags, windows, frames, captureLock, previewSync, workers,
                   stream, rest>>

\* pthread_join(capture_thread) on a handle never set, or joined before,
\* fails at once: nothing resets the handle between two previews.
JoinCapture ==
    /\ caller["client"] = "joinCapture"
    /\ IF capture_thread = NULL
       THEN UNCHANGED capture
       ELSE /\ capture[capture_thread] \in {"none", "exited"}
            /\ capture' = [capture EXCEPT ![capture_thread] = "none"]
    /\ Goto("client", "joinPreview")
    /\ UNCHANGED <<flags, windows, frames, sync, preview, uvc, surface,
                   stream, rest>>

\* Slip: stopPreview does not wait for the preview thread.
JoinPreviewNot ==
    /\ caller["client"] = "joinPreview"
    /\ preview' = "none"
    /\ Goto("client", "clearPreview")
    /\ UNCHANGED <<flags, windows, frames, sync, uvc, capture, surface,
                   stream, rest>>

JoinPreview ==
    /\ caller["client"] = "joinPreview"
    /\ preview = "exited"
    /\ preview' = "none"
    /\ Goto("client", "clearPreview")
    /\ UNCHANGED <<flags, windows, frames, sync, uvc, capture, surface,
                   stream, rest>>

\* Slip: stopPreview leaves the frames of the second queue in place.
StopClearCaptureNot ==
    /\ caller["client"] = "clearCapture"
    /\ Goto("client", "release")
    /\ UNCHANGED <<flags, windows, frames, sync, workers, stream, rest>>

StopClearPreview ==
    /\ caller["client"] = "clearPreview"
    /\ ClearPreviewFrame
    /\ Goto("client", "clearCapture")
    /\ UNCHANGED <<flags, windows, sync, workers, stream, rest>>

StopClearCapture ==
    /\ caller["client"] = "clearCapture"
    /\ ClearCaptureFrame
    /\ Goto("client", "release")
    /\ UNCHANGED <<flags, windows, sync, workers, stream, rest>>

\* The preview surface has no other user left; the capture surface may have.
ReleaseWindows ==
    /\ caller["client"] = "release"
    /\ captureLock = NULL
    /\ mPreviewWindow' = FALSE
    /\ mCaptureWindow' = FALSE
    /\ Goto("client", "idle")
    /\ UNCHANGED <<flags, mFrameCallbackObj, frames, sync, workers, stream,
                   rest>>

(***************************************************************************)
(* libuvc's callback thread: uvc_preview_frame_callback, addPreviewFrame.  *)
(***************************************************************************)
UvcOnly == <<flags, windows, captureLock, captureSync, preview, capture,
             surface, clients, stream>>

\* A frame of the expected size arrives while the preview runs.
FrameCallback ==
    /\ streaming /\ uvc = "idle"
    /\ mIsRunning
    /\ Take(Copy)
    /\ uvc' = "copied"
    /\ UNCHANGED <<previewFrames, previewSync, late, UvcOnly>>

\* Slips: the queue may take one frame more, and a queued frame may not be
\* announced.
AddPreviewFrameOverfull ==
    /\ uvc = "copied"
    /\ \/ /\ mIsRunning /\ previewFrames <= MaxFrame
          /\ previewFrames' = previewFrames + 1
          /\ held' = held \ {Copy}
          /\ SignalPreview
          /\ uvc' = "idle"
       \/ uvc' = "drop" /\ UNCHANGED <<previewFrames, held, previewSync,
                                       late>>
    /\ UNCHANGED <<mFramePool, live, UvcOnly>>

AddPreviewFrameSilent ==
    /\ uvc = "copied"
    /\ \/ /\ mIsRunning /\ previewFrames < MaxFrame
          /\ previewFrames' = previewFrames + 1
          /\ held' = held \ {Copy}
          /\ uvc' = "idle"
          /\ UNCHANGED <<previewSync, late>>
       \/ uvc' = "drop" /\ UNCHANGED <<previewFrames, held, previewSync,
                                       late>>
    /\ UNCHANGED <<mFramePool, live, UvcOnly>>

\* The copy is queued, unless duplicating failed, the preview was stopped
\* meanwhile or the queue is full.
AddPreviewFrame ==
    /\ uvc = "copied"
    /\ \/ /\ mIsRunning /\ previewFrames < MaxFrame
          /\ previewFrames' = previewFrames + 1
          /\ held' = held \ {Copy}
          /\ SignalPreview
          /\ uvc' = "idle"
       \/ uvc' = "drop" /\ UNCHANGED <<previewFrames, held, previewSync,
                                       late>>
    /\ UNCHANGED <<mFramePool, live, UvcOnly>>

DropCopy ==
    /\ uvc = "drop"
    /\ Recycle(Copy)
    /\ uvc' = "idle"
    /\ UNCHANGED <<previewFrames, previewSync, late, UvcOnly>>

(***************************************************************************)
(* The preview thread: preview_thread_func, do_preview.                    *)
(***************************************************************************)
PreviewOnly == <<flags, windows, captureLock, uvc, surface, clients>>
PreviewLocal == <<previewSync, captureSync, late, capture, stream, PreviewOnly>>

\* prepare_preview and uvc_start_streaming_bandwidth: when either fails the
\* thread ends, and mIsRunning stays up.
StartStreaming ==
    /\ preview = "prepare"
    /\ \/ /\ preview' = "clear"
          /\ streaming' = TRUE
          /\ frameMode' \in {"yuyv", "mjpeg"}
       \/ preview' = "exited" /\ UNCHANGED <<streaming, frameMode>>
    /\ UNCHANGED <<frames, previewSync, captureSync, late, capture,
                   capture_thread, PreviewOnly>>

ClearStale ==
    /\ preview = "clear"
    /\ ClearPreviewFrame
    /\ preview' = "create"
    /\ UNCHANGED <<PreviewLocal>>

\* The result of pthread_create is not looked at.
CreateCaptureThread ==
    /\ preview = "create"
    /\ \/ \E k \in Capturers : /\ capture[k] = "none"
                               /\ capture' = [capture EXCEPT ![k] = "clear"]
                               /\ capture_thread' = k
       \/ UNCHANGED <<capture, capture_thread>>
    /\ preview' = "loop"
    /\ UNCHANGED <<frames, previewSync, captureSync, late, streaming,
                   frameMode, PreviewOnly>>

PreviewLoop ==
    /\ preview = "loop"
    /\ preview' = IF mIsRunning THEN "wait" ELSE "signal"
    /\ UNCHANGED <<frames, PreviewLocal>>

\* waitPreviewFrame sleeps at most once and then looks again.
WaitPreviewFrame ==
    \/ /\ preview = "wait" /\ previewFrames = 0
       /\ previewSync' = {"preview"}
       /\ late' = IF mIsRunning THEN late ELSE late \cup {"preview"}
       /\ preview' = "waiting"
       /\ UNCHANGED <<frames, captureSync, capture, PreviewOnly, stream>>
    \/ /\ \/ preview = "wait" /\ previewFrames > 0
          \/ preview = "waiting" /\ previewSync = {}
       /\ IF mIsRunning /\ previewFrames > 0
          THEN /\ previewFrames' = previewFrames - 1
               /\ held' = held \cup {IF frameMode = "mjpeg" THEN Mjpeg ELSE Frame}
               /\ preview' = IF frameMode = "mjpeg" THEN "decode" ELSE "draw"
          ELSE preview' = "loop" /\ UNCHANGED <<previewFrames, held>>
       /\ UNCHANGED <<mFramePool, live, PreviewLocal>>

Decode ==
    /\ preview = "decode"
    /\ Take(Frame)
    /\ preview' = "decoded"
    /\ UNCHANGED <<previewFrames, PreviewLocal>>

\* uvc_mjpeg2yuyv may fail; the compressed frame is done with either way.
Decoded ==
    /\ preview = "decoded"
    /\ Recycle(Mjpeg)
    /\ preview' \in {"draw", "broken"}
    /\ UNCHANGED <<previewFrames, PreviewLocal>>

DropBroken ==
    /\ preview = "broken"
    /\ Recycle(Frame)
    /\ preview' = "loop"
    /\ UNCHANGED <<previewFrames, PreviewLocal>>

\* draw_preview_one converts into a frame of its own, if there is a surface.
Draw ==
    /\ preview = "draw"
    /\ IF mPreviewWindow THEN Take(Converted) /\ preview' = "drawn"
       ELSE preview' = "add" /\ UNCHANGED <<mFramePool, live, held>>
    /\ UNCHANGED <<previewFrames, PreviewLocal>>

DrawDone ==
    /\ preview = "drawn"
    /\ Recycle(Converted)
    /\ preview' = "add"
    /\ UNCHANGED <<previewFrames, PreviewLocal>>

\* Slip: the frame that is replaced is not given back.
AddCaptureFrameLeaks ==
    /\ preview = "add"
    /\ captureLock = NULL
    /\ IF mIsRunning
       THEN held' = (held \ {Frame}) \cup {CaptureQueu} /\ BroadcastCapture
       ELSE held' = held \ {Frame} /\ UNCHANGED <<captureSync, late>>
    /\ preview' = "loop"
    /\ UNCHANGED <<mFramePool, live, previewFrames, previewSync, capture,
                   PreviewOnly, stream>>

\* addCaptureFrame keeps the latest frame; after a stop the frame is neither
\* queued nor recycled, and its buffer is lost.
AddCaptureFrame ==
    /\ preview = "add"
    /\ captureLock = NULL
    /\ IF mIsRunning
       THEN /\ IF CaptureQueu \in held THEN RecycleFrames(1)
                                       ELSE UNCHANGED <<mFramePool, live>>
            /\ held' = (held \ {Frame}) \cup {CaptureQueu}
            /\ BroadcastCapture
       ELSE /\ held' = held \ {Frame}
            /\ UNCHANGED <<mFramePool, live, captureSync, late>>
    /\ preview' = "loop"
    /\ UNCHANGED <<previewFrames, previewSync, capture, PreviewOnly, stream>>

\* The signal after the loop, sent without the mutex.
PreviewSignal ==
    /\ preview = "signal"
    /\ SignalCapture
    /\ preview' = "stopStream"
    /\ UNCHANGED <<frames, previewSync, capture, PreviewOnly, stream>>

\* Slip: the stop does not wait for the callback in progress.
StopStreamingNow ==
    /\ preview = "stopStream"
    /\ streaming' = FALSE
    /\ preview' = "exited"
    /\ UNCHANGED <<frames, previewSync, captureSync, late, capture,
                   capture_thread, frameMode, PreviewOnly>>

\* uvc_stop_streaming delivers no further frame, and returns when the
\* callback in progress has returned.
StopStreaming ==
    /\ \/ preview = "stopStream" /\ streaming' = FALSE /\ preview' = "drain"
       \/ /\ preview = "drain" /\ uvc = "idle" /\ preview' = "exited"
          /\ UNCHANGED streaming
    /\ UNCHANGED <<frames, previewSync, captureSync, late, capture,
                   capture_thread, frameMode, PreviewOnly>>

(***************************************************************************)
(* A capture thread: capture_thread_func, do_capture.                      *)
(***************************************************************************)
CaptureOnly == <<mIsRunning, mPreviewWindow, mFrameCallbackObj, captureLock,
                 previewSync, preview, uvc, clients, stream>>
CaptureLocal == <<mIsCapturing, mCaptureWindow, captureSync, late, surface,
                  CaptureOnly>>

CaptureGoto(k, pc) == capture' = [capture EXCEPT ![k] = pc]

CaptureStart(k) ==
    /\ capture[k] = "clear"
    /\ ClearCaptureFrame
    /\ CaptureGoto(k, "loop")
    /\ UNCHANGED <<CaptureLocal>>

CaptureLoop(k) ==
    /\ capture[k] = "loop"
    /\ CaptureGoto(k, IF mIsRunning THEN "begin" ELSE "exited")
    /\ UNCHANGED <<frames, CaptureLocal>>

\* Surface loop or idle loop, as mCaptureWindow says without the mutex.
CaptureBegin(k) ==
    /\ capture[k] = "begin"
    /\ mIsCapturing' = TRUE
    /\ surface' = [surface EXCEPT ![k] = mCaptureWindow]
    /\ CaptureGoto(k, "poll")
    /\ UNCHANGED <<mCaptureWindow, frames, captureSync, late, CaptureOnly>>

CapturePoll(k) ==
    /\ capture[k] = "poll"
    /\ CaptureGoto(k, IF mIsRunning /\ mIsCapturing THEN "wait"
                      ELSE IF surface[k] THEN "end" ELSE "broadcast")
    /\ UNCHANGED <<frames, CaptureLocal>>

\* waitCaptureFrame sleeps at most once and then looks again.
WaitCaptureFrame(k) ==
    /\ captureLock = NULL
    /\ \/ /\ capture[k] = "wait" /\ CaptureQueu \notin held
          /\ captureSync' = captureSync \cup {k}
          /\ late' = IF mIsRunning THEN late ELSE late \cup {k}
          /\ CaptureGoto(k, "waiting")
          /\ UNCHANGED held
       \/ /\ \/ capture[k] = "wait" /\ CaptureQueu \in held
             \/ capture[k] = "waiting" /\ k \notin captureSync
          /\ IF mIsRunning /\ CaptureQueu \in held
             THEN /\ held' = (held \ {CaptureQueu}) \cup {Captured(k)}
                  /\ CaptureGoto(k, IF surface[k] THEN "drawing" ELSE "offer")
             ELSE CaptureGoto(k, "poll") /\ UNCHANGED held
          /\ UNCHANGED <<captureSync, late>>
    /\ UNCHANGED <<mIsCapturing, mCaptureWindow, mFramePool, previewFrames,
                   live, surface, CaptureOnly>>

\* do_capture_surface keeps one converted frame for the whole loop.
CaptureDraw(k) ==
    /\ capture[k] = "drawing"
    /\ IF mIsCapturing /\ Drawn(k) \notin held
       THEN Take(Drawn(k))
       ELSE UNCHANGED <<mFramePool, live, held>>
    /\ CaptureGoto(k, "offer")
    /\ UNCHANGED <<previewFrames, CaptureLocal>>

\* do_capture_callback: nothing to call, or a conversion first, or the
\* captured frame itself is handed to onFrame.
CaptureOffer(k) ==
    /\ capture[k] = "offer"
    /\ IF mFrameCallbackObj
       THEN \/ Take(Callback(k)) /\ CaptureGoto(k, "convert")
            \/ CaptureGoto(k, "invoke") /\ UNCHANGED <<mFramePool, live,
                                                       held>>
       ELSE CaptureGoto(k, "recycle") /\ UNCHANGED <<mFramePool, live, held>>
    /\ UNCHANGED <<previewFrames, CaptureLocal>>

\* The captured frame is recycled; a failed conversion is not offered.
CaptureConvert(k) ==
    /\ capture[k] = "convert"
    /\ Recycle(Captured(k))
    /\ \/ CaptureGoto(k, "invoke")
       \/ CaptureGoto(k, "recycle")
    /\ UNCHANGED <<previewFrames, CaptureLocal>>

\* onFrame returns.
CaptureInvoke(k) ==
    /\ capture[k] = "invoke"
    /\ CaptureGoto(k, "recycle")
    /\ UNCHANGED <<frames, CaptureLocal>>

\* callback_frame is the converted frame, or else the captured one.
CaptureRecycle(k) ==
    /\ capture[k] = "recycle"
    /\ Recycle(IF Callback(k) \in held THEN Callback(k) ELSE Captured(k))
    /\ CaptureGoto(k, "poll")
    /\ UNCHANGED <<previewFrames, CaptureLocal>>

\* The end of do_capture_surface releases the surface without the mutex.
CaptureEnd(k) ==
    /\ capture[k] = "end"
    /\ IF Drawn(k) \in held THEN Recycle(Drawn(k))
                            ELSE UNCHANGED <<mFramePool, live, held>>
    /\ mCaptureWindow' = FALSE
    /\ surface' = [surface EXCEPT ![k] = FALSE]
    /\ CaptureGoto(k, "broadcast")
    /\ UNCHANGED <<mIsCapturing, previewFrames, captureSync, late,
                   CaptureOnly>>

CaptureBroadcast(k) ==
    /\ capture[k] = "broadcast"
    /\ BroadcastCapture
    /\ CaptureGoto(k, "loop")
    /\ UNCHANGED <<mIsCapturing, mCaptureWindow, frames, surface,
                   CaptureOnly>>

(***************************************************************************)
ClientStep ==
    \/ CreatePreviewThread \/ StopPreview \/ StopSignalPreview
    \/ StopSignalCapture \/ JoinCapture \/ JoinPreview \/ StopClearPreview
    \/ StopClearCapture \/ ReleaseWindows
ReplaceStep(c) == Replace(c) \/ Handshake(c) \/ Replaced(c)
UvcStep == AddPreviewFrame \/ DropCopy
PreviewStep ==
    \/ StartStreaming \/ ClearStale \/ CreateCaptureThread \/ PreviewLoop
    \/ WaitPreviewFrame \/ Decode \/ Decoded \/ DropBroken \/ Draw \/ DrawDone
    \/ AddCaptureFrame \/ PreviewSignal \/ StopStreaming
CaptureStep(k) ==
    \/ CaptureStart(k) \/ CaptureLoop(k) \/ CaptureBegin(k) \/ CapturePoll(k)
    \/ WaitCaptureFrame(k) \/ CaptureDraw(k) \/ CaptureOffer(k)
    \/ CaptureConvert(k) \/ CaptureInvoke(k) \/ CaptureRecycle(k)
    \/ CaptureEnd(k) \/ CaptureBroadcast(k)

Next ==
    \/ SetPreviewDisplay \/ StartPreview \/ ClientStep
    \/ \E c \in Callers : Call(c) \/ ReplaceStep(c)
    \/ FrameCallback \/ UvcStep
    \/ PreviewStep
    \/ \E k \in Capturers : CaptureStep(k)
    \/ SpuriousWakeup

\* A thread that can run does run; nobody promises a new call, a new frame
\* from the camera or a spurious wakeup.
Fairness ==
    /\ WF_vars(ClientStep)
    /\ \A c \in Callers : WF_vars(ReplaceStep(c))
    /\ WF_vars(UvcStep) /\ WF_vars(PreviewStep)
    /\ \A k \in Capturers : WF_vars(CaptureStep(k))

Spec == Init /\ [][Next]_vars
FairSpec == Spec /\ Fairness

-----------------------------------------------------------------------------
(***************************************************************************)
(* Properties.                                                             *)
(***************************************************************************)
FlagsOK ==
    /\ mIsRunning \in BOOLEAN /\ mIsCapturing \in BOOLEAN
    /\ mPreviewWindow \in BOOLEAN /\ mCaptureWindow \in BOOLEAN
    /\ mFrameCallbackObj \in BOOLEAN /\ streaming \in BOOLEAN
    /\ surface \in [Capturers -> BOOLEAN]
ArraysOK ==
    /\ mFramePool \in 0 .. FramePoolSz /\ previewFrames \in 0 .. MaxFrame
    /\ live \in Int /\ held \subseteq Pointers
SyncOK ==
    /\ captureLock \in Callers \cup {NULL}
    /\ previewSync \subseteq {"preview"}
    /\ captureSync \subseteq Capturers \cup Callers
    /\ late \subseteq Capturers \cup {"preview"}
ThreadsOK ==
    /\ capture_thread \in Capturers \cup {NULL}
    /\ frameMode \in {"yuyv", "mjpeg"}
    /\ caller \in [Callers -> CallerPc]
    /\ want \in [Callers -> Requests]
    /\ preview \in PreviewPc /\ uvc \in {"idle", "copied", "drop"}
    /\ capture \in [Capturers -> CapturePc]
    /\ starts \in Nat /\ calls \in Nat

\* The types of the variables; the two arrays stay within MAX_FRAME and
\* FRAME_POOL_SZ, whatever the threads do.
TypeOK == FlagsOK /\ ArraysOK /\ SyncOK /\ ThreadsOK

\* The buffers that are allocated but cannot be found anywhere any more.
Lost == live - (mFramePool + previewFrames + Cardinality(held))

\* No buffer is recycled twice or used after it was given back (then Lost
\* would be negative), and each preview loses at most one buffer: the one
\* that addCaptureFrame drops when stopPreview overtakes it.
FramesAccounted == 0 <= Lost /\ Lost <= starts

\* No worker sleeps on its condition while there is a frame for it.
NoSleepOnFrame ==
    /\ previewSync # {} => previewFrames = 0
    /\ captureSync \cap Capturers # {} => CaptureQueu \notin held

\* Once stopPreview has joined the preview thread nothing puts a frame into
\* the queues again: a stopped camera keeps no frame for the next preview.
StoppedIsEmpty ==
    ~mIsRunning /\ caller["client"] \in {"idle", "release"}
      => /\ preview = "none" /\ uvc = "idle" /\ ~streaming
         /\ previewFrames = 0 /\ CaptureQueu \notin held

(***************************************************************************)
(* The inductive invariant behind the four invariants above.               *)
(***************************************************************************)
\* Which pointers own a frame follows from where their threads are.
HeldByPc ==
    /\ Copy \in held <=> uvc \in {"copied", "drop"}
    /\ Mjpeg \in held <=> preview \in {"decode", "decoded"}
    /\ Frame \in held <=> preview \in {"decoded", "broken", "draw", "drawn", "add"}
    /\ Converted \in held <=> preview = "drawn"
    /\ \A k \in Capturers :
          /\ Captured(k) \in held <=>
                \/ capture[k] \in {"drawing", "offer", "convert"}
                \/ capture[k] \in {"invoke", "recycle"} /\ Callback(k) \notin held
          /\ Callback(k) \in held => capture[k] \in {"convert", "invoke", "recycle"}
          /\ capture[k] = "convert" => Callback(k) \in held

\* The client and the preview thread agree on whether a preview runs, and
\* libuvc delivers frames only in between.
Calm == {"idle", "replace", "handshake", "asleep", "stop"}
Lifecycle ==
    /\ caller["client"] \in Calm => (mIsRunning <=> preview # "none")
    /\ caller["client"] = "start" => mIsRunning /\ preview = "none"
    /\ caller["client"] \in {"signalPreview", "signalCapture", "joinCapture",
                             "joinPreview"} => ~mIsRunning /\ preview # "none"
    /\ caller["client"] \in {"clearPreview", "clearCapture", "release"}
         => ~mIsRunning /\ preview = "none"
    /\ caller["setter"] \in {"idle", "replace", "handshake", "asleep"}
    /\ streaming <=> preview \notin {"none", "prepare", "drain", "exited"}
    /\ uvc # "idle" => preview \notin {"none", "prepare", "exited"}

\* The queues are empty from the end of one preview to the start of the next.
EmptyBetween ==
    /\ caller["client"] \in {"clearCapture", "release", "start"}
         => previewFrames = 0
    /\ caller["client"] \in {"release", "start"} => CaptureQueu \notin held
    /\ caller["client"] \in Calm /\ preview = "none"
         => previewFrames = 0 /\ CaptureQueu \notin held

\* The preview in progress may still drop a frame in addCaptureFrame.
MayLose ==
    /\ preview # "none"
    /\ mIsRunning \/ preview \in {"decode", "decoded", "broken", "draw", "drawn",
                                 "add"}
LostByStop == 0 <= Lost /\ Lost + (IF MayLose THEN 1 ELSE 0) <= starts

IInv == TypeOK /\ HeldByPc /\ Lifecycle /\ EmptyBetween /\ LostByStop
          /\ NoSleepOnFrame

\* stopPreview hangs in pthread_join only when a worker checked mIsRunning
\* before the stop and went to sleep after it, which the unlocked signals
\* cannot prevent, or while setFrameCallback still waits for the capture
\* thread: in every other case it returns.
StopReturns ==
    (caller["client"] # "idle")
      ~> (caller["client"] = "idle" \/ late # {} \/ "client" \in captureSync)

\* The preview uses the stream as its contract says: one start at a time, and
\* a stop that waits for the frame callback in progress.
StreamPhase == IF streaming THEN "streaming"
               ELSE IF preview = "drain" THEN "stopping" ELSE "stopped"
Contract == INSTANCE StreamContract WITH
    phase <- StreamPhase, calling <- (uvc # "idle")
ContractKept == Contract!Spec

\* "wait finishing capturing": when the frame callback is replaced, no capture
\* thread is between looking it up and the return of onFrame; when an
\* application thread replaces the capture surface, none is in the loop that
\* draws on it.
ReplacedIdle ==
    [][/\ mFrameCallbackObj # mFrameCallbackObj'
            => \A k \in Capturers : capture[k] \notin {"convert", "invoke"}
       /\ \A c \in Callers :
            Replaced(c) /\ mCaptureWindow # mCaptureWindow'
              => \A k \in Capturers : ~surface[k]]_vars

=============================================================================
