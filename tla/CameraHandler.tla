--------------------------- MODULE CameraHandler ---------------------------
(***************************************************************************)
(* The camera handler, AbstractUVCCameraHandler.java: the application's    *)
(* threads (the user interface, the USB monitor) send messages to a camera *)
(* thread that opens, closes, previews and records; the encoders of a      *)
(* recording report their end from threads of their own.  stopPreview      *)
(* waits, on mSync, until the camera thread has stopped the preview.       *)
(*                                                                         *)
(* A synchronized block is one step, and so is each call of the camera,    *)
(* whose methods are synchronized.  A thread that calls a camera which     *)
(* another one just took out of mUVCCamera dies of it: an encoder's thread *)
(* catches the exception, the camera thread takes the process with it.     *)
(***************************************************************************)
EXTENDS Integers, Sequences, FiniteSets

CONSTANTS Callers,        \* the application's threads
          MaxCalls        \* bound: calls they make

ASSUME HandlerAssumption == MaxCalls \in Nat

VARIABLES
    mEncoderType,      \* final: a surface encoder, or one that takes buffers
    destroyed,         \* the activity, mWeakParent, is destroyed or collected
    mReleased,
    queue, updates,    \* the looper's messages; MSG_MEDIA_UPDATE, sent delayed
    thread, after,     \* the camera thread; where handleClose returns to
    mUVCCamera,        \* TRUE: not null
    mIsPreviewing, mIsRecording,
    mMuxer,            \* the recording in progress, 0 for null
    previewing, capturing,  \* the camera: previews, has a capture surface
    leaving,           \* threads, 0 the camera's, that took a camera which
                       \* previews, and have not stopped it yet
    encoder,           \* the video encoders of the recordings there were
    caller, method,    \* each caller's program counter and the method it is in
    message,           \* the message it is to send
    calls,
    late,              \* callers that wait for a preview that is not running
    misled,            \* no preview behind mIsPreviewing: the camera refused
                       \* to start, or was closed while it was previewing
    overlapped,        \* a recording began before the one before it had ended
    unannounced        \* an encoder ended, and no update was sent

looper   == <<queue, updates, thread, after>>
camera   == <<mUVCCamera, previewing, capturing, leaving, misled>>
recorder == <<mIsRecording, mMuxer, encoder>>
history  == <<overlapped, unannounced>>
clients  == <<caller, method, message, calls, late>>
vars == <<mEncoderType, destroyed, mReleased, looper, camera, mIsPreviewing,
          recorder, clients, history>>

Messages == {"open", "close", "previewStart", "previewStop", "captureStart",
             "captureStop", "release"}
\* The methods that send one message and nothing else.
Senders == {"open", "previewStart", "captureStart", "captureStop"}
Methods == Senders \cup {"stopPreview", "close", "release"}
CallerPc == {"idle", "send", "close", "stopPreview", "isPreviewing", "wait",
             "waiting", "return"}
ThreadPc == {"loop", "start", "started", "stop", "stopped", "record",
             "recorded", "stopRecording", "unset", "take", "destroy", "open",
             "release", "quit", "ended", "died"}
Status == {"running", "stopping", "cleared", "quiet", "release", "unset", "take",
           "destroy", "clear", "ended"}
Recordings == DOMAIN encoder

Init ==
    /\ mEncoderType \in {"surface", "buffer"}
    /\ destroyed = FALSE /\ mReleased = FALSE
    /\ queue = <<>> /\ updates = 0 /\ thread = "loop" /\ after = "loop"
    /\ mUVCCamera = FALSE /\ previewing = FALSE /\ capturing = FALSE
    /\ leaving = {} /\ misled = FALSE
    /\ mIsPreviewing = FALSE /\ mIsRecording = FALSE /\ mMuxer = 0
    /\ encoder = <<>>
    /\ caller = [c \in Callers |-> "idle"]
    /\ method = [c \in Callers |-> "open"]
    /\ message = [c \in Callers |-> "open"]
    /\ calls = 0 /\ late = {}
    /\ overlapped = FALSE /\ unannounced = FALSE

(***************************************************************************)
(* The application's threads.                                              *)
(***************************************************************************)
Goto(c, l) == caller' = [caller EXCEPT ![c] = l]
Leave(c) == /\ Goto(c, "idle")
            /\ method' = [method EXCEPT ![c] = "open"]
            /\ message' = [message EXCEPT ![c] = "open"]

\* A message to a looper that quit is dropped.
Enqueue(q, m) == IF thread \in {"quit", "ended"} THEN q ELSE Append(q, m)

\* removeMessages: what is left of q when every m is taken out.
Kept(q, m) == {i \in DOMAIN q : q[i] # m}
Without(q, m) ==
    [k \in 1 .. Cardinality(Kept(q, m)) |->
        q[CHOOSE i \in Kept(q, m) : Cardinality(Kept(q, m) \cap 1 .. i) = k]]

\* mSync.notifyAll
NotifyAll == /\ caller' = [c \in Callers |-> IF caller[c] = "waiting" THEN "return"
                                             ELSE caller[c]]
             /\ late' = {}

ClientOnly == <<mEncoderType, destroyed, updates, thread, after, camera, mIsPreviewing,
                recorder, history>>

\* A method is called; checkReleased, which stop, close and release do without.
Call(c, m) ==
    /\ caller[c] = "idle" /\ calls < MaxCalls
    /\ m \in {"open", "previewStart", "captureStart"} => ~mReleased
    /\ calls' = calls + 1
    /\ method' = [method EXCEPT ![c] = m]
    /\ message' = [message EXCEPT ![c] = IF m \in Senders THEN m ELSE "close"]
    /\ Goto(c, IF m \in Senders THEN "send"
               ELSE IF m = "stopPreview" THEN "stopPreview" ELSE "close")
    /\ mReleased' = (mReleased \/ m = "release")
    /\ UNCHANGED <<queue, late, ClientOnly>>

\* sendMessage, the last thing a method does; release sends a second one.
SendMessage(c) ==
    /\ caller[c] = "send"
    /\ queue' = Enqueue(queue, message[c])
    /\ IF method[c] = "release" /\ message[c] = "close"
       THEN message' = [message EXCEPT ![c] = "release"] /\ UNCHANGED <<caller, method>>
       ELSE Leave(c)
    /\ UNCHANGED <<mReleased, calls, late, ClientOnly>>

\* close: only a camera that is open is stopped and closed.
Close(c) ==
    /\ caller[c] = "close"
    /\ IF mUVCCamera THEN Goto(c, "stopPreview") /\ UNCHANGED <<method, message>>
       ELSE IF method[c] = "release"
       THEN /\ Goto(c, "send") /\ message' = [message EXCEPT ![c] = "release"]
            /\ UNCHANGED method
       ELSE Leave(c)
    /\ UNCHANGED <<mReleased, queue, calls, late, ClientOnly>>

\* stopPreview: pending starts are taken back, and stopRecording.
StopPreview(c) ==
    /\ caller[c] = "stopPreview"
    /\ queue' = Enqueue(Without(queue, "previewStart"), "captureStop")
    /\ Goto(c, "isPreviewing")
    /\ UNCHANGED <<mReleased, method, message, calls, late, ClientOnly>>

IsPreviewing(c) ==
    /\ caller[c] = "isPreviewing"
    /\ Goto(c, IF mUVCCamera /\ mIsPreviewing THEN "wait" ELSE "return")
    /\ UNCHANGED <<mReleased, queue, method, message, calls, late, ClientOnly>>

\* The synchronized block: what isPreviewing said is not looked at again.
WaitStopped(c) ==
    /\ caller[c] = "wait"
    /\ queue' = Enqueue(queue, "previewStop")
    /\ Goto(c, "waiting")
    /\ late' = IF mIsPreviewing /\ thread # "ended" THEN late ELSE late \cup {c}
    /\ UNCHANGED <<mReleased, method, message, calls, ClientOnly>>

Return(c) ==
    /\ caller[c] = "return"
    /\ IF method[c] = "stopPreview" THEN Leave(c)
       ELSE Goto(c, "send") /\ UNCHANGED <<method, message>>
    /\ UNCHANGED <<mReleased, queue, calls, late, ClientOnly>>

(***************************************************************************)
(* The camera thread: handleMessage and the handlers.                      *)
(***************************************************************************)
ThreadOnly == <<mEncoderType, destroyed, method, message, calls>>
Asleep == <<caller, late>>

\* Which step a message leads to, when its handler does not return at once.
Handler(m) ==
    CASE m \in {"open", "close", "release", "captureStop"} -> "stopRecording"
      [] m = "previewStart" -> IF mUVCCamera /\ ~mIsPreviewing THEN "start" ELSE "loop"
      [] m = "previewStop" -> IF ~mIsPreviewing THEN "loop"
                              ELSE IF mUVCCamera THEN "stop" ELSE "stopped"
      [] m = "captureStart" -> IF mUVCCamera /\ mMuxer = 0 THEN "record" ELSE "loop"

\* Where handleClose returns to; handleStopRecording alone closes nothing.
After(m) == IF m \in {"open", "release"} THEN m
            ELSE IF m = "captureStop" THEN "none" ELSE "loop"

HandleMessage ==
    /\ thread = "loop" /\ queue # <<>>
    /\ queue' = Tail(queue)
    /\ thread' = Handler(Head(queue)) /\ after' = After(Head(queue))
    /\ overlapped' = (overlapped \/ /\ thread' = "record" /\ mEncoderType = "surface"
                                    /\ \E i \in Recordings : encoder[i] # "ended")
    /\ UNCHANGED <<updates, mReleased, camera, mIsPreviewing, recorder,
                   unannounced, Asleep, ThreadOnly>>

\* Slip: the release that an update ends is forgotten.
HandleUpdateMediaOnly ==
    /\ thread = "loop" /\ updates > 0
    /\ updates' = updates - 1
    /\ UNCHANGED <<thread, after, queue, mReleased, camera, mIsPreviewing,
                   recorder, history, Asleep, ThreadOnly>>

\* handleUpdateMedia: the end of a recording is what a release waited for; no
\* activity is as good as a release.
HandleUpdateMedia ==
    /\ thread = "loop" /\ updates > 0
    /\ updates' = updates - 1
    /\ IF mReleased \/ destroyed
       THEN thread' = "stopRecording" /\ after' = "release"
       ELSE UNCHANGED <<thread, after>>
    /\ UNCHANGED <<queue, mReleased, camera, mIsPreviewing, recorder, history,
                   Asleep, ThreadOnly>>

\* A camera that is gone by now: nobody catches the exception.
Dies == thread' = "died" /\ UNCHANGED <<previewing, misled, mIsPreviewing, Asleep>>

\* handleStartPreview; setPreviewSize may refuse.  The camera may fail to start
\* the preview, nobody asks whether it did.
HandleStartPreview ==
    /\ \/ /\ thread = "start" /\ mUVCCamera
          /\ \/ /\ thread' = "started" /\ previewing' \in BOOLEAN
                /\ misled' = (misled \/ ~previewing')
             \/ thread' = "loop" /\ UNCHANGED <<previewing, misled>>
          /\ UNCHANGED <<mIsPreviewing, Asleep>>
       \/ /\ thread = "started" /\ mUVCCamera
          /\ thread' = "loop" /\ mIsPreviewing' = TRUE
          /\ UNCHANGED <<previewing, misled, Asleep>>
       \/ thread \in {"start", "started"} /\ ~mUVCCamera /\ Dies
    /\ UNCHANGED <<queue, updates, after, mReleased, mUVCCamera, capturing, leaving,
                   recorder, history, ThreadOnly>>

\* Slip: whoever waits for the stop is not told.
HandleStopPreviewSilent ==
    /\ thread \in {"stop", "stopped"}
    /\ previewing' = FALSE /\ mIsPreviewing' = FALSE /\ thread' = "loop"
    /\ UNCHANGED <<queue, updates, after, mReleased, mUVCCamera, capturing, leaving,
                   misled, recorder, history, Asleep, ThreadOnly>>

\* Slip: the flag is cleared, the camera goes on.
HandleStopPreviewFlag ==
    /\ thread \in {"stop", "stopped"}
    /\ mIsPreviewing' = FALSE /\ thread' = "loop" /\ NotifyAll
    /\ UNCHANGED <<queue, updates, after, mReleased, camera, recorder, history,
                   ThreadOnly>>

\* Slip: the waiting callers are told before the camera stops.
HandleStopPreviewEarly ==
    /\ \/ /\ thread = "stop"
          /\ thread' = "stopped" /\ mIsPreviewing' = FALSE /\ NotifyAll
          /\ UNCHANGED previewing
       \/ /\ thread = "stopped"
          /\ thread' = "loop" /\ previewing' = FALSE
          /\ UNCHANGED <<mIsPreviewing, Asleep>>
    /\ UNCHANGED <<queue, updates, after, mReleased, mUVCCamera, capturing, leaving,
                   misled, recorder, history, ThreadOnly>>

\* handleStopPreview
HandleStopPreview ==
    /\ \/ /\ thread = "stop" /\ mUVCCamera
          /\ thread' = "stopped" /\ previewing' = FALSE
          /\ UNCHANGED <<misled, mIsPreviewing, Asleep>>
       \/ thread = "stop" /\ ~mUVCCamera /\ Dies
       \/ /\ thread = "stopped"
          /\ thread' = "loop" /\ mIsPreviewing' = FALSE /\ misled' = FALSE
          /\ NotifyAll
          /\ UNCHANGED previewing
    /\ UNCHANGED <<queue, updates, after, mReleased, mUVCCamera, capturing, leaving,
                   recorder, history, ThreadOnly>>

\* handleStartRecording up to startRecording.  Each onPrepared sets
\* mIsRecording, the surface encoder's also starts the capture; preparing the
\* video encoder or the audio encoder may fail.
HandleStartRecording ==
    /\ thread = "record"
    /\ \/ thread' = "loop" /\ UNCHANGED <<mIsRecording, capturing>>
       \/ /\ thread' \in {"loop", "recorded"}
          /\ mIsRecording' = TRUE
          /\ capturing' = (mUVCCamera /\ (capturing \/ mEncoderType = "surface"))
    /\ encoder' = IF thread' = "recorded" THEN Append(encoder, "running")
                                          ELSE encoder
    /\ UNCHANGED <<queue, updates, after, mReleased, mUVCCamera, previewing, leaving,
                   misled, mIsPreviewing, mMuxer, history, Asleep, ThreadOnly>>

StartedRecording ==
    /\ thread = "recorded"
    /\ thread' = "loop" /\ mMuxer' = Len(encoder)
    /\ UNCHANGED <<queue, updates, after, mReleased, camera, mIsPreviewing,
                   mIsRecording, encoder, history, Asleep, ThreadOnly>>

\* The synchronized block of handleStopRecording, and stopRecording of the
\* muxer, which nobody else knows by then.
StopRecording ==
    /\ mMuxer' = 0 /\ capturing' = FALSE
    /\ encoder' = IF mMuxer = 0 THEN encoder
                  ELSE [encoder EXCEPT ![mMuxer] = "stopping"]

\* To handleClose, or back to the looper.
Proceed == IF after = "none" THEN thread' = "loop" /\ after' = "loop"
                             ELSE thread' = "take" /\ UNCHANGED after

\* Slip: a recording goes on while its camera is closed.
HandleStopRecordingNot ==
    /\ thread \in {"stopRecording", "unset"}
    /\ Proceed
    /\ UNCHANGED <<queue, updates, mReleased, camera, mIsPreviewing,
                   recorder, history, Asleep, ThreadOnly>>

\* handleStopRecording; the frame callback is taken from whatever camera
\* there is by now.
HandleStopRecording ==
    /\ \/ /\ thread = "stopRecording"
          /\ StopRecording
          /\ IF mMuxer = 0 THEN Proceed ELSE thread' = "unset" /\ UNCHANGED after
       \/ /\ thread = "unset"
          /\ IF mUVCCamera THEN Proceed ELSE thread' = "died" /\ UNCHANGED after
          /\ UNCHANGED <<mMuxer, encoder, capturing>>
    /\ UNCHANGED <<queue, updates, mReleased, mUVCCamera, previewing, leaving,
                   misled, mIsPreviewing, mIsRecording, history, Asleep, ThreadOnly>>

\* Thread t takes the camera out of mUVCCamera; mIsPreviewing is left as it is.
TakeCamera(t) ==
    /\ mUVCCamera' = FALSE /\ previewing' = FALSE /\ capturing' = FALSE
    /\ leaving' = IF previewing THEN leaving \cup {t} ELSE leaving
    /\ misled' = (misled \/ previewing)

\* handleClose; then stopPreview and destroy of the camera it took.
HandleClose ==
    /\ \/ thread = "take" /\ TakeCamera(0) /\ thread' = "destroy" /\ UNCHANGED after
       \/ /\ thread = "destroy" /\ leaving' = leaving \ {0}
          /\ thread' = after /\ after' = "loop"
          /\ UNCHANGED <<mUVCCamera, previewing, capturing, misled>>
    /\ UNCHANGED <<queue, updates, mReleased, mIsPreviewing, recorder,
                   history, Asleep, ThreadOnly>>

\* handleOpen; camera.open may throw.
HandleOpen ==
    /\ thread = "open"
    /\ mUVCCamera' \in BOOLEAN
    /\ thread' = "loop"
    /\ UNCHANGED <<queue, updates, after, mReleased, previewing, capturing, leaving,
                   misled, mIsPreviewing, recorder, history, Asleep, ThreadOnly>>

\* Slip: the looper quits although an encoder is still at work.
HandleReleaseNow ==
    /\ thread = "release"
    /\ thread' = "quit" /\ mReleased' = TRUE /\ queue' = <<>> /\ updates' = 0
    /\ UNCHANGED <<after, camera, mIsPreviewing, recorder, history, Asleep,
                   ThreadOnly>>

\* handleRelease: the looper quits unless an encoder is still at work.
HandleRelease ==
    /\ thread = "release"
    /\ IF mIsRecording THEN thread' = "loop" /\ UNCHANGED <<mReleased, queue, updates>>
       ELSE thread' = "quit" /\ mReleased' = TRUE /\ queue' = <<>> /\ updates' = 0
    /\ UNCHANGED <<after, camera, mIsPreviewing, recorder, history, Asleep,
                   ThreadOnly>>

\* The end of run.
Quit ==
    /\ thread = "quit"
    /\ thread' = "ended"
    /\ NotifyAll
    /\ UNCHANGED <<queue, updates, after, mReleased, camera, mIsPreviewing,
                   recorder, history, ThreadOnly>>

(***************************************************************************)
(* An encoder's thread reports its end in onStopped, before it stops its   *)
(* part of the muxer.  That of an encoder that takes buffers does nothing. *)
(***************************************************************************)
Ends(i, l) == encoder' = [encoder EXCEPT ![i] = l]
EncoderOnly == <<queue, thread, after, mIsPreviewing, Asleep, ThreadOnly>>
At(i, l) == i \in Recordings /\ encoder[i] = l /\ thread # "died"

OnStopped(i) ==
    /\ At(i, "stopping")
    /\ IF mEncoderType = "surface" THEN mIsRecording' = FALSE /\ Ends(i, "cleared")
       ELSE UNCHANGED mIsRecording /\ Ends(i, "ended")
    /\ UNCHANGED <<updates, mReleased, camera, mMuxer, history, EncoderOnly>>

\* The capture of whatever camera there is ends; without a view it all ends.
StopCapture(i) ==
    /\ At(i, "cleared")
    /\ \/ Ends(i, "quiet") /\ capturing' = FALSE /\ UNCHANGED unannounced
       \/ Ends(i, "ended") /\ unannounced' = TRUE /\ UNCHANGED capturing
    /\ UNCHANGED <<updates, mReleased, mUVCCamera, previewing, leaving, misled,
                   mIsRecording, mMuxer, overlapped, EncoderOnly>>

\* The update of the media store is sent if the muxer still knows the file's
\* name: nobody but the encoder's weak reference holds the muxer by now.
\* Without a name nothing is sent, and a handler that is released or has no
\* activity is released here.
Announce(i) ==
    /\ At(i, "quiet")
    /\ \/ /\ Ends(i, "ended")
          /\ updates' = IF thread \in {"quit", "ended"} THEN 0 ELSE updates + 1
          /\ UNCHANGED unannounced
       \/ /\ Ends(i, IF mReleased \/ destroyed THEN "release" ELSE "ended")
          /\ unannounced' = TRUE
          /\ UNCHANGED updates
    /\ UNCHANGED <<mReleased, camera, mIsRecording, mMuxer, overlapped, EncoderOnly>>

\* handleRelease on the encoder's thread: it stops the recording of the day,
StopRecordingBeside(i) ==
    /\ \/ /\ At(i, "release")
          /\ mMuxer' = 0 /\ capturing' = FALSE
          /\ encoder' = [j \in Recordings |->
                           IF j = i THEN IF mMuxer # 0 THEN "unset" ELSE "take"
                           ELSE IF j = mMuxer THEN "stopping" ELSE encoder[j]]
       \/ /\ At(i, "unset")
          /\ Ends(i, IF mUVCCamera THEN "take" ELSE "ended")
          /\ UNCHANGED <<mMuxer, capturing>>
    /\ UNCHANGED <<updates, mReleased, mUVCCamera, previewing, leaving, misled,
                   mIsRecording, history, EncoderOnly>>

\* closes the camera beside the camera thread,
CloseBeside(i) ==
    /\ \/ At(i, "take") /\ TakeCamera(i) /\ Ends(i, "destroy")
       \/ /\ At(i, "destroy") /\ leaving' = leaving \ {i} /\ Ends(i, "clear")
          /\ UNCHANGED <<mUVCCamera, previewing, capturing, misled>>
    /\ UNCHANGED <<updates, mReleased, mIsRecording, mMuxer, history, EncoderOnly>>

\* and asks for the looper of its own thread, which has none, to quit it.
ReleaseBeside(i) ==
    /\ At(i, "clear") /\ Ends(i, "ended")
    /\ mReleased' = (mReleased \/ ~mIsRecording)
    /\ UNCHANGED <<updates, camera, mIsRecording, mMuxer, history, EncoderOnly>>

\* The activity goes.
DestroyActivity ==
    /\ ~destroyed /\ destroyed' = TRUE
    /\ UNCHANGED <<mEncoderType, mReleased, looper, camera, mIsPreviewing, recorder,
                   clients, history>>

-----------------------------------------------------------------------------
CallerStep(c) ==
    /\ thread # "died"
    /\ \/ SendMessage(c) \/ Close(c) \/ StopPreview(c) \/ IsPreviewing(c)
       \/ WaitStopped(c) \/ Return(c)
ThreadStep ==
    \/ HandleMessage \/ HandleUpdateMedia \/ HandleStartPreview
    \/ HandleStopPreview \/ HandleStartRecording \/ StartedRecording
    \/ HandleStopRecording \/ HandleClose \/ HandleOpen \/ HandleRelease \/ Quit
EncoderStep(i) ==
    \/ OnStopped(i) \/ StopCapture(i) \/ Announce(i)
    \/ StopRecordingBeside(i) \/ CloseBeside(i) \/ ReleaseBeside(i)

Next ==
    \/ \E c \in Callers : CallerStep(c) \/ \E m \in Methods : Call(c, m)
    \/ ThreadStep
    \/ \E i \in Recordings : EncoderStep(i)
    \/ DestroyActivity

Spec == Init /\ [][Next]_vars

\* The threads run, and an encoder that was asked to stop ends.  No call
\* starts more than one recording.
FairSpec ==
    /\ Spec /\ WF_vars(ThreadStep)
    /\ \A c \in Callers : WF_vars(CallerStep(c))
    /\ \A i \in 1 .. MaxCalls : WF_vars(EncoderStep(i))

-----------------------------------------------------------------------------
(***************************************************************************)
(* Properties.                                                             *)
(***************************************************************************)
TypeOK ==
    /\ {destroyed, mReleased, mUVCCamera, mIsPreviewing, mIsRecording, previewing,
        capturing, misled, overlapped, unannounced} \subseteq BOOLEAN
    /\ queue \in Seq(Messages) /\ updates \in 0 .. Len(encoder)
    /\ thread \in ThreadPc /\ after \in {"loop", "open", "release", "none"}
    /\ encoder \in Seq(Status)
    /\ mMuxer \in 0 .. Len(encoder) /\ leaving \subseteq 0 .. Len(encoder)
    /\ caller \in [Callers -> CallerPc] /\ method \in [Callers -> Methods]
    /\ message \in [Callers -> Messages]
    /\ calls \in 0 .. MaxCalls /\ late \subseteq Callers

\* Between two messages isPreviewing() never hides a camera that previews; and
\* it claims no preview that is not there, except when the camera refused to
\* start, which nobody asks, or a camera was closed while it was previewing:
\* handleClose leaves mIsPreviewing set, and the preview of the next camera is
\* never started.  The next stop clears it.
PreviewTruth ==
    thread = "loop" /\ mUVCCamera =>
      /\ previewing => mIsPreviewing
      /\ mIsPreviewing => previewing \/ misled

\* Whoever sleeps in stopPreview is woken when no camera previews any more, but
\* for one that an encoder's thread took and is about to stop.
WokenAfterStop ==
    [][\A c \in Callers : caller[c] = "waiting" /\ caller'[c] # "waiting" =>
         ~previewing' /\ 0 \notin leaving']_vars

\* A recording in progress has an open camera and a running encoder, and the
\* camera draws on the encoder's surface, although encoders end, and one that
\* found no name releases the handler, on threads of their own; except when the
\* recording began before the one before it had ended: that one's encoder takes
\* the capture, or the camera, away.
RecordingSupplied ==
    thread = "loop" /\ mMuxer # 0 =>
      /\ encoder[mMuxer] = "running"
      /\ overlapped \/ mUVCCamera
      /\ mEncoderType = "surface" => overlapped \/ (mIsRecording /\ capturing)

\* The camera thread does not go before each encoder has written its data and
\* begun to report its end, although mIsRecording is one flag for all of them,
\* unless recordings overlapped.  The rest of the report and the end of the
\* muxer may come after.
QuitAfterEncoders ==
    thread \in {"quit", "ended"} =>
      \/ overlapped
      \/ \A i \in Recordings : encoder[i] \notin {"running", "stopping"}

\* stopPreview returns, unless the preview ended between its question and its
\* wait: then no handler notifies it any more; or the process died.
StopReturns ==
    \A c \in Callers :
      caller[c] = "waiting" ~> \/ caller[c] # "waiting" \/ c \in late
                               \/ thread = "died"

\* A released handler's thread ends, unless the thread that releases it hangs
\* in stopPreview, mIsRecording is never cleared again (encoders that take
\* buffers, or a preparation that failed half-way), an encoder found no file
\* name to announce, or the process died.
ReleaseEnds ==
    mReleased ~> \/ thread \in {"ended", "died"} \/ late # {} \/ unannounced
                 \/ []mIsRecording
=============================================================================
