--------------------------- MODULE MediaRecorder ---------------------------
(***************************************************************************)
(* The recorder, MediaEncoder.java and MediaMuxerWrapper.java: a video and *)
(* an audio encoder, each with a thread of its own, write into one muxer,  *)
(* which starts when both have a track and stops with the last of them.    *)
(* The camera thread prepares, starts and stops them (handleStartRecording *)
(* and handleStopRecording); frames and sound arrive from other threads.   *)
(*                                                                         *)
(* A synchronized block is one step.  MediaCodec and MediaMuxer belong to  *)
(* Android: the codec answers a first input with its format and each input *)
(* with one output, both after any delay.                                  *)
(***************************************************************************)
EXTENDS Integers, FiniteSets

CONSTANTS Encoders,   \* the encoders added to the muxer
          MaxInput    \* bound: inputs of a codec not yet taken out

ASSUME RecorderAssumption ==
    /\ IsFiniteSet(Encoders) /\ Encoders # {}
    /\ MaxInput \in Nat \ {0}

VARIABLES
    handler, todo,                   \* the camera thread, encoders it has to visit
    mIsCapturing, mRequestStop, mRequestDrain, mMuxerStarted, mIsEOS,
    pc, draining,                    \* MediaEncoder.run, and which of its drains
    fed, formatted, output,          \* MediaCodec: has had input, gave its format,
                                     \* outputs to come
    mStatredCount, mIsStarted,       \* MediaMuxerWrapper
    mediaMuxer,                      \* MediaMuxer's own state
    misused,                         \* MediaMuxer was called in a wrong state
    missed,                          \* encoders asleep since after the stop
    collected                        \* the wrapper was garbage: nothing but the
                                     \* encoders' weak references named it

requests == <<mIsCapturing, mRequestStop, mRequestDrain>>
codec    == <<fed, formatted, output>>
muxer    == <<mStatredCount, mIsStarted, mediaMuxer, misused, collected>>
thread   == <<pc, draining, mMuxerStarted, mIsEOS, missed>>
vars     == <<handler, todo, requests, codec, muxer, thread>>

ThreadPc == {"check", "wait", "asleep", "drain", "start", "muxerWait", "eos",
             "release", "stop", "exit", "ended"}

Init ==
    /\ handler = "prepare" /\ todo = Encoders
    /\ mIsCapturing = [e \in Encoders |-> FALSE]
    /\ mRequestStop = [e \in Encoders |-> FALSE]
    /\ mRequestDrain = [e \in Encoders |-> 0]
    /\ mMuxerStarted = [e \in Encoders |-> FALSE]
    /\ mIsEOS = [e \in Encoders |-> FALSE]
    /\ pc = [e \in Encoders |-> "check"]
    /\ draining = [e \in Encoders |-> "loop"]
    /\ fed = [e \in Encoders |-> FALSE]
    /\ formatted = [e \in Encoders |-> FALSE]
    /\ output = [e \in Encoders |-> 0]
    /\ mStatredCount = 0 /\ mIsStarted = FALSE
    /\ mediaMuxer = "initialized" /\ misused = FALSE /\ missed = {}
    /\ collected = FALSE

Set(f, e, v) == [f EXCEPT ![e] = v]

\* notifyAll: the encoder's thread, if it waits, looks again.
Notify(e) == /\ pc' = IF pc[e] = "asleep" THEN Set(pc, e, "check") ELSE pc
             /\ missed' = missed \ {e}

(***************************************************************************)
(* The camera thread.                                                      *)
(***************************************************************************)
\* One encoder after the other: when all are visited, the next phase.
Visit(e, phase) ==
    /\ e \in todo
    /\ IF todo = {e} THEN handler' = phase /\ todo' = Encoders
                     ELSE todo' = todo \ {e} /\ UNCHANGED handler

\* The codec is created and started; if that fails the recording never
\* starts, and nobody stops the encoders again.
Prepare(e) ==
    /\ handler = "prepare"
    /\ \/ Visit(e, "start")
       \/ e \in todo /\ handler' = "failed" /\ UNCHANGED todo
    /\ mMuxerStarted' = Set(mMuxerStarted, e, FALSE)
    /\ mIsEOS' = Set(mIsEOS, e, FALSE)
    /\ UNCHANGED <<requests, codec, muxer, pc, draining, missed>>

StartRecording(e) ==
    /\ handler = "start"
    /\ Visit(e, "recording")
    /\ mIsCapturing' = Set(mIsCapturing, e, TRUE)
    /\ mRequestStop' = Set(mRequestStop, e, FALSE)
    /\ Notify(e)
    /\ UNCHANGED <<mRequestDrain, codec, muxer, draining, mMuxerStarted, mIsEOS>>

HandleStopRecording ==
    /\ handler = "recording"
    /\ handler' = "stop"
    /\ UNCHANGED <<todo, requests, codec, muxer, thread>>

\* Slip: the encoder is asked to stop, and not told.
StopRecordingSilent(e) ==
    /\ handler = "stop"
    /\ Visit(e, "stopped")
    /\ mRequestStop' = Set(mRequestStop, e, mRequestStop[e] \/ mIsCapturing[e])
    /\ UNCHANGED <<mIsCapturing, mRequestDrain, codec, muxer, thread>>

StopRecording(e) ==
    /\ handler = "stop"
    /\ Visit(e, "stopped")
    /\ IF mIsCapturing[e] /\ ~mRequestStop[e]
       THEN mRequestStop' = Set(mRequestStop, e, TRUE) /\ Notify(e)
       ELSE UNCHANGED <<mRequestStop, pc, missed>>
    /\ UNCHANGED <<mIsCapturing, mRequestDrain, codec, muxer, draining,
                   mMuxerStarted, mIsEOS>>

\* A frame or a piece of sound: frameAvailableSoon and encode, or the other
\* way round.
Input(e) ==
    /\ mIsCapturing[e] /\ ~mRequestStop[e]
    /\ output[e] < MaxInput /\ mRequestDrain[e] < MaxInput
    /\ mRequestDrain' = Set(mRequestDrain, e, mRequestDrain[e] + 1)
    /\ fed' = Set(fed, e, TRUE)
    /\ output' = Set(output, e, output[e] + 1)
    /\ Notify(e)
    /\ UNCHANGED <<handler, todo, mIsCapturing, mRequestStop, formatted, muxer,
                   draining, mMuxerStarted, mIsEOS>>

(***************************************************************************)
(* The thread of an encoder: run.                                          *)
(***************************************************************************)
Goto(e, l) == pc' = Set(pc, e, l)
Others == <<handler, todo>>

\* The first synchronized block of the loop.
Check(e) ==
    /\ pc[e] = "check"
    /\ mRequestDrain' = Set(mRequestDrain, e, IF mRequestDrain[e] > 0
                                              THEN mRequestDrain[e] - 1 ELSE 0)
    /\ IF mRequestStop[e] THEN Goto(e, "drain") /\ draining' = Set(draining, e, "last")
       ELSE IF mRequestDrain[e] > 0
       THEN Goto(e, "drain") /\ draining' = Set(draining, e, "loop")
       ELSE Goto(e, "wait") /\ UNCHANGED draining
    /\ UNCHANGED <<Others, mIsCapturing, mRequestStop, codec, muxer,
                   mMuxerStarted, mIsEOS, missed>>

\* The second one: nothing is looked at again before the wait.
Wait(e) ==
    /\ pc[e] = "wait"
    /\ Goto(e, "asleep")
    /\ missed' = IF mRequestStop[e] THEN missed \cup {e} ELSE missed
    /\ UNCHANGED <<Others, requests, codec, muxer, draining, mMuxerStarted, mIsEOS>>

\* drain gives up when the codec has nothing to offer for a while, or the
\* muxer is gone.
DrainDone(e) ==
    /\ pc[e] = "drain"
    /\ Goto(e, CASE draining[e] = "loop" -> "check"
                 [] draining[e] = "last" -> "eos"
                 [] draining[e] = "final" -> "release")
    /\ UNCHANGED <<Others, requests, codec, muxer, draining, mMuxerStarted,
                   mIsEOS, missed>>

\* INFO_OUTPUT_FORMAT_CHANGED: addTrack; MediaMuxer wants all tracks before
\* it starts.
DrainFormat(e) ==
    /\ pc[e] = "drain" /\ mIsCapturing[e] /\ ~collected
    /\ fed[e] /\ ~formatted[e]
    /\ formatted' = Set(formatted, e, TRUE)
    /\ mMuxerStarted' = Set(mMuxerStarted, e, TRUE)
    /\ misused' = (misused \/ mediaMuxer # "initialized")
    /\ Goto(e, "start")
    /\ UNCHANGED <<Others, requests, fed, output, mStatredCount, mIsStarted,
                   mediaMuxer, collected, draining, mIsEOS, missed>>

\* Slip: the muxer starts with the first track.
MuxerStartEarly(e) ==
    /\ pc[e] = "start"
    /\ mStatredCount' = mStatredCount + 1
    /\ IF mStatredCount = 0
       THEN /\ misused' = (misused \/ mediaMuxer # "initialized")
            /\ mediaMuxer' = "started" /\ mIsStarted' = TRUE
       ELSE UNCHANGED <<mIsStarted, mediaMuxer, misused>>
    /\ Goto(e, "drain")
    /\ UNCHANGED <<Others, requests, codec, draining, mMuxerStarted, mIsEOS,
                   missed, collected>>

\* MediaMuxerWrapper.start; an encoder that comes too early waits.
MuxerStart(e) ==
    /\ pc[e] = "start"
    /\ mStatredCount' = mStatredCount + 1
    /\ IF mStatredCount + 1 = Cardinality(Encoders)
       THEN /\ misused' = (misused \/ mediaMuxer # "initialized")
            /\ mediaMuxer' = "started" /\ mIsStarted' = TRUE
            /\ Goto(e, "drain")
       ELSE /\ Goto(e, IF mIsStarted THEN "drain" ELSE "muxerWait")
            /\ UNCHANGED <<mIsStarted, mediaMuxer, misused>>
    /\ UNCHANGED <<Others, requests, codec, draining, mMuxerStarted, mIsEOS,
                   missed, collected>>

\* while (!muxer.isStarted()) muxer.wait(100)
MuxerReady(e) ==
    /\ pc[e] = "muxerWait" /\ mIsStarted
    /\ Goto(e, "drain")
    /\ UNCHANGED <<Others, requests, codec, muxer, draining, mMuxerStarted,
                   mIsEOS, missed>>

\* An output: writeSampleData passes it on if the muxer counts a started
\* encoder.
DrainData(e) ==
    /\ pc[e] = "drain" /\ mIsCapturing[e] /\ ~collected
    /\ formatted[e] /\ output[e] > 0
    /\ output' = Set(output, e, output[e] - 1)
    /\ misused' = (misused \/ (mStatredCount > 0 /\ mediaMuxer # "started"))
    /\ UNCHANGED <<Others, requests, fed, formatted, mStatredCount, mIsStarted,
                   mediaMuxer, collected, thread>>

\* encode(null, 0, ..): a loop over no bytes, around the test for no bytes.
EncodeEos(length) == 0 < length /\ length <= 0
SignalEndOfInputStream(e) ==
    /\ pc[e] = "eos"
    /\ mIsEOS' = Set(mIsEOS, e, mIsEOS[e] \/ (mIsCapturing[e] /\ EncodeEos(0)))
    /\ Goto(e, "drain") /\ draining' = Set(draining, e, "final")
    /\ UNCHANGED <<Others, requests, codec, muxer, mMuxerStarted, missed>>

Release(e) ==
    /\ pc[e] = "release"
    /\ mIsCapturing' = Set(mIsCapturing, e, FALSE)
    /\ Goto(e, IF mMuxerStarted[e] /\ ~collected THEN "stop" ELSE "exit")
    /\ UNCHANGED <<Others, mRequestStop, mRequestDrain, codec, muxer, draining,
                   mMuxerStarted, mIsEOS, missed>>

\* Slip: the last encoder leaves the muxer running.
MuxerStopNever(e) ==
    /\ pc[e] = "stop"
    /\ mStatredCount' = mStatredCount - 1
    /\ Goto(e, "exit")
    /\ UNCHANGED <<Others, requests, codec, draining, mMuxerStarted, mIsEOS,
                   missed, collected, mIsStarted, mediaMuxer, misused>>

\* MediaMuxerWrapper.stop
MuxerStop(e) ==
    /\ pc[e] = "stop"
    /\ mStatredCount' = mStatredCount - 1
    /\ IF mStatredCount - 1 <= 0
       THEN /\ misused' = (misused \/ mediaMuxer # "started")
            /\ mediaMuxer' = "stopped" /\ mIsStarted' = FALSE
       ELSE UNCHANGED <<mIsStarted, mediaMuxer, misused>>
    /\ Goto(e, "exit")
    /\ UNCHANGED <<Others, requests, codec, draining, mMuxerStarted, mIsEOS,
                   missed, collected>>

Exit(e) ==
    /\ pc[e] = "exit"
    /\ mRequestStop' = Set(mRequestStop, e, TRUE)
    /\ mIsCapturing' = Set(mIsCapturing, e, FALSE)
    /\ Goto(e, "ended")
    /\ UNCHANGED <<Others, mRequestDrain, codec, muxer, draining,
                   mMuxerStarted, mIsEOS, missed>>

\* The garbage collector may take the wrapper when the camera thread has let
\* go of it and no encoder holds it on its stack.
Collect ==
    /\ handler \in {"stopped", "failed"} /\ ~collected
    /\ \A e \in Encoders : pc[e] \notin {"drain", "start", "muxerWait", "stop"}
    /\ collected' = TRUE
    /\ UNCHANGED <<Others, requests, codec, thread, mStatredCount, mIsStarted,
                   mediaMuxer, misused>>

-----------------------------------------------------------------------------
HandlerStep == \E e \in Encoders : Prepare(e) \/ StartRecording(e) \/ StopRecording(e)
EncoderStep(e) ==
    \/ Check(e) \/ Wait(e) \/ DrainDone(e) \/ DrainFormat(e) \/ MuxerStart(e)
    \/ MuxerReady(e) \/ DrainData(e) \/ SignalEndOfInputStream(e) \/ Release(e)
    \/ MuxerStop(e) \/ Exit(e)

Next == HandlerStep \/ HandleStopRecording \/ Collect
          \/ \E e \in Encoders : Input(e) \/ EncoderStep(e)

Spec == Init /\ [][Next]_vars

\* The threads run; nobody promises a frame, or that the user stops.
FairSpec == Spec /\ WF_vars(HandlerStep) /\ \A e \in Encoders : WF_vars(EncoderStep(e))

-----------------------------------------------------------------------------
(***************************************************************************)
(* Properties.                                                             *)
(***************************************************************************)
TypeOK ==
    /\ handler \in {"prepare", "start", "recording", "stop", "stopped", "failed"}
    /\ todo \subseteq Encoders
    /\ mIsCapturing \in [Encoders -> BOOLEAN] /\ mRequestStop \in [Encoders -> BOOLEAN]
    /\ mMuxerStarted \in [Encoders -> BOOLEAN] /\ mIsEOS \in [Encoders -> BOOLEAN]
    /\ fed \in [Encoders -> BOOLEAN] /\ formatted \in [Encoders -> BOOLEAN]
    /\ mRequestDrain \in [Encoders -> 0 .. MaxInput]
    /\ output \in [Encoders -> 0 .. MaxInput]
    /\ pc \in [Encoders -> ThreadPc]
    /\ draining \in [Encoders -> {"loop", "last", "final"}]
    /\ mStatredCount \in 0 .. Cardinality(Encoders)
    /\ mIsStarted \in BOOLEAN /\ misused \in BOOLEAN
    /\ collected \in BOOLEAN
    /\ mediaMuxer \in {"initialized", "started", "stopped"}
    /\ missed \subseteq Encoders

\* MediaMuxer takes tracks before it starts, samples between start and stop,
\* and one start and one stop: the wrapper's counting keeps two encoders that
\* come and go at different times from calling it out of turn.
NeverMisused == ~misused

\* A file that was begun is finished: when every encoder has ended the muxer
\* does not run any more, unless the wrapper was collected before the last of
\* them came to stop it; and it is not stopped while one may still write.
FileFinished ==
    /\ (\A e \in Encoders : pc[e] = "ended") => mediaMuxer # "started" \/ collected
    /\ mediaMuxer = "stopped" => \A e \in Encoders : pc[e] \in {"exit", "ended"}

\* Once the recording is stopped the encoders end, except when one checked
\* mRequestStop before the stop and went to sleep after it, or waits for a
\* muxer that the other encoder, stopped before it had a format, never starts.
EncodersEnd ==
    handler = "stopped"
      ~> \/ \A e \in Encoders : pc[e] = "ended"
         \/ missed # {}
         \/ ~mIsStarted /\ \E e \in Encoders : pc[e] = "muxerWait"
=============================================================================
