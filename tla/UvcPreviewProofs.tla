-------------------------- MODULE UvcPreviewProofs --------------------------
(***************************************************************************)
(* Proofs about UvcPreview, for every number of capture threads, previews  *)
(* and calls, and every MAX_FRAME.                                         *)
(***************************************************************************)
EXTENDS UvcPreview, FiniteSetTheorems, TLAPS

USE PreviewAssumption
USE DEF vars, flags, windows, frames, sync, workers, clients, stream, rest,
        PreviewLocal, CaptureLocal, FramePoolSz, Callers, CallerPc, PreviewPc,
        CapturePc, Requests, NoCallback

-----------------------------------------------------------------------------
(***************************************************************************)
(* Type correctness.                                                       *)
(***************************************************************************)
\* Every named pointer is one of Pointers.
LEMMA PointerTypes ==
    /\ {CaptureQueu, Copy, Mjpeg, Frame, Converted} \subseteq Pointers
    /\ \A k \in Capturers : {Captured(k), Drawn(k), Callback(k)} \subseteq Pointers
  BY DEF Pointers, Captured, Drawn, Callback

\* Every action keeps the types.
LEMMA TypeStep == TypeOK /\ Next => TypeOK'
<1> SUFFICES ASSUME TypeOK, Next PROVE TypeOK'
  OBVIOUS
<1> USE DEF TypeOK
<1>1. CASE SetPreviewDisplay
  BY <1>1 DEF FlagsOK, ArraysOK, SyncOK, ThreadsOK, Pointers, SetPreviewDisplay
<1>2. CASE StartPreview
  BY <1>2 DEF FlagsOK, ArraysOK, SyncOK, ThreadsOK, Pointers, StartPreview,
       Goto
<1>3. CASE CreatePreviewThread
  <2>1. FlagsOK' /\ ArraysOK' /\ SyncOK'
    BY <1>3 DEF FlagsOK, ArraysOK, SyncOK, CreatePreviewThread, SignalPreview
  <2>3. ThreadsOK'
    BY <1>3 DEF ThreadsOK, CreatePreviewThread, Goto
  <2> QED
    BY <2>1, <2>3
<1>4. CASE StopPreview
  <2>1. FlagsOK'
    BY <1>4 DEF FlagsOK, StopPreview, Goto
  <2>2. ArraysOK'
    BY <1>4 DEF ArraysOK, Pointers, StopPreview, Goto
  <2>3. SyncOK'
    BY <1>4 DEF SyncOK, StopPreview, Goto
  <2>4. ThreadsOK'
    BY <1>4 DEF ThreadsOK, StopPreview, Goto
  <2> QED
    BY <2>1, <2>2, <2>3, <2>4
<1>5. CASE StopSignalPreview
  BY <1>5 DEF FlagsOK, ArraysOK, SyncOK, ThreadsOK, Pointers,
       StopSignalPreview, SignalPreview, Goto
<1>6. CASE StopSignalCapture
  BY <1>6 DEF FlagsOK, ArraysOK, SyncOK, ThreadsOK, Pointers,
       StopSignalCapture, SignalCapture, Goto
<1>7. CASE JoinCapture
  BY <1>7 DEF FlagsOK, ArraysOK, SyncOK, ThreadsOK, Pointers, JoinCapture, Goto
<1>8. CASE JoinPreview
  BY <1>8 DEF FlagsOK, ArraysOK, SyncOK, ThreadsOK, Pointers, JoinPreview, Goto
<1>9. CASE StopClearPreview
  BY <1>9 DEF FlagsOK, ArraysOK, SyncOK, ThreadsOK, Pointers,
       StopClearPreview, ClearPreviewFrame, RecycleFrames, Min2, Goto
<1>10. CASE StopClearCapture
  BY <1>10 DEF FlagsOK, ArraysOK, SyncOK, ThreadsOK, Pointers,
       StopClearCapture, ClearCaptureFrame, Recycle, RecycleFrames, Min2, Goto
<1>11. CASE ReleaseWindows
  <2>1. FlagsOK'
    BY <1>11 DEF FlagsOK, ReleaseWindows, Goto
  <2>2. ArraysOK'
    BY <1>11 DEF ArraysOK, Pointers, ReleaseWindows, Goto
  <2>3. SyncOK'
    BY <1>11 DEF SyncOK, ReleaseWindows, Goto
  <2>4. ThreadsOK'
    BY <1>11 DEF ThreadsOK, ReleaseWindows, Goto
  <2> QED
    BY <2>1, <2>2, <2>3, <2>4
<1>12. ASSUME NEW c \in Callers, Call(c) PROVE TypeOK'
  BY <1>12 DEF FlagsOK, ArraysOK, SyncOK, ThreadsOK, Pointers, Call, Goto
<1>13. ASSUME NEW c \in Callers, Replace(c) PROVE TypeOK'
  <2>1. want[c].set \in BOOLEAN
    BY DEF ThreadsOK
  <2>2. Assign(c) => mCaptureWindow' \in BOOLEAN /\ mFrameCallbackObj' \in BOOLEAN
    BY <2>1, Zenon DEF Assign, FlagsOK
  <2>3. Assign(c) => caller' \in [Callers -> CallerPc] /\ want' \in [Callers -> Requests]
    BY DEF Assign, Goto, AfterReplace, ThreadsOK
  <2>4. CASE Assign(c) /\ mIsCapturing' = (mIsCapturing /\ ~mIsRunning)
    <3>1. FlagsOK'
      BY <2>2, <2>4 DEF FlagsOK, Assign
    <3>2. ArraysOK' /\ SyncOK'
      BY <2>4 DEF ArraysOK, SyncOK, Assign
    <3>3. ThreadsOK'
      BY <2>3, <2>4 DEF ThreadsOK, Assign
    <3> QED
      BY <3>1, <3>2, <3>3
  <2>5. CASE ~Assign(c)
    <3>1. /\ mIsCapturing' = FALSE /\ captureLock' = c /\ Goto(c, "handshake")
          /\ UNCHANGED <<mIsRunning, windows, frames, previewSync, captureSync,
                         late, workers, want, starts, calls, capture_thread,
                         streaming, frameMode>>
      BY <1>13, <2>5 DEF Replace
    <3>2. FlagsOK' /\ ArraysOK' /\ SyncOK'
      BY <3>1 DEF FlagsOK, ArraysOK, SyncOK
    <3>3. ThreadsOK'
      BY <3>1 DEF ThreadsOK, Goto
    <3> QED
      BY <3>2, <3>3
  <2> QED
    BY <1>13, <2>4, <2>5 DEF Replace
<1>14. ASSUME NEW c \in Callers, Handshake(c) PROVE TypeOK'
  BY <1>14 DEF FlagsOK, ArraysOK, SyncOK, ThreadsOK, Pointers, Handshake, Goto
<1>15. ASSUME NEW c \in Callers, Replaced(c) PROVE TypeOK'
  <2>1. want[c].set \in BOOLEAN
    BY DEF ThreadsOK
  <2>2. Assign(c) => mCaptureWindow' \in BOOLEAN /\ mFrameCallbackObj' \in BOOLEAN
    BY <2>1, Zenon DEF Assign, FlagsOK
  <2>3. Assign(c) => caller' \in [Callers -> CallerPc] /\ want' \in [Callers -> Requests]
    BY DEF Assign, Goto, AfterReplace, ThreadsOK
  <2>4. FlagsOK'
    BY <1>15, <2>2 DEF FlagsOK, Replaced, Assign
  <2>5. ArraysOK' /\ SyncOK'
    BY <1>15 DEF ArraysOK, SyncOK, Replaced, Assign
  <2>6. ThreadsOK'
    BY <1>15, <2>3 DEF ThreadsOK, Replaced, Assign
  <2> QED
    BY <2>4, <2>5, <2>6
<1>16. CASE FrameCallback
  BY <1>16 DEF FlagsOK, ArraysOK, SyncOK, ThreadsOK, Pointers, FrameCallback,
       Take, GetFrame, UvcOnly
<1>17. CASE AddPreviewFrame
  <2>1. FlagsOK'
    BY <1>17 DEF FlagsOK, AddPreviewFrame, SignalPreview, UvcOnly
  <2>2. ArraysOK'
    BY <1>17 DEF ArraysOK, Pointers, AddPreviewFrame, SignalPreview, UvcOnly
  <2>3. SyncOK'
    BY <1>17 DEF SyncOK, AddPreviewFrame, SignalPreview, UvcOnly
  <2>4. ThreadsOK'
    BY <1>17 DEF ThreadsOK, AddPreviewFrame, SignalPreview, UvcOnly
  <2> QED
    BY <2>1, <2>2, <2>3, <2>4
<1>18. CASE DropCopy
  BY <1>18 DEF FlagsOK, ArraysOK, SyncOK, ThreadsOK, Pointers, DropCopy,
       Recycle, RecycleFrames, Min2, UvcOnly
<1>19. CASE StartStreaming
  <2>1. FlagsOK'
    BY <1>19 DEF FlagsOK, StartStreaming, PreviewOnly
  <2>2. ArraysOK'
    BY <1>19 DEF ArraysOK, Pointers, StartStreaming, PreviewOnly
  <2>3. SyncOK'
    BY <1>19 DEF SyncOK, StartStreaming, PreviewOnly
  <2>4. ThreadsOK'
    BY <1>19 DEF ThreadsOK, StartStreaming, PreviewOnly
  <2> QED
    BY <2>1, <2>2, <2>3, <2>4
<1>20. CASE ClearStale
  BY <1>20 DEF FlagsOK, ArraysOK, SyncOK, ThreadsOK, Pointers, ClearStale,
       ClearPreviewFrame, RecycleFrames, Min2, PreviewOnly
<1>21. CASE CreateCaptureThread
  BY <1>21 DEF FlagsOK, ArraysOK, SyncOK, ThreadsOK, Pointers,
       CreateCaptureThread, PreviewOnly
<1>22. CASE PreviewLoop
  BY <1>22 DEF FlagsOK, ArraysOK, SyncOK, ThreadsOK, Pointers, PreviewLoop,
       PreviewOnly
<1>23. CASE WaitPreviewFrame
  <2>1. FlagsOK'
    BY <1>23 DEF FlagsOK, WaitPreviewFrame, PreviewOnly
  <2>2. ArraysOK'
    BY <1>23 DEF ArraysOK, Pointers, WaitPreviewFrame, PreviewOnly
  <2>3. SyncOK'
    BY <1>23 DEF SyncOK, WaitPreviewFrame, PreviewOnly
  <2>4. ThreadsOK'
    BY <1>23 DEF ThreadsOK, WaitPreviewFrame, PreviewOnly
  <2> QED
    BY <2>1, <2>2, <2>3, <2>4
<1>24. CASE Decode
  BY <1>24 DEF FlagsOK, ArraysOK, SyncOK, ThreadsOK, Pointers, Decode, Take,
       GetFrame, PreviewOnly
<1>25. CASE Decoded
  BY <1>25 DEF FlagsOK, ArraysOK, SyncOK, ThreadsOK, Pointers, Decoded,
       Recycle, RecycleFrames, Min2, PreviewOnly
<1>26. CASE DropBroken
  BY <1>26 DEF FlagsOK, ArraysOK, SyncOK, ThreadsOK, Pointers, DropBroken,
       Recycle, RecycleFrames, Min2, PreviewOnly
<1>27. CASE Draw
  BY <1>27 DEF FlagsOK, ArraysOK, SyncOK, ThreadsOK, Pointers, Draw, Take,
       GetFrame, PreviewOnly
<1>28. CASE DrawDone
  BY <1>28 DEF FlagsOK, ArraysOK, SyncOK, ThreadsOK, Pointers, DrawDone,
       Recycle, RecycleFrames, Min2, PreviewOnly
<1>29. CASE AddCaptureFrame
  BY <1>29 DEF FlagsOK, ArraysOK, SyncOK, ThreadsOK, Pointers,
       AddCaptureFrame, BroadcastCapture, RecycleFrames, Min2, PreviewOnly
<1>30. CASE PreviewSignal
  BY <1>30 DEF FlagsOK, ArraysOK, SyncOK, ThreadsOK, Pointers, PreviewSignal,
       SignalCapture, PreviewOnly
<1>31. CASE StopStreaming
  <2>1. FlagsOK'
    BY <1>31 DEF FlagsOK, StopStreaming, PreviewOnly
  <2>2. ArraysOK'
    BY <1>31 DEF ArraysOK, Pointers, StopStreaming, PreviewOnly
  <2>3. SyncOK'
    BY <1>31 DEF SyncOK, StopStreaming, PreviewOnly
  <2>4. ThreadsOK'
    BY <1>31 DEF ThreadsOK, StopStreaming, PreviewOnly
  <2> QED
    BY <2>1, <2>2, <2>3, <2>4
<1>32. ASSUME NEW k \in Capturers, CaptureStart(k) PROVE TypeOK'
  BY <1>32 DEF FlagsOK, ArraysOK, SyncOK, ThreadsOK, Pointers, CaptureStart,
       ClearCaptureFrame, Recycle, RecycleFrames, Min2, CaptureOnly,
       CaptureGoto
<1>33. ASSUME NEW k \in Capturers, CaptureLoop(k) PROVE TypeOK'
  BY <1>33 DEF FlagsOK, ArraysOK, SyncOK, ThreadsOK, Pointers, CaptureLoop,
       CaptureOnly, CaptureGoto
<1>34. ASSUME NEW k \in Capturers, CaptureBegin(k) PROVE TypeOK'
  BY <1>34 DEF FlagsOK, ArraysOK, SyncOK, ThreadsOK, Pointers, CaptureBegin,
       CaptureOnly, CaptureGoto
<1>35. ASSUME NEW k \in Capturers, CapturePoll(k) PROVE TypeOK'
  BY <1>35 DEF FlagsOK, ArraysOK, SyncOK, ThreadsOK, Pointers, CapturePoll,
       CaptureOnly, CaptureGoto
<1>36. ASSUME NEW k \in Capturers, WaitCaptureFrame(k) PROVE TypeOK'
  <2>1. FlagsOK'
    BY <1>36 DEF FlagsOK, WaitCaptureFrame, CaptureOnly, CaptureGoto
  <2>2. ArraysOK'
    BY PointerTypes, <1>36 DEF ArraysOK, WaitCaptureFrame, CaptureOnly,
         CaptureGoto
  <2>3. SyncOK'
    BY <1>36 DEF SyncOK, WaitCaptureFrame, CaptureOnly, CaptureGoto
  <2>4. ThreadsOK'
    BY <1>36 DEF ThreadsOK, WaitCaptureFrame, CaptureOnly, CaptureGoto
  <2> QED
    BY <2>1, <2>2, <2>3, <2>4
<1>37. ASSUME NEW k \in Capturers, CaptureDraw(k) PROVE TypeOK'
  <2>1. FlagsOK'
    BY <1>37 DEF FlagsOK, CaptureDraw, Take, GetFrame, CaptureOnly, CaptureGoto
  <2>2. ArraysOK'
    BY PointerTypes, <1>37 DEF ArraysOK, CaptureDraw, Take, GetFrame,
         CaptureOnly, CaptureGoto
  <2>3. SyncOK'
    BY <1>37 DEF SyncOK, CaptureDraw, Take, GetFrame, CaptureOnly, CaptureGoto
  <2>4. ThreadsOK'
    BY <1>37 DEF ThreadsOK, CaptureDraw, Take, GetFrame, CaptureOnly,
         CaptureGoto
  <2> QED
    BY <2>1, <2>2, <2>3, <2>4
<1>38. ASSUME NEW k \in Capturers, CaptureOffer(k) PROVE TypeOK'
  <2>1. FlagsOK'
    BY <1>38 DEF FlagsOK, CaptureOffer, Take, GetFrame, CaptureOnly,
         CaptureGoto
  <2>2. ArraysOK'
    BY PointerTypes, <1>38 DEF ArraysOK, CaptureOffer, Take, GetFrame,
         CaptureOnly, CaptureGoto
  <2>3. SyncOK'
    BY <1>38 DEF SyncOK, CaptureOffer, Take, GetFrame, CaptureOnly, CaptureGoto
  <2>4. ThreadsOK'
    BY <1>38 DEF ThreadsOK, CaptureOffer, Take, GetFrame, CaptureOnly,
         CaptureGoto
  <2> QED
    BY <2>1, <2>2, <2>3, <2>4
<1>39. ASSUME NEW k \in Capturers, CaptureConvert(k) PROVE TypeOK'
  BY <1>39 DEF FlagsOK, ArraysOK, SyncOK, ThreadsOK, Pointers, CaptureConvert,
       Recycle, RecycleFrames, Min2, CaptureOnly, CaptureGoto
<1>40. ASSUME NEW k \in Capturers, CaptureInvoke(k) PROVE TypeOK'
  BY <1>40 DEF FlagsOK, ArraysOK, SyncOK, ThreadsOK, Pointers, CaptureInvoke,
       CaptureOnly, CaptureGoto
<1>41. ASSUME NEW k \in Capturers, CaptureRecycle(k) PROVE TypeOK'
  BY <1>41 DEF FlagsOK, ArraysOK, SyncOK, ThreadsOK, Pointers, CaptureRecycle,
       Recycle, RecycleFrames, Min2, CaptureOnly, CaptureGoto
<1>42. ASSUME NEW k \in Capturers, CaptureEnd(k) PROVE TypeOK'
  <2>1. FlagsOK'
    BY <1>42 DEF FlagsOK, CaptureEnd, Recycle, RecycleFrames, Min2,
         CaptureOnly, CaptureGoto
  <2>2. ArraysOK'
    BY <1>42 DEF ArraysOK, Pointers, CaptureEnd, Recycle, RecycleFrames, Min2,
         CaptureOnly, CaptureGoto
  <2>3. SyncOK'
    BY <1>42 DEF SyncOK, CaptureEnd, Recycle, RecycleFrames, Min2,
         CaptureOnly, CaptureGoto
  <2>4. ThreadsOK'
    BY <1>42 DEF ThreadsOK, CaptureEnd, Recycle, RecycleFrames, Min2,
         CaptureOnly, CaptureGoto
  <2> QED
    BY <2>1, <2>2, <2>3, <2>4
<1>43. ASSUME NEW k \in Capturers, CaptureBroadcast(k) PROVE TypeOK'
  BY <1>43 DEF FlagsOK, ArraysOK, SyncOK, ThreadsOK, Pointers,
       CaptureBroadcast, BroadcastCapture, CaptureOnly, CaptureGoto
<1>44. CASE SpuriousWakeup
  <2>1. FlagsOK'
    BY <1>44 DEF FlagsOK, SpuriousWakeup, SignalPreview, SignalCapture
  <2>2. ArraysOK'
    BY <1>44 DEF ArraysOK, Pointers, SpuriousWakeup, SignalPreview,
         SignalCapture
  <2>3. SyncOK'
    BY <1>44 DEF SyncOK, SpuriousWakeup, SignalPreview, SignalCapture
  <2>4. ThreadsOK'
    BY <1>44 DEF ThreadsOK, SpuriousWakeup, SignalPreview, SignalCapture
  <2> QED
    BY <2>1, <2>2, <2>3, <2>4
<1> QED
  BY <1>1, <1>2, <1>3, <1>4, <1>5, <1>6, <1>7, <1>8, <1>9, <1>10, <1>11,
     <1>12, <1>13, <1>14, <1>15, <1>16, <1>17, <1>18, <1>19, <1>20, <1>21,
     <1>22, <1>23, <1>24, <1>25, <1>26, <1>27, <1>28, <1>29, <1>30, <1>31,
     <1>32, <1>33, <1>34, <1>35, <1>36, <1>37, <1>38, <1>39, <1>40, <1>41,
     <1>42, <1>43, <1>44
     DEF Next, ClientStep, ReplaceStep, UvcStep, PreviewStep, CaptureStep

THEOREM TypeCorrect == Spec => []TypeOK
<1>1. Init => TypeOK
  <2> SUFFICES ASSUME Init PROVE TypeOK
    OBVIOUS
  <2>1. FlagsOK
    BY DEF Init, FlagsOK
  <2>2. ArraysOK
    BY DEF Init, ArraysOK
  <2>3. SyncOK
    BY DEF Init, SyncOK
  <2>4. ThreadsOK
    BY DEF Init, ThreadsOK
  <2> QED
    BY <2>1, <2>2, <2>3, <2>4 DEF TypeOK
<1>2. TypeOK /\ UNCHANGED vars => TypeOK'
  BY DEF TypeOK, FlagsOK, ArraysOK, SyncOK, ThreadsOK
<1> QED
  BY <1>1, <1>2, TypeStep, PTL DEF Spec

-----------------------------------------------------------------------------
(***************************************************************************)
(* Accounting: what the pool operations do to the number of lost buffers.  *)
(***************************************************************************)
\* The named pointers are all different.
LEMMA PointersDistinct ==
    /\ CaptureQueu # Copy /\ CaptureQueu # Mjpeg /\ CaptureQueu # Frame
    /\ CaptureQueu # Converted /\ Copy # Mjpeg /\ Copy # Frame
    /\ Copy # Converted /\ Mjpeg # Frame /\ Mjpeg # Converted
    /\ Frame # Converted
    /\ \A k \in Capturers :
          /\ {Captured(k), Drawn(k), Callback(k)}
               \cap {CaptureQueu, Copy, Mjpeg, Frame, Converted} = {}
          /\ \A j \in Capturers :
                /\ Captured(k) # Drawn(j) /\ Captured(k) # Callback(j)
                /\ Drawn(k) # Callback(j)
                /\ k # j => /\ Captured(k) # Captured(j)
                            /\ Drawn(k) # Drawn(j)
                            /\ Callback(k) # Callback(j)
  BY DEF CaptureQueu, Copy, Mjpeg, Frame, Converted, Captured, Drawn, Callback

\* Only finitely many pointers own a frame.
LEMMA HeldFinite ==
    ASSUME ArraysOK
    PROVE  IsFiniteSet(held) /\ Cardinality(held) \in Nat
<1>1. IsFiniteSet({"captured", "drawn", "callback"})
  <2>1. IsFiniteSet({"captured"})
    BY FS_Singleton
  <2>2. IsFiniteSet({"captured"} \cup {"drawn"})
    BY <2>1, FS_AddElement
  <2>3. IsFiniteSet(({"captured"} \cup {"drawn"}) \cup {"callback"})
    BY <2>2, FS_AddElement
  <2>4. ({"captured"} \cup {"drawn"}) \cup {"callback"}
          = {"captured", "drawn", "callback"}
    OBVIOUS
  <2> QED
    BY <2>3, <2>4
<1>2. IsFiniteSet(Capturers \X {"captured", "drawn", "callback"})
  BY <1>1, FS_Product
<1>3. IsFiniteSet({CaptureQueu, Copy, Mjpeg, Frame, Converted})
  <2>1. IsFiniteSet({CaptureQueu} \cup {Copy})
    BY FS_Singleton, FS_AddElement
  <2>2. IsFiniteSet(({CaptureQueu} \cup {Copy}) \cup {Mjpeg})
    BY <2>1, FS_AddElement
  <2>3. IsFiniteSet((({CaptureQueu} \cup {Copy}) \cup {Mjpeg}) \cup {Frame})
    BY <2>2, FS_AddElement
  <2>4. IsFiniteSet(((({CaptureQueu} \cup {Copy}) \cup {Mjpeg}) \cup {Frame})
                      \cup {Converted})
    BY <2>3, FS_AddElement
  <2>5. ((({CaptureQueu} \cup {Copy}) \cup {Mjpeg}) \cup {Frame}) \cup {Converted}
          = {CaptureQueu, Copy, Mjpeg, Frame, Converted}
    OBVIOUS
  <2> QED
    BY <2>4, <2>5
<1>4. IsFiniteSet(Pointers)
  BY <1>2, <1>3, FS_Union DEF Pointers
<1>5. IsFiniteSet(held)
  BY <1>4, FS_Subset DEF ArraysOK
<1> QED
  BY <1>5, FS_CardinalityType

\* Lost is a number.
LEMMA LostType == ASSUME ArraysOK PROVE Lost \in Int
  BY HeldFinite DEF Lost, ArraysOK

\* get_frame into a pointer that owns nothing loses no buffer.
LEMMA TakeKeeps ==
    ASSUME ArraysOK, NEW p \in Pointers, p \notin held, Take(p),
           UNCHANGED previewFrames
    PROVE  Lost' = Lost
<1>1. Cardinality(held \cup {p}) = Cardinality(held) + 1
  BY HeldFinite, FS_AddElement
<1> QED
  BY <1>1, HeldFinite DEF Lost, ArraysOK, Take, GetFrame

\* recycle_frame of a pointer that owns a frame loses no buffer.
LEMMA RecycleKeeps ==
    ASSUME ArraysOK, NEW p \in held, Recycle(p), UNCHANGED previewFrames
    PROVE  Lost' = Lost
<1>1. Cardinality(held \ {p}) = Cardinality(held) - 1
  BY HeldFinite, FS_RemoveElement
<1>2. live' - mFramePool' = live - (mFramePool + 1)
  BY DEF ArraysOK, Recycle, RecycleFrames, Min2
<1> QED
  BY <1>1, <1>2, HeldFinite DEF Lost, ArraysOK, Recycle, RecycleFrames, Min2

\* clearPreviewFrame loses no buffer.
LEMMA ClearPreviewKeeps ==
    ASSUME ArraysOK, ClearPreviewFrame
    PROVE  Lost' = Lost
<1>1. held' = held /\ previewFrames' = 0
  BY DEF ClearPreviewFrame
<1>2. /\ mFramePool \in Nat /\ previewFrames \in Nat /\ live \in Int
      /\ FramePoolSz \in Nat
  BY DEF ArraysOK
<1>3. CASE mFramePool + previewFrames < FramePoolSz
  <2>1. mFramePool' = mFramePool + previewFrames /\ live' = live
    BY <1>2, <1>3 DEF ClearPreviewFrame, RecycleFrames, Min2
  <2> QED
    BY <1>1, <1>2, <2>1, HeldFinite DEF Lost
<1>4. CASE ~(mFramePool + previewFrames < FramePoolSz)
  <2>1. /\ mFramePool' = FramePoolSz
        /\ live' = live - (mFramePool + previewFrames - FramePoolSz)
    BY <1>4 DEF ClearPreviewFrame, RecycleFrames, Min2
  <2> QED
    BY <1>1, <1>2, <2>1, HeldFinite DEF Lost
<1> QED
  BY <1>3, <1>4

\* clearCaptureFrame loses no buffer.
LEMMA ClearCaptureKeeps ==
    ASSUME ArraysOK, ClearCaptureFrame
    PROVE  Lost' = Lost
<1>1. CASE CaptureQueu \in held
  BY <1>1, RecycleKeeps DEF ClearCaptureFrame
<1>2. CASE CaptureQueu \notin held
  BY <1>2 DEF ClearCaptureFrame, Lost
<1> QED
  BY <1>1, <1>2

\* Passing a frame from one pointer to another loses no buffer.
LEMMA MoveKeeps ==
    ASSUME ArraysOK, NEW p \in held, NEW q, q \notin held,
           held' = (held \ {p}) \cup {q},
           UNCHANGED <<mFramePool, previewFrames, live>>
    PROVE  Lost' = Lost
<1>1. IsFiniteSet(held \ {p}) /\ Cardinality(held \ {p}) = Cardinality(held) - 1
  BY HeldFinite, FS_RemoveElement
<1>2. q \notin held \ {p}
  OBVIOUS
<1>3. Cardinality((held \ {p}) \cup {q}) = Cardinality(held \ {p}) + 1
  BY <1>1, <1>2, FS_AddElement
<1>4. Cardinality(held') = Cardinality(held)
  BY <1>1, <1>3, HeldFinite
<1> QED
  BY <1>4 DEF Lost

\* The invariant about pointers: which of them own a frame.
LEMMA HeldStep ==
    ASSUME TypeOK, HeldByPc, Lifecycle, Next
    PROVE  HeldByPc'
<1> USE DEF HeldByPc, TypeOK, ThreadsOK
<1>1. CASE SetPreviewDisplay
  BY PointersDistinct, <1>1 DEF SetPreviewDisplay
<1>2. CASE StartPreview
  BY PointersDistinct, <1>2 DEF StartPreview, Goto
<1>3. CASE CreatePreviewThread
  BY <1>3 DEF Lifecycle, CreatePreviewThread, SignalPreview, Goto
<1>4. CASE StopPreview
  BY PointersDistinct, <1>4 DEF StopPreview, Goto
<1>5. CASE StopSignalPreview
  BY PointersDistinct, <1>5 DEF StopSignalPreview, SignalPreview, Goto
<1>6. CASE StopSignalCapture
  BY PointersDistinct, <1>6 DEF StopSignalCapture, SignalCapture, Goto
<1>7. CASE JoinCapture
  BY PointersDistinct, <1>7 DEF JoinCapture, Goto
<1>8. CASE JoinPreview
  BY PointersDistinct, <1>8 DEF JoinPreview, Goto
<1>9. CASE StopClearPreview
  BY PointersDistinct, <1>9 DEF StopClearPreview, ClearPreviewFrame,
       RecycleFrames, Min2, Goto
<1>10. CASE StopClearCapture
  BY PointersDistinct, <1>10 DEF StopClearCapture, ClearCaptureFrame, Recycle,
       RecycleFrames, Min2, Goto
<1>11. CASE ReleaseWindows
  BY PointersDistinct, <1>11 DEF ReleaseWindows, Goto
<1>12. ASSUME NEW c \in Callers, Call(c) PROVE HeldByPc'
  BY PointersDistinct, <1>12 DEF Call, Goto
<1>13. ASSUME NEW c \in Callers, Replace(c) PROVE HeldByPc'
  BY PointersDistinct, <1>13 DEF Replace, Assign, AfterReplace, Goto
<1>14. ASSUME NEW c \in Callers, Handshake(c) PROVE HeldByPc'
  BY PointersDistinct, <1>14 DEF Handshake, Goto
<1>15. ASSUME NEW c \in Callers, Replaced(c) PROVE HeldByPc'
  BY PointersDistinct, <1>15 DEF Replaced, Assign, AfterReplace, Goto
<1>16. CASE FrameCallback
  BY PointersDistinct, <1>16 DEF FrameCallback, Take, GetFrame, UvcOnly
<1>17. CASE AddPreviewFrame
  BY PointersDistinct, <1>17 DEF AddPreviewFrame, SignalPreview, UvcOnly
<1>18. CASE DropCopy
  BY PointersDistinct, <1>18 DEF DropCopy, Recycle, RecycleFrames, Min2,
       UvcOnly
<1>19. CASE StartStreaming
  BY PointersDistinct, <1>19 DEF StartStreaming, PreviewOnly
<1>20. CASE ClearStale
  BY PointersDistinct, <1>20 DEF ClearStale, ClearPreviewFrame, RecycleFrames,
       Min2, PreviewOnly
<1>21. CASE CreateCaptureThread
  BY PointersDistinct, <1>21 DEF CreateCaptureThread, PreviewOnly
<1>22. CASE PreviewLoop
  BY PointersDistinct, <1>22 DEF PreviewLoop, PreviewOnly
<1>23. CASE WaitPreviewFrame
  <2>1. \/ preview \in {"wait", "waiting"} /\ preview' \in {"waiting", "loop"}
              /\ UNCHANGED <<held, uvc, capture>>
        \/ preview \in {"wait", "waiting"} /\ preview' = "decode"
              /\ held' = held \cup {Mjpeg} /\ UNCHANGED <<uvc, capture>>
        \/ preview \in {"wait", "waiting"} /\ preview' = "draw"
              /\ held' = held \cup {Frame} /\ UNCHANGED <<uvc, capture>>
    BY <1>23 DEF WaitPreviewFrame, PreviewOnly
  <2>2. CASE preview \in {"wait", "waiting"} /\ preview' \in {"waiting", "loop"}
              /\ UNCHANGED <<held, uvc, capture>>
    BY PointersDistinct, <2>2
  <2>3. CASE preview \in {"wait", "waiting"} /\ preview' = "decode"
              /\ held' = held \cup {Mjpeg} /\ UNCHANGED <<uvc, capture>>
    BY PointersDistinct, <2>3
  <2>4. CASE preview \in {"wait", "waiting"} /\ preview' = "draw"
              /\ held' = held \cup {Frame} /\ UNCHANGED <<uvc, capture>>
    BY PointersDistinct, <2>4
  <2> QED
    BY <2>1, <2>2, <2>3, <2>4
<1>24. CASE Decode
  BY PointersDistinct, <1>24 DEF Decode, Take, GetFrame, PreviewOnly
<1>25. CASE Decoded
  BY PointersDistinct, <1>25 DEF Decoded, Recycle, RecycleFrames, Min2,
       PreviewOnly
<1>26. CASE DropBroken
  BY PointersDistinct, <1>26 DEF DropBroken, Recycle, RecycleFrames, Min2,
       PreviewOnly
<1>27. CASE Draw
  <2>1. \/ preview = "draw" /\ preview' = "drawn" /\ held' = held \cup {Converted}
              /\ UNCHANGED <<uvc, capture>>
        \/ preview = "draw" /\ preview' = "add" /\ UNCHANGED <<held, uvc, capture>>
    BY <1>27 DEF Draw, Take, GetFrame, PreviewOnly
  <2>2. CASE preview = "draw" /\ preview' = "drawn" /\ held' = held \cup {Converted}
              /\ UNCHANGED <<uvc, capture>>
    BY PointersDistinct, <2>2
  <2>3. CASE preview = "draw" /\ preview' = "add" /\ UNCHANGED <<held, uvc, capture>>
    BY PointersDistinct, <2>3
  <2> QED
    BY <2>1, <2>2, <2>3
<1>28. CASE DrawDone
  BY PointersDistinct, <1>28 DEF DrawDone, Recycle, RecycleFrames, Min2,
       PreviewOnly
<1>29. CASE AddCaptureFrame
  <2>1. \/ preview = "add" /\ preview' = "loop" /\ UNCHANGED <<uvc, capture>>
              /\ held' = (held \ {Frame}) \cup {CaptureQueu}
        \/ preview = "add" /\ preview' = "loop" /\ UNCHANGED <<uvc, capture>>
              /\ held' = held \ {Frame}
    BY <1>29 DEF AddCaptureFrame, BroadcastCapture, RecycleFrames, Min2,
         PreviewOnly
  <2>2. CASE preview = "add" /\ preview' = "loop" /\ UNCHANGED <<uvc, capture>>
              /\ held' = (held \ {Frame}) \cup {CaptureQueu}
    BY PointersDistinct, <2>2
  <2>3. CASE preview = "add" /\ preview' = "loop" /\ UNCHANGED <<uvc, capture>>
              /\ held' = held \ {Frame}
    BY PointersDistinct, <2>3
  <2> QED
    BY <2>1, <2>2, <2>3
<1>30. CASE PreviewSignal
  BY PointersDistinct, <1>30 DEF PreviewSignal, SignalCapture, PreviewOnly
<1>31. CASE StopStreaming
  BY PointersDistinct, <1>31 DEF StopStreaming, PreviewOnly
<1>32. ASSUME NEW k \in Capturers, CaptureStart(k) PROVE HeldByPc'
  BY PointersDistinct, <1>32 DEF CaptureStart, ClearCaptureFrame, Recycle,
       RecycleFrames, Min2, CaptureOnly, CaptureGoto
<1>33. ASSUME NEW k \in Capturers, CaptureLoop(k) PROVE HeldByPc'
  BY PointersDistinct, <1>33 DEF CaptureLoop, CaptureOnly, CaptureGoto
<1>34. ASSUME NEW k \in Capturers, CaptureBegin(k) PROVE HeldByPc'
  BY PointersDistinct, <1>34 DEF CaptureBegin, CaptureOnly, CaptureGoto
<1>35. ASSUME NEW k \in Capturers, CapturePoll(k) PROVE HeldByPc'
  BY PointersDistinct, <1>35 DEF CapturePoll, CaptureOnly, CaptureGoto
<1>36. ASSUME NEW k \in Capturers, WaitCaptureFrame(k) PROVE HeldByPc'
  <2>1. \/ capture[k] \in {"wait", "waiting"} /\ UNCHANGED <<preview, uvc, held>>
              /\ capture' \in {[capture EXCEPT ![k] = "waiting"],
                              [capture EXCEPT ![k] = "poll"]}
        \/ capture[k] \in {"wait", "waiting"} /\ UNCHANGED <<preview, uvc>>
              /\ held' = (held \ {CaptureQueu}) \cup {Captured(k)}
              /\ capture' \in {[capture EXCEPT ![k] = "drawing"],
                              [capture EXCEPT ![k] = "offer"]}
    BY <1>36 DEF WaitCaptureFrame, CaptureOnly, CaptureGoto
  <2>2. CASE capture[k] \in {"wait", "waiting"} /\ UNCHANGED <<preview, uvc, held>>
              /\ capture' \in {[capture EXCEPT ![k] = "waiting"],
                              [capture EXCEPT ![k] = "poll"]}
    BY PointersDistinct, <2>2
  <2>3. CASE capture[k] \in {"wait", "waiting"} /\ UNCHANGED <<preview, uvc>>
              /\ held' = (held \ {CaptureQueu}) \cup {Captured(k)}
              /\ capture' \in {[capture EXCEPT ![k] = "drawing"],
                              [capture EXCEPT ![k] = "offer"]}
    BY PointersDistinct, <2>3
  <2> QED
    BY <2>1, <2>2, <2>3
<1>37. ASSUME NEW k \in Capturers, CaptureDraw(k) PROVE HeldByPc'
  <2>1. \/ capture[k] = "drawing" /\ UNCHANGED <<preview, uvc>>
              /\ capture' = [capture EXCEPT ![k] = "offer"]
              /\ held' \in {held, held \cup {Drawn(k)}}
    BY <1>37 DEF CaptureDraw, Take, GetFrame, CaptureOnly, CaptureGoto
  <2>2. CASE capture[k] = "drawing" /\ UNCHANGED <<preview, uvc>>
              /\ capture' = [capture EXCEPT ![k] = "offer"]
              /\ held' \in {held, held \cup {Drawn(k)}}
    BY PointersDistinct, <2>2
  <2> QED
    BY <2>1, <2>2
<1>38. ASSUME NEW k \in Capturers, CaptureOffer(k) PROVE HeldByPc'
  <2>1. \/ capture[k] = "offer" /\ UNCHANGED <<preview, uvc>>
              /\ capture' = [capture EXCEPT ![k] = "convert"]
              /\ held' = held \cup {Callback(k)}
        \/ capture[k] = "offer" /\ UNCHANGED <<preview, uvc, held>>
              /\ capture' \in {[capture EXCEPT ![k] = "invoke"],
                              [capture EXCEPT ![k] = "recycle"]}
    BY <1>38 DEF CaptureOffer, Take, GetFrame, CaptureOnly, CaptureGoto
  <2>2. CASE capture[k] = "offer" /\ UNCHANGED <<preview, uvc>>
              /\ capture' = [capture EXCEPT ![k] = "convert"]
              /\ held' = held \cup {Callback(k)}
    BY PointersDistinct, <2>2
  <2>3. CASE capture[k] = "offer" /\ UNCHANGED <<preview, uvc, held>>
              /\ capture' \in {[capture EXCEPT ![k] = "invoke"],
                              [capture EXCEPT ![k] = "recycle"]}
    BY PointersDistinct, <2>3
  <2> QED
    BY <2>1, <2>2, <2>3
<1>39. ASSUME NEW k \in Capturers, CaptureConvert(k) PROVE HeldByPc'
  BY PointersDistinct, <1>39 DEF CaptureConvert, Recycle, RecycleFrames, Min2,
       CaptureOnly, CaptureGoto
<1>40. ASSUME NEW k \in Capturers, CaptureInvoke(k) PROVE HeldByPc'
  BY PointersDistinct, <1>40 DEF CaptureInvoke, CaptureOnly, CaptureGoto
<1>41. ASSUME NEW k \in Capturers, CaptureRecycle(k) PROVE HeldByPc'
  BY PointersDistinct, <1>41 DEF CaptureRecycle, Recycle, RecycleFrames, Min2,
       CaptureOnly, CaptureGoto
<1>42. ASSUME NEW k \in Capturers, CaptureEnd(k) PROVE HeldByPc'
  <2>1. \/ capture[k] = "end" /\ UNCHANGED <<preview, uvc>>
              /\ capture' = [capture EXCEPT ![k] = "broadcast"]
              /\ held' \in {held, held \ {Drawn(k)}}
    BY <1>42 DEF CaptureEnd, Recycle, RecycleFrames, Min2, CaptureOnly,
         CaptureGoto
  <2>2. CASE capture[k] = "end" /\ UNCHANGED <<preview, uvc>>
              /\ capture' = [capture EXCEPT ![k] = "broadcast"]
              /\ held' \in {held, held \ {Drawn(k)}}
    BY PointersDistinct, <2>2
  <2> QED
    BY <2>1, <2>2
<1>43. ASSUME NEW k \in Capturers, CaptureBroadcast(k) PROVE HeldByPc'
  BY PointersDistinct, <1>43 DEF CaptureBroadcast, BroadcastCapture,
       CaptureOnly, CaptureGoto
<1>44. CASE SpuriousWakeup
  BY PointersDistinct, <1>44 DEF SpuriousWakeup, SignalPreview, SignalCapture
<1> QED
  BY <1>1, <1>2, <1>3, <1>4, <1>5, <1>6, <1>7, <1>8, <1>9, <1>10, <1>11,
     <1>12, <1>13, <1>14, <1>15, <1>16, <1>17, <1>18, <1>19, <1>20, <1>21,
     <1>22, <1>23, <1>24, <1>25, <1>26, <1>27, <1>28, <1>29, <1>30, <1>31,
     <1>32, <1>33, <1>34, <1>35, <1>36, <1>37, <1>38, <1>39, <1>40, <1>41,
     <1>42, <1>43, <1>44
     DEF Next, ClientStep, ReplaceStep, UvcStep, PreviewStep, CaptureStep

\* The invariant about the client and the preview thread.
LEMMA LifecycleStep ==
    ASSUME TypeOK, Lifecycle, Next
    PROVE  Lifecycle'
<1> USE DEF Lifecycle, Calm, TypeOK, ThreadsOK
<1>1. CASE SetPreviewDisplay
  BY <1>1 DEF SetPreviewDisplay
<1>2. CASE StartPreview
  BY <1>2 DEF StartPreview, Goto
<1>3. CASE CreatePreviewThread
  BY <1>3 DEF CreatePreviewThread, SignalPreview, Goto
<1>4. CASE StopPreview
  BY <1>4 DEF StopPreview, Goto
<1>5. CASE StopSignalPreview
  BY <1>5 DEF StopSignalPreview, SignalPreview, Goto
<1>6. CASE StopSignalCapture
  BY <1>6 DEF StopSignalCapture, SignalCapture, Goto
<1>7. CASE JoinCapture
  BY <1>7 DEF JoinCapture, Goto
<1>8. CASE JoinPreview
  BY <1>8 DEF JoinPreview, Goto
<1>9. CASE StopClearPreview
  BY <1>9 DEF StopClearPreview, ClearPreviewFrame, RecycleFrames, Min2, Goto
<1>10. CASE StopClearCapture
  BY <1>10 DEF StopClearCapture, ClearCaptureFrame, Recycle, RecycleFrames,
       Min2, Goto
<1>11. CASE ReleaseWindows
  BY <1>11 DEF ReleaseWindows, Goto
<1>12. ASSUME NEW c \in Callers, Call(c) PROVE Lifecycle'
  BY <1>12 DEF Call, Goto
<1>13. ASSUME NEW c \in Callers, Replace(c) PROVE Lifecycle'
  BY <1>13 DEF Replace, Assign, AfterReplace, Goto
<1>14. ASSUME NEW c \in Callers, Handshake(c) PROVE Lifecycle'
  BY <1>14 DEF Handshake, Goto
<1>15. ASSUME NEW c \in Callers, Replaced(c) PROVE Lifecycle'
  BY <1>15 DEF Replaced, Assign, AfterReplace, Goto
<1>16. CASE FrameCallback
  BY <1>16 DEF FrameCallback, Take, GetFrame, UvcOnly
<1>17. CASE AddPreviewFrame
  BY <1>17 DEF AddPreviewFrame, SignalPreview, UvcOnly
<1>18. CASE DropCopy
  BY <1>18 DEF DropCopy, Recycle, RecycleFrames, Min2, UvcOnly
<1>19. CASE StartStreaming
  BY <1>19 DEF StartStreaming, PreviewOnly
<1>20. CASE ClearStale
  BY <1>20 DEF ClearStale, ClearPreviewFrame, RecycleFrames, Min2, PreviewOnly
<1>21. CASE CreateCaptureThread
  BY <1>21 DEF CreateCaptureThread, PreviewOnly
<1>22. CASE PreviewLoop
  BY <1>22 DEF PreviewLoop, PreviewOnly
<1>23. CASE WaitPreviewFrame
  BY <1>23 DEF WaitPreviewFrame, PreviewOnly
<1>24. CASE Decode
  BY <1>24 DEF Decode, Take, GetFrame, PreviewOnly
<1>25. CASE Decoded
  BY <1>25 DEF Decoded, Recycle, RecycleFrames, Min2, PreviewOnly
<1>26. CASE DropBroken
  BY <1>26 DEF DropBroken, Recycle, RecycleFrames, Min2, PreviewOnly
<1>27. CASE Draw
  BY <1>27 DEF Draw, Take, GetFrame, PreviewOnly
<1>28. CASE DrawDone
  BY <1>28 DEF DrawDone, Recycle, RecycleFrames, Min2, PreviewOnly
<1>29. CASE AddCaptureFrame
  BY <1>29 DEF AddCaptureFrame, BroadcastCapture, RecycleFrames, Min2,
       PreviewOnly
<1>30. CASE PreviewSignal
  BY <1>30 DEF PreviewSignal, SignalCapture, PreviewOnly
<1>31. CASE StopStreaming
  BY <1>31 DEF StopStreaming, PreviewOnly
<1>32. ASSUME NEW k \in Capturers, CaptureStart(k) PROVE Lifecycle'
  BY <1>32 DEF CaptureStart, ClearCaptureFrame, Recycle, RecycleFrames, Min2,
       CaptureOnly, CaptureGoto
<1>33. ASSUME NEW k \in Capturers, CaptureLoop(k) PROVE Lifecycle'
  BY <1>33 DEF CaptureLoop, CaptureOnly, CaptureGoto
<1>34. ASSUME NEW k \in Capturers, CaptureBegin(k) PROVE Lifecycle'
  BY <1>34 DEF CaptureBegin, CaptureOnly, CaptureGoto
<1>35. ASSUME NEW k \in Capturers, CapturePoll(k) PROVE Lifecycle'
  BY <1>35 DEF CapturePoll, CaptureOnly, CaptureGoto
<1>36. ASSUME NEW k \in Capturers, WaitCaptureFrame(k) PROVE Lifecycle'
  BY <1>36 DEF WaitCaptureFrame, CaptureOnly, CaptureGoto
<1>37. ASSUME NEW k \in Capturers, CaptureDraw(k) PROVE Lifecycle'
  BY <1>37 DEF CaptureDraw, Take, GetFrame, CaptureOnly, CaptureGoto
<1>38. ASSUME NEW k \in Capturers, CaptureOffer(k) PROVE Lifecycle'
  BY <1>38 DEF CaptureOffer, Take, GetFrame, CaptureOnly, CaptureGoto
<1>39. ASSUME NEW k \in Capturers, CaptureConvert(k) PROVE Lifecycle'
  BY <1>39 DEF CaptureConvert, Recycle, RecycleFrames, Min2, CaptureOnly,
       CaptureGoto
<1>40. ASSUME NEW k \in Capturers, CaptureInvoke(k) PROVE Lifecycle'
  BY <1>40 DEF CaptureInvoke, CaptureOnly, CaptureGoto
<1>41. ASSUME NEW k \in Capturers, CaptureRecycle(k) PROVE Lifecycle'
  BY <1>41 DEF CaptureRecycle, Recycle, RecycleFrames, Min2, CaptureOnly,
       CaptureGoto
<1>42. ASSUME NEW k \in Capturers, CaptureEnd(k) PROVE Lifecycle'
  BY <1>42 DEF CaptureEnd, Recycle, RecycleFrames, Min2, CaptureOnly,
       CaptureGoto
<1>43. ASSUME NEW k \in Capturers, CaptureBroadcast(k) PROVE Lifecycle'
  BY <1>43 DEF CaptureBroadcast, BroadcastCapture, CaptureOnly, CaptureGoto
<1>44. CASE SpuriousWakeup
  BY <1>44 DEF SpuriousWakeup, SignalPreview, SignalCapture
<1> QED
  BY <1>1, <1>2, <1>3, <1>4, <1>5, <1>6, <1>7, <1>8, <1>9, <1>10, <1>11,
     <1>12, <1>13, <1>14, <1>15, <1>16, <1>17, <1>18, <1>19, <1>20, <1>21,
     <1>22, <1>23, <1>24, <1>25, <1>26, <1>27, <1>28, <1>29, <1>30, <1>31,
     <1>32, <1>33, <1>34, <1>35, <1>36, <1>37, <1>38, <1>39, <1>40, <1>41,
     <1>42, <1>43, <1>44
     DEF Next, ClientStep, ReplaceStep, UvcStep, PreviewStep, CaptureStep

\* Nothing refills the queues between two previews.
LEMMA EmptyStep ==
    ASSUME TypeOK, HeldByPc, Lifecycle, EmptyBetween, Next
    PROVE  EmptyBetween'
<1> USE DEF EmptyBetween, HeldByPc, Lifecycle, Calm, TypeOK, ThreadsOK
<1>1. CASE SetPreviewDisplay
  BY PointersDistinct, <1>1 DEF SetPreviewDisplay
<1>2. CASE StartPreview
  BY PointersDistinct, <1>2 DEF StartPreview, Goto
<1>3. CASE CreatePreviewThread
  <2>1. previewFrames = 0 /\ CaptureQueu \notin held
    BY <1>3 DEF CreatePreviewThread
  <2>2. UNCHANGED <<previewFrames, held>>
    BY <1>3 DEF CreatePreviewThread
  <2> QED
    BY <2>1, <2>2
<1>4. CASE StopPreview
  BY PointersDistinct, <1>4 DEF StopPreview, Goto
<1>5. CASE StopSignalPreview
  BY PointersDistinct, <1>5 DEF StopSignalPreview, SignalPreview, Goto
<1>6. CASE StopSignalCapture
  BY PointersDistinct, <1>6 DEF StopSignalCapture, SignalCapture, Goto
<1>7. CASE JoinCapture
  BY PointersDistinct, <1>7 DEF JoinCapture, Goto
<1>8. CASE JoinPreview
  BY PointersDistinct, <1>8 DEF JoinPreview, Goto
<1>9. CASE StopClearPreview
  BY PointersDistinct, <1>9 DEF StopClearPreview, ClearPreviewFrame,
       RecycleFrames, Min2, Goto
<1>10. CASE StopClearCapture
  BY PointersDistinct, <1>10 DEF StopClearCapture, ClearCaptureFrame, Recycle,
       RecycleFrames, Min2, Goto
<1>11. CASE ReleaseWindows
  <2>1. previewFrames = 0 /\ CaptureQueu \notin held
    BY <1>11 DEF ReleaseWindows
  <2>2. UNCHANGED <<previewFrames, held>>
    BY <1>11 DEF ReleaseWindows
  <2> QED
    BY <2>1, <2>2
<1>12. ASSUME NEW c \in Callers, Call(c) PROVE EmptyBetween'
  BY PointersDistinct, <1>12 DEF Call, Goto
<1>13. ASSUME NEW c \in Callers, Replace(c) PROVE EmptyBetween'
  BY PointersDistinct, <1>13 DEF Replace, Assign, AfterReplace, Goto
<1>14. ASSUME NEW c \in Callers, Handshake(c) PROVE EmptyBetween'
  BY PointersDistinct, <1>14 DEF Handshake, Goto
<1>15. ASSUME NEW c \in Callers, Replaced(c) PROVE EmptyBetween'
  BY PointersDistinct, <1>15 DEF Replaced, Assign, AfterReplace, Goto
<1>16. CASE FrameCallback
  BY PointersDistinct, <1>16 DEF FrameCallback, Take, GetFrame, UvcOnly
<1>17. CASE AddPreviewFrame
  BY PointersDistinct, <1>17 DEF AddPreviewFrame, SignalPreview, UvcOnly
<1>18. CASE DropCopy
  BY PointersDistinct, <1>18 DEF DropCopy, Recycle, RecycleFrames, Min2,
       UvcOnly
<1>19. CASE StartStreaming
  BY PointersDistinct, <1>19 DEF StartStreaming, PreviewOnly
<1>20. CASE ClearStale
  BY PointersDistinct, <1>20 DEF ClearStale, ClearPreviewFrame, RecycleFrames,
       Min2, PreviewOnly
<1>21. CASE CreateCaptureThread
  BY PointersDistinct, <1>21 DEF CreateCaptureThread, PreviewOnly
<1>22. CASE PreviewLoop
  BY PointersDistinct, <1>22 DEF PreviewLoop, PreviewOnly
<1>23. CASE WaitPreviewFrame
  BY PointersDistinct, <1>23 DEF WaitPreviewFrame, PreviewOnly
<1>24. CASE Decode
  BY PointersDistinct, <1>24 DEF Decode, Take, GetFrame, PreviewOnly
<1>25. CASE Decoded
  BY PointersDistinct, <1>25 DEF Decoded, Recycle, RecycleFrames, Min2,
       PreviewOnly
<1>26. CASE DropBroken
  BY PointersDistinct, <1>26 DEF DropBroken, Recycle, RecycleFrames, Min2,
       PreviewOnly
<1>27. CASE Draw
  BY PointersDistinct, <1>27 DEF Draw, Take, GetFrame, PreviewOnly
<1>28. CASE DrawDone
  BY PointersDistinct, <1>28 DEF DrawDone, Recycle, RecycleFrames, Min2,
       PreviewOnly
<1>29. CASE AddCaptureFrame
  BY PointersDistinct, <1>29 DEF AddCaptureFrame, BroadcastCapture,
       RecycleFrames, Min2, PreviewOnly
<1>30. CASE PreviewSignal
  BY PointersDistinct, <1>30 DEF PreviewSignal, SignalCapture, PreviewOnly
<1>31. CASE StopStreaming
  BY PointersDistinct, <1>31 DEF StopStreaming, PreviewOnly
<1>32. ASSUME NEW k \in Capturers, CaptureStart(k) PROVE EmptyBetween'
  BY PointersDistinct, <1>32 DEF CaptureStart, ClearCaptureFrame, Recycle,
       RecycleFrames, Min2, CaptureOnly, CaptureGoto
<1>33. ASSUME NEW k \in Capturers, CaptureLoop(k) PROVE EmptyBetween'
  BY PointersDistinct, <1>33 DEF CaptureLoop, CaptureOnly, CaptureGoto
<1>34. ASSUME NEW k \in Capturers, CaptureBegin(k) PROVE EmptyBetween'
  BY PointersDistinct, <1>34 DEF CaptureBegin, CaptureOnly, CaptureGoto
<1>35. ASSUME NEW k \in Capturers, CapturePoll(k) PROVE EmptyBetween'
  BY PointersDistinct, <1>35 DEF CapturePoll, CaptureOnly, CaptureGoto
<1>36. ASSUME NEW k \in Capturers, WaitCaptureFrame(k) PROVE EmptyBetween'
  BY PointersDistinct, <1>36 DEF WaitCaptureFrame, CaptureOnly, CaptureGoto
<1>37. ASSUME NEW k \in Capturers, CaptureDraw(k) PROVE EmptyBetween'
  <2>1. /\ UNCHANGED <<caller, preview, previewFrames>>
        /\ held' \in {held, held \cup {Drawn(k)}}
    BY <1>37 DEF CaptureDraw, Take, GetFrame, CaptureLocal, CaptureOnly,
         PreviewOnly, clients
  <2> QED
    BY PointersDistinct, <2>1
<1>38. ASSUME NEW k \in Capturers, CaptureOffer(k) PROVE EmptyBetween'
  <2>1. /\ UNCHANGED <<caller, preview, previewFrames>>
        /\ held' \in {held, held \cup {Callback(k)}}
    BY <1>38 DEF CaptureOffer, Take, CaptureOnly, CaptureGoto
  <2> QED
    BY PointersDistinct, <2>1
<1>39. ASSUME NEW k \in Capturers, CaptureConvert(k) PROVE EmptyBetween'
  BY PointersDistinct, <1>39 DEF CaptureConvert, Recycle, RecycleFrames, Min2,
       CaptureOnly, CaptureGoto
<1>40. ASSUME NEW k \in Capturers, CaptureInvoke(k) PROVE EmptyBetween'
  BY PointersDistinct, <1>40 DEF CaptureInvoke, CaptureOnly, CaptureGoto
<1>41. ASSUME NEW k \in Capturers, CaptureRecycle(k) PROVE EmptyBetween'
  BY PointersDistinct, <1>41 DEF CaptureRecycle, Recycle, RecycleFrames, Min2,
       CaptureOnly, CaptureGoto
<1>42. ASSUME NEW k \in Capturers, CaptureEnd(k) PROVE EmptyBetween'
  BY PointersDistinct, <1>42 DEF CaptureEnd, Recycle, RecycleFrames, Min2,
       CaptureOnly, CaptureGoto
<1>43. ASSUME NEW k \in Capturers, CaptureBroadcast(k) PROVE EmptyBetween'
  BY PointersDistinct, <1>43 DEF CaptureBroadcast, BroadcastCapture,
       CaptureOnly, CaptureGoto
<1>44. CASE SpuriousWakeup
  BY PointersDistinct, <1>44 DEF SpuriousWakeup, SignalPreview, SignalCapture
<1> QED
  BY <1>1, <1>2, <1>3, <1>4, <1>5, <1>6, <1>7, <1>8, <1>9, <1>10, <1>11,
     <1>12, <1>13, <1>14, <1>15, <1>16, <1>17, <1>18, <1>19, <1>20, <1>21,
     <1>22, <1>23, <1>24, <1>25, <1>26, <1>27, <1>28, <1>29, <1>30, <1>31,
     <1>32, <1>33, <1>34, <1>35, <1>36, <1>37, <1>38, <1>39, <1>40, <1>41,
     <1>42, <1>43, <1>44
     DEF Next, ClientStep, ReplaceStep, UvcStep, PreviewStep, CaptureStep

\* No worker is asleep while there is a frame for it.
LEMMA NoSleepStep ==
    ASSUME TypeOK, NoSleepOnFrame, Next
    PROVE  NoSleepOnFrame'
<1> USE DEF NoSleepOnFrame, TypeOK, SyncOK, ArraysOK
<1>1. CASE SetPreviewDisplay
  BY PointersDistinct, <1>1 DEF SetPreviewDisplay
<1>2. CASE StartPreview
  BY PointersDistinct, <1>2 DEF StartPreview, Goto
<1>3. CASE CreatePreviewThread
  BY PointersDistinct, <1>3 DEF CreatePreviewThread, SignalPreview, Goto
<1>4. CASE StopPreview
  BY PointersDistinct, <1>4 DEF StopPreview, Goto
<1>5. CASE StopSignalPreview
  BY PointersDistinct, <1>5 DEF StopSignalPreview, SignalPreview, Goto
<1>6. CASE StopSignalCapture
  BY PointersDistinct, <1>6 DEF StopSignalCapture, SignalCapture, Goto
<1>7. CASE JoinCapture
  BY PointersDistinct, <1>7 DEF JoinCapture, Goto
<1>8. CASE JoinPreview
  BY PointersDistinct, <1>8 DEF JoinPreview, Goto
<1>9. CASE StopClearPreview
  BY PointersDistinct, <1>9 DEF StopClearPreview, ClearPreviewFrame,
       RecycleFrames, Min2, Goto
<1>10. CASE StopClearCapture
  BY PointersDistinct, <1>10 DEF StopClearCapture, ClearCaptureFrame, Recycle,
       RecycleFrames, Min2, Goto
<1>11. CASE ReleaseWindows
  BY PointersDistinct, <1>11 DEF ReleaseWindows, Goto
<1>12. ASSUME NEW c \in Callers, Call(c) PROVE NoSleepOnFrame'
  BY PointersDistinct, <1>12 DEF Call, Goto
<1>13. ASSUME NEW c \in Callers, Replace(c) PROVE NoSleepOnFrame'
  BY PointersDistinct, <1>13 DEF Replace, Assign, AfterReplace, Goto
<1>14. ASSUME NEW c \in Callers, Handshake(c) PROVE NoSleepOnFrame'
  BY PointersDistinct, <1>14 DEF Handshake, Goto
<1>15. ASSUME NEW c \in Callers, Replaced(c) PROVE NoSleepOnFrame'
  BY PointersDistinct, <1>15 DEF Replaced, Assign, AfterReplace, Goto
<1>16. CASE FrameCallback
  BY PointersDistinct, <1>16 DEF FrameCallback, Take, GetFrame, UvcOnly
<1>17. CASE AddPreviewFrame
  BY PointersDistinct, <1>17 DEF AddPreviewFrame, SignalPreview, UvcOnly
<1>18. CASE DropCopy
  BY PointersDistinct, <1>18 DEF DropCopy, Recycle, RecycleFrames, Min2,
       UvcOnly
<1>19. CASE StartStreaming
  BY PointersDistinct, <1>19 DEF StartStreaming, PreviewOnly
<1>20. CASE ClearStale
  BY PointersDistinct, <1>20 DEF ClearStale, ClearPreviewFrame, RecycleFrames,
       Min2, PreviewOnly
<1>21. CASE CreateCaptureThread
  BY PointersDistinct, <1>21 DEF CreateCaptureThread, PreviewOnly
<1>22. CASE PreviewLoop
  BY PointersDistinct, <1>22 DEF PreviewLoop, PreviewOnly
<1>23. CASE WaitPreviewFrame
  BY PointersDistinct, <1>23 DEF WaitPreviewFrame, PreviewOnly
<1>24. CASE Decode
  BY PointersDistinct, <1>24 DEF Decode, Take, GetFrame, PreviewOnly
<1>25. CASE Decoded
  BY PointersDistinct, <1>25 DEF Decoded, Recycle, RecycleFrames, Min2,
       PreviewOnly
<1>26. CASE DropBroken
  BY PointersDistinct, <1>26 DEF DropBroken, Recycle, RecycleFrames, Min2,
       PreviewOnly
<1>27. CASE Draw
  BY PointersDistinct, <1>27 DEF Draw, Take, GetFrame, PreviewOnly
<1>28. CASE DrawDone
  BY PointersDistinct, <1>28 DEF DrawDone, Recycle, RecycleFrames, Min2,
       PreviewOnly
<1>29. CASE AddCaptureFrame
  BY PointersDistinct, <1>29 DEF AddCaptureFrame, BroadcastCapture,
       RecycleFrames, Min2, PreviewOnly
<1>30. CASE PreviewSignal
  BY PointersDistinct, <1>30 DEF PreviewSignal, SignalCapture, PreviewOnly
<1>31. CASE StopStreaming
  BY PointersDistinct, <1>31 DEF StopStreaming, PreviewOnly
<1>32. ASSUME NEW k \in Capturers, CaptureStart(k) PROVE NoSleepOnFrame'
  BY PointersDistinct, <1>32 DEF CaptureStart, ClearCaptureFrame, Recycle,
       RecycleFrames, Min2, CaptureOnly, CaptureGoto
<1>33. ASSUME NEW k \in Capturers, CaptureLoop(k) PROVE NoSleepOnFrame'
  BY PointersDistinct, <1>33 DEF CaptureLoop, CaptureOnly, CaptureGoto
<1>34. ASSUME NEW k \in Capturers, CaptureBegin(k) PROVE NoSleepOnFrame'
  BY PointersDistinct, <1>34 DEF CaptureBegin, CaptureOnly, CaptureGoto
<1>35. ASSUME NEW k \in Capturers, CapturePoll(k) PROVE NoSleepOnFrame'
  BY PointersDistinct, <1>35 DEF CapturePoll, CaptureOnly, CaptureGoto
<1>36. ASSUME NEW k \in Capturers, WaitCaptureFrame(k) PROVE NoSleepOnFrame'
  BY PointersDistinct, <1>36 DEF WaitCaptureFrame, CaptureOnly, CaptureGoto
<1>37. ASSUME NEW k \in Capturers, CaptureDraw(k) PROVE NoSleepOnFrame'
  BY PointersDistinct, <1>37 DEF CaptureDraw, Take, GetFrame, CaptureOnly,
       CaptureGoto
<1>38. ASSUME NEW k \in Capturers, CaptureOffer(k) PROVE NoSleepOnFrame'
  BY PointersDistinct, <1>38 DEF CaptureOffer, Take, GetFrame, CaptureOnly,
       CaptureGoto
<1>39. ASSUME NEW k \in Capturers, CaptureConvert(k) PROVE NoSleepOnFrame'
  BY PointersDistinct, <1>39 DEF CaptureConvert, Recycle, RecycleFrames, Min2,
       CaptureOnly, CaptureGoto
<1>40. ASSUME NEW k \in Capturers, CaptureInvoke(k) PROVE NoSleepOnFrame'
  BY PointersDistinct, <1>40 DEF CaptureInvoke, CaptureOnly, CaptureGoto
<1>41. ASSUME NEW k \in Capturers, CaptureRecycle(k) PROVE NoSleepOnFrame'
  BY PointersDistinct, <1>41 DEF CaptureRecycle, Recycle, RecycleFrames, Min2,
       CaptureOnly, CaptureGoto
<1>42. ASSUME NEW k \in Capturers, CaptureEnd(k) PROVE NoSleepOnFrame'
  BY PointersDistinct, <1>42 DEF CaptureEnd, Recycle, RecycleFrames, Min2,
       CaptureOnly, CaptureGoto
<1>43. ASSUME NEW k \in Capturers, CaptureBroadcast(k) PROVE NoSleepOnFrame'
  BY PointersDistinct, <1>43 DEF CaptureBroadcast, BroadcastCapture,
       CaptureOnly, CaptureGoto
<1>44. CASE SpuriousWakeup
  BY PointersDistinct, <1>44 DEF SpuriousWakeup, SignalPreview, SignalCapture
<1> QED
  BY <1>1, <1>2, <1>3, <1>4, <1>5, <1>6, <1>7, <1>8, <1>9, <1>10, <1>11,
     <1>12, <1>13, <1>14, <1>15, <1>16, <1>17, <1>18, <1>19, <1>20, <1>21,
     <1>22, <1>23, <1>24, <1>25, <1>26, <1>27, <1>28, <1>29, <1>30, <1>31,
     <1>32, <1>33, <1>34, <1>35, <1>36, <1>37, <1>38, <1>39, <1>40, <1>41,
     <1>42, <1>43, <1>44
     DEF Next, ClientStep, ReplaceStep, UvcStep, PreviewStep, CaptureStep

\* A frame put into previewFrames, or taken from it, is not lost.
LEMMA QueueKeeps ==
    ASSUME ArraysOK, NEW p, UNCHANGED <<mFramePool, live>>,
           \/ p \in held /\ held' = held \ {p} /\ previewFrames' = previewFrames + 1
           \/ p \notin held /\ held' = held \cup {p}
                /\ previewFrames' = previewFrames - 1
    PROVE  Lost' = Lost
<1>1. CASE p \in held /\ held' = held \ {p} /\ previewFrames' = previewFrames + 1
  <2>1. Cardinality(held \ {p}) = Cardinality(held) - 1
    BY <1>1, HeldFinite, FS_RemoveElement
  <2> QED
    BY <1>1, <2>1, HeldFinite DEF Lost, ArraysOK
<1>2. CASE p \notin held /\ held' = held \cup {p} /\ previewFrames' = previewFrames - 1
  <2>1. Cardinality(held \cup {p}) = Cardinality(held) + 1
    BY <1>2, HeldFinite, FS_AddElement
  <2> QED
    BY <1>2, <2>1, HeldFinite DEF Lost, ArraysOK
<1> QED
  BY <1>1, <1>2

\* addCaptureFrame loses a buffer exactly when the preview was stopped.
LEMMA AddCaptureLoses ==
    ASSUME ArraysOK, Frame \in held, AddCaptureFrame
    PROVE  Lost' = IF mIsRunning THEN Lost ELSE Lost + 1
<1>1. /\ IsFiniteSet(held \ {Frame})
      /\ Cardinality(held \ {Frame}) = Cardinality(held) - 1
  BY HeldFinite, FS_RemoveElement
<1>2. UNCHANGED previewFrames
  BY DEF AddCaptureFrame
<1>3. CASE mIsRunning /\ CaptureQueu \in held
  <2>1. held' = held \ {Frame} /\ RecycleFrames(1)
    BY <1>3, PointersDistinct DEF AddCaptureFrame
  <2>2. Recycle(Frame)
    BY <2>1 DEF Recycle
  <2> QED
    BY <1>2, <1>3, <2>2, RecycleKeeps
<1>4. CASE mIsRunning /\ CaptureQueu \notin held
  BY <1>2, <1>4, MoveKeeps DEF AddCaptureFrame
<1>5. CASE ~mIsRunning
  <2>1. held' = held \ {Frame} /\ UNCHANGED <<mFramePool, live>>
    BY <1>5 DEF AddCaptureFrame
  <2> QED
    BY <1>1, <1>2, <1>5, <2>1, HeldFinite DEF Lost, ArraysOK
<1> QED
  BY <1>3, <1>4, <1>5

\* A step that loses nothing and gives no preview a new chance to lose.
LEMMA LostSame ==
    ASSUME ArraysOK, LostByStop, Lost' = Lost, MayLose' => MayLose,
           UNCHANGED starts, starts \in Nat
    PROVE  LostByStop'
<1>1. CASE MayLose'
  BY <1>1, LostType DEF LostByStop
<1>2. CASE ~MayLose'
  BY <1>2, LostType DEF LostByStop
<1> QED
  BY <1>1, <1>2

\* Every preview loses at most one buffer.
LEMMA LostStep ==
    ASSUME TypeOK, HeldByPc, Lifecycle, LostByStop, Next
    PROVE  LostByStop'
<1> USE DEF TypeOK, ThreadsOK
<1>1. CASE SetPreviewDisplay
  <2>1. Lost' = Lost
    BY <1>1 DEF Lost, SetPreviewDisplay
  <2>2. (MayLose' => MayLose) /\ UNCHANGED starts
    BY <1>1 DEF MayLose, SetPreviewDisplay
  <2> QED
    BY <2>1, <2>2, LostSame
<1>2. CASE StartPreview
  <2>1. ~MayLose' /\ ~MayLose
    BY <1>2 DEF MayLose, Lifecycle, Calm, StartPreview
  <2>2. Lost' = Lost /\ UNCHANGED starts
    BY <1>2 DEF Lost, StartPreview
  <2> QED
    BY <2>1, <2>2, LostSame
<1>3. CASE CreatePreviewThread
  <2>1. ~MayLose /\ Lost' = Lost /\ starts' \in {starts, starts + 1}
    BY <1>3 DEF MayLose, Lifecycle, Lost, CreatePreviewThread
  <2>2. MayLose' => starts' = starts + 1
    BY <1>3 DEF MayLose, Lifecycle, CreatePreviewThread
  <2>3. CASE MayLose'
    BY <2>1, <2>2, <2>3, LostType DEF LostByStop
  <2>4. CASE ~MayLose'
    BY <2>1, <2>4, LostType DEF LostByStop
  <2> QED
    BY <2>3, <2>4
<1>4. CASE StopPreview
  <2>1. Lost' = Lost
    BY <1>4 DEF Lost, StopPreview
  <2>2. (MayLose' => MayLose) /\ UNCHANGED starts
    BY <1>4 DEF MayLose, StopPreview, Goto
  <2> QED
    BY <2>1, <2>2, LostSame
<1>5. CASE StopSignalPreview
  <2>1. Lost' = Lost
    BY <1>5 DEF Lost, StopSignalPreview
  <2>2. (MayLose' => MayLose) /\ UNCHANGED starts
    BY <1>5 DEF MayLose, StopSignalPreview, SignalPreview, Goto
  <2> QED
    BY <2>1, <2>2, LostSame
<1>6. CASE StopSignalCapture
  <2>1. Lost' = Lost
    BY <1>6 DEF Lost, StopSignalCapture
  <2>2. (MayLose' => MayLose) /\ UNCHANGED starts
    BY <1>6 DEF MayLose, StopSignalCapture, SignalCapture, Goto
  <2> QED
    BY <2>1, <2>2, LostSame
<1>7. CASE JoinCapture
  <2>1. Lost' = Lost
    BY <1>7 DEF Lost, JoinCapture
  <2>2. (MayLose' => MayLose) /\ UNCHANGED starts
    BY <1>7 DEF MayLose, JoinCapture, Goto
  <2> QED
    BY <2>1, <2>2, LostSame
<1>8. CASE JoinPreview
  <2>1. Lost' = Lost
    BY <1>8 DEF Lost, JoinPreview
  <2>2. (MayLose' => MayLose) /\ UNCHANGED starts
    BY <1>8 DEF MayLose, JoinPreview, Goto
  <2> QED
    BY <2>1, <2>2, LostSame
<1>9. CASE StopClearPreview
  <2>1. Lost' = Lost
    BY <1>9, ClearPreviewKeeps DEF StopClearPreview
  <2>2. (MayLose' => MayLose) /\ UNCHANGED starts
    BY <1>9 DEF MayLose, StopClearPreview, ClearPreviewFrame, RecycleFrames,
         Min2, Goto
  <2> QED
    BY <2>1, <2>2, LostSame
<1>10. CASE StopClearCapture
  <2>1. Lost' = Lost
    BY <1>10, ClearCaptureKeeps DEF StopClearCapture
  <2>2. (MayLose' => MayLose) /\ UNCHANGED starts
    BY <1>10 DEF MayLose, StopClearCapture, ClearCaptureFrame, Recycle,
         RecycleFrames, Min2, Goto
  <2> QED
    BY <2>1, <2>2, LostSame
<1>11. CASE ReleaseWindows
  <2>1. Lost' = Lost
    BY <1>11 DEF Lost, ReleaseWindows
  <2>2. (MayLose' => MayLose) /\ UNCHANGED starts
    BY <1>11 DEF MayLose, ReleaseWindows, Goto
  <2> QED
    BY <2>1, <2>2, LostSame
<1>12. ASSUME NEW c \in Callers, Call(c) PROVE LostByStop'
  <2>1. Lost' = Lost
    BY <1>12 DEF Lost, Call
  <2>2. (MayLose' => MayLose) /\ UNCHANGED starts
    BY <1>12 DEF MayLose, Call, Goto
  <2> QED
    BY <2>1, <2>2, LostSame
<1>13. ASSUME NEW c \in Callers, Replace(c) PROVE LostByStop'
  <2>1. Lost' = Lost
    BY <1>13 DEF Lost, Replace, Assign
  <2>2. (MayLose' => MayLose) /\ UNCHANGED starts
    BY <1>13 DEF MayLose, Replace, Assign, AfterReplace, Goto
  <2> QED
    BY <2>1, <2>2, LostSame
<1>14. ASSUME NEW c \in Callers, Handshake(c) PROVE LostByStop'
  <2>1. Lost' = Lost
    BY <1>14 DEF Lost, Handshake
  <2>2. (MayLose' => MayLose) /\ UNCHANGED starts
    BY <1>14 DEF MayLose, Handshake, Goto
  <2> QED
    BY <2>1, <2>2, LostSame
<1>15. ASSUME NEW c \in Callers, Replaced(c) PROVE LostByStop'
  <2>1. Lost' = Lost
    BY <1>15 DEF Lost, Replaced, Assign
  <2>2. (MayLose' => MayLose) /\ UNCHANGED starts
    BY <1>15 DEF MayLose, Replaced, Assign, AfterReplace, Goto
  <2> QED
    BY <2>1, <2>2, LostSame
<1>16. CASE FrameCallback
  <2>1. Lost' = Lost
    <3>1. Copy \notin held /\ Take(Copy) /\ UNCHANGED previewFrames
      BY <1>16 DEF HeldByPc, FrameCallback
    <3> QED
      BY <3>1, TakeKeeps, PointerTypes
  <2>2. (MayLose' => MayLose) /\ UNCHANGED starts
    BY <1>16 DEF MayLose, FrameCallback, Take, GetFrame, UvcOnly
  <2> QED
    BY <2>1, <2>2, LostSame
<1>17. CASE AddPreviewFrame
  <2>1. Lost' = Lost
    <3>1. Copy \in held
      BY <1>17 DEF HeldByPc, AddPreviewFrame
    <3>2. CASE UNCHANGED <<previewFrames, held>>
      BY <1>17, <3>2 DEF Lost, AddPreviewFrame
    <3>3. CASE held' = held \ {Copy} /\ previewFrames' = previewFrames + 1
      BY <1>17, <3>1, <3>3, QueueKeeps DEF AddPreviewFrame
    <3> QED
      BY <1>17, <3>2, <3>3 DEF AddPreviewFrame
  <2>2. (MayLose' => MayLose) /\ UNCHANGED starts
    BY <1>17 DEF MayLose, AddPreviewFrame, SignalPreview, UvcOnly
  <2> QED
    BY <2>1, <2>2, LostSame
<1>18. CASE DropCopy
  <2>1. Lost' = Lost
    <3>1. Copy \in held /\ Recycle(Copy) /\ UNCHANGED previewFrames
      BY <1>18 DEF HeldByPc, DropCopy
    <3> QED
      BY <3>1, RecycleKeeps
  <2>2. (MayLose' => MayLose) /\ UNCHANGED starts
    BY <1>18 DEF MayLose, DropCopy, Recycle, RecycleFrames, Min2, UvcOnly
  <2> QED
    BY <2>1, <2>2, LostSame
<1>19. CASE StartStreaming
  <2>1. Lost' = Lost
    BY <1>19 DEF Lost, StartStreaming, PreviewOnly
  <2>2. (MayLose' => MayLose) /\ UNCHANGED starts
    BY <1>19 DEF MayLose, StartStreaming, PreviewOnly
  <2> QED
    BY <2>1, <2>2, LostSame
<1>20. CASE ClearStale
  <2>1. Lost' = Lost
    BY <1>20, ClearPreviewKeeps DEF ClearStale
  <2>2. (MayLose' => MayLose) /\ UNCHANGED starts
    BY <1>20 DEF MayLose, ClearStale, ClearPreviewFrame, RecycleFrames, Min2,
         PreviewOnly
  <2> QED
    BY <2>1, <2>2, LostSame
<1>21. CASE CreateCaptureThread
  <2>1. Lost' = Lost
    BY <1>21 DEF Lost, CreateCaptureThread, PreviewOnly
  <2>2. (MayLose' => MayLose) /\ UNCHANGED starts
    BY <1>21 DEF MayLose, CreateCaptureThread, PreviewOnly
  <2> QED
    BY <2>1, <2>2, LostSame
<1>22. CASE PreviewLoop
  <2>1. Lost' = Lost
    BY <1>22 DEF Lost, PreviewLoop, PreviewOnly
  <2>2. (MayLose' => MayLose) /\ UNCHANGED starts
    BY <1>22 DEF MayLose, PreviewLoop, PreviewOnly
  <2> QED
    BY <2>1, <2>2, LostSame
<1>23. CASE WaitPreviewFrame
  <2>1. Lost' = Lost
    <3>1. Mjpeg \notin held /\ Frame \notin held
      BY <1>23 DEF HeldByPc, WaitPreviewFrame
    <3>2. CASE UNCHANGED <<previewFrames, held>>
      BY <1>23, <3>2 DEF Lost, WaitPreviewFrame
    <3>3. CASE /\ previewFrames' = previewFrames - 1
               /\ held' \in {held \cup {Mjpeg}, held \cup {Frame}}
      BY <1>23, <3>1, <3>3, QueueKeeps DEF WaitPreviewFrame
    <3> QED
      BY <1>23, <3>2, <3>3 DEF WaitPreviewFrame
  <2>2. (MayLose' => MayLose) /\ UNCHANGED starts
    BY <1>23 DEF MayLose, WaitPreviewFrame, PreviewOnly
  <2> QED
    BY <2>1, <2>2, LostSame
<1>24. CASE Decode
  <2>1. Lost' = Lost
    <3>1. Frame \notin held /\ Take(Frame) /\ UNCHANGED previewFrames
      BY <1>24 DEF HeldByPc, Decode
    <3> QED
      BY <3>1, TakeKeeps, PointerTypes
  <2>2. (MayLose' => MayLose) /\ UNCHANGED starts
    BY <1>24 DEF MayLose, Decode, Take, GetFrame, PreviewOnly
  <2> QED
    BY <2>1, <2>2, LostSame
<1>25. CASE Decoded
  <2>1. Lost' = Lost
    <3>1. Mjpeg \in held /\ Recycle(Mjpeg) /\ UNCHANGED previewFrames
      BY <1>25 DEF HeldByPc, Decoded
    <3> QED
      BY <3>1, RecycleKeeps
  <2>2. (MayLose' => MayLose) /\ UNCHANGED starts
    BY <1>25 DEF MayLose, Decoded, Recycle, RecycleFrames, Min2, PreviewOnly
  <2> QED
    BY <2>1, <2>2, LostSame
<1>26. CASE DropBroken
  <2>1. Lost' = Lost
    <3>1. Frame \in held /\ Recycle(Frame) /\ UNCHANGED previewFrames
      BY <1>26 DEF HeldByPc, DropBroken
    <3> QED
      BY <3>1, RecycleKeeps
  <2>2. (MayLose' => MayLose) /\ UNCHANGED starts
    BY <1>26 DEF MayLose, DropBroken, Recycle, RecycleFrames, Min2,
         PreviewOnly
  <2> QED
    BY <2>1, <2>2, LostSame
<1>27. CASE Draw
  <2>1. Lost' = Lost
    <3>1. Converted \notin held /\ UNCHANGED previewFrames
      BY <1>27 DEF HeldByPc, Draw
    <3>2. CASE mPreviewWindow
      BY <1>27, <3>1, <3>2, TakeKeeps, PointerTypes DEF Draw
    <3>3. CASE ~mPreviewWindow
      BY <1>27, <3>1, <3>3 DEF Draw, Lost
    <3> QED
      BY <3>2, <3>3
  <2>2. (MayLose' => MayLose) /\ UNCHANGED starts
    BY <1>27 DEF MayLose, Draw, Take, GetFrame, PreviewOnly
  <2> QED
    BY <2>1, <2>2, LostSame
<1>28. CASE DrawDone
  <2>1. Lost' = Lost
    <3>1. Converted \in held /\ Recycle(Converted) /\ UNCHANGED previewFrames
      BY <1>28 DEF HeldByPc, DrawDone
    <3> QED
      BY <3>1, RecycleKeeps
  <2>2. (MayLose' => MayLose) /\ UNCHANGED starts
    BY <1>28 DEF MayLose, DrawDone, Recycle, RecycleFrames, Min2, PreviewOnly
  <2> QED
    BY <2>1, <2>2, LostSame
<1>29. CASE AddCaptureFrame
  <2>1. Frame \in held /\ MayLose /\ UNCHANGED starts
    BY <1>29 DEF HeldByPc, MayLose, AddCaptureFrame, PreviewOnly
  <2>2. MayLose' => mIsRunning
    BY <1>29 DEF MayLose, AddCaptureFrame, PreviewOnly
  <2>3. Lost' = IF mIsRunning THEN Lost ELSE Lost + 1
    BY <1>29, <2>1, AddCaptureLoses
  <2>4. CASE mIsRunning
    BY <2>1, <2>3, <2>4, LostSame
  <2>5. CASE ~mIsRunning
    BY <2>1, <2>2, <2>3, <2>5, LostType DEF LostByStop
  <2> QED
    BY <2>4, <2>5
<1>30. CASE PreviewSignal
  <2>1. Lost' = Lost
    BY <1>30 DEF Lost, PreviewSignal, PreviewOnly
  <2>2. (MayLose' => MayLose) /\ UNCHANGED starts
    BY <1>30 DEF MayLose, PreviewSignal, SignalCapture, PreviewOnly
  <2> QED
    BY <2>1, <2>2, LostSame
<1>31. CASE StopStreaming
  <2>1. Lost' = Lost
    BY <1>31 DEF Lost, StopStreaming, PreviewOnly
  <2>2. (MayLose' => MayLose) /\ UNCHANGED starts
    BY <1>31 DEF MayLose, StopStreaming, PreviewOnly
  <2> QED
    BY <2>1, <2>2, LostSame
<1>32. ASSUME NEW k \in Capturers, CaptureStart(k) PROVE LostByStop'
  <2>1. Lost' = Lost
    BY <1>32, ClearCaptureKeeps DEF CaptureStart
  <2>2. (MayLose' => MayLose) /\ UNCHANGED starts
    BY <1>32 DEF MayLose, CaptureStart, ClearCaptureFrame, Recycle,
         RecycleFrames, Min2, CaptureOnly, CaptureGoto
  <2> QED
    BY <2>1, <2>2, LostSame
<1>33. ASSUME NEW k \in Capturers, CaptureLoop(k) PROVE LostByStop'
  <2>1. Lost' = Lost
    BY <1>33 DEF Lost, CaptureLoop, CaptureOnly
  <2>2. (MayLose' => MayLose) /\ UNCHANGED starts
    BY <1>33 DEF MayLose, CaptureLoop, CaptureOnly, CaptureGoto
  <2> QED
    BY <2>1, <2>2, LostSame
<1>34. ASSUME NEW k \in Capturers, CaptureBegin(k) PROVE LostByStop'
  <2>1. Lost' = Lost
    BY <1>34 DEF Lost, CaptureBegin, CaptureOnly
  <2>2. (MayLose' => MayLose) /\ UNCHANGED starts
    BY <1>34 DEF MayLose, CaptureBegin, CaptureOnly, CaptureGoto
  <2> QED
    BY <2>1, <2>2, LostSame
<1>35. ASSUME NEW k \in Capturers, CapturePoll(k) PROVE LostByStop'
  <2>1. Lost' = Lost
    BY <1>35 DEF Lost, CapturePoll, CaptureOnly
  <2>2. (MayLose' => MayLose) /\ UNCHANGED starts
    BY <1>35 DEF MayLose, CapturePoll, CaptureOnly, CaptureGoto
  <2> QED
    BY <2>1, <2>2, LostSame
<1>36. ASSUME NEW k \in Capturers, WaitCaptureFrame(k) PROVE LostByStop'
  <2>1. Lost' = Lost
    <3>1. Captured(k) \notin held /\ UNCHANGED <<mFramePool, previewFrames, live>>
      BY <1>36 DEF HeldByPc, WaitCaptureFrame
    <3>2. CASE UNCHANGED held
      BY <3>1, <3>2 DEF Lost
    <3>3. CASE /\ CaptureQueu \in held
               /\ held' = (held \ {CaptureQueu}) \cup {Captured(k)}
      BY <3>1, <3>3, MoveKeeps
    <3> QED
      BY <1>36, <3>2, <3>3 DEF WaitCaptureFrame
  <2>2. (MayLose' => MayLose) /\ UNCHANGED starts
    BY <1>36 DEF MayLose, WaitCaptureFrame, CaptureOnly, CaptureGoto
  <2> QED
    BY <2>1, <2>2, LostSame
<1>37. ASSUME NEW k \in Capturers, CaptureDraw(k) PROVE LostByStop'
  <2>1. Lost' = Lost
    <3>1. UNCHANGED previewFrames
      BY <1>37 DEF CaptureDraw
    <3>2. CASE Drawn(k) \notin held /\ Take(Drawn(k))
      BY <3>1, <3>2, TakeKeeps, PointerTypes
    <3>3. CASE UNCHANGED <<mFramePool, live, held>>
      BY <3>1, <3>3 DEF Lost
    <3> QED
      BY <1>37, <3>2, <3>3 DEF CaptureDraw, HeldByPc
  <2>2. (MayLose' => MayLose) /\ UNCHANGED starts
    BY <1>37 DEF MayLose, CaptureDraw, Take, GetFrame, CaptureOnly,
         CaptureGoto
  <2> QED
    BY <2>1, <2>2, LostSame
<1>38. ASSUME NEW k \in Capturers, CaptureOffer(k) PROVE LostByStop'
  <2>1. Lost' = Lost
    <3>1. UNCHANGED previewFrames
      BY <1>38 DEF CaptureOffer
    <3>2. CASE Callback(k) \notin held /\ Take(Callback(k))
      BY <3>1, <3>2, TakeKeeps, PointerTypes
    <3>3. CASE UNCHANGED <<mFramePool, live, held>>
      BY <3>1, <3>3 DEF Lost
    <3> QED
      BY <1>38, <3>2, <3>3 DEF CaptureOffer, HeldByPc
  <2>2. (MayLose' => MayLose) /\ UNCHANGED starts
    BY <1>38 DEF MayLose, CaptureOffer, Take, GetFrame, CaptureOnly,
         CaptureGoto
  <2> QED
    BY <2>1, <2>2, LostSame
<1>39. ASSUME NEW k \in Capturers, CaptureConvert(k) PROVE LostByStop'
  <2>1. Lost' = Lost
    <3>1. UNCHANGED previewFrames
      BY <1>39 DEF CaptureConvert
    <3>2. \E q \in held : Recycle(q)
      BY <1>39 DEF CaptureConvert, HeldByPc
    <3> QED
      BY <3>1, <3>2, RecycleKeeps
  <2>2. (MayLose' => MayLose) /\ UNCHANGED starts
    BY <1>39 DEF MayLose, CaptureConvert, Recycle, RecycleFrames, Min2,
         CaptureOnly, CaptureGoto
  <2> QED
    BY <2>1, <2>2, LostSame
<1>40. ASSUME NEW k \in Capturers, CaptureInvoke(k) PROVE LostByStop'
  <2>1. Lost' = Lost
    BY <1>40 DEF Lost, CaptureInvoke, CaptureOnly
  <2>2. (MayLose' => MayLose) /\ UNCHANGED starts
    BY <1>40 DEF MayLose, CaptureInvoke, CaptureOnly, CaptureGoto
  <2> QED
    BY <2>1, <2>2, LostSame
<1>41. ASSUME NEW k \in Capturers, CaptureRecycle(k) PROVE LostByStop'
  <2>1. Lost' = Lost
    <3>1. UNCHANGED previewFrames
      BY <1>41 DEF CaptureRecycle
    <3>2. \E q \in held : Recycle(q)
      BY <1>41 DEF CaptureRecycle, HeldByPc
    <3> QED
      BY <3>1, <3>2, RecycleKeeps
  <2>2. (MayLose' => MayLose) /\ UNCHANGED starts
    BY <1>41 DEF MayLose, CaptureRecycle, Recycle, RecycleFrames, Min2,
         CaptureOnly, CaptureGoto
  <2> QED
    BY <2>1, <2>2, LostSame
<1>42. ASSUME NEW k \in Capturers, CaptureEnd(k) PROVE LostByStop'
  <2>1. Lost' = Lost
    <3>1. UNCHANGED previewFrames
      BY <1>42 DEF CaptureEnd
    <3>2. CASE Drawn(k) \in held /\ Recycle(Drawn(k))
      BY <3>1, <3>2, RecycleKeeps
    <3>3. CASE UNCHANGED <<mFramePool, live, held>>
      BY <3>1, <3>3 DEF Lost
    <3> QED
      BY <1>42, <3>2, <3>3 DEF CaptureEnd
  <2>2. (MayLose' => MayLose) /\ UNCHANGED starts
    BY <1>42 DEF MayLose, CaptureEnd, Recycle, RecycleFrames, Min2,
         CaptureOnly, CaptureGoto
  <2> QED
    BY <2>1, <2>2, LostSame
<1>43. ASSUME NEW k \in Capturers, CaptureBroadcast(k) PROVE LostByStop'
  <2>1. Lost' = Lost
    BY <1>43 DEF Lost, CaptureBroadcast, CaptureOnly
  <2>2. (MayLose' => MayLose) /\ UNCHANGED starts
    BY <1>43 DEF MayLose, CaptureBroadcast, BroadcastCapture, CaptureOnly,
         CaptureGoto
  <2> QED
    BY <2>1, <2>2, LostSame
<1>44. CASE SpuriousWakeup
  <2>1. Lost' = Lost
    BY <1>44 DEF Lost, SpuriousWakeup
  <2>2. (MayLose' => MayLose) /\ UNCHANGED starts
    BY <1>44 DEF MayLose, SpuriousWakeup, SignalPreview, SignalCapture
  <2> QED
    BY <2>1, <2>2, LostSame
<1> QED
  BY <1>1, <1>2, <1>3, <1>4, <1>5, <1>6, <1>7, <1>8, <1>9, <1>10, <1>11,
     <1>12, <1>13, <1>14, <1>15, <1>16, <1>17, <1>18, <1>19, <1>20, <1>21,
     <1>22, <1>23, <1>24, <1>25, <1>26, <1>27, <1>28, <1>29, <1>30, <1>31,
     <1>32, <1>33, <1>34, <1>35, <1>36, <1>37, <1>38, <1>39, <1>40, <1>41,
     <1>42, <1>43, <1>44
     DEF Next, ClientStep, ReplaceStep, UvcStep, PreviewStep, CaptureStep

-----------------------------------------------------------------------------
(***************************************************************************)
(* The theorems.                                                           *)
(***************************************************************************)
\* The inductive invariant holds initially.
LEMMA InitInv == Init => IInv
<1> SUFFICES ASSUME Init PROVE IInv
  OBVIOUS
<1>1. TypeOK
  <2>1. FlagsOK
    BY DEF Init, FlagsOK
  <2>2. ArraysOK
    BY DEF Init, ArraysOK
  <2>3. SyncOK
    BY DEF Init, SyncOK
  <2>4. ThreadsOK
    BY DEF Init, ThreadsOK
  <2> QED
    BY <2>1, <2>2, <2>3, <2>4 DEF TypeOK
<1>2. HeldByPc
  BY DEF Init, HeldByPc
<1>3. Lifecycle /\ EmptyBetween /\ NoSleepOnFrame
  BY DEF Init, Lifecycle, EmptyBetween, NoSleepOnFrame, Calm
<1>4. LostByStop
  BY FS_EmptySet DEF Init, LostByStop, MayLose, Lost
<1> QED
  BY <1>1, <1>2, <1>3, <1>4 DEF IInv

\* Every step keeps it.
LEMMA StepInv == IInv /\ [Next]_vars => IInv'
<1>1. ASSUME IInv, Next PROVE IInv'
  BY <1>1, TypeStep, HeldStep, LifecycleStep, EmptyStep, LostStep, NoSleepStep
     DEF IInv
<1>2. ASSUME IInv, UNCHANGED vars PROVE IInv'
  <2>1. TypeOK'
    BY <1>2 DEF IInv, TypeOK, FlagsOK, ArraysOK, SyncOK, ThreadsOK
  <2>2. HeldByPc' /\ Lifecycle'
    BY <1>2 DEF IInv, HeldByPc, Lifecycle, Calm
  <2>3. EmptyBetween' /\ NoSleepOnFrame'
    BY <1>2 DEF IInv, EmptyBetween, NoSleepOnFrame, Calm
  <2>4. LostByStop'
    BY <1>2 DEF IInv, LostByStop, Lost, MayLose
  <2> QED
    BY <2>1, <2>2, <2>3, <2>4 DEF IInv
<1> QED
  BY <1>1, <1>2

\* The inductive invariant holds in every reachable state.
THEOREM Invariance == Spec => []IInv
  BY InitInv, StepInv, PTL DEF Spec

\* No frame buffer is ever given back twice, and every preview loses at most
\* one, for any number of capture threads left over by racing stops.
THEOREM FramesAccountedFor == Spec => []FramesAccounted
<1>1. IInv => FramesAccounted
  <2> SUFFICES ASSUME IInv PROVE FramesAccounted
    OBVIOUS
  <2>1. Lost \in Int /\ starts \in Nat
    BY LostType DEF IInv, TypeOK, ThreadsOK
  <2> QED
    BY <2>1 DEF IInv, LostByStop, FramesAccounted
<1> QED
  BY <1>1, Invariance, PTL

\* A worker never sleeps while a frame waits for it.
THEOREM NeverAsleepOnFrame == Spec => []NoSleepOnFrame
<1>1. IInv => NoSleepOnFrame
  BY DEF IInv
<1> QED
  BY <1>1, Invariance, PTL

\* A stopped preview leaves no frame and no worker of the stream behind.
THEOREM StoppedQueuesEmpty == Spec => []StoppedIsEmpty
<1>1. IInv => StoppedIsEmpty
  BY DEF IInv, StoppedIsEmpty, Lifecycle, EmptyBetween, Calm, TypeOK, ThreadsOK
<1> QED
  BY <1>1, Invariance, PTL

-----------------------------------------------------------------------------
(***************************************************************************)
(* The preview uses the stream by its contract.                            *)
(***************************************************************************)
\* What the application threads do is out of the contract's sight.
LEMMA ClientContract ==
    ASSUME IInv, \/ SetPreviewDisplay \/ StartPreview \/ ClientStep
                 \/ \E c \in Callers : Call(c) \/ ReplaceStep(c)
                 \/ SpuriousWakeup
    PROVE  UNCHANGED <<StreamPhase, uvc # "idle">>
<1>1. CASE CreatePreviewThread \/ JoinPreview
  <2>1. preview \in {"none", "exited"} /\ ~streaming
    BY <1>1 DEF CreatePreviewThread, JoinPreview, IInv, Lifecycle
  <2>2. UNCHANGED <<streaming, uvc>> /\ preview' # "drain"
    BY <1>1, <2>1 DEF CreatePreviewThread, JoinPreview, SignalPreview
  <2> QED
    BY <2>1, <2>2 DEF StreamPhase
<1>2. CASE \/ SetPreviewDisplay \/ StartPreview \/ StopPreview
           \/ StopSignalPreview \/ StopSignalCapture \/ JoinCapture
           \/ StopClearPreview \/ StopClearCapture \/ ReleaseWindows
           \/ SpuriousWakeup
  <2>1. CASE SetPreviewDisplay \/ StartPreview \/ StopPreview \/ ReleaseWindows
    BY <2>1 DEF SetPreviewDisplay, StartPreview, StopPreview, ReleaseWindows,
         workers, stream, StreamPhase
  <2>2. CASE StopSignalPreview \/ StopSignalCapture \/ JoinCapture
    BY <2>2 DEF StopSignalPreview, StopSignalCapture, JoinCapture, workers,
         stream, StreamPhase
  <2>3. CASE StopClearPreview \/ StopClearCapture \/ SpuriousWakeup
    BY <2>3 DEF StopClearPreview, StopClearCapture, SpuriousWakeup, workers,
         stream, StreamPhase
  <2> QED
    BY <1>2, <2>1, <2>2, <2>3
<1>3. ASSUME NEW c \in Callers, Call(c) \/ ReplaceStep(c)
      PROVE  UNCHANGED <<StreamPhase, uvc # "idle">>
  <2>1. CASE Call(c)
    BY <2>1 DEF Call, workers, stream, StreamPhase
  <2>2. CASE Replace(c)
    BY <2>2 DEF Replace, Assign, workers, stream, StreamPhase
  <2>3. CASE Handshake(c)
    <3>1. UNCHANGED <<workers, stream>>
      BY <2>3 DEF Handshake
    <3> QED
      BY <3>1 DEF workers, stream, StreamPhase
  <2>4. CASE Replaced(c)
    <3>1. UNCHANGED <<workers, stream>>
      BY <2>4 DEF Replaced, Assign
    <3> QED
      BY <3>1 DEF workers, stream, StreamPhase
  <2> QED
    BY <1>3, <2>1, <2>2, <2>3, <2>4 DEF ReplaceStep
<1> QED
  BY <1>1, <1>2, <1>3 DEF ClientStep

\* Nor does it see what becomes of a frame that was delivered.
LEMMA FrameContract ==
    ASSUME IInv, \/ ClearStale \/ CreateCaptureThread \/ PreviewLoop
                 \/ WaitPreviewFrame \/ Decode \/ Decoded \/ DropBroken
                 \/ Draw \/ DrawDone \/ AddCaptureFrame \/ PreviewSignal
                 \/ \E k \in Capturers : CaptureStep(k)
    PROVE  UNCHANGED <<StreamPhase, uvc # "idle">>
<1>1. CASE \/ ClearStale \/ CreateCaptureThread \/ PreviewLoop
           \/ WaitPreviewFrame \/ PreviewSignal \/ AddCaptureFrame
  <2>1. preview # "drain" /\ preview' # "drain" /\ UNCHANGED <<streaming, uvc>>
    BY <1>1 DEF ClearStale, CreateCaptureThread, PreviewLoop, WaitPreviewFrame,
         PreviewSignal, AddCaptureFrame, PreviewOnly
  <2> QED
    BY <2>1 DEF StreamPhase
<1>2. CASE Decode \/ Decoded \/ DropBroken \/ Draw \/ DrawDone
  <2>1. preview # "drain" /\ preview' # "drain" /\ UNCHANGED <<streaming, uvc>>
    BY <1>2 DEF Decode, Decoded, DropBroken, Draw, DrawDone, PreviewOnly
  <2> QED
    BY <2>1 DEF StreamPhase
<1>3. ASSUME NEW k \in Capturers, CaptureStep(k)
      PROVE  UNCHANGED <<streaming, preview, uvc>>
  <2>1. CASE CaptureStart(k) \/ CaptureLoop(k) \/ CaptureBegin(k)
               \/ CapturePoll(k) \/ WaitCaptureFrame(k) \/ CaptureDraw(k)
    BY <2>1 DEF CaptureStart, CaptureLoop, CaptureBegin, CapturePoll,
         WaitCaptureFrame, CaptureDraw, CaptureOnly
  <2>2. CASE CaptureOffer(k) \/ CaptureConvert(k) \/ CaptureInvoke(k)
               \/ CaptureRecycle(k) \/ CaptureEnd(k) \/ CaptureBroadcast(k)
    BY <2>2 DEF CaptureOffer, CaptureConvert, CaptureInvoke, CaptureRecycle,
         CaptureEnd, CaptureBroadcast, CaptureOnly
  <2> QED
    BY <1>3, <2>1, <2>2 DEF CaptureStep
<1> QED
  BY <1>1, <1>2, <1>3 DEF StreamPhase

\* The preview implements the user's side of StreamContract, for any number
\* of previews: it starts a stream that is stopped, and when its stop returns
\* no frame callback is running.
THEOREM PreviewKeepsContract == Spec => ContractKept
<1>1. Init => Contract!Init
  BY DEF Init, Contract!Init, StreamPhase
<1>2. IInv /\ [Next]_vars => [Contract!Next]_<<StreamPhase, uvc # "idle">>
  <2> SUFFICES ASSUME IInv, [Next]_vars
               PROVE  [Contract!Next]_<<StreamPhase, uvc # "idle">>
    OBVIOUS
  <2>1. CASE StartStreaming
    <3>1. ~streaming /\ UNCHANGED uvc
      BY <2>1 DEF StartStreaming, PreviewOnly, IInv, Lifecycle
    <3>2. CASE streaming' = TRUE
      BY <2>1, <3>1, <3>2 DEF StartStreaming, StreamPhase, Contract!Next,
           Contract!Start
    <3>3. CASE UNCHANGED streaming /\ preview' = "exited"
      BY <2>1, <3>1, <3>3 DEF StartStreaming, StreamPhase
    <3> QED
      BY <2>1, <3>2, <3>3 DEF StartStreaming
  <2>2. CASE StopStreaming
    <3>1. UNCHANGED uvc
      BY <2>2 DEF StopStreaming, PreviewOnly
    <3>2. CASE preview = "stopStream"
      BY <2>2, <3>1, <3>2 DEF StopStreaming, StreamPhase, Contract!Next,
           Contract!Stop, IInv, Lifecycle
    <3>3. CASE preview = "drain"
      BY <2>2, <3>1, <3>3 DEF StopStreaming, StreamPhase, Contract!Next,
           Contract!Stopped, IInv, Lifecycle
    <3> QED
      BY <2>2, <3>2, <3>3 DEF StopStreaming
  <2>3. CASE FrameCallback \/ AddPreviewFrame \/ DropCopy
    <3>1. UNCHANGED <<streaming, preview>>
      BY <2>3 DEF FrameCallback, AddPreviewFrame, DropCopy, UvcOnly
    <3>2. CASE FrameCallback
      BY <3>1, <3>2 DEF FrameCallback, StreamPhase, Contract!Next,
           Contract!BeginCall
    <3>3. CASE AddPreviewFrame \/ DropCopy
      BY <3>1, <3>3 DEF AddPreviewFrame, DropCopy, StreamPhase, Contract!Next,
           Contract!EndCall
    <3> QED
      BY <2>3, <3>2, <3>3
  <2>4. CASE UNCHANGED vars
    BY <2>4 DEF StreamPhase
  <2> QED
    BY <2>1, <2>2, <2>3, <2>4, ClientContract, FrameContract
       DEF Next, PreviewStep, UvcStep
<1> QED
  BY <1>1, <1>2, Invariance, PTL DEF Spec, ContractKept, Contract!Spec
=============================================================================
