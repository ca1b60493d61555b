------------------------ MODULE CameraHandlerProofs ------------------------
(***************************************************************************)
(* Proofs about CameraHandler, for any number of callers and calls: the    *)
(* flags of the camera thread tell the truth, a recording has what it      *)
(* needs, and the thread outlives the encoders.                            *)
(***************************************************************************)
EXTENDS CameraHandler, FiniteSetTheorems, WellFoundedInduction, TLAPS

Ended(e) == {i \in DOMAIN e : e[i] = "ended"}

\* Each encoder announces its end once.
Announced == updates <= Cardinality(Ended(encoder))

\* The recording that runs, known to mMuxer or about to be.
Current == IF thread = "recorded" THEN Len(encoder) ELSE mMuxer

\* An encoder that takes buffers ends without touching anything.
Buffered == mEncoderType # "surface" =>
              \A i \in Recordings : encoder[i] \in {"running", "stopping", "ended"}

\* Recordings that do not overlap: one encoder at most has not ended, and none
\* while the next recording begins.
Alone == \/ overlapped \/ mEncoderType # "surface"
         \/ /\ \A i, j \in Recordings :
                  encoder[i] # "ended" /\ encoder[j] # "ended" => i = j
            /\ thread = "record" => \A i \in Recordings : encoder[i] = "ended"

\* What the camera thread knows of the camera and the muxer while it is inside
\* a handler.
ThreadByPc ==
    /\ thread \in {"destroy", "open", "release", "quit", "ended"} => ~mUVCCamera
    /\ thread \in {"record", "recorded", "unset", "take", "destroy", "open",
                   "release", "quit", "ended"} => mMuxer = 0
    /\ 0 \in leaving => thread = "destroy"
    /\ thread \in {"take", "destroy"} => after # "none"

\* Whether the camera previews, and whether mIsPreviewing says so.
PreviewByPc ==
    /\ previewing => mUVCCamera
    /\ thread \in {"start", "started"} => ~mIsPreviewing
    /\ thread \in {"stop", "stopped"} => mIsPreviewing
    /\ thread = "stopped" => ~previewing
    /\ thread = "started" => previewing \/ misled
    /\ previewing /\ thread # "started" => mIsPreviewing
    /\ mIsPreviewing => previewing \/ misled \/ thread = "stopped"

\* A recording that begins or runs keeps its camera.
HasCamera == Current # 0 \/ thread = "record" => overlapped \/ mUVCCamera

Supplied ==
    /\ thread = "recorded" => Len(encoder) > 0
    /\ Current # 0 =>
          /\ encoder[Current] = "running"
          /\ mEncoderType = "surface" => overlapped \/ (mIsRecording /\ capturing)

\* As long as an encoder works mIsRecording says so.
Idle == \A i \in Recordings : encoder[i] \notin {"running", "stopping"}
Busy == overlapped \/ mIsRecording \/ Idle

IInv == /\ TypeOK /\ Announced /\ Buffered /\ Alone /\ ThreadByPc /\ PreviewByPc
        /\ HasCamera /\ Supplied /\ Busy /\ QuitAfterEncoders
-----------------------------------------------------------------------------
(***************************************************************************)
(* removeMessages.                                                         *)
(***************************************************************************)
Less == {p \in Nat \X Nat : p[1] < p[2]}

\* A set of natural numbers has a least element.
LEMMA Least ==
    ASSUME NEW T \in SUBSET Nat, T # {}
    PROVE  \E n \in T : \A m \in T : n <= m
<1>1. IsWellFoundedOn(Less, Nat)
    BY NatLessThanWellFounded, Zenon DEF Less, OpToRel
<1>2. PICK n \in T : \A m \in T : <<m, n>> \notin Less
    BY <1>1, WFMin, Zenon
<1>3. \A m \in T : n <= m
    <2> SUFFICES ASSUME NEW m \in T PROVE n <= m
        OBVIOUS
    <2>1. <<m, n>> \in Nat \X Nat /\ ~(m < n)
        BY <1>2 DEF Less
    <2> QED
        BY <2>1
<1> QED
    BY <1>3

LEMMA KeptFinite ==
    ASSUME NEW S, NEW q \in Seq(S), NEW m
    PROVE  /\ Kept(q, m) \subseteq 1 .. Len(q) /\ IsFiniteSet(Kept(q, m))
           /\ Cardinality(Kept(q, m)) \in Nat
<1>1. Kept(q, m) \subseteq 1 .. Len(q)
    BY DEF Kept
<1>2. IsFiniteSet(1 .. Len(q))
    BY FS_Interval
<1>3. IsFiniteSet(Kept(q, m))
    BY <1>1, <1>2, FS_Subset
<1> QED
    BY <1>1, <1>3, FS_CardinalityType

\* Every rank up to the number of messages that are kept is the rank of one,
\* and so Without returns a queue of messages.
LEMMA WithoutType ==
    ASSUME NEW S, NEW q \in Seq(S), NEW m
    PROVE  Without(q, m) \in Seq(S)
<1> DEFINE K == Kept(q, m)
           low == [i \in Nat |-> Cardinality(K \cap 1 .. i)]
<1>1. K \subseteq 1 .. Len(q) /\ IsFiniteSet(K) /\ Cardinality(K) \in Nat
    BY KeptFinite
<1> HIDE DEF K
<1>2. \A i \in Nat : IsFiniteSet(K \cap 1 .. i) /\ Cardinality(K \cap 1 .. i) \in Nat
    <2>1. \A i \in Nat : IsFiniteSet(K \cap 1 .. i)
        BY <1>1, FS_Subset
    <2> QED
        BY <2>1, FS_CardinalityType
<1>3. low \in [Nat -> Nat]
    BY <1>2
<1>4. low[0] = 0
    <2>1. K \cap 1 .. 0 = {}
        OBVIOUS
    <2> QED
        BY <2>1, FS_EmptySet
<1>5. low[Len(q)] = Cardinality(K)
    <2>1. K \cap 1 .. Len(q) = K
        BY <1>1
    <2> QED
        BY <2>1
<1>6. ASSUME NEW n \in Nat \ {0}
      PROVE  low[n] = IF n \in K THEN low[n - 1] + 1 ELSE low[n - 1]
    <2>1. n - 1 \in Nat /\ n \notin K \cap 1 .. (n - 1)
        OBVIOUS
    <2>2. K \cap 1 .. n = IF n \in K THEN (K \cap 1 .. (n - 1)) \cup {n}
                                     ELSE K \cap 1 .. (n - 1)
        BY <1>1
    <2>3. Cardinality((K \cap 1 .. (n - 1)) \cup {n})
            = Cardinality(K \cap 1 .. (n - 1)) + 1
        BY <1>2, <2>1, FS_AddElement
    <2>4. low[n] = Cardinality(K \cap 1 .. n)
            /\ low[n - 1] = Cardinality(K \cap 1 .. (n - 1))
        BY <2>1
    <2> QED
        BY <2>2, <2>3, <2>4
<1>7. \A i \in K : low[i] = Cardinality(K \cap 1 .. i)
    BY <1>1
<1> HIDE DEF low
<1>8. ASSUME NEW k \in 1 .. Cardinality(K) PROVE \E i \in K : low[i] = k
    <2> DEFINE T == {n \in Nat : low[n] >= k}
    <2>1. Len(q) \in T
        BY <1>1, <1>5
    <2>2. PICK n \in T : \A j \in T : n <= j
        BY <2>1, Least
    <2>3. n \in Nat \ {0} /\ low[n] >= k
        BY <1>1, <1>4, <2>2
    <2>4. n - 1 \in Nat /\ low[n - 1] < k
        BY <1>1, <1>3, <2>2, <2>3
    <2>5. low[n] \in Nat /\ low[n - 1] \in Nat
        BY <1>3, <2>3, <2>4
    <2>6. n \in K /\ low[n] = low[n - 1] + 1
        BY <1>6, <2>3, <2>4, <2>5
    <2>7. low[n] = k
        BY <1>1, <2>3, <2>4, <2>5, <2>6
    <2> QED
        BY <2>6, <2>7
<1>9. ASSUME NEW k \in 1 .. Cardinality(K)
      PROVE  q[CHOOSE i \in K : Cardinality(K \cap 1 .. i) = k] \in S
    <2>1. \E i \in K : Cardinality(K \cap 1 .. i) = k
        BY <1>7, <1>8
    <2>2. (CHOOSE i \in K : Cardinality(K \cap 1 .. i) = k) \in K
        BY <2>1
    <2>3. \A i \in K : q[i] \in S
        BY <1>1
    <2> QED
        BY <2>2, <2>3, Zenon
<1>10. Without(q, m) \in [1 .. Cardinality(K) -> S]
    BY <1>9 DEF Without, K
<1> QED
    BY <1>1, <1>10

-----------------------------------------------------------------------------
LEMMA EndedFinite ==
    ASSUME NEW e \in Seq(Status)
    PROVE  /\ IsFiniteSet(Ended(e)) /\ Cardinality(Ended(e)) \in Nat
           /\ Cardinality(Ended(e)) <= Len(e)
<1>1. Len(e) \in Nat /\ Ended(e) \subseteq 1 .. Len(e)
    BY DEF Ended
<1>2. \A n \in Nat : IsFiniteSet(1 .. n) /\ Cardinality(1 .. n) = n
    BY FS_Interval
<1>3. IsFiniteSet(Ended(e)) /\ Cardinality(Ended(e)) <= Len(e)
    BY <1>1, <1>2, FS_Subset
<1> QED
    BY <1>3, FS_CardinalityType

LEMMA Initially == Init => IInv
<1> SUFFICES ASSUME Init PROVE IInv
    OBVIOUS
<1>1. TypeOK
    <2>1. {destroyed, mReleased, mUVCCamera, mIsPreviewing, mIsRecording, previewing,
           capturing, misled, overlapped, unannounced} \subseteq BOOLEAN
        BY DEF Init
    <2>2. queue \in Seq(Messages) /\ encoder \in Seq(Status) /\ Len(encoder) = 0
        BY DEF Init
    <2> QED
        BY <2>1, <2>2, HandlerAssumption
        DEF Init, TypeOK, Messages, Methods, Senders, CallerPc, ThreadPc
<1>2. Announced
    <2>1. Ended(encoder) = {}
        BY DEF Init, Ended
    <2> QED
        BY <2>1, FS_EmptySet DEF Init, Announced
<1>3. ThreadByPc /\ PreviewByPc /\ HasCamera /\ Supplied
    BY DEF Init, ThreadByPc, PreviewByPc, HasCamera, Supplied, Current
<1>4. Buffered /\ Alone /\ Busy /\ QuitAfterEncoders
    BY DEF Init, Buffered, Alone, Busy, Idle, QuitAfterEncoders, Recordings
<1> QED
    BY <1>1, <1>2, <1>3, <1>4 DEF IInv

-----------------------------------------------------------------------------
\* A caller touches nothing of what the invariant relates.
LEMMA ClientsKeep ==
    ASSUME IInv, TypeOK',
           UNCHANGED <<mEncoderType, updates, thread, after, camera, mIsPreviewing,
                       recorder, history>>
    PROVE  IInv'
BY DEF IInv, camera, recorder, history, Announced, Ended, Recordings, Buffered,
       Alone, ThreadByPc, PreviewByPc, HasCamera, Supplied, Current, Busy, Idle,
       QuitAfterEncoders

LEMMA CallerKeeps ==
    ASSUME IInv, NEW c \in Callers,
           CallerStep(c) \/ \E m \in Methods : Call(c, m)
    PROVE  IInv'
<1> USE DEF Goto, Leave, ClientOnly, camera, recorder, history
<1>1. ASSUME NEW m \in Messages, NEW q \in Seq(Messages)
      PROVE  Enqueue(q, m) \in Seq(Messages)
    BY DEF Enqueue
<1>2. CASE \E m \in Methods : Call(c, m)
    <2> PICK m \in Methods : Call(c, m)
        BY <1>2
    <2>1. TypeOK'
        BY HandlerAssumption DEF Call, IInv, TypeOK, Methods, Senders, Messages, CallerPc
    <2> QED
        BY <2>1, ClientsKeep DEF Call
<1>3. CASE SendMessage(c)
    <2>1. TypeOK'
        BY <1>1, <1>3 DEF SendMessage, IInv, TypeOK, Messages, Methods, Senders, CallerPc
    <2> QED
        BY <1>3, <2>1, ClientsKeep DEF SendMessage
<1>4. CASE Close(c)
    <2>1. TypeOK'
        BY <1>4 DEF Close, IInv, TypeOK, Messages, Methods, Senders, CallerPc
    <2> QED
        BY <1>4, <2>1, ClientsKeep DEF Close
<1>5. CASE StopPreview(c)
    <2>1. Without(queue, "previewStart") \in Seq(Messages)
        BY WithoutType DEF IInv, TypeOK
    <2>2. queue' \in Seq(Messages)
        BY <1>1, <1>5, <2>1 DEF StopPreview, Messages
    <2>3. TypeOK'
        BY <1>5, <2>2 DEF StopPreview, IInv, TypeOK, CallerPc
    <2> QED
        BY <1>5, <2>3, ClientsKeep DEF StopPreview
<1>6. CASE IsPreviewing(c)
    <2>1. TypeOK'
        BY <1>6 DEF IsPreviewing, IInv, TypeOK, CallerPc
    <2> QED
        BY <1>6, <2>1, ClientsKeep DEF IsPreviewing
<1>7. CASE WaitStopped(c)
    <2>1. queue' \in Seq(Messages)
        BY <1>1, <1>7 DEF WaitStopped, IInv, TypeOK, Messages
    <2>2. TypeOK'
        BY <1>7, <2>1 DEF WaitStopped, IInv, TypeOK, CallerPc
    <2> QED
        BY <1>7, <2>2, ClientsKeep DEF WaitStopped
<1>8. CASE Return(c)
    <2>1. TypeOK'
        BY <1>8 DEF Return, IInv, TypeOK, Messages, Methods, Senders, CallerPc
    <2> QED
        BY <1>8, <2>1, ClientsKeep DEF Return
<1> QED
    BY <1>2, <1>3, <1>4, <1>5, <1>6, <1>7, <1>8 DEF CallerStep

-----------------------------------------------------------------------------
\* A step of the camera thread that leaves the encoders alone.
LEMMA RecordingAlone ==
    ASSUME IInv, TypeOK', thread # "recorded", thread' \notin {"record", "recorded"},
           thread' \in {"quit", "ended"} => thread \in {"quit", "ended"} \/ ~mIsRecording,
           UNCHANGED <<recorder, mEncoderType, overlapped>>, updates' <= updates,
           mMuxer # 0 => UNCHANGED <<mUVCCamera, capturing>>
    PROVE  /\ Announced' /\ Buffered' /\ Alone' /\ HasCamera' /\ Supplied'
           /\ Busy' /\ QuitAfterEncoders'
<1> USE DEF recorder
<1>1. Announced'
    BY EndedFinite DEF IInv, TypeOK, Announced
<1>2. Buffered' /\ Alone'
    BY DEF IInv, Buffered, Alone, Recordings
<1>3. HasCamera' /\ Supplied'
    BY DEF IInv, HasCamera, Supplied, Current
<1>4. Busy' /\ QuitAfterEncoders'
    BY DEF IInv, TypeOK, Busy, Idle, QuitAfterEncoders, Recordings
<1> QED
    BY <1>1, <1>2, <1>3, <1>4

LEMMA PreviewKeeps ==
    ASSUME IInv, HandleStartPreview \/ HandleStopPreview
    PROVE  IInv'
<1> USE DEF Asleep, ThreadOnly, history, recorder, NotifyAll, ThreadPc, Dies
<1>1. CASE HandleStartPreview
    <2>1. TypeOK'
        BY <1>1 DEF HandleStartPreview, IInv, TypeOK
    <2>2. ThreadByPc' /\ PreviewByPc'
        BY <1>1 DEF HandleStartPreview, IInv, TypeOK, ThreadByPc, PreviewByPc
    <2>3. /\ thread # "recorded" /\ thread' \notin {"record", "recorded", "quit", "ended"}
          /\ UNCHANGED <<recorder, mEncoderType, overlapped, updates, mUVCCamera, capturing>>
        BY <1>1 DEF HandleStartPreview
    <2> QED
        BY <2>1, <2>2, <2>3, RecordingAlone DEF IInv, TypeOK
<1>2. CASE HandleStopPreview
    <2>1. caller' \in [Callers -> CallerPc]
        BY <1>2 DEF HandleStopPreview, IInv, TypeOK, CallerPc
    <2>2. TypeOK'
        BY <1>2, <2>1 DEF HandleStopPreview, IInv, TypeOK
    <2>3. ThreadByPc' /\ PreviewByPc'
        BY <1>2 DEF HandleStopPreview, IInv, TypeOK, ThreadByPc, PreviewByPc
    <2>4. /\ thread # "recorded" /\ thread' \notin {"record", "recorded", "quit", "ended"}
          /\ UNCHANGED <<recorder, mEncoderType, overlapped, updates, mUVCCamera, capturing>>
        BY <1>2 DEF HandleStopPreview
    <2> QED
        BY <2>2, <2>3, <2>4, RecordingAlone DEF IInv, TypeOK
<1> QED
    BY <1>1, <1>2

LEMMA CameraKeeps ==
    ASSUME IInv, HandleClose \/ HandleOpen \/ HandleUpdateMedia
    PROVE  IInv'
<1> USE DEF Asleep, ThreadOnly, history, camera, recorder, ThreadPc
<1>1. CASE HandleClose
    <2> USE DEF TakeCamera
    <2>1. TypeOK'
        <3>1. leaving' \subseteq 0 .. Len(encoder)
            <4>1. 0 \in 0 .. Len(encoder)
                BY DEF IInv, TypeOK
            <4> QED
                BY <1>1, <4>1 DEF HandleClose, IInv, TypeOK
        <3>2. {mUVCCamera, previewing, capturing, misled}' \subseteq BOOLEAN
            BY <1>1 DEF HandleClose, IInv, TypeOK
        <3>3. thread' \in ThreadPc
            <4>1. CASE thread = "take"
                BY <1>1, <4>1 DEF HandleClose
            <4>2. CASE thread = "destroy"
                BY <1>1, <4>2 DEF HandleClose, IInv, TypeOK, ThreadByPc
            <4> QED
                BY <1>1, <4>1, <4>2 DEF HandleClose
        <3>4. after' \in {"loop", "open", "release", "none"}
            BY <1>1 DEF HandleClose, IInv, TypeOK
        <3> QED
            BY <1>1, <3>1, <3>2, <3>3, <3>4 DEF HandleClose, IInv, TypeOK
    <2>2. ThreadByPc' /\ PreviewByPc'
        BY <1>1 DEF HandleClose, IInv, TypeOK, ThreadByPc, PreviewByPc
    <2>3. /\ thread # "recorded" /\ thread' \notin {"record", "recorded", "quit", "ended"}
          /\ UNCHANGED <<recorder, mEncoderType, overlapped, updates>> /\ mMuxer = 0
        BY <1>1 DEF HandleClose, IInv, TypeOK, ThreadByPc
    <2> QED
        BY <2>1, <2>2, <2>3, RecordingAlone DEF IInv, TypeOK
<1>2. CASE HandleOpen
    <2>1. TypeOK'
        BY <1>2 DEF HandleOpen, IInv, TypeOK
    <2>2. ThreadByPc' /\ PreviewByPc'
        BY <1>2 DEF HandleOpen, IInv, TypeOK, ThreadByPc, PreviewByPc
    <2>3. mMuxer = 0
        BY <1>2 DEF HandleOpen, IInv, ThreadByPc
    <2> QED
        BY <1>2, <2>1, <2>2, <2>3, RecordingAlone DEF HandleOpen, IInv, TypeOK
<1>3. CASE HandleUpdateMedia
    <2>1. TypeOK'
        BY <1>3 DEF HandleUpdateMedia, IInv, TypeOK
    <2>2. ThreadByPc' /\ PreviewByPc'
        BY <1>3 DEF HandleUpdateMedia, IInv, TypeOK, ThreadByPc, PreviewByPc
    <2> QED
        BY <1>3, <2>1, <2>2, RecordingAlone DEF HandleUpdateMedia, IInv, TypeOK
<1> QED
    BY <1>1, <1>2, <1>3

LEMMA ReleaseKeeps ==
    ASSUME IInv, HandleRelease \/ Quit
    PROVE  IInv'
<1> USE DEF Asleep, ThreadOnly, history, camera, recorder, NotifyAll, ThreadPc
<1>1. CASE HandleRelease
    <2>1. TypeOK'
        <3>1. CASE mIsRecording
            BY <1>1, <3>1 DEF HandleRelease, IInv, TypeOK
        <3>2. CASE ~mIsRecording
            <4>1. 0 \in 0 .. Len(encoder) /\ <<>> \in Seq(Messages)
                BY DEF IInv, TypeOK
            <4> QED
                BY <1>1, <3>2, <4>1 DEF HandleRelease, IInv, TypeOK
        <3> QED
            BY <3>1, <3>2
    <2>2. ThreadByPc' /\ PreviewByPc'
        BY <1>1 DEF HandleRelease, IInv, TypeOK, ThreadByPc, PreviewByPc
    <2> QED
        BY <1>1, <2>1, <2>2, RecordingAlone DEF HandleRelease, IInv, TypeOK
<1>2. CASE Quit
    <2>1. caller' \in [Callers -> CallerPc]
        BY <1>2 DEF Quit, IInv, TypeOK, CallerPc
    <2>2. TypeOK'
        BY <1>2, <2>1 DEF Quit, IInv, TypeOK
    <2>3. ThreadByPc' /\ PreviewByPc'
        BY <1>2 DEF Quit, IInv, TypeOK, ThreadByPc, PreviewByPc
    <2> QED
        BY <1>2, <2>2, <2>3, RecordingAlone DEF Quit, IInv, TypeOK
<1> QED
    BY <1>1, <1>2

LEMMA MessageKeeps ==
    ASSUME IInv, HandleMessage
    PROVE  IInv'
<1> USE DEF HandleMessage, Asleep, ThreadOnly, camera, recorder, ThreadPc
<1>1. queue' \in Seq(Messages) /\ Head(queue) \in Messages
    BY DEF IInv, TypeOK
<1>2. /\ thread' \in {"loop", "start", "stop", "stopped", "record", "stopRecording"}
      /\ thread' = "start" => mUVCCamera /\ ~mIsPreviewing
      /\ thread' = "stop" => mIsPreviewing
      /\ thread' = "stopped" => mIsPreviewing /\ ~mUVCCamera
      /\ thread' = "record" => mUVCCamera /\ mMuxer = 0
    BY <1>1 DEF Handler, Messages
<1>3. after' \in {"loop", "open", "release", "none"}
    BY DEF After
<1>4. TypeOK'
    <2>1. overlapped' \in BOOLEAN
        BY DEF IInv, TypeOK
    <2> QED
        BY <1>1, <1>2, <1>3, <2>1 DEF IInv, TypeOK
<1>5. ThreadByPc' /\ PreviewByPc'
    BY <1>2 DEF IInv, TypeOK, ThreadByPc, PreviewByPc
<1>6. CASE thread' # "record"
    <2>1. overlapped' = overlapped
        BY <1>6 DEF IInv, TypeOK
    <2>2. updates' <= updates
        BY DEF IInv, TypeOK
    <2> QED
        BY <1>2, <1>4, <1>5, <1>6, <2>1, <2>2, RecordingAlone DEF IInv
<1>7. CASE thread' = "record"
    <2>1. overlapped => overlapped'
        OBVIOUS
    <2>2. \/ overlapped' \/ mEncoderType # "surface"
          \/ \A i \in Recordings : encoder[i] = "ended"
        BY <1>7
    <2>3. Buffered' /\ Announced'
        BY DEF IInv, Buffered, Announced, Ended, Recordings
    <2>4. Alone'
        BY <2>1, <2>2 DEF IInv, Alone, Recordings
    <2>5. HasCamera' /\ Supplied'
        BY <1>2, <1>7 DEF HasCamera, Supplied, Current
    <2>6. Busy' /\ QuitAfterEncoders'
        BY <1>7, <2>1 DEF IInv, Busy, Idle, QuitAfterEncoders, Recordings
    <2> QED
        BY <1>4, <1>5, <2>3, <2>4, <2>5, <2>6 DEF IInv
<1> QED
    BY <1>6, <1>7

-----------------------------------------------------------------------------
\* The encoders, after the one of the recording in progress was asked to stop.
LEMMA Stopped ==
    ASSUME IInv, thread # "recorded", NEW e \in Seq(Status), Len(e) = Len(encoder),
           \A i \in Recordings :
             \/ e[i] = encoder[i]
             \/ i = mMuxer /\ e[i] = "stopping"
    PROVE  /\ Ended(e) = Ended(encoder) /\ DOMAIN e = Recordings
           /\ \A i \in Recordings :
                /\ e[i] = "ended" <=> encoder[i] = "ended"
                /\ e[i] \in {"running", "stopping"} <=> encoder[i] \in {"running", "stopping"}
                /\ e[i] \in {"running", "stopping", "ended"} \/ e[i] = encoder[i]
<1>1. DOMAIN e = 1 .. Len(encoder) /\ Recordings = 1 .. Len(encoder)
    BY DEF IInv, TypeOK, Recordings
<1>2. mMuxer # 0 => encoder[mMuxer] = "running"
    BY DEF IInv, Supplied, Current
<1>3. \A i \in Recordings : i = mMuxer => encoder[i] = "running"
    BY <1>1, <1>2
<1>4. \A i \in Recordings : e[i] = "ended" <=> encoder[i] = "ended"
    BY <1>3
<1>5. Ended(e) = Ended(encoder)
    BY <1>1, <1>4 DEF Ended
<1> QED
    BY <1>1, <1>3, <1>4, <1>5

\* What holds of the recordings after such a step, when mMuxer is null.
LEMMA NothingRuns ==
    ASSUME IInv, TypeOK', mMuxer' = 0, thread' \notin {"record", "recorded"},
           thread' \in {"quit", "ended"} => thread \in {"quit", "ended"},
           Ended(encoder') = Ended(encoder), Recordings' = Recordings,
           UNCHANGED <<updates, mEncoderType, overlapped, mIsRecording>>,
           \A i \in Recordings :
             /\ encoder'[i] = "ended" <=> encoder[i] = "ended"
             /\ encoder'[i] \in {"running", "stopping"} <=> encoder[i] \in {"running", "stopping"}
             /\ encoder'[i] \in {"running", "stopping", "ended"} \/ encoder'[i] = encoder[i]
    PROVE  /\ Announced' /\ Buffered' /\ Alone' /\ HasCamera' /\ Supplied'
           /\ Busy' /\ QuitAfterEncoders'
<1>1. Announced' /\ Buffered'
    BY DEF IInv, Announced, Buffered
<1>2. Alone'
    BY DEF IInv, Alone
<1>3. HasCamera' /\ Supplied'
    BY DEF HasCamera, Supplied, Current
<1>4. Busy' /\ QuitAfterEncoders'
    BY DEF IInv, Busy, Idle, QuitAfterEncoders
<1> QED
    BY <1>1, <1>2, <1>3, <1>4

LEMMA StopRecordingKeeps ==
    ASSUME IInv, HandleStopRecording
    PROVE  IInv'
<1> USE DEF HandleStopRecording, Asleep, ThreadOnly, history, ThreadPc, Proceed
<1>1. CASE thread = "stopRecording"
    <2>1. StopRecording
        BY <1>1
    <2>2. /\ thread' \in {"unset", "loop", "take"} /\ mMuxer' = 0 /\ capturing' = FALSE
          /\ after' \in {after, "loop"}
        BY <1>1 DEF StopRecording
    <2>3. /\ encoder' \in Seq(Status) /\ Len(encoder') = Len(encoder)
          /\ \A i \in Recordings : \/ encoder'[i] = encoder[i]
                                   \/ i = mMuxer /\ encoder'[i] = "stopping"
        BY <2>1 DEF StopRecording, IInv, TypeOK, Recordings, Status
    <2>4. TypeOK'
        <3>1. mMuxer' \in 0 .. Len(encoder')
            <4>1. Len(encoder') \in Nat /\ mMuxer' = 0
                BY <2>2, <2>3
            <4> QED
                BY <4>1
        <3>2. after' \in {"loop", "open", "release", "none"} /\ thread' \in ThreadPc
            BY <2>2 DEF IInv, TypeOK
        <3> QED
            BY <1>1, <2>2, <2>3, <3>1, <3>2 DEF IInv, TypeOK
    <2>5. ThreadByPc' /\ PreviewByPc'
        BY <1>1, <2>2 DEF IInv, TypeOK, ThreadByPc, PreviewByPc
    <2>6. Ended(encoder') = Ended(encoder) /\ Recordings' = Recordings
        BY <1>1, <2>3, Stopped DEF Recordings
    <2>7. \A i \in Recordings :
            /\ encoder'[i] = "ended" <=> encoder[i] = "ended"
            /\ encoder'[i] \in {"running", "stopping"} <=> encoder[i] \in {"running", "stopping"}
            /\ encoder'[i] \in {"running", "stopping", "ended"} \/ encoder'[i] = encoder[i]
        BY <1>1, <2>3, Stopped
    <2>8. UNCHANGED <<updates, mEncoderType, overlapped, mIsRecording>>
        BY <1>1
    <2> QED
        BY <2>2, <2>4, <2>5, <2>6, <2>7, <2>8, NothingRuns DEF IInv
<1>2. CASE thread = "unset"
    <2>1. /\ thread' \in {"died", "loop", "take"} /\ after' \in {after, "loop"}
          /\ UNCHANGED <<recorder, camera>>
        BY <1>2 DEF recorder, camera
    <2>2. TypeOK'
        BY <1>2, <2>1 DEF IInv, TypeOK, recorder, camera
    <2>3. ThreadByPc' /\ PreviewByPc'
        BY <1>2, <2>1 DEF IInv, TypeOK, ThreadByPc, PreviewByPc, recorder, camera
    <2>4. updates' <= updates /\ UNCHANGED <<mEncoderType, overlapped, mUVCCamera, capturing>>
        BY <1>2, <2>1 DEF IInv, TypeOK, camera
    <2> QED
        BY <1>2, <2>1, <2>2, <2>3, <2>4, RecordingAlone DEF IInv
<1> QED
    BY <1>1, <1>2

-----------------------------------------------------------------------------
LEMMA RecordingKeeps ==
    ASSUME IInv, HandleStartRecording
    PROVE  IInv'
<1> USE DEF HandleStartRecording, Asleep, ThreadOnly, history, ThreadPc
<1>0. mMuxer = 0 /\ mMuxer' = 0 /\ (overlapped \/ mUVCCamera)
    BY DEF IInv, ThreadByPc, HasCamera
<1>1. CASE thread' = "recorded"
    <2>1. /\ encoder' = Append(encoder, "running") /\ mIsRecording'
          /\ mEncoderType = "surface" => overlapped \/ capturing'
        BY <1>0, <1>1
    <2>2. /\ encoder' \in Seq(Status) /\ Len(encoder') = Len(encoder) + 1
          /\ encoder'[Len(encoder')] = "running"
          /\ \A i \in 1 .. Len(encoder) : encoder'[i] = encoder[i]
        BY <2>1 DEF IInv, TypeOK, Status
    <2>3. /\ Recordings = 1 .. Len(encoder) /\ Recordings' = 1 .. (Len(encoder) + 1)
          /\ Len(encoder) \in Nat
        BY <2>2 DEF IInv, TypeOK, Recordings
    <2>4. Ended(encoder') = Ended(encoder)
        BY <2>2, <2>3 DEF Recordings, Ended
    <2>5. TypeOK'
        <3>1. leaving \subseteq 0 .. Len(encoder') /\ updates \in 0 .. Len(encoder')
              /\ mMuxer' \in 0 .. Len(encoder')
            BY <1>0, <2>2, <2>3 DEF IInv, TypeOK
        <3>2. mIsRecording' \in BOOLEAN /\ capturing' \in BOOLEAN
            BY <1>1 DEF IInv, TypeOK
        <3> QED
            BY <1>1, <2>2, <3>1, <3>2 DEF IInv, TypeOK
    <2>6. Announced' /\ Buffered'
        BY <2>2, <2>3, <2>4 DEF IInv, Announced, Buffered
    <2>7. ThreadByPc' /\ PreviewByPc' /\ HasCamera'
        BY <1>0, <1>1 DEF IInv, TypeOK, ThreadByPc, PreviewByPc, HasCamera
    <2>8. Alone'
        <3>1. thread = "record"
            OBVIOUS
        <3> QED
            BY <1>1, <2>2, <2>3, <3>1 DEF IInv, Alone
    <2>9. Supplied' /\ Busy' /\ QuitAfterEncoders'
        BY <1>1, <2>1, <2>2, <2>3 DEF IInv, TypeOK, Supplied, Current, Busy,
           QuitAfterEncoders
    <2> QED
        BY <2>5, <2>6, <2>7, <2>8, <2>9 DEF IInv
<1>2. CASE thread' # "recorded"
    <2>1. thread' = "loop" /\ encoder' = encoder /\ (mIsRecording => mIsRecording')
        BY <1>2
    <2>2. TypeOK'
        BY <2>1 DEF IInv, TypeOK
    <2>3. ThreadByPc' /\ PreviewByPc'
        BY <2>1 DEF IInv, TypeOK, ThreadByPc, PreviewByPc
    <2>4. Announced' /\ Buffered' /\ Alone' /\ HasCamera' /\ Supplied'
        BY <1>0, <2>1 DEF IInv, Announced, Buffered, Alone, HasCamera, Supplied,
           Current, Recordings
    <2>5. Busy' /\ QuitAfterEncoders'
        BY <1>0, <2>1 DEF IInv, Busy, Idle, QuitAfterEncoders, Recordings
    <2> QED
        BY <2>2, <2>3, <2>4, <2>5 DEF IInv
<1> QED
    BY <1>1, <1>2

LEMMA StartedKeeps ==
    ASSUME IInv, StartedRecording
    PROVE  IInv'
<1> USE DEF StartedRecording, Asleep, ThreadOnly, history, camera, ThreadPc
<1>1. TypeOK'
    BY DEF IInv, TypeOK
<1>2. ThreadByPc' /\ PreviewByPc'
    BY DEF IInv, TypeOK, ThreadByPc, PreviewByPc
<1>3. Announced' /\ Buffered' /\ Alone'
    BY DEF IInv, Announced, Buffered, Alone, Recordings
<1>4. HasCamera' /\ Supplied'
    BY DEF IInv, HasCamera, Supplied, Current
<1>5. Busy' /\ QuitAfterEncoders'
    BY DEF IInv, Busy, Idle, QuitAfterEncoders, Recordings
<1> QED
    BY <1>1, <1>2, <1>3, <1>4, <1>5 DEF IInv

-----------------------------------------------------------------------------
\* An encoder that reports its end is not that of the recording in progress,
\* and there is none such unless recordings overlapped.
LEMMA NotCurrent ==
    ASSUME IInv, NEW i \in Recordings, encoder[i] # "running"
    PROVE  /\ i \in 1 .. Len(encoder) /\ Len(encoder) \in Nat
           /\ Current \in 0 .. Len(encoder) /\ Current # i
           /\ encoder[i] # "ended" /\ mEncoderType = "surface" /\ ~overlapped
                => Current = 0 /\ thread # "record"
<1>1. i \in 1 .. Len(encoder) /\ Len(encoder) \in Nat
    BY DEF IInv, TypeOK, Recordings
<1>2. Current \in 0 .. Len(encoder) /\ (Current # 0 => encoder[Current] = "running")
    BY DEF IInv, TypeOK, Supplied, Current
<1>3. Current # 0 => Current \in Recordings
    BY <1>2 DEF IInv, TypeOK, Recordings
<1> QED
    BY <1>1, <1>2, <1>3 DEF IInv, Alone

\* What one encoder may do after its end, or when it ends.
LEMMA EncoderGoes ==
    ASSUME IInv, NEW i \in Recordings, NEW l \in Status \ {"running", "stopping"},
           encoder[i] \notin {"running", "ended"}, Ends(i, l),
           l \notin {"running", "stopping", "ended"} => mEncoderType = "surface"
    PROVE  /\ encoder' \in Seq(Status) /\ Len(encoder') = Len(encoder)
           /\ Recordings' = Recordings /\ encoder'[i] = l
           /\ \A j \in Recordings : j # i => encoder'[j] = encoder[j]
           /\ l # "ended" => Ended(encoder') = Ended(encoder)
           /\ l = "ended" => Cardinality(Ended(encoder')) = Cardinality(Ended(encoder)) + 1
           /\ Cardinality(Ended(encoder)) \in Nat
           /\ Cardinality(Ended(encoder')) <= Len(encoder)
<1>1. /\ encoder' \in Seq(Status) /\ Len(encoder') = Len(encoder)
      /\ Recordings = 1 .. Len(encoder) /\ Recordings' = Recordings /\ encoder'[i] = l
      /\ \A j \in Recordings : j # i => encoder'[j] = encoder[j]
    BY DEF Ends, IInv, TypeOK, Recordings
<1>2. Ended(encoder') = IF l = "ended" THEN Ended(encoder) \cup {i} ELSE Ended(encoder)
    BY <1>1 DEF Ended, Recordings
<1>3. i \notin Ended(encoder)
    BY DEF Ended
<1>4. /\ IsFiniteSet(Ended(encoder)) /\ Cardinality(Ended(encoder)) \in Nat
      /\ Cardinality(Ended(encoder')) <= Len(encoder')
    BY <1>1, EndedFinite DEF IInv, TypeOK
<1>5. Cardinality(Ended(encoder) \cup {i}) = Cardinality(Ended(encoder)) + 1
    BY <1>3, <1>4, FS_AddElement
<1> QED
    BY <1>1, <1>2, <1>4, <1>5

\* The recordings after a step of an encoder that asks no other to stop.
LEMMA EncoderRecordings ==
    ASSUME IInv, TypeOK', NEW i \in Recordings, NEW l \in Status \ {"running", "stopping"},
           encoder[i] \notin {"running", "ended"}, Ends(i, l),
           l \notin {"running", "stopping", "ended"} => mEncoderType = "surface",
           \/ updates' = updates
           \/ l = "ended" /\ updates' <= updates + 1,
           mIsRecording' = mIsRecording \/ (mEncoderType = "surface" /\ encoder[i] = "stopping"),
           UNCHANGED <<mUVCCamera, capturing>> \/ mEncoderType = "surface",
           UNCHANGED <<mEncoderType, thread, mMuxer, overlapped>>
    PROVE  /\ Announced' /\ Buffered' /\ Alone' /\ HasCamera' /\ Supplied'
           /\ Busy' /\ QuitAfterEncoders'
<1>1. /\ encoder' \in Seq(Status) /\ Len(encoder') = Len(encoder)
      /\ Recordings' = Recordings /\ encoder'[i] = l
      /\ \A j \in Recordings : j # i => encoder'[j] = encoder[j]
    BY EncoderGoes
<1>2. Announced'
    BY EncoderGoes DEF IInv, TypeOK, Announced
<1>3. Buffered'
    BY <1>1 DEF IInv, Buffered
<1>4. Alone'
    BY <1>1 DEF IInv, Alone
<1>5. Current' = Current /\ Current \in 0 .. Len(encoder) /\ Current # i
    BY <1>1, NotCurrent DEF Current
<1>6. Current # 0 => encoder'[Current] = encoder[Current]
    <2>1. Current # 0 => Current \in Recordings
        BY <1>5 DEF IInv, TypeOK, Recordings
    <2> QED
        BY <1>1, <1>5, <2>1
<1>7. CASE overlapped
    BY <1>1, <1>2, <1>3, <1>4, <1>5, <1>6, <1>7
    DEF IInv, HasCamera, Supplied, Busy, QuitAfterEncoders
<1>8. CASE ~overlapped /\ mEncoderType = "surface"
    <2>1. Current = 0 /\ thread # "record"
        BY <1>8, NotCurrent
    <2>2. \A j \in Recordings : j # i => encoder[j] = "ended"
        BY <1>8 DEF IInv, Alone
    <2>3. Busy' /\ QuitAfterEncoders'
        BY <1>1, <2>2 DEF Busy, Idle, QuitAfterEncoders
    <2>4. thread # "recorded"
        BY <2>1 DEF IInv, Supplied, Current
    <2> QED
        BY <1>2, <1>3, <1>4, <1>5, <2>1, <2>3, <2>4 DEF HasCamera, Supplied
<1>9. CASE ~overlapped /\ mEncoderType # "surface"
    <2>1. UNCHANGED <<mUVCCamera, capturing, mIsRecording>>
        BY <1>9
    <2>2. HasCamera' /\ Supplied'
        BY <1>1, <1>5, <1>6, <1>9, <2>1 DEF IInv, HasCamera, Supplied
    <2>3. Busy' /\ QuitAfterEncoders'
        BY <1>1, <2>1 DEF IInv, Busy, Idle, QuitAfterEncoders
    <2> QED
        BY <1>2, <1>3, <1>4, <2>2, <2>3
<1> QED
    BY <1>7, <1>8, <1>9

LEMMA EncoderKeeps ==
    ASSUME IInv, NEW i \in Recordings,
           \/ OnStopped(i) \/ StopCapture(i) \/ Announce(i) \/ CloseBeside(i)
           \/ ReleaseBeside(i)
    PROVE  IInv'
<1> USE DEF EncoderOnly, Asleep, ThreadOnly, At, camera, history, recorder
<1>1. encoder[i] \notin {"stopping", "running", "ended"} => mEncoderType = "surface"
    BY DEF IInv, Buffered
<1>2. i \in 0 .. Len(encoder) /\ i # 0
    BY DEF IInv, TypeOK, Recordings
<1>3. CASE OnStopped(i)
    <2>1. PICK l \in {"cleared", "ended"} :
             Ends(i, l) /\ (l = "cleared" => mEncoderType = "surface")
        BY <1>3 DEF OnStopped
    <2>2. /\ encoder' \in Seq(Status) /\ Len(encoder') = Len(encoder)
        BY <1>3, <2>1, EncoderGoes DEF OnStopped, Status
    <2>3. TypeOK'
        BY <1>3, <2>2 DEF OnStopped, IInv, TypeOK
    <2>4. ThreadByPc' /\ PreviewByPc'
        BY <1>3 DEF OnStopped, IInv, ThreadByPc, PreviewByPc
    <2> QED
        BY <1>3, <2>1, <2>3, <2>4, EncoderRecordings DEF OnStopped, IInv, Status
<1>4. CASE StopCapture(i)
    <2>1. PICK l \in {"quiet", "ended"} : Ends(i, l)
        BY <1>4 DEF StopCapture
    <2>2. /\ encoder' \in Seq(Status) /\ Len(encoder') = Len(encoder)
        BY <1>1, <1>4, <2>1, EncoderGoes DEF StopCapture, Status
    <2>3. TypeOK'
        <3>1. capturing' \in BOOLEAN /\ unannounced' \in BOOLEAN
            BY <1>4 DEF StopCapture, IInv, TypeOK
        <3> QED
            BY <1>4, <2>2, <3>1 DEF StopCapture, IInv, TypeOK
    <2>4. ThreadByPc' /\ PreviewByPc'
        BY <1>4 DEF StopCapture, IInv, ThreadByPc, PreviewByPc
    <2> QED
        BY <1>1, <1>4, <2>1, <2>3, <2>4, EncoderRecordings DEF StopCapture, IInv, Status
<1>5. CASE Announce(i)
    <2>1. PICK l \in {"release", "ended"} :
             Ends(i, l) /\ (l # "ended" => updates' = updates)
        BY <1>5 DEF Announce
    <2>2. /\ encoder' \in Seq(Status) /\ Len(encoder') = Len(encoder)
          /\ l = "ended" => Cardinality(Ended(encoder')) = Cardinality(Ended(encoder)) + 1
          /\ Cardinality(Ended(encoder)) \in Nat
          /\ Cardinality(Ended(encoder')) <= Len(encoder)
        BY <1>1, <1>5, <2>1, EncoderGoes DEF Announce, Status
    <2>3. TypeOK'
        <3>1. updates' \in 0 .. Len(encoder)
            BY <1>5, <2>1, <2>2 DEF Announce, IInv, TypeOK, Announced
        <3>2. unannounced' \in BOOLEAN
            BY <1>5 DEF Announce, IInv, TypeOK
        <3> QED
            BY <1>5, <2>2, <3>1, <3>2 DEF Announce, IInv, TypeOK
    <2>4. ThreadByPc' /\ PreviewByPc'
        BY <1>5 DEF Announce, IInv, ThreadByPc, PreviewByPc
    <2>5. updates' = updates \/ (l = "ended" /\ updates' <= updates + 1)
        BY <1>5, <2>1 DEF Announce, IInv, TypeOK
    <2> QED
        BY <1>1, <1>5, <2>1, <2>3, <2>4, <2>5, EncoderRecordings DEF Announce, IInv, Status
<1>6. CASE CloseBeside(i)
    <2>1. PICK l \in {"destroy", "clear"} : Ends(i, l)
        BY <1>6 DEF CloseBeside
    <2>2. /\ encoder' \in Seq(Status) /\ Len(encoder') = Len(encoder)
        BY <1>1, <1>6, <2>1, EncoderGoes DEF CloseBeside, Status
    <2>3. TypeOK'
        BY <1>2, <1>6, <2>2 DEF CloseBeside, TakeCamera, IInv, TypeOK
    <2>4. ThreadByPc' /\ PreviewByPc'
        BY <1>2, <1>6 DEF CloseBeside, TakeCamera, IInv, TypeOK, ThreadByPc, PreviewByPc
    <2> QED
        BY <1>1, <1>6, <2>1, <2>3, <2>4, EncoderRecordings
        DEF CloseBeside, IInv, Status
<1>7. CASE ReleaseBeside(i)
    <2>1. Ends(i, "ended")
        BY <1>7 DEF ReleaseBeside
    <2>2. /\ encoder' \in Seq(Status) /\ Len(encoder') = Len(encoder)
        BY <1>7, <2>1, EncoderGoes DEF ReleaseBeside, Status
    <2>3. TypeOK'
        BY <1>7, <2>2 DEF ReleaseBeside, IInv, TypeOK
    <2>4. ThreadByPc' /\ PreviewByPc'
        BY <1>7 DEF ReleaseBeside, IInv, ThreadByPc, PreviewByPc
    <2> QED
        BY <1>7, <2>1, <2>3, <2>4, EncoderRecordings DEF ReleaseBeside, IInv, Status
<1> QED
    BY <1>3, <1>4, <1>5, <1>6, <1>7

\* handleRelease beside the camera thread stops the recording of the day.
LEMMA BesideKeeps ==
    ASSUME IInv, NEW i \in Recordings, StopRecordingBeside(i)
    PROVE  IInv'
<1> USE DEF StopRecordingBeside, EncoderOnly, Asleep, ThreadOnly, At, camera, history
<1>1. /\ encoder[i] \in {"release", "unset"} /\ mEncoderType = "surface"
      /\ Recordings = 1 .. Len(encoder) /\ Len(encoder) \in Nat
    BY DEF IInv, TypeOK, Buffered, Recordings
<1>2. CASE encoder[i] = "unset"
    <2>1. PICK l \in {"take", "ended"} : Ends(i, l)
        BY <1>2
    <2>2. encoder' \in Seq(Status) /\ Len(encoder') = Len(encoder)
        BY <1>1, <2>1, EncoderGoes DEF Status
    <2>3. UNCHANGED <<mMuxer, capturing, updates>>
        BY <1>2
    <2>4. TypeOK'
        BY <2>2, <2>3 DEF IInv, TypeOK
    <2>5. ThreadByPc' /\ PreviewByPc'
        BY <2>3 DEF IInv, ThreadByPc, PreviewByPc
    <2> QED
        BY <1>1, <2>1, <2>3, <2>4, <2>5, EncoderRecordings DEF IInv, Status
<1>3. CASE encoder[i] = "release"
    <2>1. /\ mMuxer' = 0 /\ capturing' = FALSE
          /\ encoder' = [j \in Recordings |->
                           IF j = i THEN IF mMuxer # 0 THEN "unset" ELSE "take"
                           ELSE IF j = mMuxer THEN "stopping" ELSE encoder[j]]
        BY <1>3
    <2>2. /\ encoder' \in Seq(Status) /\ Len(encoder') = Len(encoder)
          /\ Recordings' = Recordings
        BY <1>1, <2>1 DEF IInv, TypeOK, Status, Recordings
    <2>3. TypeOK'
        <3>1. mMuxer' \in 0 .. Len(encoder')
            <4>1. Len(encoder') \in Nat /\ mMuxer' = 0
                BY <1>1, <2>1, <2>2
            <4> QED
                BY <4>1
        <3> QED
            BY <1>3, <2>1, <2>2, <3>1 DEF IInv, TypeOK
    <2>4. ThreadByPc' /\ PreviewByPc'
        BY <2>1 DEF IInv, ThreadByPc, PreviewByPc
    <2>5. mMuxer # 0 => thread # "recorded" /\ encoder[mMuxer] = "running" /\ mMuxer # i
        BY <1>3 DEF IInv, ThreadByPc, Supplied, Current
    <2>6. ASSUME NEW j \in Recordings
          PROVE  /\ encoder'[j] = "ended" <=> encoder[j] = "ended"
                 /\ encoder'[j] \in {"running", "stopping"} <=> encoder[j] \in {"running", "stopping"}
                 /\ j # i /\ j # mMuxer => encoder'[j] = encoder[j]
        <3>1. CASE j = i
            BY <1>3, <2>1, <3>1
        <3>2. CASE j # i /\ j = mMuxer
            <4>1. encoder[j] = "running"
                BY <1>1, <2>5, <3>2
            <4>2. encoder'[j] = "stopping"
                BY <2>1, <3>2
            <4> QED
                BY <3>2, <4>1, <4>2
        <3>3. CASE j # i /\ j # mMuxer
            BY <2>1, <3>3
        <3> QED
            BY <3>1, <3>2, <3>3
    <2>7. Ended(encoder') = Ended(encoder)
        BY <2>2, <2>6 DEF Ended, Recordings
    <2>8. Announced' /\ Buffered' /\ Alone'
        BY <1>1, <2>2, <2>6, <2>7 DEF IInv, Announced, Buffered, Alone
    <2>9. Current # 0 /\ thread = "recorded" =>
             encoder'[Current] = encoder[Current] /\ Current' = Current
        <3>1. Current # 0 => Current \in Recordings /\ Current # i
            BY <1>1, <1>3, NotCurrent
        <3> QED
            BY <2>2, <2>5, <2>6, <3>1 DEF Current, Recordings, IInv, ThreadByPc
    <2>10. (thread = "record" \/ Current # 0) => overlapped
        BY <1>1, <1>3, NotCurrent
    <2>11. HasCamera' /\ Supplied'
        BY <2>1, <2>2, <2>9, <2>10 DEF IInv, HasCamera, Supplied, Current
    <2>12. Busy' /\ QuitAfterEncoders'
        BY <2>2, <2>6 DEF IInv, Busy, Idle, QuitAfterEncoders
    <2> QED
        BY <2>3, <2>4, <2>8, <2>11, <2>12 DEF IInv
<1> QED
    BY <1>1, <1>2, <1>3

-----------------------------------------------------------------------------
LEMMA Induction == IInv /\ [Next]_vars => IInv'
<1> SUFFICES ASSUME IInv, [Next]_vars PROVE IInv'
    OBVIOUS
<1>1. CASE UNCHANGED vars
    <2>1. TypeOK'
        BY <1>1 DEF vars, looper, camera, recorder, clients, history, IInv, TypeOK
    <2> QED
        BY <1>1, <2>1, ClientsKeep DEF vars, looper
<1>2. CASE \E c \in Callers : CallerStep(c) \/ \E m \in Methods : Call(c, m)
    BY <1>2, CallerKeeps
<1>3. CASE ThreadStep
    BY <1>3, MessageKeeps, CameraKeeps, PreviewKeeps, RecordingKeeps, StartedKeeps,
       StopRecordingKeeps, ReleaseKeeps DEF ThreadStep
<1>4. CASE \E i \in Recordings : EncoderStep(i)
    BY <1>4, EncoderKeeps, BesideKeeps DEF EncoderStep
<1>5. CASE DestroyActivity
    <2>1. TypeOK'
        BY <1>5 DEF DestroyActivity, looper, camera, recorder, clients, history,
                    IInv, TypeOK
    <2> QED
        BY <1>5, <2>1, ClientsKeep DEF DestroyActivity, looper
<1> QED
    BY <1>1, <1>2, <1>3, <1>4, <1>5 DEF Next

\* The inductive invariant of the handler.
THEOREM Invariance == Spec => []IInv
BY Initially, Induction, PTL DEF Spec

\* The variables have their types: no update of the media store is announced
\* but by the end of an encoder.
THEOREM TypeCorrect == Spec => []TypeOK
BY Invariance, PTL DEF IInv

\* Between two messages isPreviewing() hides no preview, and claims none that is
\* not there unless the camera refused to start or was closed while it previewed.
THEOREM FlagTellsTruth == Spec => []PreviewTruth
<1>1. IInv => PreviewTruth
    BY DEF IInv, PreviewByPc, PreviewTruth
<1> QED
    BY <1>1, Invariance, PTL

\* Whoever sleeps in stopPreview is woken when the preview has stopped, also
\* where an encoder's thread closes the camera beside the camera thread.
THEOREM SleepersWokenAfterStop == Spec => WokenAfterStop
<1> DEFINE A == \A c \in Callers : caller[c] = "waiting" /\ caller'[c] # "waiting" =>
                   ~previewing' /\ 0 \notin leaving'
<1>1. IInv /\ [Next]_vars => [A]_vars
    <2> SUFFICES ASSUME IInv, Next, NEW c \in Callers,
                        caller[c] = "waiting", caller'[c] # "waiting"
                 PROVE  ~previewing' /\ 0 \notin leaving'
        OBVIOUS
    <2>1. ASSUME NEW d \in Callers, CallerStep(d) \/ \E m \in Methods : Call(d, m)
          PROVE  caller'[c] = caller[c]
        BY <2>1
        DEF CallerStep, Call, SendMessage, Close, StopPreview, IsPreviewing,
            WaitStopped, Return, Goto, Leave, IInv, TypeOK
    <2>2. ASSUME NEW i \in Recordings, EncoderStep(i) PROVE caller' = caller
        BY <2>2
        DEF EncoderStep, OnStopped, StopCapture, Announce, StopRecordingBeside,
            CloseBeside, ReleaseBeside, EncoderOnly, Asleep
    <2>3. ~DestroyActivity
        BY DEF DestroyActivity, clients
    <2>4. ThreadStep
        BY <2>1, <2>2, <2>3 DEF Next
    <2>5. (HandleStopPreview /\ thread = "stopped") \/ Quit
        BY <2>4
        DEF ThreadStep, HandleMessage, HandleUpdateMedia, HandleStartPreview, Dies,
            HandleStopPreview, HandleStartRecording, StartedRecording,
            HandleStopRecording, HandleClose, HandleOpen, HandleRelease, Asleep
    <2> QED
        BY <2>5 DEF HandleStopPreview, Quit, camera, IInv, ThreadByPc, PreviewByPc
<1> QED
    BY <1>1, Invariance, PTL DEF Spec, WokenAfterStop

\* A recording in progress has an open camera, a running encoder and a capture
\* surface, whatever the encoders that ended do on their threads, unless it
\* began before the one before it had ended.
THEOREM RecordingHasSource == Spec => []RecordingSupplied
<1>1. IInv => RecordingSupplied
    BY DEF IInv, TypeOK, HasCamera, Supplied, Current, RecordingSupplied
<1> QED
    BY <1>1, Invariance, PTL

\* The camera thread outlives the work of the encoders, unless recordings
\* overlapped.
THEOREM ThreadOutlivesEncoders == Spec => []QuitAfterEncoders
BY Invariance, PTL DEF IInv
=============================================================================
