------------------------- MODULE MediaRecorderProofs -------------------------
(***************************************************************************)
(* Proofs about MediaRecorder, for any number of encoders: the muxer is    *)
(* called in its turn, and a file that was begun is finished.              *)
(***************************************************************************)
EXTENDS MediaRecorder, FiniteSetTheorems, TLAPS

Active  == {e \in Encoders : pc[e] \notin {"exit", "ended"}}
Waiting == {e \in Encoders : pc[e] = "muxerWait"}

\* A codec has its format, and the encoder its track, after an input, and an
\* input comes only once the encoders have been started.
Formats ==
    \A e \in Encoders :
        /\ handler = "prepare" => ~mIsCapturing[e] /\ ~fed[e]
        /\ formatted[e] => fed[e]
        /\ mMuxerStarted[e] <=> formatted[e]
        /\ pc[e] = "stop" => formatted[e]

\* Before the muxer starts, whoever has a track is on its way to wait for it,
\* and those who wait are counted.
Before == mediaMuxer = "initialized" =>
    /\ ~mIsStarted
    /\ mStatredCount = Cardinality(Waiting)
    /\ \A e \in Encoders : formatted[e] <=> pc[e] \in {"start", "muxerWait"}

\* Once it has started, everybody has a track, and those who have not left are
\* counted; those who leave after the wrapper was collected still are.
Begun == mediaMuxer # "initialized" =>
    \A e \in Encoders : formatted[e] /\ pc[e] # "start"
Running == mediaMuxer = "started" =>
    /\ mStatredCount > 0
    /\ Cardinality(Active) <= mStatredCount
    /\ ~collected => mStatredCount = Cardinality(Active)

\* It stops with the last of them.
After == mediaMuxer = "stopped" => Active = {}

IInv == TypeOK /\ Formats /\ Before /\ Begun /\ Running /\ After /\ ~misused

-----------------------------------------------------------------------------
LEMMA Counting ==
    ASSUME NEW S \in SUBSET Encoders
    PROVE  /\ IsFiniteSet(S) /\ Cardinality(S) \in Nat
           /\ Cardinality(S) <= Cardinality(Encoders)
           /\ Cardinality(Encoders) \in Nat
           /\ Cardinality(S) = Cardinality(Encoders) => S = Encoders
           /\ Cardinality(S) = 0 <=> S = {}
           /\ \A e \in Encoders \ S : Cardinality(S \cup {e}) = Cardinality(S) + 1
           /\ \A e \in S : Cardinality(S \ {e}) = Cardinality(S) - 1
BY RecorderAssumption, FS_Subset, FS_CardinalityType, FS_EmptySet, FS_AddElement,
   FS_RemoveElement

LEMMA Initially == Init => IInv
<1> SUFFICES ASSUME Init PROVE IInv
    OBVIOUS
<1>1. Waiting = {}
    BY DEF Init, Waiting
<1>2. mStatredCount \in 0 .. Cardinality(Encoders) /\ mStatredCount = Cardinality(Waiting)
    BY <1>1, Counting DEF Init
<1>3. mRequestDrain \in [Encoders -> 0 .. MaxInput] /\ output \in [Encoders -> 0 .. MaxInput]
    BY RecorderAssumption DEF Init
<1>4. TypeOK
    BY <1>2, <1>3 DEF Init, TypeOK, ThreadPc
<1> QED
    BY <1>2, <1>4 DEF Init, IInv, Formats, Before, Begun, Running, After

-----------------------------------------------------------------------------
\* A step that leaves the muxer alone, and moves nobody in or out of the places
\* that its count is about, keeps the invariant.
LEMMA Indifferent ==
    ASSUME IInv, TypeOK', Formats',
           UNCHANGED <<formatted, mStatredCount, mIsStarted, mediaMuxer, misused>>,
           collected => collected',
           \A e \in Encoders : /\ pc'[e] = "start" <=> pc[e] = "start"
                               /\ pc'[e] = "muxerWait" <=> pc[e] = "muxerWait"
                               /\ pc'[e] \in {"exit", "ended"}
                                    <=> pc[e] \in {"exit", "ended"}
    PROVE  IInv'
<1>1. Active' = Active /\ Waiting' = Waiting
    BY DEF Active, Waiting
<1>2. Before' /\ Begun'
    BY <1>1 DEF IInv, Before, Begun
<1>3. Running' /\ After'
    BY <1>1 DEF IInv, Running, After
<1> QED
    BY <1>2, <1>3 DEF IInv

\* An encoder that takes something out of its codec finds the muxer in its turn.
LEMMA InTurn ==
    ASSUME IInv, NEW e \in Encoders, pc[e] = "drain"
    PROVE  /\ formatted[e] => mediaMuxer = "started"
           /\ ~formatted[e] => mediaMuxer = "initialized"
<1>1. mediaMuxer # "stopped"
    BY DEF IInv, After, Active
<1> QED
    BY <1>1 DEF IInv, TypeOK, Before, Begun

-----------------------------------------------------------------------------
LEMMA HandlerKeeps == IInv /\ HandlerStep => IInv'
<1> SUFFICES ASSUME IInv, NEW e \in Encoders,
                    Prepare(e) \/ StartRecording(e) \/ StopRecording(e)
             PROVE  IInv'
    BY DEF HandlerStep
<1> USE DEF Set, Visit, requests, codec, muxer, thread
<1>1. CASE Prepare(e)
    <2>1. TypeOK'
        BY <1>1 DEF Prepare, IInv, TypeOK
    <2>2. Formats'
        BY <1>1 DEF Prepare, IInv, TypeOK, Formats
    <2> QED
        BY <1>1, <2>1, <2>2, Indifferent DEF Prepare
<1>2. CASE StartRecording(e)
    <2>1. TypeOK'
        BY <1>2 DEF StartRecording, IInv, TypeOK, Notify, ThreadPc
    <2>2. Formats'
        BY <1>2 DEF StartRecording, IInv, TypeOK, Formats, Notify
    <2> QED
        BY <1>2, <2>1, <2>2, Indifferent DEF StartRecording, Notify, IInv, TypeOK
<1>3. CASE StopRecording(e)
    <2>1. TypeOK'
        BY <1>3 DEF StopRecording, IInv, TypeOK, Notify, ThreadPc
    <2>2. Formats'
        BY <1>3 DEF StopRecording, IInv, TypeOK, Formats, Notify
    <2> QED
        BY <1>3, <2>1, <2>2, Indifferent DEF StopRecording, Notify, IInv, TypeOK
<1> QED
    BY <1>1, <1>2, <1>3

LEMMA InputKeeps ==
    ASSUME IInv, NEW e \in Encoders, Input(e)
    PROVE  IInv'
<1> USE DEF Set, requests, codec, muxer, thread
<1>1. /\ mRequestDrain' \in [Encoders -> 0 .. MaxInput]
      /\ output' \in [Encoders -> 0 .. MaxInput]
    BY RecorderAssumption DEF Input, IInv, TypeOK
<1>2. TypeOK'
    BY <1>1 DEF Input, Notify, IInv, TypeOK, ThreadPc
<1>3. Formats'
    BY DEF Input, Notify, IInv, TypeOK, Formats
<1> QED
    BY <1>2, <1>3, Indifferent DEF Input, Notify, IInv, TypeOK

-----------------------------------------------------------------------------
\* The steps of run and drain that do not touch the muxer.
LEMMA RunKeeps ==
    ASSUME IInv, NEW e \in Encoders,
           Check(e) \/ Wait(e) \/ DrainDone(e) \/ SignalEndOfInputStream(e) \/ Exit(e)
    PROVE  IInv'
<1> USE DEF Set, Goto, Others, requests, codec, muxer, thread
<1>1. CASE Check(e)
    <2>1. mRequestDrain' \in [Encoders -> 0 .. MaxInput]
        BY <1>1, RecorderAssumption DEF Check, IInv, TypeOK
    <2>2. TypeOK'
        BY <1>1, <2>1 DEF Check, IInv, TypeOK, ThreadPc
    <2>3. Formats'
        BY <1>1 DEF Check, IInv, TypeOK, Formats
    <2> QED
        BY <1>1, <2>2, <2>3, Indifferent DEF Check, IInv, TypeOK
<1>2. CASE Wait(e)
    <2>1. TypeOK' /\ Formats'
        BY <1>2 DEF Wait, IInv, TypeOK, ThreadPc, Formats
    <2> QED
        BY <1>2, <2>1, Indifferent DEF Wait, IInv, TypeOK
<1>3. CASE DrainDone(e)
    <2>1. TypeOK' /\ Formats'
        BY <1>3 DEF DrainDone, IInv, TypeOK, ThreadPc, Formats
    <2> QED
        BY <1>3, <2>1, Indifferent DEF DrainDone, IInv, TypeOK
<1>4. CASE SignalEndOfInputStream(e)
    <2>1. TypeOK' /\ Formats'
        BY <1>4 DEF SignalEndOfInputStream, IInv, TypeOK, ThreadPc, Formats
    <2> QED
        BY <1>4, <2>1, Indifferent DEF SignalEndOfInputStream, IInv, TypeOK
<1>5. CASE Exit(e)
    <2>1. TypeOK' /\ Formats'
        BY <1>5 DEF Exit, IInv, TypeOK, ThreadPc, Formats
    <2> QED
        BY <1>5, <2>1, Indifferent DEF Exit, IInv, TypeOK
<1> QED
    BY <1>1, <1>2, <1>3, <1>4, <1>5

\* An encoder adds its track: nobody has started the muxer without it.
LEMMA DrainKeeps ==
    ASSUME IInv, NEW e \in Encoders, DrainFormat(e) \/ DrainData(e)
    PROVE  IInv'
<1> USE DEF Set, Goto, Others, requests, codec, muxer, thread
<1>1. CASE DrainFormat(e)
    <2>1. mediaMuxer = "initialized"
        BY <1>1, InTurn DEF DrainFormat
    <2>2. TypeOK' /\ Formats' /\ ~misused'
        BY <1>1, <2>1 DEF DrainFormat, IInv, TypeOK, ThreadPc, Formats
    <2>3. Waiting' = Waiting
        BY <1>1 DEF DrainFormat, IInv, TypeOK, Waiting
    <2>4. Before'
        BY <1>1, <2>1, <2>3 DEF DrainFormat, IInv, TypeOK, Before
    <2> QED
        BY <1>1, <2>1, <2>2, <2>4
        DEF DrainFormat, IInv, Begun, Running, After
<1>2. CASE DrainData(e)
    <2>1. mediaMuxer = "started"
        BY <1>2, InTurn DEF DrainData
    <2>2. output' \in [Encoders -> 0 .. MaxInput]
        BY <1>2, RecorderAssumption DEF DrainData, IInv, TypeOK
    <2>3. TypeOK' /\ Formats' /\ misused' = misused
        BY <1>2, <2>1, <2>2 DEF DrainData, IInv, TypeOK, Formats
    <2> QED
        BY <1>2, <2>3, Indifferent DEF DrainData
<1> QED
    BY <1>1, <1>2

\* The last encoder with a track starts the muxer, the others wait for it.
LEMMA MuxerStartKeeps ==
    ASSUME IInv, NEW e \in Encoders, MuxerStart(e)
    PROVE  IInv'
<1> USE DEF Set, Goto, Others, requests, codec, muxer, thread
<1>1. mediaMuxer = "initialized"
    BY DEF MuxerStart, IInv, Begun
<1>2. /\ ~mIsStarted /\ mStatredCount = Cardinality(Waiting)
      /\ \A f \in Encoders : formatted[f] <=> pc[f] \in {"start", "muxerWait"}
    BY <1>1 DEF IInv, Before
<1>3. /\ e \in Encoders \ Waiting
      /\ Waiting \in SUBSET Encoders /\ Waiting \cup {e} \in SUBSET Encoders
    BY DEF MuxerStart, Waiting
<1>4. /\ mStatredCount' = mStatredCount + 1
      /\ mStatredCount' = Cardinality(Waiting \cup {e})
      /\ mStatredCount' \in 0 .. Cardinality(Encoders)
    <2>1. Cardinality(Waiting \cup {e}) = Cardinality(Waiting) + 1
        BY <1>3, Counting
    <2>2. Cardinality(Waiting \cup {e}) \in 0 .. Cardinality(Encoders)
        BY <1>3, Counting
    <2> QED
        BY <1>2, <2>1, <2>2 DEF MuxerStart
<1>5. CASE mStatredCount + 1 = Cardinality(Encoders)
    <2>1. Waiting \cup {e} = Encoders
        BY <1>3, <1>4, <1>5, Counting
    <2>2. \A f \in Encoders : formatted[f] /\ (f # e => pc[f] = "muxerWait")
        BY <1>2, <2>1 DEF Waiting, MuxerStart
    <2>3. TypeOK' /\ Formats' /\ ~misused'
        BY <1>1, <1>4, <1>5 DEF MuxerStart, IInv, TypeOK, ThreadPc, Formats
    <2>4. \A f \in Encoders : pc'[f] \in {"drain", "muxerWait"}
        BY <1>5, <2>2 DEF MuxerStart, IInv, TypeOK
    <2>5. Active' = Encoders
        BY <2>4 DEF Active
    <2>6. mediaMuxer' = "started"
        BY <1>5 DEF MuxerStart
    <2>7. Begun' /\ After' /\ Before'
        BY <2>2, <2>4, <2>6 DEF MuxerStart, Begun, After, Before
    <2>8. Running'
        BY <1>4, <1>5, <2>5, <2>6, Counting, RecorderAssumption DEF Running
    <2> QED
        BY <2>3, <2>7, <2>8 DEF IInv
<1>6. CASE mStatredCount + 1 # Cardinality(Encoders)
    <2>1. /\ pc' = [pc EXCEPT ![e] = "muxerWait"]
          /\ UNCHANGED <<mIsStarted, mediaMuxer, misused>>
        BY <1>2, <1>6 DEF MuxerStart
    <2>2. TypeOK' /\ Formats'
        BY <1>4, <2>1 DEF MuxerStart, IInv, TypeOK, ThreadPc, Formats
    <2>3. Waiting' = Waiting \cup {e}
        BY <2>1 DEF Waiting, IInv, TypeOK
    <2>4. Before'
        BY <1>2, <1>4, <2>1, <2>3 DEF MuxerStart, IInv, TypeOK, Before
    <2> QED
        BY <1>1, <2>1, <2>2, <2>4 DEF IInv, Begun, Running, After
<1> QED
    BY <1>5, <1>6

LEMMA MuxerReadyKeeps ==
    ASSUME IInv, NEW e \in Encoders, MuxerReady(e)
    PROVE  IInv'
<1> USE DEF Set, Goto, Others, requests, codec, muxer, thread
<1>1. mediaMuxer # "initialized"
    BY DEF MuxerReady, IInv, Before
<1>2. TypeOK' /\ Formats'
    BY DEF MuxerReady, IInv, TypeOK, ThreadPc, Formats
<1>3. Active' = Active
    BY DEF MuxerReady, IInv, TypeOK, Active
<1>4. Begun' /\ Before'
    BY <1>1 DEF MuxerReady, IInv, TypeOK, Begun, Before
<1>5. Running' /\ After'
    BY <1>3 DEF MuxerReady, IInv, Running, After
<1> QED
    BY <1>2, <1>4, <1>5 DEF MuxerReady, IInv

\* An encoder that leaves without stopping the muxer never had a track, or the
\* wrapper is collected.
LEMMA ReleaseKeeps ==
    ASSUME IInv, NEW e \in Encoders, Release(e)
    PROVE  IInv'
<1> USE DEF Set, Goto, Others, requests, codec, muxer, thread
<1>1. TypeOK' /\ Formats'
    BY DEF Release, IInv, TypeOK, ThreadPc, Formats
<1>2. CASE mMuxerStarted[e] /\ ~collected
    BY <1>1, <1>2, Indifferent DEF Release, IInv, TypeOK
<1>3. CASE ~(mMuxerStarted[e] /\ ~collected)
    <2>1. pc' = [pc EXCEPT ![e] = "exit"]
        BY <1>3 DEF Release
    <2>2. Active' = Active \ {e} /\ Waiting' = Waiting /\ e \in Active
        BY <2>1 DEF Release, IInv, TypeOK, Active, Waiting
    <2>3. Cardinality(Active') <= Cardinality(Active)
          /\ Cardinality(Active) \in Nat /\ Cardinality(Active') \in Nat
        <3>1. Active \in SUBSET Encoders /\ Active \ {e} \in SUBSET Encoders
            BY DEF Active
        <3>2. Cardinality(Active \ {e}) = Cardinality(Active) - 1
            BY <2>2, <3>1, Counting
        <3> QED
            BY <2>2, <3>1, <3>2, Counting
    <2>4. mediaMuxer # "initialized" => collected
        BY <1>3 DEF IInv, Formats, Begun
    <2>5. Before' /\ Begun'
        BY <2>1, <2>2 DEF Release, IInv, TypeOK, Before, Begun
    <2>6. Running' /\ After'
        BY <2>2, <2>3, <2>4 DEF Release, IInv, TypeOK, Running, After
    <2> QED
        BY <1>1, <2>5, <2>6 DEF Release, IInv
<1> QED
    BY <1>2, <1>3

\* The last one to leave stops the muxer.
LEMMA MuxerStopKeeps ==
    ASSUME IInv, NEW e \in Encoders, MuxerStop(e)
    PROVE  IInv'
<1> USE DEF Set, Goto, Others, requests, codec, muxer, thread
<1>1. mediaMuxer = "started"
    BY DEF MuxerStop, IInv, TypeOK, Formats, Before, After, Active
<1>2. /\ Cardinality(Active) <= mStatredCount /\ mStatredCount > 0
      /\ ~collected => mStatredCount = Cardinality(Active)
    BY <1>1 DEF IInv, Running
<1>3. /\ pc' = [pc EXCEPT ![e] = "exit"]
      /\ Active' = Active \ {e} /\ e \in Active
    BY DEF MuxerStop, IInv, TypeOK, Active
<1>4. /\ Cardinality(Active') = Cardinality(Active) - 1
      /\ Cardinality(Active) \in Nat /\ Cardinality(Active') \in Nat
      /\ Cardinality(Active') = 0 <=> Active' = {}
    BY <1>3, Counting, Active \in SUBSET Encoders, Active \ {e} \in SUBSET Encoders
    DEF Active
<1>5. mStatredCount \in 0 .. Cardinality(Encoders) /\ Cardinality(Encoders) \in Nat
    BY RecorderAssumption, FS_CardinalityType DEF IInv, TypeOK
<1>6. mStatredCount' = mStatredCount - 1 /\ mStatredCount' \in 0 .. Cardinality(Encoders)
    BY <1>2, <1>5 DEF MuxerStop
<1>7. TypeOK' /\ Formats' /\ ~misused'
    BY <1>1, <1>6 DEF MuxerStop, IInv, TypeOK, ThreadPc, Formats
<1>8. Before' /\ Begun'
    BY <1>1, <1>3 DEF MuxerStop, IInv, TypeOK, Before, Begun
<1>9. CASE mStatredCount - 1 <= 0
    <2>1. mediaMuxer' = "stopped" /\ Active' = {}
        BY <1>2, <1>4, <1>5, <1>9 DEF MuxerStop
    <2> QED
        BY <1>7, <1>8, <2>1 DEF IInv, Running, After
<1>10. CASE ~(mStatredCount - 1 <= 0)
    <2>1. mediaMuxer' = "started" /\ collected' = collected
        BY <1>1, <1>10 DEF MuxerStop
    <2>2. Running' /\ After'
        BY <1>2, <1>4, <1>5, <1>6, <1>10, <2>1 DEF Running, After
    <2> QED
        BY <1>7, <1>8, <2>2 DEF IInv
<1> QED
    BY <1>9, <1>10

-----------------------------------------------------------------------------
LEMMA Inductive == IInv /\ [Next]_vars => IInv'
<1> SUFFICES ASSUME IInv, [Next]_vars PROVE IInv'
    OBVIOUS
<1>1. CASE HandleStopRecording \/ Collect \/ UNCHANGED vars
    <2> USE <1>1
        DEF HandleStopRecording, Collect, vars, Others, requests, codec, muxer, thread
    <2>1. TypeOK' /\ Formats'
        BY DEF IInv, TypeOK, Formats
    <2>2. /\ UNCHANGED <<formatted, mStatredCount, mIsStarted, mediaMuxer, misused, pc>>
          /\ collected => collected'
        OBVIOUS
    <2> QED
        BY <2>1, <2>2, Indifferent
<1>2. CASE \E e \in Encoders : EncoderStep(e)
    BY <1>2, RunKeeps, DrainKeeps, MuxerStartKeeps, MuxerReadyKeeps, ReleaseKeeps,
       MuxerStopKeeps
    DEF EncoderStep
<1> QED
    BY <1>1, <1>2, HandlerKeeps, InputKeeps DEF Next

LEMMA Invariance == Spec => []IInv
BY Initially, Inductive, PTL DEF Spec

-----------------------------------------------------------------------------
\* The variables have their types: the muxer's count is never negative, nor
\* larger than the number of encoders.
THEOREM TypeCorrect == Spec => []TypeOK
BY Invariance, PTL DEF IInv

\* However many encoders share it, and in whatever order they come and go, the
\* muxer is given tracks before it starts, and samples while it runs.
THEOREM MuxerInTurn == Spec => []NeverMisused
BY Invariance, PTL DEF IInv, NeverMisused

\* A file that was begun is finished when all encoders have ended, unless the
\* wrapper was collected, and not while one may still write.
THEOREM FilesFinished == Spec => []FileFinished
<1>1. IInv => FileFinished
    <2> SUFFICES ASSUME IInv PROVE FileFinished
        OBVIOUS
    <2>1. ASSUME \A e \in Encoders : pc[e] = "ended", mediaMuxer = "started"
          PROVE  collected
        <3>1. Active = {}
            BY <2>1 DEF Active
        <3> QED
            BY <2>1, <3>1, Counting DEF IInv, Running, TypeOK
    <2>2. mediaMuxer = "stopped" => \A e \in Encoders : pc[e] \in {"exit", "ended"}
        BY DEF IInv, After, Active
    <2> QED
        BY <2>1, <2>2 DEF FileFinished
<1> QED
    BY <1>1, Invariance, PTL
=============================================================================
