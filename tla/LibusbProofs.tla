---------------------------- MODULE LibusbProofs ----------------------------
(***************************************************************************)
(* Proofs about the two modules of libusb.  UsbTransfer, for transfers of  *)
(* any number of URBs and of any type: how often the callback is called    *)
(* and with what status, and that no URB is freed while the kernel has it. *)
(* UsbEvents, for any number of threads: no waiter is left asleep, and a   *)
(* closed device is neither polled nor reaped, nor a caller's transfer     *)
(* dropped.                                                                *)
(***************************************************************************)
EXTENDS UsbEvents, UsbTransfer, FiniteSetTheorems, TLAPS

-----------------------------------------------------------------------------
(***************************************************************************)
(* Who handles events.                                                     *)
(***************************************************************************)
Polling == {"poll", "reap", "completion", "inactive"}
Modifying == {"write", "lock", "read", "drop", "dropped", "fd", "unmodify"}
ClosePlaces == Modifying \cup {"modify", "join", "closed"}

\* The locks are held by the threads whose place says so.
LockOwner == \A t \in Threads : events_lock = t <=> pc[t] \in HasLock
WaitersOwner ==
    \A t \in Threads : event_waiters_lock = t <=> pc[t] \in {"modified", "active", "wait"}

\* Only the owner of events_lock makes others believe that it handles events.
ActiveOwned == event_handler_active =>
    events_lock # Nobody /\ pc[events_lock] # "unlock"

\* pollfd_modify and the control pipe tell where uvc_close is.
ModifyCounted ==
    /\ pollfd_modify = IF pc[App] \in Modifying THEN 1 ELSE 0
    /\ ctrl_pipe = IF pc[App] \in {"lock", "read"} THEN 1 ELSE 0

\* SleepersServed, and the same of those that have decided to sleep.
SleepersInv == (\E t \in Threads : pc[t] \in {"wait", "asleep"}) =>
                   \E u \in Threads : pc[u] \in WillWake

\* Who polls the device is polling, and the device is open.
PollingInv == /\ \A t \in polled : pc[t] \in Polling
              /\ ~fd => polled = {}

\* uvc_close waits for the handler thread, and nobody else uses a camera that is
\* being closed.
HandlerEnded == pc[App] = "closed" => pc[Handler] = "dead"
OthersIdle == ~fd \/ pc[App] \in ClosePlaces => \A t \in Others : pc[t] = "idle"

\* A caller that is not waiting has no transfer, and none gets lost.
Delivered ==
    /\ \A t \in Callers : transfer[t] # "lost"
    /\ \A t \in Callers : pc[t] \in ClosePlaces \cup {"idle"} => transfer[t] = "done"
    /\ ~fd => transfer[App] = "done"

EventsInv == /\ EventsTypeOK /\ LockOwner /\ WaitersOwner /\ ActiveOwned /\ ModifyCounted
        /\ SleepersInv /\ PollingInv /\ HandlerEnded /\ OthersIdle /\ Delivered

-----------------------------------------------------------------------------
\* Who the threads are.
LEMMA Who ==
    /\ App \in Threads /\ App \in Callers /\ Handler \in Threads /\ App # Handler
    /\ Nobody \notin Threads /\ Nobody # App /\ Nobody # Handler
    /\ \A t \in Others : t \in Threads /\ t \in Callers /\ t # App /\ t # Handler
    /\ \A t \in Callers : t \in Threads /\ t # Handler
    /\ \A t \in Threads : t \in Callers \/ t = Handler
    /\ \A t \in Callers : t \in Others \/ t = App
    /\ MaxCalls \in Nat
BY ThreadsAssumption DEF Threads, Callers

\* Init establishes the invariant.
LEMMA EventsInitially == EventsInit => EventsInv
<1> SUFFICES ASSUME EventsInit PROVE EventsInv OBVIOUS
<1>1. pc \in [Threads -> Places]
  <2>1. ASSUME NEW t \in Threads PROVE pc[t] \in Places
    <3>1. CASE t = App BY <3>1, Who DEF EventsInit, Places
    <3>2. CASE t = Handler BY <3>2, Who DEF EventsInit, Places
    <3>3. CASE t # App /\ t # Handler BY <3>3 DEF EventsInit, Places
    <3> QED BY <3>1, <3>2, <3>3
  <2> QED BY <2>1 DEF EventsInit
<1>2. EventsTypeOK
  <2>1. transfer \in [Threads -> {"kernel", "ready", "done", "lost"}] BY DEF EventsInit
  <2>2. calls \in 0..MaxCalls BY Who DEF EventsInit
  <2>3. /\ event_handler_active \in BOOLEAN /\ fd \in BOOLEAN
        /\ kill_handler_thread \in BOOLEAN /\ polled \subseteq Threads
    BY DEF EventsInit
  <2>4. /\ events_lock = Nobody /\ event_waiters_lock = Nobody
        /\ pollfd_modify = 0 /\ ctrl_pipe = 0
    BY DEF EventsInit
  <2> QED BY <1>1, <2>1, <2>2, <2>3, <2>4 DEF EventsTypeOK
<1>3. LockOwner /\ WaitersOwner /\ ActiveOwned /\ SleepersInv
  BY Who DEF EventsInit, LockOwner, WaitersOwner, ActiveOwned, SleepersInv, HasLock
<1>4. ModifyCounted /\ PollingInv /\ HandlerEnded /\ OthersIdle /\ Delivered
  BY Who DEF EventsInit, ModifyCounted, PollingInv, HandlerEnded, OthersIdle,
     Delivered,
             Modifying
<1> QED BY <1>2, <1>3, <1>4 DEF EventsInv

\* Every step keeps it: one step of the proof per action, split where the
\* argument lies.
LEMMA EventsInductive == EventsInv /\ [EventsNext]_eventsVars => EventsInv'
<1> SUFFICES ASSUME EventsInv, [EventsNext]_eventsVars PROVE EventsInv' OBVIOUS
<1> USE Who DEF EventsInv, EventsTypeOK, LockOwner, WaitersOwner, ActiveOwned,
                ModifyCounted,
                SleepersInv, PollingInv, HandlerEnded, OthersIdle, Delivered,
                HasLock, WillWake, Polling, Modifying, ClosePlaces, Places, Goto,
                locks, close, traffic
<1>1. ASSUME NEW t \in Threads, TryModify(t) PROVE EventsInv'
  BY <1>1 DEF TryModify
<1>2. ASSUME NEW t \in Threads, TryLock(t) PROVE EventsInv'
  BY <1>2 DEF TryLock
<1>3. ASSUME NEW t \in Threads, Enter(t) PROVE EventsInv'
  BY <1>3 DEF Enter, Completed
<1>4. ASSUME NEW t \in Threads, PollReturn(t) PROVE EventsInv'
  BY <1>4 DEF PollReturn, DeviceReady, Ready
<1>5. ASSUME NEW t \in Threads, ReapUrb(t) PROVE EventsInv'
  BY <1>5 DEF ReapUrb, Ready
<1>6. ASSUME NEW t \in Threads, Completion(t) PROVE EventsInv'
  BY <1>6 DEF Completion, WakeAll
\* The lock is still held, so ActiveOwned is kept; t does not poll any more.
<1>7. ASSUME NEW t \in Threads, Inactive(t) PROVE EventsInv'
  <2>1. PollingInv'
    BY <1>7 DEF Inactive
  <2>2. (LockOwner /\ WaitersOwner /\ ActiveOwned)'
    BY <1>7 DEF Inactive
  <2>3. SleepersInv'
    BY <1>7 DEF Inactive
  <2>4. EventsTypeOK'
    BY <1>7 DEF Inactive
  <2>5. ModifyCounted'
    BY <1>7 DEF Inactive
  <2>6. (HandlerEnded /\ OthersIdle /\ Delivered)'
    BY <1>7 DEF Inactive
  <2> QED BY <2>1, <2>2, <2>3, <2>4, <2>5, <2>6
<1>8. ASSUME NEW t \in Threads, Unlock(t) PROVE EventsInv'
  BY <1>8 DEF Unlock
\* Only here a thread leaves WillWake: nobody can be about to sleep, since
\* event_waiters_lock is free, and who is asleep wakes up.
<1>9. ASSUME NEW t \in Threads, Broadcast(t) PROVE EventsInv'
  <2>1. SleepersInv'
    BY <1>9 DEF Broadcast, WakeAll
  <2>2. (LockOwner /\ WaitersOwner /\ ActiveOwned)'
    BY <1>9 DEF Broadcast, WakeAll
  <2>3. (EventsTypeOK /\ ModifyCounted /\ PollingInv)'
    BY <1>9 DEF Broadcast, WakeAll
  <2>4. (HandlerEnded /\ OthersIdle /\ Delivered)'
    BY <1>9 DEF Broadcast, WakeAll
  <2> QED BY <2>1, <2>2, <2>3, <2>4
<1>10. ASSUME NEW t \in Threads, LockWaiters(t) PROVE EventsInv'
  BY <1>10 DEF LockWaiters, Completed
\* Whoever sees pollfd_modify set sees uvc_close, which will broadcast.
<1>11. ASSUME NEW t \in Threads, ReadModify(t) PROVE EventsInv'
  <2>1. SleepersInv'
    BY <1>11 DEF ReadModify
  <2>2. (LockOwner /\ WaitersOwner /\ ActiveOwned)'
    BY <1>11 DEF ReadModify
  <2>3. (EventsTypeOK /\ ModifyCounted /\ PollingInv)'
    BY <1>11 DEF ReadModify
  <2>4. (HandlerEnded /\ OthersIdle /\ Delivered)'
    BY <1>11 DEF ReadModify
  <2> QED BY <2>1, <2>2, <2>3, <2>4
\* Whoever sees event_handler_active set sees an owner of the lock that has
\* still to broadcast.
<1>12. ASSUME NEW t \in Threads, ReadActive(t) PROVE EventsInv'
  <2>1. SleepersInv'
    BY <1>12 DEF ReadActive
  <2>2. (LockOwner /\ WaitersOwner /\ ActiveOwned)'
    BY <1>12 DEF ReadActive
  <2>3. (EventsTypeOK /\ ModifyCounted /\ PollingInv)'
    BY <1>12 DEF ReadActive
  <2>4. (HandlerEnded /\ OthersIdle /\ Delivered)'
    BY <1>12 DEF ReadActive
  <2> QED BY <2>1, <2>2, <2>3, <2>4
<1>13. ASSUME NEW t \in Threads, Wait(t) PROVE EventsInv'
  BY <1>13 DEF Wait
<1>14. ASSUME NEW t \in Threads, Awake(t) PROVE EventsInv'
  BY <1>14 DEF Awake
<1>15. ASSUME NEW t \in Threads, KernelAnswers(t) PROVE EventsInv'
  BY <1>15 DEF KernelAnswers
<1>16. ASSUME NEW t \in Threads, PollTimeout(t) PROVE EventsInv'
  BY <1>16 DEF PollTimeout, DeviceReady, Ready
<1>17. ASSUME NEW t \in Threads, WaitTimeout(t) PROVE EventsInv'
  BY <1>17 DEF WaitTimeout
<1>18. ASSUME NEW t \in Callers, CallerReturn(t) PROVE EventsInv'
  BY <1>18 DEF CallerReturn, Completed
<1>19. ASSUME NEW t \in Callers, StreamStopped(t) PROVE EventsInv'
  BY <1>19 DEF StreamStopped, Completed
<1>20. ASSUME NEW t \in Callers, ControlTransfer(t) PROVE EventsInv'
  BY <1>20 DEF ControlTransfer, Usable
<1>21. ASSUME NEW t \in Others, StreamStop(t) PROVE EventsInv'
  BY <1>21 DEF StreamStop, Usable
<1>22. CASE CheckKill
  BY <1>22 DEF CheckKill
<1>23. CASE HandlerReturn
  BY <1>23 DEF HandlerReturn
<1>24. CASE Open
  BY <1>24 DEF Open
<1>25. CASE Close
  BY <1>25 DEF Close
<1>26. CASE CloseModify
  BY <1>26 DEF CloseModify
<1>27. CASE CloseWrite
  BY <1>27 DEF CloseWrite
<1>28. CASE CloseLock
  BY <1>28 DEF CloseLock
<1>29. CASE CloseRead
  BY <1>29 DEF CloseRead
\* Nobody else has a transfer in flight, so only the status transfer is lost.
<1>30. CASE CloseDrop
  <2>1. Delivered'
    BY <1>30 DEF CloseDrop
  <2>2. (LockOwner /\ WaitersOwner /\ ActiveOwned)'
    BY <1>30 DEF CloseDrop
  <2>3. SleepersInv'
    BY <1>30 DEF CloseDrop
  <2>4. EventsTypeOK'
    BY <1>30 DEF CloseDrop
  <2>5. ModifyCounted'
    BY <1>30 DEF CloseDrop
  <2>6. (PollingInv /\ HandlerEnded /\ OthersIdle)'
    BY <1>30 DEF CloseDrop
  <2> QED BY <2>1, <2>2, <2>3, <2>4, <2>5, <2>6
<1>31. CASE CloseDropped
  BY <1>31 DEF CloseDropped, WakeAll
\* App holds the lock and is not polling, so nobody is.
<1>32. CASE CloseFd
  <2>1. PollingInv'
    BY <1>32 DEF CloseFd
  <2>2. (LockOwner /\ WaitersOwner /\ ActiveOwned)'
    BY <1>32 DEF CloseFd
  <2>3. SleepersInv'
    BY <1>32 DEF CloseFd
  <2>4. EventsTypeOK'
    BY <1>32 DEF CloseFd
  <2>5. ModifyCounted'
    BY <1>32 DEF CloseFd
  <2>6. (HandlerEnded /\ OthersIdle /\ Delivered)'
    BY <1>32 DEF CloseFd
  <2> QED BY <2>1, <2>2, <2>3, <2>4, <2>5, <2>6
<1>33. CASE CloseUnmodify
  BY <1>33 DEF CloseUnmodify
<1>34. CASE CloseJoin
  BY <1>34 DEF CloseJoin
<1>35. CASE Joined
  BY <1>35 DEF Joined
<1>36. CASE UNCHANGED eventsVars
  BY <1>36 DEF eventsVars
<1> QED
  BY <1>1, <1>2, <1>3, <1>4, <1>5, <1>6, <1>7, <1>8, <1>9, <1>10, <1>11, <1>12,
     <1>13, <1>14, <1>15, <1>16, <1>17, <1>18, <1>19, <1>20, <1>21, <1>22, <1>23, <1>24,
     <1>25, <1>26, <1>27, <1>28, <1>29, <1>30, <1>31, <1>32, <1>33, <1>34, <1>35, <1>36
  DEF EventsNext, HandlerThread, Caller, HandleEvents, Closing

\* What the runs check follows.
LEMMA EventsConsequences == EventsInv => SleepersServed /\ ClosedNotPolled
<1> SUFFICES ASSUME EventsInv PROVE SleepersServed /\ ClosedNotPolled OBVIOUS
<1>1. SleepersServed BY DEF EventsInv, SleepersInv, SleepersServed
<1>2. ClosedNotPolled BY DEF EventsInv, PollingInv, Delivered, ClosedNotPolled
<1> QED BY <1>1, <1>2

LEMMA EventsInvariance == EventsSpec => []EventsInv
BY EventsInitially, EventsInductive, PTL DEF EventsSpec

\* The variables keep their types.
THEOREM EventsTypeCorrect == EventsSpec => []EventsTypeOK
<1>1. EventsInv => EventsTypeOK BY DEF EventsInv
<1> QED BY EventsInvariance, <1>1, PTL

\* However many threads wait in libusb_handle_events for an event, none of them
\* is left asleep with nobody who will wake it.
THEOREM NoLostWakeup == EventsSpec => []SleepersServed
<1>1. EventsInv => SleepersServed BY EventsConsequences
<1> QED BY EventsInvariance, <1>1, PTL

\* libusb_close closes a descriptor only when no thread polls or reaps it, and
\* drops no control transfer that a thread still waits for.
THEOREM CloseIsSafe == EventsSpec => []ClosedNotPolled
<1>1. EventsInv => ClosedNotPolled BY EventsConsequences
<1> QED BY EventsInvariance, <1>1, PTL
-----------------------------------------------------------------------------
(***************************************************************************)
(* A transfer: how often its callback is called.                           *)
(***************************************************************************)
Ending == {"decide", "cancelled", "report"}

\* A transfer that is being submitted or whose end is under way is in the list
\* of those that fly; its URBs are still there while it is submitted, and are
\* not once its end is decided.
FlyingInv ==
    /\ submitter \in {"idle", "submitting"}
    /\ submitter = "submitting" => flying /\ urbs /\ reaper \notin Ending
    /\ reaper \in Ending => flying /\ ~urbs
    /\ urbs => flying

Calling == reaper \in {"callback", "resubmitted"}
Once == Contract!Init /\ [][Contract!Next]_<<flying /\ Unlocked, Calling>>

-----------------------------------------------------------------------------
\* A step that reaps a URB keeps the transfer, or begins its end.
LEMMA RetireStep ==
  ASSUME NEW i, FlyingInv,
         ReapBulkAbnormal(i) \/ ReapBulk(i) \/ ReapIso(i) \/ ReapControl(i)
  PROVE  /\ reaper = "idle" /\ submitter = "idle" /\ urbs
         /\ UNCHANGED <<submitter, flying>>
         /\ \/ UNCHANGED <<urbs, reaper>>
            \/ ~urbs' /\ reaper' \in Ending
<1> USE DEF Retire, Unlocked, Complete, GoOn, Ending
<1>1. CASE ReapBulkAbnormal(i)
  BY <1>1 DEF ReapBulkAbnormal
<1>2. CASE ReapBulk(i)
  BY <1>2 DEF ReapBulk
<1>3. CASE ReapIso(i)
  BY <1>3 DEF ReapIso
<1>4. CASE ReapControl(i)
  BY <1>4 DEF ReapControl
<1> QED
  BY <1>1, <1>2, <1>3, <1>4

\* What the kernel does is not seen before the URBs are reaped.
LEMMA KernelStep ==
  Kernel \/ Unplug => UNCHANGED <<submitter, urbs, flying, reaper>>
<1>1. ASSUME NEW i \in Urbs, KernelFinishes(i)
      PROVE  UNCHANGED <<submitter, tpriv, flying, reaper>>
  BY <1>1, Zenon DEF KernelFinishes
<1>2. Kernel => UNCHANGED <<submitter, tpriv, flying, reaper>>
  BY <1>1 DEF Kernel
<1>3. Unplug => UNCHANGED <<submitter, tpriv, flying, reaper>>
  BY Zenon DEF Unplug
<1> QED
  BY <1>2, <1>3 DEF tpriv

\* Every action keeps the relation of the list to the end of the transfer.
LEMMA FlyingStep == FlyingInv /\ [Next]_vars => FlyingInv'
<1> SUFFICES ASSUME FlyingInv, [Next]_vars PROVE FlyingInv'
  OBVIOUS
<1> USE DEF FlyingInv, Ending, Unlocked, tpriv, kernel, what, history
<1>1. CASE Submit
  BY <1>1 DEF Submit
<1>2. CASE Submitting
  BY <1>2 DEF Submitting, SubmitUrb, Submitted, SubmitFirstFails, SubmitFails
<1>3. CASE Cancel \/ Timeout
  BY <1>3 DEF Cancel, Timeout, OpCancel
<1>4. CASE Kernel \/ Unplug
  BY <1>4, KernelStep
<1>5. CASE Reap
  <2> PICK i \in Urbs : ReapBulkAbnormal(i) \/ ReapBulk(i) \/ ReapIso(i) \/ ReapControl(i)
    BY <1>5 DEF Reap
  <2> FlyingInv
    OBVIOUS
  <2> HIDE DEF FlyingInv
  <2>1. /\ reaper = "idle" /\ submitter = "idle" /\ urbs
        /\ UNCHANGED <<submitter, flying>>
        /\ UNCHANGED <<urbs, reaper>> \/ (~urbs' /\ reaper' \in Ending)
    BY RetireStep
  <2> QED
    BY <2>1 DEF FlyingInv
<1>6. CASE Decide \/ Cancellation \/ Report \/ CallbackReturns
  BY <1>6 DEF Decide, Cancellation, Report, CallbackReturns
<1>7. CASE Disconnect
  BY <1>7 DEF Disconnect, Complete
<1>8. CASE UNCHANGED vars
  BY <1>8 DEF vars
<1> QED
  BY <1>1, <1>2, <1>3, <1>4, <1>5, <1>6, <1>7, <1>8 DEF Next, Reaping

\* Every step is one of the contract, or changes nothing it speaks of.
LEMMA OnceStep ==
  FlyingInv /\ [Next]_vars => [Contract!Next]_<<flying /\ Unlocked, Calling>>
<1> SUFFICES ASSUME FlyingInv, [Next]_vars
             PROVE  [Contract!Next]_<<flying /\ Unlocked, Calling>>
  OBVIOUS
<1> USE DEF FlyingInv, Ending, Unlocked, Calling, Contract!Next,
            tpriv, kernel, what, history
<1>1. CASE Submit
  BY <1>1 DEF Submit
<1>2. CASE SubmitUrb \/ SubmitFirstFails
  BY <1>2 DEF SubmitUrb, SubmitFirstFails
<1>3. CASE Submitted \/ SubmitFails
  BY <1>3 DEF Submitted, SubmitFails, Contract!Submit
<1>4. CASE Cancel \/ Timeout
  BY <1>4 DEF Cancel, Timeout, OpCancel
<1>5. CASE Kernel \/ Unplug
  BY <1>5, KernelStep
<1>6. CASE Reap
  <2> PICK i \in Urbs : ReapBulkAbnormal(i) \/ ReapBulk(i) \/ ReapIso(i) \/ ReapControl(i)
    BY <1>6 DEF Reap
  <2> HIDE DEF FlyingInv
  <2>1. /\ reaper = "idle" /\ UNCHANGED <<submitter, flying>>
        /\ UNCHANGED reaper \/ reaper' \in Ending
    BY RetireStep
  <2> QED
    BY <2>1
<1>7. CASE Decide \/ Cancellation
  BY <1>7 DEF Decide, Cancellation
<1>8. CASE Report
  BY <1>8 DEF Report, Contract!Report
<1>9. CASE CallbackReturns
  BY <1>9 DEF CallbackReturns, Contract!Return
<1>10. CASE Disconnect
  BY <1>10 DEF Disconnect, Complete
<1>11. CASE UNCHANGED vars
  BY <1>11 DEF vars
<1> QED
  BY <1>1, <1>2, <1>3, <1>4, <1>5, <1>6, <1>7, <1>8, <1>9, <1>10, <1>11
     DEF Next, Reaping, Submitting

\* The callback is called once for each submission that succeeded and never
\* for one that failed, however many URBs the transfer has and however they end.
THEOREM ReportedOnce == Spec => Once
<1>1. Init => FlyingInv /\ Contract!Init
  BY DEF Init, FlyingInv, Ending, Contract!Init
<1> QED
  BY <1>1, FlyingStep, OnceStep, PTL DEF Spec, Once

-----------------------------------------------------------------------------
(***************************************************************************)
(* The inductive invariant.                                                *)
(***************************************************************************)
Held == {i \in Urbs : urb[i] # "none"}

\* The places of the finished URBs are 1, 2, ... in some order.
Finished(t) == {i \in Urbs : t[i] > 0}
Placed(t) ==
    /\ t \in [Urbs -> Nat]
    /\ \A i, j \in Finished(t) : t[i] = t[j] => i = j
    /\ \A i \in Urbs : t[i] <= Cardinality(Finished(t))
TurnInv ==
    /\ Placed(turn)
    /\ \A i \in Urbs : turn[i] > 0 <=> urb[i] \notin {"none", "queued"}

\* While it submits, nothing was reaped and nothing asked for.
SubmitInv ==
    /\ submits > 0 => num_urbs = IF type = "control" THEN 1 ELSE NumUrbs
    /\ urbs \/ flying => submits > 0
    /\ submitter = "submitting" =>
          /\ next <= num_urbs + 1 /\ num_retired = 0
          /\ reap_action = "NORMAL" /\ reap_status = "completed" /\ got = None
          /\ \A i \in Urbs : urb[i] # "none" <=> i < next
          /\ reaper \in {"idle", "resubmitted"}
    /\ submitter = "idle" /\ urbs /\ reap_action = "NORMAL" => next = num_urbs + 1

\* Every URB of a transfer is in the kernel, retired, or not yet submitted.
CountInv ==
    urbs => /\ Held \subseteq 1..num_urbs
            /\ num_retired + Cardinality(Held)
                 + (IF submitter = "submitting" THEN num_urbs - next + 1 ELSE 0) = num_urbs

\* No stall has mixed up the order in which the URBs of this transfer finish.
InOrder == reap_status = "completed" \/ ~halted

Emptied == ~urbs /\ InOrder => urb = None

\* What the kernel has finished, and why.
KernelInv ==
    /\ gone => Queued = {}
    /\ (\E i \in Urbs : urb[i] = "nodev") \/ reap_status = "no_device" => gone
    /\ urbs => \A i \in Urbs : urb[i] = "overflow" => i = num_urbs
    /\ continuation => type = "bulk"
    /\ type = "control" =>
          \A i \in Urbs : urb[i] # "short" /\ (urb[i] = "killed" => asked)

\* As long as nothing ended the transfer early, URBs finish and are reaped from
\* the first to the last, and what was reaped was fine.
NormalInv ==
    urbs /\ InOrder /\ reap_action = "NORMAL" =>
      /\ \A i, j \in Urbs : i < j /\ urb[i] = "queued" => urb[j] \in {"none", "queued"}
      /\ \A i, j \in Waiting : i < j => turn[i] < turn[j]
      /\ continuation /\ (\E i \in Urbs : i \in Failed \/ urb[i] = "killed") => Queued = {}
      /\ continuation => \A i \in Urbs, n \in Failed : i < n => urb[i] \in {"none", "ok"}
      /\ reap_status = "completed" =>
            /\ \A j \in Urbs : urb[j] = "killed" =>
                  continuation /\ \E i \in Failed : i < j
            /\ SplitType =>
                 \A i \in 1..num_urbs : i < next => urb[i] # "none" \/ got[i] = "ok"

\* A transfer that ended early, by a short URB, has the data up to there.
Result(i) == IF urb[i] = "none" THEN got[i] ELSE urb[i]
ShortAt(n) == Result(n) = "short" /\ \A i \in 1..(n - 1) : Result(i) = "ok"
EarlyInv ==
    urbs /\ reap_action = "COMPLETED_EARLY" /\ reap_status = "completed" /\ ~masked =>
        \E n \in 1..num_urbs : ShortAt(n)

\* What is about to be reported, and the reasons for it.
ReportInv ==
    /\ reap_action = "CANCELLED" \/ reaper = "cancelled" => asked
    /\ reaper \in {"report", "callback"} =>
          /\ status \in {"cancelled", "timed_out"} => asked
          /\ status = "timed_out" => timed_out
    /\ reaper \in {"decide", "report", "callback"} =>
          /\ status = "no_device" => gone
          /\ status = "completed" /\ type # "iso" /\ ~masked => UpToShort
    /\ reaper = "decide" => status \notin {"cancelled", "timed_out"}
    /\ reap_status \notin {"none", "cancelled", "timed_out"}

IInv == /\ TypeOK /\ FlyingInv /\ TurnInv /\ SubmitInv /\ CountInv /\ Emptied
        /\ KernelInv /\ NormalInv /\ EarlyInv /\ ReportInv

-----------------------------------------------------------------------------
(***************************************************************************)
(* Sets of URBs, and their places.                                         *)
(***************************************************************************)
LEMMA Finite ==
  ASSUME NEW S \in SUBSET Urbs
  PROVE  IsFiniteSet(S) /\ Cardinality(S) \in Nat /\ Cardinality(S) <= NumUrbs
<1>1. IsFiniteSet(Urbs) /\ Cardinality(Urbs) = NumUrbs
  BY TransferAssumption, FS_Interval DEF Urbs
<1>2. IsFiniteSet(S) /\ Cardinality(S) <= Cardinality(Urbs)
  BY <1>1, FS_Subset
<1> QED
  BY <1>1, <1>2, FS_CardinalityType

LEMMA StrictSubset ==
  ASSUME NEW S \in SUBSET Urbs, NEW T \in SUBSET S, T # S
  PROVE  Cardinality(T) < Cardinality(S)
<1>1. IsFiniteSet(S) /\ Cardinality(S) \in Nat /\ Cardinality(T) \in Nat
  BY Finite
<1>2. Cardinality(T) <= Cardinality(S) /\ Cardinality(T) # Cardinality(S)
  BY <1>1, FS_Subset
<1> QED
  BY <1>1, <1>2

LEMMA PlacesCounted ==
  ASSUME NEW S \in SUBSET Urbs
  PROVE  /\ \A i \in S : /\ Ascending(S)[i] \in 1..Cardinality(S)
                         /\ Descending(S)[i] \in 1..Cardinality(S)
         /\ \A i, j \in S : i < j => /\ Ascending(S)[i] < Ascending(S)[j]
                                    /\ Descending(S)[i] > Descending(S)[j]
<1> DEFINE lo(i) == {j \in S : j <= i}
           hi(i) == {j \in S : j >= i}
<1>1. S \subseteq Int
  BY DEF Urbs
<1>2. ASSUME NEW i \in S
      PROVE  Cardinality(lo(i)) \in 1..Cardinality(S) /\ Cardinality(hi(i)) \in 1..Cardinality(S)
  <2>1. i \in lo(i) /\ lo(i) \in SUBSET S /\ i \in hi(i) /\ hi(i) \in SUBSET S
    BY <1>1
  <2>2. IsFiniteSet(S) /\ IsFiniteSet(lo(i)) /\ IsFiniteSet(hi(i)) /\ Cardinality(S) \in Nat
          /\ Cardinality(lo(i)) \in Nat /\ Cardinality(hi(i)) \in Nat
    BY <2>1, Finite
  <2>3. Cardinality(lo(i)) # 0 /\ Cardinality(hi(i)) # 0
    BY <2>1, <2>2, FS_EmptySet
  <2>4. Cardinality(lo(i)) <= Cardinality(S) /\ Cardinality(hi(i)) <= Cardinality(S)
    BY <2>1, <2>2, FS_Subset
  <2> QED
    BY <2>2, <2>3, <2>4
<1>3. ASSUME NEW i \in S, NEW j \in S, i < j
      PROVE  Cardinality(lo(i)) < Cardinality(lo(j)) /\ Cardinality(hi(i)) > Cardinality(hi(j))
  <2>1. /\ lo(j) \in SUBSET Urbs /\ lo(i) \in SUBSET lo(j) /\ lo(i) # lo(j)
        /\ hi(i) \in SUBSET Urbs /\ hi(j) \in SUBSET hi(i) /\ hi(j) # hi(i)
    <3>1. j \in lo(j) /\ j \notin lo(i) /\ i \in hi(i) /\ i \notin hi(j)
      BY <1>1, <1>3
    <3>2. \A k \in S : (k <= i => k <= j) /\ (k >= j => k >= i)
      BY <1>1, <1>3
    <3>3. lo(i) \subseteq lo(j) /\ hi(j) \subseteq hi(i)
      BY <3>2
    <3>4. S \subseteq Urbs
      OBVIOUS
    <3> QED
      BY <3>1, <3>3, <3>4
  <2>2. Cardinality(lo(i)) < Cardinality(lo(j)) /\ Cardinality(hi(j)) < Cardinality(hi(i))
    BY <2>1, StrictSubset
  <2>3. Cardinality(lo(i)) \in Nat /\ Cardinality(lo(j)) \in Nat
          /\ Cardinality(hi(i)) \in Nat /\ Cardinality(hi(j)) \in Nat
    BY <2>1, Finite
  <2> QED
    BY <2>2, <2>3
<1>4. \A i \in S : Ascending(S)[i] = Cardinality(lo(i)) /\ Descending(S)[i] = Cardinality(hi(i))
  BY DEF Ascending, Descending
<1> QED
  BY <1>2, <1>3, <1>4

\* URBs that finish are put behind those that wait.
LEMMA FinishPlaced ==
  ASSUME NEW t, Placed(t), NEW S \in SUBSET Urbs, S \cap Finished(t) = {},
         NEW place, \A i \in S : place[i] \in 1..Cardinality(S),
         \A i, j \in S : i < j => place[i] # place[j],
         NEW u, u \in [Urbs -> Nat],
         \A i \in Urbs : u[i] = IF i \in S THEN Cardinality(Finished(t)) + place[i]
                                ELSE t[i]
  PROVE  Placed(u) /\ Finished(u) = Finished(t) \cup S
<1> DEFINE W == Finished(t)
<1>0. W = {i \in Urbs : t[i] > 0}
  BY DEF Finished
<1> HIDE DEF W
<1>1. /\ W \in SUBSET Urbs /\ IsFiniteSet(W) /\ Cardinality(W) \in Nat
      /\ IsFiniteSet(S) /\ Cardinality(S) \in Nat
  BY <1>0, Finite
<1>2. Cardinality(W \cup S) = Cardinality(W) + Cardinality(S)
  <2>1. Cardinality(W \cap S) = 0
    <3>1. W \cap S = {}
      BY DEF W
    <3> QED
      BY <3>1, FS_EmptySet
  <2>2. Cardinality(W \cup S) = Cardinality(W) + Cardinality(S) - Cardinality(W \cap S)
    BY <1>1, FS_Union
  <2> QED
    BY <1>1, <2>1, <2>2
<1>3. /\ \A i \in S : place[i] \in Nat /\ place[i] > 0 /\ place[i] <= Cardinality(S)
      /\ \A i \in Urbs : t[i] \in Nat /\ t[i] <= Cardinality(W)
      /\ \A i \in Urbs : u[i] = IF i \in S THEN Cardinality(W) + place[i] ELSE t[i]
  BY <1>1 DEF Placed, W
<1>4. Finished(u) = W \cup S
  BY <1>0, <1>1, <1>3 DEF Finished
<1>5. \A i \in Urbs : u[i] <= Cardinality(W \cup S)
  BY <1>1, <1>2, <1>3
<1>6. ASSUME NEW i \in W \cup S, NEW j \in W \cup S, u[i] = u[j] PROVE i = j
  <2>1. i \in Urbs /\ j \in Urbs /\ Urbs \subseteq Int
    BY <1>1 DEF Urbs
  <2>2. CASE i \in S /\ j \in S
    BY <1>1, <1>3, <1>6, <2>1, <2>2
  <2>3. CASE i \in W /\ j \in W
    <3>1. u[i] = t[i] /\ u[j] = t[j]
      BY <1>3, <2>1, <2>3 DEF W
    <3> QED
      BY <1>6, <2>3, <3>1 DEF Placed, W
  <2>4. CASE (i \in S /\ j \in W \ S) \/ (i \in W \ S /\ j \in S)
    BY <1>1, <1>3, <1>6, <2>1, <2>4
  <2> QED
    BY <2>2, <2>3, <2>4 DEF W
<1> QED
  BY <1>4, <1>5, <1>6 DEF Placed, W

\* When the first of those that wait is reaped the others move up.
LEMMA UpPlaced ==
  ASSUME NEW t, Placed(t), NEW i \in Urbs, t[i] = 1,
         NEW u, u = [j \in Urbs |-> IF t[j] > 0 THEN t[j] - 1 ELSE 0]
  PROVE  /\ Placed(u) /\ Finished(u) = Finished(t) \ {i}
         /\ Cardinality(Finished(t) \ {i}) = Cardinality(Finished(t)) - 1
<1> DEFINE W == Finished(t)
<1>0. W = {j \in Urbs : t[j] > 0} /\ t \in [Urbs -> Nat]
  BY DEF Finished, Placed
<1>1. \A j, k \in W : t[j] = t[k] => j = k
  BY DEF Placed
<1>2. \A j \in Urbs : t[j] <= Cardinality(W)
  BY DEF Placed
<1> HIDE DEF W
<1>3. W \in SUBSET Urbs /\ IsFiniteSet(W) /\ Cardinality(W) \in Nat /\ i \in W
  BY <1>0, Finite
<1>4. Cardinality(W \ {i}) = Cardinality(W) - 1
  BY <1>3, FS_RemoveElement
<1>5. u \in [Urbs -> Nat]
  BY <1>0
<1>6. Finished(u) = W \ {i}
  BY <1>0, <1>1, <1>3 DEF Finished
<1>7. \A j \in Urbs : u[j] <= Cardinality(W \ {i})
  BY <1>0, <1>2, <1>3, <1>4
<1>8. \A j, k \in W \ {i} : u[j] = u[k] => j = k
  BY <1>0, <1>1
<1> QED
  BY <1>4, <1>5, <1>6, <1>7, <1>8 DEF Placed, W

LEMMA PlacedType ==
  ASSUME NEW t, Placed(t)
  PROVE  t \in [Urbs -> 0..NumUrbs]
<1> DEFINE W == Finished(t)
<1>1. W \in SUBSET Urbs
  BY DEF Finished
<1>2. Cardinality(W) \in Nat /\ Cardinality(W) <= NumUrbs
  BY <1>1, Finite
<1>3. t \in [Urbs -> Nat] /\ \A i \in Urbs : t[i] <= Cardinality(W)
  BY DEF Placed
<1> HIDE DEF W
<1> QED
  BY <1>2, <1>3, TransferAssumption

\* URBs of S finish, and wait behind the others.
LEMMA Finishing ==
  ASSUME TurnInv, urb \in [Urbs -> UrbStatuses], urb' \in [Urbs -> UrbStatuses],
         NEW S \in SUBSET Queued,
         \A i \in Urbs : i \notin S => urb'[i] = urb[i],
         \A i \in S : urb'[i] \notin {"none", "queued"},
         Finish(Ascending(S)) \/ Finish(Descending(S))
  PROVE  /\ TurnInv' /\ Held' = Held /\ Queued' = Queued \ S
         /\ Waiting' = Waiting \cup S
         /\ \A i \in Waiting : turn'[i] = turn[i]
         /\ \A i \in Waiting, j \in S : turn[i] < turn'[j]
         /\ Finish(Ascending(S)) => \A i, j \in S : i < j => turn'[i] < turn'[j]
<1>1. S \in SUBSET Urbs /\ S \cap Waiting = {} /\ Waiting \in SUBSET Urbs
  BY DEF Queued, Waiting, TurnInv
<1>2. PICK place : /\ place = Ascending(S) \/ place = Descending(S)
                   /\ Finish(place)
                   /\ Finish(Ascending(S)) => place = Ascending(S)
  OBVIOUS
<1>3. DOMAIN place = S
  BY <1>2 DEF Ascending, Descending
<1>4. /\ \A i \in S : place[i] \in 1..Cardinality(S)
      /\ \A i, j \in S : i < j => place[i] # place[j]
      /\ place = Ascending(S) => \A i, j \in S : i < j => place[i] < place[j]
  BY <1>1, <1>2, PlacesCounted
<1>5. turn' = [i \in Urbs |-> IF i \in S THEN Cardinality(Waiting) + place[i] ELSE turn[i]]
  BY <1>2, <1>3 DEF Finish
<1>6. Placed(turn') /\ Finished(turn') = Finished(turn) \cup S
  <2>1. Placed(turn) /\ Waiting = Finished(turn)
    BY DEF TurnInv, Waiting, Finished
  <2>2. /\ \A i \in S : place[i] \in 1..Cardinality(S)
        /\ \A i, j \in S : i < j => place[i] # place[j]
    BY <1>4
  <2>3. Cardinality(S) \in Nat /\ Cardinality(Waiting) \in Nat /\ turn \in [Urbs -> Nat]
    BY <1>1, <2>1, Finite DEF Placed
  <2>4. turn' \in [Urbs -> Nat]
    BY <1>5, <2>2, <2>3
  <2>5. \A i \in Urbs : turn'[i] = IF i \in S THEN Cardinality(Finished(turn)) + place[i]
                                  ELSE turn[i]
    BY <1>5, <2>1
  <2>6. S \cap Finished(turn) = {} /\ S \in SUBSET Urbs
    BY <1>1, <2>1
  <2> QED
    BY <2>1, <2>2, <2>4, <2>5, <2>6, FinishPlaced
<1>7. Waiting' = Waiting \cup S
  BY <1>6 DEF Waiting, Finished
<1>8. TurnInv'
  <2>1. \A i \in Urbs : turn'[i] > 0 <=> i \in Waiting \cup S
    BY <1>7 DEF Waiting
  <2>2. \A i \in Urbs : i \in Waiting <=> urb[i] \notin {"none", "queued"}
    BY DEF Waiting, TurnInv
  <2>3. \A i \in Urbs : turn'[i] > 0 <=> urb'[i] \notin {"none", "queued"}
    BY <2>1, <2>2
  <2> QED
    BY <1>6, <2>3 DEF TurnInv
<1>9. Cardinality(S) \in Nat /\ Cardinality(Waiting) \in Nat
  BY <1>1, Finite
<1>10. \A i \in Waiting : turn'[i] = turn[i] /\ turn[i] <= Cardinality(Waiting) /\ turn[i] \in Nat
  <2>1. /\ turn \in [Urbs -> Nat] /\ Waiting = Finished(turn)
        /\ \A i \in Urbs : turn[i] <= Cardinality(Finished(turn))
    BY DEF TurnInv, Placed, Waiting, Finished
  <2> QED
    BY <1>1, <1>5, <2>1
<1>11. \A j \in S : turn'[j] = Cardinality(Waiting) + place[j] /\ place[j] \in Nat /\ place[j] > 0
  BY <1>1, <1>4, <1>5, <1>9
<1>12. \A i \in Waiting, j \in S : turn[i] < turn'[j]
  BY <1>9, <1>10, <1>11
<1>13. ASSUME Finish(Ascending(S)), NEW i \in S, NEW j \in S, i < j
       PROVE  turn'[i] < turn'[j]
  <2>1. place[i] < place[j]
    BY <1>2, <1>4, <1>13
  <2> QED
    BY <1>9, <1>11, <2>1
<1>14. Held' = Held /\ Queued' = Queued \ S
  BY DEF Held, Queued
<1> QED
  BY <1>7, <1>8, <1>10, <1>12, <1>13, <1>14

\* A URB leaves the kernel.
LEMMA Leaving ==
  ASSUME TurnInv, NEW i \in Urbs, turn[i] = 1, urb \in [Urbs -> UrbStatuses],
         Reaped(i)
  PROVE  /\ TurnInv' /\ Queued' = Queued /\ Held' = Held \ {i}
         /\ urb' \in [Urbs -> UrbStatuses]
         /\ Waiting' = Waiting \ {i}
         /\ \A j \in Waiting' : turn'[j] = turn[j] - 1
<1>1. turn' = [j \in Urbs |-> IF turn[j] > 0 THEN turn[j] - 1 ELSE 0]
  BY DEF Reaped, Up
<1>2. Placed(turn') /\ Finished(turn') = Finished(turn) \ {i}
  <2>1. Placed(turn)
    BY DEF TurnInv
  <2> QED
    BY <1>1, <2>1, UpPlaced
<1>3. Waiting' = Waiting \ {i}
  BY <1>2 DEF Waiting, Finished
<1>4. \A j \in Urbs : urb'[j] = IF j = i THEN "none" ELSE urb[j]
  BY DEF Reaped
<1>5. urb[i] \notin {"none", "queued"}
  BY DEF TurnInv
<1>6. TurnInv'
  BY <1>2, <1>3, <1>4 DEF TurnInv, Waiting
<1>7. urb' \in [Urbs -> UrbStatuses]
  BY DEF Reaped, UrbStatuses
<1>8. Queued' = Queued /\ Held' = Held \ {i}
  BY <1>4, <1>5 DEF Queued, Held
<1>9. \A j \in Waiting' : turn'[j] = turn[j] - 1
  BY <1>1, <1>3 DEF Waiting
<1> QED
  BY <1>3, <1>6, <1>7, <1>8, <1>9

\* It leaves, and those of S are discarded, behind the others.
LEMMA Halting ==
  ASSUME TurnInv, NEW i \in Urbs, turn[i] = 1, urb \in [Urbs -> UrbStatuses],
         NEW S \in SUBSET Queued,
         urb' = [j \in Urbs |-> IF j = i THEN "none"
                                ELSE IF j \in S THEN "killed" ELSE urb[j]],
         turn' = [j \in Urbs |-> IF j \in S
                    THEN Cardinality(Waiting) - 1 + Descending(S)[j] ELSE Up(j)]
  PROVE  /\ TurnInv' /\ Queued' = Queued \ S /\ Held' = Held \ {i}
         /\ urb' \in [Urbs -> UrbStatuses]
         /\ Waiting' = (Waiting \ {i}) \cup S
         /\ \A j \in Waiting \ {i} : turn'[j] = turn[j] - 1
         /\ \A j \in Waiting \ {i}, k \in S : turn'[j] < turn'[k]
<1> DEFINE u == [j \in Urbs |-> IF turn[j] > 0 THEN turn[j] - 1 ELSE 0]
           place == Descending(S)
<1>1. /\ S \in SUBSET Urbs /\ S \cap Waiting = {} /\ Waiting \in SUBSET Urbs
      /\ Placed(turn) /\ Waiting = Finished(turn)
      /\ urb[i] \notin {"none", "queued"} /\ turn \in [Urbs -> Nat]
  BY DEF Queued, Waiting, TurnInv, Finished, Placed
<1>2. /\ Placed(u) /\ Finished(u) = Waiting \ {i}
      /\ Cardinality(Waiting \ {i}) = Cardinality(Waiting) - 1
  BY <1>1, UpPlaced
<1>3. /\ \A j \in S : place[j] \in 1..Cardinality(S)
      /\ \A j, k \in S : j < k => place[j] # place[k]
  <2>1. /\ \A j \in S : place[j] \in 1..Cardinality(S)
        /\ \A j, k \in S : j < k => place[j] > place[k]
    BY <1>1, PlacesCounted
  <2>2. Cardinality(S) \in Nat
    BY <1>1, Finite
  <2> HIDE DEF place
  <2> QED
    BY <2>1, <2>2
<1>4. Cardinality(S) \in Nat /\ Cardinality(Waiting) \in Nat
  BY <1>1, Finite
<1>5. \A j \in Urbs : u[j] = Up(j) /\ u[j] \in Nat
  BY <1>1 DEF Up
<1> HIDE DEF u, place
<1>6. /\ \A j \in Urbs : turn'[j] = IF j \in S THEN Cardinality(Finished(u)) + place[j] ELSE u[j]
      /\ DOMAIN turn' = Urbs /\ turn' = [j \in Urbs |-> turn'[j]]
  BY <1>2, <1>5 DEF place
<1>7. Cardinality(Finished(u)) \in Nat
  BY <1>1, <1>2, Finite
<1>8. turn' \in [Urbs -> Nat]
  BY <1>3, <1>5, <1>6, <1>7
<1>9. Placed(turn') /\ Finished(turn') = (Waiting \ {i}) \cup S
  <2>1. S \cap Finished(u) = {} /\ S \in SUBSET Urbs /\ Placed(u)
    BY <1>1, <1>2
  <2>2. /\ \A j \in S : place[j] \in 1..Cardinality(S)
        /\ \A j, k \in S : j < k => place[j] # place[k]
        /\ \A j \in Urbs : turn'[j] = IF j \in S THEN Cardinality(Finished(u)) + place[j]
                                        ELSE u[j]
    BY <1>3, <1>6
  <2>3. Placed(turn') /\ Finished(turn') = Finished(u) \cup S
    BY <1>8, <2>1, <2>2, FinishPlaced
  <2> QED
    BY <1>2, <2>3
<1>10. Waiting' = (Waiting \ {i}) \cup S
  BY <1>9 DEF Waiting, Finished
<1>11. TurnInv'
  <2>1. \A j \in Urbs : turn'[j] > 0 <=> j \in (Waiting \ {i}) \cup S
    BY <1>10 DEF Waiting
  <2>2. \A j \in Urbs : j \in Waiting <=> urb[j] \notin {"none", "queued"}
    BY DEF Waiting, TurnInv
  <2>3. \A j \in S : urb[j] = "queued"
    BY DEF Queued
  <2>4. \A j \in Urbs : turn'[j] > 0 <=> urb'[j] \notin {"none", "queued"}
    BY <1>1, <2>1, <2>2, <2>3
  <2> QED
    BY <1>9, <2>4 DEF TurnInv
<1>12. \A j \in Waiting \ {i} : turn'[j] = turn[j] - 1 /\ turn'[j] <= Cardinality(Waiting) - 1
  <2>1. \A j \in Waiting \ {i} : j \notin S /\ j \in Urbs /\ turn[j] > 0 /\ turn[j] <= Cardinality(Waiting)
    BY <1>1 DEF Waiting, Placed
  <2>2. \A j \in Waiting \ {i} : turn'[j] = Up(j)
    BY <1>5, <1>6, <2>1
  <2> QED
    BY <1>1, <1>4, <2>1, <2>2 DEF Up
<1>13. ASSUME NEW k \in S
       PROVE  turn'[k] > Cardinality(Waiting) - 1 /\ turn'[k] \in Nat
  <2>1. k \in Urbs /\ turn'[k] \in Nat
    BY <1>1, <1>8
  <2>2. turn'[k] = Cardinality(Finished(u)) + place[k]
    BY <1>6, <2>1
  <2>3. Cardinality(Finished(u)) = Cardinality(Waiting) - 1
    BY <1>2
  <2>4. place[k] \in Nat /\ place[k] > 0
    BY <1>3, <1>4
  <2> QED
    BY <1>4, <2>1, <2>2, <2>3, <2>4
<1>14. ASSUME NEW j \in Waiting \ {i}, NEW k \in S PROVE turn'[j] < turn'[k]
  <2>1. turn'[j] \in Nat
    BY <1>1, <1>8
  <2>2. turn'[j] <= Cardinality(Waiting) - 1
    BY <1>12
  <2>3. turn'[k] > Cardinality(Waiting) - 1 /\ turn'[k] \in Nat
    BY <1>13
  <2> QED
    BY <1>4, <2>1, <2>2, <2>3
<1>15. Queued' = Queued \ S /\ Held' = Held \ {i} /\ urb' \in [Urbs -> UrbStatuses]
  BY <1>1 DEF Queued, Held, UrbStatuses
<1> QED
  BY <1>10, <1>11, <1>12, <1>14, <1>15

LEMMA Discarding ==
  ASSUME TurnInv, urb \in [Urbs -> UrbStatuses], NEW S \in SUBSET Queued, Discard(S)
  PROVE  /\ TurnInv' /\ Held' = Held /\ Queued' = Queued \ S
         /\ urb' \in [Urbs -> UrbStatuses]
         /\ \A i \in Urbs : urb'[i] = IF i \in S THEN "killed" ELSE urb[i]
<1>1. /\ urb' = [i \in Urbs |-> IF i \in S THEN "killed" ELSE urb[i]]
      /\ Finish(Descending(S))
  BY DEF Discard
<1>2. /\ \A i \in Urbs : urb'[i] = IF i \in S THEN "killed" ELSE urb[i]
      /\ urb' \in [Urbs -> UrbStatuses]
  BY <1>1 DEF UrbStatuses
<1>3. TurnInv' /\ Held' = Held /\ Queued' = Queued \ S
  <2>1. /\ \A i \in Urbs : i \notin S => urb'[i] = urb[i]
        /\ \A i \in S : i \in Urbs /\ urb'[i] \notin {"none", "queued"}
    BY <1>1, <1>2 DEF Queued
  <2> QED
    BY <1>1, <1>2, <2>1, Finishing
<1> QED
  BY <1>2, <1>3

\* A transfer that has its data up to a short URB keeps them, whatever becomes
\* of the URBs that the kernel still has.
LEMMA ShortKept ==
  ASSUME IInv, UNCHANGED <<num_urbs, got>>,
         \A i \in Urbs : urb[i] # "queued" => urb'[i] = urb[i],
         NEW n \in 1..num_urbs, ShortAt(n)
  PROVE  ShortAt(n)'
<1>1. n \in Urbs /\ \A i \in 1..(n - 1) : i \in Urbs
  BY TransferAssumption DEF IInv, TypeOK, Urbs
<1>2. \A i \in Urbs : Result(i) \in {"short", "ok"} => Result(i)' = Result(i)
  BY DEF Result
<1> QED
  BY <1>1, <1>2 DEF ShortAt

-----------------------------------------------------------------------------
(***************************************************************************)
(* Every action keeps the invariant.                                       *)
(***************************************************************************)
\* The places of URBs are bounded, and no more are retired than there are.
LEMMA Bounded ==
  ASSUME TypeOK, TurnInv', CountInv', UNCHANGED <<type, continuation>>,
         urb' \in [Urbs -> UrbStatuses], num_urbs' \in 0..NumUrbs, num_retired' \in Nat,
         urbs' \in BOOLEAN, ~urbs' => num_retired' <= num_urbs',
         submitter' \in {"idle", "submitting"}, next' \in 1..(NumUrbs + 1),
         submitter' = "submitting" => next' <= num_urbs' + 1
  PROVE  turn' \in [Urbs -> 0..NumUrbs] /\ num_retired' \in 0..num_urbs'
<1>1. turn' \in [Urbs -> 0..NumUrbs]
  BY PlacedType DEF TurnInv
<1>2. Held' \in SUBSET Urbs
  BY DEF Held
<1>3. Cardinality(Held') \in Nat
  BY <1>2, Finite
<1>4. num_retired' <= num_urbs'
  <2>1. CASE urbs'
    <3> DEFINE left == IF submitter' = "submitting" THEN num_urbs' - next' + 1 ELSE 0
    <3>1. num_urbs' \in Nat /\ next' \in Nat
      BY TransferAssumption
    <3>2. left \in Nat
      <4>1. CASE submitter' = "submitting"
        <5>1. num_urbs' - next' + 1 \in Nat
          <6>1. \A m, n \in Nat : n <= m + 1 => m - n + 1 \in Nat
            OBVIOUS
          <6>2. next' <= num_urbs' + 1
            BY <4>1
          <6> QED
            BY <3>1, <6>1, <6>2
        <5> QED
          BY <4>1, <5>1
      <4> QED
        BY <4>1
    <3>3. num_retired' + Cardinality(Held') + left = num_urbs'
      BY <2>1 DEF CountInv
    <3> HIDE DEF left
    <3> QED
      BY <1>3, <3>1, <3>2, <3>3
  <2> QED
    BY <2>1
<1> QED
  BY <1>1, <1>4, TransferAssumption

\* Steps of the thread that reports, and the end of a submission.
LEMMA QuietStep ==
  ASSUME IInv, Submitted \/ Decide \/ Cancellation \/ Report \/ CallbackReturns
                 \/ UNCHANGED vars
  PROVE  IInv'
<1> USE DEF Submitted, Decide, Cancellation, Report, CallbackReturns, vars,
            what, tpriv, kernel, history
<1>1. UNCHANGED <<type, continuation, next, urbs, num_urbs, num_retired, reap_action,
                  reap_status, urb, turn, timed_out, gone, submits, cancels, asked, kept, got,
                  halted, masked>>
  BY DEF IInv
<1>2. FlyingInv'
  BY FlyingStep DEF IInv, Next, Submitting, Reaping
<1>3. TypeOK'
  <2>1. /\ submitter' \in {"idle", "submitting"} /\ status' \in Statuses
        /\ reaper' \in {"idle", "decide", "cancelled", "report", "callback", "resubmitted"}
        /\ flying' \in BOOLEAN
    BY DEF IInv, TypeOK, Statuses
  <2> QED
    BY <1>1, <2>1 DEF IInv, TypeOK
<1>4. TurnInv'
  BY <1>1 DEF IInv, TurnInv
<1>5. SubmitInv'
  BY DEF IInv, SubmitInv, TypeOK, FlyingInv, Ending, Unlocked
<1>6. CountInv'
  <2>1. Held' = Held
    BY <1>1 DEF Held
  <2>2. CASE UNCHANGED submitter
    BY <1>1, <2>1, <2>2 DEF IInv, CountInv
  <2>3. CASE Submitted
    <3>1. num_urbs \in Nat /\ next \in Nat
      BY TransferAssumption DEF IInv, TypeOK
    <3>2. submitter' # "submitting" /\ next = num_urbs + 1
      BY <2>3, <3>1 DEF IInv, SubmitInv
    <3>3. urbs => num_retired + Cardinality(Held) + (num_urbs - next + 1) = num_urbs
                    /\ Held \subseteq 1..num_urbs
      BY <2>3 DEF IInv, CountInv
    <3>4. num_retired \in Nat /\ Cardinality(Held) \in Nat
      <4>1. Held \in SUBSET Urbs
        BY DEF Held
      <4> QED
        BY <4>1, Finite DEF IInv, TypeOK
    <3>5. urbs => num_retired + Cardinality(Held) + 0 = num_urbs
      BY <3>1, <3>2, <3>3, <3>4
    <3> QED
      BY <1>1, <2>1, <3>2, <3>3, <3>5 DEF CountInv
  <2> QED
    BY <2>2, <2>3
<1>7. Emptied' /\ KernelInv' /\ NormalInv' /\ EarlyInv'
  BY <1>1 DEF IInv, SplitType, Emptied, KernelInv, NormalInv, EarlyInv, InOrder, Queued, Waiting,
              Failed, Result, ShortAt
<1>8. ReportInv'
  BY <1>1 DEF IInv, ReportInv, UpToShort, TypeOK
<1> QED
  BY <1>2, <1>3, <1>4, <1>5, <1>6, <1>7, <1>8 DEF IInv

LEMMA SubmitStep == ASSUME IInv, Submit PROVE IInv'
<1> USE DEF Submit, what, kernel
<1>1. /\ \A i \in Urbs : urb[i] = "none"
      /\ UNCHANGED <<urb, turn>> /\ Held = {} /\ Queued = {} /\ Failed = {}
      /\ Held' = {} /\ Queued' = {}
  BY DEF Held, Queued, Failed, None
<1>2. FlyingInv'
  BY FlyingStep DEF IInv, Next
<1>3. NumUrbs \in Nat /\ NumUrbs > 0
  BY TransferAssumption
<1>4. TypeOK'
  <2>1. /\ num_urbs' \in 0..NumUrbs /\ num_retired' \in 0..num_urbs' /\ next' \in 1..(NumUrbs + 1)
    BY <1>3
  <2>2. /\ urbs' \in BOOLEAN /\ flying' \in BOOLEAN /\ timed_out' \in BOOLEAN
        /\ asked' \in BOOLEAN /\ masked' \in BOOLEAN /\ submitter' \in {"idle", "submitting"}
        /\ reap_action' = "NORMAL" /\ reap_status' \in Statuses
        /\ reaper' \in {"idle", "resubmitted"}
    BY DEF Statuses
  <2>3. submits' \in 0..MaxSubmits
    BY TransferAssumption DEF IInv, TypeOK
  <2> QED
    BY <2>1, <2>2, <2>3 DEF IInv, TypeOK
<1>5. TurnInv'
  BY <1>1 DEF IInv, TurnInv
<1>6. SubmitInv'
  <2>1. submits \in Nat
    BY DEF IInv, TypeOK
  <2>2. \A i \in Urbs : ~(i < 1)
    BY DEF Urbs
  <2> QED
    BY <1>1, <1>3, <2>1, <2>2 DEF IInv, SubmitInv, Unlocked
<1>7. CountInv'
  <2>1. Cardinality(Held') = 0
    BY <1>1, FS_EmptySet
  <2> QED
    BY <1>1, <1>3, <2>1 DEF CountInv
<1>8. Emptied' /\ KernelInv'
  <2>1. ~gone /\ reap_status' # "no_device"
    OBVIOUS
  <2> QED
    BY <1>1, <2>1 DEF IInv, Emptied, KernelInv
<1>9. NormalInv'
  BY <1>1 DEF NormalInv, Waiting, Failed, IInv, TurnInv, Urbs, None
<1>10. EarlyInv' /\ ReportInv'
  BY DEF EarlyInv, ReportInv, IInv
<1> QED
  BY <1>2, <1>4, <1>5, <1>6, <1>7, <1>8, <1>9, <1>10 DEF IInv

\* The kernel takes one more URB.
LEMMA SubmitUrbStep == ASSUME IInv, SubmitUrb PROVE IInv'
<1> USE DEF SubmitUrb, what, tpriv, history
<1>1. /\ UNCHANGED <<type, continuation, submitter, urbs, num_urbs, num_retired, reap_action,
                     reap_status, turn, flying, timed_out, reaper, status, gone, submits,
                     cancels, asked, kept, got, halted, masked>>
      /\ next' = next + 1 /\ next \in Nat /\ next >= 1 /\ next <= num_urbs
      /\ num_urbs \in Nat /\ num_urbs <= NumUrbs /\ NumUrbs \in Nat
      /\ urbs /\ flying /\ submitter = "submitting"
  BY TransferAssumption DEF IInv, TypeOK, FlyingInv
<1>2. next \in Urbs
  BY <1>1 DEF Urbs
<1>3. /\ \A i \in Urbs : urb'[i] = IF i = next THEN "queued" ELSE urb[i]
      /\ urb' \in [Urbs -> UrbStatuses]
      /\ \A i \in Urbs : urb[i] # "none" <=> i < next
  BY <1>2 DEF IInv, TypeOK, UrbStatuses, SubmitInv
<1>4. /\ Held' = Held \cup {next} /\ next \notin Held /\ Queued' = Queued \cup {next}
      /\ Waiting' = Waiting /\ Failed' = Failed
  BY <1>1, <1>2, <1>3 DEF Held, Queued, Waiting, Failed
<1>5. FlyingInv'
  BY FlyingStep DEF IInv, Next, Submitting
<1>6. TypeOK'
  <2>1. next' \in 1..(NumUrbs + 1)
    BY <1>1
  <2> QED
    BY <1>1, <1>3, <2>1 DEF IInv, TypeOK, UrbStatuses
<1>7. TurnInv'
  BY <1>1, <1>2, <1>3 DEF IInv, TurnInv
<1>8. SubmitInv'
  <2>1. \A i \in Urbs : i < next + 1 <=> i < next \/ i = next
    BY <1>1 DEF Urbs
  <2>2. \A i \in Urbs : urb'[i] # "none" <=> i < next'
    BY <1>1, <1>3, <2>1
  <2> QED
    BY <1>1, <2>2 DEF IInv, SubmitInv
<1>9. CountInv'
  <2>1. Held \in SUBSET Urbs /\ Held \subseteq 1..num_urbs
    BY <1>1 DEF IInv, CountInv, Held
  <2>2. IsFiniteSet(Held) /\ Cardinality(Held) \in Nat
    BY <2>1, Finite
  <2>3. Cardinality(Held') = Cardinality(Held) + 1
    BY <1>4, <2>2, FS_AddElement
  <2>4. num_retired + Cardinality(Held) + (num_urbs - next + 1) = num_urbs /\ num_retired \in Nat
    BY <1>1 DEF IInv, CountInv, TypeOK
  <2>5. num_retired + (Cardinality(Held) + 1) + (num_urbs - (next + 1) + 1) = num_urbs
    BY <1>1, <2>2, <2>4
  <2>6. Held' \subseteq 1..num_urbs
    BY <1>1, <1>4, <2>1
  <2> QED
    BY <1>1, <2>3, <2>5, <2>6 DEF CountInv
<1>10. Emptied'
  BY <1>1 DEF Emptied
<1>11. KernelInv'
  BY <1>1, <1>3 DEF IInv, KernelInv, Queued
<1>12. NormalInv'
  <2>1. continuation => Failed = {}
    BY DEF Refused
  <2>2. reap_action = "NORMAL" /\ reap_status = "completed" /\ InOrder
    BY <1>1 DEF IInv, SubmitInv, InOrder
  <2> HIDE DEF SubmitUrb
  <2>3. /\ \A i, j \in Waiting : i < j => turn[i] < turn[j]
        /\ \A j \in Urbs : urb[j] = "killed" => continuation /\ \E i \in Failed : i < j
        /\ SplitType => \A i \in 1..num_urbs : i < next => urb[i] # "none" \/ got[i] = "ok"
    BY <1>1, <2>2 DEF IInv, NormalInv
  <2>4. \A i, j \in Waiting' : i < j => turn'[i] < turn'[j]
    BY <1>1, <1>4, <2>3
  <2>5. continuation => Failed' = {} /\ \A i \in Urbs : urb'[i] # "killed"
    BY <1>3, <1>4, <2>1, <2>3
  <2>6. \A j \in Urbs : urb'[j] = "killed" => continuation /\ \E i \in Failed' : i < j
    BY <1>3, <1>4, <2>3
  <2>7. SplitType => \A i \in 1..num_urbs : i < next' => urb'[i] # "none" \/ got[i] = "ok"
    BY <1>1, <1>2, <1>3, <2>3 DEF Urbs
  <2>8. \A i, j \in Urbs : i < j /\ urb'[i] = "queued" => urb'[j] \in {"none", "queued"}
    <3>1. \A i, j \in Urbs : i < j /\ urb[i] = "queued" => urb[j] \in {"none", "queued"}
      BY <1>1, <2>2 DEF IInv, NormalInv
    <3> QED
      BY <1>1, <1>2, <1>3, <3>1 DEF Urbs
  <2> QED
    BY <1>1, <1>4, <2>4, <2>5, <2>6, <2>7, <2>8 DEF NormalInv, SplitType
<1>13. EarlyInv'
  BY <1>1 DEF IInv, EarlyInv, SubmitInv
<1>14. ReportInv'
  BY <1>1 DEF IInv, ReportInv, UpToShort
<1> QED
  BY <1>5, <1>6, <1>7, <1>8, <1>9, <1>10, <1>11, <1>12, <1>13, <1>14 DEF IInv

\* Nothing was submitted.
LEMMA SubmitFirstFailsStep == ASSUME IInv, SubmitFirstFails PROVE IInv'
<1> USE DEF SubmitFirstFails, what, kernel, history
<1>1. /\ UNCHANGED <<type, continuation, next, num_urbs, num_retired, reap_action,
                     reap_status, urb, turn, timed_out, reaper, status, gone, submits,
                     cancels, asked, kept, got, halted, masked>>
      /\ ~urbs' /\ ~flying' /\ submitter' = "idle"
  OBVIOUS
<1>2. \A i \in Urbs : urb[i] = "none"
  BY DEF IInv, SubmitInv, Urbs
<1>3. urb = None
  BY <1>2 DEF IInv, TypeOK, None
<1>4. FlyingInv'
  BY FlyingStep DEF IInv, Next, Submitting
<1>5. TypeOK' /\ TurnInv'
  BY <1>1 DEF IInv, TypeOK, TurnInv
<1>6. SubmitInv' /\ CountInv' /\ NormalInv' /\ EarlyInv'
  BY <1>1 DEF IInv, SubmitInv, CountInv, NormalInv, EarlyInv
<1>7. Emptied' /\ KernelInv'
  BY <1>1, <1>3 DEF IInv, Emptied, KernelInv, Queued
<1>8. ReportInv'
  BY <1>1 DEF IInv, ReportInv, UpToShort
<1> QED
  BY <1>4, <1>5, <1>6, <1>7, <1>8 DEF IInv

\* Some of the URBs were submitted.  If the kernel refused the others, one of
\* those that were is the first to fail, and was short unless that is masked.
LEMMA SubmitFailsStep == ASSUME IInv, SubmitFails PROVE IInv'
<1> USE DEF SubmitFails, what
<1>1. /\ UNCHANGED <<type, continuation, next, urbs, num_urbs, reap_status, flying,
                     timed_out, reaper, status, gone, submits, cancels, asked, kept, got, halted>>
      /\ submitter = "submitting" /\ submitter' = "idle" /\ urbs /\ flying
      /\ next \in Nat /\ next >= 2 /\ next <= num_urbs
      /\ num_urbs \in Nat /\ num_urbs <= NumUrbs /\ NumUrbs \in Nat
      /\ num_retired = 0 /\ num_retired' = num_urbs - next + 1
      /\ reap_action = "NORMAL" /\ reap_status = "completed" /\ got = None
      /\ \A i \in Urbs : urb[i] # "none" <=> i < next
      /\ reaper \in {"idle", "resubmitted"}
  BY TransferAssumption DEF IInv, TypeOK, FlyingInv, SubmitInv, NotSubmitted
<1>2. type # "control"
  BY <1>1 DEF IInv, SubmitInv, TypeOK
<1>3. /\ reap_action' \in {"COMPLETED_EARLY", "SUBMIT_FAILED"} /\ masked' \in BOOLEAN
      /\ reap_action' = "COMPLETED_EARLY" => Refused /\ UNCHANGED kernel
      /\ reap_action' = "SUBMIT_FAILED" => \E S \in SUBSET Queued : Discard(S)
  BY DEF IInv, TypeOK, Discardable
<1>5. /\ TurnInv' /\ Held' = Held /\ Queued' \subseteq Queued /\ urb' \in [Urbs -> UrbStatuses]
      /\ \A i \in Urbs : urb'[i] # "killed" => urb'[i] = urb[i]
  <2>1. CASE reap_action' = "COMPLETED_EARLY"
    BY <1>3, <2>1 DEF kernel, IInv, TypeOK, TurnInv, Held, Queued, UrbStatuses
  <2>2. CASE reap_action' = "SUBMIT_FAILED"
    <3>1. PICK S \in SUBSET Queued : Discard(S)
      BY <1>3, <2>2
    <3>2. TurnInv /\ urb \in [Urbs -> UrbStatuses]
      BY DEF IInv, TypeOK, UrbStatuses
    <3>3. /\ TurnInv' /\ Held' = Held /\ Queued' = Queued \ S
          /\ urb' \in [Urbs -> UrbStatuses]
          /\ \A i \in Urbs : urb'[i] = IF i \in S THEN "killed" ELSE urb[i]
      BY <3>1, <3>2, Discarding
    <3> QED
      BY <3>3
  <2> QED
    BY <1>3, <2>1, <2>2
<1> HIDE DEF SubmitFails
<1>6. FlyingInv'
  BY FlyingStep DEF IInv, Next, Submitting
<1>7. SubmitInv'
  BY <1>1, <1>3 DEF IInv, SubmitInv
<1>8. CountInv'
  <2>1. Held \in SUBSET Urbs /\ Held \subseteq 1..num_urbs
    BY <1>1 DEF IInv, CountInv, Held
  <2>2. Cardinality(Held) \in Nat
    BY <2>1, Finite
  <2>3. num_retired + Cardinality(Held) + (num_urbs - next + 1) = num_urbs
    BY <1>1 DEF IInv, CountInv
  <2>4. num_retired' + Cardinality(Held') + 0 = num_urbs
    BY <1>1, <1>5, <2>2, <2>3
  <2> QED
    BY <1>1, <1>5, <2>1, <2>4 DEF CountInv
<1>9. TypeOK'
  <2>1. turn' \in [Urbs -> 0..NumUrbs]
    BY <1>5, PlacedType DEF TurnInv
  <2>2. num_retired' \in 0..num_urbs
    BY <1>1
  <2> QED
    BY <1>1, <1>3, <1>5, <2>1, <2>2 DEF IInv, TypeOK, UrbStatuses
<1>10. Emptied' /\ NormalInv'
  BY <1>1, <1>3 DEF Emptied, NormalInv
<1>11. KernelInv'
  <2>1. gone => Queued' = {}
    BY <1>5 DEF IInv, KernelInv
  <2>2. (\E i \in Urbs : urb'[i] = "nodev") => gone
    BY <1>5 DEF IInv, KernelInv
  <2>3. \A i \in Urbs : urb'[i] = "overflow" => i = num_urbs
    BY <1>1, <1>5 DEF IInv, KernelInv
  <2> QED
    BY <1>1, <1>2, <1>5, <2>1, <2>2, <2>3 DEF IInv, KernelInv
<1>12. EarlyInv'
  <2>1. SUFFICES ASSUME Refused, UNCHANGED kernel, reap_action' = "COMPLETED_EARLY", ~masked'
                 PROVE  \E n \in 1..num_urbs : ShortAt(n)'
    BY <1>1, <1>3, <1>5 DEF EarlyInv
  <2>2. PICK n \in Failed : TRUE
    BY <2>1 DEF Refused
  <2>3. \A i \in Failed : urb[i] = "short"
    BY <1>1, <2>1 DEF SubmitFails
  <2>4. n \in Urbs /\ n < next /\ urb[n] = "short"
    BY <1>1, <2>2, <2>3 DEF Failed
  <2>5. \A i \in Urbs : i < n => urb[i] \in {"none", "ok"}
    BY <1>1, <2>1, <2>2 DEF IInv, NormalInv, InOrder, Refused
  <2>6. \A i \in 1..(n - 1) : i \in Urbs /\ i < n /\ i < next
    BY <1>1, <2>4 DEF Urbs
  <2>7. \A i \in 1..(n - 1) : urb[i] = "ok"
    BY <1>1, <2>5, <2>6
  <2>8. n \in 1..num_urbs /\ urb' = urb
    BY <1>1, <2>1, <2>4 DEF Urbs, kernel
  <2>9. ShortAt(n)'
    BY <2>4, <2>7, <2>8 DEF ShortAt, Result
  <2> QED
    BY <2>8, <2>9
<1>13. ReportInv'
  BY <1>1, <1>3 DEF IInv, ReportInv, UpToShort
<1> QED
  BY <1>6, <1>5, <1>7, <1>8, <1>9, <1>10, <1>11, <1>12, <1>13 DEF IInv

\* Some of the URBs that were queued are cancelled.
LEMMA CancelStep == ASSUME IInv, Cancel \/ Timeout PROVE IInv'
<1> USE DEF Cancel, Timeout, OpCancel, what
<1>1. /\ UNCHANGED <<type, continuation, submitter, next, urbs, num_urbs, num_retired,
                     reap_status, flying, reaper, status, gone, submits, got, halted, masked>>
      /\ submitter = "idle" /\ asked' = TRUE /\ reap_action' \in {"ERROR", "CANCELLED"}
      /\ timed_out' \in BOOLEAN /\ (timed_out => timed_out') /\ cancels' \in 0..MaxCancels
  <2>1. timed_out' \in BOOLEAN /\ (timed_out => timed_out')
    <3>1. timed_out \in BOOLEAN
      BY DEF IInv, TypeOK
    <3>2. CASE Cancel
      <4>1. timed_out' = timed_out
        BY <3>2
      <4> QED
        BY <3>1, <4>1
    <3>3. CASE Timeout
      <4>1. timed_out' = TRUE
        BY <3>3
      <4> QED
        BY <4>1
    <3> QED
      BY <3>2, <3>3
  <2>2. cancels' \in 0..MaxCancels
    BY TransferAssumption DEF IInv, TypeOK
  <2>3. submitter = "idle"
    BY DEF Unlocked
  <2> QED
    BY <2>1, <2>2, <2>3
<1>2. /\ TurnInv' /\ Held' = Held /\ Queued' \subseteq Queued /\ urb' \in [Urbs -> UrbStatuses]
      /\ \A i \in Urbs : urb'[i] # "killed" => urb'[i] = urb[i]
      /\ ~urbs => UNCHANGED <<urb, turn>>
      /\ kept' \subseteq Urbs
  <2>1. CASE urbs
    <3>1. PICK S \in SUBSET Queued : Discard(S) /\ kept' = Queued \ S
      BY <2>1 DEF Discardable
    <3>2. TurnInv /\ urb \in [Urbs -> UrbStatuses]
      BY DEF IInv, TypeOK, UrbStatuses
    <3>3. /\ TurnInv' /\ Held' = Held /\ Queued' = Queued \ S
          /\ urb' \in [Urbs -> UrbStatuses]
          /\ \A i \in Urbs : urb'[i] = IF i \in S THEN "killed" ELSE urb[i]
      BY <3>1, <3>2, Discarding
    <3> QED
      BY <2>1, <3>1, <3>3 DEF Queued
  <2>2. CASE ~urbs
    <3>1. UNCHANGED <<urb, turn>> /\ kept' = {}
      BY <2>2 DEF kernel
    <3> QED
      BY <2>2, <3>1 DEF IInv, TypeOK, TurnInv, Held, Queued, UrbStatuses
  <2> QED
    BY <2>1, <2>2
<1>3. FlyingInv'
  BY FlyingStep DEF IInv, Next
<1> HIDE DEF Cancel, Timeout, OpCancel
<1>4. SubmitInv'
  BY <1>1 DEF IInv, SubmitInv
<1>5. CountInv'
  BY <1>1, <1>2 DEF IInv, CountInv
<1>6. TypeOK'
  <2>1. turn' \in [Urbs -> 0..NumUrbs]
    BY <1>2, PlacedType DEF TurnInv
  <2> QED
    BY <1>1, <1>2, <2>1 DEF IInv, TypeOK, UrbStatuses
<1>7. Emptied' /\ NormalInv' /\ EarlyInv'
  BY <1>1, <1>2 DEF IInv, Emptied, InOrder, NormalInv, EarlyInv
<1>8. KernelInv'
  <2>2. gone => Queued' = {}
    BY <1>2 DEF IInv, KernelInv
  <2>3. (\E i \in Urbs : urb'[i] = "nodev") => gone
    BY <1>2 DEF IInv, KernelInv
  <2>4. urbs => \A i \in Urbs : urb'[i] = "overflow" => i = num_urbs
    BY <1>2 DEF IInv, KernelInv
  <2>5. type = "control" => \A i \in Urbs : urb'[i] # "short"
    BY <1>2 DEF IInv, KernelInv
  <2> QED
    BY <1>1, <2>2, <2>3, <2>4, <2>5 DEF IInv, KernelInv
<1>9. ReportInv'
  BY <1>1 DEF IInv, ReportInv, UpToShort
<1> QED
  BY <1>2, <1>3, <1>4, <1>5, <1>6, <1>7, <1>8, <1>9 DEF IInv

\* All that was queued is given up.
LEMMA UnplugStep == ASSUME IInv, Unplug PROVE IInv'
<1> USE DEF Unplug, what, tpriv, history
<1>1. /\ UNCHANGED <<type, continuation, submitter, next, urbs, num_urbs, num_retired,
                     reap_action, reap_status, flying, timed_out, reaper, status, submits,
                     cancels, asked, kept, got, halted, masked>>
      /\ gone' = TRUE
  OBVIOUS
<1>2. /\ \A i \in Urbs : urb'[i] = IF i \in Queued THEN "nodev" ELSE urb[i]
      /\ urb' \in [Urbs -> UrbStatuses] /\ urb \in [Urbs -> UrbStatuses]
  BY DEF IInv, TypeOK, UrbStatuses
<1>3. /\ TurnInv' /\ Held' = Held /\ Queued' = {} /\ Waiting' = Waiting \cup Queued
      /\ \A i \in Waiting : turn'[i] = turn[i]
      /\ \A i \in Waiting, j \in Queued : turn[i] < turn'[j]
      /\ \A i, j \in Queued : i < j => turn'[i] < turn'[j]
  <2>1. /\ \A i \in Urbs : i \notin Queued => urb'[i] = urb[i]
        /\ \A i \in Queued : urb'[i] \notin {"none", "queued"}
    BY <1>2 DEF Queued
  <2>2. Finish(Ascending(Queued)) /\ TurnInv
    BY DEF IInv
  <2>3. Queued \in SUBSET Queued /\ Queued \ Queued = {}
    OBVIOUS
  <2> HIDE DEF Unplug
  <2> QED
    BY <1>2, <2>1, <2>2, <2>3, Finishing
<1>4. FlyingInv'
  BY FlyingStep DEF IInv, Next
<1> HIDE DEF Unplug
<1>5. SubmitInv' /\ CountInv'
  <2>1. \A i \in Urbs : urb'[i] # "none" <=> urb[i] # "none"
    BY <1>2 DEF Queued
  <2> QED
    BY <1>1, <1>3, <2>1 DEF IInv, SubmitInv, CountInv
<1>6. TypeOK'
  <2>1. turn' \in [Urbs -> 0..NumUrbs]
    BY <1>3, PlacedType DEF TurnInv
  <2> QED
    BY <1>1, <1>2, <2>1 DEF IInv, TypeOK, UrbStatuses
<1>7. Emptied'
  <2>1. urb = None => Queued = {}
    BY DEF None, Queued
  <2>2. Queued = {} => urb' = urb
    BY <1>2
  <2> QED
    BY <1>1, <2>1, <2>2 DEF IInv, Emptied, InOrder
<1>8. KernelInv'
  <2>1. \A i \in Urbs : urb'[i] # "queued"
    BY <1>3 DEF Queued
  <2> QED
    BY <1>1, <1>2, <1>3, <2>1 DEF IInv, KernelInv
<1>9. NormalInv'
  <2>1. SUFFICES ASSUME urbs, InOrder, reap_action = "NORMAL" PROVE NormalInv'
    BY <1>1 DEF NormalInv, InOrder
  <2>2. NormalInv /\ KernelInv
    BY DEF IInv
  <2>3. \A i, j \in Waiting' : i < j => turn'[i] < turn'[j]
    <3>1. \A i \in Waiting, j \in Queued : ~(j < i)
      BY <2>1, <2>2 DEF NormalInv, Waiting, Queued, TurnInv, IInv
    <3>2. \A i, j \in Waiting : i < j => turn[i] < turn[j]
      BY <2>1, <2>2 DEF NormalInv
    <3> QED
      BY <1>3, <3>1, <3>2
  <2>4. Failed' = Failed
    BY <1>2 DEF Failed, Queued
  <2>5. \A j \in Urbs : urb'[j] = "killed" => urb[j] = "killed"
    BY <1>2
  <2>6. \A j \in Urbs : urb'[j] # "none" <=> urb[j] # "none"
    BY <1>2 DEF Queued
  <2>7. continuation => \A i \in Urbs, n \in Failed : i < n => urb[i] \in {"none", "ok"}
    BY <2>1, <2>2 DEF NormalInv
  <2>8. continuation => \A i \in Urbs, n \in Failed' : i < n => urb'[i] \in {"none", "ok"}
    BY <1>2, <2>4, <2>7 DEF Queued
  <2>9. reap_status = "completed" =>
            /\ \A j \in Urbs : urb'[j] = "killed" => continuation /\ \E i \in Failed' : i < j
            /\ SplitType =>
                 \A i \in 1..num_urbs : i < next => urb'[i] # "none" \/ got[i] = "ok"
    <3>1. \A i \in 1..num_urbs : i \in Urbs
      BY TransferAssumption DEF IInv, TypeOK, Urbs
    <3>2. reap_status = "completed" =>
            /\ \A j \in Urbs : urb[j] = "killed" => continuation /\ \E i \in Failed : i < j
            /\ SplitType =>
                 \A i \in 1..num_urbs : i < next => urb[i] # "none" \/ got[i] = "ok"
      BY <2>1, <2>2 DEF NormalInv
    <3> QED
      BY <2>4, <2>5, <2>6, <3>1, <3>2
  <2>10. \A i \in Urbs : urb'[i] # "queued"
    BY <1>3 DEF Queued
  <2> QED
    BY <1>1, <1>3, <2>3, <2>8, <2>9, <2>10 DEF NormalInv, SplitType
<1>10. EarlyInv'
  <2>1. \A i \in Urbs : urb[i] # "queued" => urb'[i] = urb[i]
    BY <1>2 DEF Queued
  <2>2. \A n \in 1..num_urbs : ShortAt(n) => ShortAt(n)'
    BY <1>1, <2>1, ShortKept
  <2> QED
    BY <1>1, <2>2 DEF IInv, EarlyInv
<1>11. ReportInv'
  BY <1>1 DEF IInv, ReportInv, UpToShort
<1> QED
  BY <1>3, <1>4, <1>5, <1>6, <1>7, <1>8, <1>9, <1>10, <1>11 DEF IInv

\* A URB finishes, and with bulk continuation those behind it with it, if it
\* was not fine.
LEMMA KernelFinishesStep ==
  ASSUME IInv, NEW i \in Urbs, KernelFinishes(i)
  PROVE  IInv'
<1> USE DEF what, tpriv, history
<1>1. /\ UNCHANGED <<type, continuation, submitter, next, urbs, num_urbs, num_retired,
                     reap_action, reap_status, flying, timed_out, reaper, status, gone,
                     submits, cancels, asked, kept, got, halted, masked>>
      /\ ~gone /\ urb[i] = "queued"
      /\ \A j \in 1..(i - 1) : urb[j] \notin {"queued", "stall"}
  BY DEF KernelFinishes
<1>2. PICK r \in Results[type] \cup (IF i = num_urbs THEN {"overflow"} ELSE {}) :
         LET rest == {j \in Queued : continuation /\ r # "ok" /\ j > i}
         IN  /\ urb' = [j \in Urbs |-> IF j = i THEN r
                                       ELSE IF j \in rest THEN "killed" ELSE urb[j]]
             /\ Finish(Ascending({i} \cup rest))
  BY DEF KernelFinishes
<1> DEFINE rest == {j \in Queued : continuation /\ r # "ok" /\ j > i}
           S == {i} \cup rest
<1>3. /\ r \in {"ok", "short", "stall", "error", "overflow"}
      /\ r = "overflow" => i = num_urbs
      /\ type = "control" => r # "short"
  BY TransferAssumption DEF Results, IInv, TypeOK
<1>4. /\ i \in Nat /\ Urbs \subseteq Nat
      /\ \A j \in Urbs : j < i => urb[j] \notin {"queued", "stall"}
  BY <1>1 DEF Urbs
<1>5. i \in Queued /\ S \in SUBSET Queued /\ Finish(Ascending(S))
  BY <1>1, <1>2 DEF Queued
<1>6. /\ \A j \in Urbs : urb'[j] = IF j = i THEN r ELSE IF j \in rest THEN "killed" ELSE urb[j]
      /\ urb' \in [Urbs -> UrbStatuses] /\ urb \in [Urbs -> UrbStatuses]
  BY <1>2, <1>3 DEF IInv, TypeOK, UrbStatuses
<1>7. /\ \A j \in rest : j \in Urbs /\ urb[j] = "queued" /\ continuation /\ r # "ok" /\ j > i
      /\ continuation /\ r # "ok" => \A j \in Queued : j > i => j \in rest
  BY DEF Queued
<1> HIDE DEF rest
<1>8. /\ \A j \in Urbs : j \notin S => urb'[j] = urb[j]
      /\ \A j \in S : urb'[j] \notin {"none", "queued"} /\ j \in Urbs /\ urb[j] = "queued"
  BY <1>1, <1>3, <1>6, <1>7
<1> HIDE DEF S
<1>9. /\ TurnInv' /\ Held' = Held /\ Queued' = Queued \ S /\ Waiting' = Waiting \cup S
      /\ \A j \in Waiting : turn'[j] = turn[j]
      /\ \A j \in Waiting, k \in S : turn[j] < turn'[k]
      /\ \A j, k \in S : j < k => turn'[j] < turn'[k]
  <2>1. TurnInv /\ \A j \in S : urb'[j] \notin {"none", "queued"}
    BY <1>8 DEF IInv
  <2> QED
    BY <1>5, <1>6, <1>8, <2>1, Finishing
<1>10. FlyingInv'
  <2>1. Next
    BY DEF Next, Kernel
  <2> QED
    BY <2>1, FlyingStep DEF IInv
<1>11. \A j \in Urbs : urb'[j] # "none" <=> urb[j] # "none"
  BY <1>8
<1>12. SubmitInv' /\ CountInv'
  BY <1>1, <1>9, <1>11 DEF IInv, SubmitInv, CountInv
<1>13. TypeOK'
  <2>1. turn' \in [Urbs -> 0..NumUrbs]
    BY <1>9, PlacedType DEF TurnInv
  <2> QED
    BY <1>1, <1>6, <2>1 DEF IInv, TypeOK, UrbStatuses
<1>14. Emptied' /\ EarlyInv'
  <2>1. urb # None
    BY <1>1 DEF None
  <2>2. \A j \in Urbs : urb[j] # "queued" => urb'[j] = urb[j]
    BY <1>8
  <2>3. \A n \in 1..num_urbs : ShortAt(n) => ShortAt(n)'
    BY <1>1, <2>2, ShortKept
  <2> QED
    BY <1>1, <2>1, <2>3 DEF IInv, Emptied, InOrder, EarlyInv
<1>15. continuation => type = "bulk"
  BY DEF IInv, KernelInv
<1>16. urbs => /\ \A j \in Urbs : urb[j] # "none" => j <= num_urbs
               /\ \A j \in Urbs : urb[j] = "overflow" => j = num_urbs
  BY DEF IInv, CountInv, KernelInv, Held, Urbs
<1>17. \A j \in Urbs : urb[j] # "nodev"
  BY <1>1 DEF IInv, KernelInv
<1>18. KernelInv'
  <2>2. ~\E j \in Urbs : urb'[j] = "nodev"
    BY <1>3, <1>6, <1>17
  <2>3. urbs => \A j \in Urbs : urb'[j] = "overflow" => j = num_urbs
    BY <1>3, <1>6, <1>16
  <2>4. type = "control" => \A j \in Urbs : urb'[j] # "short" /\ (urb'[j] = "killed" => asked)
    BY <1>3, <1>6, <1>7, <1>15 DEF IInv, KernelInv
  <2> QED
    BY <1>1, <2>2, <2>3, <2>4 DEF IInv, KernelInv
<1>19. NormalInv'
  <2>1. SUFFICES ASSUME urbs, InOrder, reap_action = "NORMAL" PROVE NormalInv'
    BY <1>1 DEF NormalInv, InOrder
  <2>2. /\ \A j, k \in Urbs : j < k /\ urb[j] = "queued" => urb[k] \in {"none", "queued"}
        /\ \A j, k \in Waiting : j < k => turn[j] < turn[k]
        /\ continuation => Failed = {} /\ \A j \in Urbs : urb[j] # "killed"
        /\ reap_status = "completed" =>
             /\ \A j \in Urbs : urb[j] = "killed" => continuation /\ \E k \in Failed : k < j
             /\ SplitType =>
                  \A j \in 1..num_urbs : j < next => urb[j] # "none" \/ got[j] = "ok"
    <3>1. NormalInv
      BY DEF IInv
    <3>2. Queued # {}
      BY <1>5
    <3> QED
      BY <2>1, <3>1, <3>2 DEF NormalInv, Failed
  <2>3. \A j, k \in Waiting' : j < k => turn'[j] < turn'[k]
    <3>1. \A j \in S, k \in Waiting : ~(j < k)
      BY <1>8, <2>2 DEF Waiting, TurnInv, IInv
    <3> QED
      BY <1>9, <2>2, <3>1
  <2>4. continuation /\ r # "ok" => Queued' = {}
    <3>1. ASSUME continuation, r # "ok", NEW j \in Queued PROVE j \in S
      <4>1. j \in Urbs /\ urb[j] = "queued"
        BY <3>1 DEF Queued
      <4>2. ~(j < i)
        BY <1>4, <4>1
      <4>3. j \in Nat /\ (j = i \/ j > i)
        BY <1>4, <4>1, <4>2
      <4>4. j > i => j \in rest
        BY <1>7, <3>1
      <4> QED
        BY <4>3, <4>4 DEF S
    <3> QED
      BY <1>9, <3>1
  <2>5. continuation /\ r = "ok" => Failed' = {} /\ \A j \in Urbs : urb'[j] # "killed"
    BY <1>6, <1>7, <2>2 DEF Failed
  <2>6. continuation => \A n \in Failed' : n = i
    BY <1>6, <1>7, <2>2 DEF Failed
  <2>7. continuation => \A j \in Urbs, n \in Failed' : j < n => urb'[j] \in {"none", "ok"}
    <3>1. SUFFICES ASSUME continuation, NEW j \in Urbs, j < i, i \in Failed'
                   PROVE  urb'[j] \in {"none", "ok"}
      BY <2>6
    <3>2. urb'[j] = urb[j]
      <4>1. j # i /\ j \notin rest
        <5>1. j \in Nat /\ i \in Nat
          BY <1>4
        <5> QED
          BY <1>7, <3>1, <5>1
      <4> QED
        BY <1>6, <4>1
    <3>3. urb[j] \notin {"queued", "stall", "nodev", "killed", "short", "error"}
      BY <1>4, <1>17, <2>2, <3>1 DEF Failed
    <3>4. urb[j] # "overflow"
      <4>1. i <= num_urbs /\ num_urbs \in Nat
        BY <1>1, <1>16, <2>1, TransferAssumption DEF IInv, TypeOK
      <4> QED
        BY <1>4, <1>16, <2>1, <3>1, <4>1
    <3> QED
      BY <1>6, <3>2, <3>3, <3>4 DEF UrbStatuses
  <2>8. ASSUME reap_status = "completed", NEW j \in Urbs, urb'[j] = "killed"
        PROVE  continuation /\ \E k \in Failed' : k < j
    <3>1. CASE j \in rest
      <4>1. r # "overflow"
        <5>1. j <= num_urbs /\ num_urbs \in Nat
          BY <1>7, <1>16, <2>1, <3>1, TransferAssumption DEF IInv, TypeOK
        <5> QED
          BY <1>3, <1>4, <1>7, <3>1, <5>1
      <4>2. i \in Failed' /\ i < j
        BY <1>3, <1>4, <1>6, <1>7, <3>1, <4>1 DEF Failed
      <4> QED
        BY <1>7, <3>1, <4>2
    <3>2. CASE j \notin rest
      <4>1. urb[j] = "killed"
        BY <1>3, <1>6, <2>8, <3>2
      <4>2. continuation /\ \E k \in Failed : k < j
        BY <2>2, <2>8, <4>1
      <4> QED
        BY <2>2, <4>2
    <3> QED
      BY <3>1, <3>2
  <2>9. reap_status = "completed" /\ SplitType =>
          \A j \in 1..num_urbs : j < next => urb'[j] # "none" \/ got[j] = "ok"
    <3>1. \A j \in 1..num_urbs : j \in Urbs
      BY TransferAssumption DEF IInv, TypeOK, Urbs
    <3> QED
      BY <1>11, <2>2, <3>1
  <2> HIDE DEF S
  <2>10. continuation /\ (\E j \in Urbs : j \in Failed' \/ urb'[j] = "killed") => Queued' = {}
    BY <2>4, <2>5
  <2>11. ASSUME NEW j \in Urbs, NEW k \in Urbs, j < k, urb'[j] = "queued"
        PROVE  urb'[k] \in {"none", "queued"}
    <3>1. urb[j] = "queued" /\ j # i /\ j \notin rest
      BY <1>3, <1>6, <2>11
    <3>2. ~(j < i)
      BY <1>4, <3>1
    <3>3. j > i
      BY <1>4, <3>1, <3>2
    <3>4. ~(continuation /\ r # "ok")
      BY <1>7, <3>1, <3>3 DEF Queued
    <3>5. k # i /\ k \notin rest
      BY <1>4, <1>7, <2>11, <3>3, <3>4
    <3> QED
      BY <1>6, <2>2, <2>11, <3>1, <3>5
  <2> QED
    BY <1>1, <2>3, <2>7, <2>8, <2>9, <2>10, <2>11 DEF NormalInv, SplitType
<1>20. ReportInv'
  BY <1>1 DEF IInv, ReportInv, UpToShort
<1> QED
  BY <1>9, <1>10, <1>12, <1>13, <1>14, <1>18, <1>19, <1>20 DEF IInv

\* What the thread that handles events knows of the URB that it reaps.
LEMMA RetireFacts ==
  ASSUME IInv, NEW i \in Urbs, Retire(i)
  PROVE  /\ urbs /\ flying /\ submitter = "idle" /\ reaper = "idle"
         /\ urb[i] \notin {"none", "queued"} /\ turn[i] = 1
         /\ num_urbs \in Nat /\ Held \subseteq 1..num_urbs /\ i \in Held
         /\ num_retired \in Nat /\ Cardinality(Held) \in Nat
         /\ num_retired + Cardinality(Held) = num_urbs
         /\ Cardinality(Held \ {i}) = Cardinality(Held) - 1
         /\ AllRetired => Held = {i}
         /\ \A j \in Urbs : got'[j] = IF j = i THEN urb[i] ELSE got[j]
         /\ got' \in [Urbs -> UrbStatuses]
         /\ InOrder /\ reap_action = "NORMAL" =>
              /\ \A j \in Urbs : j < i => urb[j] = "none"
              /\ reap_status = "completed" /\ SplitType =>
                   urb[i] # "killed" /\ \A j \in 1..(i - 1) : j \in Urbs /\ got[j] = "ok"
<1>1. /\ urbs /\ flying /\ submitter = "idle" /\ reaper = "idle" /\ turn[i] = 1
  BY DEF IInv, Retire, Unlocked, FlyingInv
<1>2. urb[i] \notin {"none", "queued"} /\ i \in Held
  BY <1>1 DEF IInv, TurnInv, Held
<1>3. /\ num_urbs \in Nat /\ num_retired \in Nat /\ num_urbs <= NumUrbs /\ NumUrbs \in Nat
  BY TransferAssumption DEF IInv, TypeOK
<1>4. Held \in SUBSET Urbs /\ IsFiniteSet(Held) /\ Cardinality(Held) \in Nat
  <2>1. Held \in SUBSET Urbs
    BY DEF Held
  <2> QED
    BY <2>1, Finite
<1>5. Held \subseteq 1..num_urbs /\ num_retired + Cardinality(Held) = num_urbs
  <2>1. /\ Held \subseteq 1..num_urbs
        /\ num_retired + Cardinality(Held) + 0 = num_urbs
    BY <1>1 DEF IInv, CountInv
  <2> QED
    BY <1>3, <1>4, <2>1
<1>6. Cardinality(Held \ {i}) = Cardinality(Held) - 1
  BY <1>2, <1>4, FS_RemoveElement
<1>7. AllRetired => Held = {i}
  <2>1. SUFFICES ASSUME AllRetired PROVE Held \ {i} = {}
    BY <1>2
  <2>2. Cardinality(Held) = 1
    BY <1>3, <1>4, <1>5, <2>1 DEF AllRetired
  <2>3. Cardinality(Held \ {i}) = 0
    BY <1>6, <2>2
  <2>4. IsFiniteSet(Held \ {i})
    BY <1>4, FS_RemoveElement
  <2> QED
    BY <2>3, <2>4, FS_EmptySet
<1>8. got' = [got EXCEPT ![i] = urb[i]] /\ got \in [Urbs -> UrbStatuses]
      /\ urb \in [Urbs -> UrbStatuses]
  BY DEF IInv, TypeOK, Retire
<1>9. /\ \A j \in Urbs : got'[j] = IF j = i THEN urb[i] ELSE got[j]
      /\ got' \in [Urbs -> UrbStatuses]
  BY <1>8
<1>11. ASSUME InOrder, reap_action = "NORMAL", NEW j \in Urbs, j < i
       PROVE  urb[j] = "none"
  <2>1. \A k, l \in Waiting : k < l => turn[k] < turn[l]
    BY <1>1, <1>11 DEF IInv, NormalInv
  <2>2. i \in Waiting
    BY <1>1 DEF Waiting
  <2>3. j \notin Waiting
    <3>1. turn[j] \in Nat
      BY DEF IInv, TypeOK
    <3> QED
      BY <1>1, <1>11, <2>1, <2>2, <3>1 DEF Waiting
  <2>4. urb[j] \in {"none", "queued"}
    BY <2>3 DEF IInv, TurnInv, Waiting
  <2>5. urb[j] # "queued"
    BY <1>1, <1>2, <1>11 DEF IInv, NormalInv
  <2> QED
    BY <2>4, <2>5
<1>12. ASSUME InOrder, reap_action = "NORMAL", reap_status = "completed", SplitType
       PROVE  urb[i] # "killed" /\ \A j \in 1..(i - 1) : j \in Urbs /\ got[j] = "ok"
  <2>1. /\ \A j \in Urbs : urb[j] = "killed" => \E k \in Failed : k < j
        /\ \A j \in 1..num_urbs : j < next => urb[j] # "none" \/ got[j] = "ok"
    BY <1>1, <1>12 DEF IInv, NormalInv
  <2>2. next = num_urbs + 1
    BY <1>1, <1>12 DEF IInv, SubmitInv
  <2>3. \A k \in Failed : k \in Urbs /\ urb[k] # "none"
    BY DEF Failed
  <2>4. urb[i] # "killed"
    BY <1>11, <1>12, <2>1, <2>3
  <2>5. ASSUME NEW j \in 1..(i - 1) PROVE j \in Urbs /\ got[j] = "ok"
    <3>1. i \in 1..num_urbs
      BY <1>2, <1>5
    <3>2. j \in Urbs /\ j < i /\ j \in 1..num_urbs /\ j < next
      BY <1>3, <2>2, <3>1 DEF Urbs
    <3> QED
      BY <1>11, <1>12, <2>1, <3>2
  <2> QED
    BY <2>4, <2>5
<1> QED
  BY <1>1, <1>2, <1>3, <1>4, <1>5, <1>6, <1>7, <1>9, <1>11, <1>12

\* What the reaping of a URB, and the discarding of others, leaves as it is.
LEMMA RetireKeeps ==
  ASSUME IInv, NEW i \in Urbs, Retire(i),
         UNCHANGED <<type, continuation, submitter, next, num_urbs, flying, timed_out, gone,
                     submits, cancels, asked, kept, masked>>,
         TurnInv', Held' = Held \ {i}, urb' \in [Urbs -> UrbStatuses],
         \A j \in Urbs : \/ urb'[j] \in {"none", urb[j]}
                         \/ urb[j] = "queued" /\ urb'[j] = "killed" /\ type # "control",
         Queued' \subseteq Queued,
         urbs' \in BOOLEAN, halted' \in BOOLEAN,
         type = "control" => ~urbs',
         reap_status' = "no_device" => gone,
         reap_status' \in Statuses, status' \in Statuses,
         reap_action' \in {"NORMAL", "SUBMIT_FAILED", "CANCELLED", "COMPLETED_EARLY", "ERROR"},
         reap_action' = "NORMAL" => reap_action = "NORMAL",
         reaper' \in {"idle", "decide", "cancelled", "report", "callback", "resubmitted"}
  PROVE  TypeOK' /\ SubmitInv' /\ CountInv' /\ KernelInv'
<1>1. /\ urbs /\ flying /\ submitter = "idle"
      /\ num_urbs \in Nat /\ Held \subseteq 1..num_urbs
      /\ num_retired \in Nat /\ Cardinality(Held) \in Nat
      /\ num_retired + Cardinality(Held) = num_urbs
      /\ Cardinality(Held \ {i}) = Cardinality(Held) - 1
      /\ got' \in [Urbs -> UrbStatuses]
  BY RetireFacts
<1>2. Cardinality(Held \ {i}) \in Nat
  <2>1. (Held \ {i}) \in SUBSET Urbs
    BY DEF Held
  <2> QED
    BY <2>1, Finite
<1>3. num_retired' = IF type = "control" THEN num_retired ELSE num_retired + 1
  BY DEF Retire
<1>4. num_retired' \in 0..num_urbs
  BY <1>1, <1>2, <1>3
<1>5. TypeOK'
  <2>1. turn' \in [Urbs -> 0..NumUrbs]
    BY PlacedType DEF TurnInv
  <2> QED
    BY <1>1, <1>4, <2>1 DEF IInv, TypeOK
<1>6. SubmitInv'
  BY <1>1 DEF IInv, SubmitInv
<1>7. CountInv'
  <2>1. ASSUME urbs'
        PROVE  num_retired' + Cardinality(Held') + 0 = num_urbs /\ Held' \subseteq 1..num_urbs
    <3>1. num_retired' = num_retired + 1
      BY <1>3, <2>1
    <3>2. num_retired' + Cardinality(Held') + 0 = num_urbs
      BY <1>1, <1>2, <3>1
    <3> QED
      BY <1>1, <3>2
  <2> QED
    BY <1>1, <2>1 DEF CountInv
<1>8. KernelInv'
  <2>2. gone => Queued' = {}
    BY DEF IInv, KernelInv
  <2>3. (\E j \in Urbs : urb'[j] = "nodev") => gone
    BY DEF IInv, KernelInv
  <2>4. \A j \in Urbs : urb'[j] = "overflow" => j = num_urbs
    BY <1>1 DEF IInv, KernelInv
  <2>5. type = "control" => \A j \in Urbs : urb'[j] # "short" /\ (urb'[j] = "killed" => asked)
    BY DEF IInv, KernelInv
  <2> QED
    BY <2>2, <2>3, <2>4, <2>5 DEF IInv, KernelInv
<1> QED
  BY <1>5, <1>6, <1>7, <1>8

\* A URB that leaves was, to the result, what it is now.
LEMMA ReapedResult ==
  ASSUME IInv, NEW i \in Urbs, Retire(i), Reaped(i), UNCHANGED num_urbs
  PROVE  /\ TurnInv' /\ Held' = Held \ {i} /\ Queued' = Queued
         /\ urb' \in [Urbs -> UrbStatuses]
         /\ \A j \in Urbs : urb'[j] = IF j = i THEN "none" ELSE urb[j]
         /\ Waiting' = Waiting \ {i} /\ \A j \in Waiting' : turn'[j] = turn[j] - 1
         /\ \A j \in Urbs : Result(j)' = Result(j)
         /\ \A n \in 1..num_urbs : ShortAt(n) => ShortAt(n)'
         /\ Held' = {} => urb' = None
<1>1. /\ num_urbs \in Nat /\ num_urbs <= NumUrbs /\ NumUrbs \in Nat
      /\ TurnInv /\ turn[i] = 1 /\ urb \in [Urbs -> UrbStatuses]
  BY TransferAssumption DEF IInv, TypeOK, Retire
<1>2. /\ TurnInv' /\ Held' = Held \ {i} /\ Queued' = Queued
      /\ urb' \in [Urbs -> UrbStatuses]
      /\ Waiting' = Waiting \ {i} /\ \A j \in Waiting' : turn'[j] = turn[j] - 1
  BY <1>1, Leaving
<1>3. \A j \in Urbs : urb'[j] = IF j = i THEN "none" ELSE urb[j]
  BY <1>1 DEF Reaped
<1>4. \A j \in Urbs : got'[j] = IF j = i THEN urb[i] ELSE got[j]
  BY RetireFacts
<1>5. urb[i] # "none"
  BY <1>1 DEF TurnInv
<1>6. \A j \in Urbs : Result(j)' = Result(j)
  BY <1>3, <1>4, <1>5 DEF Result
<1>7. ASSUME NEW n \in 1..num_urbs, ShortAt(n) PROVE ShortAt(n)'
  <2>1. n \in Urbs /\ \A j \in 1..(n - 1) : j \in Urbs
    BY <1>1 DEF Urbs
  <2> QED
    BY <1>6, <1>7, <2>1 DEF ShortAt
<1>8. Held' = {} => urb' = None
  <2>1. Held' = {} => \A j \in Urbs : urb'[j] = "none"
    BY DEF Held
  <2> QED
    BY <1>2, <2>1 DEF None
<1> QED
  BY <1>2, <1>3, <1>6, <1>7, <1>8

\* The last URB ends an abnormal transfer.
LEMMA ReapBulkAbnormalStep ==
  ASSUME IInv, NEW i \in Urbs, ReapBulkAbnormal(i)
  PROVE  IInv'
<1>1. /\ SplitType /\ reap_action # "NORMAL" /\ Retire(i) /\ Reaped(i)
      /\ UNCHANGED <<type, continuation, submitter, next, num_urbs, reap_action, flying,
                     timed_out, gone, submits, cancels, asked, kept, halted, masked>>
  BY DEF ReapBulkAbnormal, what
<1>2. /\ AllRetired => /\ ~urbs' /\ reaper' = "decide" /\ status' = reap_status'
                       /\ reap_status' = IF reap_action # "COMPLETED_EARLY"
                                            /\ reap_status = "completed"
                                         THEN "error" ELSE reap_status
      /\ ~AllRetired => UNCHANGED <<urbs, reaper, status, reap_status>>
  BY DEF ReapBulkAbnormal, Complete, GoOn
<1>3. urbs' \in BOOLEAN
  BY DEF ReapBulkAbnormal, Complete, GoOn, IInv, TypeOK
<1>4. urbs /\ reaper = "idle" /\ (AllRetired => Held = {i})
  BY <1>1, RetireFacts
<1>5. /\ TurnInv' /\ Held' = Held \ {i} /\ Queued' = Queued
      /\ urb' \in [Urbs -> UrbStatuses]
      /\ \A j \in Urbs : urb'[j] = IF j = i THEN "none" ELSE urb[j]
      /\ \A j \in Urbs : Result(j)' = Result(j)
      /\ \A n \in 1..num_urbs : ShortAt(n) => ShortAt(n)'
      /\ Held' = {} => urb' = None
  BY <1>1, ReapedResult
<1>6. FlyingInv'
  BY FlyingStep DEF IInv, Next, Reaping, Reap
<1>7. TypeOK' /\ SubmitInv' /\ CountInv' /\ KernelInv'
  <2>1. /\ reap_status' \in Statuses /\ status' \in Statuses
        /\ reap_status' = "no_device" => gone
        /\ reaper' \in {"idle", "decide"}
    BY <1>2, <1>4 DEF IInv, TypeOK, KernelInv, Statuses
  <2>2. halted' \in BOOLEAN /\ reap_action' \in {"NORMAL", "SUBMIT_FAILED", "CANCELLED",
                                                "COMPLETED_EARLY", "ERROR"}
    BY <1>1 DEF IInv, TypeOK
  <2> QED
    BY <1>1, <1>3, <1>5, <2>1, <2>2, RetireKeeps DEF SplitType
<1>8. Emptied' /\ NormalInv'
  BY <1>1, <1>2, <1>4, <1>5 DEF Emptied, NormalInv
<1>9. EarlyInv'
  BY <1>1, <1>2, <1>5 DEF IInv, EarlyInv
<1>10. ReportInv'
  <2>1. CASE AllRetired
    <3>1. reap_status \notin {"none", "cancelled", "timed_out"}
          /\ (reap_status = "no_device" => gone) /\ (reap_action = "CANCELLED" => asked)
      BY DEF IInv, ReportInv, KernelInv
    <3>2. ASSUME status' = "completed", ~masked' PROVE UpToShort'
      <4>1. reap_action = "COMPLETED_EARLY" /\ reap_status = "completed" /\ ~masked
        BY <1>1, <1>2, <2>1, <3>2
      <4>2. PICK n \in 1..num_urbs : ShortAt(n)
        BY <1>4, <4>1 DEF IInv, EarlyInv
      <4>3. ShortAt(n)' /\ Held' = {}
        BY <1>4, <1>5, <2>1, <4>2
      <4>4. \A j \in Urbs : urb'[j] = "none"
        BY <4>3 DEF Held
      <4>5. n \in Urbs /\ \A j \in 1..(n - 1) : j \in Urbs
        BY TransferAssumption DEF IInv, TypeOK, Urbs
      <4>6. got'[n] = "short" /\ \A j \in 1..(n - 1) : got'[j] = "ok"
        BY <4>3, <4>4, <4>5 DEF ShortAt, Result
      <4> QED
        BY <1>1, <4>6 DEF UpToShort
    <3> QED
      BY <1>1, <1>2, <2>1, <3>1, <3>2 DEF ReportInv
  <2>2. CASE ~AllRetired
    BY <1>1, <1>2, <1>4, <2>2 DEF IInv, ReportInv
  <2> QED
    BY <2>1, <2>2
<1> QED
  BY <1>5, <1>6, <1>7, <1>8, <1>9, <1>10 DEF IInv

\* The one URB of a control transfer ends it.
LEMMA ReapControlStep ==
  ASSUME IInv, NEW i \in Urbs, ReapControl(i)
  PROVE  IInv'
<1>1. /\ type = "control" /\ Retire(i) /\ Reaped(i) /\ urbs' = FALSE
      /\ UNCHANGED <<type, continuation, submitter, next, num_urbs, reap_action, reap_status,
                     flying, timed_out, gone, submits, cancels, asked, kept, halted, masked>>
  BY DEF ReapControl, Complete, what
<1>2. /\ reap_action = "CANCELLED" => reaper' = "cancelled" /\ status' = status
      /\ reap_action # "CANCELLED" =>
           /\ reaper' = "report"
           /\ status' = CASE urb[i] = "ok" -> "completed"
                          [] urb[i] = "killed" -> "cancelled"
                          [] urb[i] = "nodev" -> "no_device"
                          [] OTHER -> urb[i]
  BY DEF ReapControl, Complete
<1>3. /\ urbs /\ Held \subseteq 1..num_urbs /\ i \in Held /\ urb[i] \notin {"none", "queued"}
      /\ \A j \in Urbs : got'[j] = IF j = i THEN urb[i] ELSE got[j]
  BY <1>1, RetireFacts
<1>4. num_urbs = 1 /\ i = 1 /\ Held = {i}
  <2>1. num_urbs = 1
    BY <1>1, <1>3 DEF IInv, SubmitInv
  <2>2. \A j \in Held : j = 1
    BY <1>3, <2>1
  <2> QED
    BY <1>3, <2>1, <2>2
<1>5. /\ TurnInv' /\ Held' = Held \ {i} /\ Queued' = Queued
      /\ urb' \in [Urbs -> UrbStatuses]
      /\ \A j \in Urbs : urb'[j] = IF j = i THEN "none" ELSE urb[j]
      /\ Held' = {} => urb' = None
  BY <1>1, ReapedResult
<1>6. FlyingInv'
  BY FlyingStep DEF IInv, Next, Reaping, Reap
<1>7. /\ urb[i] \in {"ok", "killed", "nodev", "stall", "error", "overflow"}
      /\ urb[i] = "killed" => asked
      /\ urb[i] = "nodev" => gone
      /\ reap_action = "CANCELLED" => asked
  BY <1>1, <1>3 DEF IInv, TypeOK, UrbStatuses, KernelInv, ReportInv
<1>8. TypeOK' /\ SubmitInv' /\ CountInv' /\ KernelInv'
  <2>1. /\ reap_status' \in Statuses /\ status' \in Statuses
        /\ reap_status' = "no_device" => gone
        /\ reaper' \in {"cancelled", "report"}
    BY <1>1, <1>2, <1>7 DEF IInv, TypeOK, KernelInv, Statuses
  <2>2. halted' \in BOOLEAN /\ reap_action' \in {"NORMAL", "SUBMIT_FAILED", "CANCELLED",
                                                "COMPLETED_EARLY", "ERROR"}
    BY <1>1 DEF IInv, TypeOK
  <2> QED
    BY <1>1, <1>5, <2>1, <2>2, RetireKeeps
<1>9. Emptied' /\ NormalInv' /\ EarlyInv'
  BY <1>1, <1>4, <1>5 DEF Emptied, NormalInv, EarlyInv
<1>10. ReportInv'
  <2>1. urb[i] = "ok" => UpToShort'
    <3>1. 1 \in Urbs
      BY <1>4
    <3>2. urb[i] = "ok" => got'[1] = "ok"
      BY <1>3, <1>4, <3>1
    <3> QED
      BY <1>1, <1>4, <3>2 DEF UpToShort
  <2>2. reap_status \notin {"none", "cancelled", "timed_out"}
    BY DEF IInv, ReportInv
  <2> QED
    BY <1>1, <1>2, <1>7, <2>1, <2>2 DEF ReportInv
<1> QED
  BY <1>5, <1>6, <1>8, <1>9, <1>10 DEF IInv

\* The last URB ends an isochronous transfer.
LEMMA ReapIsoStep ==
  ASSUME IInv, NEW i \in Urbs, ReapIso(i)
  PROVE  IInv'
<1> DEFINE Abnormal == reap_action # "NORMAL" /\ AllRetired
           AtEnd == reap_action = "NORMAL" /\ i = num_urbs
<1>1. /\ type = "iso" /\ Retire(i) /\ Reaped(i)
      /\ UNCHANGED <<type, continuation, submitter, next, num_urbs, reap_action, reap_status,
                     flying, timed_out, gone, submits, cancels, asked, kept, halted, masked>>
  BY DEF ReapIso, what
<1>2. /\ Abnormal =>
           /\ urbs' = FALSE /\ status' = "error"
           /\ reaper' = IF reap_action = "CANCELLED" THEN "cancelled" ELSE "report"
      /\ AtEnd =>
           /\ urbs' = FALSE /\ reaper' = "report"
           /\ status' = CASE urb[i] \in {"ok", "killed"} -> "completed"
                          [] urb[i] = "nodev" -> "no_device"
                          [] OTHER -> "error"
      /\ ~Abnormal /\ ~AtEnd => UNCHANGED <<urbs, reaper, status>>
  BY DEF ReapIso, Complete, GoOn
<1> HIDE DEF Abnormal, AtEnd
<1>3. /\ urbs /\ reaper = "idle" /\ Held \subseteq 1..num_urbs /\ i \in Held
      /\ num_urbs \in Nat /\ (AllRetired => Held = {i})
      /\ InOrder /\ reap_action = "NORMAL" => \A j \in Urbs : j < i => urb[j] = "none"
  BY <1>1, RetireFacts
<1>4. /\ TurnInv' /\ Held' = Held \ {i} /\ Queued' = Queued
      /\ urb' \in [Urbs -> UrbStatuses]
      /\ \A j \in Urbs : urb'[j] = IF j = i THEN "none" ELSE urb[j]
      /\ Waiting' = Waiting \ {i} /\ \A j \in Waiting' : turn'[j] = turn[j] - 1
      /\ \A n \in 1..num_urbs : ShortAt(n) => ShortAt(n)'
      /\ Held' = {} => urb' = None
  BY <1>1, ReapedResult
<1>5. urb[i] = "nodev" => gone
  BY DEF IInv, KernelInv
<1>6. FlyingInv'
  BY FlyingStep DEF IInv, Next, Reaping, Reap
<1>7. TypeOK' /\ SubmitInv' /\ CountInv' /\ KernelInv'
  <2>1. /\ reap_status' \in Statuses /\ status' \in Statuses /\ urbs' \in BOOLEAN
        /\ reap_status' = "no_device" => gone
        /\ reaper' \in {"idle", "cancelled", "report"}
    BY <1>1, <1>2, <1>3 DEF IInv, TypeOK, KernelInv, Statuses
  <2>2. halted' \in BOOLEAN /\ reap_action' \in {"NORMAL", "SUBMIT_FAILED", "CANCELLED",
                                                "COMPLETED_EARLY", "ERROR"}
    BY <1>1 DEF IInv, TypeOK
  <2> QED
    BY <1>1, <1>4, <2>1, <2>2, RetireKeeps
<1>8. Emptied'
  <2>1. Abnormal => Held = {i}
    BY <1>3 DEF Abnormal
  <2>2. AtEnd /\ InOrder => Held = {i}
    <3>1. ASSUME AtEnd, InOrder, NEW j \in Held PROVE j = i
      <4>1. j \in Urbs /\ urb[j] # "none" /\ j \in 1..num_urbs
        BY <1>3 DEF Held
      <4>2. ~(j < i)
        BY <1>3, <3>1, <4>1 DEF AtEnd
      <4> QED
        BY <1>3, <3>1, <4>1, <4>2 DEF AtEnd
    <3> QED
      BY <1>3, <3>1
  <2> QED
    BY <1>1, <1>2, <1>3, <1>4, <2>1, <2>2 DEF Emptied, InOrder
<1>9. NormalInv'
  <2>1. SUFFICES ASSUME urbs', InOrder, reap_action = "NORMAL" PROVE NormalInv'
    BY <1>1 DEF NormalInv, InOrder
  <2>2. ~continuation
    BY <1>1 DEF IInv, KernelInv
  <2>3. /\ \A j, k \in Urbs : j < k /\ urb[j] = "queued" => urb[k] \in {"none", "queued"}
        /\ \A j, k \in Waiting : j < k => turn[j] < turn[k]
        /\ reap_status = "completed" => \A j \in Urbs : urb[j] # "killed"
    BY <1>3, <2>1, <2>2 DEF IInv, NormalInv
  <2>4. \A j, k \in Waiting' : j < k => turn'[j] < turn'[k]
    <3>1. \A j \in Waiting : turn[j] \in Nat
      BY DEF IInv, TypeOK, Waiting
    <3> QED
      BY <1>4, <2>3, <3>1
  <2>5. reap_status = "completed" => \A j \in Urbs : urb'[j] # "killed"
    BY <1>4, <2>3
  <2>6. \A j, k \in Urbs : j < k /\ urb'[j] = "queued" => urb'[k] \in {"none", "queued"}
    BY <1>4, <2>3
  <2> QED
    BY <1>1, <2>2, <2>4, <2>5, <2>6 DEF NormalInv, SplitType
<1>10. EarlyInv'
  BY <1>1, <1>3, <1>4 DEF IInv, EarlyInv
<1>11. ReportInv'
  <2>1. reap_status \notin {"none", "cancelled", "timed_out"}
        /\ (reap_action = "CANCELLED" => asked)
    BY DEF IInv, ReportInv
  <2>2. CASE Abnormal \/ AtEnd
    BY <1>1, <1>2, <1>5, <2>1, <2>2 DEF ReportInv, Abnormal, AtEnd
  <2>3. CASE ~Abnormal /\ ~AtEnd
    BY <1>1, <1>2, <1>3, <2>1, <2>3 DEF ReportInv
  <2> QED
    BY <2>2, <2>3
<1> QED
  BY <1>4, <1>6, <1>7, <1>8, <1>9, <1>10, <1>11 DEF IInv

\* The URBs are freed, and none is left to be reaped.
LEMMA DisconnectStep == ASSUME IInv, Disconnect PROVE IInv'
<1>1. /\ urb' = None /\ turn' = [i \in Urbs |-> 0] /\ urbs' = FALSE
      /\ reaper' = "report" /\ status' = "no_device" /\ gone
      /\ UNCHANGED <<type, continuation, submitter, next, num_urbs, num_retired, reap_action,
                     reap_status, flying, timed_out, gone, submits, cancels, asked, kept, got,
                     halted, masked>>
  BY DEF Disconnect, Complete, what, history
<1>2. FlyingInv'
  BY FlyingStep DEF IInv, Next
<1>3. \A i \in Urbs : urb'[i] = "none" /\ turn'[i] = 0
  BY <1>1 DEF None
<1>4. TypeOK'
  <2>1. urb' \in [Urbs -> UrbStatuses] /\ turn' \in [Urbs -> 0..NumUrbs]
    BY <1>1, TransferAssumption DEF None, UrbStatuses
  <2>2. status' \in Statuses
    BY <1>1 DEF Statuses
  <2> QED
    BY <1>1, <2>1, <2>2 DEF IInv, TypeOK
<1>5. TurnInv'
  <2>1. Finished(turn') = {}
    BY <1>3 DEF Finished
  <2>2. Cardinality(Finished(turn')) = 0
    BY <2>1, FS_EmptySet
  <2>3. turn' \in [Urbs -> Nat]
    BY <1>1
  <2>4. Placed(turn')
    BY <1>3, <2>1, <2>2, <2>3 DEF Placed
  <2> QED
    BY <1>3, <2>4 DEF TurnInv
<1>6. SubmitInv' /\ CountInv' /\ Emptied' /\ NormalInv' /\ EarlyInv'
  <2>1. submitter # "submitting"
    BY DEF Disconnect, Unlocked
  <2> QED
    BY <1>1, <2>1 DEF IInv, SubmitInv, CountInv, Emptied, NormalInv, EarlyInv
<1>7. KernelInv'
  BY <1>1, <1>3 DEF IInv, KernelInv, Queued
<1>8. ReportInv'
  BY <1>1 DEF IInv, ReportInv
<1> QED
  BY <1>2, <1>4, <1>5, <1>6, <1>7, <1>8 DEF IInv

\* Bulk, normally: what every URB does to the transfer.
LEMMA ReapBulkFacts ==
  ASSUME IInv, NEW i \in Urbs, ReapBulk(i)
  PROVE  /\ SplitType /\ reap_action = "NORMAL" /\ Retire(i)
         /\ UNCHANGED <<type, continuation, submitter, next, num_urbs, flying, timed_out, gone,
                        submits, cancels, asked, kept, masked>>
         /\ reap_status' = StatusAfter(urb[i]) /\ reap_action' = ActionAfter(i, urb[i])
         /\ urb[i] \in UrbStatuses \ {"none", "queued"}
         /\ reap_status' \in Statuses \ {"none", "cancelled", "timed_out"}
         /\ reap_action' \in {"NORMAL", "COMPLETED_EARLY", "ERROR"}
         /\ reap_status' = "no_device" => gone
         /\ reap_status' = "completed" =>
              reap_status = "completed" /\ urb[i] \in {"ok", "short", "killed"}
<1>1. /\ SplitType /\ reap_action = "NORMAL" /\ Retire(i)
      /\ UNCHANGED <<type, continuation, submitter, next, num_urbs, flying, timed_out, gone,
                     submits, cancels, asked, kept, masked>>
      /\ reap_status' = StatusAfter(urb[i]) /\ reap_action' = ActionAfter(i, urb[i])
  BY DEF ReapBulk, what
<1>2. urb[i] \in UrbStatuses \ {"none", "queued"}
  <2>1. urb[i] \notin {"none", "queued"}
    BY <1>1, RetireFacts
  <2> QED
    BY <2>1 DEF IInv, TypeOK
<1>3. /\ reap_status \in Statuses \ {"none", "cancelled", "timed_out"}
      /\ (urb[i] = "nodev" \/ reap_status = "no_device" => gone)
  BY DEF IInv, TypeOK, ReportInv, KernelInv
<1>4. /\ reap_status' \in Statuses \ {"none", "cancelled", "timed_out"}
      /\ reap_status' = "no_device" => gone
      /\ reap_status' = "completed" =>
           reap_status = "completed" /\ urb[i] \in {"ok", "short", "killed"}
  BY <1>1, <1>2, <1>3 DEF StatusAfter, First, Statuses, UrbStatuses
<1>5. reap_action' \in {"NORMAL", "COMPLETED_EARLY", "ERROR"}
  BY <1>1 DEF ActionAfter
<1> QED
  BY <1>1, <1>2, <1>4, <1>5

\* A URB that ends the transfer is the last that the kernel has, unless the
\* endpoint was halted; the transfer is complete only if it was the last of
\* all, or the short one.
LEMMA ReapBulkEnds ==
  ASSUME IInv, NEW i \in Urbs, ReapBulk(i), Ends(i, urb[i])
  PROVE  IInv'
<1>1. /\ SplitType /\ reap_action = "NORMAL" /\ Retire(i)
      /\ UNCHANGED <<type, continuation, submitter, next, num_urbs, flying, timed_out, gone,
                     submits, cancels, asked, kept, masked>>
      /\ reap_status' = StatusAfter(urb[i]) /\ reap_action' = ActionAfter(i, urb[i])
      /\ urb[i] \in UrbStatuses \ {"none", "queued"}
      /\ reap_status' \in Statuses \ {"none", "cancelled", "timed_out"}
      /\ reap_action' \in {"NORMAL", "COMPLETED_EARLY", "ERROR"}
      /\ reap_status' = "no_device" => gone
      /\ reap_status' = "completed" =>
           reap_status = "completed" /\ urb[i] \in {"ok", "short", "killed"}
  BY ReapBulkFacts
<1>2. /\ Reaped(i) /\ urbs' = FALSE /\ reaper' = "decide" /\ status' = reap_status'
      /\ UNCHANGED halted
  BY DEF ReapBulk, Complete
<1>3. /\ urbs /\ reaper = "idle" /\ Held \subseteq 1..num_urbs /\ i \in Held
      /\ num_urbs \in Nat /\ (AllRetired => Held = {i})
      /\ \A j \in Urbs : got'[j] = IF j = i THEN urb[i] ELSE got[j]
      /\ InOrder => \A j \in Urbs : j < i => urb[j] = "none"
      /\ InOrder /\ reap_status = "completed" =>
           urb[i] # "killed" /\ \A j \in 1..(i - 1) : j \in Urbs /\ got[j] = "ok"
  BY <1>1, RetireFacts
<1>4. /\ TurnInv' /\ Held' = Held \ {i} /\ Queued' = Queued
      /\ urb' \in [Urbs -> UrbStatuses]
      /\ \A j \in Urbs : urb'[j] = IF j = i THEN "none" ELSE urb[j]
      /\ Held' = {} => urb' = None
  BY <1>1, <1>2, ReapedResult
<1>5. FlyingInv'
  BY FlyingStep DEF IInv, Next, Reaping, Reap
<1>6. TypeOK' /\ SubmitInv' /\ CountInv' /\ KernelInv'
  <2>1. /\ reap_status' \in Statuses /\ status' \in Statuses
        /\ reaper' \in {"decide"} /\ urbs' \in BOOLEAN
        /\ halted' \in BOOLEAN
    BY <1>1, <1>2 DEF IInv, TypeOK
  <2> QED
    BY <1>1, <1>2, <1>4, <2>1, RetireKeeps
<1>7. i = num_urbs \/ AllRetired
  BY <1>1, <1>3 DEF Ends, IInv, KernelInv
<1>8. Emptied'
  <2>1. SUFFICES ASSUME InOrder' PROVE Held = {i}
    BY <1>4 DEF Emptied
  <2>2. CASE AllRetired
    BY <1>3, <2>2
  <2>3. CASE i = num_urbs
    <3>1. InOrder
      BY <1>1, <1>2, <2>1 DEF InOrder
    <3>2. ASSUME NEW j \in Held PROVE j = i
      <4>1. j \in Urbs /\ urb[j] # "none" /\ j \in 1..num_urbs
        BY <1>3 DEF Held
      <4>2. ~(j < i)
        BY <1>3, <3>1, <4>1
      <4> QED
        BY <1>3, <2>3, <4>1, <4>2
    <3> QED
      BY <1>3, <3>2
  <2> QED
    BY <1>7, <2>2, <2>3
<1>9. NormalInv' /\ EarlyInv'
  BY <1>2 DEF NormalInv, EarlyInv
<1>10. ReportInv'
  <2>1. ASSUME status' = "completed" PROVE UpToShort'
    <3>1. reap_status = "completed" /\ urb[i] \in {"ok", "short", "killed"} /\ InOrder
      BY <1>1, <1>2, <2>1 DEF InOrder
    <3>2. urb[i] # "killed" /\ \A j \in 1..(i - 1) : j \in Urbs /\ got[j] = "ok"
      BY <1>3, <3>1
    <3>3. i = num_urbs \/ urb[i] = "short"
      BY <1>7, <3>1, <3>2 DEF Ends
    <3>4. i \in Nat /\ i \in 1..num_urbs
      BY <1>3 DEF Urbs
    <3>5. \A j \in 1..(i - 1) : got'[j] = "ok"
      <4>1. \A j \in 1..(i - 1) : j # i
        BY <3>4
      <4> QED
        BY <1>3, <3>2, <4>1
    <3>6. got'[i] \in {"ok", "short"} /\ (i = num_urbs \/ got'[i] = "short")
      BY <1>3, <3>1, <3>2, <3>3
    <3> QED
      BY <1>1, <3>4, <3>5, <3>6 DEF UpToShort
  <2> QED
    BY <1>1, <1>2, <2>1 DEF ReportInv
<1> QED
  BY <1>4, <1>5, <1>6, <1>8, <1>9, <1>10 DEF IInv

\* A URB that was fine, and not the last, leaves the others to be reaped.
LEMMA ReapBulkFine ==
  ASSUME IInv, NEW i \in Urbs, ReapBulk(i), ~Ends(i, urb[i]), urb[i] = "ok"
  PROVE  IInv'
<1>1. /\ SplitType /\ reap_action = "NORMAL" /\ Retire(i)
      /\ UNCHANGED <<type, continuation, submitter, next, num_urbs, flying, timed_out, gone,
                     submits, cancels, asked, kept, masked>>
      /\ reap_status' = StatusAfter(urb[i]) /\ reap_action' = ActionAfter(i, urb[i])
  BY ReapBulkFacts
<1>2. /\ Reaped(i) /\ UNCHANGED <<urbs, reaper, status, halted, reap_status, reap_action>>
  BY <1>1 DEF ReapBulk, GoOn, StatusAfter, ActionAfter
<1>3. /\ urbs /\ reaper = "idle" /\ num_urbs \in Nat
      /\ \A j \in Urbs : got'[j] = IF j = i THEN urb[i] ELSE got[j]
  BY <1>1, RetireFacts
<1>4. /\ TurnInv' /\ Held' = Held \ {i} /\ Queued' = Queued
      /\ urb' \in [Urbs -> UrbStatuses]
      /\ \A j \in Urbs : urb'[j] = IF j = i THEN "none" ELSE urb[j]
      /\ Waiting' = Waiting \ {i} /\ \A j \in Waiting' : turn'[j] = turn[j] - 1
  BY <1>1, <1>2, ReapedResult
<1>5. FlyingInv'
  BY FlyingStep DEF IInv, Next, Reaping, Reap
<1>6. TypeOK' /\ SubmitInv' /\ CountInv' /\ KernelInv'
  <2>1. /\ reap_status' \in Statuses /\ status' \in Statuses
        /\ reaper' \in {"idle"} /\ urbs' \in BOOLEAN /\ halted' \in BOOLEAN
        /\ reap_status' = "no_device" => gone
    BY <1>2, <1>3 DEF IInv, TypeOK, KernelInv
  <2> QED
    BY <1>1, <1>2, <1>4, <2>1, RetireKeeps DEF SplitType
<1>7. Emptied' /\ EarlyInv'
  BY <1>1, <1>2, <1>3 DEF Emptied, EarlyInv
<1>8. NormalInv'
  <2>1. SUFFICES ASSUME InOrder PROVE NormalInv'
    BY <1>2 DEF NormalInv, InOrder
  <2>2. /\ \A j, k \in Urbs : j < k /\ urb[j] = "queued" => urb[k] \in {"none", "queued"}
        /\ \A j, k \in Waiting : j < k => turn[j] < turn[k]
        /\ continuation /\ (\E j \in Urbs : j \in Failed \/ urb[j] = "killed") => Queued = {}
        /\ continuation => \A j \in Urbs, n \in Failed : j < n => urb[j] \in {"none", "ok"}
        /\ reap_status = "completed" =>
             /\ \A j \in Urbs : urb[j] = "killed" => continuation /\ \E k \in Failed : k < j
             /\ \A j \in 1..num_urbs : j < next => urb[j] # "none" \/ got[j] = "ok"
    BY <1>1, <1>3, <2>1 DEF IInv, NormalInv
  <2>3. \A j, k \in Waiting' : j < k => turn'[j] < turn'[k]
    <3>1. \A j \in Waiting : turn[j] \in Nat
      BY DEF IInv, TypeOK, Waiting
    <3> QED
      BY <1>4, <2>2, <3>1
  <2>4. Failed' = Failed /\ \A j \in Urbs : urb'[j] = "killed" => urb[j] = "killed"
    BY <1>4 DEF Failed
  <2>5. continuation => \A j \in Urbs, n \in Failed' : j < n => urb'[j] \in {"none", "ok"}
    BY <1>4, <2>2, <2>4
  <2>6. reap_status = "completed" =>
          \A j \in 1..num_urbs : j < next => urb'[j] # "none" \/ got'[j] = "ok"
    <3>1. \A j \in 1..num_urbs : j \in Urbs
      BY TransferAssumption DEF IInv, TypeOK, Urbs
    <3> QED
      BY <1>3, <1>4, <2>2, <3>1
  <2>7. \A j, k \in Urbs : j < k /\ urb'[j] = "queued" => urb'[k] \in {"none", "queued"}
    BY <1>4, <2>2
  <2> QED
    BY <1>1, <1>2, <1>4, <2>2, <2>3, <2>4, <2>5, <2>6, <2>7 DEF NormalInv
<1>9. ReportInv'
  BY <1>1, <1>2, <1>3 DEF IInv, ReportInv
<1> QED
  BY <1>4, <1>5, <1>6, <1>7, <1>8, <1>9 DEF IInv

\* A URB that was not fine has others discarded; what was short is what the
\* transfer completes with.
LEMMA ReapBulkHalts ==
  ASSUME IInv, NEW i \in Urbs, ReapBulk(i), ~Ends(i, urb[i]), urb[i] # "ok"
  PROVE  IInv'
<1>1. /\ SplitType /\ reap_action = "NORMAL" /\ Retire(i)
      /\ UNCHANGED <<type, continuation, submitter, next, num_urbs, flying, timed_out, gone,
                     submits, cancels, asked, kept, masked>>
      /\ reap_status' = StatusAfter(urb[i]) /\ reap_action' = ActionAfter(i, urb[i])
      /\ urb[i] \in UrbStatuses \ {"none", "queued"}
      /\ reap_status' \in Statuses \ {"none", "cancelled", "timed_out"}
      /\ reap_action' \in {"NORMAL", "COMPLETED_EARLY", "ERROR"}
      /\ reap_status' = "no_device" => gone
      /\ reap_status' = "completed" =>
           reap_status = "completed" /\ urb[i] \in {"ok", "short", "killed"}
  BY ReapBulkFacts
<1>4. PICK S \in SUBSET Queued :
         /\ urb' = [j \in Urbs |-> IF j = i THEN "none"
                                   ELSE IF j \in S THEN "killed" ELSE urb[j]]
         /\ turn' = [j \in Urbs |-> IF j \in S
                       THEN Cardinality(Waiting) - 1 + Descending(S)[j] ELSE Up(j)]
  BY DEF ReapBulk, Discardable
<1>2. /\ halted' = (halted \/ (urb[i] = "stall" /\ ~continuation))
      /\ UNCHANGED <<urbs, reaper, status>>
  BY DEF ReapBulk, GoOn
<1>3. /\ urbs /\ reaper = "idle" /\ Held \subseteq 1..num_urbs /\ i \in Held
      /\ num_urbs \in Nat /\ turn[i] = 1
      /\ \A j \in Urbs : got'[j] = IF j = i THEN urb[i] ELSE got[j]
      /\ InOrder => \A j \in Urbs : j < i => urb[j] = "none"
      /\ InOrder /\ reap_status = "completed" =>
           urb[i] # "killed" /\ \A j \in 1..(i - 1) : j \in Urbs /\ got[j] = "ok"
  BY <1>1, RetireFacts
<1>5. S \in SUBSET Queued /\ \A j \in S : j \in Urbs /\ urb[j] = "queued"
  BY DEF Queued
<1>6. /\ TurnInv' /\ Queued' = Queued \ S /\ Held' = Held \ {i}
      /\ urb' \in [Urbs -> UrbStatuses] /\ Waiting' = (Waiting \ {i}) \cup S
      /\ \A j \in Waiting \ {i} : turn'[j] = turn[j] - 1
  <2>1. TurnInv /\ urb \in [Urbs -> UrbStatuses]
    BY DEF IInv, TypeOK
  <2> QED
    BY <1>3, <1>4, <1>5, <2>1, Halting
<1>7. \A j \in Urbs : urb'[j] = IF j = i THEN "none" ELSE IF j \in S THEN "killed" ELSE urb[j]
  BY <1>4
<1>8. FlyingInv'
  BY FlyingStep DEF IInv, Next, Reaping, Reap
<1>9. TypeOK' /\ SubmitInv' /\ CountInv' /\ KernelInv'
  <2>1. /\ reap_status' \in Statuses /\ status' \in Statuses /\ reaper' \in {"idle"}
        /\ urbs' \in BOOLEAN
    BY <1>1, <1>2, <1>3 DEF IInv, TypeOK
  <2>2. halted' \in BOOLEAN
    <3>1. halted \in BOOLEAN
      BY DEF IInv, TypeOK
    <3> QED
      BY <1>2, <3>1
  <2>3. \A j \in Urbs : \/ urb'[j] \in {"none", urb[j]}
                        \/ urb[j] = "queued" /\ urb'[j] = "killed" /\ type # "control"
    BY <1>1, <1>5, <1>7 DEF SplitType
  <2> QED
    BY <1>1, <1>6, <1>7, <2>1, <2>2, <2>3, RetireKeeps DEF SplitType
<1>10. Emptied'
  BY <1>2, <1>3 DEF Emptied
<1>11. NormalInv'
  <2>1. SUFFICES ASSUME InOrder', reap_action' = "NORMAL" PROVE NormalInv'
    BY DEF NormalInv
  <2>2. urb[i] \in {"stall", "nodev"}
    BY <1>1, <2>1 DEF ActionAfter, Ends, UrbStatuses
  <2>3. reap_status' # "completed"
    BY <1>1, <2>2
  <2>4. ~halted /\ InOrder /\ (urb[i] = "stall" => continuation)
    BY <1>2, <2>1, <2>3 DEF InOrder
  <2>5. /\ \A j, k \in Waiting : j < k => turn[j] < turn[k]
        /\ continuation /\ (\E j \in Urbs : j \in Failed \/ urb[j] = "killed") => Queued = {}
        /\ continuation => \A j \in Urbs, n \in Failed : j < n => urb[j] \in {"none", "ok"}
    BY <1>1, <1>3, <2>4 DEF IInv, NormalInv
  <2>6. S = {} /\ Queued' = {}
    <3>1. urb[i] = "stall" => Queued = {}
      BY <2>4, <2>5 DEF Failed
    <3>2. urb[i] = "nodev" => Queued = {}
      BY DEF IInv, KernelInv
    <3> QED
      BY <1>5, <1>6, <2>2, <3>1, <3>2
  <2>7. \A j, k \in Waiting' : j < k => turn'[j] < turn'[k]
    <3>1. \A j \in Waiting : turn[j] \in Nat
      BY DEF IInv, TypeOK, Waiting
    <3> QED
      BY <1>6, <2>5, <2>6, <3>1
  <2>8. continuation => \A j \in Urbs, n \in Failed' : j < n => urb'[j] \in {"none", "ok"}
    <3>1. Failed' \subseteq Failed
      BY <1>7, <2>6 DEF Failed
    <3> QED
      BY <1>7, <2>5, <2>6, <3>1
  <2>9. \A j \in Urbs : urb'[j] # "queued"
    BY <2>6 DEF Queued
  <2> QED
    BY <1>1, <2>3, <2>6, <2>7, <2>8, <2>9 DEF NormalInv
<1>12. EarlyInv'
  <2>1. SUFFICES ASSUME reap_status' = "completed" PROVE \E n \in 1..num_urbs : ShortAt(n)'
    BY <1>1, <1>7 DEF EarlyInv
  <2>2. reap_status = "completed" /\ InOrder /\ urb[i] = "short"
    BY <1>1, <1>3, <2>1 DEF InOrder
  <2>3. i \in Nat /\ i \in 1..num_urbs
    BY <1>3 DEF Urbs
  <2>4. ASSUME NEW j \in 1..(i - 1) PROVE Result(j)' = "ok"
    <3>1. j \in Urbs /\ j < i /\ j # i /\ got[j] = "ok"
      BY <1>3, <2>2, <2>3
    <3>2. urb[j] = "none"
      BY <1>3, <2>2, <3>1
    <3>3. urb'[j] = "none" /\ got'[j] = "ok"
      BY <1>3, <1>5, <1>7, <3>1, <3>2
    <3> QED
      BY <3>3 DEF Result
  <2>5. Result(i)' = "short"
    BY <1>3, <1>7, <2>2 DEF Result
  <2>6. ShortAt(i)'
    BY <2>4, <2>5 DEF ShortAt
  <2> QED
    BY <2>3, <2>6
<1>13. ReportInv'
  BY <1>1, <1>2, <1>3 DEF IInv, ReportInv
<1> QED
  BY <1>6, <1>8, <1>9, <1>10, <1>11, <1>12, <1>13 DEF IInv

-----------------------------------------------------------------------------
LEMMA InitInv == Init => IInv
<1> SUFFICES ASSUME Init PROVE IInv
  OBVIOUS
<1> USE DEF Init
<1>1. \A i \in Urbs : urb[i] = "none" /\ turn[i] = 0
  BY DEF None
<1>2. TypeOK
  <2>1. NumUrbs \in Nat /\ MaxSubmits \in Nat /\ MaxCancels \in Nat
    BY TransferAssumption
  <2>2. /\ urb \in [Urbs -> UrbStatuses] /\ got \in [Urbs -> UrbStatuses]
        /\ turn \in [Urbs -> 0..NumUrbs]
    BY <2>1 DEF None, UrbStatuses
  <2>3. /\ next \in 1..(NumUrbs + 1) /\ num_urbs \in 0..NumUrbs /\ num_retired \in 0..num_urbs
        /\ submits \in 0..MaxSubmits /\ cancels \in 0..MaxCancels
    BY <2>1
  <2> QED
    BY <2>2, <2>3 DEF TypeOK, Statuses
<1>3. TurnInv
  <2>1. Finished(turn) = {}
    BY <1>1 DEF Finished
  <2>2. Cardinality(Finished(turn)) = 0
    BY <2>1, FS_EmptySet
  <2>3. turn \in [Urbs -> Nat]
    OBVIOUS
  <2>4. Placed(turn)
    BY <1>1, <2>1, <2>2, <2>3 DEF Placed
  <2> QED
    BY <1>1, <2>4 DEF TurnInv
<1>4. FlyingInv /\ SubmitInv /\ CountInv /\ Emptied /\ NormalInv /\ EarlyInv /\ ReportInv
  BY DEF FlyingInv, Ending, SubmitInv, CountInv, Emptied, NormalInv, EarlyInv,
         ReportInv
<1>5. KernelInv
  BY <1>1 DEF KernelInv, Queued
<1> QED
  BY <1>2, <1>3, <1>4, <1>5 DEF IInv

LEMMA NextInv == IInv /\ [Next]_vars => IInv'
<1> SUFFICES ASSUME IInv, [Next]_vars PROVE IInv'
  OBVIOUS
<1>1. CASE Submit
  BY <1>1, SubmitStep
<1>2. CASE Submitting
  BY <1>2, SubmitUrbStep, QuietStep, SubmitFirstFailsStep,
     SubmitFailsStep DEF Submitting
<1>3. CASE Cancel \/ Timeout
  BY <1>3, CancelStep
<1>4. CASE Kernel
  BY <1>4, KernelFinishesStep DEF Kernel
<1>5. CASE Unplug
  BY <1>5, UnplugStep
<1>6. CASE Reap
  <2>1. PICK i \in Urbs : ReapBulkAbnormal(i) \/ ReapBulk(i) \/ ReapIso(i) \/ ReapControl(i)
    BY <1>6 DEF Reap
  <2>2. CASE ReapBulk(i)
    BY <2>2, ReapBulkEnds, ReapBulkFine, ReapBulkHalts
  <2> QED
    BY <2>1, <2>2, ReapBulkAbnormalStep, ReapIsoStep, ReapControlStep
<1>7. CASE Decide \/ Cancellation \/ Report \/ CallbackReturns \/ UNCHANGED vars
  BY <1>7, QuietStep
<1>8. CASE Disconnect
  BY <1>8, DisconnectStep
<1> QED
  BY <1>1, <1>2, <1>3, <1>4, <1>5, <1>6, <1>7, <1>8 DEF Next, Reaping

\* The invariant holds in every state, for a transfer of any type and of any
\* number of URBs, submitted and cancelled any number of times.
THEOREM Invariance == Spec => []IInv
  BY InitInv, NextInv, PTL DEF Spec

\* Every field has its type; the URBs retired are never more than those of the
\* transfer, and those to be reaped have places among them.
THEOREM TypeCorrect == Spec => []TypeOK
<1>1. IInv => TypeOK
  BY DEF IInv
<1> QED
  BY <1>1, Invariance, PTL

\* When the URBs of a transfer are freed the kernel has none of them, whatever
\* failed, was cancelled or timed out on the way, unless a stall on a kernel
\* without continuation mixed up their order.
THEOREM FreedWhenReaped == Spec => []ReapedUnlessHalted
<1>1. IInv => ReapedUnlessHalted
  BY DEF IInv, Emptied, InOrder, ReapedUnlessHalted
<1> QED
  BY <1>1, Invariance, PTL

\* The status that the callback gets tells what happened to the URBs.
THEOREM CallbackTold == Spec => []StatusTruth
<1>1. IInv => StatusTruth
  BY DEF IInv, ReportInv, StatusTruth, Called
<1> QED
  BY <1>1, Invariance, PTL
=============================================================================
