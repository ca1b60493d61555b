------------------------------ MODULE UsbEvents ------------------------------
(***************************************************************************)
(* Who handles the events of a libusb context.  Any thread inside libusb   *)
(* may do it: the one that gets events_lock polls and calls the callbacks, *)
(* the others wait on a condition until it is done or goes away.  libuvc   *)
(* adds a handler thread that does nothing else, callers that wait for     *)
(* their own control transfer, callers that only wait for a callback (the  *)
(* stop of a stream), and uvc_close, which ends the handler thread.        *)
(*                                                                         *)
(* Every thread has at most one transfer in flight, named after it; the    *)
(* handler thread's is the status transfer, submitted again by its own     *)
(* callback.  Transfers have no timeout here, as libuvc's control and      *)
(* status transfers; the one minute of libusb_handle_events is PollTimeout *)
(* and WaitTimeout.                                                        *)
(***************************************************************************)
EXTENDS Naturals

CONSTANTS App,       \* the thread that opens and closes the camera
          Handler,   \* the thread of _uvc_handle_events
          Others,    \* threads joined before the camera is closed: the preview
          Nobody,
          MaxCalls   \* bound: transfers of the callers, status events
                     \* and waits of a minute while the camera is open

ASSUME ThreadsAssumption ==
    /\ App # Handler /\ Nobody \notin {App, Handler} \cup Others
    /\ App \notin Others /\ Handler \notin Others
    /\ MaxCalls \in Nat

Callers == {App} \cup Others
Threads == Callers \cup {Handler}

VARIABLES
    events_lock,             \* its owner, or Nobody
    event_handler_active,
    pollfd_modify,
    ctrl_pipe,               \* bytes in the control pipe
    event_waiters_lock,      \* its owner, or Nobody
    fd,                      \* the device is open, its descriptor in pollfds
    polled,                  \* threads whose poll includes the device
    transfer,                \* where the transfer of each thread is
    calls,                   \* such things that happened since the last Open
    kill_handler_thread,
    pc

locks == <<events_lock, event_handler_active, event_waiters_lock>>
close == <<pollfd_modify, ctrl_pipe, fd, kill_handler_thread>>
traffic == <<transfer, calls>>
eventsVars == <<locks, close, polled, traffic, pc>>

EventsInit ==
    /\ events_lock = Nobody /\ event_handler_active = FALSE
    /\ pollfd_modify = 0 /\ ctrl_pipe = 0
    /\ event_waiters_lock = Nobody
    /\ fd = FALSE /\ polled = {}
    /\ transfer = [t \in Threads |-> "done"] /\ calls = 0
    /\ kill_handler_thread = FALSE
    /\ pc = [t \in Threads |-> CASE t = App -> "closed"
                                 [] t = Handler -> "dead"
                                 [] OTHER -> "idle"]

Goto(t, where) == pc' = [pc EXCEPT ![t] = where]
Completed(t) == t # Handler /\ transfer[t] = "done"

\* Everybody asleep on event_waiters_cond wakes up, and t goes on.
WakeAll(t, where) ==
    pc' = [u \in Threads |-> CASE u = t -> where
                               [] u # t /\ pc[u] = "asleep" -> "awake"
                               [] OTHER -> pc[u]]

TryModify(t) ==
    /\ pc[t] = "try"
    /\ Goto(t, IF pollfd_modify > 0 THEN "waiters" ELSE "trylock")
    /\ UNCHANGED <<locks, close, polled, traffic>>

TryLock(t) ==
    /\ pc[t] = "trylock"
    /\ IF events_lock = Nobody
       THEN events_lock' = t /\ Goto(t, "enter")
       ELSE UNCHANGED events_lock /\ Goto(t, "waiters")
    /\ UNCHANGED <<event_handler_active, event_waiters_lock, close, polled, traffic>>

\* Slip: whether the transfer completed is not tested under the lock.
EnterBlind(t) ==
    /\ pc[t] = "enter"
    /\ event_handler_active' = TRUE
    /\ Goto(t, "poll")
    /\ polled' = IF fd THEN polled \cup {t} ELSE polled
    /\ UNCHANGED <<events_lock, event_waiters_lock, close, traffic>>

\* handle_events copies the descriptors that it will poll.
Enter(t) ==
    /\ pc[t] = "enter"
    /\ event_handler_active' = TRUE
    /\ IF Completed(t)
       THEN Goto(t, "inactive") /\ UNCHANGED polled
       ELSE /\ Goto(t, "poll")
            /\ polled' = IF fd THEN polled \cup {t} ELSE polled
    /\ UNCHANGED <<events_lock, event_waiters_lock, close, traffic>>

Ready == {t \in Threads : transfer[t] = "ready"}
DeviceReady(t) == t \in polled /\ Ready # {}

\* The control pipe alone makes handle_events return.
PollReturn(t) ==
    /\ pc[t] = "poll"
    /\ \/ DeviceReady(t) /\ Goto(t, "reap")
       \/ ~DeviceReady(t) /\ ctrl_pipe > 0 /\ Goto(t, "inactive")
    /\ UNCHANGED <<locks, close, polled, traffic>>

PollTimeout(t) ==
    /\ pc[t] = "poll" /\ ~DeviceReady(t) /\ ctrl_pipe = 0
    /\ Goto(t, "inactive")
    /\ UNCHANGED <<locks, close, polled, traffic>>

\* reap_for_handle until nothing is ready.  The callback of a control transfer
\* sets completed, the status callback submits its transfer again.
ReapUrb(t) ==
    /\ pc[t] = "reap"
    /\ IF Ready = {}
       THEN Goto(t, "inactive") /\ UNCHANGED transfer
       ELSE \E u \in Ready :
              /\ transfer' = [transfer EXCEPT ![u] =
                               IF u = Handler THEN "kernel" ELSE "done"]
              /\ Goto(t, "completion")
    /\ UNCHANGED <<locks, close, polled, calls>>

\* The end of usbi_handle_transfer_completion.
Completion(t) ==
    /\ pc[t] = "completion" /\ event_waiters_lock = Nobody
    /\ WakeAll(t, "reap")
    /\ UNCHANGED <<locks, close, polled, traffic>>

\* libusb_unlock_events.
Inactive(t) ==
    /\ pc[t] = "inactive"
    /\ event_handler_active' = FALSE
    /\ polled' = polled \ {t}
    /\ Goto(t, "unlock")
    /\ UNCHANGED <<events_lock, event_waiters_lock, close, traffic>>

Unlock(t) ==
    /\ pc[t] = "unlock"
    /\ events_lock' = Nobody
    /\ Goto(t, "broadcast")
    /\ UNCHANGED <<event_handler_active, event_waiters_lock, close, polled, traffic>>

\* Slip: the broadcast does not take event_waiters_lock.
BroadcastUnlocked(t) ==
    /\ pc[t] = "broadcast"
    /\ WakeAll(t, "return")
    /\ UNCHANGED <<locks, close, polled, traffic>>

\* Slip: libusb_unlock_events does not wake the waiters.
BroadcastNot(t) ==
    /\ pc[t] = "broadcast"
    /\ Goto(t, "return")
    /\ UNCHANGED <<locks, close, polled, traffic>>

Broadcast(t) ==
    /\ pc[t] = "broadcast" /\ event_waiters_lock = Nobody
    /\ WakeAll(t, "return")
    /\ UNCHANGED <<locks, close, polled, traffic>>

\* libusb_lock_event_waiters and the test of completed.
LockWaiters(t) ==
    /\ pc[t] = "waiters" /\ event_waiters_lock = Nobody
    /\ IF Completed(t)
       THEN Goto(t, "return") /\ UNCHANGED event_waiters_lock
       ELSE Goto(t, "modified") /\ event_waiters_lock' = t
    /\ UNCHANGED <<events_lock, event_handler_active, close, polled, traffic>>

\* libusb_event_handler_active: two reads.
ReadModify(t) ==
    /\ pc[t] = "modified"
    /\ Goto(t, IF pollfd_modify > 0 THEN "wait" ELSE "active")
    /\ UNCHANGED <<locks, close, polled, traffic>>

\* Slip: the thread waits without looking whether anybody handles events.
ReadActiveNot(t) ==
    /\ pc[t] = "active"
    /\ Goto(t, "wait")
    /\ UNCHANGED <<locks, close, polled, traffic>>

ReadActive(t) ==
    /\ pc[t] = "active"
    /\ IF event_handler_active
       THEN Goto(t, "wait") /\ UNCHANGED event_waiters_lock
       ELSE Goto(t, "try") /\ event_waiters_lock' = Nobody
    /\ UNCHANGED <<events_lock, event_handler_active, close, polled, traffic>>

\* libusb_wait_for_event: the lock is released and the thread sleeps.
Wait(t) ==
    /\ pc[t] = "wait"
    /\ event_waiters_lock' = Nobody
    /\ Goto(t, "asleep")
    /\ UNCHANGED <<events_lock, event_handler_active, close, polled, traffic>>

WaitTimeout(t) ==
    /\ pc[t] = "asleep"
    /\ calls < MaxCalls /\ calls' = calls + 1
    /\ Goto(t, "awake")
    /\ UNCHANGED <<locks, close, polled, transfer>>

\* The condition takes event_waiters_lock again, and it is released.
Awake(t) ==
    /\ pc[t] = "awake" /\ event_waiters_lock = Nobody
    /\ Goto(t, "return")
    /\ UNCHANGED <<locks, close, polled, traffic>>

HandleEvents(t) ==
    \/ TryModify(t) \/ TryLock(t) \/ Enter(t) \/ PollReturn(t) \/ ReapUrb(t)
    \/ Completion(t) \/ Inactive(t) \/ Unlock(t) \/ Broadcast(t)
    \/ LockWaiters(t) \/ ReadModify(t) \/ ReadActive(t) \/ Wait(t) \/ Awake(t)

(***************************************************************************)
(* The handler thread and the callers.                                     *)
(***************************************************************************)
\* _uvc_handle_events.
CheckKill ==
    /\ pc[Handler] = "check"
    /\ Goto(Handler, IF kill_handler_thread THEN "dead" ELSE "try")
    /\ UNCHANGED <<locks, close, polled, traffic>>
HandlerReturn ==
    /\ pc[Handler] = "return"
    /\ Goto(Handler, "check")
    /\ UNCHANGED <<locks, close, polled, traffic>>

\* The camera can be used, and is not being closed.
Usable == fd /\ pc[App] \in {"idle", "try", "trylock", "enter", "poll", "reap",
    "completion", "inactive", "unlock", "broadcast", "waiters", "modified",
    "active", "wait", "asleep", "awake", "return"}

\* libusb_control_transfer.
ControlTransfer(t) ==
    /\ pc[t] = "idle" /\ Usable
    /\ transfer' = [transfer EXCEPT ![t] = "kernel"]
    /\ calls < MaxCalls /\ calls' = calls + 1
    /\ Goto(t, "try")
    /\ UNCHANGED <<locks, close, polled>>

\* The loop of sync_transfer_wait_for_completion.
CallerReturn(t) ==
    /\ pc[t] = "return" /\ fd
    /\ Goto(t, IF Completed(t) THEN "idle" ELSE "try")
    /\ UNCHANGED <<locks, close, polled, traffic>>

\* uvc_stream_stop waits on its own condition for the callbacks of the
\* transfers it has cancelled, and handles no events.
StreamStop(t) ==
    /\ pc[t] = "idle" /\ Usable
    /\ transfer' = [transfer EXCEPT ![t] = "kernel"]
    /\ calls < MaxCalls /\ calls' = calls + 1
    /\ Goto(t, "cond")
    /\ UNCHANGED <<locks, close, polled>>
StreamStopped(t) ==
    /\ pc[t] = "cond" /\ Completed(t)
    /\ Goto(t, "idle")
    /\ UNCHANGED <<locks, close, polled, traffic>>

\* The kernel finishes a transfer: for the status transfer, an event.
KernelAnswers(t) ==
    /\ transfer[t] = "kernel"
    /\ IF t = Handler
       THEN calls < MaxCalls /\ calls' = calls + 1
       ELSE UNCHANGED calls
    /\ transfer' = [transfer EXCEPT ![t] = "ready"]
    /\ UNCHANGED <<locks, close, polled, pc>>

(***************************************************************************)
(* uvc_open, at its end: the status transfer is submitted and the handler  *)
(* thread started.  The context has no other open device.                  *)
(***************************************************************************)
Open ==
    /\ pc[App] = "closed"
    /\ fd' = TRUE
    /\ transfer' = [transfer EXCEPT ![Handler] = "kernel"]
    /\ calls' = 0
    /\ pc' = [pc EXCEPT ![App] = "idle", ![Handler] = "check"]
    /\ UNCHANGED <<locks, polled, pollfd_modify, ctrl_pipe,
                   kill_handler_thread>>

(***************************************************************************)
(* uvc_close and, within it, libusb_close and do_close.                    *)
(***************************************************************************)
\* Slip: the handler thread is not told to end.
CloseKillNot ==
    /\ pc[App] = "idle" /\ \A t \in Others : pc[t] = "idle"
    /\ Goto(App, "modify")
    /\ UNCHANGED <<locks, close, polled, traffic>>

\* Slip: the preview thread is not joined first.
CloseEarly ==
    /\ pc[App] = "idle"
    /\ kill_handler_thread' = TRUE
    /\ Goto(App, "modify")
    /\ UNCHANGED <<locks, pollfd_modify, ctrl_pipe, fd, polled, traffic>>

Close ==
    /\ pc[App] = "idle" /\ \A t \in Others : pc[t] = "idle"
    /\ kill_handler_thread' = TRUE
    /\ Goto(App, "modify")
    /\ UNCHANGED <<locks, pollfd_modify, ctrl_pipe, fd, polled, traffic>>

CloseModify ==
    /\ pc[App] = "modify"
    /\ pollfd_modify' = pollfd_modify + 1
    /\ Goto(App, "write")
    /\ UNCHANGED <<locks, ctrl_pipe, fd, kill_handler_thread, polled, traffic>>

CloseWrite ==
    /\ pc[App] = "write"
    /\ ctrl_pipe' = ctrl_pipe + 1
    /\ Goto(App, "lock")
    /\ UNCHANGED <<locks, pollfd_modify, fd, kill_handler_thread, polled, traffic>>

\* Slip: the events lock is not waited for.
CloseLockNot ==
    /\ pc[App] = "lock"
    /\ Goto(App, "read")
    /\ UNCHANGED <<locks, close, polled, traffic>>

CloseLock ==
    /\ pc[App] = "lock" /\ events_lock = Nobody
    /\ events_lock' = App
    /\ Goto(App, "read")
    /\ UNCHANGED <<event_handler_active, event_waiters_lock, close, polled, traffic>>

CloseRead ==
    /\ pc[App] = "read"
    /\ event_handler_active' = TRUE
    /\ ctrl_pipe' = ctrl_pipe - 1
    /\ Goto(App, "drop")
    /\ UNCHANGED <<events_lock, event_waiters_lock, pollfd_modify, fd,
                   kill_handler_thread, polled, traffic>>

\* do_close takes and releases the lock that is already held, which says that
\* nobody handles events.  What is in flight gets no callback any more.
CloseDrop ==
    /\ pc[App] = "drop"
    /\ transfer' = [t \in Threads |-> IF transfer[t] \in {"kernel", "ready"}
                                   THEN "lost" ELSE transfer[t]]
    /\ event_handler_active' = FALSE
    /\ Goto(App, "dropped")
    /\ UNCHANGED <<events_lock, event_waiters_lock, close, polled, calls>>

CloseDropped ==
    /\ pc[App] = "dropped" /\ event_waiters_lock = Nobody
    /\ WakeAll(App, "fd")
    /\ UNCHANGED <<locks, close, polled, traffic>>

\* op_close: the descriptor leaves the list and is closed.
CloseFd ==
    /\ pc[App] = "fd"
    /\ fd' = FALSE
    /\ Goto(App, "unmodify")
    /\ UNCHANGED <<locks, pollfd_modify, ctrl_pipe, kill_handler_thread, polled, traffic>>

\* libusb_unlock_events comes next.
CloseUnmodify ==
    /\ pc[App] = "unmodify"
    /\ pollfd_modify' = pollfd_modify - 1
    /\ Goto(App, "inactive")
    /\ UNCHANGED <<locks, ctrl_pipe, fd, kill_handler_thread, polled, traffic>>

CloseJoin ==
    /\ pc[App] = "return" /\ ~fd
    /\ Goto(App, "join")
    /\ UNCHANGED <<locks, close, polled, traffic>>

Joined ==
    /\ pc[App] = "join" /\ pc[Handler] = "dead"
    /\ Goto(App, "closed")
    /\ UNCHANGED <<locks, close, polled, traffic>>

Closing == CloseModify \/ CloseWrite \/ CloseLock \/ CloseRead \/ CloseDrop
           \/ CloseDropped \/ CloseFd \/ CloseUnmodify \/ CloseJoin \/ Joined

HandlerThread == CheckKill \/ HandleEvents(Handler) \/ HandlerReturn
Caller(t) == HandleEvents(t) \/ CallerReturn(t) \/ StreamStopped(t)

EventsNext ==
    \/ HandlerThread
    \/ \E t \in Callers : Caller(t)
    \/ \E t \in Callers : ControlTransfer(t)
    \/ \E t \in Others : StreamStop(t)
    \/ \E t \in Threads : KernelAnswers(t) \/ PollTimeout(t) \/ WaitTimeout(t)
    \/ Open \/ Close \/ Closing

EventsSpec == EventsInit /\ [][EventsNext]_eventsVars

\* Every thread runs, the kernel finishes what a caller asked for, and the
\* minute of a poll passes.  The minute is counted on only while uvc_close
\* waits for the handler thread: no caller may need it.
FairEventsSpec ==
    /\ EventsSpec
    /\ WF_eventsVars(HandlerThread) /\ WF_eventsVars(Closing)
    /\ \A t \in Callers : WF_eventsVars(Caller(t)) /\ WF_eventsVars(KernelAnswers(t))
    /\ WF_eventsVars(pc[App] = "join" /\ PollTimeout(Handler))

-----------------------------------------------------------------------------
Places == {"closed", "dead", "idle", "check", "try", "trylock", "enter", "poll",
    "reap", "completion", "inactive", "unlock", "broadcast", "waiters",
    "modified", "active", "wait", "asleep", "awake", "return", "cond", "modify",
    "write", "lock", "read", "drop", "dropped", "fd", "unmodify", "join"}

EventsTypeOK ==
    /\ events_lock \in Threads \cup {Nobody}
    /\ event_handler_active \in BOOLEAN
    /\ pollfd_modify \in 0..1 /\ ctrl_pipe \in 0..1
    /\ event_waiters_lock \in Threads \cup {Nobody}
    /\ fd \in BOOLEAN /\ polled \subseteq Threads
    /\ transfer \in [Threads -> {"kernel", "ready", "done", "lost"}]
    /\ calls \in 0..MaxCalls
    /\ kill_handler_thread \in BOOLEAN
    /\ pc \in [Threads -> Places]

\* A thread sleeps as a waiter only while another one holds the events lock,
\* or is about to, or will still broadcast: no wakeup is ever lost, so no
\* sleeper needs the minute.
HasLock == {"enter", "poll", "reap", "completion", "inactive", "unlock",
            "read", "drop", "dropped", "fd", "unmodify"}
WillWake == HasLock \cup {"broadcast", "write", "lock"}
SleepersServed ==
    (\E t \in Threads : pc[t] = "asleep") => \E u \in Threads : pc[u] \in WillWake

\* Nobody polls or reaps a device that was closed, and the control transfer of
\* a caller is never dropped by the close: whoever waits for one gets it.
ClosedNotPolled ==
    /\ ~fd => polled = {}
    /\ \A t \in Callers : transfer[t] # "lost"

\* Every wait ends.  A control transfer returns, whoever handles its completion,
\* and without waiting for the end of a minute: also when no handler thread
\* runs.  A thread that only waits for a callback gets it, as long as the
\* handler thread was not told to end; kill_handler_thread is never reset, so on
\* a camera that was closed and opened again no handler thread runs, and that
\* wait can be endless.  uvc_close returns: it gets the events lock although
\* callers want it too, and the handler thread ends.
WaitsEnd ==
    /\ \A t \in Callers : pc[t] = "try" ~> pc[t] = "idle"
    /\ \A t \in Others : (pc[t] = "cond" /\ ~kill_handler_thread) ~> pc[t] = "idle"
    /\ pc[App] = "modify" ~> pc[App] = "closed"
=============================================================================
