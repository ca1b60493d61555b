------------------------------ MODULE UvcStream ------------------------------
(***************************************************************************)
(* The life of a libuvc stream handle, stream.c: the transfers that cycle  *)
(* between the camera and libusb's event thread, the thread that calls the *)
(* user's callback, and the client (the preview thread of UvcPreview) that *)
(* starts the stream and stops it.                                         *)
(*                                                                         *)
(* Every critical section of cb_mutex is one step, cb_cond a set of        *)
(* sleepers.  What is in a frame is the subject of UvcPayload.             *)
(***************************************************************************)
EXTENDS Integers

CONSTANTS Transfers,    \* the LIBUVC_NUM_TRANSFER_BUFS slots of transfers[]
          Unplug,       \* TRUE: the camera may be unplugged
          SubmitFails,  \* TRUE: libusb_submit_transfer may fail at any time
          MaxSeq        \* bound: frames published per stream

ASSUME StreamAssumption ==
    /\ Transfers # {}
    /\ Unplug \in BOOLEAN /\ SubmitFails \in BOOLEAN
    /\ MaxSeq \in Nat

VARIABLES
    plugged,                  \* the camera is there
    client,                   \* uvc_start_streaming_bandwidth, uvc_stop_streaming
    running,                  \* strmh->running
    transfer,                 \* what became of each transfer
    event,                    \* libusb's event thread in _uvc_stream_callback
    user,                     \* the thread in _uvc_user_caller
    seq, hold_seq, last_seq,  \* frame numbers: next, held, last one taken
    asleep                    \* threads asleep on cb_cond

seqs == <<seq, hold_seq, last_seq>>
vars == <<plugged, client, running, transfer, event, user, seqs, asleep>>

\* "skip" is uvc_stream_close without uvc_stream_stop, "free" after it.
ClientPc == {"closed", "submit", "streaming", "cancel", "drain", "join",
             "free", "skip"}
EventPc == {"idle", "payload", "check", "submit", "delete"}
UserPc  == {"check", "asleep", "call", "calling", "ended"}
\* Allocated but never submitted, submitted, cancelled while submitted, in
\* its callback, abandoned by a failed submission, deleted.
TransferStates == {"ready", "flight", "cancelled", "callback", "stuck", "null"}

InFlight(t) == transfer[t] \in {"flight", "cancelled"}
AllDeleted  == \A t \in Transfers : transfer[t] = "null"

\* Somebody still uses the stream handle.
InUse == user # "ended" \/ event # "idle" \/ \E t \in Transfers : InFlight(t)

Move(t, s) == transfer' = [transfer EXCEPT ![t] = s]

Init ==
    /\ plugged = TRUE /\ client = "closed" /\ running = FALSE
    /\ transfer = [t \in Transfers |-> "null"]
    /\ event = "idle" /\ user = "ended" /\ asleep = {}
    /\ seq = 0 /\ hold_seq = 0 /\ last_seq = 0

(***************************************************************************)
(* The client.                                                             *)
(***************************************************************************)
\* uvc_stream_open_ctrl and the first part of uvc_stream_start_bandwidth: a
\* failure there frees a handle nobody else has seen.  When a stream was
\* freed while in use, nothing can be said of what follows.
StartStreaming ==
    /\ client = "closed" /\ plugged /\ ~InUse
    /\ client' = "submit"
    /\ running' = TRUE
    /\ transfer' = [t \in Transfers |-> "ready"]
    /\ user' \in {"check", "ended"}    \* pthread_create may fail unnoticed
    /\ seq' = 0 /\ hold_seq' = 0 /\ last_seq' = 0 /\ asleep' = {}
    /\ UNCHANGED <<plugged, event>>

\* libusb_submit_transfer, by whichever thread calls it.
Submitted == plugged
NotSubmitted == ~plugged \/ SubmitFails

\* One submission of the loop; a failure ends it with running cleared, and
\* uvc_start_streaming_bandwidth closes the stream.
Submit(t) ==
    /\ client = "submit"
    /\ transfer[t] = "ready"
    /\ \/ /\ Submitted
          /\ Move(t, "flight")
          /\ client' = IF \E u \in Transfers \ {t} : transfer[u] = "ready"
                       THEN "submit" ELSE "streaming"
          /\ UNCHANGED running
       \/ /\ NotSubmitted
          /\ running' = FALSE
          /\ client' = "skip"
          /\ UNCHANGED transfer
    /\ UNCHANGED <<plugged, event, user, seqs, asleep>>

\* uvc_stop_streaming: uvc_stream_close stops a stream only if it is running.
StopStreaming ==
    /\ client = "streaming"
    /\ running' = FALSE
    /\ client' = IF running THEN "cancel" ELSE "skip"
    /\ UNCHANGED <<plugged, transfer, event, user, seqs, asleep>>

\* Slip: the client does not wait for the transfers.
WaitDeletedNot(deleted) == asleep' = {} /\ client' = "join"

\* Either every transfer is gone and the sleepers are woken, or the client
\* sleeps until one of them goes.
WaitDeleted(deleted) ==
    IF deleted THEN asleep' = {} /\ client' = "join"
               ELSE asleep' = asleep \cup {"client"} /\ client' = "drain"

Cancel ==
    /\ client = "cancel"
    /\ transfer' = [t \in Transfers |->
                      IF transfer[t] = "flight" THEN "cancelled" ELSE transfer[t]]
    /\ WaitDeleted(AllDeleted)
    /\ UNCHANGED <<plugged, running, event, user, seqs>>

Drain ==
    /\ client = "drain" /\ "client" \notin asleep
    /\ WaitDeleted(AllDeleted)
    /\ UNCHANGED <<plugged, running, transfer, event, user, seqs>>

\* Slip: the thread that calls the user is not joined.
JoinNot ==
    /\ client = "join"
    /\ client' = "free"
    /\ UNCHANGED <<plugged, running, transfer, event, user, seqs, asleep>>

Join ==
    /\ client = "join"
    /\ user = "ended"
    /\ client' = "free"
    /\ UNCHANGED <<plugged, running, transfer, event, user, seqs, asleep>>

\* The handle and its buffers are freed.
Close ==
    /\ client \in {"free", "skip"}
    /\ client' = "closed"
    /\ UNCHANGED <<plugged, running, transfer, event, user, seqs, asleep>>

(***************************************************************************)
(* libusb's event thread: _uvc_stream_callback, one transfer at a time.    *)
(***************************************************************************)
\* The steps of the two other threads end with the handle they work on.
Open == client # "closed"

\* libusb reports a transfer as completed; as timed out, stalled or overflown;
\* as cancelled or failed; as gone with the device.
Complete(t) ==
    /\ Open /\ event = "idle" /\ InFlight(t)
    /\ Move(t, "callback")
    /\ \/ plugged /\ event' \in {"payload", "check"} /\ UNCHANGED running
       \/ event' = "delete" /\ UNCHANGED running
       \/ ~plugged /\ event' = "delete" /\ running' = FALSE
    /\ UNCHANGED <<plugged, client, user, seqs, asleep>>

\* Slip: the frame is numbered with the one before.
PayloadOld ==
    /\ Open /\ event = "payload"
    /\ \/ /\ seq < MaxSeq
          /\ hold_seq' = seq - 1 /\ seq' = seq + 1
          /\ asleep' = {}
          /\ UNCHANGED <<event, last_seq>>
       \/ event' = "check" /\ UNCHANGED <<seqs, asleep>>
    /\ UNCHANGED <<plugged, client, running, transfer, user>>

\* The payload ends any number of frames; _uvc_swap_buffers announces each.
Payload ==
    /\ Open /\ event = "payload"
    /\ \/ /\ seq < MaxSeq
          /\ hold_seq' = seq /\ seq' = seq + 1
          /\ asleep' = {}
          /\ UNCHANGED <<event, last_seq>>
       \/ event' = "check" /\ UNCHANGED <<seqs, asleep>>
    /\ UNCHANGED <<plugged, client, running, transfer, user>>

\* Slip: a transfer is resubmitted although the stream was stopped.
CheckRunningNot ==
    /\ Open /\ event = "check"
    /\ event' = "submit"
    /\ UNCHANGED <<plugged, client, running, transfer, user, seqs, asleep>>

CheckRunning ==
    /\ Open /\ event = "check"
    /\ event' = IF running THEN "submit" ELSE "delete"
    /\ UNCHANGED <<plugged, client, running, transfer, user, seqs, asleep>>

\* The result of libusb_submit_transfer is not looked at.
Resubmit(t) ==
    /\ Open /\ event = "submit" /\ transfer[t] = "callback"
    /\ \/ Submitted /\ Move(t, "flight")
       \/ NotSubmitted /\ Move(t, "stuck")
    /\ event' = "idle"
    /\ UNCHANGED <<plugged, client, running, user, seqs, asleep>>

\* Slip: nobody is told that the transfer is gone.
DeleteSilent(t) ==
    /\ Open /\ event = "delete" /\ transfer[t] = "callback"
    /\ Move(t, "null")
    /\ event' = "idle"
    /\ UNCHANGED <<plugged, client, running, user, seqs, asleep>>

\* _uvc_delete_transfer
Delete(t) ==
    /\ Open /\ event = "delete" /\ transfer[t] = "callback"
    /\ Move(t, "null")
    /\ asleep' = {}
    /\ event' = "idle"
    /\ UNCHANGED <<plugged, client, running, user, seqs>>

(***************************************************************************)
(* The thread in _uvc_user_caller.                                         *)
(***************************************************************************)
UserOnly == <<plugged, client, running, transfer, event, seq, hold_seq>>

\* Under cb_mutex: sleep, end, or take the held frame, which is offered to
\* the callback if its error flag is clear.
TakeFrame ==
    /\ Open /\ user \in {"check", "asleep"} /\ "user" \notin asleep
    /\ IF ~running THEN user' = "ended" /\ UNCHANGED <<last_seq, asleep>>
       ELSE IF last_seq = hold_seq
       THEN user' = "asleep" /\ asleep' = asleep \cup {"user"}
              /\ UNCHANGED last_seq
       ELSE user' \in {"call", "check"} /\ last_seq' = hold_seq
              /\ UNCHANGED asleep
    /\ UNCHANGED UserOnly

CallUser ==
    /\ Open
    /\ \/ user = "call" /\ user' = "calling"
       \/ user = "calling" /\ user' = "check"
    /\ UNCHANGED <<last_seq, asleep, UserOnly>>

\* The cable is pulled.
Unplugged ==
    /\ Unplug /\ plugged /\ Open
    /\ plugged' = FALSE
    /\ UNCHANGED <<client, running, transfer, event, user, seqs, asleep>>

-----------------------------------------------------------------------------
ClientStep ==
    (\E t \in Transfers : Submit(t)) \/ Cancel \/ Drain \/ Join \/ Close
EventStep ==
    \/ Payload \/ CheckRunning
    \/ \E t \in Transfers : Complete(t) \/ Resubmit(t) \/ Delete(t)
UserStep == TakeFrame \/ CallUser

Next == StartStreaming \/ StopStreaming \/ ClientStep \/ EventStep \/ UserStep
          \/ Unplugged

\* The threads run when they can, and libusb reports every transfer that was
\* submitted (with data, a timeout, or its cancellation): either the camera
\* lets the transfer finish or the kernel discards it, see TransferKept.
Spec == Init /\ [][Next]_vars
Fairness == WF_vars(ClientStep) /\ WF_vars(EventStep) /\ WF_vars(UserStep)
FairSpec == Spec /\ Fairness

-----------------------------------------------------------------------------
(***************************************************************************)
(* Properties.                                                             *)
(***************************************************************************)
TypeOK ==
    /\ plugged \in BOOLEAN /\ running \in BOOLEAN
    /\ client \in ClientPc /\ event \in EventPc /\ user \in UserPc
    /\ transfer \in [Transfers -> TransferStates]
    /\ seq \in Nat /\ hold_seq \in Nat /\ last_seq \in Nat
    /\ asleep \subseteq {"client", "user"}

\* When uvc_stream_stop returns, nobody is left that uses the handle, even if
\* the camera went away or submissions failed meanwhile: no transfer can be
\* completed later, the event thread is out of the callback, and the thread
\* that calls the user has ended.
StoppedQuiet == client = "free" => ~InUse

\* "Closes all streams, ends threads and cancels pollers": when the stream
\* is closed nobody uses the handle any more.
ClosedQuiet == client = "closed" => ~InUse

\* A thread asleep on cb_cond is never forgotten: the caller of the callback
\* is still to be woken when the stream ends, and the client, while it waits
\* for a transfer to be deleted.
NotForgotten ==
    /\ "user" \in asleep /\ ~running
         => client \in {"cancel", "drain", "skip", "closed"} \/ event = "delete"
    /\ "client" \in asleep => ~AllDeleted

\* The inductive invariant behind these, faults or not: the event thread works
\* on a transfer; past the wait there is none left.
StopInv ==
    /\ event # "idle" => \E t \in Transfers : transfer[t] = "callback"
    /\ client \in {"join", "free"} => AllDeleted
    /\ client = "free" => user = "ended"
IInv == TypeOK /\ StopInv /\ NotForgotten

\* What holds in addition as long as nothing fails: running is down only when
\* the client took it down, so no stream is closed without being stopped.
FaultlessInv ==
    /\ plugged /\ client # "skip"
    /\ client \in {"submit", "streaming"} => running
    /\ ClosedQuiet

\* uvc_stop_streaming returns, unless a transfer could not be resubmitted:
\* nobody deletes that one, and uvc_stream_stop waits for it.
StopReturns ==
    client \in {"cancel", "skip"}
      ~> client = "closed" \/ \E t \in Transfers : transfer[t] = "stuck"

\* The stream keeps the contract that its user relies on: after uvc_stream_stop
\* returned no callback runs or begins.  The exception is the close of a stream
\* that is not stopped first, because running is clear already: it does not
\* wait for the callback.
Phase == IF client = "closed" THEN "stopped"
         ELSE IF client \in {"submit", "streaming"} THEN "streaming"
         ELSE "stopping"
Contract == INSTANCE StreamContract WITH
    phase <- Phase, calling <- (user = "calling")
CloseUnstopped == client = "skip" /\ client' = "closed"
ContractKept ==
    Contract!Init /\ [][Contract!Next \/ CloseUnstopped]_<<Phase, user = "calling">>
=============================================================================
