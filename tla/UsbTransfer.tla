----------------------------- MODULE UsbTransfer -----------------------------
(***************************************************************************)
(* One libusb transfer and the URBs that it becomes in the kernel:         *)
(* submission in several URBs, any of which may fail, cancellation by any  *)
(* thread, a timeout, the reaping of the URBs by the thread that handles   *)
(* events, the callback, which may submit the transfer again, and the      *)
(* disconnection of the device (android_usbfs.c and io.c).                 *)
(*                                                                         *)
(* The lock of the transfer is held over a submission, a cancellation and  *)
(* the handling of one URB.  The last two are one step here; a submission  *)
(* is one step per URB, since the kernel may finish the first URBs before  *)
(* the last is submitted.                                                  *)
(***************************************************************************)
EXTENDS Naturals, FiniteSets

CONSTANTS Types,        \* of the transfer: bulk, interrupt, iso, control
          NumUrbs,      \* bound: URBs of a transfer that is not control
          MaxSubmits,   \* bound: submissions of the transfer
          MaxCancels    \* bound: cancellations, the timeouts included

ASSUME TransferAssumption ==
    /\ Types \subseteq {"bulk", "interrupt", "iso", "control"}
    /\ NumUrbs \in Nat \ {0} /\ MaxSubmits \in Nat /\ MaxCancels \in Nat

VARIABLES
    type, continuation,   \* of the transfer; USBFS_CAP_BULK_CONTINUATION
    submitter, next,      \* what the submission does; the URB it submits next
    urbs,                 \* tpriv->urbs # NULL
    urb,                  \* each URB in the kernel: none, queued, or its status
    turn,                 \* its place among those to reap, 0 if it is not finished
    num_urbs, num_retired, reap_action, reap_status,
    flying, timed_out,    \* in flying_transfers; USBI_TRANSFER_TIMED_OUT
    reaper, status,       \* what the thread that handles events does
    gone,                 \* the device was unplugged
    submits, cancels,
    asked,                \* history: cancelled or timed out since submission
    kept,                 \* history: URBs the kernel did not discard when asked
    got,                  \* history: status of the URBs reaped since submission
    halted,               \* history: a stall left URBs to be discarded
    masked                \* history: a URB failed before the last was submitted

tpriv == <<urbs, num_urbs, num_retired, reap_action, reap_status>>
kernel == <<urb, turn>>
history == <<asked, kept, got, halted, masked>>
what == <<type, continuation>>
vars == <<what, submitter, next, tpriv, kernel, flying, timed_out, reaper,
          status, gone, submits, cancels, history>>

Urbs == 1..NumUrbs
None == [i \in Urbs |-> "none"]

Init ==
    /\ type \in Types /\ continuation \in BOOLEAN
    /\ (continuation => type = "bulk")
    /\ submitter = "idle" /\ next = 1
    /\ urbs = FALSE /\ urb = None /\ turn = [i \in Urbs |-> 0]
    /\ num_urbs = 0 /\ num_retired = 0
    /\ reap_action = "NORMAL" /\ reap_status = "completed"
    /\ flying = FALSE /\ timed_out = FALSE
    /\ reaper = "idle" /\ status = "none"
    /\ gone = FALSE /\ submits = 0 /\ cancels = 0
    /\ asked = FALSE /\ kept = {} /\ got = None /\ halted = FALSE /\ masked = FALSE

Unlocked == submitter = "idle"

\* URBs are reaped in the order in which they finished.
Waiting == {i \in Urbs : turn[i] > 0}
Queued == {i \in Urbs : urb[i] = "queued"}
Ascending(S)  == [i \in S |-> Cardinality({j \in S : j <= i})]
Descending(S) == [i \in S |-> Cardinality({j \in S : j >= i})]
Finish(places) ==
    turn' = [i \in Urbs |-> IF i \in DOMAIN places
                            THEN Cardinality(Waiting) + places[i] ELSE turn[i]]

\* DISCARDURB, last URB first: the kernel gives up some of those that it has
\* not finished.  The call "may always fail on non-rooted Android devices"; the
\* URB is then taken to be finished, but stays with the kernel.
Discardable(first, last) == SUBSET (Queued \cap first..last)
Discard(killed) ==
    /\ urb' = [i \in Urbs |-> IF i \in killed THEN "killed" ELSE urb[i]]
    /\ Finish(Descending(killed))

(***************************************************************************)
(* libusb_submit_transfer, by the owner or by the callback.                *)
(***************************************************************************)
\* A transfer whose URBs are still there is refused as busy.  What follows
\* URBs that were freed while the kernel had them is left out.
Submit ==
    /\ Unlocked /\ ~urbs /\ ~flying /\ ~gone /\ urb = None
    /\ \/ reaper = "idle" /\ reaper' = "idle"
       \/ reaper = "callback" /\ reaper' = "resubmitted"
    /\ submits < MaxSubmits /\ submits' = submits + 1
    /\ timed_out' = FALSE /\ flying' = TRUE
    /\ urbs' = TRUE /\ num_retired' = 0 /\ reap_action' = "NORMAL"
    /\ num_urbs' = IF type = "control" THEN 1 ELSE NumUrbs
    /\ reap_status' = "completed"
    /\ submitter' = "submitting" /\ next' = 1
    /\ asked' = FALSE /\ kept' = {} /\ got' = None /\ masked' = FALSE
    /\ UNCHANGED <<what, kernel, status, gone, cancels, halted>>

\* With bulk continuation, the kernel refuses what follows a URB that was
\* short or failed.
Failed == {i \in Urbs : urb[i] \in {"short", "stall", "error"}}
Refused == continuation /\ Failed # {}

SubmitUrb ==
    /\ submitter = "submitting" /\ next <= num_urbs /\ ~gone /\ ~Refused
    /\ urb' = [urb EXCEPT ![next] = "queued"]
    /\ next' = next + 1
    /\ UNCHANGED <<what, submitter, tpriv, turn, flying, timed_out, reaper,
                   status, gone, submits, cancels, history>>
Submitted ==
    /\ submitter = "submitting" /\ next > num_urbs
    /\ submitter' = "idle"
    /\ UNCHANGED <<what, next, tpriv, kernel, flying, timed_out, reaper, status,
                   gone, submits, cancels, history>>

\* The first URB failed: nothing was submitted.
SubmitFirstFails ==
    /\ submitter = "submitting" /\ next = 1
    /\ urbs' = FALSE /\ flying' = FALSE
    /\ submitter' = "idle"
    /\ UNCHANGED <<what, next, num_urbs, num_retired, reap_action, reap_status,
                   kernel, timed_out, reaper, status, gone, submits, cancels,
                   history>>

\* Slip: the URBs that were not submitted are waited for.
NotSubmittedNone == 0
\* Slip: one of those submitted is counted with them.
NotSubmittedOver == num_urbs - next + 2

NotSubmitted == num_urbs - next + 1

\* A later one failed: those not submitted count as retired, and the others
\* are discarded, unless the kernel refused it (EREMOTEIO): the transfer then
\* "didn't need all the URBs".
SubmitFails ==
    /\ submitter = "submitting" /\ next \in 2..num_urbs
    /\ num_retired' = num_retired + NotSubmitted
    /\ \/ /\ Refused
          /\ reap_action' = "COMPLETED_EARLY"
          /\ masked' = \E i \in Failed : urb[i] # "short"
          /\ UNCHANGED kernel
       \/ /\ ~Refused
          /\ reap_action' = "SUBMIT_FAILED"
          /\ \E killed \in Discardable(1, next - 1) : Discard(killed)
          /\ UNCHANGED masked
    /\ submitter' = "idle"
    /\ UNCHANGED <<what, next, urbs, num_urbs, reap_status, flying, timed_out,
                   reaper, status, gone, submits, cancels, asked, kept, got, halted>>

(***************************************************************************)
(* libusb_cancel_transfer, by any thread, and handle_timeout.              *)
(***************************************************************************)
OpCancel ==
    /\ Unlocked
    /\ cancels < MaxCancels /\ cancels' = cancels + 1
    /\ reap_action' = IF type = "bulk" /\ reap_action = "ERROR" THEN "ERROR" ELSE "CANCELLED"
    /\ \/ /\ urbs
          /\ \E killed \in Discardable(1, num_urbs) :
                Discard(killed) /\ kept' = Queued \ killed
       \/ ~urbs /\ kept' = {} /\ UNCHANGED kernel
    /\ asked' = TRUE

Cancel ==
    /\ submits > 0
    /\ OpCancel
    /\ UNCHANGED <<what, submitter, next, urbs, num_urbs, num_retired,
                   reap_status, flying, timed_out, reaper, status, gone,
                   submits, got, halted, masked>>

\* Only a transfer in the list of those in flight is cancelled, and once.
Timeout ==
    /\ flying /\ ~timed_out
    /\ timed_out' = TRUE
    /\ OpCancel
    /\ UNCHANGED <<what, submitter, next, urbs, num_urbs, num_retired,
                   reap_status, flying, reaper, status, gone, submits, got,
                   halted, masked>>

(***************************************************************************)
(* The kernel.                                                             *)
(***************************************************************************)
Results == [bulk |-> {"ok", "short", "stall", "error"},
            interrupt |-> {"ok", "short", "stall", "error"},
            iso |-> {"ok", "error"}, control |-> {"ok", "stall", "error"}]

\* The URBs of an endpoint finish in order.  Only the last one of a transfer
\* can overflow.  A halted endpoint finishes nothing more.  With bulk
\* continuation, the rest of a transfer that was short or failed is cancelled.
KernelFinishes(i) ==
    /\ ~gone /\ urb[i] = "queued"
    /\ \A j \in 1..(i - 1) : urb[j] \notin {"queued", "stall"}
    /\ \E r \in Results[type] \cup (IF i = num_urbs THEN {"overflow"} ELSE {}) :
         LET rest == {j \in Queued : continuation /\ r # "ok" /\ j > i}
         IN  /\ urb' = [j \in Urbs |-> IF j = i THEN r
                                       ELSE IF j \in rest THEN "killed" ELSE urb[j]]
             /\ Finish(Ascending({i} \cup rest))
    /\ UNCHANGED <<what, submitter, next, tpriv, flying, timed_out, reaper,
                   status, gone, submits, cancels, history>>

Unplug ==
    /\ ~gone
    /\ gone' = TRUE
    /\ urb' = [i \in Urbs |-> IF i \in Queued THEN "nodev" ELSE urb[i]]
    /\ Finish(Ascending(Queued))
    /\ UNCHANGED <<what, submitter, next, tpriv, flying, timed_out, reaper,
                   status, submits, cancels, history>>

(***************************************************************************)
(* reap_for_handle, with the handling of one URB under the lock.           *)
(***************************************************************************)
Retire(i) ==
    /\ Unlocked /\ reaper = "idle" /\ turn[i] = 1
    /\ urbs
    /\ num_retired' = IF type = "control" THEN num_retired ELSE num_retired + 1
    /\ got' = [got EXCEPT ![i] = urb[i]]

\* URB i leaves the kernel, and the others move up.
Up(j) == IF turn[j] > 0 THEN turn[j] - 1 ELSE 0
Reaped(i) == urb' = [urb EXCEPT ![i] = "none"] /\ turn' = [j \in Urbs |-> Up(j)]

Complete(where, s) == urbs' = FALSE /\ reaper' = where /\ status' = s
GoOn == UNCHANGED <<urbs, reaper, status>>

\* handle_bulk_completion is for interrupt transfers too.
SplitType == type \in {"bulk", "interrupt"}

\* Some URB was cancelled, failed to be submitted or was the short one: the
\* last one to be reaped reports.
AllRetired == num_retired + 1 = num_urbs

\* Slip: the first URB of an abnormal end reports.
ReapBulkAbnormalFirst(i) ==
    /\ SplitType /\ reap_action # "NORMAL"
    /\ Retire(i) /\ Reaped(i)
    /\ reap_status' = IF reap_action # "COMPLETED_EARLY" /\ reap_status = "completed"
                      THEN "error" ELSE reap_status
    /\ Complete("decide", reap_status')
    /\ UNCHANGED <<what, submitter, next, num_urbs, reap_action, flying,
                   timed_out, gone, submits, cancels, asked, kept, halted, masked>>

\* Slip: what was transferred before a failed submission is a success.
ReapBulkAbnormalFine(i) ==
    /\ SplitType /\ reap_action # "NORMAL"
    /\ Retire(i) /\ Reaped(i)
    /\ IF AllRetired THEN Complete("decide", reap_status) ELSE GoOn
    /\ UNCHANGED <<what, submitter, next, num_urbs, reap_action, reap_status,
                   flying, timed_out, gone, submits, cancels, asked, kept, halted, masked>>

ReapBulkAbnormal(i) ==
    /\ SplitType /\ reap_action # "NORMAL"
    /\ Retire(i) /\ Reaped(i)
    /\ IF AllRetired
       THEN /\ reap_status' =
                 IF reap_action # "COMPLETED_EARLY" /\ reap_status = "completed"
                 THEN "error" ELSE reap_status
            /\ Complete("decide", reap_status')
       ELSE GoOn /\ UNCHANGED reap_status
    /\ UNCHANGED <<what, submitter, next, num_urbs, reap_action, flying,
                   timed_out, gone, submits, cancels, asked, kept, halted, masked>>

\* What a URB reaped in the normal way makes of the transfer.
First(s) == IF reap_status = "completed" THEN s ELSE reap_status
StatusAfter(r) == CASE r = "nodev" -> "no_device"
                    [] r = "stall" -> First("stall")
                    [] r = "overflow" -> First("overflow")
                    [] r = "error" -> First("error")
                    [] OTHER -> reap_status
ActionAfter(i, r) == CASE r = "error" -> "ERROR"
                       [] r \in {"short", "killed"} /\ i # num_urbs -> "COMPLETED_EARLY"
                       [] OTHER -> "NORMAL"

\* Reported at once, by its last URB or by an overflow; otherwise, after an
\* error, when nothing is left to cancel.
Ends(i, r) == \/ r = "overflow"
              \/ r \in {"ok", "short", "killed"} /\ i = num_urbs
              \/ r # "ok" /\ AllRetired

ReapBulk(i) ==
    /\ SplitType /\ reap_action = "NORMAL"
    /\ Retire(i)
    /\ reap_status' = StatusAfter(urb[i])
    /\ reap_action' = ActionAfter(i, urb[i])
    /\ IF Ends(i, urb[i])
       THEN Reaped(i) /\ Complete("decide", reap_status') /\ UNCHANGED halted
       ELSE IF urb[i] = "ok"
       THEN Reaped(i) /\ GoOn /\ UNCHANGED halted
       ELSE /\ \E killed \in Discardable(i + 1, num_urbs) :
                   /\ urb' = [j \in Urbs |-> IF j = i THEN "none"
                                 ELSE IF j \in killed THEN "killed" ELSE urb[j]]
                   /\ turn' = [j \in Urbs |-> IF j \in killed
                                 THEN Cardinality(Waiting) - 1 + Descending(killed)[j]
                                 ELSE Up(j)]
            /\ halted' = (halted \/ (urb[i] = "stall" /\ ~continuation))
            /\ GoOn
    /\ UNCHANGED <<what, submitter, next, num_urbs, flying, timed_out, gone,
                   submits, cancels, asked, kept, masked>>

\* The lock is free when handle_bulk_completion looks at reap_action again.
Decide ==
    /\ reaper = "decide"
    /\ reaper' = IF reap_action = "CANCELLED" THEN "cancelled" ELSE "report"
    /\ UNCHANGED <<what, submitter, next, tpriv, kernel, flying, timed_out,
                   status, gone, submits, cancels, history>>

ReapIso(i) ==
    /\ type = "iso"
    /\ Retire(i) /\ Reaped(i)
    /\ CASE reap_action # "NORMAL" /\ AllRetired ->
              Complete(IF reap_action = "CANCELLED" THEN "cancelled" ELSE "report", "error")
         [] reap_action = "NORMAL" /\ i = num_urbs ->
              Complete("report", CASE urb[i] \in {"ok", "killed"} -> "completed"
                                   [] urb[i] = "nodev" -> "no_device"
                                   [] OTHER -> "error")
         [] OTHER -> GoOn
    /\ UNCHANGED <<what, submitter, next, num_urbs, reap_action, reap_status,
                   flying, timed_out, gone, submits, cancels, asked, kept, halted, masked>>

ReapControl(i) ==
    /\ type = "control"
    /\ Retire(i) /\ Reaped(i)
    /\ IF reap_action = "CANCELLED"
       THEN Complete("cancelled", status)
       ELSE Complete("report", CASE urb[i] = "ok" -> "completed"
                                 [] urb[i] = "killed" -> "cancelled"
                                 [] urb[i] = "nodev" -> "no_device"
                                 [] OTHER -> urb[i])
    /\ UNCHANGED <<what, submitter, next, num_urbs, reap_action, reap_status,
                   flying, timed_out, gone, submits, cancels, asked, kept, halted, masked>>

\* usbi_handle_transfer_cancellation.
Cancellation ==
    /\ reaper = "cancelled"
    /\ status' = IF timed_out THEN "timed_out" ELSE "cancelled"
    /\ reaper' = "report"
    /\ UNCHANGED <<what, submitter, next, tpriv, kernel, flying, timed_out, gone,
                   submits, cancels, history>>

\* usbi_handle_transfer_completion, up to the callback.
Report ==
    /\ reaper = "report"
    /\ flying' = FALSE
    /\ reaper' = "callback"
    /\ UNCHANGED <<what, submitter, next, tpriv, kernel, timed_out, status, gone,
                   submits, cancels, history>>

CallbackReturns ==
    /\ reaper \in {"callback", "resubmitted"} /\ Unlocked
    /\ reaper' = "idle" /\ status' = "none"
    /\ UNCHANGED <<what, submitter, next, tpriv, kernel, flying, timed_out, gone,
                   submits, cancels, history>>

\* The poll reports an error: usbi_handle_disconnect frees the URBs, none of
\* which will be reaped, and completes the transfer.
Disconnect ==
    /\ gone /\ Unlocked /\ reaper = "idle" /\ flying
    /\ urb' = None /\ turn' = [i \in Urbs |-> 0]
    /\ Complete("report", "no_device")
    /\ UNCHANGED <<what, submitter, next, num_urbs, num_retired, reap_action,
                   reap_status, flying, timed_out, gone, submits, cancels, history>>

Submitting == SubmitUrb \/ Submitted \/ SubmitFirstFails \/ SubmitFails
Reap == \E i \in Urbs : ReapBulkAbnormal(i) \/ ReapBulk(i) \/ ReapIso(i) \/ ReapControl(i)
Reaping == Reap \/ Decide \/ Cancellation \/ Report \/ CallbackReturns
Kernel == \E i \in Urbs : KernelFinishes(i)

Next == Submit \/ Submitting \/ Cancel \/ Timeout \/ Kernel \/ Unplug
        \/ Reaping \/ Disconnect

Spec == Init /\ [][Next]_vars

\* The threads go on, and an unplugged device is noticed.  The camera need not
\* send anything: the kernel may keep a URB for ever.
FairSpec == Spec /\ WF_vars(Submitting) /\ WF_vars(Reaping) /\ WF_vars(Disconnect)

-----------------------------------------------------------------------------
Statuses == {"none", "completed", "error", "stall", "overflow", "no_device",
             "cancelled", "timed_out"}
UrbStatuses == {"none", "queued", "killed", "nodev", "ok", "short", "stall",
                "error", "overflow"}

TypeOK ==
    /\ type \in Types
    /\ submitter \in {"idle", "submitting"} /\ next \in 1..(NumUrbs + 1)
    /\ urbs \in BOOLEAN
    /\ urb \in [Urbs -> UrbStatuses] /\ got \in [Urbs -> UrbStatuses]
    /\ turn \in [Urbs -> 0..NumUrbs]
    /\ num_urbs \in 0..NumUrbs /\ num_retired \in 0..num_urbs
    /\ reap_action \in {"NORMAL", "SUBMIT_FAILED", "CANCELLED", "COMPLETED_EARLY",
                        "ERROR"}
    /\ reap_status \in Statuses /\ status \in Statuses
    /\ {continuation, flying, timed_out, gone, asked, halted, masked} \subseteq BOOLEAN
    /\ kept \subseteq Urbs
    /\ reaper \in {"idle", "decide", "cancelled", "report", "callback",
                   "resubmitted"}
    /\ submits \in 0..MaxSubmits /\ cancels \in 0..MaxCancels

Called == reaper = "callback"

\* "cancel remaining urbs and wait for their completion before reporting
\* results" (android_usbfs.c:2702): when the URBs of a transfer are freed and
\* its callback is called, the kernel has none of them any more, whatever
\* failed, was cancelled or timed out on the way.  The exception is a bulk
\* transfer of several URBs, one of which found the endpoint halted, on a
\* kernel that does not itself cancel the rest in order: the rest is discarded
\* from the end, the last URB is then reaped first, and ends the transfer.
ReapedUnlessHalted == ~urbs /\ ~halted => urb = None

\* The status that the callback gets tells what happened: a transfer is
\* complete only if all its data came, up to the URB that was short, cancelled
\* or timed out only if that was asked for, and without a device only if the
\* device is gone.  The exception is a URB that failed before the last one was
\* submitted: the kernel's refusal passes for a short transfer.
UpToShort == \E n \in 1..num_urbs :
    /\ \A i \in 1..(n - 1) : got[i] = "ok"
    /\ got[n] \in {"ok", "short"} /\ (n = num_urbs \/ got[n] = "short")
StatusTruth == Called =>
    /\ status = "completed" /\ type # "iso" /\ ~masked => UpToShort
    /\ status \in {"cancelled", "timed_out"} => asked
    /\ status = "timed_out" => timed_out
    /\ status = "no_device" => gone

\* The callback is called once for each submission that succeeded, and never
\* for one that failed; and a transfer that is cancelled, whose time is out, or
\* whose device is gone, is reported, whatever the device does.  The exception
\* is a URB that the kernel would not discard: op_cancel_transfer does nothing
\* more about it, and the transfer waits until the camera lets it finish.
Contract == INSTANCE TransferContract WITH
    owned <- flying /\ Unlocked, calling <- reaper \in {"callback", "resubmitted"},
    ending <- gone \/ (asked /\ kept \cap Queued = {})
TransferKept == Contract!Spec
=============================================================================
