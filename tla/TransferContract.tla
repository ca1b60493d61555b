-------------------------- MODULE TransferContract --------------------------
(***************************************************************************)
(* What libusb promises about a transfer to who submits it: one call of    *)
(* the callback for each submission that succeeded, none for one that did  *)
(* not, one at a time, and an end to a transfer that has a reason to end.  *)
(* The callback may submit the transfer again.  UsbTransfer provides it,   *)
(* and UvcStream's picture of its transfers keeps to it.                   *)
(***************************************************************************)
VARIABLES owned,     \* libusb has the transfer
          calling,   \* TRUE: its callback is running
          ending     \* it was cancelled, timed out, or lost its device

Init == ~owned /\ ~calling

Submit == ~owned /\ owned' /\ UNCHANGED calling
Report == owned /\ ~calling /\ ~owned' /\ calling'

\* The return from the callback, which may have been its submission too.
Return == calling /\ ~calling' /\ (owned => owned')

Next == Submit \/ Report \/ Return

\* A transfer stays with libusb for ever only without a reason to end.
Ends == owned /\ ending ~> ~owned

Spec == Init /\ [][Next]_<<owned, calling>> /\ Ends
=============================================================================
