--------------------------- MODULE StreamContract ---------------------------
(***************************************************************************)
(* What uvc_start_streaming_bandwidth and uvc_stop_streaming promise to    *)
(* their caller: frames arrive one at a time, from the start until the     *)
(* stop returns, and none afterwards.  UvcPreview relies on it, UvcStream  *)
(* provides it.                                                            *)
(***************************************************************************)
VARIABLES phase,    \* between the start and the return of the stop
          calling   \* TRUE: the frame callback is running

Init == phase = "stopped" /\ calling = FALSE

Start   == phase = "stopped" /\ phase' = "streaming" /\ UNCHANGED calling
Stop    == phase = "streaming" /\ phase' = "stopping" /\ UNCHANGED calling
Stopped == phase = "stopping" /\ ~calling /\ phase' = "stopped"
             /\ UNCHANGED calling

\* The thread that makes the calls may begin one more after the stop began.
BeginCall == phase # "stopped" /\ ~calling /\ calling' = TRUE
               /\ UNCHANGED phase
EndCall   == calling /\ calling' = FALSE /\ UNCHANGED phase

Next == Start \/ Stop \/ Stopped \/ BeginCall \/ EndCall
Spec == Init /\ [][Next]_<<phase, calling>>
=============================================================================
