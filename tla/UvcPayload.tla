----------------------------- MODULE UvcPayload -----------------------------
(***************************************************************************)
(* How frames are put together and handed over, stream.c: packets of the   *)
(* camera's frames are appended to outbuf, a frame that ends is swapped    *)
(* into holdbuf under cb_mutex, and the thread in _uvc_user_caller copies  *)
(* the held frame and calls the user.  The stream runs all the time: its   *)
(* start and stop are the subject of UvcStream.                            *)
(*                                                                         *)
(* A buffer is the set of packets whose data it holds, a packet a pair of  *)
(* the camera's frame and a position in it.  The camera flips the frame id *)
(* from frame to frame and marks the last packet.  A packet that is lost   *)
(* or damaged sets the error flag of the frame in the making, or is passed *)
(* over and leaves no trace.                                               *)
(***************************************************************************)
EXTENDS Integers

CONSTANTS Packets,       \* packets of a frame
          MaxFrames      \* bound: frames sent by the camera

ASSUME PayloadAssumption == Packets \in Nat \ {0} /\ MaxFrames \in Nat

VARIABLES
    isochronous,                   \* the interface has several altsettings
    camera, event,                 \* the packet at hand, what is done with it
    gap,                           \* history: packets passed over in a row
    unread,                        \* history: data came without a frame id
    fid, outbuf, bfh_err, seq,     \* the frame in the making
    holdbuf, hold_bfh_err, hold_seq,
    user, last_seq, frame          \* the calling thread and its copy

assembly == <<fid, outbuf, bfh_err, seq>>
held     == <<holdbuf, hold_bfh_err, hold_seq>>
caller   == <<user, last_seq, frame>>
source   == <<isochronous, camera, event>>
history  == <<gap, unread>>
vars     == <<source, history, assembly, held, caller>>

FrameIds  == 1 .. MaxFrames
Positions == 1 .. Packets

Init ==
    /\ isochronous \in BOOLEAN
    /\ camera = <<1, 1>> /\ event = "header"
    /\ gap = 0 /\ unread = FALSE
    /\ fid = 0 /\ outbuf = {} /\ bfh_err = FALSE /\ seq = 0
    /\ holdbuf = {} /\ hold_bfh_err = FALSE /\ hold_seq = 0
    /\ user = "check" /\ last_seq = 0 /\ frame = {}

(***************************************************************************)
(* The event thread.                                                       *)
(***************************************************************************)
Arrived == camera[1] <= MaxFrames
Fid == camera[1] % 2
Eof == camera[2] = Packets
NextPacket ==
    /\ camera' = IF Eof THEN <<camera[1] + 1, 1>> ELSE <<camera[1], camera[2] + 1>>
    /\ event' = "header"

\* A whole picture's worth of packets was passed over in a row.
Missed == gap = Packets
Noted == gap' = IF Missed THEN gap ELSE 0

\* Slip: the waiting thread is not woken.
SwapBuffersSilent(buf, err) ==
    /\ holdbuf' = buf /\ hold_bfh_err' = err /\ hold_seq' = seq
    /\ seq' = seq + 1 /\ outbuf' = {} /\ bfh_err' = FALSE
    /\ UNCHANGED caller

\* Slip: the error flag of the frame is not kept with it.
SwapBuffersUnmarked(buf, err) ==
    /\ holdbuf' = buf /\ hold_bfh_err' = FALSE /\ hold_seq' = seq
    /\ seq' = seq + 1 /\ outbuf' = {} /\ bfh_err' = FALSE
    /\ user' = IF user = "asleep" THEN "check" ELSE user
    /\ UNCHANGED <<last_seq, frame>>

\* Slip: got_bytes is not reset, the next frame is appended to this one.
SwapBuffersAppend(buf, err) ==
    /\ holdbuf' = buf /\ hold_bfh_err' = err /\ hold_seq' = seq
    /\ seq' = seq + 1 /\ outbuf' = buf /\ bfh_err' = FALSE
    /\ user' = IF user = "asleep" THEN "check" ELSE user
    /\ UNCHANGED <<last_seq, frame>>

\* _uvc_swap_buffers: the frame is published, the next one starts.
SwapBuffers(buf, err) ==
    /\ holdbuf' = buf /\ hold_bfh_err' = err /\ hold_seq' = seq
    /\ seq' = seq + 1 /\ outbuf' = {} /\ bfh_err' = FALSE
    /\ user' = IF user = "asleep" THEN "check" ELSE user
    /\ UNCHANGED <<last_seq, frame>>

Awaited == Arrived /\ event = "header"

\* Nothing is known of the packet: it is of a transfer that timed out, stalled
\* or overflowed, and is submitted again unprocessed; or it is empty, or too
\* short to hold data; or it is an isochronous one with the camera's error bit.
Passed ==
    /\ Awaited
    /\ gap' = IF Missed THEN gap ELSE gap + 1
    /\ NextPacket
    /\ UNCHANGED <<isochronous, unread, assembly, held, caller>>

Mark == /\ bfh_err' = TRUE
        /\ NextPacket /\ Noted
        /\ UNCHANGED <<isochronous, unread, fid, outbuf, seq, held, caller>>

\* An isochronous packet with a status: it is lost, and the frame marked.
Bad == Awaited /\ isochronous /\ Mark

\* A header longer than the packet.  A bulk payload is dropped before its
\* frame id is looked at, an isochronous packet after.
BogusBulk == Awaited /\ ~isochronous /\ Mark
BogusIso == event = "bogus" /\ Mark

\* The header is read: if the frame id flipped with data at hand, the end of
\* the previous frame was missed.
Header ==
    /\ Awaited
    /\ event' \in {"data"} \cup (IF isochronous THEN {"bogus"} ELSE {})
    /\ IF fid # Fid /\ outbuf # {}
       THEN SwapBuffers(outbuf, bfh_err)
       ELSE UNCHANGED <<outbuf, bfh_err, seq, held, caller>>
    /\ fid' = Fid
    /\ Noted
    /\ UNCHANGED <<isochronous, camera, unread>>

\* What is in the making now; it is published at the end of the frame.
Make(buf, err, end) ==
    IF end THEN SwapBuffers(buf, err)
    ELSE outbuf' = buf /\ bfh_err' = err /\ UNCHANGED <<seq, held, caller>>

\* The data of an isochronous packet, if it has any.
DataIso ==
    \E buf \in {outbuf, outbuf \cup {camera}} : Make(buf, bfh_err, Eof /\ buf # {})

\* The data of a bulk payload: it is appended, or does not fit.  The end of
\* the frame is seen only with data.
DataBulk(end) == \/ Make(outbuf \cup {camera}, bfh_err, end)
                 \/ Make(outbuf, TRUE, end)

Data ==
    /\ event = "data"
    /\ \/ isochronous /\ DataIso
       \/ ~isochronous /\ (DataBulk(Eof) \/ Make(outbuf, bfh_err, FALSE))
    /\ NextPacket
    /\ UNCHANGED <<isochronous, history, fid>>

\* A bulk payload whose header has no flags: neither its frame id nor the end
\* of the frame is looked at.
Short ==
    /\ Awaited /\ ~isochronous
    /\ DataBulk(FALSE)
    /\ NextPacket
    /\ unread' = TRUE
    /\ UNCHANGED <<isochronous, gap, fid>>

(***************************************************************************)
(* The thread in _uvc_user_caller.                                         *)
(***************************************************************************)
\* Under cb_mutex: sleep, or take note of the held frame and copy it unless
\* it is marked.
TakeFrame ==
    /\ user = "check"
    /\ IF last_seq = hold_seq
       THEN user' = "asleep" /\ UNCHANGED <<last_seq, frame>>
       ELSE /\ user' = "look"
            /\ last_seq' = hold_seq
            /\ frame' = IF hold_bfh_err THEN frame ELSE holdbuf
    /\ UNCHANGED <<source, history, assembly, held>>

\* The mark is looked at again without the mutex: it may be that of the next
\* frame.
Look ==
    /\ user = "look"
    /\ user' = IF hold_bfh_err THEN "check" ELSE "call"
    /\ UNCHANGED <<source, history, assembly, held, last_seq, frame>>

UserReturns ==
    /\ user = "call"
    /\ user' = "check"
    /\ UNCHANGED <<source, history, assembly, held, last_seq, frame>>

UserStep == TakeFrame \/ Look \/ UserReturns
EventStep == Passed \/ Bad \/ BogusBulk \/ BogusIso \/ Header \/ Data \/ Short

Next == UserStep \/ EventStep
Spec == Init /\ [][Next]_vars
FairSpec == Spec /\ WF_vars(UserStep)

-----------------------------------------------------------------------------
(***************************************************************************)
(* Properties.                                                             *)
(***************************************************************************)
Buffers == SUBSET ((FrameIds \X Positions))

TypeOK ==
    /\ isochronous \in BOOLEAN /\ unread \in BOOLEAN /\ gap \in 0 .. Packets
    /\ camera \in (1 .. MaxFrames + 1) \X Positions
    /\ event \in {"header", "data", "bogus"}
    /\ fid \in {0, 1} /\ outbuf \in Buffers /\ holdbuf \in Buffers
    /\ frame \in Buffers
    /\ bfh_err \in BOOLEAN /\ hold_bfh_err \in BOOLEAN
    /\ seq \in Nat /\ hold_seq \in 0 .. seq /\ last_seq \in 0 .. hold_seq
    /\ user \in {"check", "asleep", "look", "call"}

\* A frame handed to the user never mixes two pictures of the camera, whichever
\* packets are damaged, lost, or passed over without a mark, although the frame
\* id has one bit and repeats every second picture.  The exceptions: as many
\* packets as a picture has were passed over in a row, or a bulk payload came
\* without a frame id.
NotMixed == user = "call" /\ ~Missed /\ ~unread => \A a, b \in frame : a[1] = b[1]

\* The copies made for the user go forward in time: what the camera sent first
\* is copied first, and once, although holdbuf and outbuf trade places while
\* the user's thread is anywhere in its loop; and they are of later and later
\* pictures, unless a bulk payload came without a frame id.
SentBefore(a, b) == a[1] < b[1] \/ (a[1] = b[1] /\ a[2] < b[2])
Ordered(a, b) == SentBefore(a, b) /\ (unread \/ a[1] < b[1])
InOrder == [][frame' # frame => \A a \in frame, b \in frame' : Ordered(a, b)]_vars

\* No wake-up is lost: a published frame is taken by the thread that calls
\* the user; once the camera is quiet its last frame has been copied, unless
\* it was marked, or is the first of the stream, number 0, which last_seq
\* already claims to have seen.
LastDelivered ==
    (~Arrived /\ ~hold_bfh_err /\ hold_seq # 0)
       ~> (user = "asleep" /\ frame = holdbuf)
=============================================================================
