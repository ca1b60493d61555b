-------------------------- MODULE UvcStreamProofs --------------------------
(***************************************************************************)
(* Proofs about UvcStream, for every number of transfers: what a stop that *)
(* returns guarantees even when the camera is gone, and how far a stream   *)
(* keeps StreamContract.                                                   *)
(***************************************************************************)
EXTENDS UvcStream, TLAPS

USE StreamAssumption
USE DEF vars, seqs, UserOnly, InFlight, AllDeleted, InUse, Open, Move

-----------------------------------------------------------------------------
(***************************************************************************)
(* The inductive invariant, with faults.                                   *)
(***************************************************************************)
\* Every action keeps the types.
LEMMA TypeStep == TypeOK /\ [Next]_vars => TypeOK'
<1> SUFFICES ASSUME TypeOK, [Next]_vars PROVE TypeOK'
  OBVIOUS
<1> USE DEF TypeOK, ClientPc, EventPc, UserPc, TransferStates
<1>1. CASE StartStreaming
  BY <1>1 DEF StartStreaming
<1>2. CASE StopStreaming
  BY <1>2 DEF StopStreaming
<1>3. ASSUME NEW t \in Transfers, Submit(t) PROVE TypeOK'
  BY <1>3 DEF Submit
<1>4. CASE Cancel
  BY <1>4 DEF Cancel, WaitDeleted
<1>5. CASE Drain
  BY <1>5 DEF Drain, WaitDeleted
<1>6. CASE Join \/ Close
  BY <1>6 DEF Join, Close
<1>7. CASE Payload
  <2>1. CASE seq < MaxSeq /\ hold_seq' = seq /\ seq' = seq + 1
    BY <1>7, <2>1 DEF Payload
  <2>2. CASE UNCHANGED <<seqs, asleep>>
    BY <1>7, <2>2 DEF Payload
  <2> QED
    BY <1>7, <2>1, <2>2 DEF Payload
<1>8. CASE CheckRunning
  BY <1>8 DEF CheckRunning
<1>9. ASSUME NEW t \in Transfers, Complete(t) PROVE TypeOK'
  BY <1>9 DEF Complete
<1>10. ASSUME NEW t \in Transfers, Resubmit(t) \/ Delete(t) PROVE TypeOK'
  BY <1>10 DEF Resubmit, Delete
<1>11. CASE TakeFrame
  BY <1>11 DEF TakeFrame
<1>12. CASE CallUser \/ Unplugged
  BY <1>12 DEF CallUser, Unplugged
<1>13. CASE UNCHANGED vars
  BY <1>13
<1> QED
  BY <1>1, <1>2, <1>3, <1>4, <1>5, <1>6, <1>7, <1>8, <1>9, <1>10, <1>11,
     <1>12, <1>13 DEF Next, ClientStep, EventStep, UserStep

\* Every action keeps the event thread on its transfer, and the client past
\* its wait without one.
LEMMA StopStep == TypeOK /\ StopInv /\ [Next]_vars => StopInv'
<1> SUFFICES ASSUME TypeOK, StopInv, [Next]_vars PROVE StopInv'
  OBVIOUS
<1> USE DEF TypeOK, StopInv
<1>1. CASE StartStreaming
  BY <1>1 DEF StartStreaming
<1>2. CASE StopStreaming
  BY <1>2 DEF StopStreaming
<1>3. ASSUME NEW t \in Transfers, Submit(t) PROVE StopInv'
  BY <1>3 DEF Submit
<1>4. CASE Cancel
  BY <1>4 DEF Cancel, WaitDeleted
<1>5. CASE Drain
  BY <1>5 DEF Drain, WaitDeleted
<1>6. CASE Join \/ Close
  BY <1>6 DEF Join, Close
<1>7. CASE Payload
  BY <1>7 DEF Payload
<1>8. CASE CheckRunning
  BY <1>8 DEF CheckRunning
<1>9. ASSUME NEW t \in Transfers, Complete(t) PROVE StopInv'
  BY <1>9 DEF Complete
<1>10. ASSUME NEW t \in Transfers, Resubmit(t) \/ Delete(t) PROVE StopInv'
  BY <1>10 DEF Resubmit, Delete
<1>11. CASE TakeFrame
  BY <1>11 DEF TakeFrame
<1>12. CASE CallUser \/ Unplugged
  BY <1>12 DEF CallUser, Unplugged
<1>13. CASE UNCHANGED vars
  BY <1>13
<1> QED
  BY <1>1, <1>2, <1>3, <1>4, <1>5, <1>6, <1>7, <1>8, <1>9, <1>10, <1>11,
     <1>12, <1>13 DEF Next, ClientStep, EventStep, UserStep

\* Whoever sleeps on cb_cond will be woken by what has yet to happen.
LEMMA SleepStep == TypeOK /\ NotForgotten /\ [Next]_vars => NotForgotten'
<1> SUFFICES ASSUME TypeOK, NotForgotten, [Next]_vars PROVE NotForgotten'
  OBVIOUS
<1> USE DEF TypeOK, NotForgotten
<1>1. CASE StartStreaming
  BY <1>1 DEF StartStreaming
<1>2. CASE StopStreaming
  BY <1>2 DEF StopStreaming
<1>3. ASSUME NEW t \in Transfers, Submit(t) PROVE NotForgotten'
  BY <1>3 DEF Submit
<1>4. CASE Cancel
  BY <1>4 DEF Cancel, WaitDeleted
<1>5. CASE Drain
  BY <1>5 DEF Drain, WaitDeleted
<1>6. CASE Join \/ Close
  BY <1>6 DEF Join, Close
<1>7. CASE Payload
  BY <1>7 DEF Payload
<1>8. CASE CheckRunning
  BY <1>8 DEF CheckRunning
<1>9. ASSUME NEW t \in Transfers, Complete(t) PROVE NotForgotten'
  BY <1>9 DEF Complete
<1>10. ASSUME NEW t \in Transfers, Resubmit(t) \/ Delete(t) PROVE NotForgotten'
  BY <1>10 DEF Resubmit, Delete
<1>11. CASE TakeFrame
  BY <1>11 DEF TakeFrame
<1>12. CASE CallUser \/ Unplugged
  BY <1>12 DEF CallUser, Unplugged
<1>13. CASE UNCHANGED vars
  BY <1>13
<1> QED
  BY <1>1, <1>2, <1>3, <1>4, <1>5, <1>6, <1>7, <1>8, <1>9, <1>10, <1>11,
     <1>12, <1>13 DEF Next, ClientStep, EventStep, UserStep

\* The inductive invariant holds initially.
LEMMA InitInv == Init => IInv
<1> SUFFICES ASSUME Init PROVE IInv
  OBVIOUS
<1>1. TypeOK
  BY DEF Init, TypeOK, ClientPc, EventPc, UserPc, TransferStates
<1>2. StopInv
  BY DEF Init, StopInv
<1>3. NotForgotten
  BY DEF Init, NotForgotten
<1> QED
  BY <1>1, <1>2, <1>3 DEF IInv

\* The inductive invariant holds in every reachable state, whether or not the
\* camera is unplugged and submissions fail.
THEOREM Invariance == Spec => []IInv
<1>1. IInv /\ [Next]_vars => IInv'
  BY TypeStep, StopStep, SleepStep DEF IInv
<1> QED
  BY InitInv, <1>1, PTL DEF Spec

\* A uvc_stream_stop that returns leaves nobody behind on the handle.
THEOREM StopLeavesNobody == Spec => []StoppedQuiet
<1>1. IInv => StoppedQuiet
  BY DEF IInv, StopInv, StoppedQuiet
<1> QED
  BY <1>1, Invariance, PTL

\* No thread asleep on cb_cond is forgotten while the handle lives.
THEOREM NobodyForgotten == Spec => []NotForgotten
<1>1. IInv => NotForgotten
  BY DEF IInv
<1> QED
  BY <1>1, Invariance, PTL

-----------------------------------------------------------------------------
(***************************************************************************)
(* Without faults.                                                         *)
(***************************************************************************)
\* As long as nothing fails, a stream is closed only after it was stopped.
LEMMA FaultlessStep ==
  ASSUME ~Unplug, ~SubmitFails
  PROVE  IInv /\ FaultlessInv /\ [Next]_vars => FaultlessInv'
<1> SUFFICES ASSUME IInv, FaultlessInv, [Next]_vars PROVE FaultlessInv'
  OBVIOUS
<1> USE DEF IInv, TypeOK, StopInv, FaultlessInv, ClosedQuiet
<1>1. CASE StartStreaming
  BY <1>1 DEF StartStreaming
<1>2. CASE StopStreaming
  BY <1>2 DEF StopStreaming
<1>3. ASSUME NEW t \in Transfers, Submit(t) PROVE FaultlessInv'
  BY <1>3 DEF Submit, NotSubmitted
<1>4. CASE Cancel
  BY <1>4 DEF Cancel, WaitDeleted
<1>5. CASE Drain
  BY <1>5 DEF Drain, WaitDeleted
<1>6. CASE Join
  BY <1>6 DEF Join
<1>7. CASE Close
  BY <1>7 DEF Close
<1>8. CASE Payload \/ CheckRunning
  BY <1>8 DEF Payload, CheckRunning
<1>9. ASSUME NEW t \in Transfers, Complete(t) PROVE FaultlessInv'
  BY <1>9 DEF Complete
<1>10. ASSUME NEW t \in Transfers, Resubmit(t) \/ Delete(t) PROVE FaultlessInv'
  BY <1>10 DEF Resubmit, Delete
<1>11. CASE TakeFrame \/ CallUser
  BY <1>11 DEF TakeFrame, CallUser
<1>12. CASE Unplugged
  BY <1>12 DEF Unplugged
<1>13. CASE UNCHANGED vars
  BY <1>13
<1> QED
  BY <1>1, <1>2, <1>3, <1>4, <1>5, <1>6, <1>7, <1>8, <1>9, <1>10, <1>11,
     <1>12, <1>13 DEF Next, ClientStep, EventStep, UserStep

\* Both invariants hold in every reachable state of a stream without faults.
LEMMA FaultlessInvariance ==
  ASSUME ~Unplug, ~SubmitFails
  PROVE  Spec => [](IInv /\ FaultlessInv)
<1>1. Init => FaultlessInv
  BY DEF Init, FaultlessInv, ClosedQuiet
<1>2. IInv /\ FaultlessInv /\ [Next]_vars => FaultlessInv'
  BY FaultlessStep
<1> QED
  BY <1>1, <1>2, Invariance, PTL DEF Spec

\* A closed stream without faults has no user left.
THEOREM ClosedLeavesNobody ==
  ASSUME ~Unplug, ~SubmitFails
  PROVE  Spec => []ClosedQuiet
<1>1. FaultlessInv => ClosedQuiet
  BY DEF FaultlessInv
<1> QED
  BY <1>1, FaultlessInvariance, PTL

-----------------------------------------------------------------------------
(***************************************************************************)
(* The contract.                                                           *)
(***************************************************************************)
\* Every step is a step of the contract, changes nothing that the contract
\* speaks of, or closes a stream without stopping it.
LEMMA ContractStep ==
  IInv /\ [Next]_vars
    => [Contract!Next \/ CloseUnstopped]_<<Phase, user = "calling">>
<1> SUFFICES ASSUME IInv, [Next]_vars
             PROVE  [Contract!Next \/ CloseUnstopped]_<<Phase, user = "calling">>
  OBVIOUS
<1> USE DEF IInv, TypeOK, StopInv, Phase, ClientPc, UserPc
<1>1. CASE StartStreaming
  BY <1>1 DEF StartStreaming, Contract!Next, Contract!Start
<1>2. CASE StopStreaming
  BY <1>2 DEF StopStreaming, Contract!Next, Contract!Stop
<1>3. ASSUME NEW t \in Transfers, Submit(t)
      PROVE  [Contract!Next]_<<Phase, user = "calling">>
  BY <1>3 DEF Submit, Contract!Next, Contract!Stop
<1>4. CASE Cancel \/ Drain \/ Join
  BY <1>4 DEF Cancel, Drain, Join, WaitDeleted
<1>5. CASE Close
  BY <1>5 DEF Close, CloseUnstopped, Contract!Next, Contract!Stopped
<1>6. CASE Payload \/ CheckRunning
  BY <1>6 DEF Payload, CheckRunning
<1>7. ASSUME NEW t \in Transfers, Complete(t) \/ Resubmit(t) \/ Delete(t)
      PROVE  UNCHANGED <<Phase, user = "calling">>
  BY <1>7 DEF Complete, Resubmit, Delete
<1>8. CASE TakeFrame
  BY <1>8 DEF TakeFrame
<1>9. CASE CallUser
  BY <1>9 DEF CallUser, Contract!Next, Contract!BeginCall, Contract!EndCall
<1>10. CASE Unplugged
  BY <1>10 DEF Unplugged
<1>11. CASE UNCHANGED vars
  BY <1>11
<1> QED
  BY <1>1, <1>2, <1>3, <1>4, <1>5, <1>6, <1>7, <1>8, <1>9, <1>10, <1>11
     DEF Next, ClientStep, EventStep, UserStep

\* The contract holds initially.
LEMMA ContractInit == Init => Contract!Init
  BY DEF Init, Contract!Init, Phase

\* A stream keeps StreamContract, whatever fails, but for a close that does not
\* stop it.
THEOREM StreamKeepsContract == Spec => ContractKept
<1> QED
  BY ContractInit, ContractStep, Invariance, PTL DEF Spec, ContractKept

\* A stream without faults implements StreamContract.
THEOREM FaultlessContract ==
  ASSUME ~Unplug, ~SubmitFails
  PROVE  Spec => Contract!Spec
<1>1. FaultlessInv /\ [Contract!Next \/ CloseUnstopped]_<<Phase, user = "calling">>
        => [Contract!Next]_<<Phase, user = "calling">>
  BY DEF FaultlessInv, CloseUnstopped
<1>2. IInv /\ FaultlessInv /\ [Next]_vars
        => [Contract!Next]_<<Phase, user = "calling">>
  BY <1>1, ContractStep
<1> QED
  BY ContractInit, <1>2, FaultlessInvariance, PTL DEF Spec, Contract!Spec

-----------------------------------------------------------------------------
(***************************************************************************)
(* The transfers.                                                          *)
(***************************************************************************)
\* libusb as UvcStream pictures it, for one transfer, in the words of the
\* contract that UsbTransfer keeps.
Libusb(t) == INSTANCE TransferContract WITH
    owned <- InFlight(t), calling <- transfer[t] = "callback",
    ending <- transfer[t] = "cancelled"
AsPromised(t) ==
    Libusb(t)!Init /\ [][Libusb(t)!Next]_<<InFlight(t), transfer[t] = "callback">>

\* The event thread runs one callback at a time.
OneCallback ==
    \A t \in Transfers : transfer[t] = "callback" =>
        event # "idle" /\ \A u \in Transfers : transfer[u] = "callback" => u = t

\* Every action keeps to one callback.
LEMMA OneCallbackStep == TypeOK /\ OneCallback /\ [Next]_vars => OneCallback'
<1> SUFFICES ASSUME TypeOK, OneCallback, [Next]_vars PROVE OneCallback'
  OBVIOUS
<1> USE DEF TypeOK, OneCallback
<1>1. CASE StartStreaming
  BY <1>1 DEF StartStreaming
<1>2. ASSUME NEW t \in Transfers, Submit(t) PROVE OneCallback'
  BY <1>2 DEF Submit
<1>3. CASE Cancel
  BY <1>3 DEF Cancel
<1>4. ASSUME NEW t \in Transfers, Complete(t) PROVE OneCallback'
  BY <1>4 DEF Complete
<1>5. ASSUME NEW t \in Transfers, Resubmit(t) \/ Delete(t) PROVE OneCallback'
  BY <1>5 DEF Resubmit, Delete
<1>6. CASE Payload \/ CheckRunning
  BY <1>6 DEF Payload, CheckRunning
<1>7. CASE StopStreaming \/ Drain \/ Join \/ Close
  BY <1>7 DEF StopStreaming, Drain, Join, Close
<1>8. CASE TakeFrame \/ CallUser \/ Unplugged \/ UNCHANGED vars
  BY <1>8 DEF TakeFrame, CallUser, Unplugged
<1> QED
  BY <1>1, <1>2, <1>3, <1>4, <1>5, <1>6, <1>7, <1>8
     DEF Next, ClientStep, EventStep, UserStep

\* For each transfer every step is one of the contract, or nothing.
LEMMA TransferStep ==
  ASSUME NEW t \in Transfers
  PROVE  IInv /\ OneCallback /\ [Next]_vars
           => [Libusb(t)!Next]_<<InFlight(t), transfer[t] = "callback">>
<1> SUFFICES ASSUME IInv, OneCallback, [Next]_vars
             PROVE  [Libusb(t)!Next]_<<InFlight(t), transfer[t] = "callback">>
  OBVIOUS
<1> USE DEF IInv, TypeOK, OneCallback, Libusb!Next
<1>1. CASE StartStreaming
  BY <1>1 DEF StartStreaming
<1>2. ASSUME NEW u \in Transfers, Submit(u)
      PROVE  [Libusb(t)!Next]_<<InFlight(t), transfer[t] = "callback">>
  BY <1>2 DEF Submit, Libusb!Submit
<1>3. CASE Cancel
  BY <1>3 DEF Cancel
<1>4. ASSUME NEW u \in Transfers, Complete(u)
      PROVE  [Libusb(t)!Next]_<<InFlight(t), transfer[t] = "callback">>
  BY <1>4 DEF Complete, Libusb!Report
<1>5. ASSUME NEW u \in Transfers, Resubmit(u) \/ Delete(u)
      PROVE  [Libusb(t)!Next]_<<InFlight(t), transfer[t] = "callback">>
  BY <1>5 DEF Resubmit, Delete, Libusb!Return
<1>6. CASE Payload \/ CheckRunning
  BY <1>6 DEF Payload, CheckRunning
<1>7. CASE StopStreaming \/ Drain \/ Join \/ Close
  BY <1>7 DEF StopStreaming, Drain, Join, Close
<1>8. CASE TakeFrame \/ CallUser \/ Unplugged \/ UNCHANGED vars
  BY <1>8 DEF TakeFrame, CallUser, Unplugged
<1> QED
  BY <1>1, <1>2, <1>3, <1>4, <1>5, <1>6, <1>7, <1>8
     DEF Next, ClientStep, EventStep, UserStep

\* What UvcStream pictures of libusb is what UsbTransfer shows it to be: one
\* callback for each submission, and one at a time.
THEOREM TransfersAsPromised ==
  ASSUME NEW t \in Transfers
  PROVE  Spec => AsPromised(t)
<1>1. Init => OneCallback /\ Libusb(t)!Init
  BY DEF Init, OneCallback, Libusb!Init
<1>2. IInv /\ OneCallback /\ [Next]_vars => OneCallback'
  BY OneCallbackStep DEF IInv
<1>3. IInv /\ OneCallback /\ [Next]_vars
        => [Libusb(t)!Next]_<<InFlight(t), transfer[t] = "callback">>
  BY TransferStep
<1> QED
  BY <1>1, <1>2, <1>3, Invariance, PTL DEF Spec, AsPromised
=============================================================================
