-------------------------- MODULE UsbMonitorProofs --------------------------
(***************************************************************************)
(* Proofs about UsbMonitor: whatever the number of cameras, calls and      *)
(* clones, no connection is forgotten but in the named cases (Tracked),    *)
(* and those to a device are closed before the listener hears of its       *)
(* detach, all of them once destroy has returned (ClosedInTime).           *)
(*                                                                         *)
(* The argument follows the open blocks that are neither in a thread's     *)
(* hand nor lost.  A step makes a block such only by putting it into the   *)
(* table, for a device from which a detach is still to come and before     *)
(* destroy (TrackedStep); so once OnDetached has closed what the table     *)
(* holds, nothing open appears behind it while onDettach is on its way.    *)
(***************************************************************************)
EXTENDS UsbMonitor, FiniteSetTheorems, TLAPS

-----------------------------------------------------------------------------
(***************************************************************************)
(* The inductive invariant: the types, part by part,                       *)
(***************************************************************************)
SystemType ==
    /\ plugs \in 0..MaxPlugs /\ present \subseteq 1..plugs
    /\ permitted \subseteq present /\ asked \subseteq present
    /\ announced \subseteq present
CountsType ==
    /\ registered \in BOOLEAN /\ destroyed \in BOOLEAN /\ raced \in BOOLEAN
    /\ mDeviceCounts \in 0..Cardinality(Devices)
    /\ mHasPermissions \subseteq Devices
InboxType == inbox \in Seq({"granted", "denied", "detached"} \X Devices)
QueueType == queue \in Seq(Tasks \X Devices) /\ polls \in Nat
BlockType == block \in Seq([dev : Devices, clone : BOOLEAN,
                            conn : {"open", "null", "closed"}])
TableType ==
    /\ mCtrlBlocks \in [Devices -> 0..Len(block)] /\ lost \subseteq DOMAIN block

\* and what each thread may be doing.
MainType ==
    \/ main \in {Idle, [pc |-> "destroy"], [pc |-> "gone"]}
    \/ main \in [pc : {"put"}, dev : Devices, blk : 1..Len(block)]
    \/ main \in [pc : {"close"}, dev : Devices, blk : {"destroy", "detach"}]
    \/ main \in [pc : {"dettach"}, dev : Devices, blk : {0}]
AsyncType ==
    \/ async \in {Idle, Broken}
    \/ async \in [pc : {"compare"}, devices : SUBSET Devices, more : BOOLEAN]
    \/ async \in [pc : {"open"}, dev : Devices, blk : {0}]
    \/ async \in [pc : {"put"}, dev : Devices, blk : 1..Len(block)]
CameraType ==
    \/ camera = Idle
    \/ camera \in [pc : {"opened", "close"}, dev : Devices, blk : 1..Len(block)]
ThreadsType == MainType /\ AsyncType /\ CameraType

Types == SystemType /\ CountsType /\ InboxType /\ BlockType /\ TableType
           /\ QueueType /\ ThreadsType

\* A block is put under the device it was opened for.
HandsInv ==
    /\ main.pc = "put" => block[main.blk].dev = main.dev
    /\ async.pc = "put" => block[async.blk].dev = async.dev

\* A detach is broadcast once, after the device has gone, which is for ever.
Has(s, x) == \E i \in DOMAIN s : s[i] = x
Gone(d) == d \in (1..plugs) \ present
DetachedInv == \A d \in Devices : Has(inbox, <<"detached", d>>) => Gone(d)
OnceInv == \A i, j \in DOMAIN inbox :
               inbox[i] = inbox[j] /\ inbox[i][1] = "detached" => i = j

\* The open blocks that only the table knows.
Loose == OpenBlocks \ (InHand \cup lost)

\* From OnDetached until the listener is called, onDettach(d) is on its way.
\* The device has then gone, no other detach of it will be heard, and none of
\* its blocks is open but those in hand or lost.
OnWay(d) ==
    \/ main.pc = "dettach" /\ main.dev = d
    \/ main.pc = "close" /\ main.blk = "detach" /\ main.dev = d
    \/ Has(queue, <<"dettach", d>>)
OnWayInv ==
    \A d \in Devices : OnWay(d) =>
        /\ Gone(d) /\ ~Has(inbox, <<"detached", d>>)
        /\ \A b \in Loose : block[b].dev # d

\* destroy sets destroyed before it empties the table.
EndInv ==
    /\ main.pc \in {"destroy", "gone"} => destroyed
    /\ main.pc = "close" /\ main.blk = "destroy" => destroyed
    /\ main.pc = "gone" => Loose = {}

IInv == Types /\ HandsInv /\ DetachedInv /\ OnceInv /\ Tracked /\ OnWayInv /\ EndInv

-----------------------------------------------------------------------------
(***************************************************************************)
(* What a step does to one part of the state.                              *)
(***************************************************************************)
\* Blocks: a step closes one, or makes one, or leaves them alone; their number
\* grows, and a block keeps its device and is not opened again.
BlockChange ==
    \/ UNCHANGED block
    \/ \E b \in 1..Len(block) : Disconnect(b)
    \/ \E d \in Devices, clone \in BOOLEAN : NewBlock(d, clone)
Kept ==
    /\ DOMAIN block \subseteq DOMAIN block'
    /\ \A b \in DOMAIN block :
           /\ block'[b].dev = block[b].dev /\ block'[b].clone = block[b].clone
           /\ block'[b].conn = "open" => block[b].conn = "open"
Grown == 1..Len(block) \subseteq 1..Len(block')

\* The table only ever refers to blocks that exist.
TableThen ==
    mCtrlBlocks' \in [Devices -> 0..Len(block)] /\ lost' \subseteq DOMAIN block

\* A device that has gone, its detach heard, stays so.
GoneNext ==
    /\ DetachedInv'
    /\ \A d \in Devices : Gone(d) /\ ~Has(inbox, <<"detached", d>>) =>
           Gone(d)' /\ ~Has(inbox', <<"detached", d>>)

\* A block whose device may still be detached, or destroyed with the others.
Known(b) == ~destroyed /\ ~Forsaken(block[b].dev)

\* An open block is in hand when it is made; it leaves the table only closed or
\* lost, and leaves a hand only closed, lost or for the table.
Carried ==
    /\ lost \subseteq lost'
    /\ \A b \in OpenBlocks' : b \in OpenBlocks \/ b \in InHand'
    /\ \A b \in OpenBlocks \cap OpenBlocks' :
           mCtrlBlocks[block[b].dev] = b =>
               mCtrlBlocks'[block[b].dev] = b \/ b \in lost'
    /\ \A b \in InHand \cap OpenBlocks' :
           \/ b \in InHand' \cup lost'
           \/ mCtrlBlocks'[block[b].dev] = b /\ Known(b)'

\* So Tracked is preserved, and what becomes loose is known.
TrackedNext ==
    /\ Tracked'
    /\ \A b \in Loose' : /\ block'[b].dev = block[b].dev
                         /\ b \in Loose \/ Known(b)'

\* onDettach is sent on its way by OnDetached alone.
OnWayFrom ==
    \A d \in Devices : OnWay(d)' => OnWay(d) \/ (OnDetached /\ d = Head(inbox)[2])

-----------------------------------------------------------------------------
\* Removing the first element of a sequence, and adding one at the end.
LEMMA TailHas ==
    ASSUME NEW T, NEW s \in Seq(T), s # <<>>
    PROVE  /\ Tail(s) \in Seq(T) /\ Head(s) \in T
           /\ \A x : Has(Tail(s), x) => Has(s, x)
           /\ Has(s, Head(s))
<1>1. Tail(s) \in Seq(T) /\ Len(Tail(s)) = Len(s) - 1 /\ Len(s) \in Nat /\ Len(s) > 0
    OBVIOUS
<1>2. \A i \in 1..Len(Tail(s)) : Tail(s)[i] = s[i + 1] /\ i + 1 \in 1..Len(s)
    BY <1>1
<1>3. \A x : Has(Tail(s), x) => Has(s, x)
    BY <1>1, <1>2 DEF Has
<1>4. Head(s) \in T /\ Has(s, Head(s))
    BY <1>1 DEF Has
<1> QED
    BY <1>1, <1>3, <1>4

LEMMA AppendHas ==
    ASSUME NEW T, NEW s \in Seq(T), NEW e \in T
    PROVE  /\ Append(s, e) \in Seq(T)
           /\ \A x : Has(Append(s, e), x) => Has(s, x) \/ x = e
<1>1. Append(s, e) \in Seq(T) /\ Len(Append(s, e)) = Len(s) + 1 /\ Len(s) \in Nat
    OBVIOUS
<1>2. \A i \in 1..(Len(s) + 1) : Append(s, e)[i] = IF i <= Len(s) THEN s[i] ELSE e
    BY <1>1
<1>3. DOMAIN s = 1..Len(s) /\ DOMAIN Append(s, e) = 1..(Len(s) + 1)
    BY <1>1
<1>4. ASSUME NEW i \in 1..(Len(s) + 1) PROVE i \in DOMAIN s \/ ~(i <= Len(s))
    BY <1>1, <1>3
<1> QED
    BY <1>1, <1>2, <1>3, <1>4 DEF Has

LEMMA Appended ==
    ASSUME NEW T, NEW s \in Seq(T), NEW e
    PROVE  /\ DOMAIN Append(s, e) = DOMAIN s \cup {Len(s) + 1}
           /\ \A i \in DOMAIN s : Append(s, e)[i] = s[i]
           /\ Append(s, e)[Len(s) + 1] = e
    OBVIOUS

LEMMA ConcatHas ==
    ASSUME NEW T, NEW s \in Seq(T), NEW t \in Seq(T)
    PROVE  /\ s \o t \in Seq(T)
           /\ \A x : Has(s \o t, x) => Has(s, x) \/ Has(t, x)
<1>1. s \o t \in Seq(T) /\ Len(s \o t) = Len(s) + Len(t)
        /\ Len(s) \in Nat /\ Len(t) \in Nat
    OBVIOUS
<1>2. \A i \in 1..(Len(s) + Len(t)) :
          (s \o t)[i] = IF i <= Len(s) THEN s[i] ELSE t[i - Len(s)]
    BY <1>1
<1>3. DOMAIN s = 1..Len(s) /\ DOMAIN t = 1..Len(t)
        /\ DOMAIN (s \o t) = 1..(Len(s) + Len(t))
    BY <1>1
<1>4. ASSUME NEW i \in 1..(Len(s) + Len(t))
      PROVE  IF i <= Len(s) THEN i \in DOMAIN s ELSE i - Len(s) \in DOMAIN t
    BY <1>1, <1>3
<1> QED
    BY <1>1, <1>2, <1>3, <1>4 DEF Has

\* What closing a connection changes, and what making a block adds.
LEMMA Disconnected ==
    ASSUME BlockType, NEW b \in 1..Len(block), Disconnect(b)
    PROVE  /\ BlockType'
           /\ DOMAIN block' = DOMAIN block /\ Len(block') = Len(block)
           /\ Len(block) \in Nat
           /\ \A c \in DOMAIN block : /\ block'[c].dev = block[c].dev
                                      /\ block'[c].clone = block[c].clone
           /\ \A c \in DOMAIN block :
                  block'[c].conn = "open" => block[c].conn = "open" /\ c # b
<1> DEFINE R == [dev : Devices, clone : BOOLEAN, conn : {"open", "null", "closed"}]
<1>1. block \in Seq(R) /\ DOMAIN block = 1..Len(block) /\ Len(block) \in Nat
    BY DEF BlockType
<1>2. block' = [block EXCEPT ![b] = [block[b] EXCEPT !.conn = "closed"]]
    BY DEF Disconnect
<1>0. block[b] \in R
    <2> HIDE DEF R
    <2> QED
        BY <1>1
<1>3. [block[b] EXCEPT !.conn = "closed"] \in R
    BY <1>0
<1>4. block' \in Seq(R) /\ Len(block') = Len(block) /\ DOMAIN block' = DOMAIN block
    <2> HIDE DEF R
    <2> QED
        BY <1>1, <1>2, <1>3
<1>5. \A c \in DOMAIN block : c # b => block'[c] = block[c]
    BY <1>1, <1>2
<1>6. block'[b] = [block[b] EXCEPT !.conn = "closed"]
    <2> HIDE DEF R
    <2> QED
        BY <1>1, <1>2
<1>7. block'[b].dev = block[b].dev /\ block'[b].clone = block[b].clone
        /\ block'[b].conn = "closed"
    BY <1>0, <1>6
<1> QED
    BY <1>1, <1>4, <1>5, <1>7 DEF BlockType

LEMMA Made ==
    ASSUME BlockType, NEW d \in Devices, NEW clone \in BOOLEAN, NewBlock(d, clone)
    PROVE  /\ BlockType' /\ Len(block) \in Nat /\ Len(block') = Len(block) + 1
           /\ DOMAIN block = 1..Len(block)
           /\ DOMAIN block' = DOMAIN block \cup {Len(block) + 1}
           /\ Len(block) + 1 \in 1..Len(block')
           /\ \A c \in DOMAIN block : block'[c] = block[c]
           /\ block'[Len(block) + 1].dev = d
           /\ block'[Len(block) + 1].clone = clone
           /\ block'[Len(block) + 1].conn = "open" => d \in permitted \cap present
<1> DEFINE R == [dev : Devices, clone : BOOLEAN, conn : {"open", "null", "closed"}]
           r == [dev |-> d, clone |-> clone,
                 conn |-> IF d \in permitted \cap present THEN "open" ELSE "null"]
<1>1. block \in Seq(R) /\ DOMAIN block = 1..Len(block) /\ Len(block) \in Nat
    BY DEF BlockType
<1>2. r \in R
    OBVIOUS
<1>3. block' = Append(block, r)
    BY DEF NewBlock
<1>4. block' \in Seq(R) /\ Len(block') = Len(block) + 1
        /\ DOMAIN block' = 1..(Len(block) + 1)
        /\ (\A c \in DOMAIN block : block'[c] = block[c])
        /\ block'[Len(block) + 1] = r
    <2> HIDE DEF R, r
    <2> QED
        BY <1>1, <1>2, <1>3
<1>5. r.dev = d /\ r.clone = clone /\ (r.conn = "open" => d \in permitted \cap present)
    OBVIOUS
<1> QED
    BY <1>1, <1>4, <1>5 DEF BlockType

\* Finite sets of devices have cardinalities.
LEMMA CountsBounded ==
    /\ Cardinality(Devices) \in Nat
    /\ \A S \in SUBSET Devices : Cardinality(S) \in 0..Cardinality(Devices)
<1>1. IsFiniteSet(Devices) /\ Cardinality(Devices) \in Nat
    BY MonitorAssumption, FS_Interval, FS_CardinalityType DEF Devices
<1>2. ASSUME NEW S \in SUBSET Devices PROVE Cardinality(S) \in 0..Cardinality(Devices)
    <2>1. IsFiniteSet(S) /\ Cardinality(S) <= Cardinality(Devices)
        BY <1>1, FS_Subset
    <2>2. Cardinality(S) \in Nat
        BY <2>1, FS_CardinalityType
    <2> DEFINE n == Cardinality(S)
               m == Cardinality(Devices)
    <2> HIDE DEF n, m
    <2>3. n \in Nat /\ m \in Nat /\ n <= m
        BY <1>1, <2>1, <2>2 DEF n, m
    <2>4. n \in 0..m
        BY <2>3
    <2> QED
        BY <2>4 DEF n, m
<1> QED
    BY <1>1, <1>2

\* What ZeroCounts, Post, AnnounceAll and Broadcast leave behind.
LEMMA Zeroed ==
    ASSUME CountsType, ZeroCounts
    PROVE  mDeviceCounts' \in 0..Cardinality(Devices) /\ raced' \in BOOLEAN
<1>1. raced' \in BOOLEAN
    BY Zenon DEF CountsType, ZeroCounts
<1>2. 0 \in 0..Cardinality(Devices)
    BY CountsBounded
<1> QED
    BY <1>1, <1>2 DEF ZeroCounts

LEMMA Posted ==
    ASSUME QueueType, NEW k \in Tasks, NEW d \in Devices, Post(k, d)
    PROVE  /\ queue' \in Seq(Tasks \X Devices)
           /\ \A x : Has(queue', x) => Has(queue, x) \/ x = <<k, d>>
<1>1. <<k, d>> \in Tasks \X Devices
    OBVIOUS
<1>2. /\ Append(queue, <<k, d>>) \in Seq(Tasks \X Devices)
      /\ \A x : Has(Append(queue, <<k, d>>), x) => Has(queue, x) \/ x = <<k, d>>
    BY <1>1, AppendHas, Zenon DEF QueueType
<1> QED
    BY <1>2 DEF Post, QueueType

LEMMA Announced ==
    ASSUME QueueType, async.devices \in SUBSET Devices, AnnounceAll
    PROVE  /\ queue' \in Seq(Tasks \X Devices)
           /\ \A x : Has(queue', x) => Has(queue, x) \/ x[1] = "attach"
<1>1. PICK order \in SetToSeqs(async.devices) :
          queue' = IF Quit THEN queue
                   ELSE queue \o [i \in DOMAIN order |-> <<"attach", order[i]>>]
    BY DEF AnnounceAll
<1> DEFINE n == Cardinality(async.devices)
           t == [i \in DOMAIN order |-> <<"attach", order[i]>>]
<1>2. n \in Nat
    BY CountsBounded
<1>3. order \in [1..n -> async.devices]
    BY <1>1 DEF SetToSeqs
<1> HIDE DEF n
<1>4. t \in Seq(Tasks \X Devices)
    BY <1>2, <1>3 DEF Tasks
<1>5. \A x : Has(t, x) => x[1] = "attach"
    BY <1>3 DEF Has
<1> HIDE DEF t
<1>6. /\ queue \o t \in Seq(Tasks \X Devices)
      /\ \A x : Has(queue \o t, x) => Has(queue, x) \/ Has(t, x)
    BY <1>4, ConcatHas, Zenon DEF QueueType
<1>7. queue' = queue \/ queue' = queue \o t
    BY <1>1 DEF t
<1> QED
    BY <1>5, <1>6, <1>7 DEF QueueType

LEMMA Heard ==
    ASSUME InboxType, NEW k \in {"granted", "denied", "detached"}, NEW d \in Devices,
           Broadcast(k, d)
    PROVE  /\ InboxType'
           /\ \A x : Has(inbox', x) => Has(inbox, x) \/ x = <<k, d>>
<1>1. <<k, d>> \in {"granted", "denied", "detached"} \X Devices
    OBVIOUS
<1>2. /\ Append(inbox, <<k, d>>) \in Seq({"granted", "denied", "detached"} \X Devices)
      /\ \A x : Has(Append(inbox, <<k, d>>), x) => Has(inbox, x) \/ x = <<k, d>>
    BY <1>1, AppendHas, Zenon DEF InboxType
<1> QED
    BY <1>2 DEF Broadcast, InboxType

\* Devices that are or were present are devices.
LEMMA Present == SystemType => present \subseteq Devices /\ 1..plugs \subseteq Devices
<1> SUFFICES ASSUME SystemType PROVE 1..plugs \subseteq Devices
    BY DEF SystemType
<1>1. plugs \in Nat /\ plugs <= MaxPlugs
    BY MonitorAssumption DEF SystemType
<1> QED
    BY <1>1, MonitorAssumption DEF Devices

\* What a thread holds while it is at a given place.
LEMMA Shapes ==
    ASSUME ThreadsType
    PROVE  /\ main.pc = "put" => main.dev \in Devices /\ main.blk \in 1..Len(block)
           /\ main.pc \in {"close", "dettach"} => main.dev \in Devices
           /\ async.pc \in {"open", "put"} => async.dev \in Devices
           /\ async.pc = "put" => async.blk \in 1..Len(block)
           /\ async.pc = "compare" => async.devices \in SUBSET Devices
           /\ camera.pc \in {"opened", "close"} => camera.dev \in Devices
                                                     /\ camera.blk \in 1..Len(block)
<1> USE DEF ThreadsType, MainType, AsyncType, CameraType, Idle, Broken
<1>1. main.pc = "put" => main.dev \in Devices /\ main.blk \in 1..Len(block)
    OBVIOUS
<1>2. main.pc \in {"close", "dettach"} => main.dev \in Devices
    OBVIOUS
<1>3. async.pc \in {"open", "put"} => async.dev \in Devices
    OBVIOUS
<1>4. async.pc = "put" => async.blk \in 1..Len(block)
    OBVIOUS
<1>5. async.pc = "compare" => async.devices \in SUBSET Devices
    OBVIOUS
<1>6. camera.pc \in {"opened", "close"} => camera.dev \in Devices
                                             /\ camera.blk \in 1..Len(block)
    OBVIOUS
<1> QED
    BY <1>1, <1>2, <1>3, <1>4, <1>5, <1>6

\* An open block has a number other than 0, and a device.
LEMMA Opened ==
    ASSUME BlockType, NEW b \in OpenBlocks
    PROVE  b \in 1..Len(block) /\ b # 0 /\ block[b].dev \in Devices
<1> DEFINE R == [dev : Devices, clone : BOOLEAN, conn : {"open", "null", "closed"}]
<1>1. block \in Seq(R) /\ b \in DOMAIN block
    BY DEF BlockType, OpenBlocks
<1>2. block[b] \in R /\ b \in 1..Len(block) /\ b # 0
    <2> HIDE DEF R
    <2> QED
        BY <1>1
<1> QED
    BY <1>2

\* What the table holds after an entry is replaced or removed.
LEMMA Entered ==
    ASSUME BlockType, TableType, NEW d \in Devices, NEW b \in 1..Len(block),
           PutEntry(d, b)
    PROVE  mCtrlBlocks' \in [Devices -> 0..Len(block)] /\ lost' \subseteq DOMAIN block
<1>1. DOMAIN block = 1..Len(block) /\ Len(block) \in Nat
    BY DEF BlockType
<1>2. InTable(d) \cap OpenBlocks \subseteq DOMAIN block
    BY DEF OpenBlocks
<1>3. lost' \subseteq lost \cup (InTable(d) \cap OpenBlocks) \cup {b}
    BY DEF PutEntry
<1>4. mCtrlBlocks' = [mCtrlBlocks EXCEPT ![d] = b]
    BY DEF PutEntry
<1> QED
    BY <1>1, <1>2, <1>3, <1>4 DEF TableType

LEMMA Removed ==
    ASSUME BlockType, TableType, NEW d \in Devices, RemoveEntry(d)
    PROVE  mCtrlBlocks' \in [Devices -> 0..Len(block)] /\ lost' \subseteq DOMAIN block
<1>1. DOMAIN block = 1..Len(block) /\ Len(block) \in Nat
    BY DEF BlockType
<1>2. InTable(d) \cap OpenBlocks \subseteq DOMAIN block
    BY DEF OpenBlocks
<1>3. mCtrlBlocks' = [mCtrlBlocks EXCEPT ![d] = 0]
        /\ lost' = lost \cup (InTable(d) \cap OpenBlocks)
    BY DEF RemoveEntry
<1> QED
    BY <1>1, <1>2, <1>3 DEF TableType

\* Each action preserves each part of the types.
LEMMA SystemStep ==
    Types /\ [Next]_vars => SystemType'
<1> SUFFICES ASSUME Types, [Next]_vars
             PROVE  SystemType'
    OBVIOUS
<1> USE MonitorAssumption DEF system, table, counts, handler, Types, SystemType,
                              Devices, InboxType, QueueType
<1>1. CASE Register
    BY <1>1 DEF Register
<1>2. CASE Unregister
    BY <1>2 DEF Unregister
<1>3. CASE Destroy
    BY <1>3 DEF Destroy
<1>4. CASE \E d \in Devices : RequestPermission(d)
    BY <1>4 DEF RequestPermission
<1>5. CASE \E d \in Devices : OpenDevice(d)
    BY <1>5 DEF OpenDevice
<1>6. CASE OpenDevicePut
    BY <1>6 DEF OpenDevicePut
<1>7. CASE CloseRemove
    BY <1>7 DEF CloseRemove
<1>8. CASE DestroyEnd
    BY <1>8 DEF DestroyEnd
<1>9. CASE OnPermission
    BY <1>9 DEF OnPermission
<1>10. CASE OnDetached
    BY <1>10 DEF OnDetached
<1>11. CASE Dettach
    BY <1>11 DEF Dettach
<1>12. CASE \E d \in Devices : DestroyNext(d)
    BY <1>12 DEF DestroyNext
<1>13. CASE Check
    BY <1>13 DEF Check
<1>14. CASE Compare
    BY <1>14 DEF Compare
<1>15. CASE CheckThrows
    BY <1>15 DEF CheckThrows
<1>16. CASE RunConnect
    BY <1>16 DEF RunConnect
<1>17. CASE RunOpen
    BY <1>17 DEF RunOpen
<1>18. CASE RunPut
    BY <1>18 DEF RunPut
<1>19. CASE RunCallback
    BY <1>19 DEF RunCallback
<1>20. CASE CameraClose
    BY <1>20 DEF CameraClose
<1>21. CASE CameraRemove
    BY <1>21 DEF CameraRemove
<1>22. CASE \E d \in Devices : CameraOpen(d)
    BY <1>22 DEF CameraOpen
<1>23. CASE \E d \in Devices : Plug(d)
    BY <1>23 DEF Plug
<1>24. CASE \E d \in Devices : Unplug(d)
    BY <1>24 DEF Unplug
<1>25. CASE \E d \in Devices : Answer(d)
    BY <1>25 DEF Answer
<1>26. CASE UNCHANGED vars
    BY <1>26 DEF vars
<1> QED
    BY <1>1, <1>2, <1>3, <1>4, <1>5, <1>6, <1>7, <1>8, <1>9, <1>10, <1>11,
       <1>12, <1>13, <1>14, <1>15, <1>16, <1>17, <1>18, <1>19, <1>20, <1>21,
       <1>22, <1>23, <1>24, <1>25, <1>26
    DEF Next, Application, MainStep, AsyncStep, CameraStep, User

LEMMA InboxStep ==
    Types /\ [Next]_vars => InboxType'
<1> SUFFICES ASSUME Types, [Next]_vars
             PROVE  InboxType'
    OBVIOUS
<1> USE MonitorAssumption DEF system, table, counts, handler, Types, InboxType
<1>1. CASE Register
    BY <1>1 DEF Register
<1>2. CASE Unregister
    BY <1>2 DEF Unregister
<1>3. CASE Destroy
    BY <1>3 DEF Destroy
<1>4. CASE \E d \in Devices : RequestPermission(d)
    BY <1>4 DEF RequestPermission
<1>5. CASE \E d \in Devices : OpenDevice(d)
    BY <1>5 DEF OpenDevice
<1>6. CASE OpenDevicePut
    BY <1>6 DEF OpenDevicePut
<1>7. CASE CloseRemove
    BY <1>7 DEF CloseRemove
<1>8. CASE DestroyEnd
    BY <1>8 DEF DestroyEnd
<1>9. CASE OnPermission
    <2>1. inbox # <<>> /\ inbox' = Tail(inbox)
        BY <1>9 DEF OnPermission, Received
    <2> QED
        BY <2>1, TailHas
<1>10. CASE OnDetached
    <2>1. inbox # <<>> /\ inbox' = Tail(inbox)
        BY <1>10 DEF OnDetached, Received
    <2> QED
        BY <2>1, TailHas
<1>11. CASE Dettach
    BY <1>11 DEF Dettach
<1>12. CASE \E d \in Devices : DestroyNext(d)
    BY <1>12 DEF DestroyNext
<1>13. CASE Check
    BY <1>13 DEF Check
<1>14. CASE Compare
    BY <1>14 DEF Compare
<1>15. CASE CheckThrows
    BY <1>15 DEF CheckThrows
<1>16. CASE RunConnect
    BY <1>16 DEF RunConnect
<1>17. CASE RunOpen
    BY <1>17 DEF RunOpen
<1>18. CASE RunPut
    BY <1>18 DEF RunPut
<1>19. CASE RunCallback
    BY <1>19 DEF RunCallback
<1>20. CASE CameraClose
    BY <1>20 DEF CameraClose
<1>21. CASE CameraRemove
    BY <1>21 DEF CameraRemove
<1>22. CASE \E d \in Devices : CameraOpen(d)
    BY <1>22 DEF CameraOpen
<1>23. CASE \E d \in Devices : Plug(d)
    BY <1>23 DEF Plug
<1>24. CASE \E d \in Devices : Unplug(d)
    <2>1. PICK d \in Devices : Broadcast("detached", d)
        BY <1>24 DEF Unplug
    <2> QED
        BY <2>1, Heard DEF Types
<1>25. CASE \E d \in Devices : Answer(d)
    <2>1. PICK d \in Devices : Broadcast("granted", d) \/ Broadcast("denied", d)
        BY <1>25 DEF Answer
    <2> QED
        BY <2>1, Heard DEF Types
<1>26. CASE UNCHANGED vars
    BY <1>26 DEF vars
<1> QED
    BY <1>1, <1>2, <1>3, <1>4, <1>5, <1>6, <1>7, <1>8, <1>9, <1>10, <1>11,
       <1>12, <1>13, <1>14, <1>15, <1>16, <1>17, <1>18, <1>19, <1>20, <1>21,
       <1>22, <1>23, <1>24, <1>25, <1>26
    DEF Next, Application, MainStep, AsyncStep, CameraStep, User

LEMMA CountsStep ==
    Types /\ [Next]_vars => CountsType'
<1> SUFFICES ASSUME Types, [Next]_vars
             PROVE  CountsType'
    OBVIOUS
<1> USE DEF system, table, counts, handler, Types, CountsType
<1>1. CASE Register
    <2>1. ZeroCounts
        BY <1>1 DEF Register
    <2>2. mDeviceCounts' \in 0..Cardinality(Devices) /\ raced' \in BOOLEAN
        BY <2>1, Zeroed DEF Types
    <2> QED
        BY <1>1, <2>2 DEF Register, CountsType, Types
<1>2. CASE Unregister
    <2>1. ZeroCounts
        BY <1>2 DEF Unregister
    <2>2. mDeviceCounts' \in 0..Cardinality(Devices) /\ raced' \in BOOLEAN
        BY <2>1, Zeroed DEF Types
    <2> QED
        BY <1>2, <2>2 DEF Unregister, Call, CountsType, Types
<1>3. CASE Destroy
    <2>1. ZeroCounts
        BY <1>3 DEF Destroy
    <2>2. mDeviceCounts' \in 0..Cardinality(Devices) /\ raced' \in BOOLEAN
        BY <2>1, Zeroed DEF Types
    <2> QED
        BY <1>3, <2>2 DEF Destroy, Call, CountsType, Types
<1>4. CASE \E d \in Devices : RequestPermission(d)
    BY <1>4 DEF RequestPermission, Call, ProcessConnect, ProcessCancel, Post
<1>5. CASE \E d \in Devices : OpenDevice(d)
    BY <1>5 DEF OpenDevice
<1>6. CASE OpenDevicePut
    BY <1>6 DEF OpenDevicePut
<1>7. CASE CloseRemove
    BY <1>7 DEF CloseRemove
<1>8. CASE DestroyEnd
    BY <1>8 DEF DestroyEnd
<1>9. CASE OnPermission
    <2>1. \E d \in Devices : ProcessConnect(d) \/ ProcessCancel(d)
        <3>1. inbox # <<>>
            BY <1>9 DEF OnPermission, Received
        <3>2. Head(inbox)[2] \in Devices
            BY <3>1 DEF Types, InboxType
        <3> QED
            BY <1>9, <3>2 DEF OnPermission
    <2> QED
        BY <1>9, <2>1 DEF OnPermission, ProcessConnect, ProcessCancel, Types,
           CountsType
<1>10. CASE OnDetached
    BY <1>10 DEF OnDetached
<1>11. CASE Dettach
    <2>1. ZeroCounts
        BY <1>11 DEF Dettach
    <2>2. mDeviceCounts' \in 0..Cardinality(Devices) /\ raced' \in BOOLEAN
        BY <2>1, Zeroed DEF Types
    <2> QED
        BY <1>11, <2>2 DEF Dettach, CountsType, Types
<1>12. CASE \E d \in Devices : DestroyNext(d)
    BY <1>12 DEF DestroyNext
<1>13. CASE Check
    <2>1. mHasPermissions' \in {mHasPermissions, present \cap permitted}
        BY <1>13 DEF Check
    <2>2. present \subseteq Devices
        BY Present DEF Types
    <2> QED
        BY <1>13, <2>1, <2>2 DEF Check, Types, CountsType
<1>14. CASE Compare
    <2>1. async.devices \in SUBSET Devices
        BY <1>14 DEF Compare, Types, ThreadsType, AsyncType, Idle, Broken
    <2>2. Cardinality(async.devices) \in 0..Cardinality(Devices)
        BY <2>1, CountsBounded
    <2> QED
        BY <1>14, <2>2 DEF Compare, Types, CountsType
<1>15. CASE CheckThrows
    BY <1>15 DEF CheckThrows
<1>16. CASE RunConnect
    BY <1>16 DEF RunConnect
<1>17. CASE RunOpen
    BY <1>17 DEF RunOpen
<1>18. CASE RunPut
    BY <1>18 DEF RunPut
<1>19. CASE RunCallback
    BY <1>19 DEF RunCallback
<1>20. CASE CameraClose
    BY <1>20 DEF CameraClose
<1>21. CASE CameraRemove
    BY <1>21 DEF CameraRemove
<1>22. CASE \E d \in Devices : CameraOpen(d)
    BY <1>22 DEF CameraOpen
<1>23. CASE \E d \in Devices : Plug(d)
    BY <1>23 DEF Plug
<1>24. CASE \E d \in Devices : Unplug(d)
    BY <1>24 DEF Unplug
<1>25. CASE \E d \in Devices : Answer(d)
    BY <1>25 DEF Answer
<1>26. CASE UNCHANGED vars
    BY <1>26 DEF vars
<1> QED
    BY <1>1, <1>2, <1>3, <1>4, <1>5, <1>6, <1>7, <1>8, <1>9, <1>10, <1>11,
       <1>12, <1>13, <1>14, <1>15, <1>16, <1>17, <1>18, <1>19, <1>20, <1>21,
       <1>22, <1>23, <1>24, <1>25, <1>26
    DEF Next, Application, MainStep, AsyncStep, CameraStep, User

LEMMA Blocks ==
    Types /\ [Next]_vars => BlockChange
<1> SUFFICES ASSUME Types, [Next]_vars
             PROVE  BlockChange
    OBVIOUS
<1> USE DEF system, table, counts, handler, BlockChange
<1>1. CASE Register
    BY <1>1 DEF Register
<1>2. CASE Unregister
    BY <1>2 DEF Unregister
<1>3. CASE Destroy
    BY <1>3 DEF Destroy
<1>4. CASE \E d \in Devices : RequestPermission(d)
    BY <1>4 DEF RequestPermission
<1>5. CASE \E d \in Devices : OpenDevice(d)
    <2>1. PICK d \in Devices : NewBlock(d, FALSE)
        BY <1>5 DEF OpenDevice
    <2> QED
        BY <2>1
<1>6. CASE OpenDevicePut
    BY <1>6 DEF OpenDevicePut
<1>7. CASE CloseRemove
    BY <1>7 DEF CloseRemove
<1>8. CASE DestroyEnd
    BY <1>8 DEF DestroyEnd
<1>9. CASE OnPermission
    BY <1>9 DEF OnPermission
<1>10. CASE OnDetached
    <2> DEFINE b == mCtrlBlocks[Head(inbox)[2]]
    <2>1. (b # 0 /\ Disconnect(b)) \/ UNCHANGED block
        BY <1>10 DEF OnDetached
    <2>2. inbox # <<>>
        BY <1>10 DEF OnDetached, Received
    <2>3. Head(inbox)[2] \in Devices
        BY <2>2 DEF Types, InboxType
    <2>4. b # 0 => b \in 1..Len(block)
        BY <2>3 DEF Types, TableType, BlockType
    <2> QED
        BY <2>1, <2>4
<1>11. CASE Dettach
    BY <1>11 DEF Dettach
<1>12. CASE \E d \in Devices : DestroyNext(d)
    <2>1. PICK d \in Devices : DestroyNext(d)
        BY <1>12
    <2>2. mCtrlBlocks[d] \in 1..Len(block)
        BY <2>1 DEF DestroyNext, Types, TableType, BlockType
    <2>3. Disconnect(mCtrlBlocks[d]) \/ UNCHANGED block
        BY <2>1 DEF DestroyNext
    <2> QED
        BY <2>2, <2>3
<1>13. CASE Check
    BY <1>13 DEF Check
<1>14. CASE Compare
    BY <1>14 DEF Compare
<1>15. CASE CheckThrows
    BY <1>15 DEF CheckThrows
<1>16. CASE RunConnect
    BY <1>16 DEF RunConnect
<1>17. CASE RunOpen
    <2>1. async.dev \in Devices
        BY <1>17, Shapes DEF RunOpen, Types
    <2> QED
        BY <1>17, <2>1 DEF RunOpen
<1>18. CASE RunPut
    BY <1>18 DEF RunPut
<1>19. CASE RunCallback
    BY <1>19 DEF RunCallback
<1>20. CASE CameraClose
    <2>1. PICK b \in 1..Len(block) : Disconnect(b)
        BY <1>20 DEF CameraClose, Types, ThreadsType, CameraType, Idle
    <2> QED
        BY <2>1
<1>21. CASE CameraRemove
    BY <1>21 DEF CameraRemove
<1>22. CASE \E d \in Devices : CameraOpen(d)
    <2>1. PICK d \in Devices : NewBlock(d, TRUE)
        BY <1>22 DEF CameraOpen
    <2> QED
        BY <2>1
<1>23. CASE \E d \in Devices : Plug(d)
    BY <1>23 DEF Plug
<1>24. CASE \E d \in Devices : Unplug(d)
    BY <1>24 DEF Unplug
<1>25. CASE \E d \in Devices : Answer(d)
    BY <1>25 DEF Answer
<1>26. CASE UNCHANGED vars
    BY <1>26 DEF vars
<1> QED
    BY <1>1, <1>2, <1>3, <1>4, <1>5, <1>6, <1>7, <1>8, <1>9, <1>10, <1>11,
       <1>12, <1>13, <1>14, <1>15, <1>16, <1>17, <1>18, <1>19, <1>20, <1>21,
       <1>22, <1>23, <1>24, <1>25, <1>26
    DEF Next, Application, MainStep, AsyncStep, CameraStep, User

LEMMA BlockStep == Types /\ [Next]_vars => BlockType' /\ Kept
<1> SUFFICES ASSUME Types, [Next]_vars PROVE BlockType' /\ Kept
    OBVIOUS
<1>1. BlockChange
    BY Blocks
<1>2. CASE UNCHANGED block
    BY <1>2 DEF Kept, Types, BlockType
<1>3. CASE \E b \in 1..Len(block) : Disconnect(b)
    <2>1. PICK b \in 1..Len(block) : Disconnect(b)
        BY <1>3
    <2> QED
        BY <2>1, Disconnected DEF Kept, Types
<1>4. CASE \E d \in Devices, clone \in BOOLEAN : NewBlock(d, clone)
    <2>1. PICK d \in Devices, clone \in BOOLEAN : NewBlock(d, clone)
        BY <1>4
    <2>2. DOMAIN block \subseteq DOMAIN block'
        BY <2>1, Made DEF Types
    <2> QED
        BY <2>1, <2>2, Made DEF Kept, Types
<1> QED
    BY <1>1, <1>2, <1>3, <1>4 DEF BlockChange

LEMMA TableStep ==
    Types /\ [Next]_vars => TableThen
<1> SUFFICES ASSUME Types, [Next]_vars
             PROVE  TableThen
    OBVIOUS
<1> USE DEF system, table, counts, handler, TableThen, Types, TableType, BlockType
<1>1. CASE Register
    BY <1>1 DEF Register
<1>2. CASE Unregister
    BY <1>2 DEF Unregister
<1>3. CASE Destroy
    BY <1>3 DEF Destroy
<1>4. CASE \E d \in Devices : RequestPermission(d)
    BY <1>4 DEF RequestPermission
<1>5. CASE \E d \in Devices : OpenDevice(d)
    BY <1>5 DEF OpenDevice
<1>6. CASE OpenDevicePut
    <2>1. main.dev \in Devices /\ main.blk \in 1..Len(block) /\ PutEntry(main.dev, main.blk)
        BY <1>6, Shapes DEF OpenDevicePut, Types
    <2> QED
        BY <2>1, Entered DEF Types
<1>7. CASE CloseRemove
    <2>1. main.dev \in Devices /\ RemoveEntry(main.dev)
        BY <1>7, Shapes DEF CloseRemove, Types
    <2> QED
        BY <2>1, Removed DEF Types
<1>8. CASE DestroyEnd
    BY <1>8 DEF DestroyEnd
<1>9. CASE OnPermission
    BY <1>9 DEF OnPermission
<1>10. CASE OnDetached
    <2>1. UNCHANGED lost /\ mCtrlBlocks' = [mCtrlBlocks EXCEPT ![Head(inbox)[2]] = 0]
        BY <1>10 DEF OnDetached
    <2>2. Len(block) \in Nat /\ mCtrlBlocks \in [Devices -> 0..Len(block)]
        BY DEF Types, TableType, BlockType
    <2> DEFINE x == Head(inbox)[2]
               N == Len(block)
    <2>3. mCtrlBlocks' = [mCtrlBlocks EXCEPT ![x] = 0] /\ N \in Nat
            /\ mCtrlBlocks \in [Devices -> 0..N]
        BY <2>1, <2>2
    <2>4. mCtrlBlocks' \in [Devices -> 0..N]
        <3> HIDE DEF x, N, Devices, Types
        <3>1. 0 \in 0..N
            BY <2>3
        <3> QED
            BY <2>3, <3>1
    <2> QED
        BY <2>1, <2>4 DEF Types, TableType
<1>11. CASE Dettach
    BY <1>11 DEF Dettach
<1>12. CASE \E d \in Devices : DestroyNext(d)
    BY <1>12 DEF DestroyNext
<1>13. CASE Check
    BY <1>13 DEF Check
<1>14. CASE Compare
    BY <1>14 DEF Compare
<1>15. CASE CheckThrows
    BY <1>15 DEF CheckThrows
<1>16. CASE RunConnect
    BY <1>16 DEF RunConnect
<1>17. CASE RunOpen
    BY <1>17 DEF RunOpen
<1>18. CASE RunPut
    <2>1. async.dev \in Devices /\ async.blk \in 1..Len(block)
            /\ PutEntry(async.dev, async.blk)
        BY <1>18, Shapes DEF RunPut, Types
    <2> QED
        BY <2>1, Entered DEF Types
<1>19. CASE RunCallback
    BY <1>19 DEF RunCallback
<1>20. CASE CameraClose
    BY <1>20 DEF CameraClose
<1>21. CASE CameraRemove
    <2>1. camera.dev \in Devices /\ RemoveEntry(camera.dev)
        BY <1>21, Shapes DEF CameraRemove, Types
    <2> QED
        BY <2>1, Removed DEF Types
<1>22. CASE \E d \in Devices : CameraOpen(d)
    BY <1>22 DEF CameraOpen
<1>23. CASE \E d \in Devices : Plug(d)
    BY <1>23 DEF Plug
<1>24. CASE \E d \in Devices : Unplug(d)
    BY <1>24 DEF Unplug
<1>25. CASE \E d \in Devices : Answer(d)
    BY <1>25 DEF Answer
<1>26. CASE UNCHANGED vars
    BY <1>26 DEF vars
<1> QED
    BY <1>1, <1>2, <1>3, <1>4, <1>5, <1>6, <1>7, <1>8, <1>9, <1>10, <1>11,
       <1>12, <1>13, <1>14, <1>15, <1>16, <1>17, <1>18, <1>19, <1>20, <1>21,
       <1>22, <1>23, <1>24, <1>25, <1>26
    DEF Next, Application, MainStep, AsyncStep, CameraStep, User

LEMMA QueueStep ==
    Types /\ [Next]_vars => QueueType'
<1> SUFFICES ASSUME Types, [Next]_vars
             PROVE  QueueType'
    OBVIOUS
<1> USE DEF system, table, counts, handler, Types, QueueType
<1>1. CASE Register
    BY <1>1 DEF Register
<1>2. CASE Unregister
    BY <1>2 DEF Unregister, Call, ZeroCounts, RemoveCallbacks
<1>3. CASE Destroy
    BY <1>3 DEF Destroy
<1>4. CASE \E d \in Devices : RequestPermission(d)
    <2>1. PICK d \in Devices : Post("connect", d) \/ Post("cancel", d) \/ UNCHANGED queue
        BY <1>4 DEF RequestPermission, ProcessConnect, ProcessCancel
    <2>2. queue' \in Seq(Tasks \X Devices)
        BY <2>1, Posted DEF Tasks, Types, QueueType
    <2> QED
        BY <1>4, <2>2 DEF RequestPermission, QueueType, Types
<1>5. CASE \E d \in Devices : OpenDevice(d)
    BY <1>5 DEF OpenDevice
<1>6. CASE OpenDevicePut
    BY <1>6 DEF OpenDevicePut
<1>7. CASE CloseRemove
    BY <1>7 DEF CloseRemove
<1>8. CASE DestroyEnd
    BY <1>8 DEF DestroyEnd
<1>9. CASE OnPermission
    <2>1. inbox # <<>>
        BY <1>9 DEF OnPermission, Received
    <2> DEFINE d == Head(inbox)[2]
    <2>2. d \in Devices
        BY <2>1 DEF Types, InboxType
    <2>3. Post("connect", d) \/ Post("cancel", d)
        BY <1>9 DEF OnPermission, ProcessConnect, ProcessCancel
    <2>4. queue' \in Seq(Tasks \X Devices)
        BY <2>2, <2>3, Posted DEF Tasks, Types
    <2> QED
        BY <1>9, <2>4 DEF OnPermission, QueueType, Types
<1>10. CASE OnDetached
    BY <1>10 DEF OnDetached
<1>11. CASE Dettach
    <2>1. main.dev \in Devices /\ Post("dettach", main.dev)
        BY <1>11, Shapes DEF Dettach, Types
    <2>2. queue' \in Seq(Tasks \X Devices)
        BY <2>1, Posted DEF Tasks, Types
    <2> QED
        BY <1>11, <2>2 DEF Dettach, QueueType, Types
<1>12. CASE \E d \in Devices : DestroyNext(d)
    BY <1>12 DEF DestroyNext
<1>13. CASE Check
    BY <1>13 DEF Check
<1>14. CASE Compare
    <2>1. async.devices \in SUBSET Devices /\ (AnnounceAll \/ UNCHANGED queue)
        BY <1>14, Shapes DEF Compare, Types
    <2>2. queue' \in Seq(Tasks \X Devices)
        BY <2>1, Announced DEF Types, QueueType
    <2>3. polls' = polls \/ polls' = polls + 1
        BY <1>14 DEF Compare
    <2> QED
        BY <2>2, <2>3 DEF QueueType, Types
<1>15. CASE CheckThrows
    BY <1>15 DEF CheckThrows
<1>16. CASE RunConnect
    <2>1. queue # <<>> /\ queue' = Tail(queue) /\ UNCHANGED polls
        BY <1>16 DEF RunConnect, Task
    <2> QED
        BY <2>1, TailHas DEF QueueType, Types
<1>17. CASE RunOpen
    BY <1>17 DEF RunOpen
<1>18. CASE RunPut
    BY <1>18 DEF RunPut
<1>19. CASE RunCallback
    <2>1. queue # <<>> /\ queue' = Tail(queue) /\ UNCHANGED polls
        BY <1>19 DEF RunCallback, Task
    <2> QED
        BY <2>1, TailHas DEF QueueType, Types
<1>20. CASE CameraClose
    BY <1>20 DEF CameraClose
<1>21. CASE CameraRemove
    BY <1>21 DEF CameraRemove
<1>22. CASE \E d \in Devices : CameraOpen(d)
    BY <1>22 DEF CameraOpen
<1>23. CASE \E d \in Devices : Plug(d)
    BY <1>23 DEF Plug
<1>24. CASE \E d \in Devices : Unplug(d)
    BY <1>24 DEF Unplug
<1>25. CASE \E d \in Devices : Answer(d)
    BY <1>25 DEF Answer
<1>26. CASE UNCHANGED vars
    BY <1>26 DEF vars
<1> QED
    BY <1>1, <1>2, <1>3, <1>4, <1>5, <1>6, <1>7, <1>8, <1>9, <1>10, <1>11,
       <1>12, <1>13, <1>14, <1>15, <1>16, <1>17, <1>18, <1>19, <1>20, <1>21,
       <1>22, <1>23, <1>24, <1>25, <1>26
    DEF Next, Application, MainStep, AsyncStep, CameraStep, User

LEMMA MainShape ==
    Types /\ Grown /\ [Next]_vars => MainType'
<1> SUFFICES ASSUME Types /\ Grown, [Next]_vars
             PROVE  MainType'
    OBVIOUS
<1> USE DEF system, table, counts, handler
<1>0. UNCHANGED main => MainType'
    BY DEF Types, ThreadsType, MainType, Grown, Idle, Broken
<1>1. CASE Register
    BY <1>0, <1>1 DEF Register
<1>2. CASE Unregister
    BY <1>0, <1>2 DEF Unregister
<1>3. CASE Destroy
    <2>1. main' \in {Idle, [pc |-> "destroy"], [pc |-> "gone"]}
        BY <1>3 DEF Destroy
    <2> QED
        BY <2>1 DEF MainType
<1>4. CASE \E d \in Devices : RequestPermission(d)
    BY <1>0, <1>4 DEF RequestPermission
<1>5. CASE \E d \in Devices : OpenDevice(d)
    <2>1. PICK d \in Devices : NewBlock(d, FALSE) /\ main' = At("put", d, Len(block) + 1)
        BY <1>5 DEF OpenDevice
    <2>2. Len(block) + 1 \in 1..Len(block')
        BY <2>1, Made DEF Types
    <2> QED
        BY <2>1, <2>2 DEF At, MainType
<1>6. CASE OpenDevicePut
    <2>1. main' \in {Idle, [pc |-> "destroy"], [pc |-> "gone"]}
        BY <1>6 DEF OpenDevicePut
    <2> QED
        BY <2>1 DEF MainType
<1>7. CASE CloseRemove
    <2>1. main' \in {[pc |-> "destroy"], At("dettach", main.dev, 0)} /\ main.dev \in Devices
        BY <1>7, Shapes DEF CloseRemove, Types
    <2> QED
        BY <2>1 DEF At, MainType
<1>8. CASE DestroyEnd
    <2>1. main' \in {Idle, [pc |-> "destroy"], [pc |-> "gone"]}
        BY <1>8 DEF DestroyEnd
    <2> QED
        BY <2>1 DEF MainType
<1>9. CASE OnPermission
    BY <1>0, <1>9 DEF OnPermission
<1>10. CASE OnDetached
    <2> DEFINE d == Head(inbox)[2]
    <2>1. inbox # <<>>
        BY <1>10 DEF OnDetached, Received
    <2>2. d \in Devices
        BY <2>1 DEF Types, InboxType
    <2>3. main' \in {At("close", d, "detach"), At("dettach", d, 0)}
        BY <1>10 DEF OnDetached
    <2> HIDE DEF d
    <2> QED
        BY <2>2, <2>3 DEF At, MainType
<1>11. CASE Dettach
    <2>1. main' \in {Idle, [pc |-> "destroy"], [pc |-> "gone"]}
        BY <1>11 DEF Dettach
    <2> QED
        BY <2>1 DEF MainType
<1>12. CASE \E d \in Devices : DestroyNext(d)
    <2>1. PICK d \in Devices : main' \in {At("close", d, "destroy"), main}
        BY <1>12 DEF DestroyNext
    <2> QED
        BY <1>0, <2>1 DEF At, MainType
<1>13. CASE Check
    BY <1>0, <1>13 DEF Check
<1>14. CASE Compare
    BY <1>0, <1>14 DEF Compare
<1>15. CASE CheckThrows
    BY <1>0, <1>15 DEF CheckThrows
<1>16. CASE RunConnect
    BY <1>0, <1>16 DEF RunConnect
<1>17. CASE RunOpen
    BY <1>0, <1>17 DEF RunOpen
<1>18. CASE RunPut
    BY <1>0, <1>18 DEF RunPut
<1>19. CASE RunCallback
    BY <1>0, <1>19 DEF RunCallback
<1>20. CASE CameraClose
    BY <1>0, <1>20 DEF CameraClose
<1>21. CASE CameraRemove
    BY <1>0, <1>21 DEF CameraRemove
<1>22. CASE \E d \in Devices : CameraOpen(d)
    BY <1>0, <1>22 DEF CameraOpen
<1>23. CASE \E d \in Devices : Plug(d)
    BY <1>0, <1>23 DEF Plug
<1>24. CASE \E d \in Devices : Unplug(d)
    BY <1>0, <1>24 DEF Unplug
<1>25. CASE \E d \in Devices : Answer(d)
    BY <1>0, <1>25 DEF Answer
<1>26. CASE UNCHANGED vars
    BY <1>0, <1>26 DEF vars
<1> QED
    BY <1>1, <1>2, <1>3, <1>4, <1>5, <1>6, <1>7, <1>8, <1>9, <1>10, <1>11,
       <1>12, <1>13, <1>14, <1>15, <1>16, <1>17, <1>18, <1>19, <1>20, <1>21,
       <1>22, <1>23, <1>24, <1>25, <1>26
    DEF Next, Application, MainStep, AsyncStep, CameraStep, User

LEMMA AsyncShape ==
    Types /\ Grown /\ [Next]_vars => AsyncType'
<1> SUFFICES ASSUME Types /\ Grown, [Next]_vars
             PROVE  AsyncType'
    OBVIOUS
<1> USE DEF system, table, counts, handler
<1>0. UNCHANGED async => AsyncType'
    BY DEF Types, ThreadsType, AsyncType, Grown, Idle, Broken
<1>1. CASE Register
    BY <1>0, <1>1 DEF Register
<1>2. CASE Unregister
    BY <1>0, <1>2 DEF Unregister
<1>3. CASE Destroy
    BY <1>0, <1>3 DEF Destroy
<1>4. CASE \E d \in Devices : RequestPermission(d)
    BY <1>0, <1>4 DEF RequestPermission
<1>5. CASE \E d \in Devices : OpenDevice(d)
    BY <1>0, <1>5 DEF OpenDevice
<1>6. CASE OpenDevicePut
    BY <1>0, <1>6 DEF OpenDevicePut
<1>7. CASE CloseRemove
    BY <1>0, <1>7 DEF CloseRemove
<1>8. CASE DestroyEnd
    BY <1>0, <1>8 DEF DestroyEnd
<1>9. CASE OnPermission
    BY <1>0, <1>9 DEF OnPermission
<1>10. CASE OnDetached
    BY <1>0, <1>10 DEF OnDetached
<1>11. CASE Dettach
    BY <1>0, <1>11 DEF Dettach
<1>12. CASE \E d \in Devices : DestroyNext(d)
    BY <1>0, <1>12 DEF DestroyNext
<1>13. CASE Check
    <2>1. present \in SUBSET Devices
        BY Present DEF Types
    <2> DEFINE more == Cardinality(present \cap permitted) > Cardinality(mHasPermissions)
    <2>2. /\ async' \in {async,
                         [pc |-> "compare", devices |-> present, more |-> more]}
          /\ async = Idle
        BY <1>13 DEF Check
    <2>3. more \in BOOLEAN
        OBVIOUS
    <2> HIDE DEF more
    <2> QED
        BY <2>1, <2>2, <2>3 DEF AsyncType
<1>14. CASE Compare
    <2>1. async' = Idle
        BY <1>14 DEF Compare
    <2> QED
        BY <2>1 DEF AsyncType
<1>15. CASE CheckThrows
    <2>1. async' = Broken
        BY <1>15 DEF CheckThrows
    <2> QED
        BY <2>1 DEF AsyncType
<1>16. CASE RunConnect
    <2>1. queue # <<>>
        BY <1>16 DEF RunConnect, Task
    <2> DEFINE d == Head(queue)[2]
    <2>2. d \in Devices
        BY <2>1 DEF Types, QueueType
    <2>3. async' \in {At("open", d, 0), Idle}
        BY <1>16 DEF RunConnect
    <2> HIDE DEF d
    <2> QED
        BY <2>2, <2>3 DEF At, AsyncType
<1>17. CASE RunOpen
    <2>1. async.dev \in Devices /\ NewBlock(async.dev, FALSE)
            /\ async' = At("put", async.dev, Len(block) + 1)
        BY <1>17, Shapes DEF RunOpen, Types
    <2>2. Len(block) + 1 \in 1..Len(block')
        BY <2>1, Made DEF Types
    <2> QED
        BY <2>1, <2>2 DEF At, AsyncType
<1>18. CASE RunPut
    <2>1. async' = Idle
        BY <1>18 DEF RunPut
    <2> QED
        BY <2>1 DEF AsyncType
<1>19. CASE RunCallback
    <2>1. async' = async
        BY <1>19 DEF RunCallback
    <2> QED
        BY <1>0, <2>1
<1>20. CASE CameraClose
    BY <1>0, <1>20 DEF CameraClose
<1>21. CASE CameraRemove
    BY <1>0, <1>21 DEF CameraRemove
<1>22. CASE \E d \in Devices : CameraOpen(d)
    BY <1>0, <1>22 DEF CameraOpen
<1>23. CASE \E d \in Devices : Plug(d)
    BY <1>0, <1>23 DEF Plug
<1>24. CASE \E d \in Devices : Unplug(d)
    BY <1>0, <1>24 DEF Unplug
<1>25. CASE \E d \in Devices : Answer(d)
    BY <1>0, <1>25 DEF Answer
<1>26. CASE UNCHANGED vars
    BY <1>0, <1>26 DEF vars
<1> QED
    BY <1>1, <1>2, <1>3, <1>4, <1>5, <1>6, <1>7, <1>8, <1>9, <1>10, <1>11,
       <1>12, <1>13, <1>14, <1>15, <1>16, <1>17, <1>18, <1>19, <1>20, <1>21,
       <1>22, <1>23, <1>24, <1>25, <1>26
    DEF Next, Application, MainStep, AsyncStep, CameraStep, User

LEMMA CameraShape ==
    Types /\ Grown /\ [Next]_vars => CameraType'
<1> SUFFICES ASSUME Types /\ Grown, [Next]_vars
             PROVE  CameraType'
    OBVIOUS
<1> USE DEF system, table, counts, handler
<1>0. UNCHANGED camera => CameraType'
    BY DEF Types, ThreadsType, CameraType, Grown, Idle, Broken
<1>1. CASE Register
    BY <1>0, <1>1 DEF Register
<1>2. CASE Unregister
    BY <1>0, <1>2 DEF Unregister
<1>3. CASE Destroy
    BY <1>0, <1>3 DEF Destroy
<1>4. CASE \E d \in Devices : RequestPermission(d)
    BY <1>0, <1>4 DEF RequestPermission
<1>5. CASE \E d \in Devices : OpenDevice(d)
    BY <1>0, <1>5 DEF OpenDevice
<1>6. CASE OpenDevicePut
    BY <1>0, <1>6 DEF OpenDevicePut
<1>7. CASE CloseRemove
    BY <1>0, <1>7 DEF CloseRemove
<1>8. CASE DestroyEnd
    BY <1>0, <1>8 DEF DestroyEnd
<1>9. CASE OnPermission
    BY <1>0, <1>9 DEF OnPermission
<1>10. CASE OnDetached
    BY <1>0, <1>10 DEF OnDetached
<1>11. CASE Dettach
    BY <1>0, <1>11 DEF Dettach
<1>12. CASE \E d \in Devices : DestroyNext(d)
    BY <1>0, <1>12 DEF DestroyNext
<1>13. CASE Check
    BY <1>0, <1>13 DEF Check
<1>14. CASE Compare
    BY <1>0, <1>14 DEF Compare
<1>15. CASE CheckThrows
    BY <1>0, <1>15 DEF CheckThrows
<1>16. CASE RunConnect
    BY <1>0, <1>16 DEF RunConnect
<1>17. CASE RunOpen
    BY <1>0, <1>17 DEF RunOpen
<1>18. CASE RunPut
    BY <1>0, <1>18 DEF RunPut
<1>19. CASE RunCallback
    BY <1>0, <1>19 DEF RunCallback
<1>20. CASE CameraClose
    <2>1. camera.dev \in Devices /\ camera.blk \in 1..Len(block')
            /\ camera' = At("close", camera.dev, camera.blk)
        BY <1>20, Shapes DEF CameraClose, Types, Grown
    <2> QED
        BY <2>1 DEF At, CameraType
<1>21. CASE CameraRemove
    <2>1. camera' = Idle
        BY <1>21 DEF CameraRemove
    <2> QED
        BY <2>1 DEF CameraType
<1>22. CASE \E d \in Devices : CameraOpen(d)
    <2>1. PICK d \in Devices : NewBlock(d, TRUE) /\ camera' = At("opened", d, Len(block) + 1)
        BY <1>22 DEF CameraOpen
    <2>2. Len(block) + 1 \in 1..Len(block')
        BY <2>1, Made DEF Types
    <2> QED
        BY <2>1, <2>2 DEF At, CameraType
<1>23. CASE \E d \in Devices : Plug(d)
    BY <1>0, <1>23 DEF Plug
<1>24. CASE \E d \in Devices : Unplug(d)
    BY <1>0, <1>24 DEF Unplug
<1>25. CASE \E d \in Devices : Answer(d)
    BY <1>0, <1>25 DEF Answer
<1>26. CASE UNCHANGED vars
    BY <1>0, <1>26 DEF vars
<1> QED
    BY <1>1, <1>2, <1>3, <1>4, <1>5, <1>6, <1>7, <1>8, <1>9, <1>10, <1>11,
       <1>12, <1>13, <1>14, <1>15, <1>16, <1>17, <1>18, <1>19, <1>20, <1>21,
       <1>22, <1>23, <1>24, <1>25, <1>26
    DEF Next, Application, MainStep, AsyncStep, CameraStep, User

LEMMA TypesStep == Types /\ [Next]_vars => Types' /\ Kept
<1> SUFFICES ASSUME Types, [Next]_vars PROVE Types' /\ Kept
    OBVIOUS
<1>1. SystemType' /\ InboxType' /\ CountsType' /\ QueueType'
    BY SystemStep, InboxStep, CountsStep, QueueStep
<1>2. BlockType' /\ Kept
    BY BlockStep
<1>3. /\ DOMAIN block = 1..Len(block) /\ Len(block) \in Nat
      /\ DOMAIN block' = 1..Len(block') /\ Len(block') \in Nat
    BY <1>2 DEF BlockType, Types
<1>4. Len(block) <= Len(block')
    <2>1. CASE Len(block) = 0
        BY <1>3, <2>1
    <2>2. CASE Len(block) # 0
        BY <1>2, <1>3, <2>2 DEF Kept
    <2> QED
        BY <2>1, <2>2
<1>5. Grown
    BY <1>3, <1>4 DEF Grown
<1>6. TableType'
    <2>1. TableThen
        BY TableStep
    <2>2. 0..Len(block) \subseteq 0..Len(block')
        BY <1>3, <1>4
    <2>3. mCtrlBlocks' \in [Devices -> 0..Len(block')]
        BY <2>1, <2>2 DEF TableThen
    <2> QED
        BY <1>2, <2>1, <2>3 DEF TableThen, TableType, Kept
<1>7. ThreadsType'
    BY <1>5, MainShape, AsyncShape, CameraShape DEF ThreadsType
<1> QED
    BY <1>1, <1>2, <1>6, <1>7 DEF Types

\* Broadcasts: a detach comes once, from a device that has gone.
LEMMA GoneStep ==
    Types /\ DetachedInv /\ [Next]_vars => GoneNext
<1> SUFFICES ASSUME Types /\ DetachedInv, [Next]_vars
             PROVE  GoneNext
    OBVIOUS
<1> USE DEF system, table, counts, handler, GoneNext, DetachedInv
<1>0. UNCHANGED <<plugs, present, inbox>> => GoneNext
    BY DEF Has, Gone
<1>1. CASE Register
    BY <1>0, <1>1 DEF Register
<1>2. CASE Unregister
    <2>1. inbox' = <<>> /\ UNCHANGED <<plugs, present>>
        BY <1>2 DEF Unregister
    <2>2. \A x : ~Has(inbox', x)
        BY <2>1 DEF Has
    <2>3. \A x : Gone(x)' <=> Gone(x)
        BY <2>1 DEF Gone
    <2> QED
        BY <2>2, <2>3
<1>3. CASE Destroy
    <2>1. inbox' = <<>> /\ UNCHANGED <<plugs, present>>
        BY <1>3 DEF Destroy
    <2>2. \A x : ~Has(inbox', x)
        BY <2>1 DEF Has
    <2>3. \A x : Gone(x)' <=> Gone(x)
        BY <2>1 DEF Gone
    <2> QED
        BY <2>2, <2>3
<1>4. CASE \E d \in Devices : RequestPermission(d)
    BY <1>0, <1>4 DEF RequestPermission
<1>5. CASE \E d \in Devices : OpenDevice(d)
    BY <1>0, <1>5 DEF OpenDevice
<1>6. CASE OpenDevicePut
    BY <1>0, <1>6 DEF OpenDevicePut
<1>7. CASE CloseRemove
    BY <1>0, <1>7 DEF CloseRemove
<1>8. CASE DestroyEnd
    BY <1>0, <1>8 DEF DestroyEnd
<1>9. CASE OnPermission
    <2>1. inbox # <<>> /\ inbox' = Tail(inbox) /\ UNCHANGED <<plugs, present>>
        BY <1>9 DEF OnPermission, Received
    <2>2. \A x : Has(inbox', x) => Has(inbox, x)
        BY <2>1, TailHas DEF Types, InboxType
    <2>3. \A x : Gone(x)' <=> Gone(x)
        BY <2>1 DEF Gone
    <2> QED
        BY <2>2, <2>3
<1>10. CASE OnDetached
    <2>1. inbox # <<>> /\ inbox' = Tail(inbox) /\ UNCHANGED <<plugs, present>>
        BY <1>10 DEF OnDetached, Received
    <2>2. \A x : Has(inbox', x) => Has(inbox, x)
        BY <2>1, TailHas DEF Types, InboxType
    <2>3. \A x : Gone(x)' <=> Gone(x)
        BY <2>1 DEF Gone
    <2> QED
        BY <2>2, <2>3
<1>11. CASE Dettach
    BY <1>0, <1>11 DEF Dettach
<1>12. CASE \E d \in Devices : DestroyNext(d)
    BY <1>0, <1>12 DEF DestroyNext
<1>13. CASE Check
    BY <1>0, <1>13 DEF Check
<1>14. CASE Compare
    BY <1>0, <1>14 DEF Compare
<1>15. CASE CheckThrows
    BY <1>0, <1>15 DEF CheckThrows
<1>16. CASE RunConnect
    BY <1>0, <1>16 DEF RunConnect
<1>17. CASE RunOpen
    BY <1>0, <1>17 DEF RunOpen
<1>18. CASE RunPut
    BY <1>0, <1>18 DEF RunPut
<1>19. CASE RunCallback
    BY <1>0, <1>19 DEF RunCallback
<1>20. CASE CameraClose
    BY <1>0, <1>20 DEF CameraClose
<1>21. CASE CameraRemove
    BY <1>0, <1>21 DEF CameraRemove
<1>22. CASE \E d \in Devices : CameraOpen(d)
    BY <1>0, <1>22 DEF CameraOpen
<1>23. CASE \E d \in Devices : Plug(d)
    <2>1. /\ plugs' = plugs + 1 /\ plugs \in Nat /\ present' = present \cup {plugs + 1}
          /\ UNCHANGED inbox
        BY <1>23, MonitorAssumption DEF Plug, Types, SystemType
    <2>2. \A d : Gone(d) => Gone(d)'
        BY <2>1 DEF Gone
    <2> QED
        BY <2>1, <2>2
<1>24. CASE \E d \in Devices : Unplug(d)
    <2>1. PICK u \in present : /\ Broadcast("detached", u) /\ UNCHANGED plugs
                               /\ present' = present \ {u} /\ u \in Devices
        BY <1>24 DEF Unplug
    <2>2. \A x : Has(inbox', x) => Has(inbox, x) \/ x = <<"detached", u>>
        BY <2>1, Heard DEF Types
    <2>3. Gone(u)' /\ u \in Devices /\ ~Gone(u)
        BY <2>1 DEF Gone, Types, SystemType
    <2>4. \A d : Gone(d) => Gone(d)'
        BY <2>1 DEF Gone
    <2> QED
        BY <2>2, <2>3, <2>4
<1>25. CASE \E d \in Devices : Answer(d)
    <2>1. PICK d \in Devices, k \in {"granted", "denied"} :
              Broadcast(k, d) /\ UNCHANGED <<present, plugs>>
        BY <1>25 DEF Answer
    <2>2. \A x : Has(inbox', x) => Has(inbox, x) \/ x = <<k, d>>
        BY <2>1, Heard DEF Types
    <2>3. \A x : k # "detached" /\ <<k, d>> # <<"detached", x>>
        OBVIOUS
    <2>4. \A x : Gone(x)' <=> Gone(x)
        BY <2>1 DEF Gone
    <2> QED
        BY <2>2, <2>3, <2>4
<1>26. CASE UNCHANGED vars
    BY <1>0, <1>26 DEF vars
<1> QED
    BY <1>1, <1>2, <1>3, <1>4, <1>5, <1>6, <1>7, <1>8, <1>9, <1>10, <1>11,
       <1>12, <1>13, <1>14, <1>15, <1>16, <1>17, <1>18, <1>19, <1>20, <1>21,
       <1>22, <1>23, <1>24, <1>25, <1>26
    DEF Next, Application, MainStep, AsyncStep, CameraStep, User

LEMMA OnceStep ==
    Types /\ DetachedInv /\ OnceInv /\ [Next]_vars => OnceInv'
<1> SUFFICES ASSUME Types /\ DetachedInv /\ OnceInv, [Next]_vars
             PROVE  OnceInv'
    OBVIOUS
<1> USE DEF system, table, counts, handler, OnceInv
<1>1. CASE Register
    BY <1>1 DEF Register
<1>2. CASE Unregister
    BY <1>2 DEF Unregister
<1>3. CASE Destroy
    BY <1>3 DEF Destroy
<1>4. CASE \E d \in Devices : RequestPermission(d)
    BY <1>4 DEF RequestPermission
<1>5. CASE \E d \in Devices : OpenDevice(d)
    BY <1>5 DEF OpenDevice
<1>6. CASE OpenDevicePut
    BY <1>6 DEF OpenDevicePut
<1>7. CASE CloseRemove
    BY <1>7 DEF CloseRemove
<1>8. CASE DestroyEnd
    BY <1>8 DEF DestroyEnd
<1>9. CASE OnPermission
    <2>1. inbox # <<>> /\ inbox' = Tail(inbox) /\ Len(inbox) \in Nat
        BY <1>9 DEF OnPermission, Received, Types, InboxType
    <2>2. \A i \in DOMAIN inbox' : /\ i \in Nat /\ i + 1 \in DOMAIN inbox
                                   /\ inbox'[i] = inbox[i + 1]
        BY <2>1 DEF Types, InboxType
    <2> QED
        BY <2>2
<1>10. CASE OnDetached
    <2>1. inbox # <<>> /\ inbox' = Tail(inbox) /\ Len(inbox) \in Nat
        BY <1>10 DEF OnDetached, Received, Types, InboxType
    <2>2. \A i \in DOMAIN inbox' : /\ i \in Nat /\ i + 1 \in DOMAIN inbox
                                   /\ inbox'[i] = inbox[i + 1]
        BY <2>1 DEF Types, InboxType
    <2> QED
        BY <2>2
<1>11. CASE Dettach
    BY <1>11 DEF Dettach
<1>12. CASE \E d \in Devices : DestroyNext(d)
    BY <1>12 DEF DestroyNext
<1>13. CASE Check
    BY <1>13 DEF Check
<1>14. CASE Compare
    BY <1>14 DEF Compare
<1>15. CASE CheckThrows
    BY <1>15 DEF CheckThrows
<1>16. CASE RunConnect
    BY <1>16 DEF RunConnect
<1>17. CASE RunOpen
    BY <1>17 DEF RunOpen
<1>18. CASE RunPut
    BY <1>18 DEF RunPut
<1>19. CASE RunCallback
    BY <1>19 DEF RunCallback
<1>20. CASE CameraClose
    BY <1>20 DEF CameraClose
<1>21. CASE CameraRemove
    BY <1>21 DEF CameraRemove
<1>22. CASE \E d \in Devices : CameraOpen(d)
    BY <1>22 DEF CameraOpen
<1>23. CASE \E d \in Devices : Plug(d)
    BY <1>23 DEF Plug
<1>24. CASE \E d \in Devices : Unplug(d)
    <2>1. PICK u \in present : Broadcast("detached", u) /\ u \in Devices
        BY <1>24 DEF Unplug
    <2>2. \A i \in DOMAIN inbox : inbox[i] # <<"detached", u>>
        BY <2>1 DEF DetachedInv, Has, Gone
    <2>3. CASE inbox' = inbox
        BY <2>3
    <2>4. CASE inbox' = Append(inbox, <<"detached", u>>)
        BY <2>2, <2>4, Appended DEF Types, InboxType
    <2> QED
        BY <2>1, <2>3, <2>4 DEF Broadcast
<1>25. CASE \E d \in Devices : Answer(d)
    <2>1. PICK d \in Devices, k \in {"granted", "denied"} : Broadcast(k, d)
        BY <1>25 DEF Answer
    <2>2. <<k, d>>[1] # "detached"
        OBVIOUS
    <2>3. CASE inbox' = inbox
        BY <2>3
    <2>4. CASE inbox' = Append(inbox, <<k, d>>)
        BY <2>2, <2>4, Appended DEF Types, InboxType
    <2> QED
        BY <2>1, <2>3, <2>4 DEF Broadcast
<1>26. CASE UNCHANGED vars
    BY <1>26 DEF vars
<1> QED
    BY <1>1, <1>2, <1>3, <1>4, <1>5, <1>6, <1>7, <1>8, <1>9, <1>10, <1>11,
       <1>12, <1>13, <1>14, <1>15, <1>16, <1>17, <1>18, <1>19, <1>20, <1>21,
       <1>22, <1>23, <1>24, <1>25, <1>26
    DEF Next, Application, MainStep, AsyncStep, CameraStep, User

\* The two hands, before and after a step.
LEMMA Hands ==
    /\ \A b : b \in InHand <=> \/ main.pc = "put" /\ b = main.blk
                               \/ async.pc = "put" /\ b = async.blk
    /\ \A b : b \in InHand' <=> \/ main'.pc = "put" /\ b = main'.blk
                                \/ async'.pc = "put" /\ b = async'.blk
    BY DEF InHand

\* What becomes of the open blocks when one is put into the table,
LEMMA PutCarries ==
    ASSUME Types, NEW d \in Devices, NEW k \in 1..Len(block), block[k].dev = d,
           PutEntry(d, k), UNCHANGED <<block, present, inbox, destroyed>>,
           InHand \subseteq InHand' \cup {k}
    PROVE  Carried
<1>1. OpenBlocks' = OpenBlocks
    BY DEF OpenBlocks
<1>2. /\ mCtrlBlocks' = [mCtrlBlocks EXCEPT ![d] = k]
      /\ lost \subseteq lost' /\ InTable(d) \cap OpenBlocks \subseteq lost'
      /\ k \in lost' \/ ~(destroyed \/ Forsaken(d))
    BY DEF PutEntry
<1>3. ASSUME NEW b \in OpenBlocks, mCtrlBlocks[block[b].dev] = b
      PROVE  mCtrlBlocks'[block[b].dev] = b \/ b \in lost'
    <2>1. b # 0 /\ block[b].dev \in Devices
        BY Opened DEF Types
    <2>2. CASE block[b].dev = d
        BY <1>2, <1>3, <2>1, <2>2 DEF InTable
    <2>3. CASE block[b].dev # d
        BY <1>2, <1>3, <2>1, <2>3 DEF Types, TableType
    <2> QED
        BY <2>2, <2>3
<1>4. mCtrlBlocks'[d] = k
    BY <1>2 DEF Types, TableType
<1>5. ~(destroyed \/ Forsaken(d)) => Known(k)'
    BY DEF Known, Forsaken
<1>6. ASSUME NEW b \in InHand
      PROVE  \/ b \in InHand' \cup lost'
             \/ mCtrlBlocks'[block[b].dev] = b /\ Known(b)'
    BY <1>2, <1>4, <1>5
<1> QED
    BY <1>1, <1>2, <1>3, <1>6 DEF Carried

\* when an entry is removed,
LEMMA RemoveCarries ==
    ASSUME Types, NEW d \in Devices, RemoveEntry(d), UNCHANGED block,
           InHand \subseteq InHand'
    PROVE  Carried
<1>1. OpenBlocks' = OpenBlocks
    BY DEF OpenBlocks
<1>2. /\ mCtrlBlocks' = [mCtrlBlocks EXCEPT ![d] = 0]
      /\ lost \subseteq lost' /\ InTable(d) \cap OpenBlocks \subseteq lost'
    BY DEF RemoveEntry
<1>3. ASSUME NEW b \in OpenBlocks, mCtrlBlocks[block[b].dev] = b
      PROVE  mCtrlBlocks'[block[b].dev] = b \/ b \in lost'
    <2>1. b # 0 /\ block[b].dev \in Devices
        BY Opened DEF Types
    <2>2. CASE block[b].dev = d
        BY <1>2, <1>3, <2>1, <2>2 DEF InTable
    <2>3. CASE block[b].dev # d
        BY <1>2, <1>3, <2>1, <2>3 DEF Types, TableType
    <2> QED
        BY <2>2, <2>3
<1> QED
    BY <1>1, <1>2, <1>3 DEF Carried

\* when the block of an entry is closed and the entry removed,
LEMMA CloseCarries ==
    ASSUME Types, NEW d \in Devices, NEW k, k = mCtrlBlocks[d],
           mCtrlBlocks' = [mCtrlBlocks EXCEPT ![d] = 0], UNCHANGED lost,
           IF k # 0 /\ block[k].conn = "open" THEN Disconnect(k) ELSE UNCHANGED block,
           InHand \subseteq InHand'
    PROVE  Carried
<1>1. k \in 1..Len(block) \/ k = 0
    BY DEF Types, TableType, BlockType
<1>2. OpenBlocks' \subseteq OpenBlocks \ {k}
    <2>1. CASE k # 0 /\ block[k].conn = "open"
        <3>1. /\ DOMAIN block' = DOMAIN block
              /\ \A c \in DOMAIN block :
                    /\ block'[c].clone = block[c].clone
                    /\ block'[c].conn = "open" => block[c].conn = "open" /\ c # k
            BY <1>1, <2>1, Disconnected DEF Types
        <3> QED
            BY <3>1 DEF OpenBlocks
    <2>2. CASE ~(k # 0 /\ block[k].conn = "open")
        BY <2>2, Opened DEF OpenBlocks, Types
    <2> QED
        BY <2>1, <2>2
<1>3. ASSUME NEW b \in OpenBlocks', mCtrlBlocks[block[b].dev] = b
      PROVE  mCtrlBlocks'[block[b].dev] = b
    <2>1. block[b].dev \in Devices /\ b # k
        BY <1>2, Opened DEF Types
    <2>2. block[b].dev # d
        BY <1>3, <2>1
    <2> QED
        BY <1>3, <2>1, <2>2 DEF Types, TableType
<1> QED
    BY <1>2, <1>3 DEF Carried

\* and when one is made.
LEMMA MakeCarries ==
    ASSUME Types, NEW d \in Devices, NEW clone \in BOOLEAN, NewBlock(d, clone),
           UNCHANGED <<mCtrlBlocks, lost>>, InHand \subseteq InHand',
           ~clone => Len(block) + 1 \in InHand'
    PROVE  Carried
<1>1. /\ DOMAIN block' = DOMAIN block \cup {Len(block) + 1}
      /\ \A c \in DOMAIN block : block'[c] = block[c]
      /\ block'[Len(block) + 1].clone = clone
    BY Made DEF Types
<1>2. \A b \in OpenBlocks' : b \in OpenBlocks \/ b \in InHand'
    BY <1>1 DEF OpenBlocks
<1> QED
    BY <1>2 DEF Carried

\* The open blocks, action by action.
LEMMA Carrying == Types /\ HandsInv /\ [Next]_vars => Carried
<1> SUFFICES ASSUME Types /\ HandsInv, [Next]_vars
             PROVE  Carried
    OBVIOUS
<1> USE DEF system, table, counts, handler
<1>0. UNCHANGED table /\ InHand \subseteq InHand' => Carried
    BY DEF Carried, OpenBlocks, table
<1>1. CASE Register
    <2>1. UNCHANGED table /\ InHand \subseteq InHand'
        BY <1>1, Hands DEF Register, table, Idle, ZeroCounts
    <2> QED
        BY <1>0, <2>1
<1>2. CASE Unregister
    <2>1. UNCHANGED table /\ InHand \subseteq InHand'
        BY <1>2, Hands DEF Unregister, table, Idle, Call, ZeroCounts, RemoveCallbacks
    <2> QED
        BY <1>0, <2>1
<1>3. CASE Destroy
    <2>1. UNCHANGED table /\ InHand \subseteq InHand'
        BY <1>3, Hands DEF Destroy, table, Idle, Call, ZeroCounts
    <2> QED
        BY <1>0, <2>1
<1>4. CASE \E d \in Devices : RequestPermission(d)
    <2>1. UNCHANGED table /\ InHand \subseteq InHand'
        BY <1>4, Hands DEF RequestPermission, table, Idle, Call,
           ProcessConnect, ProcessCancel, Post
    <2> QED
        BY <1>0, <2>1
<1>5. CASE \E d \in Devices : OpenDevice(d)
    <2>1. PICK d \in Devices : NewBlock(d, FALSE)
        BY <1>5, Shapes DEF OpenDevice, Types
    <2>2. UNCHANGED <<mCtrlBlocks, lost>>
        BY <1>5 DEF OpenDevice
    <2>3. InHand \subseteq InHand' /\ (~FALSE => Len(block) + 1 \in InHand')
        BY <1>5, Hands DEF OpenDevice, Call, Idle, At
    <2> QED
        BY <2>1, <2>2, <2>3, MakeCarries
<1>6. CASE OpenDevicePut
    <2>1. /\ PutEntry(main.dev, main.blk) /\ main' = Idle /\ main.pc = "put"
          /\ UNCHANGED <<block, present, inbox, destroyed, async>>
        BY <1>6 DEF OpenDevicePut
    <2>2. /\ main.dev \in Devices /\ main.blk \in 1..Len(block)
          /\ block[main.blk].dev = main.dev
        BY <2>1, Shapes DEF Types, HandsInv
    <2>3. InHand \subseteq InHand' \cup {main.blk}
        BY <2>1, Hands
    <2> QED
        BY <2>1, <2>2, <2>3, PutCarries
<1>7. CASE CloseRemove
    <2>1. RemoveEntry(main.dev) /\ UNCHANGED block /\ main.dev \in Devices
        BY <1>7, Shapes DEF CloseRemove, Types
    <2>2. InHand \subseteq InHand'
        BY <1>7, Hands DEF CloseRemove, At
    <2> QED
        BY <2>1, <2>2, RemoveCarries
<1>8. CASE DestroyEnd
    <2>1. /\ UNCHANGED <<block, lost>> /\ InHand \subseteq InHand'
          /\ \A d \in Devices : InTable(d) \subseteq lost
        BY <1>8, Hands DEF DestroyEnd
    <2>2. OpenBlocks' = OpenBlocks
        BY <2>1 DEF OpenBlocks
    <2>3. ASSUME NEW b \in OpenBlocks, mCtrlBlocks[block[b].dev] = b PROVE b \in lost'
        <3>1. b # 0 /\ block[b].dev \in Devices
            BY Opened DEF Types
        <3>2. b \in InTable(block[b].dev)
            BY <2>3, <3>1 DEF InTable
        <3> QED
            BY <2>1, <3>1, <3>2
    <2> QED
        BY <2>1, <2>2, <2>3 DEF Carried
<1>9. CASE OnPermission
    <2>1. UNCHANGED table /\ InHand \subseteq InHand'
        BY <1>9, Hands DEF OnPermission, table, Idle, Received, ProcessConnect,
           ProcessCancel, Post
    <2> QED
        BY <1>0, <2>1
<1>10. CASE OnDetached
    <2> DEFINE d == Head(inbox)[2]
    <2>1. OnDetached
        BY <1>10
    <2>0. d \in Devices
        <3>1. inbox # <<>>
            BY <2>1 DEF OnDetached, Received
        <3> QED
            BY <3>1 DEF Types, InboxType
    <2>2. /\ mCtrlBlocks' = [mCtrlBlocks EXCEPT ![d] = 0] /\ UNCHANGED lost
          /\ IF mCtrlBlocks[d] # 0 /\ block[mCtrlBlocks[d]].conn = "open"
             THEN Disconnect(mCtrlBlocks[d]) ELSE UNCHANGED block
        BY <2>1 DEF OnDetached
    <2>3. InHand \subseteq InHand'
        BY <2>1, Hands DEF OnDetached, Received, Idle, At
    <2> QED
        BY <2>0, <2>2, <2>3, CloseCarries
<1>11. CASE Dettach
    <2>1. UNCHANGED table /\ InHand \subseteq InHand'
        BY <1>11, Hands DEF Dettach, table, Idle, ZeroCounts, Post, Idle
    <2> QED
        BY <1>0, <2>1
<1>12. CASE \E d \in Devices : DestroyNext(d)
    <2>0. PICK d \in Devices : DestroyNext(d)
        BY <1>12
    <2>1. DestroyNext(d)
        BY <2>0
    <2>2. /\ mCtrlBlocks' = [mCtrlBlocks EXCEPT ![d] = 0] /\ UNCHANGED lost
          /\ IF mCtrlBlocks[d] # 0 /\ block[mCtrlBlocks[d]].conn = "open"
             THEN Disconnect(mCtrlBlocks[d]) ELSE UNCHANGED block
        BY <2>1 DEF DestroyNext
    <2>3. InHand \subseteq InHand'
        BY <2>1, Hands DEF DestroyNext, Received, Idle, At
    <2> QED
        BY <2>0, <2>2, <2>3, CloseCarries
<1>13. CASE Check
    <2>1. UNCHANGED table /\ InHand \subseteq InHand'
        BY <1>13, Hands DEF Check, table, Idle
    <2> QED
        BY <1>0, <2>1
<1>14. CASE Compare
    <2>1. UNCHANGED table /\ InHand \subseteq InHand'
        BY <1>14, Hands DEF Compare, table, Idle, AnnounceAll
    <2> QED
        BY <1>0, <2>1
<1>15. CASE CheckThrows
    <2>1. UNCHANGED table /\ InHand \subseteq InHand'
        BY <1>15, Hands DEF CheckThrows, table, Idle
    <2> QED
        BY <1>0, <2>1
<1>16. CASE RunConnect
    <2>1. UNCHANGED table /\ InHand \subseteq InHand'
        BY <1>16, Hands DEF RunConnect, table, Idle, Task, At
    <2> QED
        BY <1>0, <2>1
<1>17. CASE RunOpen
    <2>1. PICK d \in Devices : NewBlock(d, FALSE)
        BY <1>17, Shapes DEF RunOpen, Types
    <2>2. UNCHANGED <<mCtrlBlocks, lost>>
        BY <1>17 DEF RunOpen
    <2>3. InHand \subseteq InHand' /\ (~FALSE => Len(block) + 1 \in InHand')
        BY <1>17, Hands DEF RunOpen, Idle, At
    <2> QED
        BY <2>1, <2>2, <2>3, MakeCarries
<1>18. CASE RunPut
    <2>1. /\ PutEntry(async.dev, async.blk) /\ async' = Idle /\ async.pc = "put"
          /\ UNCHANGED <<block, present, inbox, destroyed, main>>
        BY <1>18 DEF RunPut
    <2>2. /\ async.dev \in Devices /\ async.blk \in 1..Len(block)
          /\ block[async.blk].dev = async.dev
        BY <2>1, Shapes DEF Types, HandsInv
    <2>3. InHand \subseteq InHand' \cup {async.blk}
        BY <2>1, Hands
    <2> QED
        BY <2>1, <2>2, <2>3, PutCarries
<1>19. CASE RunCallback
    <2>1. UNCHANGED table /\ InHand \subseteq InHand'
        BY <1>19, Hands DEF RunCallback, table, Idle, Task
    <2> QED
        BY <1>0, <2>1
<1>20. CASE CameraClose
    <2>1. Disconnect(camera.blk) /\ UNCHANGED <<mCtrlBlocks, lost>> /\ InHand \subseteq InHand'
        BY <1>20, Hands DEF CameraClose
    <2>2. camera.blk \in 1..Len(block)
        BY <1>20, Shapes DEF CameraClose, Types
    <2>3. OpenBlocks' \subseteq OpenBlocks
        BY <2>1, <2>2, Disconnected DEF OpenBlocks, Types
    <2> QED
        BY <2>1, <2>3 DEF Carried
<1>21. CASE CameraRemove
    <2>1. RemoveEntry(camera.dev) /\ UNCHANGED block /\ camera.dev \in Devices
        BY <1>21, Shapes DEF CameraRemove, Types
    <2>2. InHand \subseteq InHand'
        BY <1>21, Hands DEF CameraRemove, At
    <2> QED
        BY <2>1, <2>2, RemoveCarries
<1>22. CASE \E d \in Devices : CameraOpen(d)
    <2>1. PICK d \in Devices : NewBlock(d, TRUE)
        BY <1>22, Shapes DEF CameraOpen, Types
    <2>2. UNCHANGED <<mCtrlBlocks, lost>>
        BY <1>22 DEF CameraOpen
    <2>3. InHand \subseteq InHand' /\ (~TRUE => Len(block) + 1 \in InHand')
        BY <1>22, Hands DEF CameraOpen, Idle, At
    <2> QED
        BY <2>1, <2>2, <2>3, MakeCarries
<1>23. CASE \E d \in Devices : Plug(d)
    <2>1. UNCHANGED table /\ InHand \subseteq InHand'
        BY <1>23, Hands DEF Plug, table, Idle
    <2> QED
        BY <1>0, <2>1
<1>24. CASE \E d \in Devices : Unplug(d)
    <2>1. UNCHANGED table /\ InHand \subseteq InHand'
        BY <1>24, Hands DEF Unplug, table, Idle, Broadcast
    <2> QED
        BY <1>0, <2>1
<1>25. CASE \E d \in Devices : Answer(d)
    <2>1. UNCHANGED table /\ InHand \subseteq InHand'
        BY <1>25, Hands DEF Answer, table, Idle, Broadcast
    <2> QED
        BY <1>0, <2>1
<1>26. CASE UNCHANGED vars
    BY <1>0, <1>26, Hands DEF vars
<1> QED
    BY <1>1, <1>2, <1>3, <1>4, <1>5, <1>6, <1>7, <1>8, <1>9, <1>10, <1>11,
       <1>12, <1>13, <1>14, <1>15, <1>16, <1>17, <1>18, <1>19, <1>20, <1>21,
       <1>22, <1>23, <1>24, <1>25, <1>26
    DEF Next, Application, MainStep, AsyncStep, CameraStep, User

\* The device of a block in hand.
LEMMA HandsStep ==
    Types /\ HandsInv /\ Kept /\ [Next]_vars => HandsInv'
<1> SUFFICES ASSUME Types /\ HandsInv /\ Kept, [Next]_vars
             PROVE  HandsInv'
    OBVIOUS
<1> USE DEF system, table, counts, handler, HandsInv
<1>0. /\ main.pc = "put" => block'[main.blk].dev = main.dev
      /\ async.pc = "put" => block'[async.blk].dev = async.dev
    <2>1. DOMAIN block = 1..Len(block)
        BY DEF Types, BlockType
    <2> QED
        BY <2>1, Shapes DEF Types, Kept
<1> USE DEF At, Idle, Broken
<1>1. CASE Register
    BY <1>0, <1>1 DEF Register
<1>2. CASE Unregister
    BY <1>0, <1>2 DEF Unregister
<1>3. CASE Destroy
    BY <1>0, <1>3 DEF Destroy
<1>4. CASE \E d \in Devices : RequestPermission(d)
    BY <1>0, <1>4 DEF RequestPermission
<1>5. CASE \E d \in Devices : OpenDevice(d)
    <2>1. PICK d \in Devices : NewBlock(d, FALSE) /\ main' = At("put", d, Len(block) + 1)
        BY <1>5, Shapes DEF OpenDevice, Types
    <2>2. UNCHANGED async
        BY <1>5 DEF OpenDevice
    <2>3. block'[Len(block) + 1].dev = d
        BY <2>1, Made DEF Types
    <2>4. main'.pc = "put" => block'[main'.blk].dev = main'.dev
        BY <2>1, <2>3 DEF At
    <2> QED
        BY <1>0, <2>2, <2>4
<1>6. CASE OpenDevicePut
    BY <1>0, <1>6 DEF OpenDevicePut
<1>7. CASE CloseRemove
    BY <1>0, <1>7 DEF CloseRemove
<1>8. CASE DestroyEnd
    BY <1>0, <1>8 DEF DestroyEnd
<1>9. CASE OnPermission
    BY <1>0, <1>9 DEF OnPermission
<1>10. CASE OnDetached
    BY <1>0, <1>10 DEF OnDetached
<1>11. CASE Dettach
    BY <1>0, <1>11 DEF Dettach
<1>12. CASE \E d \in Devices : DestroyNext(d)
    BY <1>0, <1>12 DEF DestroyNext
<1>13. CASE Check
    BY <1>0, <1>13 DEF Check
<1>14. CASE Compare
    BY <1>0, <1>14 DEF Compare
<1>15. CASE CheckThrows
    BY <1>0, <1>15 DEF CheckThrows
<1>16. CASE RunConnect
    BY <1>0, <1>16 DEF RunConnect
<1>17. CASE RunOpen
    <2>1. PICK d \in Devices : NewBlock(d, FALSE) /\ async' = At("put", d, Len(block) + 1)
        BY <1>17, Shapes DEF RunOpen, Types
    <2>2. UNCHANGED main
        BY <1>17 DEF RunOpen
    <2>3. block'[Len(block) + 1].dev = d
        BY <2>1, Made DEF Types
    <2>4. async'.pc = "put" => block'[async'.blk].dev = async'.dev
        BY <2>1, <2>3 DEF At
    <2> QED
        BY <1>0, <2>2, <2>4
<1>18. CASE RunPut
    BY <1>0, <1>18 DEF RunPut
<1>19. CASE RunCallback
    BY <1>0, <1>19 DEF RunCallback
<1>20. CASE CameraClose
    BY <1>0, <1>20 DEF CameraClose
<1>21. CASE CameraRemove
    BY <1>0, <1>21 DEF CameraRemove
<1>22. CASE \E d \in Devices : CameraOpen(d)
    BY <1>0, <1>22 DEF CameraOpen
<1>23. CASE \E d \in Devices : Plug(d)
    BY <1>0, <1>23 DEF Plug
<1>24. CASE \E d \in Devices : Unplug(d)
    BY <1>0, <1>24 DEF Unplug
<1>25. CASE \E d \in Devices : Answer(d)
    BY <1>0, <1>25 DEF Answer
<1>26. CASE UNCHANGED vars
    BY <1>0, <1>26 DEF vars
<1> QED
    BY <1>1, <1>2, <1>3, <1>4, <1>5, <1>6, <1>7, <1>8, <1>9, <1>10, <1>11,
       <1>12, <1>13, <1>14, <1>15, <1>16, <1>17, <1>18, <1>19, <1>20, <1>21,
       <1>22, <1>23, <1>24, <1>25, <1>26
    DEF Next, Application, MainStep, AsyncStep, CameraStep, User

\* The blocks that only the table knows are tracked.
LEMMA TrackedStep ==
    ASSUME Types, Kept, Tracked, Carried
    PROVE  TrackedNext
<1>1. ASSUME NEW b \in OpenBlocks'
      PROVE  /\ mCtrlBlocks'[block'[b].dev] = b \/ b \in InHand' \cup lost'
             /\ b \in InHand' \/ block'[b].dev = block[b].dev
             /\ b \in Loose' => b \in Loose \/ Known(b)'
    <2>1. CASE b \in InHand'
        BY <2>1 DEF Loose
    <2>2. CASE b \notin InHand'
        <3>1. b \in OpenBlocks
            BY <2>2 DEF Carried
        <3>2. block'[b].dev = block[b].dev
            BY <3>1 DEF OpenBlocks, Kept
        <3>3. CASE b \in InHand
            BY <2>2, <3>2, <3>3 DEF Carried, Loose
        <3>4. CASE b \in lost
            BY <3>2, <3>4 DEF Carried, Loose
        <3>5. CASE b \notin InHand \cup lost
            <4>1. mCtrlBlocks[block[b].dev] = b /\ b \in Loose
                BY <3>1, <3>5 DEF Tracked, Loose
            <4> QED
                BY <3>1, <3>2, <4>1 DEF Carried
        <3> QED
            BY <3>3, <3>4, <3>5
    <2> QED
        BY <2>1, <2>2
<1> QED
    BY <1>1 DEF TrackedNext, Tracked, Loose

\* onDettach and destroy.
LEMMA OnWayStep ==
    Types /\ [Next]_vars => OnWayFrom
<1> SUFFICES ASSUME Types, [Next]_vars
             PROVE  OnWayFrom
    OBVIOUS
<1> USE DEF system, table, counts, handler, OnWayFrom, OnWay, At, Idle
<1>0. inbox # <<>> => Head(inbox)[2] \in Devices
    BY DEF Types, InboxType
<1>1. CASE Register
    BY <1>1 DEF Register
<1>2. CASE Unregister
    BY <1>2 DEF Unregister
<1>3. CASE Destroy
    BY <1>3 DEF Destroy
<1>4. CASE \E d \in Devices : RequestPermission(d)
    <2>1. PICK d \in Devices : Post("connect", d) \/ Post("cancel", d) \/ UNCHANGED queue
        BY <1>4, <1>0 DEF RequestPermission, ProcessConnect, ProcessCancel, Received
    <2>2. \A x : Has(queue', x) => Has(queue, x) \/ x \in {<<"connect", d>>, <<"cancel", d>>}
        BY <2>1, Posted DEF Tasks, Types
    <2>3. \A x : <<"dettach", x>> \notin {<<"connect", d>>, <<"cancel", d>>}
        OBVIOUS
    <2>4. UNCHANGED main
        BY <1>4 DEF RequestPermission
    <2> QED
        BY <2>2, <2>3, <2>4
<1>5. CASE \E d \in Devices : OpenDevice(d)
    BY <1>5 DEF OpenDevice
<1>6. CASE OpenDevicePut
    BY <1>6 DEF OpenDevicePut
<1>7. CASE CloseRemove
    <2>1. main.pc = "close" /\ main.blk \in {"destroy", "detach"} /\ UNCHANGED queue
        BY <1>7 DEF CloseRemove, Types, ThreadsType, MainType
    <2>2. main' \in {[pc |-> "destroy"], At("dettach", main.dev, 0)}
            /\ (main.blk = "destroy" => main' = [pc |-> "destroy"])
        BY <1>7 DEF CloseRemove
    <2> QED
        BY <2>1, <2>2
<1>8. CASE DestroyEnd
    <2>1. queue' = <<>> /\ main' = [pc |-> "gone"]
        BY <1>8 DEF DestroyEnd
    <2> QED
        BY <2>1 DEF Has
<1>9. CASE OnPermission
    <2>1. PICK d \in Devices : Post("connect", d) \/ Post("cancel", d) \/ UNCHANGED queue
        BY <1>9, <1>0 DEF OnPermission, ProcessConnect, ProcessCancel, Received
    <2>2. \A x : Has(queue', x) => Has(queue, x) \/ x \in {<<"connect", d>>, <<"cancel", d>>}
        BY <2>1, Posted DEF Tasks, Types
    <2>3. \A x : <<"dettach", x>> \notin {<<"connect", d>>, <<"cancel", d>>}
        OBVIOUS
    <2>4. UNCHANGED main
        BY <1>9 DEF OnPermission
    <2> QED
        BY <2>2, <2>3, <2>4
<1>10. CASE OnDetached
    BY <1>10 DEF OnDetached
<1>11. CASE Dettach
    <2>1. main.dev \in Devices /\ Post("dettach", main.dev)
            /\ main.pc = "dettach" /\ main' = Idle
        BY <1>11, Shapes DEF Dettach, Types
    <2>2. \A x : Has(queue', x) => Has(queue, x) \/ x = <<"dettach", main.dev>>
        BY <2>1, Posted DEF Tasks, Types
    <2> QED
        BY <2>1, <2>2 DEF Idle
<1>12. CASE \E d \in Devices : DestroyNext(d)
    BY <1>12 DEF DestroyNext
<1>13. CASE Check
    BY <1>13 DEF Check
<1>14. CASE Compare
    <2>1. async.devices \in SUBSET Devices /\ (AnnounceAll \/ UNCHANGED queue)
            /\ UNCHANGED main
        BY <1>14, Shapes DEF Compare, Types
    <2>2. \A x : Has(queue', x) => Has(queue, x) \/ x[1] = "attach"
        BY <2>1, Announced DEF Types
    <2>3. \A x : <<"dettach", x>>[1] # "attach"
        OBVIOUS
    <2> QED
        BY <2>1, <2>2, <2>3
<1>15. CASE CheckThrows
    BY <1>15 DEF CheckThrows
<1>16. CASE RunConnect
    <2>1. queue # <<>> /\ queue' = Tail(queue) /\ UNCHANGED main
        BY <1>16 DEF RunConnect, Task
    <2>2. \A x : Has(queue', x) => Has(queue, x)
        BY <2>1, TailHas DEF Types, QueueType
    <2> QED
        BY <2>1, <2>2
<1>17. CASE RunOpen
    BY <1>17 DEF RunOpen
<1>18. CASE RunPut
    BY <1>18 DEF RunPut
<1>19. CASE RunCallback
    <2>1. queue # <<>> /\ queue' = Tail(queue) /\ UNCHANGED main
        BY <1>19 DEF RunCallback, Task
    <2>2. \A x : Has(queue', x) => Has(queue, x)
        BY <2>1, TailHas DEF Types, QueueType
    <2> QED
        BY <2>1, <2>2
<1>20. CASE CameraClose
    BY <1>20 DEF CameraClose
<1>21. CASE CameraRemove
    BY <1>21 DEF CameraRemove
<1>22. CASE \E d \in Devices : CameraOpen(d)
    BY <1>22 DEF CameraOpen
<1>23. CASE \E d \in Devices : Plug(d)
    BY <1>23 DEF Plug
<1>24. CASE \E d \in Devices : Unplug(d)
    BY <1>24 DEF Unplug
<1>25. CASE \E d \in Devices : Answer(d)
    BY <1>25 DEF Answer
<1>26. CASE UNCHANGED vars
    BY <1>26 DEF vars
<1> QED
    BY <1>1, <1>2, <1>3, <1>4, <1>5, <1>6, <1>7, <1>8, <1>9, <1>10, <1>11,
       <1>12, <1>13, <1>14, <1>15, <1>16, <1>17, <1>18, <1>19, <1>20, <1>21,
       <1>22, <1>23, <1>24, <1>25, <1>26
    DEF Next, Application, MainStep, AsyncStep, CameraStep, User

LEMMA OnWayStable == IInv /\ [Next]_vars /\ TrackedNext /\ Kept /\ Types' => OnWayInv'
<1> SUFFICES ASSUME IInv, [Next]_vars, TrackedNext, Kept, Types', NEW d \in Devices, OnWay(d)'
             PROVE  /\ Gone(d)' /\ ~Has(inbox', <<"detached", d>>)
                    /\ \A b \in Loose' : block'[b].dev # d
    BY DEF OnWayInv
<1>0. GoneNext
    BY GoneStep DEF IInv
<1>1. CASE OnWay(d)
    <2>1. Gone(d) /\ ~Has(inbox, <<"detached", d>>) /\ \A b \in Loose : block[b].dev # d
        BY <1>1 DEF OnWayInv, IInv
    <2>2. Gone(d)' /\ ~Has(inbox', <<"detached", d>>)
        BY <1>0, <2>1 DEF GoneNext
    <2>3. Forsaken(d)'
        BY <2>2 DEF Forsaken, Gone, Has
    <2>4. ASSUME NEW b \in Loose', block'[b].dev = d PROVE FALSE
        <3>1. ~Known(b)'
            BY <2>3, <2>4 DEF Known
        <3> QED
            BY <2>1, <2>4, <3>1 DEF TrackedNext
    <2> QED
        BY <2>2, <2>4
<1>2. CASE OnDetached /\ d = Head(inbox)[2]
    <2>1. /\ inbox # <<>> /\ inbox' = Tail(inbox) /\ Head(inbox)[1] = "detached"
          /\ UNCHANGED <<plugs, present>>
        BY <1>2 DEF OnDetached, Received, system
    <2>2. Head(inbox) = <<"detached", d>>
        BY <1>2, <2>1 DEF IInv, Types, InboxType
    <2>3. Gone(d)
        <3>1. Has(inbox, <<"detached", d>>)
            BY <2>1, <2>2, TailHas DEF IInv, Types, InboxType
        <3> QED
            BY <3>1 DEF DetachedInv, IInv
    <2>4. ~Has(inbox', <<"detached", d>>)
        <3> SUFFICES ASSUME NEW i \in DOMAIN inbox', inbox'[i] = <<"detached", d>> PROVE FALSE
            BY DEF Has
        <3>1. i \in Nat /\ i >= 1 /\ i + 1 \in DOMAIN inbox /\ inbox[i + 1] = inbox'[i]
                /\ 1 \in DOMAIN inbox /\ inbox[1] = Head(inbox)
            BY <2>1 DEF IInv, Types, InboxType
        <3>2. inbox[i + 1] = inbox[1] /\ inbox[1][1] = "detached"
            BY <2>2, <3>1
        <3>3. i + 1 = 1
            BY <3>1, <3>2 DEF OnceInv, IInv
        <3> QED
            BY <3>1, <3>3
    <2>5. Gone(d)'
        BY <2>1, <2>3 DEF Gone
    <2>6. Forsaken(d)'
        BY <2>4, <2>5 DEF Forsaken, Gone, Has
    <2>7. ASSUME NEW b \in Loose', block'[b].dev = d PROVE FALSE
        <3>1. ~Known(b)'
            BY <2>6, <2>7 DEF Known
        <3>2. b \in Loose /\ block[b].dev = d
            BY <2>7, <3>1 DEF TrackedNext
        <3>3. mCtrlBlocks[d] = b
            BY <3>2 DEF IInv, Tracked, Loose
        <3>4. b \in 1..Len(block) /\ b # 0 /\ block[b].conn = "open"
            BY <3>2, Opened DEF Loose, OpenBlocks, IInv, Types
        <3>5. Disconnect(b)
            BY <1>2, <3>3, <3>4 DEF OnDetached
        <3>6. ~(block'[b].conn = "open")
            BY <3>4, <3>5, Disconnected DEF IInv, Types, BlockType
        <3> QED
            BY <2>7, <3>6 DEF Loose, OpenBlocks
    <2> QED
        BY <2>4, <2>5, <2>7
<1> QED
    BY <1>1, <1>2, OnWayStep DEF OnWayFrom, IInv

LEMMA EndStable ==
    Types /\ EndInv /\ TrackedNext /\ [Next]_vars => EndInv'
<1> SUFFICES ASSUME Types /\ EndInv /\ TrackedNext, [Next]_vars
             PROVE  EndInv'
    OBVIOUS
<1> USE DEF system, table, counts, handler, EndInv, At, Idle
<1>0. /\ main.pc = "gone" /\ destroyed' => Loose' = {}
      /\ main.pc \in {"destroy", "gone"} => destroyed
      /\ main.pc = "close" /\ main.blk = "destroy" => destroyed
    BY DEF TrackedNext, Known, EndInv
<1> HIDE DEF TrackedNext
<1>1. CASE Register
    BY <1>0, <1>1 DEF Register
<1>2. CASE Unregister
    BY <1>0, <1>2 DEF Unregister
<1>3. CASE Destroy
    BY <1>0, <1>3 DEF Destroy
<1>4. CASE \E d \in Devices : RequestPermission(d)
    BY <1>0, <1>4 DEF RequestPermission
<1>5. CASE \E d \in Devices : OpenDevice(d)
    BY <1>0, <1>5 DEF OpenDevice
<1>6. CASE OpenDevicePut
    BY <1>0, <1>6 DEF OpenDevicePut
<1>7. CASE CloseRemove
    <2>1. main.pc = "close" /\ main.blk \in {"destroy", "detach"} /\ UNCHANGED destroyed
        BY <1>7 DEF CloseRemove, Types, ThreadsType, MainType, Idle
    <2>2. CASE main.blk = "destroy"
        BY <1>7, <2>1, <2>2 DEF CloseRemove
    <2>3. CASE main.blk = "detach"
        BY <1>7, <2>1, <2>3 DEF CloseRemove
    <2> QED
        BY <2>1, <2>2, <2>3
<1>8. CASE DestroyEnd
    <2>1. /\ destroyed' /\ main' = [pc |-> "gone"] /\ UNCHANGED <<destroyed, block>>
          /\ mCtrlBlocks' = [d \in Devices |-> 0]
        BY <1>8 DEF DestroyEnd
    <2>2. ASSUME NEW b \in Loose' PROVE FALSE
        <3>1. b \in OpenBlocks' /\ mCtrlBlocks'[block'[b].dev] = b
            BY DEF Loose, Tracked, TrackedNext
        <3>2. b \in OpenBlocks
            BY <2>1, <3>1 DEF OpenBlocks
        <3>3. b # 0 /\ block'[b].dev \in Devices
            BY <2>1, <3>2, Opened DEF Types
        <3> QED
            BY <2>1, <3>1, <3>3
    <2> QED
        BY <2>1, <2>2
<1>9. CASE OnPermission
    BY <1>0, <1>9 DEF OnPermission
<1>10. CASE OnDetached
    BY <1>0, <1>10 DEF OnDetached
<1>11. CASE Dettach
    BY <1>0, <1>11 DEF Dettach
<1>12. CASE \E d \in Devices : DestroyNext(d)
    BY <1>0, <1>12 DEF DestroyNext
<1>13. CASE Check
    BY <1>0, <1>13 DEF Check
<1>14. CASE Compare
    BY <1>0, <1>14 DEF Compare
<1>15. CASE CheckThrows
    BY <1>0, <1>15 DEF CheckThrows
<1>16. CASE RunConnect
    BY <1>0, <1>16 DEF RunConnect
<1>17. CASE RunOpen
    BY <1>0, <1>17 DEF RunOpen
<1>18. CASE RunPut
    BY <1>0, <1>18 DEF RunPut
<1>19. CASE RunCallback
    BY <1>0, <1>19 DEF RunCallback
<1>20. CASE CameraClose
    BY <1>0, <1>20 DEF CameraClose
<1>21. CASE CameraRemove
    BY <1>0, <1>21 DEF CameraRemove
<1>22. CASE \E d \in Devices : CameraOpen(d)
    BY <1>0, <1>22 DEF CameraOpen
<1>23. CASE \E d \in Devices : Plug(d)
    BY <1>0, <1>23 DEF Plug
<1>24. CASE \E d \in Devices : Unplug(d)
    BY <1>0, <1>24 DEF Unplug
<1>25. CASE \E d \in Devices : Answer(d)
    BY <1>0, <1>25 DEF Answer
<1>26. CASE UNCHANGED vars
    BY <1>0, <1>26 DEF vars
<1> QED
    BY <1>1, <1>2, <1>3, <1>4, <1>5, <1>6, <1>7, <1>8, <1>9, <1>10, <1>11,
       <1>12, <1>13, <1>14, <1>15, <1>16, <1>17, <1>18, <1>19, <1>20, <1>21,
       <1>22, <1>23, <1>24, <1>25, <1>26
    DEF Next, Application, MainStep, AsyncStep, CameraStep, User

\* The invariant holds at first and is preserved.
LEMMA Inductive == IInv /\ [Next]_vars => IInv'
<1> SUFFICES ASSUME IInv, [Next]_vars PROVE IInv'
    OBVIOUS
<1>1. Types' /\ Kept
    BY TypesStep DEF IInv
<1>2. HandsInv'
    BY <1>1, HandsStep DEF IInv
<1>3. DetachedInv' /\ OnceInv'
    BY GoneStep, OnceStep DEF IInv, GoneNext
<1>4. Carried
    BY Carrying DEF IInv
<1>5. TrackedNext
    BY <1>1, <1>4, TrackedStep DEF IInv
<1>6. OnWayInv'
    BY <1>1, <1>5, OnWayStable
<1>7. EndInv'
    BY <1>5, EndStable DEF IInv
<1> QED
    BY <1>1, <1>2, <1>3, <1>5, <1>6, <1>7 DEF IInv, TrackedNext

LEMMA Initially == Init => IInv
<1> SUFFICES ASSUME Init PROVE IInv
    OBVIOUS
<1> USE DEF Init
<1>1. 0 \in 0..Cardinality(Devices)
    BY CountsBounded
<1>2. SystemType /\ InboxType /\ QueueType
    BY MonitorAssumption DEF SystemType, InboxType, QueueType
<1>3. CountsType
    BY <1>1 DEF CountsType
<1>4. BlockType /\ TableType
    BY DEF BlockType, TableType
<1>5. ThreadsType
    BY DEF ThreadsType, MainType, AsyncType, CameraType
<1>6. OpenBlocks = {} /\ Loose = {}
    BY DEF OpenBlocks, Loose
<1>7. \A x : ~Has(inbox, x) /\ ~Has(queue, x)
    BY DEF Has
<1>8. HandsInv /\ DetachedInv /\ OnceInv /\ Tracked /\ OnWayInv /\ EndInv
    BY <1>6, <1>7 DEF HandsInv, DetachedInv, OnceInv, Tracked, OnWayInv, OnWay,
       EndInv, Idle
<1> QED
    BY <1>2, <1>3, <1>4, <1>5, <1>8 DEF IInv, Types

-----------------------------------------------------------------------------
(***************************************************************************)
(* The theorems.                                                           *)
(***************************************************************************)
\* The strengthening holds in every reachable state of the monitor.
THEOREM Invariance == Spec => []IInv
<1>1. Init => IInv
    BY Initially
<1>2. IInv /\ [Next]_vars => IInv'
    BY Inductive
<1> QED
    BY <1>1, <1>2, PTL DEF Spec

\* Every variable keeps its type, the counter of known devices and the tasks of
\* mAsyncHandler among them, in whatever order the three threads run.
THEOREM TypeCorrect == Spec => []TypeOK
<1>1. IInv => TypeOK
    BY DEF IInv, Types, SystemType, CountsType, InboxType, BlockType, TableType,
           QueueType, TypeOK
<1> QED
    BY <1>1, Invariance, PTL

\* mCtrlBlocks holds every open connection, unless a thread is about to put it
\* there or one of the named races has taken it away.
THEOREM NoConnectionForgotten == Spec => []Tracked
<1>1. IInv => Tracked
    BY DEF IInv
<1> QED
    BY <1>1, Invariance, PTL

\* USBMonitor closes a device's connections before onDettach, and all of them
\* before destroy returns, but for those in hand or lost.
THEOREM ClosedBeforeTold == Spec => []ClosedInTime
<1>1. ASSUME IInv PROVE ClosedInTime
    <2> SUFFICES ASSUME NEW b \in Loose
                 PROVE  ~Quit /\ \A i \in DOMAIN queue : queue[i] # <<"dettach", block[b].dev>>
        BY DEF ClosedInTime, Loose
    <2>1. ~Quit
        BY <1>1 DEF IInv, EndInv, Quit
    <2>2. block[b].dev \in Devices
        BY <1>1, Opened DEF Loose, IInv, Types
    <2>3. ~Has(queue, <<"dettach", block[b].dev>>)
        BY <1>1, <2>2 DEF IInv, OnWayInv, OnWay
    <2> QED
        BY <2>1, <2>3 DEF Has
<1> QED
    BY <1>1, Invariance, PTL

=============================================================================
