------------------------------ MODULE PartsProofs ------------------------------
(***************************************************************************)
(* The theorems of the parts, as the sum keeps them: the inductive         *)
(* invariant of a part is one of the sum while the behaviour is that       *)
(* part's, for a step of the sum is then a step of the part or none.       *)
(***************************************************************************)
EXTENDS Parts, TLAPS

LEMMA Stays ==
  ASSUME [Next]_vars
  PROVE  UNCHANGED part
BY DEF Next, vars, DriverStep, LinkStep, ChipStep, EapolStep, DhcpStep, MallocStep, OwnStep,
       InflateStep, CurveStep, UartStep, ClockStep, DigestStep
-----------------------------------------------------------------------------
DriverServed == part = "Driver" => D!Served

LEMMA DriverKeeps == D!DriverSizes => (Spec => []DriverServed)
<1> SUFFICES ASSUME D!DriverSizes PROVE Spec => []DriverServed
  OBVIOUS
<1>1. Init => DriverServed
  BY D!ServedInit DEF Init, DriverServed
<1>2. DriverServed /\ [Next]_vars => DriverServed'
  <2> SUFFICES ASSUME DriverServed, [Next]_vars, part' = "Driver" PROVE D!Served'
    BY DEF DriverServed
  <2>1. part = "Driver"
    BY Stays
  <2>2. [D!Next]_(D!vars)
    BY <2>1
       DEF Next, vars, D!vars, DriverStep, LinkStep, ChipStep, EapolStep, DhcpStep, MallocStep, OwnStep,
           InflateStep, CurveStep, UartStep, ClockStep, DigestStep
  <2> QED
    BY <2>1, <2>2, D!ServedNext DEF DriverServed
<1> QED
  BY <1>1, <1>2, PTL DEF Spec

\* Packets are conserved, and the command slot is that of the one command in progress, however
\* calls end (send_command(), dispatch_rx(), push_rx_backlog()).
THEOREM PacketConservation == D!DriverSizes => (Spec => []PacketsAccounted)
<1> SUFFICES ASSUME D!DriverSizes PROVE Spec => []PacketsAccounted
  OBVIOUS
<1>1. DriverServed => PacketsAccounted
  BY D!ServedMeans DEF DriverServed, PacketsAccounted
<1> QED
  BY <1>1, DriverKeeps, PTL

\* A call gets the response to its own command, whatever came late or was given up before
\* (handle_command_frame()).
THEOREM OwnResponse == D!DriverSizes => (Spec => []ResponseIsOwn)
<1> SUFFICES ASSUME D!DriverSizes PROVE Spec => []ResponseIsOwn
  OBVIOUS
<1>1. DriverServed => ResponseIsOwn
  BY D!ServedMeans DEF DriverServed, ResponseIsOwn
<1> QED
  BY <1>1, DriverKeeps, PTL

\* The chip's command queue is never overrun, and the data queue only by tasks that read the
\* status block in the same round (yaps_tx()).
THEOREM QueuesNotOverrun == D!DriverSizes => (Spec => []QueuesFit)
<1> SUFFICES ASSUME D!DriverSizes PROVE Spec => []QueuesFit
  OBVIOUS
<1>1. DriverServed => QueuesFit
  BY D!ServedMeans DEF DriverServed, QueuesFit
<1> QED
  BY <1>1, DriverKeeps, PTL

\* A command that waits for space although there is some is about to be woken (yaps_tx(), rx_task()).
THEOREM SpaceWakeNotLost == D!DriverSizes => (Spec => []SpaceWakePending)
<1> SUFFICES ASSUME D!DriverSizes PROVE Spec => []SpaceWakePending
  OBVIOUS
<1>1. DriverServed => SpaceWakePending
  BY D!ServedMeans DEF DriverServed, SpaceWakePending
<1> QED
  BY <1>1, DriverKeeps, PTL

-----------------------------------------------------------------------------
MallocSound == part = "Malloc" => B!Sound

LEMMA MallocKeeps == B!HeapSizes => (Spec => []MallocSound)
<1> SUFFICES ASSUME B!HeapSizes PROVE Spec => []MallocSound
  OBVIOUS
<1>1. Init => MallocSound
  BY B!SoundInit DEF Init, MallocSound
<1>2. MallocSound /\ [Next]_vars => MallocSound'
  <2> SUFFICES ASSUME MallocSound, [Next]_vars, part' = "Malloc" PROVE B!Sound'
    BY DEF MallocSound
  <2>1. part = "Malloc"
    BY Stays
  <2>2. [B!Next]_(B!heapVars)
    BY <2>1
       DEF Next, vars, B!heapVars, DriverStep, LinkStep, ChipStep, EapolStep, DhcpStep, MallocStep, OwnStep,
           InflateStep, CurveStep, UartStep, ClockStep, DigestStep
  <2> QED
    BY <2>1, <2>2, B!SoundNext DEF MallocSound
<1> QED
  BY <1>1, <1>2, PTL DEF Spec

\* The chunks tile the heap and the blocks in use are the chunks that are not free (malloc(), free()).
THEOREM HeapStaysTiled == B!HeapSizes => (Spec => []HeapTiled)
<1> SUFFICES ASSUME B!HeapSizes PROVE Spec => []HeapTiled
  OBVIOUS
<1>1. MallocSound => HeapTiled
  BY B!SoundMeans DEF MallocSound, HeapTiled
<1> QED
  BY <1>1, MallocKeeps, PTL

-----------------------------------------------------------------------------
EapolAgreed == part = "Eapol" => E!Agreed

LEMMA EapolKeeps == E!EapolSizes => (Spec => []EapolAgreed)
<1> SUFFICES ASSUME E!EapolSizes PROVE Spec => []EapolAgreed
  OBVIOUS
<1>1. Init => EapolAgreed
  BY E!AgreedInit DEF Init, EapolAgreed
<1>2. EapolAgreed /\ [Next]_vars => EapolAgreed'
  <2> SUFFICES ASSUME EapolAgreed, [Next]_vars, part' = "Eapol" PROVE E!Agreed'
    BY DEF EapolAgreed
  <2>1. part = "Eapol"
    BY Stays
  <2>2. [E!Next]_(E!eapolVars)
    BY <2>1
       DEF Next, vars, E!eapolVars, DriverStep, LinkStep, ChipStep, EapolStep, DhcpStep, MallocStep, OwnStep,
           InflateStep, CurveStep, UartStep, ClockStep, DigestStep
  <2> QED
    BY <2>1, <2>2, E!AgreedNext DEF EapolAgreed
<1> QED
  BY <1>1, <1>2, PTL DEF Spec

\* Whoever passes SAE shares its master key with the access point (sae_authenticate()).
THEOREM MasterKeyShared == E!EapolSizes => (Spec => []PmkAgreed)
<1> SUFFICES ASSUME E!EapolSizes PROVE Spec => []PmkAgreed
  OBVIOUS
<1>1. EapolAgreed => PmkAgreed
  BY E!AgreedMeans DEF EapolAgreed, PmkAgreed
<1> QED
  BY <1>1, EapolKeeps, PTL

\* Whoever completes the handshake installs the session key the access point has, and a group key
\* (Supplicant::on_frame()).
THEOREM SessionKeysShared == E!EapolSizes => (Spec => []KeysAgree)
<1> SUFFICES ASSUME E!EapolSizes PROVE Spec => []KeysAgree
  OBVIOUS
<1>1. EapolAgreed => KeysAgree
  BY E!AgreedMeans DEF EapolAgreed, KeysAgree
<1> QED
  BY <1>1, EapolKeeps, PTL

-----------------------------------------------------------------------------
DhcpLeased == part = "Dhcp" => L!Leased

LEMMA DhcpKeeps == L!DhcpSizes => (Spec => []DhcpLeased)
<1> SUFFICES ASSUME L!DhcpSizes PROVE Spec => []DhcpLeased
  OBVIOUS
<1>1. Init => DhcpLeased
  BY L!LeasedInit DEF Init, DhcpLeased
<1>2. DhcpLeased /\ [Next]_vars => DhcpLeased'
  <2> SUFFICES ASSUME DhcpLeased, [Next]_vars, part' = "Dhcp" PROVE L!Leased'
    BY DEF DhcpLeased
  <2>1. part = "Dhcp"
    BY Stays
  <2>2. [L!DhcpNext]_(L!dhcpVars)
    BY <2>1
       DEF Next, vars, L!dhcpVars, DriverStep, LinkStep, ChipStep, EapolStep, DhcpStep, MallocStep, OwnStep,
           InflateStep, CurveStep, UartStep, ClockStep, DigestStep
  <2> QED
    BY <2>1, <2>2, L!LeasedNext DEF DhcpLeased
<1> QED
  BY <1>1, <1>2, PTL DEF Spec

\* The stack never uses an address the server would give to another host by then (Client::task(),
\* on_socket_rx()).
THEOREM AddressNotOverstayed == L!DhcpSizes => (Spec => []AddressStillLeased)
<1> SUFFICES ASSUME L!DhcpSizes PROVE Spec => []AddressStillLeased
  OBVIOUS
<1>1. DhcpLeased => AddressStillLeased
  BY L!LeasedMeans DEF DhcpLeased, AddressStillLeased
<1> QED
  BY <1>1, DhcpKeeps, PTL

-----------------------------------------------------------------------------
LinkSupervised == part = "Link" => L!Supervised

LEMMA LinkKeeps == L!LinkSizes => (Spec => []LinkSupervised)
<1> SUFFICES ASSUME L!LinkSizes PROVE Spec => []LinkSupervised
  OBVIOUS
<1>1. Init => LinkSupervised
  BY L!SupervisedInit DEF Init, LinkSupervised
<1>2. LinkSupervised /\ [Next]_vars => LinkSupervised'
  <2> SUFFICES ASSUME LinkSupervised, [Next]_vars, part' = "Link" PROVE L!Supervised'
    BY DEF LinkSupervised
  <2>1. part = "Link"
    BY Stays
  <2>2. [L!LinkNext]_(L!linkVars)
    BY <2>1
       DEF Next, vars, L!linkVars, DriverStep, LinkStep, ChipStep, EapolStep, DhcpStep, MallocStep, OwnStep,
           InflateStep, CurveStep, UartStep, ClockStep, DigestStep
  <2> QED
    BY <2>1, <2>2, L!SupervisedNext DEF LinkSupervised
<1> QED
  BY <1>1, <1>2, PTL DEF Spec

\* Whenever the console may start a command, a link that is up has exactly one link_task, the one
\* link_handle names, and an authorized interface (connect(), disconnect(), link_task()).
THEOREM UpAlwaysSupervised == L!LinkSizes => (Spec => []UpIsSupervised)
<1> SUFFICES ASSUME L!LinkSizes PROVE Spec => []UpIsSupervised
  OBVIOUS
<1>1. LinkSupervised => UpIsSupervised
  BY L!SupervisedMeans DEF LinkSupervised, UpIsSupervised
<1> QED
  BY <1>1, LinkKeeps, PTL

\* No interface is authorized with a protected access point before both keys are in (connect()).
THEOREM PortOpensAfterKeys == L!LinkSizes => (Spec => []KeysBeforePort)
<1> SUFFICES ASSUME L!LinkSizes PROVE Spec => []KeysBeforePort
  OBVIOUS
<1>1. LinkSupervised => KeysBeforePort
  BY L!SupervisedMeans DEF LinkSupervised, KeysBeforePort
<1> QED
  BY <1>1, LinkKeeps, PTL

\* When nobody is at work, every interface the chip still has is one that a failed command left or
\* whose removal was refused (scan(), connect(), disconnect(), link_task()).
THEOREM InterfacesGivenBack == L!LinkSizes => (Spec => []InterfacesReturned)
<1> SUFFICES ASSUME L!LinkSizes PROVE Spec => []InterfacesReturned
  OBVIOUS
<1>1. LinkSupervised => InterfacesReturned
  BY L!SupervisedMeans DEF LinkSupervised, InterfacesReturned
<1> QED
  BY <1>1, LinkKeeps, PTL

-----------------------------------------------------------------------------
ClockTimely == part = "Clock" => B!ClockInv

LEMMA ClockKeeps == B!ClockSizes => (Spec => []ClockTimely)
<1> SUFFICES ASSUME B!ClockSizes PROVE Spec => []ClockTimely
  OBVIOUS
<1>1. Init => ClockTimely
  BY B!ClockStarts DEF Init, ClockTimely
<1>2. ClockTimely /\ [Next]_vars => ClockTimely'
  <2> SUFFICES ASSUME ClockTimely, [Next]_vars, part' = "Clock" PROVE B!ClockInv'
    BY DEF ClockTimely
  <2>1. part = "Clock"
    BY Stays
  <2>2. [B!ClockNext]_(B!clockVars)
    BY <2>1
       DEF Next, vars, B!clockVars, DriverStep, LinkStep, ChipStep, EapolStep, DhcpStep, MallocStep, OwnStep,
           InflateStep, CurveStep, UartStep, ClockStep, DigestStep
  <2> QED
    BY <2>1, <2>2, B!ClockSteps DEF ClockTimely
<1> QED
  BY <1>1, <1>2, PTL DEF Spec

\* What now() returns was the time at some moment of the call (now(), systick_handler()).
THEOREM TimeToldRight == B!ClockSizes => (Spec => []TimeOfTheCall)
<1> SUFFICES ASSUME B!ClockSizes PROVE Spec => []TimeOfTheCall
  OBVIOUS
<1>1. ClockTimely => TimeOfTheCall
  BY B!ClockTells DEF ClockTimely, TimeOfTheCall
<1> QED
  BY <1>1, ClockKeeps, PTL

-----------------------------------------------------------------------------
ChipUploaded == part = "Chip" => B!Uploaded

LEMMA ChipKeeps == B!ChipSizes => (Spec => []ChipUploaded)
<1> SUFFICES ASSUME B!ChipSizes PROVE Spec => []ChipUploaded
  OBVIOUS
<1>1. Init => ChipUploaded
  BY B!UploadedInit DEF Init, ChipUploaded
<1>2. ChipUploaded /\ [Next]_vars => ChipUploaded'
  <2> SUFFICES ASSUME ChipUploaded, [Next]_vars, part' = "Chip" PROVE B!Uploaded'
    BY DEF ChipUploaded
  <2>1. part = "Chip"
    BY Stays
  <2>2. [B!ChipNext]_(B!chipVars)
    BY <2>1
       DEF Next, vars, B!chipVars, DriverStep, LinkStep, ChipStep, EapolStep, DhcpStep, MallocStep, OwnStep,
           InflateStep, CurveStep, UartStep, ClockStep, DigestStep
  <2> QED
    BY <2>1, <2>2, B!UploadedNext DEF ChipUploaded
<1> QED
  BY <1>1, <1>2, PTL DEF Spec

\* What answers `halow init` with a host table runs the image this very init uploaded, and the yaps
\* table it takes lies within the extended table (init(), load_firmware(), parse_host_table()).
THEOREM RunsOwnImage == B!ChipSizes => (Spec => []ReadyRunsOwnImage)
<1> SUFFICES ASSUME B!ChipSizes PROVE Spec => []ReadyRunsOwnImage
  OBVIOUS
<1>1. ChipUploaded => ReadyRunsOwnImage
  BY B!UploadedMeans DEF ChipUploaded, ReadyRunsOwnImage
<1> QED
  BY <1>1, ChipKeeps, PTL

-----------------------------------------------------------------------------
OwnOwned == part = "Own" => B!Owned

LEMMA OwnKeeps == B!OwnSizes => (Spec => []OwnOwned)
<1> SUFFICES ASSUME B!OwnSizes PROVE Spec => []OwnOwned
  OBVIOUS
<1>1. Init => OwnOwned
  BY B!OwnedInit DEF Init, OwnOwned
<1>2. OwnOwned /\ [Next]_vars => OwnOwned'
  <2> SUFFICES ASSUME OwnOwned, [Next]_vars, part' = "Own" PROVE B!Owned'
    BY DEF OwnOwned
  <2>1. part = "Own"
    BY Stays
  <2>2. [B!OwnNext]_(B!ownVars)
    BY <2>1
       DEF Next, vars, B!ownVars, DriverStep, LinkStep, ChipStep, EapolStep, DhcpStep, MallocStep, OwnStep,
           InflateStep, CurveStep, UartStep, ClockStep, DigestStep
  <2> QED
    BY <2>1, <2>2, B!OwnedNext DEF OwnOwned
<1> QED
  BY <1>1, <1>2, PTL DEF Spec

\* Every resource has exactly one owner, and a container counts exactly its live elements, through
\* growth, failed allocations and assignments of every kind (vector.hpp, variant.hpp, optional.hpp,
\* unique-ptr.hpp, string.cpp).
THEOREM OwnedOnce == B!OwnSizes => (Spec => []OneOwner)
<1> SUFFICES ASSUME B!OwnSizes PROVE Spec => []OneOwner
  OBVIOUS
<1>1. OwnOwned => OneOwner
  BY B!OwnedMeans DEF OwnOwned, OneOwner
<1> QED
  BY <1>1, OwnKeeps, PTL

-----------------------------------------------------------------------------
UartServed == part = "Uart" => E!Served

LEMMA UartKeeps == E!UartSizes => (Spec => []UartServed)
<1> SUFFICES ASSUME E!UartSizes PROVE Spec => []UartServed
  OBVIOUS
<1>1. Init => UartServed
  BY E!ServedInit DEF Init, UartServed
<1>2. UartServed /\ [Next]_vars => UartServed'
  <2> SUFFICES ASSUME UartServed, [Next]_vars, part' = "Uart" PROVE E!Served'
    BY DEF UartServed
  <2>1. part = "Uart"
    BY Stays
  <2>2. [E!UartNext]_(E!uartVars)
    BY <2>1
       DEF Next, vars, E!uartVars, DriverStep, LinkStep, ChipStep, EapolStep, DhcpStep, MallocStep, OwnStep,
           InflateStep, CurveStep, UartStep, ClockStep, DigestStep
  <2> QED
    BY <2>1, <2>2, E!ServedNext DEF UartServed
<1> QED
  BY <1>1, <1>2, PTL DEF Spec

\* The console gets what is typed, in order and edited, loses only what a full ring has no room for,
\* and never idles past it (lpuart1_handler(), wait_for_event(), read(), read_line()).
THEOREM TypedIsServed == E!UartSizes => (Spec => []ConsoleServed)
<1> SUFFICES ASSUME E!UartSizes PROVE Spec => []ConsoleServed
  OBVIOUS
<1>1. UartServed => ConsoleServed
  BY E!ServedMeans DEF UartServed, ConsoleServed
<1> QED
  BY <1>1, UartKeeps, PTL
==============================================================================
