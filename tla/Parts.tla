-------------------------------- MODULE Parts --------------------------------
(***************************************************************************)
(* The parts that meet the rest of the system through a narrow interface,  *)
(* each with that interface's other side as its environment, as a sum: a   *)
(* behaviour is one of one part, chosen at the start.  The variables are   *)
(* the parts' in their order of declaration; those a part has no use for   *)
(* stay idle.  A part's constants are the fields of one record.  A part    *)
(* that has proofs is instantiated with them, for PartsProofs to cite; the *)
(* heap, the clock, the chip and the containers share a module of proofs,  *)
(* and so do the link and the DHCP client, and the keys and the console.   *)
(***************************************************************************)
EXTENDS Integers

CONSTANTS
  DriverBounds, LinkBounds, ChipBounds, EapolBounds, DhcpBounds, MallocBounds, OwnBounds,
  InflateBounds, CurveBounds, UartBounds, ClockBounds, DigestBounds

VARIABLES
  part,    \* whose behaviour this is
  v1, v2, v3, v4, v5, v6, v7, v8, v9, v10, v11, v12, v13

D ==
  INSTANCE DriverProofs WITH
    Users <- DriverBounds.Users, PoolSize <- DriverBounds.PoolSize,
    QueueSize <- DriverBounds.QueueSize, BacklogMax <- DriverBounds.BacklogMax,
    EventRing <- DriverBounds.EventRing, SeqMax <- DriverBounds.SeqMax,
    ErrorLimit <- DriverBounds.ErrorLimit, Loads <- DriverBounds.Loads,
    user <- v1, rx <- v2, due <- v3, slot <- v4, busy <- v5, seq <- v6, events <- v7,
    backlog <- v8, free <- v9, freed <- v10, waiter <- v11, load <- v12, chip <- v13
L ==
  INSTANCE LinkProofs WITH
    MaxVif <- LinkBounds.MaxVif, MaxTasks <- LinkBounds.MaxTasks, Loads <- LinkBounds.Loads,
    BacklogMax <- LinkBounds.BacklogMax, EventRing <- LinkBounds.EventRing,
    AuthTries <- LinkBounds.AuthTries,
    Servers <- DhcpBounds.Servers, Lengths <- DhcpBounds.Lengths,
    DefaultLease <- DhcpBounds.DefaultLease, MaxTries <- DhcpBounds.MaxTries, Xids <- DhcpBounds.Xids, MaxNet <- DhcpBounds.MaxNet,
    secure <- v1, console <- v2, tasks <- v3, handle <- v4, link <- v5, cmd <- v6, events <- v7,
    air <- v8, ap <- v9, chip <- v10, due <- v11, count <- v12,
    stack <- v1, client <- v2, task <- v3, reply <- v4, net <- v5, granted <- v6
E ==
  INSTANCE EapolProofs WITH
    AuthTries <- EapolBounds.AuthTries, KeyData <- EapolBounds.KeyData,
    MaxSessions <- EapolBounds.MaxSessions, MaxResends <- EapolBounds.MaxResends,
    MaxLost <- EapolBounds.MaxLost,
    RingSize <- UartBounds.RingSize, Fifo <- UartBounds.Fifo, Keys <- UartBounds.Keys,
    MaxTyped <- UartBounds.MaxTyped,
    sta <- v1, sess <- v2, supp <- v3, peer <- v4, sky <- v5, lost <- v6,
    hw <- v1, ring <- v2, console <- v3, runner <- v4, typed <- v5, got <- v6
B ==
  INSTANCE BoardProofs WITH
    Base <- MallocBounds.Base, Size <- MallocBounds.Size, Align <- MallocBounds.Align,
    Header <- MallocBounds.Header, Requests <- MallocBounds.Requests,
    Reload <- ClockBounds.Reload, CyclesPerUs <- ClockBounds.CyclesPerUs,
    Half <- ClockBounds.Half, MaxCall <- ClockBounds.MaxCall, MaxTime <- ClockBounds.MaxTime,
    Window <- ChipBounds.Window, Block <- ChipBounds.Block, MaxBlocks <- ChipBounds.MaxBlocks,
    Top <- ChipBounds.Top, Segments <- ChipBounds.Segments, TableMax <- ChipBounds.TableMax,
    Tries <- ChipBounds.Tries, MaxPolls <- ChipBounds.MaxPolls,
    MaxInits <- ChipBounds.MaxInits, MaxFaults <- ChipBounds.MaxFaults,
    Resources <- OwnBounds.Resources, MaxCap <- OwnBounds.MaxCap, Lengths <- OwnBounds.Lengths,
    Inline <- OwnBounds.Inline,
    chunk <- v1, blocks <- v2,
    host <- v1, chip <- v2, faults <- v3,
    systick <- v1, uptime <- v2, reader <- v3, time <- v4,
    box <- v1, hand <- v2, free <- v3, loose <- v4
I ==
  INSTANCE Inflate WITH
    ByteBits <- InflateBounds.ByteBits, MaxBits <- InflateBounds.MaxBits,
    Literals <- InflateBounds.Literals, LenBase <- InflateBounds.LenBase,
    LenExtra <- InflateBounds.LenExtra, DistBase <- InflateBounds.DistBase,
    DistExtra <- InflateBounds.DistExtra, FixedLit <- InflateBounds.FixedLit,
    FixedDist <- InflateBounds.FixedDist, SrcSize <- InflateBounds.SrcSize,
    DstSizes <- InflateBounds.DstSizes,
    reader <- v1, state <- v2, lit <- v3, dist <- v4, code <- v5, dst <- v6, size <- v7,
    out <- v8
K ==
  INSTANCE Curve WITH
    Width <- CurveBounds.Width, Limbs <- CurveBounds.Limbs, Prime <- CurveBounds.Prime,
    CoeffB <- CurveBounds.CoeffB, Order <- CurveBounds.Order, Z <- CurveBounds.Z,
    SeedBits <- CurveBounds.SeedBits, Seeds <- CurveBounds.Seeds, Hashes <- CurveBounds.Hashes,
    Scalars <- CurveBounds.Scalars,
    fp <- v1, pwe <- v2, meant <- v3, side <- v4
G ==
  INSTANCE Digest WITH
    Block <- DigestBounds.Block, LengthField <- DigestBounds.LengthField,
    DigestLen <- DigestBounds.DigestLen, MaxKey <- DigestBounds.MaxKey,
    MaxBytes <- DigestBounds.MaxBytes, MaxOut <- DigestBounds.MaxOut,
    HalfBlocks <- DigestBounds.HalfBlocks, MaxHalves <- DigestBounds.MaxHalves,
    sha <- v1, key <- v2, fed <- v3, result <- v4

Rest12 == <<v13>>
Rest8 == <<v9, v10, v11, v12, Rest12>>
Rest6 == <<v7, v8, Rest8>>
Rest4 == <<v5, v6, Rest6>>
Rest3 == <<v4, Rest4>>
Rest2 == <<v3, Rest3>>
Idle12 == v13 = 0
Idle8 == v9 = 0 /\ v10 = 0 /\ v11 = 0 /\ v12 = 0 /\ Idle12
Idle6 == v7 = 0 /\ v8 = 0 /\ Idle8
Idle4 == v5 = 0 /\ v6 = 0 /\ Idle6
Idle3 == v4 = 0 /\ Idle4
Idle2 == v3 = 0 /\ Idle3

Init ==
  \/ part = "Driver" /\ D!Init
  \/ part = "Link" /\ L!LinkInit /\ Idle12
  \/ part = "Chip" /\ B!ChipInit /\ Idle3
  \/ part = "Eapol" /\ E!Init /\ Idle6
  \/ part = "Dhcp" /\ L!DhcpInit /\ Idle6
  \/ part = "Malloc" /\ B!Init /\ Idle2
  \/ part = "Own" /\ B!OwnInit /\ Idle4
  \/ part = "Inflate" /\ I!Init /\ Idle8
  \/ part = "Curve" /\ K!Init /\ Idle4
  \/ part = "Uart" /\ E!UartInit /\ Idle6
  \/ part = "Clock" /\ B!ClockInit /\ Idle4
  \/ part = "Digest" /\ G!Init /\ Idle4

DriverStep == part = "Driver" /\ D!Next /\ UNCHANGED part
LinkStep == part = "Link" /\ L!LinkNext /\ UNCHANGED <<part, Rest12>>
ChipStep == part = "Chip" /\ B!ChipNext /\ UNCHANGED <<part, Rest3>>
EapolStep == part = "Eapol" /\ E!Next /\ UNCHANGED <<part, Rest6>>
DhcpStep == part = "Dhcp" /\ L!DhcpNext /\ UNCHANGED <<part, Rest6>>
MallocStep == part = "Malloc" /\ B!Next /\ UNCHANGED <<part, Rest2>>
OwnStep == part = "Own" /\ B!OwnNext /\ UNCHANGED <<part, Rest4>>
InflateStep == part = "Inflate" /\ I!Next /\ UNCHANGED <<part, Rest8>>
CurveStep == part = "Curve" /\ K!Next /\ UNCHANGED <<part, Rest4>>
UartStep == part = "Uart" /\ E!UartNext /\ UNCHANGED <<part, Rest6>>
ClockStep == part = "Clock" /\ B!ClockNext /\ UNCHANGED <<part, Rest4>>
DigestStep == part = "Digest" /\ G!Next /\ UNCHANGED <<part, Rest4>>

Next ==
  \/ DriverStep \/ LinkStep \/ ChipStep \/ EapolStep \/ DhcpStep \/ MallocStep
  \/ OwnStep \/ InflateStep \/ CurveStep \/ UartStep \/ ClockStep \/ DigestStep

vars == <<part, v1, v2, v3, v4, v5, v6, v7, v8, v9, v10, v11, v12, v13>>
Spec == Init /\ [][Next]_vars

\* What the parts assume of their constants.
PartSizes ==
  /\ D!DriverSizes
  /\ L!LinkSizes
  /\ B!ChipSizes
  /\ E!EapolSizes
  /\ L!DhcpSizes
  /\ B!HeapSizes
  /\ B!ClockSizes
  /\ B!OwnSizes
  /\ E!UartSizes
  /\ G!DigestSizes

(***************************************************************************)
(* Properties: each part's own, where they are explained.                  *)
(***************************************************************************)
\* Packets are conserved: each is free, in the backlog, or held by exactly one call, however
\* calls end (a refusal, a timeout, an error, a cancelled task) and however full the backlog is;
\* `busy` and the pending slot belong to the one command call in progress (send_command(),
\* dispatch_rx(), push_rx_backlog()).
PacketsAccounted == part = "Driver" => D!PacketsAccounted

\* A command is answered by its own response: one that comes after its caller gave up, or was
\* cancelled, is never taken for the answer to a later command (handle_command_frame()).
ResponseIsOwn == part = "Driver" => D!ResponseIsOwn

\* "waiting for chip queue space" (yaps.hpp): the command queue, which `busy` gives to one
\* task at a time, is never overrun; the data queue is overrun by at most one frame for each
\* further transmitter, whose copy of the status block is a round old when it writes.
QueuesFit == part = "Driver" => D!QueuesFit

\* "re-arm before the status read so a page free in between is not lost" (yaps_tx()): while
\* commands alone are sent, one that waits for space although the queue has room is about to be
\* woken by a page-freed interrupt, latched or still raised.
SpaceWakePending == part = "Driver" => D!SpaceWakePending

\* "link.up is true here, so the task is still alive and the handle is valid" (disconnect()):
\* whenever the console may start a command, a link that is up has exactly one link_task, the one
\* link_handle names, which has not begun its teardown, and an interface of its own that the chip
\* has authorized.
UpIsSupervised == part = "Link" => L!UpIsSupervised

\* "installs the ccmp keys before the port is authorized" (connect()): no interface is ever
\* authorized with a protected access point before both of its keys are in the chip.
KeysBeforePort == part = "Link" => L!KeysBeforePort

\* Every path out of scan(), connect(), disconnect() and link_task() gives the interface back:
\* when nobody is at work the chip has no interface but that of a link that is up, the ones a
\* command left there that failed or that its caller took for failed, and one whose removal was
\* refused because another command was in flight.
InterfacesReturned == part = "Link" => L!InterfacesReturned

\* "let get_host_table_ptr detect the firmware republishing the pointer" (load_firmware()): when
\* `halow init` has a host table, the firmware that published it was started by this very init
\* and saw an image all of whose words this init had written, each at its own address, however
\* often earlier inits failed half-way and whatever pointer and window they left behind; and the
\* yaps table it takes lies within the extended table.
ReadyRunsOwnImage == part = "Chip" => B!ReadyRunsOwnImage

\* Whoever passes SAE shares its master key with the access point, whatever frames of an earlier
\* attempt were still on their way: late commits and confirms pass for answers to the new one.
PmkAgreed == part = "Eapol" => E!PmkAgreed

\* The keys a completed handshake installs are those the access point uses: every message 1 makes
\* the station start over with another nonce while messages 3 made for the previous one are on
\* their way, and the access point may have taken a later message 2 or not.
KeysAgree == part = "Eapol" => E!KeysAgree

\* The stack never uses an address the server thinks is free again: acknowledgements that come
\* late, renewals refused, lost or answered at the last attempt, and a link that goes down all
\* end with the address dropped in time, given leases longer than four exchanges.
AddressStillLeased == part = "Dhcp" => L!AddressStillLeased

\* However blocks come and go, the chunks tile the heap: both links of the list run through all of
\* them in address order, no two free neighbours stay apart, and the blocks in use are exactly the
\* chunks that are not free, each with the room asked for.
HeapTiled == part = "Malloc" => B!HeapTiled

\* Every resource has exactly one owner, a container's live element, a buffer, the caller's
\* variable, a released pointer, or nobody: none is destroyed twice, none is lost, through growth,
\* failed allocations, and assignments of every kind; and exactly the elements a container counts
\* are live.
OneOwner == part = "Own" => B!OneOwner

\* Every symbol of every table a stream may carry is decoded from its canonical code; the output
\* is what the literals and copies read stand for, a copy that overlaps its own output included;
\* nothing is read or written outside; no whole byte is left in the reader, so that a stored block
\* finds its first byte; and success means the output is full.
DecodesDeflate == part = "Inflate" => I!DecodesDeflate

\* The limbs, carries and Montgomery forms of bn.hpp and the jacobian formulas of p256.cpp compute
\* what the integers say: the password element is the one derived, and both sides of an exchange
\* (start(), read_commit()) end with the same K, rand * rand' times that element.
SharedSecret == part = "Curve" => K!SharedSecret

\* What was typed arrives, in order, with nothing lost but what found the ring full, and the line
\* is what those keys make of it (lpuart1_handler(), read(), read_line()); a task told that a
\* byte is there finds one; and the busy wait is never entered, nor stayed in, with the task's event
\* there or its interrupt not armed.
ConsoleServed == part = "Uart" => E!ConsoleServed

\* What now() returns was the time at some moment of the call, however the counter wraps and the
\* handler runs between its reads: it is never torn, a period short or a period ahead.
TimeOfTheCall == part = "Clock" => B!TimeOfTheCall

\* Whatever the pieces a message comes in and wherever it ends within a block, with keys longer
\* than a block and outputs that end within a digest, the functions give what the standards define;
\* unwrapping undoes wrapping, and accepts nothing that was not wrapped.
AsDefined == part = "Digest" => G!AsDefined
==============================================================================
