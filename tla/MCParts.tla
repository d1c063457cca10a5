------------------------------- MODULE MCParts -------------------------------
(***************************************************************************)
(* Small instances of the parts.                                           *)
(***************************************************************************)
EXTENDS Parts

DriverLoad(c, d, f, k, w) == [commands |-> c, data |-> d, frames |-> f, kinds |-> k, waits |-> w]
DriverLoads ==
  {DriverLoad(2, 0, 1, {"data"}, FALSE), DriverLoad(1, 2, 0, {}, FALSE), DriverLoad(0, 0, 2, {"data"}, TRUE),
   DriverLoad(1, 0, 2, {"garbage", "beacon"}, FALSE), DriverLoad(0, 0, 2, {"event"}, FALSE)}

LinkLoad(c, n, t) == [commands |-> c, noise |-> n, trouble |-> t]
LinkLoads == {LinkLoad(2, 1, 0), LinkLoad(1, 0, 2), LinkLoad(3, 0, 0), LinkLoad(2, 0, 1)}

\* A segment that ends in a window and one that crosses into the next.
BusBlocks        == <<1, 2>>
FirmwareSegments == <<[addr |-> 9, len |-> 3], [addr |-> 13, len |-> 8]>>

Element(kind, id, key) == [kind |-> kind, id |-> id, key |-> key]
\* A group key after another element, ones followed by what is refused, and none at all.
KeyDatas ==
  {<<Element("other", 0, <<>>), Element("gtk", 1, <<1>>)>>,
   <<Element("gtk", 2, <<2>>), Element("short", 0, <<>>), Element("gtk", 1, <<1>>)>>,
   <<Element("gtk", 1, <<1>>), Element("long", 3, <<>>)>>,
   <<Element("igtk", 4, <<4>>)>>}

\* Around the inline size and the sizes growth doubles to.
StringLengths == {0, 3, 6, 7, 9, 15}

\* Two lengths and two distances, one of each with an extra bit; a fixed code with a hole in it.
LengthBase     == <<1, 3>>
DistanceBase   == <<1, 2>>
ExtraBits      == <<0, 1>>
FixedLengths   == [s \in 0 .. 4 |-> IF s = 3 THEN 0 ELSE 2]
FixedDistances == [s \in 0 .. 1 |-> 1]

MCDriverBounds ==
  [Users |-> {"u1", "u2"}, PoolSize |-> 4, QueueSize |-> 1, BacklogMax |-> 1, EventRing |-> 1,
   SeqMax |-> 3, ErrorLimit |-> 2, Loads |-> DriverLoads]
MCLinkBounds ==
  [MaxVif |-> 2, MaxTasks |-> 2, Loads |-> LinkLoads, BacklogMax |-> 2, EventRing |-> 1,
   AuthTries |-> 2]
MCChipBounds ==
  [Window |-> 8, Block |-> BusBlocks, MaxBlocks |-> 4, Top |-> 20, Segments |-> FirmwareSegments,
   TableMax |-> 5, Tries |-> 3, MaxPolls |-> 2, MaxInits |-> 2, MaxFaults |-> 2]
MCEapolBounds ==
  [AuthTries |-> 2, KeyData |-> KeyDatas, MaxSessions |-> 2, MaxResends |-> 3, MaxLost |-> 2]
MCDhcpBounds ==
  [Servers |-> {1}, Lengths |-> {9}, DefaultLease |-> 6, MaxTries |-> 2, Xids |-> {1, 2, 3}, MaxNet |-> 2]
MCMallocBounds ==
  [Base |-> 1, Size |-> 43, Align |-> 2, Header |-> 4, Requests |-> {0, 1, 3, 6, 8}]
MCOwnBounds ==
  [Resources |-> {"r1", "r2", "r3"}, MaxCap |-> 6, Lengths |-> StringLengths, Inline |-> 7]
MCInflateBounds ==
  [ByteBits |-> 4, MaxBits |-> 2, Literals |-> 1, LenBase |-> LengthBase,
   LenExtra |-> ExtraBits, DistBase |-> DistanceBase, DistExtra |-> ExtraBits,
   FixedLit |-> FixedLengths, FixedDist |-> FixedDistances, SrcSize |-> 3, DstSizes |-> {3}]
MCCurveBounds ==
  [Width |-> 3, Limbs |-> 2, Prime |-> 43, CoeffB |-> 10, Order |-> 37, Z |-> 10,
   SeedBits |-> 7, Seeds |-> {0, 5, 81}, Hashes |-> {70}, Scalars |-> {3, 36}]
MCUartBounds ==
  [RingSize |-> 3, Fifo |-> 2, Keys |-> {"a"}, MaxTyped |-> 4]
MCClockBounds ==
  [Reload |-> 7, CyclesPerUs |-> 2, Half |-> 5, MaxCall |-> 20, MaxTime |-> 52]
MCDigestBounds ==
  [Block |-> 4, LengthField |-> 2, DigestLen |-> 2, MaxKey |-> 5, MaxBytes |-> 9, MaxOut |-> 5,
   HalfBlocks |-> 4, MaxHalves |-> 2]

ASSUME MCPartSizes == PartSizes

\* Messages in flight in the DHCP part.
NetBounded == part = "Dhcp" => L!NetBounded
==============================================================================
