SPECIFICATION Spec
\* Every part may come to its end.
CHECK_DEADLOCK FALSE
CONSTRAINT NetBounded
CONSTANTS
  DriverBounds <- MCDriverBounds
  LinkBounds <- MCLinkBounds
  ChipBounds <- MCChipBounds
  EapolBounds <- MCEapolBounds
  DhcpBounds <- MCDhcpBounds
  MallocBounds <- MCMallocBounds
  OwnBounds <- MCOwnBounds
  InflateBounds <- MCInflateBounds
  CurveBounds <- MCCurveBounds
  UartBounds <- MCUartBounds
  ClockBounds <- MCClockBounds
  DigestBounds <- MCDigestBounds
INVARIANT PacketsAccounted
INVARIANT ResponseIsOwn
INVARIANT QueuesFit
INVARIANT SpaceWakePending
INVARIANT UpIsSupervised
INVARIANT KeysBeforePort
INVARIANT InterfacesReturned
INVARIANT ReadyRunsOwnImage
INVARIANT PmkAgreed
INVARIANT KeysAgree
INVARIANT AddressStillLeased
INVARIANT HeapTiled
INVARIANT OneOwner
INVARIANT DecodesDeflate
INVARIANT SharedSecret
INVARIANT ConsoleServed
INVARIANT TimeOfTheCall
INVARIANT AsDefined
