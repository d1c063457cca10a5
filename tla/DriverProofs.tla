----------------------------- MODULE DriverProofs -----------------------------
(***************************************************************************)
(* What Driver promises for every number of tasks, pool, queue, backlog    *)
(* and ring size, and every load: no packet is lost or freed twice, the    *)
(* command slot belongs to one call, a response reaches the call it        *)
(* answers, no queue is overrun, and no wait for space is in vain.         *)
(***************************************************************************)
EXTENDS Driver, FiniteSetTheorems, TLAPS

(***************************************************************************)
(* The inductive invariant.  First the types: a task's record also says    *)
(* what the task does at each of its places, and when it holds nothing; a  *)
(* frame of a command bears the number of its call, so that a response     *)
(* that finds its sequence number in the slot answers that call.           *)
(***************************************************************************)
Ops == {"none", "command", "data", "wait"}
Tx  == {"tx", "read", "locked", "decide", "space", "spacebusy", "sent", "txfailed", "resp"}
Pcs == Tx \cup {"free", "pending", "pendingbusy", "frame"}
UserRecords ==
  {r \in [pc : Pcs, op : Ops, room : BOOLEAN, held : 0 .. 2, call : Nat] :
     /\ r.op = "none" <=> r.pc = "free"
     /\ r.op = "wait" <=> r.pc \in {"pending", "pendingbusy", "frame"}
     /\ r.pc \in {"free", "pending", "pendingbusy"} => r.held = 0
     /\ r.pc = "resp" => r.op = "command"}
UserOK == user \in [Users -> UserRecords]

RestOK ==
  /\ rx \in [pc : {"irq", "drain", "backoff", "desynced"}, errors : Nat]
  /\ events \in Seq({"event"}) /\ backlog \in Seq({"data"}) /\ free \in Nat /\ freed \in BOOLEAN
  /\ waiter \in [space : Users \cup {Nobody}, pending : Users \cup {Nobody}]

Slots == [owner : Users \cup {Nobody}, call : Nat, seq : Nat, done : BOOLEAN, got : Nat]

\* A response in the slot is that of the call, and so is the number the caller knows.
SlotOK ==
  /\ slot \in Slots /\ busy \in BOOLEAN
  /\ slot.seq = slot.call /\ ResponseIsOwn
  /\ \A u \in Commanding : user[u].call = slot.call

Frames   == {f \in [call : Nat, seq : Nat] : f.seq = f.call}
Received == {f \in [kind : {"response", "event", "data", "beacon", "garbage"}, call : Nat, seq : Nat] :
               f.seq = f.call}
Chips    == [cmd : Seq(Frames), tx : Seq(Frames), stream : Seq(Received),
             sts : SUBSET {"packet", "page"}, answers : SUBSET Frames,
             frames : Int, calls : Nat, data : Nat]
ChipOK ==
  /\ chip \in Chips
  /\ load \in Loads /\ seq = chip.calls /\ chip.calls <= load.commands

TypeOK == UserOK /\ RestOK /\ SlotOK /\ ChipOK
Accounted == TypeOK /\ PacketsAccounted
-----------------------------------------------------------------------------
(***************************************************************************)
(* Packets held by the tasks.                                              *)
(***************************************************************************)
OfOthers(f, u) == {p \in PacketsOf(f) : p[1] # u}

\* What one task holds adds to what the others do.
LEMMA HeldSplit ==
  ASSUME DriverSizes, NEW f \in [Users -> UserRecords], NEW u \in Users
  PROVE  /\ Cardinality(OfOthers(f, u)) \in Nat
         /\ Cardinality(PacketsOf(f)) = Cardinality(OfOthers(f, u)) + f[u].held
<1> DEFINE Others == OfOthers(f, u)
<1>1. IsFiniteSet(Users \X {1, 2})
  <2>1. IsFiniteSet({1} \cup {2}) /\ {1} \cup {2} = {1, 2}
    BY FS_Singleton, FS_AddElement
  <2>2. IsFiniteSet({1, 2})
    BY <2>1
  <2> QED
    BY <2>2, FS_Product DEF DriverSizes
<1>2. IsFiniteSet(Others) /\ Cardinality(Others) \in Nat
  BY <1>1, FS_Subset, FS_CardinalityType DEF PacketsOf, OfOthers
<1>3. <<u, 1>> \notin Others /\ <<u, 2>> \notin Others
  BY DEF OfOthers
<1>4. f[u].held \in 0 .. 2
  BY DEF UserRecords
<1>5. CASE f[u].held = 0
  <2>1. PacketsOf(f) = Others
    BY <1>5 DEF PacketsOf, OfOthers
  <2> QED
    BY <2>1, <1>2, <1>5
<1>6. CASE f[u].held = 1
  <2>1. PacketsOf(f) = Others \cup {<<u, 1>>}
    BY <1>6 DEF PacketsOf, OfOthers
  <2> QED
    BY <2>1, <1>2, <1>3, <1>6, FS_AddElement
<1>7. CASE f[u].held = 2
  <2> DEFINE More == Others \cup {<<u, 1>>}
  <2>1. PacketsOf(f) = More \cup {<<u, 2>>}
    BY <1>7 DEF PacketsOf, OfOthers
  <2>2. IsFiniteSet(More) /\ Cardinality(More) = Cardinality(Others) + 1
    BY <1>2, <1>3, FS_AddElement
  <2>3. <<u, 2>> \notin More
    BY <1>3
  <2> HIDE DEF More
  <2>4. Cardinality(More \cup {<<u, 2>>}) = Cardinality(More) + 1
    BY <2>2, <2>3, FS_AddElement
  <2> QED
    BY <2>1, <2>2, <2>4, <1>2, <1>7
<1> QED
  BY <1>2, <1>4, <1>5, <1>6, <1>7

\* A task that changes places changes what the tasks hold by what it takes or gives.
LEMMA HeldMoves ==
  ASSUME DriverSizes, UserOK, NEW u \in Users, NEW r \in UserRecords, Goes(u, r)
  PROVE  /\ UserOK'
         /\ Held \in Nat /\ Held' \in Nat /\ Held' = Held - user[u].held + r.held
<1>1. UserOK' /\ user'[u] = r
  BY DEF UserOK, Goes
<1>2. OfOthers(user', u) = OfOthers(user, u)
  BY DEF UserOK, Goes, PacketsOf, OfOthers
<1>3. Cardinality(OfOthers(user, u)) \in Nat /\ Held = Cardinality(OfOthers(user, u)) + user[u].held
  BY HeldSplit DEF UserOK, Held
<1>4. Held' = Cardinality(OfOthers(user', u)) + user'[u].held
  BY <1>1, HeldSplit DEF UserOK, Held
<1>5. user[u].held \in 0 .. 2 /\ r.held \in 0 .. 2
  BY DEF UserOK, UserRecords
<1> QED
  BY <1>1, <1>2, <1>3, <1>4, <1>5
-----------------------------------------------------------------------------
(***************************************************************************)
(* What a step of a task does to its record and to the packets.            *)
(***************************************************************************)
\* It goes to a record of its type, and packets only change hands.
Exchanges(u) ==
  \E r \in UserRecords :
    /\ Goes(u, r)
    /\ free' \in Nat /\ backlog' \in Seq({"data"})
    /\ free' + Len(backlog') + r.held = free + Len(backlog) + user[u].held
    /\ Len(backlog') <= Len(backlog)

LEMMA PlaceOf ==
  ASSUME UserOK, NEW u \in Users
  PROVE  user[u] \in UserRecords /\ user[u].held \in Nat /\ user[u].pc \in Pcs /\ user[u].call \in Nat
BY DEF UserOK, UserRecords

LEMMA Moved ==
  ASSUME UserOK, NEW u \in Users, user[u].pc \in Tx, NEW p \in Tx, p = "resp" => user[u].op = "command"
  PROVE  /\ To(u, p) \in UserRecords /\ To(u, p).pc = p
         /\ To(u, p).held = user[u].held /\ To(u, p).op = user[u].op /\ To(u, p).call = user[u].call
BY PlaceOf DEF UserRecords, Pcs, Tx, To

LEMMA StaysIdle == Idle \in UserRecords /\ Idle.held = 0
BY DEF UserRecords, Ops, Pcs, Tx, Idle, Doing

\* A step that leaves the packets alone.
LEMMA MoveExchanges ==
  ASSUME UserOK, RestOK, NEW u \in Users, NEW r \in UserRecords, Goes(u, r), r.held = user[u].held,
         UNCHANGED <<free, backlog>>
  PROVE  Exchanges(u)
BY PlaceOf DEF Exchanges, RestOK

\* A call that returns gives back what it held.
LEMMA ReturnExchanges ==
  ASSUME UserOK, RestOK, NEW u \in Users, Return(u), UNCHANGED backlog
  PROVE  Exchanges(u)
<1>1. Goes(u, Idle) /\ free' = free + user[u].held
  BY DEF Return
<1>2. free' \in Nat /\ backlog' \in Seq({"data"}) /\ Len(backlog') \in Nat
  BY <1>1, PlaceOf DEF RestOK
<1>3. free' + Len(backlog') + Idle.held = free + Len(backlog) + user[u].held
  BY <1>1, <1>2, PlaceOf, StaysIdle DEF RestOK
<1> QED
  BY <1>1, <1>2, <1>3, StaysIdle DEF Exchanges

LEMMA WaitExchanges ==
  ASSUME UserOK, RestOK, NEW u \in Users, user[u].held = 0, WaitRxLoop(u), UNCHANGED free
  PROVE  Exchanges(u)
<1>1. CASE backlog # <<>>
  <2>1. Doing("frame", "wait", 1, 0) \in UserRecords /\ Doing("frame", "wait", 1, 0).held = 1
    BY DEF UserRecords, Ops, Pcs, Tx, Doing
  <2>2. Goes(u, Doing("frame", "wait", 1, 0)) /\ backlog' = Tail(backlog)
    BY <1>1 DEF WaitRxLoop
  <2>3. backlog' \in Seq({"data"}) /\ Len(backlog') = Len(backlog) - 1
    BY <1>1, <2>2 DEF RestOK
  <2> QED
    BY <2>1, <2>2, <2>3 DEF Exchanges, RestOK
<1>2. CASE backlog = <<>>
  <2>1. \A p \in {"pending", "pendingbusy"} :
           Doing(p, "wait", 0, 0) \in UserRecords /\ Doing(p, "wait", 0, 0).held = 0
    BY DEF UserRecords, Ops, Pcs, Tx, Doing
  <2>2. UNCHANGED backlog /\ \E r \in UserRecords : r.held = 0 /\ Goes(u, r)
    BY <1>2, <2>1, StaysIdle DEF WaitRxLoop
  <2> QED
    BY <2>2, MoveExchanges
<1> QED
  BY <1>1, <1>2

LEMMA UserExchanges ==
  ASSUME UserOK, RestOK, chip.calls \in Nat, NEW u \in Users, UserStep(u)
  PROVE  Exchanges(u)
<1> USE DEF Tx
<1>1. CASE TxArm(u)
  BY <1>1, Moved, MoveExchanges DEF TxArm, Step
<1>2. CASE ReadStatus(u)
  <2>1. PICK p \in {"decide", "locked", "txfailed"} :
           Goes(u, [To(u, p) EXCEPT !.room = p = "decide" /\ HasRoom(QueueOf(u))])
    BY <1>2 DEF ReadStatus
  <2> DEFINE r == [To(u, p) EXCEPT !.room = p = "decide" /\ HasRoom(QueueOf(u))]
  <2>2. To(u, p) \in UserRecords /\ To(u, p).held = user[u].held
    BY <1>2, Moved DEF ReadStatus, Step
  <2>3. r \in UserRecords /\ r.held = user[u].held
    BY <2>2 DEF UserRecords
  <2> QED
    BY <1>2, <2>1, <2>3, MoveExchanges DEF ReadStatus, host
<1>3. CASE TxDecide(u)
  <2>1. \E p \in {"sent", "txfailed", "spacebusy", "tx", "space"} : Goes(u, To(u, p))
    BY <1>3 DEF TxDecide, WaitSpace
  <2> QED
    BY <1>3, <2>1, Moved, MoveExchanges DEF TxDecide, Step
<1>4. CASE SendCommand(u)
  <2>1. Doing("tx", "command", 1, chip.calls + 1) \in UserRecords
    BY DEF UserRecords, Ops, Pcs, Doing
  <2>2. Doing("tx", "command", 1, chip.calls + 1).held = 1
    BY DEF Doing
  <2>3. user[u].held = 0
    BY <1>4, PlaceOf DEF SendCommand, UserRecords
  <2>4. CASE UNCHANGED free /\ Goes(u, Idle)
    BY <1>4, <2>3, <2>4, StaysIdle, MoveExchanges DEF SendCommand
  <2>5. CASE free # 0 /\ free' = free - 1 /\ Goes(u, Doing("tx", "command", 1, chip.calls + 1))
    <3> DEFINE r == Doing("tx", "command", 1, chip.calls + 1)
    <3>1. free' \in Nat /\ backlog' \in Seq({"data"}) /\ free' + Len(backlog') + r.held = free + Len(backlog) + user[u].held
      <4>1. UNCHANGED backlog
        BY <1>4 DEF SendCommand
      <4> QED
        BY <4>1, <2>2, <2>3, <2>5 DEF RestOK
    <3> QED
      BY <1>4, <2>1, <2>5, <3>1 DEF SendCommand, Exchanges, RestOK
  <2> QED
    BY <1>4, <2>4, <2>5 DEF SendCommand
<1>5. CASE CommandSent(u)
  BY <1>5, Moved, MoveExchanges DEF CommandSent, Step, host
<1>6. CASE CommandEnds(u)
  BY <1>6, ReturnExchanges DEF CommandEnds
<1>7. CASE SendData(u)
  <2>1. Doing("tx", "data", 2, 0) \in UserRecords /\ Doing("tx", "data", 2, 0).held = 2
    BY DEF UserRecords, Ops, Pcs, Doing
  <2>2. user[u].held = 0
    BY <1>7, PlaceOf DEF SendData, UserRecords
  <2>3. CASE free < 2
    BY <1>7, <2>2, <2>3, StaysIdle, MoveExchanges DEF SendData
  <2>4. CASE ~(free < 2)
    <3> DEFINE r == Doing("tx", "data", 2, 0)
    <3>1. free' \in Nat /\ backlog' \in Seq({"data"}) /\ free' + Len(backlog') + r.held = free + Len(backlog) + user[u].held
      BY <1>7, <2>1, <2>2, <2>4 DEF SendData, RestOK
    <3> QED
      BY <1>7, <2>1, <2>4, <3>1 DEF SendData, Exchanges, RestOK
  <2> QED
    BY <2>3, <2>4
<1>8. CASE TxEnds(u)
  BY <1>8, ReturnExchanges DEF TxEnds
<1>9. CASE WaitRx(u)
  BY <1>9, PlaceOf, WaitExchanges DEF WaitRx, UserRecords
<1>10. CASE WaitRxWakes(u)
  BY <1>10, PlaceOf, WaitExchanges DEF WaitRxWakes, Step, UserRecords
<1>11. CASE FrameDone(u)
  BY <1>11, ReturnExchanges DEF FrameDone
<1>12. CASE Cancel(u)
  BY <1>12, ReturnExchanges DEF Cancel
<1> QED
  BY <1>1, <1>2, <1>3, <1>4, <1>5, <1>6, <1>7, <1>8, <1>9, <1>10, <1>11, <1>12 DEF UserStep

LEMMA UserConserves ==
  ASSUME DriverSizes, UserOK, RestOK, Conserved, chip.calls \in Nat, NEW u \in Users, UserStep(u)
  PROVE  UserOK' /\ Conserved'
<1>1. PICK r \in UserRecords :
        /\ Goes(u, r)
        /\ free' \in Nat /\ backlog' \in Seq({"data"})
        /\ free' + Len(backlog') + r.held = free + Len(backlog) + user[u].held
        /\ Len(backlog') <= Len(backlog)
  BY UserExchanges DEF Exchanges
<1>2. UserOK' /\ Held \in Nat /\ Held' \in Nat /\ Held' = Held - user[u].held + r.held
  BY <1>1, HeldMoves
<1>3. r.held \in Nat /\ user[u].held \in Nat
  BY PlaceOf DEF UserRecords
<1>4. Len(backlog) \in Nat /\ Len(backlog') \in Nat /\ free \in Nat /\ BacklogMax \in Nat /\ PoolSize \in Nat
  BY <1>1 DEF RestOK, DriverSizes
<1> DEFINE a == free' b == Len(backlog') h == Held' x == user[u].held y == r.held
<1>5. a + b + y = free + Len(backlog) + x /\ h = Held - x + y /\ b <= Len(backlog)
  BY <1>1, <1>2
<1>6. /\ a \in Nat /\ b \in Nat /\ h \in Nat /\ x \in Nat /\ y \in Nat
      /\ free \in Nat /\ Len(backlog) \in Nat /\ Held \in Nat
  BY <1>1, <1>2, <1>3, <1>4
<1> HIDE DEF a, b, h, x, y
<1>7. a + b + h = free + Len(backlog) + Held
  BY <1>5, <1>6
<1> QED
  BY <1>2, <1>4, <1>5, <1>6, <1>7 DEF Conserved, a, b, h

LEMMA UserRest ==
  ASSUME DriverSizes, UserOK, RestOK, chip.calls \in Nat, NEW u \in Users, UserStep(u)
  PROVE  RestOK'
<1>1. free' \in Nat /\ backlog' \in Seq({"data"})
  BY UserExchanges DEF Exchanges
<1>2. UNCHANGED <<rx, events>>
  BY DEF UserStep, TxArm, ReadStatus, TxDecide, SendCommand, CommandSent, CommandEnds, SendData, TxEnds,
         WaitRx, WaitRxWakes, FrameDone, Cancel, host
<1>3. freed' \in BOOLEAN
  BY DEF UserStep, TxArm, ReadStatus, TxDecide, WaitSpace, SendCommand, CommandSent, CommandEnds, SendData, TxEnds,
         WaitRx, WaitRxWakes, FrameDone, Cancel, host, RestOK
<1>4. waiter' \in [space : Users \cup {Nobody}, pending : Users \cup {Nobody}]
  <2> USE DEF RestOK
  <2>1. CASE TxArm(u)
    BY <2>1 DEF TxArm
  <2>2. CASE TxDecide(u)
    BY <2>2 DEF TxDecide, WaitSpace
  <2>3. CASE WaitRxLoop(u)
    BY <2>3 DEF WaitRxLoop
  <2>4. CASE Cancel(u)
    BY <2>4 DEF Cancel
  <2>5. CASE UNCHANGED waiter
    BY <2>5
  <2> QED
    BY <2>1, <2>2, <2>3, <2>4, <2>5
       DEF UserStep, ReadStatus, SendCommand, CommandSent, CommandEnds, SendData, TxEnds, WaitRx, WaitRxWakes,
           FrameDone, host
<1> QED
  BY <1>1, <1>2, <1>3, <1>4 DEF RestOK
-----------------------------------------------------------------------------
(***************************************************************************)
(* The command slot.                                                       *)
(***************************************************************************)
\* What a step does to who has a command in progress.
LEMMA CommandingMoves ==
  ASSUME UserOK, NEW u \in Users, NEW r \in UserRecords, Goes(u, r)
  PROVE  /\ u \in Commanding <=> user[u].op = "command"
         /\ Commanding' = IF r.op = "command" THEN Commanding \cup {u} ELSE Commanding \ {u}
         /\ \A v \in Users : user'[v] = IF v = u THEN r ELSE user[v]
BY DEF UserOK, UserRecords, Goes, Commanding, Ops, Pcs, Tx

LEMMA SlotStays ==
  ASSUME UserOK, SlotOK, SlotOwned, NEW u \in Users, NEW r \in UserRecords, Goes(u, r),
         \/ r.op = "command" /\ user[u].op = "command" /\ r.call = user[u].call
         \/ r.op # "command" /\ user[u].op # "command",
         UNCHANGED <<slot, busy>>
  PROVE  SlotOK' /\ SlotOwned'
<1>1. Commanding' = Commanding /\ \A v \in Commanding : user'[v].call = user[v].call
  BY CommandingMoves DEF Commanding
<1> QED
  BY <1>1 DEF SlotOK, SlotOwned, ResponseIsOwn

LEMMA SlotReturned ==
  ASSUME UserOK, SlotOK, SlotOwned, NEW u \in Users, Return(u)
  PROVE  SlotOK' /\ SlotOwned'
<1>1. CASE user[u].op = "command"
  <2>1. Commanding = {u}
    BY <1>1, StaysIdle, CommandingMoves DEF Return, SlotOwned
  <2>2. Commanding' = {} /\ slot' = NoSlot /\ busy' = FALSE
    BY <1>1, <2>1, StaysIdle, CommandingMoves DEF Return, Idle, Doing
  <2>3. NoSlot \in Slots /\ NoSlot.seq = NoSlot.call /\ ~NoSlot.done
    BY DEF NoSlot, Slot, Slots
  <2> QED
    BY <2>2, <2>3 DEF SlotOK, SlotOwned, ResponseIsOwn
<1>2. CASE user[u].op # "command"
  BY <1>2, StaysIdle, SlotStays DEF Return, Idle, Doing
<1> QED
  BY <1>1, <1>2

LEMMA WaitSlot ==
  ASSUME UserOK, SlotOK, SlotOwned, NEW u \in Users, user[u].op # "command", WaitRxLoop(u), UNCHANGED <<slot, busy>>
  PROVE  SlotOK' /\ SlotOwned'
<1>1. \A p \in {"pending", "pendingbusy"} : Doing(p, "wait", 0, 0) \in UserRecords /\ Doing(p, "wait", 0, 0).op = "wait"
  BY DEF UserRecords, Ops, Pcs, Tx, Doing
<1>2. Doing("frame", "wait", 1, 0) \in UserRecords /\ Doing("frame", "wait", 1, 0).op = "wait"
  BY DEF UserRecords, Ops, Pcs, Tx, Doing
<1>3. Idle.op = "none"
  BY DEF Idle, Doing
<1>4. \E r \in UserRecords : r.op # "command" /\ Goes(u, r)
  BY <1>1, <1>2, <1>3, StaysIdle DEF WaitRxLoop
<1> QED
  BY <1>4, SlotStays

\* SeqMax is not reached while commands are still sent, so the numbers do not wrap.
LEMMA NextNumber ==
  ASSUME DriverSizes, ChipOK, chip.calls < load.commands
  PROVE  NextSeq = chip.calls + 1 /\ load.commands \in Nat
<1>1. load.commands \in Nat /\ load.commands <= SeqMax /\ SeqMax \in Nat /\ chip.calls \in Nat /\ seq = chip.calls
  BY DEF DriverSizes, ChipOK, Chips
<1>2. \A m \in Nat : \A n \in Nat : m < n => m % n = m
  OBVIOUS
<1> QED
  BY <1>1, <1>2 DEF NextSeq

LEMMA UserSlot ==
  ASSUME DriverSizes, TypeOK, PacketsAccounted, NEW u \in Users, UserStep(u)
  PROVE  SlotOK' /\ SlotOwned'
<1> USE DEF TypeOK, PacketsAccounted, Tx
<1>1. CASE TxArm(u)
  BY <1>1, Moved, SlotStays, PlaceOf DEF TxArm, Step
<1>2. CASE ReadStatus(u)
  <2>1. PICK p \in {"decide", "locked", "txfailed"} :
           Goes(u, [To(u, p) EXCEPT !.room = p = "decide" /\ HasRoom(QueueOf(u))])
    BY <1>2 DEF ReadStatus
  <2> DEFINE r == [To(u, p) EXCEPT !.room = p = "decide" /\ HasRoom(QueueOf(u))]
  <2>2. To(u, p) \in UserRecords /\ To(u, p).op = user[u].op /\ To(u, p).call = user[u].call
    BY <1>2, Moved DEF ReadStatus, Step
  <2>3. r \in UserRecords /\ r.op = user[u].op /\ r.call = user[u].call
    BY <2>2 DEF UserRecords
  <2>4. UNCHANGED <<slot, busy>>
    BY <1>2 DEF ReadStatus, host
  <2> QED
    BY <2>1, <2>3, <2>4, SlotStays, PlaceOf
<1>3. CASE TxDecide(u)
  <2>1. PICK p \in {"sent", "txfailed", "spacebusy", "tx", "space"} : Goes(u, To(u, p))
    BY <1>3 DEF TxDecide, WaitSpace
  <2>2. UNCHANGED <<slot, busy>> /\ user[u].pc \in Tx
    BY <1>3 DEF TxDecide, Step
  <2> QED
    BY <2>1, <2>2, Moved, SlotStays, PlaceOf
<1>4. CASE SendCommand(u)
  <2>1. user[u].op # "command"
    BY <1>4, PlaceOf DEF SendCommand, UserRecords
  <2>2. CASE UNCHANGED <<slot, busy>> /\ Goes(u, Idle)
    BY <2>1, <2>2, StaysIdle, SlotStays DEF Idle, Doing
  <2>3. CASE ~busy /\ busy' = TRUE
    <3> DEFINE r == Doing("tx", "command", 1, chip.calls + 1)
    <3>1. Goes(u, r) /\ slot' = Slot(u, chip.calls + 1, NextSeq)
      BY <1>4, <2>3 DEF SendCommand
    <3>2. r \in UserRecords /\ r.op = "command" /\ r.call = chip.calls + 1
      BY DEF UserRecords, Ops, Pcs, Doing, ChipOK, Chips
    <3>3. NextSeq = chip.calls + 1 /\ chip.calls \in Nat
      BY <1>4, NextNumber DEF SendCommand, ChipOK, Chips
    <3>4. Commanding' = {u} /\ user'[u] = r
      BY <2>3, <3>1, <3>2, CommandingMoves DEF SlotOwned
    <3>5. /\ slot' \in Slots /\ slot'.seq = slot'.call /\ slot'.call = chip.calls + 1
          /\ slot'.owner = u /\ ~slot'.done
      BY <3>1, <3>3 DEF Slot, Slots
    <3> QED
      BY <2>3, <3>2, <3>4, <3>5 DEF SlotOK, SlotOwned, ResponseIsOwn
  <2> QED
    BY <1>4, <2>2, <2>3 DEF SendCommand, SlotOK
<1>5. CASE CommandSent(u)
  BY <1>5, Moved, SlotStays, PlaceOf DEF CommandSent, Step, host
<1>6. CASE SendData(u)
  <2>1. user[u].op # "command"
    BY <1>6, PlaceOf DEF SendData, UserRecords
  <2>2. Doing("tx", "data", 2, 0) \in UserRecords /\ Doing("tx", "data", 2, 0).op # "command" /\ Idle.op # "command"
    BY DEF UserRecords, Ops, Pcs, Idle, Doing
  <2> QED
    BY <1>6, <2>1, <2>2, StaysIdle, SlotStays DEF SendData
<1>7. CASE Return(u)
  BY <1>7, SlotReturned
<1>8. CASE WaitRx(u)
  BY <1>8, PlaceOf, WaitSlot DEF WaitRx, UserRecords
<1>9. CASE WaitRxWakes(u)
  BY <1>9, PlaceOf, WaitSlot DEF WaitRxWakes, Step, UserRecords
<1> QED
  BY <1>1, <1>2, <1>3, <1>4, <1>5, <1>6, <1>7, <1>8, <1>9
     DEF UserStep, CommandEnds, TxEnds, FrameDone, Cancel
-----------------------------------------------------------------------------
(***************************************************************************)
(* Frames to and from the chip.                                            *)
(***************************************************************************)
LEMMA UserChip ==
  ASSUME DriverSizes, TypeOK, PacketsAccounted, NEW u \in Users, UserStep(u)
  PROVE  ChipOK'
<1> USE DEF TypeOK, PacketsAccounted
<1>1. CASE TxDecide(u)
  <2>1. Frame(u) \in Frames /\ QueueOf(u) \in {"cmd", "tx"}
    BY DEF Frame, Frames, QueueOf, UserOK, UserRecords, SlotOK, Slots, Commanding
  <2>2. chip' = chip \/ chip' = [chip EXCEPT ![QueueOf(u)] = Append(@, Frame(u))]
    BY <1>1 DEF TxDecide
  <2>3. UNCHANGED <<seq, load>>
    BY <1>1 DEF TxDecide
  <2>4. Append(chip.cmd, Frame(u)) \in Seq(Frames) /\ Append(chip.tx, Frame(u)) \in Seq(Frames)
    BY <2>1 DEF ChipOK, Chips
  <2>5. chip' \in Chips /\ chip'.calls = chip.calls
    <3>1. CASE chip' = [chip EXCEPT !.cmd = Append(chip.cmd, Frame(u))]
      BY <2>4, <3>1 DEF ChipOK, Chips
    <3>2. CASE chip' = [chip EXCEPT !.tx = Append(chip.tx, Frame(u))]
      BY <2>4, <3>2 DEF ChipOK, Chips
    <3> QED
      BY <2>1, <2>2, <3>1, <3>2 DEF ChipOK
  <2> QED
    BY <2>3, <2>5 DEF ChipOK
<1>2. CASE SendCommand(u)
  <2>1. CASE UNCHANGED <<seq, chip>>
    BY <1>2, <2>1 DEF SendCommand, ChipOK
  <2>2. CASE seq' = NextSeq /\ chip' = [chip EXCEPT !.calls = @ + 1]
    <3>1. NextSeq = chip.calls + 1 /\ load.commands \in Nat /\ chip.calls < load.commands /\ UNCHANGED load
      BY <1>2, NextNumber DEF SendCommand
    <3>2. chip.calls \in Nat /\ chip.calls + 1 \in Nat /\ chip.calls + 1 <= load.commands
      BY <3>1 DEF ChipOK, Chips
    <3>3. chip' \in Chips /\ chip'.calls = chip.calls + 1
      BY <2>2, <3>1, <3>2 DEF ChipOK, Chips
    <3> QED
      BY <2>2, <3>1, <3>2, <3>3 DEF ChipOK
  <2> QED
    BY <1>2, <2>1, <2>2 DEF SendCommand
<1>3. CASE SendData(u)
  <2>1. chip.data + 1 \in Nat
    BY DEF ChipOK, Chips
  <2> QED
    BY <1>3, <2>1 DEF SendData, ChipOK, Chips
<1>4. CASE UNCHANGED <<chip, seq, load>>
  BY <1>4 DEF ChipOK
<1> QED
  BY <1>1, <1>2, <1>3, <1>4
     DEF UserStep, TxArm, ReadStatus, CommandSent, CommandEnds, TxEnds, WaitRx, WaitRxWakes, FrameDone, Cancel, host

LEMMA UserAccounted ==
  ASSUME DriverSizes, Accounted, NEW u \in Users, UserStep(u)
  PROVE  Accounted'
<1>1. chip.calls \in Nat
  BY DEF Accounted, TypeOK, ChipOK, Chips
<1> QED
  BY <1>1, UserConserves, UserRest, UserSlot, UserChip DEF Accounted, TypeOK, PacketsAccounted
-----------------------------------------------------------------------------
(***************************************************************************)
(* The other steps.                                                        *)
(***************************************************************************)
\* Who leaves the tasks and the slot alone.
LEMMA SlotUntouched ==
  ASSUME SlotOK, SlotOwned, UNCHANGED <<user, slot, busy>>
  PROVE  SlotOK' /\ SlotOwned'
BY DEF SlotOK, SlotOwned, ResponseIsOwn, Commanding

LEMMA PacketsUntouched ==
  ASSUME Conserved, UNCHANGED <<user, free, backlog>>
  PROVE  Conserved'
BY DEF Conserved, Held, PacketsOf

LEMMA GatherAccounted ==
  ASSUME DriverSizes, Accounted, Gather
  PROVE  Accounted'
<1> USE DEF Accounted, TypeOK, PacketsAccounted
<1>1. waiter' \in [space : Users \cup {Nobody}, pending : Users \cup {Nobody}]
  BY DEF Gather, RestOK
<1>2. RestOK'
  BY <1>1 DEF Gather, RestOK
<1>3. UserOK' /\ ChipOK'
  BY DEF Gather, UserOK, ChipOK
<1> QED
  BY <1>2, <1>3, SlotUntouched, PacketsUntouched DEF Gather

LEMMA PopEventAccounted ==
  ASSUME DriverSizes, Accounted, PopEvent
  PROVE  Accounted'
<1> USE DEF Accounted, TypeOK, PacketsAccounted
<1>1. events' \in Seq({"event"})
  BY DEF PopEvent, RestOK
<1>2. UserOK' /\ ChipOK' /\ RestOK'
  BY <1>1 DEF PopEvent, UserOK, ChipOK, RestOK
<1> QED
  BY <1>2, SlotUntouched, PacketsUntouched DEF PopEvent

LEMMA EmitType ==
  ASSUME NEW c \in Chips, NEW f \in Received
  PROVE  Emit(c, f) \in Chips /\ Emit(c, f).calls = c.calls
<1>1. Append(c.stream, f) \in Seq(Received) /\ c.frames + 1 \in Int /\ c.sts \cup {"packet"} \in SUBSET {"packet", "page"}
  BY DEF Chips
<1> QED
  BY <1>1 DEF Emit, Chips

LEMMA ChipAccounted ==
  ASSUME DriverSizes, Accounted, Chip
  PROVE  Accounted'
<1> USE DEF Accounted, TypeOK, PacketsAccounted
<1>1. UNCHANGED <<user, due, host>>
  BY DEF Chip, ChipTakes, ChipAnswers, ChipSends, ChipRaises
<1>2. ChipOK'
  <2> USE DEF ChipOK, Chips
  <2>1. CASE ChipTakes
    <3>1. \A q \in {"cmd", "tx"} : chip[q] # <<>> => Head(chip[q]) \in Frames /\ Tail(chip[q]) \in Seq(Frames)
      OBVIOUS
    <3>2. CASE chip.cmd # <<>> /\ chip' = [chip EXCEPT !.cmd = Tail(@), !.sts = @ \cup {"page"},
                                                      !.answers = @ \cup {Head(chip.cmd)}]
      BY <3>1, <3>2, <1>1 DEF host
    <3>3. CASE chip.tx # <<>> /\ chip' = [chip EXCEPT !.tx = Tail(@), !.sts = @ \cup {"page"}]
      BY <3>1, <3>3, <1>1 DEF host
    <3> QED
      BY <2>1, <3>2, <3>3 DEF ChipTakes
  <2>2. CASE ChipAnswers
    <3>1. PICK f \in chip.answers :
            chip' = [Emit(chip, [kind |-> "response", call |-> f.call, seq |-> f.seq])
                       EXCEPT !.answers = @ \ {f}, !.frames = @ - 1]
      BY <2>2 DEF ChipAnswers
    <3>2. [kind |-> "response", call |-> f.call, seq |-> f.seq] \in Received
      BY DEF Frames, Received
    <3> DEFINE c == Emit(chip, [kind |-> "response", call |-> f.call, seq |-> f.seq])
    <3>3. c \in Chips /\ c.calls = chip.calls
      BY <3>2, EmitType
    <3> HIDE DEF c
    <3>5. c.frames - 1 \in Int /\ c.answers \ {f} \in SUBSET Frames
      BY <3>3
    <3>4. chip' = [c EXCEPT !.answers = @ \ {f}, !.frames = @ - 1]
      BY <3>1 DEF c
    <3> QED
      BY <3>3, <3>4, <3>5, <1>1 DEF host
  <2>3. CASE ChipSends
    <3>1. PICK k \in load.kinds : chip' = Emit(chip, [kind |-> k, call |-> 0, seq |-> 0])
      BY <2>3 DEF ChipSends
    <3>2. [kind |-> k, call |-> 0, seq |-> 0] \in Received
      BY DEF Received, DriverSizes
    <3> QED
      BY <3>1, <3>2, <1>1, EmitType DEF host
  <2>4. CASE ChipRaises
    BY <2>4, <1>1 DEF ChipRaises, host
  <2> QED
    BY <2>1, <2>2, <2>3, <2>4 DEF Chip
<1>3. UserOK' /\ RestOK'
  BY <1>1 DEF UserOK, RestOK, host
<1> QED
  BY <1>1, <1>2, <1>3, SlotUntouched, PacketsUntouched DEF host

LEMMA RxIrqAccounted ==
  ASSUME DriverSizes, Accounted, RxIrq
  PROVE  Accounted'
<1> USE DEF Accounted, TypeOK, PacketsAccounted
<1>1. chip' \in Chips /\ chip'.calls = chip.calls
  BY DEF RxIrq, ChipOK, Chips
<1>2. RestOK'
  BY DEF RxIrq, RestOK
<1>3. UserOK' /\ ChipOK'
  BY <1>1 DEF RxIrq, UserOK, ChipOK
<1> QED
  BY <1>2, <1>3, SlotUntouched, PacketsUntouched DEF RxIrq

LEMMA RxBackoffAccounted ==
  ASSUME DriverSizes, Accounted, RxBackoff
  PROVE  Accounted'
<1> USE DEF Accounted, TypeOK, PacketsAccounted
<1>1. RestOK' /\ UserOK' /\ ChipOK'
  BY DEF RxBackoff, RestOK, UserOK, ChipOK
<1> QED
  BY <1>1, SlotUntouched, PacketsUntouched DEF RxBackoff

\* dispatch_rx(): a response that matches answers the call of the slot.
LEMMA DispatchAccounted ==
  ASSUME DriverSizes, Accounted, NEW f \in Received, Dispatch(f), free # 0, UNCHANGED <<user, busy, freed, waiter>>,
         rx' = [rx EXCEPT !.errors = 0]
  PROVE  SlotOK' /\ SlotOwned' /\ RestOK' /\ Conserved'
<1> USE DEF Accounted, TypeOK, PacketsAccounted
<1>1. SlotOK' /\ SlotOwned'
  <2>1. CASE UNCHANGED slot
    BY <2>1, SlotUntouched
  <2>2. CASE Matches(f) /\ slot' = [slot EXCEPT !.done = TRUE, !.got = f.call]
    <3>1. f.call = slot.call /\ f.call \in Nat /\ slot.owner # Nobody
      BY <2>2 DEF Matches, Received, SlotOK
    <3>2. busy
      BY <3>1 DEF SlotOwned, NoSlot, Slot
    <3>3. /\ slot' \in Slots /\ slot'.owner = slot.owner /\ slot'.call = slot.call /\ slot'.seq = slot.seq
          /\ slot'.got = slot.call
      BY <2>2, <3>1 DEF SlotOK, Slots
    <3>4. Commanding' = Commanding
      BY DEF Commanding
    <3> QED
      BY <3>2, <3>3, <3>4 DEF SlotOK, SlotOwned, ResponseIsOwn
  <2> QED
    BY <2>1, <2>2 DEF Dispatch
<1>2. events' \in Seq({"event"})
  <2>1. f.kind = "event" => Append(events, f.kind) \in Seq({"event"})
    BY DEF RestOK
  <2> QED
    BY <2>1 DEF Dispatch, RestOK
<1>3. Held' = Held
  BY DEF Held, PacketsOf
<1>4. rx' \in [pc : {"irq", "drain", "backoff", "desynced"}, errors : Nat]
  BY DEF RestOK
<1>5. CASE UNCHANGED <<backlog, free>>
  <2>1. RestOK'
    BY <1>2, <1>4, <1>5 DEF RestOK
  <2> QED
    BY <1>1, <1>5, <2>1, PacketsUntouched
<1>6. CASE /\ f.kind = "data" /\ Len(backlog) < BacklogMax
           /\ backlog' = Append(backlog, f.kind) /\ free' = free - 1
  <2>1. backlog' \in Seq({"data"}) /\ Len(backlog') = Len(backlog) + 1 /\ free' \in Nat
    BY <1>6 DEF RestOK
  <2>2. Len(backlog) \in Nat /\ Len(backlog') \in Nat /\ BacklogMax \in Nat /\ free \in Nat
    BY <2>1 DEF RestOK, DriverSizes
  <2>3. free' + Len(backlog') = free + Len(backlog) /\ Len(backlog') <= BacklogMax
    BY <1>6, <2>1, <2>2
  <2> QED
    <3>1. RestOK'
      BY <1>2, <1>4, <2>1 DEF RestOK
    <3>2. Held' + (free' + Len(backlog')) = Held + (free + Len(backlog))
      BY <1>3, <2>3
    <3> QED
      BY <1>1, <1>3, <2>2, <2>3, <3>1 DEF Conserved
<1> QED
  BY <1>1, <1>5, <1>6 DEF Dispatch

LEMMA RxDrainAccounted ==
  ASSUME DriverSizes, Accounted, RxDrain
  PROVE  Accounted'
<1> USE DEF Accounted, TypeOK, PacketsAccounted
<1>1. UserOK'
  BY DEF RxDrain, UserOK
<1>2. CASE chip.stream = <<>>
  BY <1>1, <1>2, SlotUntouched, PacketsUntouched DEF RxDrain, RestOK, ChipOK
<1>3. CASE chip.stream # <<>>
  <2> DEFINE f == Head(chip.stream)
  <2>1. f \in Received /\ Tail(chip.stream) \in Seq(Received)
    BY <1>3 DEF ChipOK, Chips
  <2>2. chip' = [chip EXCEPT !.stream = Tail(@)] /\ UNCHANGED <<seq, load>>
    BY <1>3 DEF RxDrain
  <2>3. ChipOK'
    BY <2>1, <2>2 DEF ChipOK, Chips
  <2>4. CASE RxError /\ UNCHANGED <<slot, events, backlog, free>>
    <3>1. rx' \in [pc : {"irq", "drain", "backoff", "desynced"}, errors : Nat]
      BY <2>4 DEF RxError, RestOK
    <3>2. RestOK'
      BY <2>4, <3>1 DEF RxDrain, RestOK
    <3> QED
      BY <1>1, <2>3, <2>4, <3>2, SlotUntouched, PacketsUntouched DEF RxDrain
  <2>5. CASE free # 0 /\ rx' = [rx EXCEPT !.errors = 0] /\ Dispatch(f)
    <3> HIDE DEF f
    <3> QED
      BY <1>1, <2>1, <2>3, <2>5, DispatchAccounted DEF RxDrain
  <2> QED
    BY <1>3, <2>4, <2>5 DEF RxDrain
<1> QED
  BY <1>2, <1>3

LEMMA InitAccounted ==
  ASSUME DriverSizes, Init
  PROVE  Accounted
<1>1. UserOK
  BY StaysIdle DEF Init, UserOK
<1>2. Commanding = {} /\ \A u \in Users : user[u].held = 0
  BY DEF Init, Commanding, Idle, Doing
<1>3. PacketsOf(user) = {}
  BY <1>2 DEF PacketsOf
<1>4. Held = 0
  BY <1>3, FS_EmptySet DEF Held
<1>5. backlog = <<>> /\ free = PoolSize /\ PoolSize \in Nat /\ BacklogMax \in Nat
  BY DEF Init, DriverSizes
<1>6. Conserved
  BY <1>4, <1>5 DEF Conserved
<1>7. RestOK
  <2>1. rx \in [pc : {"irq", "drain", "backoff", "desynced"}, errors : Nat]
    BY DEF Init
  <2>2. waiter \in [space : Users \cup {Nobody}, pending : Users \cup {Nobody}]
    BY DEF Init
  <2>3. events \in Seq({"event"}) /\ backlog \in Seq({"data"})
    BY DEF Init
  <2>4. free \in Nat
    BY <1>5
  <2>5. freed \in BOOLEAN /\ load \in Loads
    BY DEF Init
  <2>6. due \subseteq Users \cup {Rx}
    BY DEF Init
  <2> QED
    BY <2>1, <2>2, <2>3, <2>4, <2>5, <2>6 DEF RestOK
<1>8. NoSlot \in Slots /\ NoSlot.seq = NoSlot.call /\ ~NoSlot.done
  BY DEF NoSlot, Slot, Slots
<1>9. SlotOK /\ SlotOwned
  BY <1>2, <1>8 DEF Init, SlotOK, SlotOwned, ResponseIsOwn
<1>10. chip \in Chips /\ chip.calls = 0
  BY DEF Init, Chips
<1>11. ChipOK
  BY <1>10 DEF Init, ChipOK, DriverSizes
<1> QED
  BY <1>1, <1>6, <1>7, <1>9, <1>11 DEF Accounted, TypeOK, PacketsAccounted

LEMMA NextAccounted ==
  ASSUME DriverSizes, Accounted, [Next]_vars
  PROVE  Accounted'
<1>1. CASE UNCHANGED vars
  BY <1>1, SlotUntouched, PacketsUntouched
     DEF vars, Accounted, TypeOK, PacketsAccounted, UserOK, RestOK, ChipOK
<1> QED
  BY <1>1, GatherAccounted, PopEventAccounted, RxIrqAccounted, RxBackoffAccounted, RxDrainAccounted,
     ChipAccounted, UserAccounted DEF Next, RxStep

-----------------------------------------------------------------------------
(***************************************************************************)
(* The flow to the chip.  A command task that saw room still has it, for   *)
(* only one commands at a time; data tasks that saw room are counted with  *)
(* the frames they will write; and while commands alone are sent, the task *)
(* that saw a full queue is owed an interrupt as soon as there is room.    *)
(***************************************************************************)
RoomKept == \A u \in Commanding : (user[u].pc = "decide" /\ user[u].room) => HasRoom("cmd")
DataSent == \A u \in Users : user[u].op = "data" => chip.data > 0
Sleeping == {u \in Users : user[u].pc = "space" \/ (user[u].pc = "decide" /\ ~user[u].room)}
WakeOwed == (chip.data = 0 /\ Sleeping # {} /\ HasRoom("cmd")) => (freed \/ "page" \in chip.sts)
Flow     == QueuesFit /\ RoomKept /\ DataSent /\ WakeOwed

\* Who waits or looks for space while no data was sent is the commanding task.
LEMMA OneSender ==
  ASSUME UserOK, SlotOwned, DataSent, NEW u \in Users, user[u].pc \in Tx \ {"txfailed"}, chip.data = 0
  PROVE  u \in Commanding /\ Commanding = {u}
<1>1. user[u].op = "command"
  BY DEF UserOK, UserRecords, DataSent, Ops, Tx
<1>2. u \in Commanding
  BY <1>1 DEF Commanding, Tx
<1> QED
  BY <1>2 DEF SlotOwned

LEMMA Writers ==
  ASSUME DriverSizes
  PROVE  /\ Cardinality(Users) \in Nat /\ IsFiniteSet(AboutToWrite)
         /\ Cardinality(AboutToWrite) \in Nat /\ Cardinality(AboutToWrite) <= Cardinality(Users)
<1>1. AboutToWrite \subseteq Users
  BY DEF AboutToWrite
<1> QED
  BY <1>1, FS_Subset, FS_CardinalityType DEF DriverSizes

\* A task that goes where it neither looks at a status block nor sleeps, leaving the queues alone.
LEMMA FlowPasses ==
  ASSUME DriverSizes, Accounted, Flow, NEW u \in Users, NEW r \in UserRecords, Goes(u, r),
         r.pc \notin {"decide", "space"}, r.op = "data" => chip'.data > 0,
         chip' \in Chips, chip'.cmd = chip.cmd, chip'.tx = chip.tx, chip'.sts = chip.sts, chip'.data >= chip.data,
         UNCHANGED freed
  PROVE  Flow'
<1> USE DEF Accounted, TypeOK, Flow
<1>1. \A v \in Users : user'[v] = IF v = u THEN r ELSE user[v]
  BY DEF UserOK, Goes
<1>2. RoomKept'
  BY <1>1 DEF RoomKept, Commanding, HasRoom
<1>3. chip.data \in Nat /\ chip'.data \in Nat
  BY DEF ChipOK, Chips
<1>4. DataSent'
  BY <1>1, <1>3 DEF DataSent
<1>5. Sleeping' \subseteq Sleeping
  BY <1>1 DEF Sleeping
<1>6. WakeOwed'
  BY <1>3, <1>5 DEF WakeOwed, HasRoom
<1>7. Cardinality(AboutToWrite') <= Cardinality(AboutToWrite) /\ Cardinality(AboutToWrite') \in Nat
  <2>1. AboutToWrite' \subseteq AboutToWrite
    BY <1>1 DEF AboutToWrite
  <2> QED
    BY <2>1, Writers, FS_Subset, FS_CardinalityType
<1>8. QueuesFit'
  <2> DEFINE a == Cardinality(AboutToWrite) b == Cardinality(AboutToWrite') c == Cardinality(Users)
  <2>1. a \in Nat /\ b \in Nat /\ c \in Nat /\ b <= a
    BY <1>7, Writers
  <2>4. Len(chip.tx) \in Nat /\ QueueSize \in Nat
    BY DEF ChipOK, Chips, DriverSizes
  <2>2. Len(chip.tx) + a <= QueueSize + c - 1
    BY DEF QueuesFit
  <2> HIDE DEF a, b, c
  <2>3. Len(chip.tx) + b <= QueueSize + c - 1
    BY <2>1, <2>2, <2>4
  <2> QED
    BY <2>3 DEF QueuesFit, b, c
<1> QED
  BY <1>2, <1>4, <1>6, <1>8

LEMMA IdlePasses ==
  /\ Idle.pc = "free" /\ Idle.op = "none"
  /\ \A p, op : \A held, call : Doing(p, op, held, call).pc = p /\ Doing(p, op, held, call).op = op
BY DEF Idle, Doing

\* yaps_tx() re-arms: of what it forgets it was itself to be woken, and it has not read the status yet.
LEMMA TxArmFlows ==
  ASSUME DriverSizes, Accounted, Flow, NEW u \in Users, TxArm(u)
  PROVE  Flow'
<1> USE DEF Accounted, TypeOK, Flow, PacketsAccounted
<1> DEFINE r == To(u, "read")
<1>1. user[u].pc \in {"tx", "space", "spacebusy"} /\ Goes(u, r) /\ UNCHANGED chip
  BY DEF TxArm, Step
<1>2. r \in UserRecords /\ r.pc = "read" /\ r.op = user[u].op
  BY <1>1, Moved DEF Tx
<1>3. \A v \in Users : user'[v] = IF v = u THEN r ELSE user[v]
  BY <1>1 DEF UserOK, Goes
<1>4. RoomKept' /\ DataSent'
  BY <1>1, <1>2, <1>3 DEF RoomKept, DataSent, Commanding, HasRoom
<1>5. WakeOwed'
  <2>1. SUFFICES ASSUME chip.data = 0, NEW v \in Sleeping' PROVE FALSE
    BY <1>1 DEF WakeOwed
  <2>2. v \in Users /\ v # u /\ user[v].pc \in {"space", "decide"}
    BY <1>2, <1>3, <2>1 DEF Sleeping
  <2>3. Commanding = {u} /\ Commanding = {v}
    BY <1>1, <2>1, <2>2, OneSender DEF Tx
  <2> QED
    BY <2>2, <2>3
<1>6. QueuesFit'
  <2>1. AboutToWrite' = AboutToWrite
    BY <1>1, <1>2, <1>3 DEF AboutToWrite
  <2> QED
    BY <1>1, <2>1 DEF QueuesFit
<1> QED
  BY <1>4, <1>5, <1>6

LEMMA ReadStatusFlows ==
  ASSUME DriverSizes, Accounted, Flow, NEW u \in Users, ReadStatus(u)
  PROVE  Flow'
<1> USE DEF Accounted, TypeOK, Flow, PacketsAccounted
<1>1. PICK p \in {"decide", "locked", "txfailed"} :
         Goes(u, [To(u, p) EXCEPT !.room = p = "decide" /\ HasRoom(QueueOf(u))])
  BY DEF ReadStatus
<1> DEFINE r == [To(u, p) EXCEPT !.room = p = "decide" /\ HasRoom(QueueOf(u))]
<1>2. user[u].pc \in {"read", "locked"} /\ UNCHANGED <<chip, freed>> /\ Goes(u, r)
  BY <1>1 DEF ReadStatus, Step, host
<1>3. To(u, p) \in UserRecords /\ To(u, p).pc = p /\ To(u, p).op = user[u].op
  BY <1>2, Moved DEF Tx
<1>4. r \in UserRecords /\ r.pc = p /\ r.op = user[u].op /\ r.room = (p = "decide" /\ HasRoom(QueueOf(u)))
  BY <1>3 DEF UserRecords
<1> HIDE DEF r
<1>5. CASE p # "decide"
  <2>1. r.op = "data" => chip.data > 0
    BY <1>4 DEF DataSent
  <2>2. chip \in Chips /\ chip.data >= chip.data
    BY DEF ChipOK, Chips
  <2> QED
    BY <1>2, <1>4, <1>5, <2>1, <2>2, FlowPasses
<1>6. CASE p = "decide"
  <2>1. \A v \in Users : user'[v] = IF v = u THEN r ELSE user[v]
    BY <1>2 DEF UserOK, Goes
  <2>2. RoomKept' /\ DataSent'
    BY <1>2, <1>4, <2>1 DEF RoomKept, DataSent, Commanding, HasRoom, QueueOf
  <2>3. WakeOwed'
    <3>1. SUFFICES ASSUME chip.data = 0, NEW v \in Sleeping', v \notin Sleeping PROVE ~HasRoom("cmd")'
      BY <1>2 DEF WakeOwed, HasRoom
    <3>2. v = u /\ ~HasRoom(QueueOf(u))
      BY <1>4, <1>6, <2>1, <3>1 DEF Sleeping
    <3>3. user[u].op = "command"
      BY <1>2, <3>1, OneSender DEF Tx, Commanding
    <3> QED
      BY <1>2, <3>2, <3>3 DEF QueueOf, HasRoom
  <2>4. QueuesFit'
    <3>1. CASE u \in AboutToWrite'
      <4> DEFINE b == Cardinality(AboutToWrite') c == Cardinality(Users)
      <4>1. r.op = "data" /\ HasRoom("tx")
        BY <1>4, <2>1, <3>1 DEF AboutToWrite, QueueOf
      <4>2. Len(chip.tx) < QueueSize /\ Len(chip.tx) \in Nat /\ QueueSize \in Nat /\ UNCHANGED chip
        BY <1>2, <4>1 DEF HasRoom, ChipOK, Chips, DriverSizes
      <4>3. AboutToWrite' \subseteq Users
        BY DEF AboutToWrite
      <4>4. b \in Nat /\ c \in Nat /\ b <= c
        BY <4>3, Writers, FS_Subset, FS_CardinalityType DEF DriverSizes
      <4> HIDE DEF b, c
      <4>5. Len(chip.tx) + b <= QueueSize + c - 1
        BY <4>2, <4>4
      <4> QED
        BY <4>2, <4>5 DEF QueuesFit, b, c
    <3>2. CASE u \notin AboutToWrite'
      <4>1. AboutToWrite' = AboutToWrite
        BY <1>2, <2>1, <3>2 DEF AboutToWrite
      <4> QED
        BY <1>2, <4>1 DEF QueuesFit
    <3> QED
      BY <3>1, <3>2
  <2> QED
    BY <2>2, <2>3, <2>4
<1> QED
  BY <1>5, <1>6

LEMMA TxDecideFlows ==
  ASSUME DriverSizes, Accounted, Flow, NEW u \in Users, TxDecide(u)
  PROVE  Flow'
<1> USE DEF Accounted, TypeOK, Flow, PacketsAccounted
<1>1. user[u].pc = "decide" /\ user[u].op \in {"command", "data"} /\ user[u].room \in BOOLEAN
  BY DEF TxDecide, Step, UserOK, UserRecords, Ops
<1>2. \A p \in Tx \ {"resp"} : To(u, p) \in UserRecords /\ To(u, p).pc = p /\ To(u, p).op = user[u].op
  BY <1>1, Moved DEF Tx
<1>3. chip \in Chips /\ chip.data >= chip.data /\ (user[u].op = "data" => chip.data > 0)
  BY DEF ChipOK, Chips, DataSent
<1>4. CASE \E p \in {"txfailed", "spacebusy", "tx"} : Goes(u, To(u, p)) /\ UNCHANGED <<chip, freed>>
  <2>1. PICK p \in {"txfailed", "spacebusy", "tx"} : Goes(u, To(u, p)) /\ UNCHANGED <<chip, freed>>
    BY <1>4
  <2>2. p \in Tx \ {"resp"}
    BY DEF Tx
  <2> QED
    BY <1>2, <1>3, <2>1, <2>2, FlowPasses
<1>5. CASE ~user[u].room /\ Goes(u, To(u, "space")) /\ UNCHANGED <<chip, freed>>
  <2>1. \A v \in Users : user'[v] = IF v = u THEN To(u, "space") ELSE user[v]
    BY <1>5 DEF UserOK, Goes
  <2>2. To(u, "space").pc = "space" /\ To(u, "space").op = user[u].op
    BY <1>2 DEF Tx
  <2>3. Sleeping' = Sleeping
    BY <1>1, <1>5, <2>1, <2>2 DEF Sleeping
  <2>4. AboutToWrite' = AboutToWrite
    BY <1>1, <1>5, <2>1, <2>2 DEF AboutToWrite
  <2>5. RoomKept' /\ DataSent'
    BY <1>5, <2>1, <2>2 DEF RoomKept, DataSent, Commanding, HasRoom
  <2> QED
    BY <1>5, <2>3, <2>4, <2>5 DEF WakeOwed, QueuesFit, HasRoom
<1>6. CASE user[u].room
  <2>1. Goes(u, To(u, "sent")) /\ chip' = [chip EXCEPT ![QueueOf(u)] = Append(@, Frame(u))] /\ UNCHANGED freed
    BY <1>6 DEF TxDecide
  <2>2. To(u, "sent").pc = "sent" /\ To(u, "sent").op = user[u].op
    BY <1>2 DEF Tx
  <2>3. \A v \in Users : user'[v] = IF v = u THEN To(u, "sent") ELSE user[v]
    BY <2>1 DEF UserOK, Goes
  <2>4. CASE user[u].op = "command"
    <3>1. u \in Commanding
      BY <1>1, <2>4 DEF Commanding
    <3>2. Commanding = {u} /\ Commanding' = {u}
      BY <2>2, <2>3, <2>4, <3>1 DEF SlotOwned, Commanding
    <3>3. Len(chip.cmd) < QueueSize
      BY <1>1, <1>6, <3>1 DEF RoomKept, HasRoom
    <3>4. chip' = [chip EXCEPT !.cmd = Append(chip.cmd, Frame(u))]
      BY <2>1, <2>4 DEF QueueOf
    <3>5. Len(chip'.cmd) <= QueueSize /\ chip'.tx = chip.tx /\ chip'.data = chip.data
      BY <3>3, <3>4 DEF ChipOK, Chips, DriverSizes
    <3>6. RoomKept' /\ DataSent'
      BY <2>2, <2>3, <3>2, <3>5 DEF RoomKept, DataSent
    <3>7. AboutToWrite' = AboutToWrite
      BY <2>2, <2>3, <2>4 DEF AboutToWrite
    <3>8. WakeOwed'
      <4>1. SUFFICES ASSUME chip.data = 0, NEW v \in Sleeping' PROVE FALSE
        BY <3>5 DEF WakeOwed
      <4>2. v \in Users /\ v # u /\ user[v].pc \in {"space", "decide"}
        BY <2>2, <2>3, <4>1 DEF Sleeping
      <4>3. Commanding = {v}
        BY <4>1, <4>2, OneSender DEF Tx
      <4> QED
        BY <3>2, <4>2, <4>3
    <3> QED
      BY <3>5, <3>6, <3>7, <3>8 DEF QueuesFit
  <2>5. CASE user[u].op = "data"
    <3>1. chip' = [chip EXCEPT !.tx = Append(chip.tx, Frame(u))]
      BY <2>1, <2>5 DEF QueueOf
    <3>2. /\ chip'.tx = Append(chip.tx, Frame(u)) /\ chip'.cmd = chip.cmd /\ chip'.data = chip.data
          /\ chip.data > 0
      BY <1>3, <2>5, <3>1 DEF Chips
    <3>3. RoomKept' /\ DataSent'
      BY <2>2, <2>3, <3>2 DEF RoomKept, DataSent, Commanding, HasRoom
    <3>4. WakeOwed'
      BY <3>2, <1>3 DEF WakeOwed, Chips
    <3>5. QueuesFit'
      <4> DEFINE a == Cardinality(AboutToWrite) b == Cardinality(AboutToWrite') c == Cardinality(Users)
                 n == Len(chip.tx) m == Len(chip'.tx)
      <4>1. AboutToWrite' = AboutToWrite \ {u} /\ u \in AboutToWrite
        BY <1>1, <1>6, <2>2, <2>3, <2>5 DEF AboutToWrite
      <4>2. a \in Nat /\ b = a - 1 /\ c \in Nat
        BY <4>1, Writers, FS_RemoveElement
      <4>3. n \in Nat /\ m = n + 1 /\ QueueSize \in Nat
        BY <3>2 DEF ChipOK, Chips, DriverSizes
      <4>4. n + a <= QueueSize + c - 1 /\ Len(chip.cmd) <= QueueSize
        BY DEF QueuesFit
      <4> HIDE DEF a, b, c, n, m
      <4>5. m + b <= QueueSize + c - 1
        BY <4>2, <4>3, <4>4
      <4> QED
        BY <3>2, <4>4, <4>5 DEF QueuesFit, b, c, m
    <3> QED
      BY <3>3, <3>4, <3>5
  <2> QED
    BY <1>1, <2>4, <2>5
<1> QED
  BY <1>1, <1>4, <1>5, <1>6 DEF TxDecide, WaitSpace

LEMMA UserFlows ==
  ASSUME DriverSizes, Accounted, Flow, NEW u \in Users, UserStep(u)
  PROVE  Flow'
<1> USE DEF Accounted, TypeOK
<1>1. chip \in Chips /\ chip.data >= chip.data /\ (user[u].op = "data" => chip.data > 0)
  BY DEF ChipOK, Chips, Flow, DataSent
<1>2. CASE Return(u) /\ UNCHANGED <<chip, freed>>
  <2>1. Goes(u, Idle) /\ Idle \in UserRecords
    BY <1>2, StaysIdle DEF Return
  <2> QED
    BY <1>1, <1>2, <2>1, IdlePasses, FlowPasses
<1>3. CASE WaitRxLoop(u) /\ UNCHANGED <<chip, freed>>
  <2>1. \E r \in UserRecords : Goes(u, r) /\ r.pc \notin {"decide", "space"} /\ r.op # "data"
    <3>1. \A p \in {"pending", "pendingbusy"} : Doing(p, "wait", 0, 0) \in UserRecords
      BY DEF UserRecords, Ops, Pcs, Tx, Doing
    <3>2. Doing("frame", "wait", 1, 0) \in UserRecords
      BY DEF UserRecords, Ops, Pcs, Tx, Doing
    <3> QED
      BY <1>3, <3>1, <3>2, StaysIdle, IdlePasses DEF WaitRxLoop
  <2> QED
    BY <1>1, <1>3, <2>1, FlowPasses
<1>4. CASE CommandSent(u)
  <2>1. To(u, "resp") \in UserRecords /\ To(u, "resp").pc = "resp" /\ To(u, "resp").op = "command"
    BY <1>4, Moved DEF CommandSent, Step, Tx
  <2> QED
    BY <1>1, <1>4, <2>1, FlowPasses DEF CommandSent, host
<1>5. CASE SendCommand(u)
  <2> DEFINE r == Doing("tx", "command", 1, chip.calls + 1)
  <2>1. r \in UserRecords
    BY DEF UserRecords, Ops, Pcs, Doing, Tx, ChipOK, Chips
  <2>2. PICK s \in {r, Idle} : Goes(u, s)
    BY <1>5 DEF SendCommand
  <2>3. s \in UserRecords /\ s.pc \notin {"decide", "space"} /\ s.op # "data"
    BY <2>1, StaysIdle, IdlePasses
  <2>4. chip' \in Chips
    BY UserChip, UserAccounted DEF ChipOK
  <2>5. chip'.cmd = chip.cmd /\ chip'.tx = chip.tx /\ chip'.sts = chip.sts /\ chip'.data = chip.data /\ UNCHANGED freed
    BY <1>1, <1>5 DEF SendCommand, Chips
  <2> QED
    BY <1>1, <2>2, <2>3, <2>4, <2>5, FlowPasses
<1>6. CASE SendData(u)
  <2> DEFINE r == Doing("tx", "data", 2, 0)
  <2>1. r \in UserRecords
    BY DEF UserRecords, Ops, Pcs, Doing, Tx
  <2>2. chip' \in Chips
    BY UserAccounted DEF ChipOK
  <2>3. CASE Goes(u, Idle) /\ UNCHANGED <<chip, freed>>
    BY <1>1, <2>3, StaysIdle, IdlePasses, FlowPasses
  <2>4. CASE Goes(u, r) /\ chip' = [chip EXCEPT !.data = @ + 1] /\ UNCHANGED freed
    <3>1. chip'.cmd = chip.cmd /\ chip'.tx = chip.tx /\ chip'.sts = chip.sts /\ chip'.data = chip.data + 1 /\ chip.data \in Nat
      BY <1>1, <2>4 DEF Chips
    <3>2. chip'.data >= chip.data /\ chip'.data > 0
      BY <3>1
    <3> QED
      BY <2>1, <2>2, <2>4, <3>1, <3>2, IdlePasses, FlowPasses
  <2> QED
    BY <1>6, <2>3, <2>4 DEF SendData
<1> QED
  BY <1>2, <1>3, <1>4, <1>5, <1>6, TxArmFlows, ReadStatusFlows, TxDecideFlows
     DEF UserStep, CommandEnds, TxEnds, WaitRx, WaitRxWakes, FrameDone, Cancel

\* The steps of rx_task and of the chip: interrupts are latched, and only the chip empties a queue.
LEMMA OthersFlow ==
  ASSUME DriverSizes, Accounted, Flow, UNCHANGED user, chip' \in Chips, chip'.data = chip.data,
         Len(chip'.cmd) <= Len(chip.cmd), Len(chip'.tx) <= Len(chip.tx),
         \/ freed' \/ "page" \in chip'.sts
         \/ ~(freed \/ "page" \in chip.sts) /\ Len(chip'.cmd) = Len(chip.cmd)
  PROVE  Flow'
<1> USE DEF Accounted, TypeOK, Flow
<1>1. AboutToWrite' = AboutToWrite /\ Sleeping' = Sleeping /\ Commanding' = Commanding
  BY DEF AboutToWrite, Sleeping, Commanding
<1>2. /\ Len(chip.cmd) \in Nat /\ Len(chip'.cmd) \in Nat /\ Len(chip.tx) \in Nat /\ Len(chip'.tx) \in Nat
      /\ QueueSize \in Nat
  <2>1. QueueSize \in Nat
    BY DEF DriverSizes
  <2>2. {chip.cmd, chip'.cmd, chip.tx, chip'.tx} \subseteq Seq(Frames)
    BY DEF ChipOK, Chips
  <2> QED
    BY <2>1, <2>2
<1>3. RoomKept' /\ DataSent'
  BY <1>1, <1>2 DEF RoomKept, DataSent, HasRoom
<1>4. WakeOwed'
  BY <1>1 DEF WakeOwed, HasRoom
<1>5. QueuesFit'
  <2> DEFINE a == Cardinality(AboutToWrite) c == Cardinality(Users) n == Len(chip.tx) m == Len(chip'.tx)
  <2>1. a \in Nat /\ c \in Nat /\ n \in Nat /\ m \in Nat /\ m <= n
    BY <1>2, Writers
  <2>2. n + a <= QueueSize + c - 1 /\ Len(chip.cmd) <= QueueSize
    BY DEF QueuesFit
  <2> HIDE DEF a, c, n, m
  <2>3. m + a <= QueueSize + c - 1
    BY <1>2, <2>1, <2>2
  <2> QED
    BY <1>1, <1>2, <2>2, <2>3 DEF QueuesFit, a, c, m
<1> QED
  BY <1>3, <1>4, <1>5

LEMMA NextFlows ==
  ASSUME DriverSizes, Accounted, Flow, [Next]_vars
  PROVE  Flow'
<1> USE DEF Accounted, TypeOK
<1>1. chip \in Chips /\ chip' \in Chips
  BY NextAccounted DEF ChipOK
<1>2. Len(chip.cmd) \in Nat /\ Len(chip.tx) \in Nat /\ Len(chip.cmd) <= Len(chip.cmd) /\ Len(chip.tx) <= Len(chip.tx)
  BY <1>1 DEF Chips
<1>3. CASE UNCHANGED <<user, chip, freed>>
  BY <1>1, <1>2, <1>3, OthersFlow
<1>4. CASE RxIrq
  <2>1. chip'.cmd = chip.cmd /\ chip'.tx = chip.tx /\ chip'.data = chip.data
    BY <1>1, <1>4 DEF RxIrq, Chips
  <2>2. freed' \/ "page" \in chip'.sts \/ ~(freed \/ "page" \in chip.sts)
    BY <1>4 DEF RxIrq
  <2> QED
    BY <1>1, <1>2, <1>4, <2>1, <2>2, OthersFlow DEF RxIrq
<1>5. CASE RxDrain
  <2>1. chip'.cmd = chip.cmd /\ chip'.tx = chip.tx /\ chip'.data = chip.data /\ chip'.sts = chip.sts
    BY <1>1, <1>5 DEF RxDrain, Chips
  <2> QED
    BY <1>1, <1>2, <1>5, <2>1, OthersFlow DEF RxDrain
<1>6. CASE Chip
  <2>1. UNCHANGED <<user, freed>>
    BY <1>6 DEF Chip, ChipTakes, ChipAnswers, ChipSends, ChipRaises, host
  <2>2. CASE ChipTakes
    <3>1. /\ chip'.data = chip.data /\ "page" \in chip'.sts
          /\ chip'.cmd \in {chip.cmd, Tail(chip.cmd)} /\ chip'.tx \in {chip.tx, Tail(chip.tx)}
          /\ chip'.cmd # chip.cmd => chip.cmd # <<>>
          /\ chip'.tx # chip.tx => chip.tx # <<>>
      <4>1. PICK q \in {"cmd", "tx"} :
              /\ chip[q] # <<>>
              /\ chip' = LET c == [chip EXCEPT ![q] = Tail(@), !.sts = @ \cup {"page"}]
                         IN IF q = "cmd" THEN [c EXCEPT !.answers = @ \cup {Head(chip[q])}] ELSE c
        BY <2>2 DEF ChipTakes
      <4>2. CASE q = "cmd"
        BY <1>1, <4>1, <4>2 DEF Chips
      <4>3. CASE q = "tx"
        BY <1>1, <4>1, <4>3 DEF Chips
      <4> QED
        BY <4>2, <4>3
    <3>2. \A s \in Seq(Frames) : s # <<>> => Len(Tail(s)) <= Len(s)
      OBVIOUS
    <3>3. Len(chip'.cmd) <= Len(chip.cmd) /\ Len(chip'.tx) <= Len(chip.tx)
      BY <1>1, <1>2, <3>1, <3>2 DEF Chips
    <3> QED
      BY <1>1, <2>1, <3>1, <3>3, OthersFlow
  <2>3. CASE ChipAnswers \/ ChipSends \/ ChipRaises
    <3>1. /\ chip'.cmd = chip.cmd /\ chip'.tx = chip.tx /\ chip'.data = chip.data
          /\ "page" \in chip.sts => "page" \in chip'.sts
      BY <1>1, <2>3 DEF ChipAnswers, ChipSends, ChipRaises, Emit, Chips
    <3> QED
      BY <1>1, <1>2, <2>1, <3>1, OthersFlow
  <2> QED
    BY <1>6, <2>2, <2>3 DEF Chip
<1> QED
  BY <1>3, <1>4, <1>5, <1>6, UserFlows DEF Next, RxStep, RxBackoff, Gather, PopEvent, vars

LEMMA InitFlows ==
  ASSUME DriverSizes, Init
  PROVE  Flow
<1>1. \A u \in Users : user[u].pc = "free" /\ user[u].op = "none"
  BY IdlePasses DEF Init
<1>2. AboutToWrite = {} /\ Sleeping = {} /\ Commanding = {}
  BY <1>1 DEF AboutToWrite, Sleeping, Commanding
<1>3. Cardinality(AboutToWrite) = 0
  BY <1>2, FS_EmptySet
<1>4. Cardinality(Users) \in Nat /\ Cardinality(Users) # 0
  BY FS_EmptySet, FS_CardinalityType DEF DriverSizes
<1>5. Len(chip.cmd) = 0 /\ Len(chip.tx) = 0
  BY DEF Init
<1>6. QueueSize \in Nat \ {0}
  BY DEF DriverSizes
<1>7. QueuesFit
  BY <1>3, <1>4, <1>5, <1>6 DEF QueuesFit
<1> QED
  BY <1>1, <1>2, <1>7 DEF Flow, RoomKept, DataSent, WakeOwed
-----------------------------------------------------------------------------
Served == Accounted /\ Flow

LEMMA ServedInit == DriverSizes /\ Init => Served
BY InitAccounted, InitFlows DEF Served

LEMMA ServedNext == DriverSizes /\ Served /\ [Next]_vars => Served'
BY NextAccounted, NextFlows DEF Served

LEMMA ServedMeans == Served => PacketsAccounted /\ ResponseIsOwn /\ QueuesFit /\ SpaceWakePending
BY DEF Served, Accounted, TypeOK, SlotOK, Flow, WakeOwed, Sleeping, SpaceWakePending

\* Packets are conserved, a response is that of the call that gets it, no queue is overrun and no
\* wait for space is in vain, for every number of tasks, every size and every load.
THEOREM Serves == DriverSizes => (Spec => [](PacketsAccounted /\ ResponseIsOwn /\ QueuesFit /\ SpaceWakePending))
<1> SUFFICES ASSUME DriverSizes
             PROVE  Spec => [](PacketsAccounted /\ ResponseIsOwn /\ QueuesFit /\ SpaceWakePending)
  OBVIOUS
<1>1. Init => Served
  BY ServedInit
<1>2. Served /\ [Next]_vars => Served'
  BY ServedNext
<1> QED
  BY <1>1, <1>2, ServedMeans, PTL DEF Spec
=============================================================================
