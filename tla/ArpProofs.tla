----------------------------- MODULE ArpProofs -----------------------------
(***************************************************************************)
(* What Arp promises for every table size, packet pool, network and set of *)
(* senders: its types, one entry per address, and that every buffer of the *)
(* packet pool always has exactly one owner.                               *)
(***************************************************************************)
EXTENDS Arp, TLAPS

USE DEF Slots, Holders, Workers

(***************************************************************************)
(* The moves of AutoPacket.  All that the actions do with packets is one   *)
(* of six hand-overs between the freelist, an entry and a task.           *)
(***************************************************************************)

Owners ==
  /\ held \in [Slots -> Packets \cup {None}]
  /\ carry \in [Holders -> Packets \cup {None}]
  /\ free \subseteq Packets

(* packet_alloc(): a task that owns nothing takes a free packet. *)
Take(h) ==
  /\ free # {}
  /\ carry' = [carry EXCEPT ![h] = Some(free)]
  /\ free' = free \ {Some(free)}
  /\ UNCHANGED held

(* packet_free(): a task lets go of what it owns. *)
Give(h) ==
  /\ carry' = [carry EXCEPT ![h] = None]
  /\ free' = free \cup Only(carry[h])
  /\ UNCHANGED held

(* entry.pending = move(packet) *)
Hold(i, h) ==
  /\ held' = [held EXCEPT ![i] = carry[h]]
  /\ carry' = [carry EXCEPT ![h] = None]
  /\ free' = free \cup Only(held[i])

(* move(entry->pending) *)
Flush(i, h) ==
  /\ carry' = [carry EXCEPT ![h] = held[i]]
  /\ held' = [held EXCEPT ![i] = None]
  /\ UNCHANGED free

(* move(packet) *)
Pass(g, h) ==
  /\ carry' = [carry EXCEPT ![h] = carry[g], ![g] = None]
  /\ UNCHANGED <<held, free>>

(* A free packet is a packet and not None. *)
LEMMA SomeFree ==
  ASSUME Owners, free # {}
  PROVE  Some(free) \in free /\ Some(free) \in Packets /\ Some(free) # None
BY ArpAssumption DEF Some, Owners, ArpAssumption

(* A packet taken from the freelist has one owner: the task that took it. *)
LEMMA TakeConserves ==
  ASSUME Owners, PoolConserved, NEW h \in Holders, carry[h] = None, Take(h)
  PROVE  Owners' /\ PoolConserved'
<1>1. Some(free) \in free /\ Some(free) \in Packets /\ Some(free) # None
  BY SomeFree DEF Take
<1>2. Owners'
  BY <1>1 DEF Take, Owners
<1>3. NoneShared'
  BY <1>1 DEF Take, Owners, PoolConserved, NoneShared
<1>4. NoneLeaked'
  BY <1>1, ArpAssumption DEF Take, Owners, PoolConserved, NoneLeaked, ArpAssumption
<1>5. QED
  BY <1>2, <1>3, <1>4 DEF PoolConserved

(* A packet let go of is free and nobody else's. *)
LEMMA GiveConserves ==
  ASSUME Owners, PoolConserved, NEW h \in Holders, Give(h)
  PROVE  Owners' /\ PoolConserved'
<1>1. Owners'
  BY DEF Give, Owners, Only
<1>2. NoneShared'
  BY ArpAssumption DEF Give, Owners, Only, PoolConserved, NoneShared, ArpAssumption
<1>3. NoneLeaked'
  BY ArpAssumption DEF Give, Owners, Only, PoolConserved, NoneLeaked, ArpAssumption
<1>4. QED
  BY <1>1, <1>2, <1>3 DEF PoolConserved

(* An entry that holds the newer packet frees the one it held. *)
LEMMA HoldConserves ==
  ASSUME Owners, PoolConserved, NEW i \in Slots, NEW h \in Holders, Hold(i, h)
  PROVE  Owners' /\ PoolConserved'
<1>1. Owners'
  BY DEF Hold, Owners, Only
<1>2. NoneShared'
  BY ArpAssumption DEF Hold, Owners, Only, PoolConserved, NoneShared, ArpAssumption
<1>3. NoneLeaked'
  BY ArpAssumption DEF Hold, Owners, Only, PoolConserved, NoneLeaked, ArpAssumption
<1>4. QED
  BY <1>1, <1>2, <1>3 DEF PoolConserved

(* A packet an entry gives up goes to the task that sends it. *)
LEMMA FlushConserves ==
  ASSUME Owners, PoolConserved, NEW i \in Slots, NEW h \in Holders, carry[h] = None, Flush(i, h)
  PROVE  Owners' /\ PoolConserved'
<1>1. Owners'
  BY DEF Flush, Owners
<1>2. NoneShared'
  BY ArpAssumption DEF Flush, Owners, PoolConserved, NoneShared, ArpAssumption
<1>3. NoneLeaked'
  BY ArpAssumption DEF Flush, Owners, PoolConserved, NoneLeaked, ArpAssumption
<1>4. QED
  BY <1>1, <1>2, <1>3 DEF PoolConserved

(* A packet moved from one task to another has the one owner it had. *)
LEMMA PassConserves ==
  ASSUME Owners, PoolConserved, NEW g \in Holders, NEW h \in Holders, g # h,
         carry[h] = None, Pass(g, h)
  PROVE  Owners' /\ PoolConserved'
<1>1. Owners'
  BY DEF Pass, Owners
<1>2. NoneShared'
  BY ArpAssumption DEF Pass, Owners, PoolConserved, NoneShared, ArpAssumption
<1>3. NoneLeaked'
  BY ArpAssumption DEF Pass, Owners, PoolConserved, NoneLeaked, ArpAssumption
<1>4. QED
  BY <1>1, <1>2, <1>3 DEF PoolConserved

(* Any set of entries may be cleared at once. *)
LEMMA DropConserves ==
  ASSUME Owners, PoolConserved, NEW S \in SUBSET Slots, Drop(S), UNCHANGED carry
  PROVE  Owners' /\ PoolConserved'
<1>1. Owners'
  BY DEF Drop, Owners
<1>2. NoneShared'
  BY ArpAssumption DEF Drop, Owners, PoolConserved, NoneShared, ArpAssumption
<1>3. NoneLeaked'
  BY ArpAssumption DEF Drop, Owners, PoolConserved, NoneLeaked, ArpAssumption
<1>4. QED
  BY <1>1, <1>2, <1>3 DEF PoolConserved
-----------------------------------------------------------------------------
(***************************************************************************)
(* The inductive invariant: besides the property, which tasks own nothing  *)
(* where they stand, so that a task never takes a second packet over the   *)
(* first, and which of its locals are set.                                 *)
(***************************************************************************)

Carrying == {"resolve", "send", "tx"}

Shape ==
  /\ \A w \in Workers : job[w].pc \notin Carrying => carry[w] = None
  /\ \A w \in Workers : job[w].pc = "resolve" => job[w].hop \in Ips
  /\ job["rx"].pc = "idle" => carry["frame"] = None
  /\ job["rx"].pc # "idle" => job["rx"].then \in {"deliver", "done"}
  /\ job["rx"].pc \notin {"idle", "done"} => job["rx"].frame \in Frames
  /\ job["timer"].pc # "idle" => job["timer"].slot >= 1

IInv == TypeOK /\ Shape /\ PoolConserved

(* The receiver and the timer are workers; the frame received has an owner. *)
LEMMA RxIsHolder == "rx" \in Workers /\ "timer" \in Workers /\ "frame" \in Holders
BY DEF Workers, Holders

(* A worker and the frame being received own different packets. *)
LEMMA FrameNotWorker == "frame" \notin Workers
BY ArpAssumption DEF ArpAssumption

(* The types of the packets' owners are part of TypeOK. *)
LEMMA TypeOwners == ASSUME TypeOK PROVE Owners
BY DEF TypeOK, Owners

(* The two addresses the code itself makes up are hardware addresses. *)
LEMMA KnownMacs == ZeroMac \in Macs /\ BroadcastMac \in Macs
BY ArpAssumption DEF ArpAssumption

(* The entry a timer or an eviction leaves behind is well formed. *)
LEMMA BlankEntry == Blank \in Entries
BY ArpAssumption DEF Blank, Entry, Entries, ArpAssumption

(* So are the entries resolve_and_send() and cache() make. *)
LEMMA NewEntries ==
  ASSUME NEW ip \in Ips, NEW mac \in Macs
  PROVE  PendingEntry(ip) \in Entries /\ ResolvedEntry(ip, mac) \in Entries
<1>1. 0 \in 0..MaxRetries /\ 1 \in 0..MaxRetries /\ ZeroMac \in Macs
  BY ArpAssumption DEF ArpAssumption
<1>2. RetryTicks \in Nat /\ TtlTicks \in Nat
  BY ArpAssumption DEF ArpAssumption
<1>3. QED
  BY <1>1, <1>2 DEF PendingEntry, ResolvedEntry, Entry, Entries

(* The next hops of an address are addresses. *)
LEMMA NextHopIp == ASSUME NEW ip \in Ips PROVE NextHops(ip) \subseteq Ips
BY ArpAssumption DEF NextHops, ArpAssumption

(* The invariant holds of an empty table and a full pool. *)
LEMMA InitInv == Init => IInv
<1> SUFFICES ASSUME Init PROVE IInv
  OBVIOUS
<1>1. Idle \in Jobs
  BY ArpAssumption DEF Idle, Jobs, Pcs, ArpAssumption
<1>2. TypeOK
  BY <1>1, BlankEntry DEF Init, TypeOK
<1>3. Shape
  BY RxIsHolder DEF Init, Shape, Idle
<1>4. PoolConserved
  BY ArpAssumption DEF Init, PoolConserved, NoneShared, NoneLeaked, ArpAssumption
<1>5. QED
  BY <1>2, <1>3, <1>4 DEF IInv

(* output() keeps IInv: the table and the jobs keep their types, the       *)
(* packets are conserved, and Shape holds again.  So for every action.     *)
LEMMA OutputInv ==
  ASSUME IInv, NEW w \in Senders, NEW ip \in Dests, Output(w, ip)
  PROVE  IInv'
<1>1. w \in Workers /\ w # "rx" /\ w # "timer" /\ w # "frame" /\ ip \in Ips
  BY ArpAssumption DEF ArpAssumption
<1>2. carry[w] = None
  BY <1>1 DEF IInv, Shape, Output, Carrying
<1>3. Owners' /\ PoolConserved'
  BY <1>1, <1>2, TypeOwners, TakeConserves DEF IInv, Take, Output
<1>4. PICK hop \in Ips :
        job' = [job EXCEPT ![w] = [Idle EXCEPT !.pc = "resolve", !.hop = hop]]
  BY <1>1, NextHopIp DEF Output
<1>5. job' \in [Workers -> Jobs]
  BY <1>1, <1>4, ArpAssumption DEF Output, IInv, TypeOK, Idle, Jobs, Pcs, ArpAssumption
<1>6. TypeOK'
  BY <1>3, <1>5 DEF Owners, TypeOK, Output, IInv
<1>7. Shape'
  BY <1>1, <1>4, FrameNotWorker DEF Shape, IInv, TypeOK, Output, Idle, Carrying
<1>8. QED
  BY <1>3, <1>6, <1>7 DEF IInv

(* Where a worker goes on once its packet is sent. *)
LEMMA ReturnedJob ==
  ASSUME NEW j \in Jobs
  PROVE  /\ Returned(j) \in Jobs
         /\ Returned(j).pc \notin Carrying
         /\ j.then \in {"deliver", "done"} =>
              Returned(j).pc = j.then /\ Returned(j).then = j.then /\ Returned(j).frame = j.frame
         /\ Returned(j).pc = "idle" \/ Returned(j).slot = j.slot
<1>1. CASE j.then = "idle"
  BY <1>1, ArpAssumption DEF Returned, Idle, Jobs, Pcs, Carrying, ArpAssumption
<1>2. CASE j.then # "idle"
  BY <1>2, ArpAssumption DEF Returned, Jobs, Pcs, Carrying, ArpAssumption
<1>3. QED
  BY <1>1, <1>2

(* resolve_and_send() of a broadcast keeps IInv. *)
LEMMA ResolveBroadcastInv ==
  ASSUME IInv, NEW w \in Workers, ResolveBroadcast(w)
  PROVE  IInv'
<1>1. job' \in [Workers -> Jobs]
  BY KnownMacs DEF ResolveBroadcast, Resolving, IInv, TypeOK, Jobs, Pcs
<1>2. TypeOK'
  BY <1>1 DEF TypeOK, ResolveBroadcast, IInv
<1>3. Shape'
  BY DEF Shape, IInv, TypeOK, ResolveBroadcast, Resolving, Carrying, Jobs
<1>4. PoolConserved'
  BY DEF IInv, ResolveBroadcast, PoolConserved, NoneShared, NoneLeaked
<1>5. QED
  BY <1>2, <1>3, <1>4 DEF IInv

(* resolve_and_send() to a resolved address keeps IInv. *)
LEMMA ResolveKnownInv ==
  ASSUME IInv, NEW w \in Workers, ResolveKnown(w)
  PROVE  IInv'
<1>1. PICK i \in Find(job[w].hop) :
        /\ table' = [table EXCEPT ![i].idle = 0]
        /\ job' = [job EXCEPT ![w].pc = "send", ![w].dst = i]
        /\ UNCHANGED <<held, carry, free>>
  BY DEF ResolveKnown
<1>2. i \in Slots
  BY <1>1 DEF Find
<1>3. job' \in [Workers -> Jobs]
  <2>1. job[w] \in Jobs
    BY DEF IInv, TypeOK
  <2>2. [job[w] EXCEPT !.pc = "send", !.dst = i] \in Jobs
    BY <1>2, <2>1 DEF Jobs, Pcs
  <2>3. job' = [job EXCEPT ![w] = [job[w] EXCEPT !.pc = "send", !.dst = i]]
    BY <1>1 DEF IInv, TypeOK
  <2>4. QED
    BY <2>2, <2>3 DEF IInv, TypeOK
<1>4. table' \in [Slots -> Entries]
  BY <1>1, <1>2 DEF IInv, TypeOK, Entries
<1>5. TypeOK'
  BY <1>1, <1>3, <1>4 DEF TypeOK, IInv
<1>6. Shape'
  BY <1>1 DEF Shape, IInv, TypeOK, ResolveKnown, Resolving, Carrying, Jobs
<1>7. PoolConserved'
  BY <1>1 DEF IInv, PoolConserved, NoneShared, NoneLeaked
<1>8. QED
  BY <1>5, <1>6, <1>7 DEF IInv

(* resolve_and_send() to an address being asked for keeps IInv. *)
LEMMA ResolvePendingInv ==
  ASSUME IInv, NEW w \in Workers, ResolvePending(w)
  PROVE  IInv'
<1>1. PICK i \in Find(job[w].hop) :
        table' = [table EXCEPT ![i].idle = 0] /\ Hold(i, w) /\ Return(w)
  BY DEF ResolvePending, Hold
<1>2. i \in Slots /\ w \in Holders
  BY <1>1 DEF Find
<1>3. Owners' /\ PoolConserved'
  BY <1>1, <1>2, TypeOwners, HoldConserves DEF IInv
<1>4. job' \in [Workers -> Jobs]
  BY <1>1, ReturnedJob DEF Return, IInv, TypeOK
<1>5. table' \in [Slots -> Entries]
  BY <1>1, <1>2 DEF IInv, TypeOK, Entries
<1>6. TypeOK'
  BY <1>3, <1>4, <1>5 DEF TypeOK, Owners
<1>7. Shape'
  BY <1>1, ReturnedJob, FrameNotWorker, RxIsHolder
  DEF Shape, IInv, TypeOK, ResolvePending, Resolving, Carrying, Return, Hold
<1>8. QED
  BY <1>3, <1>6, <1>7 DEF IInv

(* resolve_and_send() to an unknown address keeps IInv, evicting or not. *)
LEMMA ResolveNewInv ==
  ASSUME IInv, NEW w \in Workers, ResolveNew(w)
  PROVE  IInv'
<1>1. PICK i \in AllocSlots :
        /\ table' = [table EXCEPT ![i] = PendingEntry(job[w].hop)]
        /\ Hold(i, w)
        /\ job' = [job EXCEPT ![w].pc = "arp", ![w].hop = None, ![w].mac = BroadcastMac]
  BY DEF ResolveNew, Hold
<1>2. i \in Slots /\ w \in Holders
  BY <1>1 DEF AllocSlots, First, FreeSlots, Oldest
<1>3. Owners' /\ PoolConserved'
  BY <1>1, <1>2, TypeOwners, HoldConserves DEF IInv
<1>4. job[w].hop \in Ips
  BY DEF ResolveNew, Resolving, IInv, Shape
<1>5. job' \in [Workers -> Jobs]
  BY <1>1, KnownMacs DEF IInv, TypeOK, Jobs, Pcs
<1>6. PendingEntry(job[w].hop) \in Entries
  BY <1>4, NewEntries, ArpAssumption DEF ArpAssumption
<1>7. TypeOK'
  BY <1>1, <1>2, <1>3, <1>5, <1>6 DEF TypeOK, Owners, IInv
<1>8. Shape'
  BY <1>1, FrameNotWorker, RxIsHolder
  DEF Shape, IInv, TypeOK, ResolveNew, Resolving, Carrying, Hold, Jobs
<1>9. QED
  BY <1>3, <1>7, <1>8 DEF IInv

(* arp send() keeps IInv, with a packet and without. *)
LEMMA ArpSendInv ==
  ASSUME IInv, NEW w \in Workers, ArpSend(w)
  PROVE  IInv'
<1>0. w \in Holders /\ carry[w] = None
  BY DEF ArpSend, IInv, Shape, Carrying
<1>1. CASE free # {}
  <2>1. Owners' /\ PoolConserved'
    BY <1>0, <1>1, TypeOwners, TakeConserves DEF IInv, ArpSend, Take
  <2>2. job' \in [Workers -> Jobs]
    BY <1>1 DEF ArpSend, Goto, IInv, TypeOK, Jobs, Pcs
  <2>3. TypeOK'
    BY <2>1, <2>2 DEF TypeOK, Owners, ArpSend, IInv
  <2>4. Shape'
    BY <1>1, FrameNotWorker, RxIsHolder
    DEF Shape, IInv, TypeOK, ArpSend, Goto, Carrying, Jobs
  <2>5. QED
    BY <2>1, <2>3, <2>4 DEF IInv
<1>2. CASE free = {}
  <2>1. UNCHANGED <<table, held, carry, free>> /\ Return(w)
    BY <1>2 DEF ArpSend
  <2>2. job' \in [Workers -> Jobs]
    BY <2>1, ReturnedJob DEF Return, IInv, TypeOK
  <2>3. TypeOK'
    BY <2>1, <2>2 DEF TypeOK, IInv
  <2>4. Shape'
    BY <1>0, <2>1, ReturnedJob, RxIsHolder
    DEF Shape, IInv, TypeOK, ArpSend, Return, Carrying
  <2>5. PoolConserved'
    BY <2>1 DEF IInv, PoolConserved, NoneShared, NoneLeaked
  <2>6. QED
    BY <2>3, <2>4, <2>5 DEF IInv
<1>3. QED
  BY <1>1, <1>2

(* eth_send() keeps IInv. *)
LEMMA EthSendInv ==
  ASSUME IInv, NEW w \in Workers, EthSend(w)
  PROVE  IInv'
<1>1. job[w].dst # 0 => table[job[w].dst].mac \in Macs
  BY DEF IInv, TypeOK, Jobs, Entries
<1>2. job' \in [Workers -> Jobs]
  <2> DEFINE m == IF job[w].dst = 0 THEN job[w].mac ELSE table[job[w].dst].mac
  <2>1. job[w] \in Jobs /\ m \in Macs
    BY <1>1 DEF IInv, TypeOK, Jobs
  <2>2. [job[w] EXCEPT !.pc = "tx", !.late = FALSE, !.mac = m] \in Jobs
    BY <2>1 DEF Jobs, Pcs
  <2>3. job' = [job EXCEPT ![w] = [job[w] EXCEPT !.pc = "tx", !.late = FALSE, !.mac = m]]
    BY DEF EthSend, IInv, TypeOK
  <2>4. QED
    BY <2>2, <2>3 DEF IInv, TypeOK
<1>3. TypeOK'
  BY <1>2 DEF TypeOK, EthSend, IInv
<1>4. Shape'
  BY DEF Shape, IInv, TypeOK, EthSend, Carrying, Jobs
<1>5. PoolConserved'
  BY DEF IInv, EthSend, PoolConserved, NoneShared, NoneLeaked
<1>6. QED
  BY <1>3, <1>4, <1>5 DEF IInv

(* NetIf::tx() and the end of its packet keep IInv. *)
LEMMA TxInv ==
  ASSUME IInv, NEW w \in Workers, Tx(w)
  PROVE  IInv'
<1>1. Give(w) /\ Return(w) /\ UNCHANGED table
  BY DEF Tx, Give
<1>2. Owners' /\ PoolConserved'
  BY <1>1, TypeOwners, GiveConserves DEF IInv
<1>3. job' \in [Workers -> Jobs]
  BY <1>1, ReturnedJob DEF Return, IInv, TypeOK
<1>4. TypeOK'
  BY <1>1, <1>2, <1>3 DEF TypeOK, Owners, IInv
<1>5. Shape'
  BY <1>1, ReturnedJob, FrameNotWorker, RxIsHolder
  DEF Shape, IInv, TypeOK, Tx, Carrying, Return, Give
<1>6. QED
  BY <1>2, <1>4, <1>5 DEF IInv

(* So does every step of a task that sends. *)
LEMMA SendInv ==
  ASSUME IInv, NEW w \in Workers, Send(w)
  PROVE  IInv'
BY ResolveBroadcastInv, ResolveKnownInv, ResolvePendingInv, ResolveNewInv, ArpSendInv,
   EthSendInv, TxInv DEF Send

(* The driver handing over a frame keeps IInv. *)
LEMMA ReceiveInv ==
  ASSUME IInv, NEW f \in Frames, Receive(f)
  PROVE  IInv'
<1>1. carry["frame"] = None /\ Take("frame")
  BY DEF Receive, IInv, Shape, Take
<1>2. Owners' /\ PoolConserved'
  BY <1>1, RxIsHolder, TypeOwners, TakeConserves DEF IInv
<1>3. job' \in [Workers -> Jobs]
  BY RxIsHolder, KnownMacs DEF Receive, IInv, TypeOK, Idle, Jobs, Pcs
<1>4. TypeOK'
  BY <1>2, <1>3 DEF TypeOK, Owners, Receive, IInv
<1>5. Shape'
  BY FrameNotWorker, RxIsHolder DEF Shape, IInv, TypeOK, Receive, Idle, Carrying
<1>6. QED
  BY <1>2, <1>4, <1>5 DEF IInv

(* The frame being received is one of Frames until the receiver is done. *)
LEMMA FrameInFrames ==
  ASSUME IInv, job["rx"].pc \in {"learn", "deliver"}
  PROVE  Frame \in Frames /\ Frame.ip \in Ips /\ Frame.mac \in Macs
<1>1. Frame \in Frames
  BY DEF IInv, Shape, Frame
<1>2. Frame \in FrameSet
  BY <1>1, ArpAssumption DEF ArpAssumption
<1>3. QED
  BY <1>1, <1>2 DEF FrameSet

(* A frame that carries no mapping keeps IInv. *)
LEMMA LearnNothingInv ==
  ASSUME IInv, LearnNothing
  PROVE  IInv'
<1>1. Return("rx") /\ UNCHANGED <<table, held, carry, free>>
  BY DEF LearnNothing
<1>2. job' \in [Workers -> Jobs]
  BY <1>1, ReturnedJob, RxIsHolder DEF Return, IInv, TypeOK
<1>3. TypeOK'
  BY <1>1, <1>2 DEF TypeOK, IInv
<1>4. Shape'
  BY <1>1, ReturnedJob, RxIsHolder DEF Shape, IInv, TypeOK, LearnNothing, Return, Carrying
<1>5. PoolConserved'
  BY <1>1 DEF IInv, PoolConserved, NoneShared, NoneLeaked
<1>6. QED
  BY <1>3, <1>4, <1>5 DEF IInv

(* cache() of a known address keeps IInv, with a packet held and without. *)
LEMMA LearnKnownInv ==
  ASSUME IInv, LearnKnown
  PROVE  IInv'
<1>1. PICK i \in Find(Frame.ip) :
        /\ table' = [table EXCEPT ![i] = ResolvedEntry(Frame.ip, Frame.mac)]
        /\ IF held[i] = None THEN Return("rx") /\ UNCHANGED <<held, carry>>
           ELSE /\ carry' = [carry EXCEPT !["rx"] = held[i]]
                /\ held' = [held EXCEPT ![i] = None]
                /\ job' = [job EXCEPT !["rx"].pc = "send", !["rx"].hop = Frame.ip,
                                      !["rx"].dst = i]
        /\ UNCHANGED free
  BY DEF LearnKnown
<1>2. i \in Slots
  BY <1>1 DEF Find
<1>3. Frame \in Frames /\ Frame.ip \in Ips /\ Frame.mac \in Macs
  BY FrameInFrames DEF LearnKnown
<1>4. table' \in [Slots -> Entries]
  BY <1>1, <1>2, <1>3, NewEntries DEF IInv, TypeOK
<1>5. CASE held[i] = None
  <2>1. Return("rx") /\ UNCHANGED <<held, carry, free>>
    BY <1>1, <1>5
  <2>2. job' \in [Workers -> Jobs]
    BY <2>1, ReturnedJob, RxIsHolder DEF Return, IInv, TypeOK
  <2>3. TypeOK'
    BY <1>4, <2>1, <2>2 DEF TypeOK, IInv
  <2>4. Shape'
    BY <2>1, ReturnedJob, RxIsHolder DEF Shape, IInv, TypeOK, LearnKnown, Return, Carrying
  <2>5. PoolConserved'
    BY <2>1 DEF IInv, PoolConserved, NoneShared, NoneLeaked
  <2>6. QED
    BY <2>3, <2>4, <2>5 DEF IInv
<1>6. CASE held[i] # None
  <2>1. Flush(i, "rx") /\ carry["rx"] = None
    BY <1>1, <1>6, RxIsHolder DEF Flush, IInv, Shape, LearnKnown, Carrying
  <2>2. Owners' /\ PoolConserved'
    BY <1>2, <2>1, RxIsHolder, TypeOwners, FlushConserves DEF IInv
  <2>3. job' \in [Workers -> Jobs]
    BY <1>1, <1>2, <1>3, <1>6, RxIsHolder DEF IInv, TypeOK, Jobs, Pcs
  <2>4. TypeOK'
    BY <1>4, <2>2, <2>3 DEF TypeOK, Owners
  <2>5. Shape'
    BY <1>1, <1>6, FrameNotWorker, RxIsHolder
    DEF Shape, IInv, TypeOK, LearnKnown, Carrying, Jobs
  <2>6. QED
    BY <2>2, <2>4, <2>5 DEF IInv
<1>7. QED
  BY <1>5, <1>6

(* cache() of an unknown address keeps IInv, evicting or not. *)
LEMMA LearnNewInv ==
  ASSUME IInv, LearnNew
  PROVE  IInv'
<1>1. PICK i \in AllocSlots :
        /\ table' = [table EXCEPT ![i] = ResolvedEntry(Frame.ip, Frame.mac)]
        /\ held' = [held EXCEPT ![i] = None]
        /\ free' = free \cup Only(held[i])
        /\ Return("rx") /\ UNCHANGED carry
  BY DEF LearnNew
<1>2. i \in Slots
  BY <1>1 DEF AllocSlots, First, FreeSlots, Oldest
<1>3. Frame.ip \in Ips /\ Frame.mac \in Macs
  BY FrameInFrames DEF LearnNew
<1>4. table' \in [Slots -> Entries]
  BY <1>1, <1>2, <1>3, NewEntries DEF IInv, TypeOK
<1>5. Drop({i})
  <2>1. held' = [k \in Slots |-> IF k \in {i} THEN None ELSE held[k]]
    BY <1>1, <1>2 DEF IInv, TypeOK
  <2>2. {held[k] : k \in {i}} = {held[i]}
    OBVIOUS
  <2>3. QED
    BY <1>1, <2>1, <2>2 DEF Drop, Only
<1>6. Owners' /\ PoolConserved'
  BY <1>1, <1>2, <1>5, TypeOwners, DropConserves DEF IInv
<1>7. job' \in [Workers -> Jobs]
  BY <1>1, ReturnedJob, RxIsHolder DEF Return, IInv, TypeOK
<1>8. TypeOK'
  BY <1>4, <1>6, <1>7 DEF TypeOK, Owners
<1>9. Shape'
  BY <1>1, ReturnedJob, RxIsHolder DEF Shape, IInv, TypeOK, LearnNew, Return, Carrying
<1>10. QED
  BY <1>6, <1>8, <1>9 DEF IInv

(* Answering an arp request keeps IInv. *)
LEMMA DeliverRequestInv ==
  ASSUME IInv, DeliverRequest
  PROVE  IInv'
<1>1. Frame.mac \in Macs
  BY FrameInFrames DEF DeliverRequest
<1>2. job' \in [Workers -> Jobs]
  <2>1. job["rx"] \in Jobs
    BY RxIsHolder DEF IInv, TypeOK
  <2>2. [job["rx"] EXCEPT !.pc = "arp", !.mac = Frame.mac, !.then = "done"] \in Jobs
    BY <1>1, <2>1 DEF Jobs, Pcs
  <2>3. job' = [job EXCEPT !["rx"] = [job["rx"] EXCEPT !.pc = "arp", !.mac = Frame.mac,
                                        !.then = "done"]]
    BY <2>1, RxIsHolder DEF DeliverRequest, IInv, TypeOK
  <2>4. QED
    BY <2>2, <2>3 DEF IInv, TypeOK
<1>3. TypeOK'
  BY <1>2 DEF TypeOK, DeliverRequest, IInv
<1>4. Shape'
  BY RxIsHolder DEF Shape, IInv, TypeOK, DeliverRequest, Carrying, Jobs
<1>5. PoolConserved'
  BY DEF IInv, DeliverRequest, PoolConserved, NoneShared, NoneLeaked
<1>6. QED
  BY <1>3, <1>4, <1>5 DEF IInv

(* Answering an echo request in the packet that brought it keeps IInv. *)
LEMMA DeliverReflectedInv ==
  ASSUME IInv, DeliverReflected
  PROVE  IInv'
<1>1. carry["rx"] = None /\ Pass("frame", "rx")
  BY RxIsHolder DEF DeliverReflected, IInv, Shape, Carrying, Pass
<1>2. Owners' /\ PoolConserved'
  BY <1>1, RxIsHolder, FrameNotWorker, TypeOwners, PassConserves DEF IInv
<1>3. PICK hop \in Ips :
        job' = [job EXCEPT !["rx"].pc = "resolve", !["rx"].hop = hop, !["rx"].then = "done"]
  BY FrameInFrames, NextHopIp DEF DeliverReflected, Answer
<1>4. job' \in [Workers -> Jobs]
  <2>1. job["rx"] \in Jobs
    BY RxIsHolder DEF IInv, TypeOK
  <2>2. [job["rx"] EXCEPT !.pc = "resolve", !.hop = hop, !.then = "done"] \in Jobs
    BY <1>3, <2>1 DEF Jobs, Pcs
  <2>3. job' = [job EXCEPT !["rx"] = [job["rx"] EXCEPT !.pc = "resolve",
                                        !.hop = hop, !.then = "done"]]
    BY <1>3, <2>1, RxIsHolder DEF IInv, TypeOK
  <2>4. QED
    BY <2>2, <2>3 DEF IInv, TypeOK
<1>5. TypeOK'
  BY <1>2, <1>4 DEF TypeOK, Owners, DeliverReflected, IInv
<1>6. Shape'
  BY <1>3, FrameNotWorker, RxIsHolder
  DEF Shape, IInv, TypeOK, DeliverReflected, Carrying, Jobs
<1>7. QED
  BY <1>2, <1>5, <1>6 DEF IInv

(* Answering an ip packet from within input() keeps IInv. *)
LEMMA DeliverAnsweredInv ==
  ASSUME IInv, DeliverAnswered
  PROVE  IInv'
<1>1. carry["rx"] = None /\ Take("rx")
  BY RxIsHolder DEF DeliverAnswered, IInv, Shape, Carrying, Take
<1>2. Owners' /\ PoolConserved'
  BY <1>1, RxIsHolder, TypeOwners, TakeConserves DEF IInv
<1>3. PICK hop \in Ips :
        job' = [job EXCEPT !["rx"].pc = "resolve", !["rx"].hop = hop, !["rx"].then = "done"]
  BY FrameInFrames, NextHopIp DEF DeliverAnswered, Answer
<1>4. job' \in [Workers -> Jobs]
  <2>1. job["rx"] \in Jobs
    BY RxIsHolder DEF IInv, TypeOK
  <2>2. [job["rx"] EXCEPT !.pc = "resolve", !.hop = hop, !.then = "done"] \in Jobs
    BY <1>3, <2>1 DEF Jobs, Pcs
  <2>3. job' = [job EXCEPT !["rx"] = [job["rx"] EXCEPT !.pc = "resolve",
                                        !.hop = hop, !.then = "done"]]
    BY <1>3, <2>1, RxIsHolder DEF IInv, TypeOK
  <2>4. QED
    BY <2>2, <2>3 DEF IInv, TypeOK
<1>5. TypeOK'
  BY <1>2, <1>4 DEF TypeOK, Owners, DeliverAnswered, IInv
<1>6. Shape'
  BY <1>3, FrameNotWorker, RxIsHolder
  DEF Shape, IInv, TypeOK, DeliverAnswered, Carrying, Jobs
<1>7. QED
  BY <1>2, <1>5, <1>6 DEF IInv

(* Not answering keeps IInv. *)
LEMMA DeliverSilentlyInv ==
  ASSUME IInv, DeliverSilently
  PROVE  IInv'
<1>1. job' \in [Workers -> Jobs]
  BY RxIsHolder DEF DeliverSilently, Goto, IInv, TypeOK, Jobs, Pcs
<1>2. TypeOK'
  BY <1>1 DEF TypeOK, DeliverSilently, IInv
<1>3. Shape'
  BY RxIsHolder DEF Shape, IInv, TypeOK, DeliverSilently, Goto, Carrying, Jobs
<1>4. PoolConserved'
  BY DEF IInv, DeliverSilently, PoolConserved, NoneShared, NoneLeaked
<1>5. QED
  BY <1>2, <1>3, <1>4 DEF IInv

(* The end of NetIf::rx() and of its frame keeps IInv. *)
LEMMA RxDoneInv ==
  ASSUME IInv, RxDone
  PROVE  IInv'
<1>1. Give("frame") /\ UNCHANGED table /\ job' = [job EXCEPT !["rx"] = Idle]
  BY DEF RxDone, Give
<1>2. Owners' /\ PoolConserved'
  BY <1>1, RxIsHolder, TypeOwners, GiveConserves DEF IInv
<1>3. Idle \in Jobs
  BY KnownMacs DEF Idle, Jobs, Pcs
<1>4. TypeOK'
  BY <1>1, <1>2, <1>3 DEF TypeOK, Owners, IInv
<1>5. Shape'
  BY <1>1, FrameNotWorker, RxIsHolder DEF Shape, IInv, TypeOK, RxDone, Give, Idle, Carrying
<1>6. QED
  BY <1>2, <1>4, <1>5 DEF IInv

(* Time passing keeps IInv. *)
LEMMA TickInv ==
  ASSUME IInv, Tick
  PROVE  IInv'
<1>1. ASSUME NEW i \in Slots PROVE Aged(table[i]) \in Entries
  <2>1. table[i] \in Entries
    BY DEF IInv, TypeOK
  <2> DEFINE left == IF table[i].left = 0 THEN 0 ELSE table[i].left - 1
             idle == IF table[i].state = "Free" THEN 0 ELSE table[i].idle + 1
  <2>2. left \in Nat /\ idle \in Nat
    BY <2>1 DEF Entries
  <2>3. Aged(table[i]) = [table[i] EXCEPT !.left = left, !.idle = idle]
    BY <2>1 DEF Aged, Entries
  <2> HIDE DEF left, idle
  <2>4. QED
    BY <2>1, <2>2, <2>3 DEF Entries
<1>2. table' \in [Slots -> Entries]
  BY <1>1 DEF Tick
<1>3. [Idle EXCEPT !.pc = "scan", !.then = "scan", !.slot = 1] \in Jobs
  BY KnownMacs DEF Idle, Jobs, Pcs
<1>4. ASSUME NEW w \in Workers
      PROVE  /\ [job[w] EXCEPT !.late = job[w].pc = "send"] \in Jobs
             /\ w # "timer" => /\ job'[w].pc = job[w].pc /\ job'[w].hop = job[w].hop
                              /\ job'[w].then = job[w].then /\ job'[w].frame = job[w].frame
  <2> DEFINE late == job[w].pc = "send"
  <2>1. late \in BOOLEAN /\ job[w] \in Jobs
    BY DEF IInv, TypeOK
  <2>2. w # "timer" => job'[w] = [job[w] EXCEPT !.late = late]
    BY DEF Tick
  <2> HIDE DEF late
  <2>3. [job[w] EXCEPT !.late = late] \in Jobs
    BY <2>1 DEF Jobs
  <2>4. w # "timer" => /\ job'[w].pc = job[w].pc /\ job'[w].hop = job[w].hop
                       /\ job'[w].then = job[w].then /\ job'[w].frame = job[w].frame
    BY <2>1, <2>2 DEF Jobs
  <2>5. QED
    BY <2>3, <2>4 DEF late
<1>5. job' \in [Workers -> Jobs]
  BY <1>3, <1>4 DEF Tick
<1>6. TypeOK'
  BY <1>2, <1>5 DEF TypeOK, Tick, IInv
<1>7. Shape'
  <2>1. \A w \in Workers : w # "timer" =>
          /\ job'[w].pc = job[w].pc /\ job'[w].hop = job[w].hop
          /\ job'[w].then = job[w].then /\ job'[w].frame = job[w].frame
    BY <1>4
  <2>2. job'["timer"].pc = "scan" /\ job'["timer"].slot = 1
    BY RxIsHolder DEF Tick, Idle, Jobs
  <2>3. job["timer"].pc = "idle" /\ UNCHANGED carry
    BY DEF Tick
  <2>4. QED
    BY <2>1, <2>2, <2>3, RxIsHolder DEF Shape, IInv, Carrying
<1>8. PoolConserved'
  BY DEF IInv, Tick, PoolConserved, NoneShared, NoneLeaked
<1>9. QED
  BY <1>6, <1>7, <1>8 DEF IInv

(* The timer clears entries of the table only. *)
LEMMA DroppedSlots ==
  ASSUME IInv, job["timer"].pc = "scan", NEW i \in 1..(TableSize + 1)
  PROVE  Dropped(i) \in SUBSET Slots
<1>1. job["timer"].slot \in Nat /\ job["timer"].slot >= 1 /\ TableSize \in Nat
  BY RxIsHolder, ArpAssumption DEF IInv, TypeOK, Jobs, Shape, ArpAssumption
<1>2. QED
  BY <1>1 DEF Dropped

(* arp::tick() up to its next request keeps IInv. *)
LEMMA ScanRequestInv ==
  ASSUME IInv, ScanRequest
  PROVE  IInv'
<1>1. PICK i \in First(DueSlots) :
        /\ table' = [k \in Slots |->
             IF k \in Dropped(i) THEN Blank
             ELSE IF k = i THEN [table[k] EXCEPT !.retries = @ + 1, !.left = RetryTicks]
             ELSE table[k]]
        /\ Drop(Dropped(i))
        /\ job' = [job EXCEPT !["timer"].pc = "arp", !["timer"].mac = BroadcastMac,
                              !["timer"].slot = i + 1]
        /\ UNCHANGED carry
  BY DEF ScanRequest
<1>2. /\ job["timer"] \in Jobs /\ job["timer"].slot \in Nat
      /\ job["timer"].slot >= 1 /\ TableSize \in Nat
  <2>1. job["timer"] \in Jobs /\ TableSize \in Nat
    BY RxIsHolder, ArpAssumption DEF IInv, TypeOK, ArpAssumption
  <2>2. job["timer"].slot >= 1
    BY DEF ScanRequest, IInv, Shape
  <2>3. QED
    BY <2>1, <2>2 DEF Jobs
<1>3. i \in Slots /\ i + 1 \in Nat /\ i + 1 >= 1 /\ Due(table[i])
  <2>1. i \in job["timer"].slot..TableSize /\ Due(table[i])
    BY <1>1 DEF First, DueSlots
  <2>2. QED
    BY <1>2, <2>1
<1>4. Dropped(i) \in SUBSET Slots
  <2>1. i \in 1..(TableSize + 1)
    BY <1>2, <1>3
  <2>2. job["timer"].pc = "scan"
    BY DEF ScanRequest
  <2>3. QED
    BY <2>1, <2>2, DroppedSlots
<1>5. Owners' /\ PoolConserved'
  BY <1>1, <1>4, TypeOwners, DropConserves DEF IInv
<1>6. [table[i] EXCEPT !.retries = @ + 1, !.left = RetryTicks] \in Entries
  <2>1. table[i] \in Entries /\ RetryTicks \in Nat /\ MaxRetries \in Nat
    BY <1>3, ArpAssumption DEF IInv, TypeOK, ArpAssumption
  <2>2. table[i].retries + 1 \in 0..MaxRetries
    BY <1>3, <2>1 DEF Due, Entries
  <2>3. QED
    BY <2>1, <2>2 DEF Entries
<1>7. table' \in [Slots -> Entries]
  BY <1>1, <1>6, BlankEntry DEF IInv, TypeOK
<1>8. job' \in [Workers -> Jobs]
  <2>1. [job["timer"] EXCEPT !.pc = "arp", !.mac = BroadcastMac, !.slot = i + 1] \in Jobs
    BY <1>2, <1>3, KnownMacs DEF Jobs, Pcs
  <2>2. job' = [job EXCEPT !["timer"] = [job["timer"] EXCEPT !.pc = "arp", !.mac = BroadcastMac,
                                           !.slot = i + 1]]
    BY <1>1, <1>2, RxIsHolder DEF IInv, TypeOK
  <2>3. QED
    BY <2>1, <2>2 DEF IInv, TypeOK
<1>9. TypeOK'
  BY <1>5, <1>7, <1>8 DEF TypeOK, Owners
<1>10. Shape'
  BY <1>1, <1>2, <1>3, RxIsHolder DEF Shape, IInv, TypeOK, ScanRequest, Carrying, Jobs
<1>11. QED
  BY <1>5, <1>9, <1>10 DEF IInv

(* arp::tick() to its end keeps IInv. *)
LEMMA ScanEndInv ==
  ASSUME IInv, ScanEnd
  PROVE  IInv'
<1>1. TableSize \in Nat
  BY ArpAssumption DEF ArpAssumption
<1>2. Dropped(TableSize + 1) \in SUBSET Slots
  BY <1>1, DroppedSlots DEF ScanEnd
<1>3. Owners' /\ PoolConserved'
  BY <1>2, TypeOwners, DropConserves DEF IInv, ScanEnd
<1>4. table' \in [Slots -> Entries]
  BY BlankEntry DEF ScanEnd, IInv, TypeOK
<1>5. Idle \in Jobs
  BY KnownMacs DEF Idle, Jobs, Pcs
<1>6. TypeOK'
  BY <1>3, <1>4, <1>5 DEF TypeOK, Owners, ScanEnd, IInv
<1>7. Shape'
  BY RxIsHolder DEF Shape, IInv, TypeOK, ScanEnd, Idle, Carrying
<1>8. QED
  BY <1>3, <1>6, <1>7 DEF IInv

(* Every step keeps IInv. *)
LEMMA NextInv ==
  ASSUME IInv, [Next]_vars
  PROVE  IInv'
<1>1. ASSUME NEW w \in Senders, Send(w) PROVE IInv'
  BY <1>1, SendInv
<1>2. ASSUME NEW w \in Senders, NEW ip \in Dests, Output(w, ip) PROVE IInv'
  BY <1>2, OutputInv
<1>3. ASSUME NEW f \in Frames, Receive(f) PROVE IInv'
  BY <1>3, ReceiveInv
<1>4. CASE RxStep
  BY <1>4, RxIsHolder, LearnNothingInv, LearnKnownInv, LearnNewInv, DeliverRequestInv,
     DeliverReflectedInv, DeliverAnsweredInv, DeliverSilentlyInv, RxDoneInv, SendInv DEF RxStep
<1>5. CASE TimerStep
  BY <1>5, RxIsHolder, TickInv, ScanRequestInv, ScanEndInv, SendInv DEF TimerStep
<1>6. CASE UNCHANGED vars
  BY <1>6 DEF vars, IInv, TypeOK, Shape, PoolConserved, NoneShared, NoneLeaked
<1>7. QED
  BY <1>1, <1>2, <1>3, <1>4, <1>5, <1>6 DEF Next

(* TypeOK holds in every reachable state: indices stay in the table,       *)
(* retries stay within max_retries.                                        *)
THEOREM TypeCorrect == Spec => []TypeOK
<1>1. IInv => TypeOK
  BY DEF IInv
<1>2. QED
  BY <1>1, InitInv, NextInv, PTL DEF Spec

(* Every packet of the pool is free or has exactly one owner in every      *)
(* reachable state, for every table, pool, network and set of senders.     *)
THEOREM PoolConservation == Spec => []PoolConserved
<1>1. IInv => PoolConserved
  BY DEF IInv
<1>2. QED
  BY <1>1, InitInv, NextInv, PTL DEF Spec
-----------------------------------------------------------------------------
(***************************************************************************)
(* The table.  Its properties are inductive together, on top of IInv: an   *)
(* entry's packet is only bounded in time if every pending entry is.       *)
(***************************************************************************)

Counted(e) == e.state = "Pending" => e.retries \in 1..MaxRetries /\ e.left <= RetryTicks
HoldersPending == \A i \in Slots : held[i] # None => table[i].state = "Pending"

TableInv ==
  /\ OneEntryPerIp
  /\ MappingsClaimed
  /\ \A i \in Slots : Counted(table[i])
  /\ HoldersPending

(* The table changes in two ways only.  Either each entry is cleared or    *)
(* goes on standing for the same mapping, or one new entry is made.        *)
Kept(i) ==
  \/ table'[i].state = "Free"
  \/ /\ table'[i].state = table[i].state /\ table'[i].ip = table[i].ip
     /\ table'[i].mac = table[i].mac /\ Counted(table'[i])

(* A step of the first kind keeps TableInv. *)
LEMMA KeptInv ==
  ASSUME TableInv, \A i \in Slots : Kept(i), HoldersPending'
  PROVE  TableInv'
<1>1. OneEntryPerIp'
  BY DEF TableInv, OneEntryPerIp, Kept
<1>2. MappingsClaimed'
  BY DEF TableInv, MappingsClaimed, Claimed, Kept
<1>3. \A i \in Slots : Counted(table'[i])
  BY DEF TableInv, Kept, Counted
<1>4. QED
  BY <1>1, <1>2, <1>3 DEF TableInv

(* A step that makes one entry, for an address no other entry has, does    *)
(* too.                                                                    *)
LEMMA MadeInv ==
  ASSUME TypeOK, TableInv, NEW i \in Slots, NEW e, Find(e.ip) \subseteq {i},
         table' = [table EXCEPT ![i] = e],
         e.state = "Resolved" => Claimed(e.ip, e.mac), Counted(e), HoldersPending'
  PROVE  TableInv'
<1>1. \A j \in Slots : table'[j] = IF j = i THEN e ELSE table[j]
  BY DEF TypeOK
<1>2. OneEntryPerIp'
  BY <1>1 DEF TableInv, OneEntryPerIp, Find
<1>3. MappingsClaimed'
  BY <1>1 DEF TableInv, MappingsClaimed, Claimed
<1>4. \A j \in Slots : Counted(table'[j])
  BY <1>1 DEF TableInv
<1>5. QED
  BY <1>2, <1>3, <1>4 DEF TableInv

(* An empty table has the properties. *)
LEMMA TableInit == Init => TableInv
BY ArpAssumption
DEF Init, TableInv, OneEntryPerIp, MappingsClaimed, Counted, HoldersPending, Blank, Entry

(* A step that leaves the table alone keeps them. *)
LEMMA TableUntouched ==
  ASSUME TableInv, UNCHANGED <<table, held>>
  PROVE  TableInv'
BY DEF TableInv, OneEntryPerIp, MappingsClaimed, Claimed, Counted, HoldersPending

(* Using a resolved entry keeps TableInv. *)
LEMMA ResolveKnownTable ==
  ASSUME IInv, TableInv, NEW w \in Workers, ResolveKnown(w)
  PROVE  TableInv'
<1>1. PICK i \in Find(job[w].hop) : table' = [table EXCEPT ![i].idle = 0] /\ UNCHANGED held
  BY DEF ResolveKnown
<1>2. \A j \in Slots : Kept(j)
  BY <1>1 DEF Kept, IInv, TypeOK, Entries, TableInv, Counted
<1>3. HoldersPending'
  BY <1>1 DEF IInv, TypeOK, Entries, TableInv, HoldersPending
<1>4. QED
  BY <1>2, <1>3, KeptInv

(* Replacing the packet of a pending entry keeps TableInv. *)
LEMMA ResolvePendingTable ==
  ASSUME IInv, TableInv, NEW w \in Workers, ResolvePending(w)
  PROVE  TableInv'
<1>1. PICK i \in Find(job[w].hop) :
        /\ table[i].state = "Pending" /\ table' = [table EXCEPT ![i].idle = 0]
        /\ held' = [held EXCEPT ![i] = carry[w]]
  BY DEF ResolvePending
<1>2. \A j \in Slots : Kept(j)
  BY <1>1 DEF Kept, IInv, TypeOK, Entries, TableInv, Counted
<1>3. HoldersPending'
  BY <1>1 DEF IInv, TypeOK, Entries, TableInv, HoldersPending
<1>4. QED
  BY <1>2, <1>3, KeptInv

(* A new request keeps TableInv: nothing is found for its address. *)
LEMMA ResolveNewTable ==
  ASSUME IInv, TableInv, NEW w \in Workers, ResolveNew(w)
  PROVE  TableInv'
<1> DEFINE e == PendingEntry(job[w].hop)
<1>1. PICK i \in AllocSlots :
        table' = [table EXCEPT ![i] = e] /\ held' = [held EXCEPT ![i] = carry[w]]
  BY DEF ResolveNew
<1>2. i \in Slots
  BY <1>1 DEF AllocSlots, First, FreeSlots, Oldest
<1>3. e.ip = job[w].hop /\ e.state = "Pending" /\ Counted(e)
  BY ArpAssumption DEF PendingEntry, Entry, Counted, ArpAssumption
<1>4. HoldersPending'
  BY <1>1, <1>2, <1>3 DEF IInv, TypeOK, TableInv, HoldersPending
<1>5. Find(e.ip) = {}
  BY <1>3 DEF ResolveNew
<1> HIDE DEF e
<1>6. QED
  BY <1>1, <1>2, <1>3, <1>4, <1>5, MadeInv DEF IInv

(* An entry made from the frame received. *)
LEMMA LearnedEntry ==
  ASSUME IInv, job["rx"].pc = "learn"
  PROVE  LET e == ResolvedEntry(Frame.ip, Frame.mac)
         IN  e.ip = Frame.ip /\ e.state = "Resolved" /\ Counted(e) /\ Claimed(e.ip, e.mac)
BY FrameInFrames DEF ResolvedEntry, Entry, Counted, Claimed

(* Refreshing an entry keeps TableInv: it is the only one of its address. *)
LEMMA LearnKnownTable ==
  ASSUME IInv, TableInv, LearnKnown
  PROVE  TableInv'
<1> DEFINE e == ResolvedEntry(Frame.ip, Frame.mac)
<1>1. PICK i \in Find(Frame.ip) :
        /\ table' = [table EXCEPT ![i] = e]
        /\ (held[i] = None /\ UNCHANGED held) \/ held' = [held EXCEPT ![i] = None]
  BY DEF LearnKnown
<1>2. i \in Slots /\ Find(Frame.ip) \subseteq {i}
  BY <1>1 DEF Find, TableInv, OneEntryPerIp
<1>3. e.ip = Frame.ip /\ e.state = "Resolved" /\ Counted(e) /\ Claimed(e.ip, e.mac)
  BY LearnedEntry DEF LearnKnown
<1>4. HoldersPending'
  BY <1>1, <1>2 DEF IInv, TypeOK, TableInv, HoldersPending
<1> HIDE DEF e
<1>5. QED
  BY <1>1, <1>2, <1>3, <1>4, MadeInv DEF IInv

(* Learning a new address keeps TableInv. *)
LEMMA LearnNewTable ==
  ASSUME IInv, TableInv, LearnNew
  PROVE  TableInv'
<1> DEFINE e == ResolvedEntry(Frame.ip, Frame.mac)
<1>1. PICK i \in AllocSlots :
        table' = [table EXCEPT ![i] = e] /\ held' = [held EXCEPT ![i] = None]
  BY DEF LearnNew
<1>2. i \in Slots /\ Find(Frame.ip) = {}
  BY <1>1 DEF LearnNew, AllocSlots, First, FreeSlots, Oldest
<1>3. e.ip = Frame.ip /\ e.state = "Resolved" /\ Counted(e) /\ Claimed(e.ip, e.mac)
  BY LearnedEntry DEF LearnNew
<1>4. HoldersPending'
  BY <1>1, <1>2 DEF IInv, TypeOK, TableInv, HoldersPending
<1> HIDE DEF e
<1>5. QED
  BY <1>1, <1>2, <1>3, <1>4, MadeInv DEF IInv

(* Time passing keeps TableInv. *)
LEMMA TickTable ==
  ASSUME IInv, TableInv, Tick
  PROVE  TableInv'
<1>1. \A i \in Slots : /\ table'[i].state = table[i].state /\ table'[i].ip = table[i].ip
                      /\ table'[i].mac = table[i].mac /\ table'[i].retries = table[i].retries
                      /\ table[i].left \in Nat
                      /\ table'[i].left = IF table[i].left = 0 THEN 0 ELSE table[i].left - 1
  <2> SUFFICES ASSUME NEW i \in Slots
               PROVE  /\ table'[i].state = table[i].state /\ table'[i].ip = table[i].ip
                      /\ table'[i].mac = table[i].mac /\ table'[i].retries = table[i].retries
                      /\ table[i].left \in Nat
                      /\ table'[i].left = IF table[i].left = 0 THEN 0 ELSE table[i].left - 1
    OBVIOUS
  <2>1. table[i] \in Entries
    BY DEF IInv, TypeOK
  <2>2. table'[i] = Aged(table[i])
    BY DEF Tick
  <2>3. QED
    BY <2>1, <2>2 DEF Aged, Entries
<1>2. RetryTicks \in Nat
  BY ArpAssumption DEF ArpAssumption
<1>3. \A i \in Slots : Kept(i)
  BY <1>1, <1>2 DEF Kept, TableInv, Counted
<1>4. HoldersPending'
  BY <1>1 DEF Tick, TableInv, HoldersPending
<1>5. QED
  BY <1>3, <1>4, KeptInv

(* Clearing entries and counting one more request keeps TableInv. *)
LEMMA ScanRequestTable ==
  ASSUME IInv, TableInv, ScanRequest
  PROVE  TableInv'
<1>1. PICK i \in First(DueSlots) :
        /\ table' = [k \in Slots |->
             IF k \in Dropped(i) THEN Blank
             ELSE IF k = i THEN [table[k] EXCEPT !.retries = @ + 1, !.left = RetryTicks]
             ELSE table[k]]
        /\ held' = [k \in Slots |-> IF k \in Dropped(i) THEN None ELSE held[k]]
  BY DEF ScanRequest, Drop
<1>2. Due(table[i]) /\ RetryTicks \in Nat /\ MaxRetries \in Nat
  BY <1>1, ArpAssumption DEF First, DueSlots, ArpAssumption
<1>3. Blank.state = "Free"
  BY DEF Blank, Entry
<1>4. ASSUME NEW k \in Slots PROVE Kept(k)
  <2>1. CASE k \in Dropped(i)
    BY <1>1, <1>3, <2>1 DEF Kept
  <2>2. CASE k \notin Dropped(i) /\ k # i
    BY <1>1, <2>2 DEF Kept, TableInv
  <2>3. CASE k \notin Dropped(i) /\ k = i
    <3>1. table'[k] = [table[k] EXCEPT !.retries = @ + 1, !.left = RetryTicks]
      BY <1>1, <2>3
    <3>2. table[k].retries \in 1..MaxRetries /\ table[k].retries < MaxRetries
      BY <1>2, <2>3 DEF TableInv, Counted, Due
    <3>3. table[k] \in Entries
      BY DEF IInv, TypeOK
    <3>4. /\ table'[k].retries = table[k].retries + 1 /\ table'[k].left = RetryTicks
          /\ table'[k].state = table[k].state /\ table'[k].ip = table[k].ip
          /\ table'[k].mac = table[k].mac
      BY <3>1, <3>3 DEF Entries
    <3>5. QED
      BY <1>2, <3>2, <3>4 DEF Kept, Counted
  <2>4. QED
    BY <2>1, <2>2, <2>3
<1>5. HoldersPending'
  <2> SUFFICES ASSUME NEW k \in Slots, held'[k] # None PROVE table'[k].state = "Pending"
    BY DEF HoldersPending
  <2>1. k \notin Dropped(i) /\ held[k] # None
    BY <1>1
  <2>2. table[k].state = "Pending" /\ table[k] \in Entries
    BY <2>1 DEF TableInv, HoldersPending, IInv, TypeOK
  <2>3. QED
    BY <1>1, <2>1, <2>2 DEF Entries
<1>6. QED
  BY <1>4, <1>5, KeptInv

(* Clearing entries keeps TableInv. *)
LEMMA ScanEndTable ==
  ASSUME IInv, TableInv, ScanEnd
  PROVE  TableInv'
<1> DEFINE S == Dropped(TableSize + 1)
<1>1. /\ table' = [k \in Slots |-> IF k \in S THEN Blank ELSE table[k]]
      /\ held' = [k \in Slots |-> IF k \in S THEN None ELSE held[k]]
  BY DEF ScanEnd, Drop
<1> HIDE DEF S
<1>2. Blank.state = "Free"
  BY DEF Blank, Entry
<1>3. \A k \in Slots : Kept(k)
  BY <1>1, <1>2 DEF Kept, TableInv
<1>4. HoldersPending'
  BY <1>1 DEF TableInv, HoldersPending
<1>5. QED
  BY <1>3, <1>4, KeptInv

(* Every step keeps TableInv. *)
LEMMA TableNext ==
  ASSUME IInv, TableInv, [Next]_vars
  PROVE  TableInv'
<1>1. ASSUME NEW w \in Workers, Send(w) PROVE TableInv'
  <2>1. ASSUME ResolveBroadcast(w) \/ ArpSend(w) \/ EthSend(w) \/ Tx(w) PROVE TableInv'
    BY <2>1, TableUntouched DEF ResolveBroadcast, ArpSend, EthSend, Tx
  <2>2. QED
    BY <1>1, <2>1, ResolveKnownTable, ResolvePendingTable, ResolveNewTable DEF Send
<1>2. ASSUME NEW w \in Senders, NEW ip \in Dests, Output(w, ip) PROVE TableInv'
  BY <1>2, TableUntouched DEF Output
<1>3. ASSUME NEW f \in Frames, Receive(f) PROVE TableInv'
  BY <1>3, TableUntouched DEF Receive
<1>4. CASE RxStep
  <2>1. ASSUME \/ LearnNothing \/ DeliverRequest \/ DeliverReflected \/ DeliverAnswered
             \/ DeliverSilently \/ RxDone
        PROVE  TableInv'
    BY <2>1, TableUntouched
    DEF LearnNothing, DeliverRequest, DeliverReflected, DeliverAnswered, DeliverSilently, RxDone
  <2>2. QED
    BY <1>1, <1>4, <2>1, RxIsHolder, LearnKnownTable, LearnNewTable DEF RxStep
<1>5. CASE TimerStep
  BY <1>1, <1>5, RxIsHolder, TickTable, ScanRequestTable, ScanEndTable DEF TimerStep
<1>6. CASE UNCHANGED vars
  BY <1>6, TableUntouched DEF vars
<1>7. QED
  BY <1>1, <1>2, <1>3, <1>4, <1>5, <1>6 DEF Next

(* TableInv holds in every reachable state. *)
LEMMA TableAlways == Spec => []TableInv
BY InitInv, NextInv, TableInit, TableNext, PTL DEF Spec

(* find() has at most one entry to choose from, whatever frames arrive and *)
(* whoever sends while a reply is out.                                     *)
THEOREM OneEntry == Spec => []OneEntryPerIp
<1>1. TableInv => OneEntryPerIp
  BY DEF TableInv
<1>2. QED
  BY <1>1, TableAlways, PTL

(* No packet is held but by an entry that is being asked for and whose     *)
(* retries are counted.                                                    *)
THEOREM HeldBriefly == Spec => []HeldOnlyWhilePending
<1>1. TableInv => HeldOnlyWhilePending
  BY DEF TableInv, HoldersPending, Counted, HeldOnlyWhilePending
<1>2. QED
  BY <1>1, TableAlways, PTL

(* A resolved entry only ever says what some frame has claimed.            *)
THEOREM OnlyClaimedMappings == Spec => []MappingsClaimed
<1>1. TableInv => MappingsClaimed
  BY DEF TableInv
<1>2. QED
  BY <1>1, TableAlways, PTL
=============================================================================
