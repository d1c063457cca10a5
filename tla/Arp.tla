-------------------------------- MODULE Arp --------------------------------
(***************************************************************************)
(* Address resolution in re-net (net/arp.cpp) with everything that shares  *)
(* its two resources: the resolution table and the packet pool             *)
(* (net/packet.cpp).                                                       *)
(*                                                                         *)
(* Workers are coroutines.  Each sender runs ipv4::output() for a datagram *)
(* of the application, "rx" runs NetIf::rx() for one received frame at a   *)
(* time, "timer" runs Stack::timer_task().  A child coroutine starts in a  *)
(* later round of the runner than its caller's co_await; whatever it reads *)
(* through a reference it reads then.  So eth_send() is a step of its own  *)
(* and takes the destination address from the table entry as that is by    *)
(* then, not as resolve_and_send() or cache() saw it.                      *)
(*                                                                         *)
(* Time passes in periods of the timer task.  Deadlines and last uses are  *)
(* kept relative to now_ms, which only Stack::tick() moves: `left' is the  *)
(* time to deadline_ms, `idle' the time since last_used_ms.                *)
(***************************************************************************)
EXTENDS Integers, FiniteSets

CONSTANTS
  TableSize,      \* table_size: entries of the table
  Packets,        \* the buffers of the packet pool
  Ips, Macs,      \* protocol and hardware addresses
  AnyIp,          \* 0.0.0.0
  AllOnesIp,      \* 255.255.255.255
  ZeroMac, BroadcastMac,
  OnLink,         \* addresses of our subnet, once it is configured
  Gateway,        \* where every other destination goes
  Dests,          \* destinations the application sends to
  Frames,         \* frames that may be received
  Senders,        \* tasks of the application that send
  None,           \* no packet, no next hop
  TtlTicks,       \* resolved_ttl_ms in timer periods
  RetryTicks,     \* retry_interval_ms in timer periods
  MaxRetries      \* max_retries

Slots == 1..TableSize
Workers == Senders \cup {"rx", "timer"}
Holders == Workers \cup {"frame"}   \* "frame": the packet NetIf::rx() was given

FrameSet == [kind : {"request", "reply", "ip"}, ip : Ips, mac : Macs, to_us : BOOLEAN]

ASSUME ArpAssumption ==
  /\ TableSize \in Nat \ {0}
  /\ {AnyIp, AllOnesIp, Gateway} \cup OnLink \cup Dests \subseteq Ips
  /\ {ZeroMac, BroadcastMac} \subseteq Macs
  /\ Frames \subseteq FrameSet
  /\ None \notin Packets
  /\ Senders \cap {"rx", "timer", "frame"} = {}
  /\ TtlTicks \in Nat \ {0} /\ RetryTicks \in Nat \ {0} /\ MaxRetries \in Nat \ {0}

VARIABLES
  table,   \* table[i]: entry i, but for the packet it holds
  held,    \* held[i]: the packet entry i holds until its address is resolved
  carry,   \* carry[h]: the packet a worker, or the frame being received, owns
  free,    \* the packets of the pool's freelist
  job      \* job[w]: where worker w stands

vars == <<table, held, carry, free, job>>
-----------------------------------------------------------------------------
(* The table.  A definition right above another one and with the same       *)
(* parameters is that one with a plausible mistake in it; no behaviour of  *)
(* Spec uses it (the mutants of PROJECT.json do).                          *)

Entry(ip, mac, state, retries, left) ==
  [ip |-> ip, mac |-> mac, state |-> state, retries |-> retries, left |-> left, idle |-> 0]
Blank == Entry(AnyIp, ZeroMac, "Free", 0, 0)
PendingEntry(ip) == Entry(ip, ZeroMac, "Pending", 1, RetryTicks)
ResolvedButForMac(ip, mac) == Entry(ip, ZeroMac, "Resolved", 0, TtlTicks)
ResolvedEntry(ip, mac) == Entry(ip, mac, "Resolved", 0, TtlTicks)

FindLoosely(ip) == {i \in Slots : table[i].state = "Resolved" /\ table[i].ip = ip}
Find(ip) == {i \in Slots : table[i].state # "Free" /\ table[i].ip = ip}

FreeSlots == {i \in Slots : table[i].state = "Free"}
Oldest == {i \in Slots : \A j \in Slots : table[j].idle <= table[i].idle}
First(S) == {i \in S : \A j \in S : i <= j}     \* at most one element

(* alloc(): a free slot, or the least recently used one; of those used in  *)
(* the same timer period the first.                                        *)
AllocSlots == IF FreeSlots # {} THEN First(FreeSlots) ELSE First(Oldest)

(* An entry the timer drops: aged out, or out of retries. *)
Expired(e) ==
  e.left = 0 /\ (e.state = "Resolved" \/ (e.state = "Pending" /\ e.retries >= MaxRetries))
(* An entry the timer requests once more. *)
DueForever(e) == e.left = 0 /\ e.state = "Pending"
Due(e) == e.left = 0 /\ e.state = "Pending" /\ e.retries < MaxRetries
-----------------------------------------------------------------------------
(* The packet pool.  Which free buffer packet_alloc() takes is immaterial. *)

Some(S) == CHOOSE p \in S : TRUE
Only(p) == {p} \ {None}             \* what freeing p adds to the freelist
-----------------------------------------------------------------------------
(* Where a worker stands.  pc is the coroutine about to run:               *)
(*   resolve  resolve_and_send(), for the packet carried                   *)
(*   arp      arp's send(), which allocates a packet of its own            *)
(*   send     eth_send()                                                   *)
(*   tx       NetIf::tx(); the ethernet header is written                  *)
(*   scan     arp::tick(), from entry `slot' on                            *)
(*   learn, deliver, done   the stages of NetIf::rx()                      *)
(* `hop' is the next hop of an ip packet (or None), `dst' the entry        *)
(* eth_send() takes the address from (0: `mac' is the address), `then'     *)
(* where the worker goes on after its packet is sent, `late' whether now_ms *)
(* has moved since eth_send() was called.                                  *)

NoFrame == [kind |-> "none"]
Idle == [pc |-> "idle", hop |-> None, dst |-> 0, mac |-> ZeroMac, then |-> "idle",
         slot |-> 0, frame |-> NoFrame, late |-> FALSE]

Init ==
  /\ table = [i \in Slots |-> Blank]
  /\ held = [i \in Slots |-> None]
  /\ carry = [h \in Holders |-> None]
  /\ free = Packets
  /\ job = [w \in Workers |-> Idle]

(* While no address is leased the netmask is empty and every destination is *)
(* on our link, 255.255.255.255 among them; the dhcp client changes that at *)
(* any time.                                                               *)
NextHops(ip) == IF ip \in OnLink THEN {ip} ELSE {ip, Gateway}

Goto(w, pc) == job' = [job EXCEPT ![w].pc = pc]

(* The coroutine that sends has returned. *)
Returned(j) ==
  IF j.then = "idle" THEN Idle
  ELSE [j EXCEPT !.pc = j.then, !.hop = None, !.dst = 0, !.mac = ZeroMac]
Return(w) == job' = [job EXCEPT ![w] = Returned(@)]

(* ipv4::output() of a datagram the application has built in a packet.     *)
Output(w, ip) ==
  /\ job[w].pc = "idle" /\ free # {}
  /\ carry' = [carry EXCEPT ![w] = Some(free)]
  /\ free' = free \ {Some(free)}
  /\ \E hop \in NextHops(ip) :
       job' = [job EXCEPT ![w] = [Idle EXCEPT !.pc = "resolve", !.hop = hop]]
  /\ UNCHANGED <<table, held>>

(* ---- resolve_and_send() ---- *)

Resolving(w) == job[w].pc = "resolve"

ResolveBroadcast(w) ==
  /\ Resolving(w) /\ job[w].hop = AllOnesIp
  /\ job' = [job EXCEPT ![w].pc = "send", ![w].mac = BroadcastMac]
  /\ UNCHANGED <<table, held, carry, free>>

ResolveKnown(w) ==
  /\ Resolving(w) /\ job[w].hop # AllOnesIp
  /\ \E i \in Find(job[w].hop) :
    /\ table[i].state = "Resolved"
    /\ table' = [table EXCEPT ![i].idle = 0]
    /\ job' = [job EXCEPT ![w].pc = "send", ![w].dst = i]
    /\ UNCHANGED <<held, carry, free>>

(* Already requested: the entry holds the newest packet only. *)
ResolvePending(w) ==
  /\ Resolving(w) /\ job[w].hop # AllOnesIp
  /\ \E i \in Find(job[w].hop) :
    /\ table[i].state = "Pending"
    /\ table' = [table EXCEPT ![i].idle = 0]
    /\ held' = [held EXCEPT ![i] = carry[w]]
    /\ carry' = [carry EXCEPT ![w] = None]
    /\ free' = free \cup Only(held[i])
    /\ Return(w)

ResolveNew(w) ==
  /\ Resolving(w) /\ job[w].hop # AllOnesIp /\ Find(job[w].hop) = {}
  /\ \E i \in AllocSlots :
    /\ table' = [table EXCEPT ![i] = PendingEntry(job[w].hop)]
    /\ held' = [held EXCEPT ![i] = carry[w]]
    /\ carry' = [carry EXCEPT ![w] = None]
    /\ free' = free \cup Only(held[i])
    /\ job' = [job EXCEPT ![w].pc = "arp", ![w].hop = None, ![w].mac = BroadcastMac]

(* ---- sending ---- *)

(* arp's send(): a request or a reply, if there is a packet to build it in. *)
ArpSend(w) ==
  /\ job[w].pc = "arp"
  /\ \/ /\ free # {}
        /\ carry' = [carry EXCEPT ![w] = Some(free)]
        /\ free' = free \ {Some(free)}
        /\ Goto(w, "send")
     \/ free = {} /\ Return(w) /\ UNCHANGED <<carry, free>>
  /\ UNCHANGED <<table, held>>

EthSend(w) ==
  /\ job[w].pc = "send"
  /\ job' = [job EXCEPT ![w].pc = "tx", ![w].late = FALSE,
                        ![w].mac = IF job[w].dst = 0 THEN @ ELSE table[job[w].dst].mac]
  /\ UNCHANGED <<table, held, carry, free>>

(* The driver is through with the packet, or the link is down: either way  *)
(* the packet is freed as its last owner returns.                          *)
TxKeeping(w) ==
  /\ job[w].pc = "tx"
  /\ carry' = [carry EXCEPT ![w] = None]
  /\ Return(w)
  /\ UNCHANGED <<table, held, free>>
Tx(w) ==
  /\ job[w].pc = "tx"
  /\ carry' = [carry EXCEPT ![w] = None]
  /\ free' = free \cup Only(carry[w])
  /\ Return(w)
  /\ UNCHANGED <<table, held>>

(* ---- NetIf::rx() ---- *)

(* The driver has put a frame into a packet of the pool. *)
Receive(f) ==
  /\ job["rx"].pc = "idle" /\ free # {}
  /\ carry' = [carry EXCEPT !["frame"] = Some(free)]
  /\ free' = free \ {Some(free)}
  /\ job' = [job EXCEPT !["rx"] = [Idle EXCEPT !.pc = "learn", !.then = "deliver", !.frame = f]]
  /\ UNCHANGED <<table, held>>

Frame == job["rx"].frame

(* An ip source of 0.0.0.0 carries no mapping; an arp sender is learned    *)
(* whatever it is.                                                         *)
LearnNothing ==
  /\ job["rx"].pc = "learn" /\ Frame.kind = "ip" /\ Frame.ip = AnyIp
  /\ Return("rx")
  /\ UNCHANGED <<table, held, carry, free>>

(* cache(): refresh or create the entry; a packet held by it goes out.     *)
LearnKnown ==
  /\ job["rx"].pc = "learn" /\ ~(Frame.kind = "ip" /\ Frame.ip = AnyIp)
  /\ \E i \in Find(Frame.ip) :
    /\ table' = [table EXCEPT ![i] = ResolvedEntry(Frame.ip, Frame.mac)]
    /\ IF held[i] = None THEN Return("rx") /\ UNCHANGED <<held, carry>>
       ELSE /\ carry' = [carry EXCEPT !["rx"] = held[i]]
            /\ held' = [held EXCEPT ![i] = None]
            /\ job' = [job EXCEPT !["rx"].pc = "send", !["rx"].hop = Frame.ip,
                                  !["rx"].dst = i]
    /\ UNCHANGED free

LearnNew ==
  /\ job["rx"].pc = "learn" /\ ~(Frame.kind = "ip" /\ Frame.ip = AnyIp)
  /\ Find(Frame.ip) = {}
  /\ \E i \in AllocSlots :
    /\ table' = [table EXCEPT ![i] = ResolvedEntry(Frame.ip, Frame.mac)]
    /\ held' = [held EXCEPT ![i] = None]
    /\ free' = free \cup Only(held[i])
    /\ Return("rx") /\ UNCHANGED carry

(* An arp request for our address is answered, to the address in the frame. *)
DeliverRequest ==
  /\ job["rx"].pc = "deliver" /\ Frame.kind = "request" /\ Frame.to_us
  /\ job' = [job EXCEPT !["rx"].pc = "arp", !["rx"].mac = Frame.mac, !["rx"].then = "done"]
  /\ UNCHANGED <<table, held, carry, free>>

Answer ==
  \E hop \in NextHops(Frame.ip) :
    job' = [job EXCEPT !["rx"].pc = "resolve", !["rx"].hop = hop, !["rx"].then = "done"]

(* An ip packet is answered from within input(): an echo request in the    *)
(* packet that brought it,                                                 *)
DeliverReflected ==
  /\ job["rx"].pc = "deliver" /\ Frame.kind = "ip" /\ Frame.to_us
  /\ carry' = [carry EXCEPT !["rx"] = carry["frame"], !["frame"] = None]
  /\ Answer
  /\ UNCHANGED <<table, held, free>>

(* a tcp segment in a new one, while input() still has the packet ...      *)
DeliverAnswered ==
  /\ job["rx"].pc = "deliver" /\ Frame.kind = "ip" /\ Frame.to_us /\ free # {}
  /\ carry' = [carry EXCEPT !["rx"] = Some(free)]
  /\ free' = free \ {Some(free)}
  /\ Answer
  /\ UNCHANGED <<table, held>>

(* ... or it is not answered. *)
DeliverSilently ==
  /\ job["rx"].pc = "deliver" /\ ~(Frame.kind = "request" /\ Frame.to_us)
  /\ Goto("rx", "done")
  /\ UNCHANGED <<table, held, carry, free>>

RxDone ==
  /\ job["rx"].pc = "done"
  /\ carry' = [carry EXCEPT !["frame"] = None]
  /\ free' = free \cup Only(carry["frame"])
  /\ job' = [job EXCEPT !["rx"] = Idle]
  /\ UNCHANGED <<table, held>>

(* ---- Stack::timer_task() ---- *)

(* Stack::tick() moves now_ms on by a period; arp::tick() runs later.  The *)
(* runner gets round to a call of eth_send() within a period, so now_ms    *)
(* moves at most once between the call and its start.                      *)
Aged(e) == [e EXCEPT !.left = IF @ = 0 THEN 0 ELSE @ - 1,
                     !.idle = IF e.state = "Free" THEN 0 ELSE @ + 1]
Tick ==
  /\ job["timer"].pc = "idle" /\ \A w \in Workers : ~job[w].late
  /\ table' = [i \in Slots |-> Aged(table[i])]
  /\ job' = [w \in Workers |->
       IF w = "timer" THEN [Idle EXCEPT !.pc = "scan", !.then = "scan", !.slot = 1]
       ELSE [job[w] EXCEPT !.late = job[w].pc = "send"]]
  /\ UNCHANGED <<held, carry, free>>

(* Entries from `slot' to before i are checked; the expired are cleared and *)
(* drop the packets they hold.                                              *)
Dropped(i) == {k \in job["timer"].slot..(i - 1) : Expired(table[k])}
DueSlots == {k \in job["timer"].slot..TableSize : Due(table[k])}

DropMappingOnly(S) == UNCHANGED <<held, free>>
Drop(S) ==
  /\ held' = [k \in Slots |-> IF k \in S THEN None ELSE held[k]]
  /\ free' = free \cup ({held[k] : k \in S} \ {None})

ScanRequest ==
  /\ job["timer"].pc = "scan"
  /\ \E i \in First(DueSlots) :
    /\ table' = [k \in Slots |->
         IF k \in Dropped(i) THEN Blank
         ELSE IF k = i THEN [table[k] EXCEPT !.retries = @ + 1, !.left = RetryTicks]
         ELSE table[k]]
    /\ Drop(Dropped(i))
    /\ job' = [job EXCEPT !["timer"].pc = "arp", !["timer"].mac = BroadcastMac,
                          !["timer"].slot = i + 1]
    /\ UNCHANGED carry

ScanEnd ==
  LET S == Dropped(TableSize + 1)
  IN /\ job["timer"].pc = "scan" /\ DueSlots = {}
     /\ table' = [k \in Slots |-> IF k \in S THEN Blank ELSE table[k]]
     /\ Drop(S)
     /\ job' = [job EXCEPT !["timer"] = Idle]
     /\ UNCHANGED carry
-----------------------------------------------------------------------------
Send(w) ==
  \/ ResolveBroadcast(w) \/ ResolveKnown(w) \/ ResolvePending(w) \/ ResolveNew(w)
  \/ ArpSend(w) \/ EthSend(w) \/ Tx(w)

RxStep ==
  \/ LearnNothing \/ LearnKnown \/ LearnNew
  \/ DeliverRequest \/ DeliverReflected \/ DeliverAnswered \/ DeliverSilently
  \/ RxDone \/ Send("rx")
TimerStep == Tick \/ ScanRequest \/ ScanEnd \/ Send("timer")

Next ==
  \/ \E w \in Senders : Send(w) \/ \E ip \in Dests : Output(w, ip)
  \/ \E f \in Frames : Receive(f)
  \/ RxStep \/ TimerStep

Spec == Init /\ [][Next]_vars

(* Every worker goes on; nothing is assumed of the application or of the    *)
(* network.                                                                 *)
FairSpec ==
  /\ Spec
  /\ WF_vars(RxStep) /\ WF_vars(TimerStep)
  /\ \A w \in Senders : WF_vars(Send(w))
-----------------------------------------------------------------------------
(* Properties. *)

Entries == [ip : Ips, mac : Macs, state : {"Free", "Pending", "Resolved"},
            retries : 0..MaxRetries, left : Nat, idle : Nat]
Pcs == {"idle", "resolve", "arp", "send", "tx", "scan", "learn", "deliver", "done"}
Jobs == [pc : Pcs, hop : Ips \cup {None}, dst : Slots \cup {0}, mac : Macs,
         then : {"idle", "scan", "deliver", "done"}, slot : Nat,
         frame : Frames \cup {NoFrame}, late : BOOLEAN]

(* Every variable has its type. *)
TypeOK ==
  /\ table \in [Slots -> Entries]
  /\ held \in [Slots -> Packets \cup {None}]
  /\ carry \in [Holders -> Packets \cup {None}]
  /\ free \subseteq Packets
  /\ job \in [Workers -> Jobs]

(* A buffer of the pool is free or has exactly one owner, an entry or a    *)
(* task, through every hand-over, eviction, refusal and time-out (the      *)
(* moves of AutoPacket): none is leaked, none is used or freed twice.      *)
NoneShared ==
  /\ \A i, j \in Slots : i # j /\ held[i] # None => held[i] # held[j]
  /\ \A g, h \in Holders : g # h /\ carry[g] # None => carry[g] # carry[h]
  /\ \A i \in Slots, h \in Holders : held[i] # None => held[i] # carry[h]
  /\ \A i \in Slots : held[i] \notin free
  /\ \A h \in Holders : carry[h] \notin free
NoneLeaked ==
  \A p \in Packets : \/ p \in free
                     \/ \E i \in Slots : held[i] = p
                     \/ \E h \in Holders : carry[h] = p
PoolConserved == NoneShared /\ NoneLeaked

(* find() never has two entries to choose from: the checks of              *)
(* resolve_and_send() and cache() and the entries they make are not        *)
(* separated by a co_await.                                                *)
OneEntryPerIp ==
  \A i, j \in Slots :
    table[i].state # "Free" /\ table[j].state # "Free" /\ table[i].ip = table[j].ip => i = j

(* A packet is held only while its address is being asked for, by an entry *)
(* whose retries the timer still counts: none is held for good.            *)
HeldOnlyWhilePending ==
  \A i \in Slots : held[i] # None =>
    /\ table[i].state = "Pending" /\ table[i].retries \in 1..MaxRetries
    /\ table[i].left <= RetryTicks

(* The address of a resolved entry is one that a frame has claimed for it. *)
Claimed(ip, mac) == \E f \in Frames : f.ip = ip /\ f.mac = mac
MappingsClaimed ==
  \A i \in Slots : table[i].state = "Resolved" => Claimed(table[i].ip, table[i].mac)

(* Entries that hold every packet of the pool do not do so for good,       *)
(* although requests then fail for want of a packet and replies cannot be  *)
(* received.                                                               *)
PoolRecovers == (free = {}) ~> (free # {})

(* "resolve next_hop and send the ipv4 packet" (arp.hpp): what leaves for  *)
(* a next hop carries an address some frame has claimed for that next hop. *)
SentWhereClaimed ==
  \A w \in Workers :
    job[w].pc = "tx" /\ job[w].hop \notin {None, AllOnesIp} => Claimed(job[w].hop, job[w].mac)
=============================================================================
