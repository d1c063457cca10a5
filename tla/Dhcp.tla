-------------------------------- MODULE Dhcp ---------------------------------
(***************************************************************************)
(* The dhcp client (dhcp.cpp) on its udp socket (udp.cpp), with the ipv4   *)
(* input that decides what reaches it and the servers at the other end.    *)
(*                                                                         *)
(* A step of the client goes from one wait to the next; the rounds a send  *)
(* takes in the stack are part of the step before the wait, for nobody     *)
(* else changes what it reads.  Between its steps the driver's task may    *)
(* hand over a reply.  One tick of time is one reply time-out.             *)
(***************************************************************************)
EXTENDS Integers, FiniteSets

CONSTANTS
  Servers,     \* server identities: the address each leases out is its own number
  Lengths,     \* the times servers grant leases for, in ticks
  DefaultLease,   \* default_lease_s, in ticks
  MaxTries,    \* max_tries
  Xids,        \* transaction identifiers: a clock reading, told apart from those in flight
  MaxNet       \* bound: messages in flight
\* A lease of any length outlasts the wait for the renewal of one of any other, or of one whose length
\* the client was not told, and two exchanges.
DhcpSizes ==
  /\ Servers \subseteq Nat \ {0} /\ Lengths \subseteq Nat /\ MaxTries \in Nat /\ DefaultLease \in Nat
  /\ \A k \in Lengths, l \in Lengths \cup {DefaultLease} : k > l \div 2 + 2 * MaxTries

\* What a reply may say of the length: 0 stands for no such option, too.
Told == Lengths \cup {0}

VARIABLES
  stack,      \* the stack: its address, and whether the link is up
  client,     \* the Client: state, xid, lease
  task,       \* where its task is: running, waiting or asleep, and the attempt it is at
  reply,      \* what the rx hook left: notified, message type, lease
  net,        \* messages in flight
  granted     \* the time left of the lease each server thinks we have

dhcpVars == <<stack, client, task, reply, net, granted>>

AnyAddr   == 0                                     \* 0.0.0.0
Broadcast == -1                                    \* 255.255.255.255
NoLease   == [addr |-> AnyAddr, server |-> 0, length |-> 0]
NoReply   == [notified |-> FALSE, type |-> "none", lease |-> NoLease]
Suspended == task.pc \in {"wait", "sleep"}

ToServer(s, type, x, addr) == [to |-> "server", server |-> s, type |-> type, xid |-> x, addr |-> addr]
ToClient(type, x, lease, dst) == [to |-> "client", type |-> type, xid |-> x, lease |-> lease, dst |-> dst]

(***************************************************************************)
(* Sending                                                                 *)
(***************************************************************************)
\* A send fails, with nothing waited for, when the interface is down (or no packet is free, which
\* is taken as the same).
SendFails == ~stack.up

\* send_message(): broadcast to every server, but a renewal goes to the leasing one; a request
\* names the server of the offer, which the others ignore.
Messages(type) ==
  {ToServer(s, type, client.xid, client.lease.addr) :
     s \in IF type = "discover" THEN Servers ELSE {client.lease.server}}

FreshXids == Xids \ ({client.xid} \cup {m.xid : m \in net})

\* Start over: unconfigure the stack and look for an offer, under a new transaction id.
Rediscover ==
  /\ stack' = [stack EXCEPT !.addr = AnyAddr]
  /\ \E x \in FreshXids : client' = [client EXCEPT !.state = "Selecting", !.xid = x]
  /\ task' = [pc |-> "send", tries |-> MaxTries, timer |-> 0]

\* The task starts when its socket has been bound.
Start == task.pc = "start" /\ Rediscover /\ UNCHANGED <<reply, net, granted>>

Type == IF client.state = "Selecting" THEN "discover" ELSE "request"

(***************************************************************************)
(* transact()                                                              *)
(***************************************************************************)
\* The time a lease is taken to last.
Lasts(length) == IF length # 0 THEN length ELSE DefaultLease

\* faulty: the lease is slept through before it is renewed
RenewWhole(length) == Lasts(length)

\* The lease is renewed at half its time.
RenewAt(length) == Lasts(length) \div 2

Sleep(length) == task' = [pc |-> "sleep", tries |-> 0, timer |-> RenewAt(length)]

\* An exchange that failed, in whatever state, starts the client over.
GiveUp == Rediscover

\* One attempt: forget stale replies, send, and wait for the event; no reply in any attempt, or a
\* send that fails, and the exchange is over.
Attempt ==
  /\ task.pc = "send"
  /\ reply' = [reply EXCEPT !.notified = FALSE, !.type = "none"]
  /\ IF task.tries = 0 \/ SendFails THEN GiveUp /\ UNCHANGED net
     ELSE /\ task' = [pc |-> "wait", tries |-> task.tries - 1, timer |-> 1]
          /\ net' = net \cup Messages(Type)
          /\ UNCHANGED <<stack, client>>
  /\ UNCHANGED granted

TimesOut ==
  /\ task.pc = "wait" /\ task.timer = 0 /\ ~reply.notified
  /\ task' = [task EXCEPT !.pc = "send"]
  /\ UNCHANGED <<stack, client, reply, net, granted>>

\* The reply event wakes the task.
Offered ==
  /\ client' = [client EXCEPT !.lease = reply.lease, !.state = "Requesting"]
  /\ task' = [pc |-> "send", tries |-> MaxTries, timer |-> 0]
  /\ UNCHANGED stack

Configured ==
  /\ client' = [client EXCEPT !.lease = reply.lease, !.state = "Bound"]
  /\ stack' = [stack EXCEPT !.addr = reply.lease.addr]
  /\ Sleep(reply.lease.length)

\* Only the time of the lease is taken from a renewal.
Renewed ==
  /\ client' = [client EXCEPT !.lease.length = reply.lease.length, !.state = "Bound"]
  /\ Sleep(reply.lease.length)
  /\ UNCHANGED stack

Wakes ==
  /\ task.pc = "wait" /\ reply.notified
  /\ reply' = [reply EXCEPT !.notified = FALSE]
  /\ CASE client.state = "Selecting"                            -> Offered
       [] client.state = "Requesting" /\ reply.type = "ack"     -> Configured
       [] client.state = "Renewing" /\ reply.type = "ack"       -> Renewed
       [] OTHER                                                 -> GiveUp
  /\ UNCHANGED <<net, granted>>

\* At t1: a renewal, under a new transaction id.
Renew ==
  /\ task.pc = "sleep" /\ task.timer = 0
  /\ \E x \in FreshXids : client' = [client EXCEPT !.state = "Renewing", !.xid = x]
  /\ task' = [pc |-> "send", tries |-> MaxTries, timer |-> 0]
  /\ UNCHANGED <<stack, reply, net, granted>>

(***************************************************************************)
(* Receiving                                                               *)
(***************************************************************************)
\* ipv4::input(): for us, for everybody, or anything while we have no address.
IpAccepts(m) == stack.up /\ (m.dst \in {Broadcast, stack.addr} \/ stack.addr = AnyAddr)

\* on_socket_rx(): the reply must be of the current transaction and advance the current state.
Advances(m) ==
  /\ m.xid = client.xid
  /\ \/ client.state = "Selecting" /\ m.type = "offer" /\ m.lease.server # 0
     \/ client.state \in {"Requesting", "Renewing"} /\ m.type \in {"ack", "nak"}

\* udp::input() hands a datagram for the client's port to its hook, which keeps the reply and
\* notifies the task.
Receive ==
  /\ task.pc # "start"
  /\ \E m \in net :
       /\ m.to = "client" /\ net' = net \ {m}
       /\ reply' = IF IpAccepts(m) /\ Advances(m)
                   THEN [notified |-> TRUE, type |-> m.type, lease |-> m.lease] ELSE reply
  /\ UNCHANGED <<stack, client, task, granted>>

(***************************************************************************)
(* The servers, the network and time (external)                            *)
(***************************************************************************)
Answer(m, type, length, dst) ==
  net' = (net \ {m}) \cup
         {ToClient(type, m.xid, [addr |-> m.server, server |-> m.server, length |-> length], dst)}

ServerOffers ==
  /\ \E m \in net, l \in Told :
       m.to = "server" /\ m.type = "discover" /\ Answer(m, "offer", l, Broadcast)
  /\ UNCHANGED <<stack, client, task, reply, granted>>

\* An acknowledgement grants the lease from now on, and may leave out for how long.
ServerAnswers ==
  /\ \E m \in net, k \in Lengths, l \in Told, dst \in {Broadcast, client.lease.server} :
       /\ m.to = "server" /\ m.type = "request" /\ l \in {k, 0}
       /\ \/ Answer(m, "ack", l, dst) /\ granted' = [granted EXCEPT ![m.server] = k]
          \/ Answer(m, "nak", 0, dst) /\ UNCHANGED granted
  /\ UNCHANGED <<stack, client, task, reply>>

Lose == \E m \in net : net' = net \ {m} /\ UNCHANGED <<stack, client, task, reply, granted>>

\* The link comes and goes.
Weather ==
  /\ stack' = [stack EXCEPT !.up = ~@]
  /\ UNCHANGED <<client, task, reply, net, granted>>

\* Timers fire on time, and the client reaches its next wait well within a tick, unless its sends
\* fail: then it starts over for as long as they do.
Tick ==
  /\ \/ Suspended /\ task.timer > 0 /\ ~reply.notified
     \/ task.pc = "send" /\ client.state = "Selecting" /\ SendFails
  /\ task' = [task EXCEPT !.timer = IF @ > 0 THEN @ - 1 ELSE 0]
  /\ granted' = [s \in Servers |-> IF granted[s] > 0 THEN granted[s] - 1 ELSE 0]
  /\ UNCHANGED <<stack, client, reply, net>>

DhcpInit ==
  /\ stack = [addr |-> AnyAddr, up |-> TRUE]
  /\ client = [state |-> "Idle", xid |-> 0, lease |-> NoLease]
  /\ task = [pc |-> "start", tries |-> 0, timer |-> 0]
  /\ reply = NoReply /\ net = {} /\ granted = [s \in Servers |-> 0]

Run  == Start \/ Attempt \/ TimesOut \/ Wakes \/ Renew
DhcpNext ==
  \/ Start \/ Attempt \/ TimesOut \/ Wakes \/ Renew
  \/ Receive \/ ServerOffers \/ ServerAnswers \/ Lose \/ Weather \/ Tick

DhcpSpec == DhcpInit /\ [][DhcpNext]_dhcpVars

\* The runner resumes the task when it is due, and time passes.
FairSpec == DhcpSpec /\ WF_dhcpVars(Run) /\ WF_dhcpVars(Tick)

NetBounded == Cardinality(net) <= MaxNet

\* The stack never uses an address the server thinks is free again: acknowledgements that come
\* late or do not say for how long, renewals refused, lost or answered at the last attempt, and a
\* link that goes down all end with the address dropped in time, given leases that outlast the sleep
\* and two exchanges.
AddressStillLeased == stack.addr # AnyAddr => granted[stack.addr] > 0

\* The client comes to rest again and again, so that the runner may idle: "per-attempt reply wait"
\* (reply_timeout_ms), however the attempts end.
AttemptsWait == []<>Suspended
=============================================================================
