----------------------------- MODULE LinkProofs ------------------------------
(***************************************************************************)
(* The connection: the address the stack has, and the link it has it on.   *)
(* The stack never uses an address its server thinks is free again, for    *)
(* any servers, lease times and number of attempts, as long as a lease     *)
(* outlasts the wait for its renewal and two exchanges.  A link that is up *)
(* is supervised, its port opens after its keys are in, and interfaces are *)
(* given back, for any number of interfaces, tasks and attempts.           *)
(***************************************************************************)
EXTENDS Dhcp, Link, SequenceTheorems, WellFoundedInduction, TLAPS

(***************************************************************************)
(* Types.                                                                  *)
(***************************************************************************)
Stacks   == [addr : Int, up : BOOLEAN]
Leases   == [addr : Int, server : Int, length : Int]
States   == {"Idle", "Selecting", "Requesting", "Bound", "Renewing"}
Clients  == [state : States, xid : Xids \cup {0}, lease : Leases]
Tasks    == [pc : {"start", "send", "wait", "sleep"}, tries : 0 .. MaxTries, timer : Nat]
Replies  == [notified : BOOLEAN, type : {"none", "offer", "ack", "nak"}, lease : Leases]
Queries  == [to : {"server"}, server : Servers, type : {"discover", "request"}, xid : Xids \cup {0}, addr : Int]
Answers  == [to : {"client"}, type : {"offer", "ack", "nak"}, xid : Xids \cup {0}, lease : Leases, dst : Int]

TypeOK ==
  /\ stack \in Stacks /\ client \in Clients /\ task \in Tasks /\ reply \in Replies
  /\ net \subseteq Queries \cup Answers /\ granted \in [Servers -> Nat]

(***************************************************************************)
(* The inductive invariant.                                                *)
(***************************************************************************)
Exchanging == client.state \in {"Requesting", "Renewing"}
Holding    == client.state \in {"Bound", "Renewing"}
Server     == client.lease.server

\* The ticks left to the exchange in progress.
Remaining == task.tries + IF task.pc = "wait" THEN task.timer ELSE 0

\* A lease of this server, as it names itself.
Own(lease) == lease.server \in Servers /\ lease.addr = lease.server

\* A server that acknowledged in this exchange granted the lease no longer ago than it has lasted.
JustGranted == \E k \in Lengths : granted[Server] + MaxTries >= k + Remaining

\* The task is where the state of the client has it.
Placed ==
  /\ task.pc = "start" <=> client.state = "Idle"
  /\ task.pc = "sleep" <=> client.state = "Bound"
  /\ Remaining <= MaxTries
  /\ Exchanging \/ Holding => Own(client.lease)
  /\ Holding => stack.addr = Server /\ client.lease.length \in Told
  /\ ~Holding => stack.addr = AnyAddr

\* What is in flight of the current transaction.
Current(m) ==
  m.xid = client.xid =>
    /\ client.state = "Selecting" => m.type \in {"discover", "offer"}
    /\ Exchanging =>
         /\ m.to = "server" /\ m.type = "request" => m.server = Server
         /\ m.to = "client" /\ m.type = "ack" => m.lease.server = Server /\ JustGranted
    /\ m.to = "client" => Own(m.lease) /\ (m.type = "ack" => m.lease.length \in Told)

\* The reply the task is about to take.
Answered ==
  task.pc = "wait" /\ reply.notified =>
    /\ client.state = "Selecting" => reply.type = "offer" /\ Own(reply.lease)
    /\ Exchanging /\ reply.type = "ack" =>
         Own(reply.lease) /\ reply.lease.length \in Told /\ reply.lease.server = Server /\ JustGranted

\* The lease outlasts the sleep and the renewal.
Lasting ==
  /\ client.state = "Bound" =>
       task.timer <= RenewAt(client.lease.length) /\ granted[Server] > task.timer + MaxTries
  /\ client.state = "Renewing" => granted[Server] > Remaining

Leased == TypeOK /\ Placed /\ (\A m \in net : Current(m)) /\ Answered /\ Lasting
-----------------------------------------------------------------------------
(***************************************************************************)
(* The client's steps.                                                     *)
(***************************************************************************)
LEMMA LeasedInit ==
  ASSUME DhcpSizes, DhcpInit
  PROVE  Leased
<1>1. stack \in Stacks /\ client \in Clients /\ task \in Tasks /\ reply \in Replies
  BY DEF DhcpSizes, DhcpInit, Stacks, Clients, Tasks, Replies, States, Leases, NoReply, NoLease, AnyAddr
<1>2. net = {} /\ granted \in [Servers -> Nat]
  BY DEF DhcpInit
<1>3. client.state = "Idle" /\ task.pc = "start" /\ stack.addr = AnyAddr /\ Remaining <= MaxTries
  BY DEF DhcpInit, DhcpSizes, Remaining
<1> QED
  BY <1>1, <1>2, <1>3 DEF Leased, TypeOK, Placed, Answered, Lasting, Exchanging, Holding

LEMMA Quantities ==
  ASSUME DhcpSizes, Leased
  PROVE  /\ MaxTries \in Nat /\ task.tries \in 0 .. MaxTries /\ task.timer \in Nat
         /\ Remaining \in Nat /\ Remaining <= MaxTries
         /\ \A s \in Servers : s \in Nat /\ s # 0 /\ granted[s] \in Nat
         /\ \A k \in Lengths : k \in Nat
<1>1. task.tries \in 0 .. MaxTries /\ task.timer \in Nat /\ MaxTries \in Nat
  BY DEF DhcpSizes, Leased, TypeOK, Tasks
<1>2. Remaining \in Nat
  BY <1>1 DEF Remaining
<1>3. \A s \in Servers : s \in Nat /\ s # 0 /\ granted[s] \in Nat
  BY DEF DhcpSizes, Leased, TypeOK
<1> QED
  BY <1>1, <1>2, <1>3 DEF Leased, Placed, DhcpSizes

\* To start over gives the address up, and nothing in flight is of the new transaction.
LEMMA RediscoverKeeps ==
  ASSUME DhcpSizes, Leased, Rediscover, UNCHANGED <<net, granted>>, reply' \in Replies
  PROVE  Leased'
<1>1. PICK x \in FreshXids : client' = [client EXCEPT !.state = "Selecting", !.xid = x]
  BY DEF Rediscover
<1>2. x \in Xids /\ \A m \in net : m.xid # x
  BY DEF FreshXids
<1>3. stack \in Stacks /\ client \in Clients
  BY DEF Leased, TypeOK
<1>4. client' \in Clients /\ client'.state = "Selecting" /\ client'.xid = x
  BY <1>1, <1>2, <1>3 DEF Clients, States
<1>5. stack' \in Stacks /\ stack'.addr = AnyAddr
  BY <1>3 DEF Rediscover, Stacks, AnyAddr
<1>6. task' = [pc |-> "send", tries |-> MaxTries, timer |-> 0]
  BY DEF Rediscover
<1>7. task' \in Tasks /\ task'.pc = "send" /\ task'.tries = MaxTries
  BY <1>6 DEF Tasks, DhcpSizes
<1>8. TypeOK'
  BY <1>4, <1>5, <1>7 DEF Leased, TypeOK
<1>9. Placed'
  <2>1. Remaining' = MaxTries
    BY <1>7, Quantities DEF Remaining
  <2> QED
    BY <1>4, <1>5, <1>7, <2>1, Quantities DEF Placed, Exchanging, Holding
<1>10. (\A m \in net : Current(m))'
  BY <1>2, <1>4 DEF Current
<1>11. Answered' /\ Lasting'
  BY <1>4, <1>7 DEF Answered, Lasting
<1> QED
  BY <1>8, <1>9, <1>10, <1>11 DEF Leased

LEMMA MessagesAre ==
  ASSUME DhcpSizes, Leased, task.pc = "send", NEW m \in Messages(Type)
  PROVE  /\ m \in Queries /\ m.to = "server" /\ m.xid = client.xid
         /\ client.state = "Selecting" => m.type = "discover"
         /\ Exchanging => m.type = "request" /\ m.server = Server
<1>1. client \in Clients /\ client.lease \in Leases /\ client.lease.addr \in Int
  BY DEF Leased, TypeOK, Clients, Leases
<1>2. client.state \in {"Selecting", "Requesting", "Renewing"}
  BY <1>1 DEF Leased, Placed, Clients, States
<1>3. PICK s \in (IF Type = "discover" THEN Servers ELSE {client.lease.server}) :
        m = ToServer(s, Type, client.xid, client.lease.addr)
  BY DEF Messages
<1>4. Type = "discover" <=> client.state = "Selecting"
  BY DEF Type
<1>5. Type \in {"discover", "request"}
  BY DEF Type
<1>6. s \in Servers
  BY <1>2, <1>3, <1>4 DEF Leased, Placed, Exchanging, Own
<1>7. m.to = "server" /\ m.xid = client.xid /\ m.type = Type /\ m.server = s
  BY <1>3 DEF ToServer
<1>8. m \in Queries
  BY <1>1, <1>3, <1>5, <1>6 DEF ToServer, Queries, Clients
<1> QED
  BY <1>2, <1>3, <1>4, <1>5, <1>7, <1>8 DEF Exchanging, Server

LEMMA AttemptKeeps ==
  ASSUME DhcpSizes, Leased, Attempt
  PROVE  Leased'
<1>1. reply' \in Replies /\ ~reply'.notified
  BY DEF Leased, TypeOK, Replies, Attempt
<1>2. CASE GiveUp /\ UNCHANGED net
  BY <1>1, <1>2, RediscoverKeeps DEF GiveUp, Attempt
<1>3. CASE /\ task.tries # 0 /\ net' = net \cup Messages(Type)
           /\ task' = [pc |-> "wait", tries |-> task.tries - 1, timer |-> 1]
           /\ UNCHANGED <<stack, client>>
  <2>1. task.pc = "send" /\ granted' = granted
    BY DEF Attempt
  <2>2. task.tries \in 0 .. MaxTries /\ MaxTries \in Nat
    BY Quantities
  <2>3. task' \in Tasks /\ task'.pc = "wait" /\ task'.tries = task.tries - 1 /\ task'.timer = 1
    BY <1>3, <2>2 DEF Tasks
  <2>4. Remaining' = Remaining
    BY <2>1, <2>2, <2>3 DEF Remaining
  <2>5. TypeOK'
    BY <1>1, <1>3, <2>1, <2>3, MessagesAre DEF Leased, TypeOK
  <2>6. Placed'
    BY <1>3, <2>1, <2>3, <2>4 DEF Leased, Placed, Exchanging, Holding, Server
  <2>7. ASSUME NEW m \in net' PROVE Current(m)'
    <3>1. CASE m \in net
      BY <1>3, <2>1, <2>4, <3>1 DEF Leased, Current, Exchanging, Server, JustGranted
    <3>2. CASE m \in Messages(Type)
      BY <1>3, <2>1, <3>2, MessagesAre DEF Current, Exchanging, Server
    <3> QED
      BY <1>3, <3>1, <3>2
  <2>8. Answered'
    BY <1>1 DEF Answered
  <2>9. Lasting'
    BY <1>3, <2>1, <2>4 DEF Leased, Placed, Lasting, Server
  <2> QED
    BY <2>5, <2>6, <2>7, <2>8, <2>9 DEF Leased
<1> QED
  BY <1>2, <1>3 DEF Attempt

LEMMA TimesOutKeeps ==
  ASSUME DhcpSizes, Leased, TimesOut
  PROVE  Leased'
<1>1. /\ task.pc = "wait" /\ task.timer = 0 /\ task' = [task EXCEPT !.pc = "send"]
      /\ UNCHANGED <<stack, client, reply, net, granted>>
  BY DEF TimesOut
<1>2. task' \in Tasks /\ task'.pc = "send" /\ task'.tries = task.tries
  BY <1>1 DEF Leased, TypeOK, Tasks
<1>3. Remaining' = Remaining
  BY <1>1, <1>2, Quantities DEF Remaining
<1>4. TypeOK'
  BY <1>1, <1>2 DEF Leased, TypeOK
<1>5. Placed'
  BY <1>1, <1>2, <1>3 DEF Leased, Placed, Exchanging, Holding, Server
<1>6. (\A m \in net : Current(m))'
  BY <1>1, <1>3 DEF Leased, Current, Exchanging, Server, JustGranted
<1>7. Answered'
  BY <1>2 DEF Answered
<1>8. Lasting'
  BY <1>1, <1>2, <1>3 DEF Leased, Placed, Lasting, Server
<1> QED
  BY <1>4, <1>5, <1>6, <1>7, <1>8 DEF Leased

LEMMA RenewKeeps ==
  ASSUME DhcpSizes, Leased, Renew
  PROVE  Leased'
<1>1. /\ task.pc = "sleep" /\ task.timer = 0 /\ task' = [pc |-> "send", tries |-> MaxTries, timer |-> 0]
      /\ UNCHANGED <<stack, reply, net, granted>>
  BY DEF Renew
<1>2. PICK x \in FreshXids : client' = [client EXCEPT !.state = "Renewing", !.xid = x]
  BY DEF Renew
<1>3. x \in Xids /\ \A m \in net : m.xid # x
  BY DEF FreshXids
<1>4. client \in Clients /\ client.state = "Bound"
  BY <1>1 DEF Leased, TypeOK, Placed
<1>5. client' \in Clients /\ client'.state = "Renewing" /\ client'.xid = x /\ client'.lease = client.lease
  BY <1>2, <1>3, <1>4 DEF Clients, States
<1>6. task' \in Tasks /\ task'.pc = "send" /\ task'.tries = MaxTries
  BY <1>1 DEF Tasks, DhcpSizes
<1>7. Remaining' = MaxTries
  BY <1>6, Quantities DEF Remaining
<1>8. TypeOK'
  BY <1>1, <1>5, <1>6 DEF Leased, TypeOK
<1>9. Placed'
  BY <1>1, <1>4, <1>5, <1>6, <1>7, Quantities DEF Leased, Placed, Exchanging, Holding, Server
<1>10. (\A m \in net : Current(m))'
  BY <1>1, <1>3, <1>5 DEF Current
<1>11. Answered'
  BY <1>6 DEF Answered
<1>12. Lasting'
  BY <1>1, <1>4, <1>5, <1>7, Quantities DEF Leased, Lasting, Server
<1> QED
  BY <1>8, <1>9, <1>10, <1>11, <1>12 DEF Leased

\* The time a lease is slept for, and that it leaves.
LEMMA HalfLeaves ==
  ASSUME DhcpSizes, NEW l \in Told
  PROVE  RenewAt(l) \in Nat /\ \A k \in Lengths : k > RenewAt(l) + 2 * MaxTries
<1>1. Lasts(l) \in Lengths \cup {DefaultLease} /\ Lasts(l) \in Nat
  BY DEF DhcpSizes, Told, Lasts
<1> DEFINE d == Lasts(l)
<1>2. d \div 2 \in Nat /\ \A k \in Lengths : k > d \div 2 + 2 * MaxTries
  <2> HIDE DEF d
  <2>1. d \in Nat /\ d \in Lengths \cup {DefaultLease}
    BY <1>1 DEF d
  <2> QED
    BY <2>1 DEF DhcpSizes
<1> QED
  BY <1>2 DEF RenewAt

\* A lease acknowledged in the exchange that ends outlasts its sleep and the next exchange.
LEMMA SleepLasts ==
  ASSUME DhcpSizes, Leased, JustGranted, Server \in Servers, NEW l \in Told
  PROVE  granted[Server] > RenewAt(l) + MaxTries
<1>1. PICK k \in Lengths : granted[Server] + MaxTries >= k + Remaining
  BY DEF JustGranted
<1>2. RenewAt(l) \in Nat /\ k > RenewAt(l) + 2 * MaxTries
  BY HalfLeaves
<1>3. k \in Nat /\ MaxTries \in Nat /\ Remaining \in Nat /\ granted[Server] \in Nat
  BY Quantities
<1> QED
  BY <1>1, <1>2, <1>3

LEMMA WakesKeeps ==
  ASSUME DhcpSizes, Leased, Wakes
  PROVE  Leased'
<1>1. /\ task.pc = "wait" /\ reply.notified /\ UNCHANGED <<net, granted>>
      /\ reply' = [reply EXCEPT !.notified = FALSE]
  BY DEF Wakes
<1>2. stack \in Stacks /\ client \in Clients /\ reply \in Replies
  BY DEF Leased, TypeOK
<1>3. reply' \in Replies
  BY <1>1, <1>2 DEF Replies
<1>4. \/ client.state = "Selecting" /\ Offered
      \/ client.state = "Requesting" /\ reply.type = "ack" /\ Configured
      \/ client.state = "Renewing" /\ reply.type = "ack" /\ Renewed
      \/ GiveUp
  BY DEF Wakes
<1>5. CASE client.state = "Selecting" /\ Offered
  <2>1. Own(reply.lease) /\ reply.lease \in Leases
    BY <1>1, <1>2, <1>5 DEF Leased, Answered, Replies
  <2>2. client' = [client EXCEPT !.lease = reply.lease, !.state = "Requesting"] /\ stack' = stack
        /\ task' = [pc |-> "send", tries |-> MaxTries, timer |-> 0]
    BY <1>5 DEF Offered
  <2>3. client' \in Clients /\ client'.state = "Requesting" /\ client'.xid = client.xid
        /\ client'.lease = reply.lease
    BY <1>2, <2>1, <2>2 DEF Clients, States
  <2>4. task' \in Tasks /\ task'.pc = "send" /\ task'.tries = MaxTries
    BY <2>2 DEF Tasks, DhcpSizes
  <2>5. Remaining' = MaxTries
    BY <2>4, Quantities DEF Remaining
  <2>6. TypeOK'
    BY <1>1, <1>3, <2>2, <2>3, <2>4 DEF Leased, TypeOK
  <2>7. Placed'
    BY <1>5, <2>1, <2>2, <2>3, <2>4, <2>5, Quantities DEF Leased, Placed, Exchanging, Holding
  <2>8. ASSUME NEW m \in net' PROVE Current(m)'
    <3>1. m \in net /\ Current(m)
      BY <1>1 DEF Leased
    <3> QED
      BY <1>5, <2>3, <3>1 DEF Current, Exchanging
  <2>9. Answered' /\ Lasting'
    BY <2>3, <2>4 DEF Answered, Lasting
  <2> QED
    BY <2>6, <2>7, <2>8, <2>9 DEF Leased
<1>6. ASSUME Exchanging, reply.type = "ack"
      PROVE  /\ Own(reply.lease) /\ reply.lease.length \in Told /\ reply.lease.server = Server
             /\ JustGranted /\ Own(client.lease)
  BY <1>1, <1>6 DEF Leased, Answered, Placed
<1>7. \A l \in Told : RenewAt(l) \in Nat
  BY HalfLeaves
<1>8. ASSUME stack' \in Stacks, client' \in Clients, task' \in Tasks, client'.state = "Bound",
             client'.xid = client.xid, client'.lease.server = Server, Own(client'.lease),
             client'.lease.length = reply.lease.length, stack'.addr = Server,
             task'.pc = "sleep", task'.tries = 0, task'.timer = RenewAt(reply.lease.length),
             Exchanging, reply.type = "ack"
      PROVE  Leased'
  <2>1. TypeOK'
    BY <1>1, <1>3, <1>8 DEF Leased, TypeOK
  <2>2. Placed'
    <3>1. Remaining' = 0
      BY <1>8, Quantities DEF Remaining
    <3> QED
      BY <1>6, <1>8, <3>1, Quantities DEF Placed, Exchanging, Holding, Server, Own
  <2>3. ASSUME NEW m \in net' PROVE Current(m)'
    <3>1. m \in net /\ Current(m)
      BY <1>1 DEF Leased
    <3> QED
      BY <1>8, <3>1 DEF Current, Exchanging
  <2>4. Lasting'
    <3>1. granted[Server] > RenewAt(reply.lease.length) + MaxTries /\ RenewAt(reply.lease.length) \in Nat
      BY <1>6, <1>7, <1>8, SleepLasts DEF Own, Server
    <3> QED
      BY <1>1, <1>8, <3>1 DEF Lasting, Server
  <2> QED
    BY <1>8, <2>1, <2>2, <2>3, <2>4 DEF Leased, Answered
<1>9. CASE client.state = "Requesting" /\ reply.type = "ack" /\ Configured
  <2>1. /\ client' = [client EXCEPT !.lease = reply.lease, !.state = "Bound"]
        /\ stack' = [stack EXCEPT !.addr = reply.lease.addr]
        /\ task' = [pc |-> "sleep", tries |-> 0, timer |-> RenewAt(reply.lease.length)]
    BY <1>9 DEF Configured, Sleep
  <2>2. Exchanging
    BY <1>9 DEF Exchanging
  <2>3. reply.lease \in Leases /\ reply.lease.addr \in Int /\ reply.lease.addr = Server
    BY <1>2, <1>6, <1>9, <2>2 DEF Replies, Leases, Own
  <2>4. client' \in Clients /\ client'.state = "Bound" /\ client'.xid = client.xid /\ client'.lease = reply.lease
    BY <1>2, <2>1, <2>3 DEF Clients, States
  <2>5. stack' \in Stacks /\ stack'.addr = reply.lease.addr
    BY <1>2, <2>1, <2>3 DEF Stacks
  <2> DEFINE t == RenewAt(reply.lease.length)
  <2>6. t \in Nat /\ 0 \in 0 .. MaxTries
    BY <1>6, <1>7, <1>9, <2>2, Quantities
  <2> HIDE DEF t
  <2>7. task' \in Tasks /\ task'.pc = "sleep" /\ task'.tries = 0 /\ task'.timer = t
    BY <2>1, <2>6 DEF Tasks, t
  <2> QED
    BY <1>6, <1>8, <1>9, <2>2, <2>3, <2>4, <2>5, <2>7 DEF t
<1>10. CASE client.state = "Renewing" /\ reply.type = "ack" /\ Renewed
  <2> DEFINE l == reply.lease.length
             lease == [client.lease EXCEPT !.length = l]
             t == RenewAt(reply.lease.length)
  <2>1. /\ client' = [client EXCEPT !.lease = lease, !.state = "Bound"] /\ stack' = stack
        /\ task' = [pc |-> "sleep", tries |-> 0, timer |-> t]
    BY <1>10 DEF Renewed, Sleep
  <2>2. Exchanging /\ Holding
    BY <1>10 DEF Exchanging, Holding
  <2>3. client.lease \in Leases /\ l \in Int
    BY <1>2 DEF Clients, Replies, Leases
  <2>4. lease \in Leases /\ lease.addr = client.lease.addr /\ lease.server = client.lease.server /\ lease.length = l
    BY <2>3 DEF Leases
  <2> HIDE DEF lease
  <2>5. client' \in Clients /\ client'.state = "Bound" /\ client'.xid = client.xid /\ client'.lease = lease
    BY <1>2, <2>1, <2>4 DEF Clients, States
  <2>6. t \in Nat /\ 0 \in 0 .. MaxTries
    BY <1>6, <1>7, <1>10, <2>2, Quantities
  <2> HIDE DEF t
  <2>7. task' \in Tasks /\ task'.pc = "sleep" /\ task'.tries = 0 /\ task'.timer = t
    BY <2>1, <2>6 DEF Tasks
  <2>8. stack.addr = Server /\ Own(lease)
    BY <1>6, <1>10, <2>2, <2>4 DEF Leased, Placed, Own
  <2> QED
    BY <1>2, <1>8, <1>10, <2>1, <2>2, <2>4, <2>5, <2>7, <2>8 DEF t, Server
<1>11. CASE GiveUp
  BY <1>1, <1>3, <1>11, RediscoverKeeps DEF GiveUp
<1> QED
  BY <1>4, <1>5, <1>9, <1>10, <1>11
-----------------------------------------------------------------------------
(***************************************************************************)
(* The network's, the servers' and time's.                                 *)
(***************************************************************************)
\* What only moves messages keeps everything else.
LEMMA NetKeeps ==
  ASSUME DhcpSizes, Leased, UNCHANGED <<client, task, reply, granted>>,
         stack' \in Stacks, stack'.addr = stack.addr, net' \subseteq Queries \cup Answers,
         \A m \in net' : m \in net \/ Current(m)
  PROVE  Leased'
<1>1. TypeOK' /\ Remaining' = Remaining
  BY DEF Leased, TypeOK, Remaining
<1>2. Placed'
  BY <1>1 DEF Leased, Placed, Exchanging, Holding, Server
<1>3. (\A m \in net : Current(m))'
  BY <1>1 DEF Leased, Current, Exchanging, Server, JustGranted
<1>4. Answered'
  BY <1>1 DEF Leased, Answered, Exchanging, Server, JustGranted
<1>5. Lasting'
  BY <1>1 DEF Leased, Lasting, Server
<1> QED
  BY <1>1, <1>2, <1>3, <1>4, <1>5 DEF Leased

LEMMA ReceiveKeeps ==
  ASSUME DhcpSizes, Leased, Receive
  PROVE  Leased'
<1>1. PICK m \in net :
        /\ m.to = "client" /\ net' = net \ {m}
        /\ reply' = IF IpAccepts(m) /\ Advances(m)
                    THEN [notified |-> TRUE, type |-> m.type, lease |-> m.lease] ELSE reply
  BY DEF Receive
<1>2. UNCHANGED <<stack, client, task, granted>>
  BY DEF Receive
<1>3. net' \subseteq Queries \cup Answers /\ m \in Answers
  BY <1>1 DEF Leased, TypeOK, Queries
<1>4. CASE reply' = reply
  BY <1>1, <1>2, <1>3, <1>4, NetKeeps DEF Leased, TypeOK
<1>5. CASE Advances(m) /\ reply' = [notified |-> TRUE, type |-> m.type, lease |-> m.lease]
  <2>1. m.type \in {"offer", "ack", "nak"} /\ m.lease \in Leases
    BY <1>3 DEF Answers
  <2>2. reply' \in Replies /\ reply'.type = m.type /\ reply'.lease = m.lease
    BY <1>5, <2>1 DEF Replies
  <2>3. TypeOK' /\ Remaining' = Remaining
    BY <1>2, <1>3, <2>2 DEF Leased, TypeOK, Remaining
  <2>4. Placed'
    BY <1>2, <2>3 DEF Leased, Placed, Exchanging, Holding, Server
  <2>5. (\A q \in net : Current(q))'
    BY <1>1, <1>2, <2>3 DEF Leased, Current, Exchanging, Server, JustGranted
  <2>6. Answered'
    <3>1. Current(m) /\ m.xid = client.xid
      BY <1>5 DEF Leased, Advances
    <3>2. client.state = "Selecting" => m.type = "offer" /\ Own(m.lease)
      BY <1>1, <1>5, <3>1 DEF Current, Advances
    <3>3. Exchanging /\ m.type = "ack" =>
            Own(m.lease) /\ m.lease.length \in Told /\ m.lease.server = Server /\ JustGranted
      BY <1>1, <3>1 DEF Current
    <3> QED
      BY <1>2, <2>2, <2>3, <3>2, <3>3 DEF Answered, Exchanging, Server, JustGranted
  <2>7. Lasting'
    BY <1>2, <2>3 DEF Leased, Lasting, Server
  <2> QED
    BY <2>3, <2>4, <2>5, <2>6, <2>7 DEF Leased
<1> QED
  BY <1>1, <1>4, <1>5

\* The answer to a query, of the query's transaction and with a lease of the server's own.
LEMMA AnswerIs ==
  ASSUME DhcpSizes, Leased, NEW m \in net, m.to = "server", NEW type \in {"offer", "ack", "nak"},
         NEW l \in Int, NEW dst \in Int, Answer(m, type, l, dst)
  PROVE  /\ m \in Queries /\ m.server \in Servers
         /\ \E a \in Answers :
              /\ net' = (net \ {m}) \cup {a} /\ a.to = "client" /\ a.type = type /\ a.xid = m.xid
              /\ Own(a.lease) /\ a.lease.server = m.server /\ a.lease.length = l
<1>1. m \in Queries
  BY DEF Leased, TypeOK, Answers
<1>2. m.server \in Servers /\ m.xid \in Xids \cup {0}
  BY <1>1 DEF Queries
<1> DEFINE lease == [addr |-> m.server, server |-> m.server, length |-> l]
           a     == ToClient(type, m.xid, lease, dst)
<1>3. lease \in Leases /\ lease.addr = m.server /\ lease.server = m.server /\ lease.length = l
  <2>1. Servers \subseteq Nat
    BY DEF DhcpSizes
  <2>2. m.server \in Servers
    BY <1>2
  <2>3. m.server \in Nat
    BY <2>1, <2>2
  <2> QED
    BY <2>3 DEF Leases
<1>4. net' = (net \ {m}) \cup {a}
  BY DEF Answer
<1> HIDE DEF lease
<1>5. a \in Answers /\ a.to = "client" /\ a.type = type /\ a.xid = m.xid /\ a.lease = lease
  BY <1>2, <1>3 DEF ToClient, Answers
<1> HIDE DEF a
<1> QED
  BY <1>1, <1>2, <1>3, <1>4, <1>5 DEF Own

LEMMA ServerOffersKeeps ==
  ASSUME DhcpSizes, Leased, ServerOffers
  PROVE  Leased'
<1>1. PICK m \in net, l \in Told :
        m.to = "server" /\ m.type = "discover" /\ Answer(m, "offer", l, Broadcast)
  BY DEF ServerOffers
<1>2. UNCHANGED <<stack, client, task, reply, granted>>
  BY DEF ServerOffers
<1>3. l \in Int /\ Broadcast \in Int
  BY DEF DhcpSizes, Told, Broadcast
<1>4. PICK a \in Answers :
        /\ net' = (net \ {m}) \cup {a} /\ a.to = "client" /\ a.type = "offer" /\ Own(a.lease)
  BY <1>1, <1>3, AnswerIs
<1>5. Current(a)
  BY <1>4 DEF Current
<1>6. stack \in Stacks /\ net' \subseteq Queries \cup Answers
  BY <1>4 DEF Leased, TypeOK
<1> QED
  BY <1>2, <1>4, <1>5, <1>6, NetKeeps

LEMMA ServerAnswersKeeps ==
  ASSUME DhcpSizes, Leased, ServerAnswers
  PROVE  Leased'
<1>1. PICK m \in net, k \in Lengths, l \in Told, dst \in {Broadcast, client.lease.server} :
        /\ m.to = "server" /\ m.type = "request"
        /\ \/ Answer(m, "ack", l, dst) /\ granted' = [granted EXCEPT ![m.server] = k]
           \/ Answer(m, "nak", 0, dst) /\ UNCHANGED granted
  BY DEF ServerAnswers
<1>2. UNCHANGED <<stack, client, task, reply>> /\ stack \in Stacks
  BY DEF ServerAnswers, Leased, TypeOK
<1>3. k \in Nat /\ l \in Nat /\ dst \in Int /\ 0 \in Int
  BY DEF DhcpSizes, Told, Broadcast, Leased, TypeOK, Clients, Leases
<1>4. Current(m)
  BY DEF Leased
<1>5. CASE Answer(m, "nak", 0, dst) /\ UNCHANGED granted
  <2>1. PICK a \in Answers :
          net' = (net \ {m}) \cup {a} /\ a.to = "client" /\ a.type = "nak" /\ a.xid = m.xid /\ Own(a.lease)
    BY <1>1, <1>3, <1>5, AnswerIs
  <2>2. Current(a)
    BY <1>1, <1>4, <2>1 DEF Current
  <2>3. net' \subseteq Queries \cup Answers
    BY <2>1 DEF Leased, TypeOK
  <2> QED
    BY <1>2, <1>5, <2>1, <2>2, <2>3, NetKeeps
<1>6. CASE Answer(m, "ack", l, dst) /\ granted' = [granted EXCEPT ![m.server] = k]
  <2>1. m.server \in Servers
    BY <1>1, <1>3, <1>6, AnswerIs
  <2>2. PICK a \in Answers :
          /\ net' = (net \ {m}) \cup {a} /\ a.to = "client" /\ a.type = "ack" /\ a.xid = m.xid
          /\ Own(a.lease) /\ a.lease.server = m.server /\ a.lease.length = l
    BY <1>1, <1>3, <1>6, AnswerIs
  <2>3. /\ granted' \in [Servers -> Nat] /\ granted'[m.server] = k
        /\ \A s \in Servers : s # m.server => granted'[s] = granted[s]
    BY <1>3, <1>6, <2>1 DEF Leased, TypeOK
  <2>4. TypeOK' /\ Remaining' = Remaining /\ (Exchanging' <=> Exchanging) /\ (Holding' <=> Holding) /\ Server' = Server
    BY <1>2, <2>2, <2>3 DEF Leased, TypeOK, Remaining, Exchanging, Holding, Server
  <2>5. Placed'
    BY <1>2, <2>4 DEF Leased, Placed
  <2>6. Exchanging \/ Holding => Server \in Servers
    BY DEF Leased, Placed, Own, Server
  <2>7. (Exchanging /\ m.server = Server) => JustGranted'
    <3>1. k + MaxTries >= k + Remaining
      BY <1>3, Quantities
    <3> QED
      BY <2>3, <2>4, <3>1 DEF JustGranted
  <2>8. Exchanging /\ JustGranted => JustGranted'
    BY <2>3, <2>4, <2>6, <2>7 DEF JustGranted
  <2>9. ASSUME NEW q \in net' PROVE Current(q)'
    <3>1. CASE q \in net
      <4>1. Current(q)
        BY <3>1 DEF Leased
      <4> QED
        BY <1>2, <2>4, <2>8, <4>1 DEF Current
    <3>2. CASE q = a
      <4>1. m.xid = client.xid => client.state # "Selecting" /\ (Exchanging => m.server = Server)
        BY <1>1, <1>4 DEF Current
      <4> QED
        BY <1>2, <2>2, <2>4, <2>7, <3>2, <4>1 DEF Current
    <3> QED
      BY <2>2, <3>1, <3>2
  <2>10. Answered'
    BY <1>2, <2>4, <2>8 DEF Leased, Answered
  <2>11. Lasting'
    <3>1. CASE Holding /\ m.server = Server
      <4>1. client.lease.length \in Told
        BY <3>1 DEF Leased, Placed
      <4>2. k > RenewAt(client.lease.length) + 2 * MaxTries /\ RenewAt(client.lease.length) \in Nat
        BY <4>1, HalfLeaves
      <4>3. client.state = "Bound" => task.timer <= RenewAt(client.lease.length)
        BY DEF Leased, Lasting
      <4>4. k > Remaining /\ (client.state = "Bound" => k > task.timer + MaxTries)
        BY <1>3, <4>2, <4>3, Quantities
      <4> QED
        BY <1>2, <2>3, <2>4, <3>1, <4>3, <4>4 DEF Lasting
    <3>2. CASE Holding /\ m.server # Server
      BY <1>2, <2>3, <2>4, <2>6, <3>2 DEF Leased, Lasting
    <3>3. CASE ~Holding
      BY <1>2, <3>3 DEF Lasting, Holding
    <3> QED
      BY <3>1, <3>2, <3>3
  <2> QED
    BY <2>4, <2>5, <2>9, <2>10, <2>11 DEF Leased
<1> QED
  BY <1>1, <1>5, <1>6

LEMMA LoseKeeps ==
  ASSUME DhcpSizes, Leased, Lose \/ Weather
  PROVE  Leased'
<1>1. CASE Lose
  BY <1>1, NetKeeps DEF Lose, Leased, TypeOK
<1>2. CASE Weather
  <2>1. stack' \in Stacks /\ stack'.addr = stack.addr
    BY <1>2 DEF Weather, Leased, TypeOK, Stacks
  <2> QED
    BY <1>2, <2>1, NetKeeps DEF Weather, Leased, TypeOK
<1> QED
  BY <1>1, <1>2

LEMMA TickKeeps ==
  ASSUME DhcpSizes, Leased, Tick
  PROVE  Leased'
<1> DEFINE t == IF task.timer > 0 THEN task.timer - 1 ELSE 0
<1>1. /\ task' = [task EXCEPT !.timer = t] /\ UNCHANGED <<stack, client, reply, net>>
      /\ granted' = [s \in Servers |-> IF granted[s] > 0 THEN granted[s] - 1 ELSE 0]
  BY DEF Tick
<1>2. task.timer \in Nat /\ task.tries \in 0 .. MaxTries /\ MaxTries \in Nat
      /\ \A s \in Servers : granted[s] \in Nat
  BY Quantities
<1>3. t \in Nat /\ task \in Tasks
  BY <1>2 DEF Leased, TypeOK
<1>4. t = task.timer - 1 \/ (t = 0 /\ task.timer = 0)
  BY <1>2
<1> HIDE DEF t
<1>5. task' \in Tasks /\ task'.pc = task.pc /\ task'.tries = task.tries /\ task'.timer = t
  BY <1>1, <1>3 DEF Tasks
<1>6. \A s \in Servers : granted'[s] \in Nat /\ granted'[s] >= granted[s] - 1
  BY <1>1, <1>2
<1>7. granted' \in [Servers -> Nat]
  BY <1>1, <1>6
<1>8. TypeOK' /\ (Exchanging' <=> Exchanging) /\ (Holding' <=> Holding) /\ Server' = Server
  BY <1>1, <1>5, <1>7 DEF Leased, TypeOK, Exchanging, Holding, Server
<1>9. Remaining' <= Remaining /\ (task.pc = "wait" /\ task.timer > 0 => Remaining' = Remaining - 1)
  BY <1>2, <1>3, <1>4, <1>5 DEF Remaining
<1>10. Exchanging => task.pc = "wait" /\ task.timer > 0
  BY DEF Tick, Suspended, Leased, Placed, Exchanging
<1>11. Remaining \in Nat /\ Remaining' \in Nat /\ Remaining <= MaxTries
  BY <1>2, <1>3, <1>5, Quantities DEF Remaining
<1>12. Exchanging \/ Holding => Server \in Servers
  BY DEF Leased, Placed, Own, Server
<1>13. Exchanging /\ JustGranted => JustGranted'
  <2> SUFFICES ASSUME Exchanging, JustGranted PROVE JustGranted'
    OBVIOUS
  <2>1. PICK k \in Lengths : granted[Server] + MaxTries >= k + Remaining
    BY DEF JustGranted
  <2>2. k \in Nat /\ Server \in Servers
    BY <1>12, Quantities
  <2>3. granted'[Server] + MaxTries >= k + Remaining'
    BY <1>2, <1>6, <1>9, <1>10, <1>11, <2>1, <2>2
  <2> QED
    BY <1>8, <2>3 DEF JustGranted
<1>14. Placed'
  BY <1>1, <1>2, <1>5, <1>8, <1>9, <1>11 DEF Leased, Placed
<1>15. (\A m \in net : Current(m))'
  BY <1>1, <1>8, <1>13 DEF Leased, Current
<1>16. Answered'
  BY <1>1, <1>5, <1>8, <1>13 DEF Leased, Answered
<1>17. Lasting'
  <2>1. CASE client.state = "Bound"
    <3>1. task.pc = "sleep" /\ task.timer > 0 /\ Server \in Servers /\ client.lease.length \in Told
      BY <1>12, <2>1 DEF Tick, Suspended, Leased, Placed, Holding
    <3>2. RenewAt(client.lease.length) \in Nat
      BY <3>1, HalfLeaves
    <3>3. task.timer <= RenewAt(client.lease.length) /\ granted[Server] > task.timer + MaxTries
      BY <2>1 DEF Leased, Lasting
    <3>4. t <= RenewAt(client.lease.length) /\ granted'[Server] > t + MaxTries
      BY <1>2, <1>4, <1>6, <3>1, <3>2, <3>3
    <3> QED
      BY <1>1, <1>5, <1>8, <2>1, <3>4 DEF Lasting
  <2>2. CASE client.state = "Renewing"
    <3>1. Exchanging /\ Server \in Servers /\ granted[Server] > Remaining
      BY <1>12, <2>2 DEF Exchanging, Leased, Lasting
    <3>2. granted'[Server] > Remaining'
      BY <1>2, <1>6, <1>9, <1>10, <1>11, <3>1
    <3> QED
      BY <1>1, <1>8, <2>2, <3>2 DEF Lasting
  <2> QED
    BY <1>1, <2>1, <2>2 DEF Lasting
<1> QED
  BY <1>8, <1>14, <1>15, <1>16, <1>17 DEF Leased

(***************************************************************************)
(* Leased is inductive, and says what is wanted.                           *)
(***************************************************************************)
LEMMA StartKeeps ==
  ASSUME DhcpSizes, Leased, Start
  PROVE  Leased'
<1>1. Rediscover /\ UNCHANGED <<net, granted>> /\ reply' \in Replies
  BY DEF Start, Leased, TypeOK
<1> QED
  BY <1>1, RediscoverKeeps

LEMMA LeasedNext ==
  ASSUME DhcpSizes, Leased, [DhcpNext]_dhcpVars
  PROVE  Leased'
<1>1. CASE DhcpNext
  BY <1>1, StartKeeps, AttemptKeeps, TimesOutKeeps, WakesKeeps, RenewKeeps, ReceiveKeeps,
     ServerOffersKeeps, ServerAnswersKeeps, LoseKeeps, TickKeeps DEF DhcpNext
<1>2. CASE UNCHANGED dhcpVars
  <2>1. UNCHANGED <<client, task, reply, granted>> /\ stack' = stack /\ net' = net
    BY <1>2 DEF dhcpVars
  <2> QED
    BY <2>1, NetKeeps DEF Leased, TypeOK
<1> QED
  BY <1>1, <1>2

LEMMA LeasedMeans ==
  ASSUME DhcpSizes, Leased
  PROVE  AddressStillLeased
<1> SUFFICES ASSUME stack.addr # AnyAddr PROVE granted[stack.addr] > 0
  BY DEF AddressStillLeased
<1>1. Holding
  BY DEF Leased, Placed
<1>2. stack.addr = Server
  BY <1>1 DEF Leased, Placed
<1>3. client.state = "Bound" => granted[Server] > task.timer + MaxTries
  BY DEF Leased, Lasting
<1>4. client.state = "Renewing" => granted[Server] > Remaining
  BY DEF Leased, Lasting
<1>5. Server \in Servers
  BY <1>1 DEF Leased, Placed, Own, Server
<1>6. granted[Server] \in Nat /\ task.timer \in Nat /\ MaxTries \in Nat /\ Remaining \in Nat
  BY <1>5, Quantities
<1> QED
  BY <1>1, <1>2, <1>3, <1>4, <1>6 DEF Holding

\* The address in use is still leased, however acknowledgements are delayed, refused or lost and
\* the link comes and goes.
THEOREM StillLeased == DhcpSizes => (DhcpSpec => []AddressStillLeased)
<1> SUFFICES ASSUME DhcpSizes PROVE DhcpSpec => []AddressStillLeased
  OBVIOUS
<1>1. DhcpInit => Leased
  BY LeasedInit
<1>2. Leased /\ [DhcpNext]_dhcpVars => Leased'
  BY LeasedNext
<1>3. Leased => AddressStillLeased
  BY LeasedMeans
<1> QED
  BY <1>1, <1>2, <1>3, PTL DEF DhcpSpec
-----------------------------------------------------------------------------
(***************************************************************************)
(* The link: its types, and the shape of the console's plans.              *)
(***************************************************************************)
Parts == {"scan", "lost", "connect", "cleanup"}
Names == {"AddInterface", "HwScan", "collect", "RemoveInterface", "GetVersion", "Abort", "found",
          "SetChannel", "SetTxPower", "BssConfig", "ConfigPs", "SetQosParams", "auth", "commit", "confirm",
          "Authenticated", "assoc", "m1", "m3", "InstallPtk", "InstallGtk", "Authorized", "up",
          "deauth", "None", "reset"}
StepSet == [part : Parts, do : Names]
Places == {"none", "loop", "waiting", "sending", "delivering", "remove", "removing", "reset", "over"}

ConsoleType ==
  [plan : Seq(StepSet), phase : {"ready", "sent", "wait"}, tries : Nat, vif : Vifs \cup {NoVif}, found : BOOLEAN]
LinkType == [up : BOOLEAN, encrypted : BOOLEAN, vif : Vifs \cup {0}, aid : BOOLEAN]
CmdType  == [owner : {-1, Console} \cup LinkIds, do : Names \cup {"none"}, vif : Vifs \cup {NoVif, 0},
             answer : {"none", "ok", "failed"}]
IfaceType == [sta : {"None", "Authenticated", "Authorized"}, keys : SUBSET {"InstallPtk", "InstallGtk"}]
ChipTyped ==
  /\ DOMAIN chip.ifaces \subseteq Vifs /\ chip.ifaces \in [DOMAIN chip.ifaces -> IfaceType]
  /\ chip.stray \subseteq DOMAIN chip.ifaces
  /\ chip = [ifaces |-> chip.ifaces, scans |-> chip.scans, stray |-> chip.stray]
Typed ==
  /\ secure \in BOOLEAN /\ console \in ConsoleType
  /\ tasks \in [LinkIds -> Places] /\ handle \in LinkIds \cup {0} /\ due \subseteq {Console} \cup LinkIds
  /\ link \in LinkType /\ cmd \in CmdType /\ ChipTyped

\* What may precede what in a plan, and what may end one.
Adjacent(a, b) ==
  /\ b.part = "connect" <=> (a.part = "connect" \/ b.do = "found")
  /\ b.part = "cleanup" <=> a.part = "cleanup"
  /\ b.part = "lost" <=> a.part = "lost"
  /\ b.do # "Abort" /\ b.do # "GetVersion" /\ a.do # "GetVersion"
  /\ b.do = "found" <=> (a.part = "scan" /\ a.do = "RemoveInterface")
  /\ b.do = "AddInterface" <=> a.do = "found"
  /\ (b.part = "scan" /\ b.do = "HwScan") <=> (a.part = "scan" /\ a.do = "AddInterface")
  /\ (b.part = "scan" /\ b.do = "collect") <=> (a.part = "scan" /\ a.do = "HwScan")
  /\ (b.part = "scan" /\ b.do = "RemoveInterface") <=> (a.part = "scan" /\ a.do = "collect")
  /\ b.do = "InstallGtk" => a.do = "InstallPtk"
  /\ (b.do = "Authorized" /\ secure) => a.do = "InstallGtk"
  /\ b.do = "up" => a.do = "Authorized"
  /\ b.do = "reset" <=> (a.part = "cleanup" /\ a.do = "RemoveInterface")
Belongs(s) ==
  /\ s.part = "scan" => s.do \in {"AddInterface", "HwScan", "collect", "RemoveInterface", "GetVersion"}
  /\ s.part = "lost" => s.do \in {"Abort", "RemoveInterface"}
  /\ s.part = "connect" =>
       s.do \notin {"HwScan", "collect", "RemoveInterface", "GetVersion", "Abort", "deauth", "None", "reset"}
  /\ s.part = "cleanup" => s.do \in {"deauth", "None", "RemoveInterface", "reset"}
Ends(s) == s \in {Step("scan", "RemoveInterface"), Step("scan", "AddInterface"), Step("scan", "GetVersion"),
                  Step("lost", "RemoveInterface"), Step("connect", "up"), Step("cleanup", "reset")}
Shaped(p) ==
  /\ \A i \in DOMAIN p : Belongs(p[i])
  /\ \A i \in 1 .. Len(p) - 1 : Adjacent(p[i], p[i + 1])
  /\ p # <<>> => Ends(p[Len(p)])
Busy == console.plan # <<>>

(***************************************************************************)
(* The link: its inductive invariant.                                      *)
(***************************************************************************)
\* Whose command is in flight, for which step of its caller, and what its success has left.
CmdKnown ==
  /\ cmd.owner = -1 => cmd = NoCmd
  /\ console.phase = "sent" => Busy /\ cmd.owner = Console
  /\ console.phase = "wait" => Busy /\ Todo.do \in Exchanges
  /\ Console \in due => Busy
  /\ cmd.owner = Console => 
       /\ console.phase = "sent"
       /\ cmd.do = Todo.do /\ cmd.do \notin Exchanges \cup Local \cup {"found"}
       /\ cmd.do # "AddInterface" => cmd.vif = VifOf(Todo)
  /\ \A t \in LinkIds : cmd.owner = t <=> tasks[t] = "removing"
  /\ cmd.owner \in LinkIds => cmd.do = "RemoveInterface" /\ cmd.vif = link.vif
  /\ (cmd.do = "AddInterface" /\ cmd.answer = "ok") =>
       /\ cmd.vif \in DOMAIN chip.ifaces /\ chip.ifaces[cmd.vif].keys = {}

\* `halow connect' is at work.
Connecting == Busy /\ console.plan[Len(console.plan)].do = "up"
\* Steps of the scan that the console has behind it.
Pos == IF Todo.do = "AddInterface" THEN (IF console.phase = "ready" THEN 0 ELSE 1)
       ELSE IF Todo.do = "HwScan" THEN (IF console.phase = "ready" THEN 2 ELSE 3)
       ELSE 4
One(b) == IF b THEN 1 ELSE 0
\* The same of a link_task that is tearing the link down.
Gone(t) == IF tasks[t] = "loop" THEN 0 ELSE IF tasks[t] = "remove" THEN 1 ELSE 3
\* A new connection is no further than its scan while the task of the last one tears that down: the
\* two take turns, a step each in a round, and the one that is due in this round is a step behind.
Behind(t) ==
  /\ Todo.part = "scan"
  /\ IF tasks[t] = "removing" THEN Pos \in {0, 2} ELSE Pos <= Gone(t) + One(t \in due) - One(Console \in due)
\* There is one task, the one link_handle names; it is at the loop when the link goes down, and no
\* connection is made while the link is up.
Tearing == {"remove", "removing", "reset"}
TasksKnown ==
  \A t \in Alive :
    /\ t = handle
    /\ tasks[t] \in {"waiting", "sending", "delivering"} => link.up
    /\ tasks[t] \in Tearing => ~link.up
    /\ Busy => Todo.part \in {"scan", "lost"}
    /\ link.up => ~Connecting
    /\ (~link.up /\ Connecting) => Behind(t)

\* The interface of a link that is up is authorized, and is none that a scan has.
Scanning == Busy /\ Todo.part \in {"scan", "lost"} /\ Todo.do \in {"HwScan", "collect", "RemoveInterface", "Abort"}
UpKnown ==
  /\ (link.up /\ Alive = {}) => Busy /\ Todo.part = "cleanup"
  /\ (link.up /\ Alive # {}) =>
       /\ link.vif \in DOMAIN chip.ifaces /\ chip.ifaces[link.vif].sta = "Authorized"
       /\ (cmd.do = "AddInterface" /\ cmd.answer = "ok") => cmd.vif # link.vif
       /\ Scanning => console.vif # link.vif

\* The keys the connection has installed on the interface it added.
Added == Busy /\ Todo.part = "connect" /\ Todo.do \notin {"found", "AddInterface"}
KeysKnown ==
  /\ Added => link.vif \in DOMAIN chip.ifaces
  /\ Added /\ (Todo.do = "InstallGtk" \/ (cmd.do = "InstallPtk" /\ cmd.answer = "ok"))
       => "InstallPtk" \in chip.ifaces[link.vif].keys
  /\ Added /\ ((secure /\ Todo.do \in {"Authorized", "up"}) \/ (cmd.do = "InstallGtk" /\ cmd.answer = "ok"))
       => chip.ifaces[link.vif].keys = {"InstallPtk", "InstallGtk"}
  /\ Added /\ (Todo.do = "up" \/ (cmd.do = "Authorized" /\ cmd.answer = "ok"))
       => chip.ifaces[link.vif].sta = "Authorized"
  /\ KeysBeforePort

\* The interfaces somebody is still going to remove.
Removed == cmd.do = "RemoveInterface" /\ cmd.answer # "none"
Owned ==
  (IF Scanning /\ ~(cmd.owner = Console /\ Removed) THEN {console.vif} ELSE {})
  \cup
  (IF \/ Added
      \/ Busy /\ Todo.part = "cleanup" /\ Todo.do # "reset" /\ ~(cmd.owner = Console /\ Removed)
      \/ \E t \in Alive : tasks[t] # "reset" /\ ~(cmd.owner = t /\ Removed)
   THEN {link.vif} ELSE {})
  \cup
  (IF cmd.do = "AddInterface" /\ cmd.answer = "ok" THEN {cmd.vif} ELSE {})
AllOwned == DOMAIN chip.ifaces \subseteq chip.stray \cup Owned

Supervised == Typed /\ Shaped(console.plan) /\ CmdKnown /\ TasksKnown /\ UpKnown /\ KeysKnown /\ AllOwned
-----------------------------------------------------------------------------
\* A set of naturals has a least element.
LEMMA LeastOfNats ==
  ASSUME NEW T \in SUBSET Nat, T # {}
  PROVE  \E x \in T : \A y \in T : x <= y
<1> DEFINE R == OpToRel(<, Nat)
<1>1. IsWellFoundedOn(R, Nat)
  BY NatLessThanWellFounded
<1>3. \A x, y \in Nat : y < x => <<y, x>> \in R
  BY DEF OpToRel
<1> HIDE DEF R
<1>2. PICK x \in T : \A y \in T : ~ (<<y, x>> \in R)
  BY <1>1, WFMin
<1>4. \A y \in T : x <= y
  <2> TAKE y \in T
  <2>1. x \in Nat /\ y \in Nat /\ ~ (<<y, x>> \in R)
    BY <1>2
  <2>2. ~(y < x)
    BY <1>3, <2>1
  <2> QED  BY <2>1, <2>2
<1> QED  BY <1>4

\* The first step of a plan, and the plan that follows it.
LEMMA TailShaped ==
  ASSUME NEW p \in Seq(StepSet), p # <<>>, Shaped(p)
  PROVE  /\ Head(p) = p[1] /\ Head(p) \in StepSet /\ Belongs(Head(p))
         /\ Tail(p) \in Seq(StepSet) /\ Shaped(Tail(p))
         /\ Tail(p) = <<>> => Ends(Head(p))
         /\ Tail(p) # <<>> =>
              /\ Adjacent(Head(p), Head(Tail(p))) /\ Head(Tail(p)) \in StepSet /\ Belongs(Head(Tail(p)))
              /\ Tail(p)[Len(Tail(p))] = p[Len(p)]
<1>1. Len(p) \in Nat \ {0} /\ Tail(p) \in Seq(StepSet) /\ Len(Tail(p)) = Len(p) - 1
      /\ \A i \in 1 .. Len(p) - 1 : Tail(p)[i] = p[i + 1]
  OBVIOUS
<1>2. Head(p) = p[1] /\ p[1] \in StepSet /\ DOMAIN p = 1 .. Len(p) /\ DOMAIN Tail(p) = 1 .. Len(p) - 1
  BY <1>1
<1>3. /\ \A i \in 1 .. Len(p) : Belongs(p[i])
      /\ \A i \in 1 .. Len(p) - 1 : Adjacent(p[i], p[i + 1])
      /\ Ends(p[Len(p)])
  BY <1>2 DEF Shaped
<1>4. CASE Tail(p) = <<>>
  <2>1. Len(p) = 1
    BY <1>1, <1>4
  <2>2. DOMAIN Tail(p) = {} /\ Len(Tail(p)) - 1 = -1
    BY <1>1, <1>2, <2>1
  <2>3. Shaped(Tail(p))
    BY <1>4, <2>2 DEF Shaped
  <2> QED  BY <1>1, <1>2, <1>3, <1>4, <2>1, <2>3
<1>5. CASE Tail(p) # <<>>
  <2>1. Len(p) >= 2 /\ Head(Tail(p)) = p[2] /\ p[2] \in StepSet /\ Tail(p)[Len(Tail(p))] = p[Len(p)]
    BY <1>1, <1>5
  <2>2. \A i \in DOMAIN Tail(p) : Belongs(Tail(p)[i])
    BY <1>1, <1>2, <1>3
  <2>3. \A i \in 1 .. Len(Tail(p)) - 1 : Adjacent(Tail(p)[i], Tail(p)[i + 1])
    BY <1>1, <1>2, <1>3
  <2>4. Ends(Tail(p)[Len(Tail(p))])
    BY <1>3, <2>1
  <2>5. Shaped(Tail(p))
    BY <2>2, <2>3, <2>4 DEF Shaped
  <2>6. Adjacent(p[1], p[1 + 1]) /\ Belongs(p[2]) /\ Belongs(p[1])
    BY <1>3, <2>1, <1>1
  <2> QED  BY <1>1, <1>2, <2>1, <2>5, <2>6, <1>5
<1> QED  BY <1>4, <1>5

\* A chain of names within connect().
Chain(s) ==
  /\ \A i \in 1 .. Len(s) : Belongs(Step("connect", s[i]))
  /\ \A i \in 1 .. Len(s) - 1 : Adjacent(Step("connect", s[i]), Step("connect", s[i + 1]))

\* Two chains, one after the other.
LEMMA ChainJoin ==
  ASSUME NEW s \in Seq(Names), NEW t \in Seq(Names), s # <<>>, t # <<>>, Chain(s), Chain(t),
         Adjacent(Step("connect", s[Len(s)]), Step("connect", t[1]))
  PROVE  /\ s \o t \in Seq(Names) /\ s \o t # <<>> /\ Chain(s \o t)
         /\ (s \o t)[1] = s[1] /\ (s \o t)[Len(s \o t)] = t[Len(t)]
<1>1. /\ s \o t \in Seq(Names) /\ Len(s) \in Nat \ {0} /\ Len(t) \in Nat \ {0} /\ Len(s \o t) = Len(s) + Len(t)
      /\ \A i \in 1 .. Len(s) : (s \o t)[i] = s[i]
      /\ \A i \in Len(s) + 1 .. Len(s) + Len(t) : (s \o t)[i] = t[i - Len(s)]
  OBVIOUS
<1>2. \A i \in 1 .. Len(s \o t) : Belongs(Step("connect", (s \o t)[i]))
  <2> SUFFICES ASSUME NEW i \in 1 .. Len(s \o t) PROVE Belongs(Step("connect", (s \o t)[i]))
    OBVIOUS
  <2>1. CASE i <= Len(s)
    BY <2>1, <1>1 DEF Chain
  <2>2. CASE i > Len(s)
    <3>1. i - Len(s) \in 1 .. Len(t) /\ (s \o t)[i] = t[i - Len(s)]
      BY <2>2, <1>1
    <3> QED  BY <3>1 DEF Chain
  <2> QED  BY <2>1, <2>2, <1>1
<1>3. \A i \in 1 .. Len(s \o t) - 1 : Adjacent(Step("connect", (s \o t)[i]), Step("connect", (s \o t)[i + 1]))
  <2> SUFFICES ASSUME NEW i \in 1 .. Len(s \o t) - 1
               PROVE  Adjacent(Step("connect", (s \o t)[i]), Step("connect", (s \o t)[i + 1]))
    OBVIOUS
  <2>1. CASE i < Len(s)
    <3>1. i \in 1 .. Len(s) - 1 /\ (s \o t)[i] = s[i] /\ (s \o t)[i + 1] = s[i + 1]
      BY <2>1, <1>1
    <3> QED  BY <3>1 DEF Chain
  <2>2. CASE i = Len(s)
    <3>1. (s \o t)[i] = s[Len(s)] /\ (s \o t)[i + 1] = t[1]
      BY <2>2, <1>1
    <3> QED  BY <3>1
  <2>3. CASE i > Len(s)
    <3>1. i - Len(s) \in 1 .. Len(t) - 1 /\ (s \o t)[i] = t[i - Len(s)] /\ (s \o t)[i + 1] = t[(i - Len(s)) + 1]
      BY <2>3, <1>1
    <3> QED  BY <3>1 DEF Chain
  <2> QED  BY <2>1, <2>2, <2>3, <1>1
<1> QED  BY <1>1, <1>2, <1>3 DEF Chain

\* A sequence of names as the steps of a part.
LEMMA StepsTyped ==
  ASSUME NEW part \in Parts, NEW s \in Seq(Names)
  PROVE  /\ Steps(part, s) \in Seq(StepSet) /\ Len(Steps(part, s)) = Len(s)
         /\ \A i \in 1 .. Len(s) : Steps(part, s)[i] = Step(part, s[i])
<1>1. s \in [1 .. Len(s) -> Names] /\ Len(s) \in Nat
  OBVIOUS
<1>2. Steps(part, s) = [i \in 1 .. Len(s) |-> Step(part, s[i])]
  BY <1>1 DEF Steps
<1>3. \A i \in 1 .. Len(s) : Step(part, s[i]) \in StepSet
  BY <1>1 DEF Step, StepSet
<1> QED  BY <1>1, <1>2, <1>3

\* The plan of a scan.
LEMMA ScanShaped ==
  /\ ScanPlan \in Seq(StepSet) /\ ScanPlan # <<>> /\ Len(ScanPlan) = 4
  /\ \A i \in 1 .. 4 : ScanPlan[i].part = "scan"
  /\ ScanPlan[1] = Step("scan", "AddInterface") /\ ScanPlan[2] = Step("scan", "HwScan")
  /\ ScanPlan[3] = Step("scan", "collect") /\ ScanPlan[4] = Step("scan", "RemoveInterface")
  /\ Shaped(ScanPlan)
<1> DEFINE s == <<"AddInterface", "HwScan", "collect", "RemoveInterface">>
<1>1. s \in Seq(Names) /\ Len(s) = 4
  BY DEF Names
<1>2. /\ ScanPlan \in Seq(StepSet) /\ Len(ScanPlan) = 4 /\ \A i \in 1 .. 4 : ScanPlan[i] = Step("scan", s[i])
  BY <1>1, StepsTyped DEF ScanPlan, Parts
<1>3. /\ ScanPlan[1] = Step("scan", "AddInterface") /\ ScanPlan[2] = Step("scan", "HwScan")
      /\ ScanPlan[3] = Step("scan", "collect") /\ ScanPlan[4] = Step("scan", "RemoveInterface")
  BY <1>2
<1>4. /\ Belongs(ScanPlan[1]) /\ Belongs(ScanPlan[2]) /\ Belongs(ScanPlan[3]) /\ Belongs(ScanPlan[4])
      /\ Ends(ScanPlan[4])
  BY <1>3 DEF Belongs, Ends, Step
<1>5. /\ Adjacent(ScanPlan[1], ScanPlan[2]) /\ Adjacent(ScanPlan[2], ScanPlan[3])
      /\ Adjacent(ScanPlan[3], ScanPlan[4])
  BY <1>3 DEF Adjacent, Step
<1>6. \A i \in DOMAIN ScanPlan : Belongs(ScanPlan[i])
  BY <1>2, <1>4
<1>7. \A i \in 1 .. Len(ScanPlan) - 1 : Adjacent(ScanPlan[i], ScanPlan[i + 1])
  <2> SUFFICES ASSUME NEW i \in 1 .. 3 PROVE Adjacent(ScanPlan[i], ScanPlan[i + 1])
    BY <1>2
  <2>1. i = 1 \/ i = 2 \/ i = 3
    OBVIOUS
  <2> QED  BY <1>5, <2>1
<1>8. Shaped(ScanPlan)
  BY <1>2, <1>4, <1>6, <1>7 DEF Shaped
<1> QED  BY <1>2, <1>3, <1>8 DEF Step

\* The plans of a command, and of the ways out of a scan.
LEMMA ShortPlans ==
  /\ Shaped(Steps("scan", <<"GetVersion">>)) /\ Steps("scan", <<"GetVersion">>) \in Seq(StepSet)
  /\ Head(Steps("scan", <<"GetVersion">>)) = Step("scan", "GetVersion") /\ Len(Steps("scan", <<"GetVersion">>)) = 1
  /\ Steps("scan", <<"GetVersion">>)[1] = Step("scan", "GetVersion")
  /\ Shaped(Steps("lost", <<"RemoveInterface">>)) /\ Steps("lost", <<"RemoveInterface">>) \in Seq(StepSet)
  /\ Head(Steps("lost", <<"RemoveInterface">>)) = Step("lost", "RemoveInterface")
  /\ Len(Steps("lost", <<"RemoveInterface">>)) = 1
  /\ Steps("lost", <<"RemoveInterface">>)[1] = Step("lost", "RemoveInterface")
  /\ Shaped(LongScanPlan) /\ LongScanPlan \in Seq(StepSet) /\ Len(LongScanPlan) = 1
  /\ Head(LongScanPlan) = Step("scan", "AddInterface") /\ LongScanPlan[1] = Step("scan", "AddInterface")
<1>1. ASSUME NEW part \in Parts, NEW do \in Names, Belongs(Step(part, do)), Ends(Step(part, do))
      PROVE  /\ Shaped(Steps(part, <<do>>)) /\ Steps(part, <<do>>) \in Seq(StepSet) /\ Len(Steps(part, <<do>>)) = 1
             /\ Head(Steps(part, <<do>>)) = Step(part, do) /\ Steps(part, <<do>>)[1] = Step(part, do)
  <2> DEFINE s == <<do>>
  <2> DEFINE p == Steps(part, s)
  <2>1. s \in Seq(Names) /\ Len(s) = 1 /\ s[1] = do
    OBVIOUS
  <2> HIDE DEF s
  <2>2. p \in Seq(StepSet) /\ Len(p) = 1 /\ p[1] = Step(part, do)
    BY <2>1, StepsTyped
  <2> HIDE DEF p
  <2>3. DOMAIN p = {1} /\ Head(p) = Step(part, do) /\ Len(p) - 1 = 0
    BY <2>2
  <2>4. Shaped(p)
    BY <1>1, <2>2, <2>3 DEF Shaped
  <2> QED  BY <1>1, <2>2, <2>3, <2>4 DEF p, s
<1>2. /\ Belongs(Step("scan", "GetVersion")) /\ Ends(Step("scan", "GetVersion"))
      /\ Belongs(Step("lost", "RemoveInterface")) /\ Ends(Step("lost", "RemoveInterface"))
      /\ Belongs(Step("scan", "AddInterface")) /\ Ends(Step("scan", "AddInterface"))
      /\ {"scan", "lost"} \subseteq Parts
      /\ {"GetVersion", "RemoveInterface", "AddInterface"} \subseteq Names
  BY DEF Belongs, Ends, Step, Parts, Names
<1> QED  BY <1>1, <1>2 DEF LongScanPlan

\* The plans of the teardowns.
LEMMA LongerPlans ==
  /\ Shaped(Cleanup) /\ Cleanup \in Seq(StepSet) /\ Len(Cleanup) = 2
  /\ Head(Cleanup) = Step("cleanup", "RemoveInterface") /\ Cleanup[2] = Step("cleanup", "reset")
  /\ Shaped(DisconnectPlan) /\ DisconnectPlan \in Seq(StepSet) /\ Len(DisconnectPlan) = 4
  /\ Head(DisconnectPlan) = Step("cleanup", "deauth") /\ DisconnectPlan[4] = Step("cleanup", "reset")
  /\ LET p == Steps("lost", <<"Abort", "RemoveInterface">>)
     IN  Shaped(p) /\ p \in Seq(StepSet) /\ Head(p) = Step("lost", "Abort") /\ Len(p) = 2
         /\ p[2] = Step("lost", "RemoveInterface")
<1>1. ASSUME NEW part \in Parts, NEW a \in Names, NEW b \in Names,
             Belongs(Step(part, a)), Belongs(Step(part, b)), Adjacent(Step(part, a), Step(part, b)), Ends(Step(part, b))
      PROVE  LET p == Steps(part, <<a, b>>)
             IN  Shaped(p) /\ p \in Seq(StepSet) /\ Head(p) = Step(part, a) /\ Len(p) = 2 /\ p[2] = Step(part, b)
  <2> DEFINE s == <<a, b>>
  <2> DEFINE p == Steps(part, s)
  <2>1. s \in Seq(Names) /\ Len(s) = 2 /\ s[1] = a /\ s[2] = b
    OBVIOUS
  <2> HIDE DEF s
  <2>2. p \in Seq(StepSet) /\ Len(p) = 2 /\ p[1] = Step(part, a) /\ p[2] = Step(part, b)
    BY <2>1, StepsTyped
  <2> HIDE DEF p
  <2>3. DOMAIN p = 1 .. 2 /\ Head(p) = p[1] /\ p # <<>>
    BY <2>2
  <2>4. \A i \in DOMAIN p : Belongs(p[i])
    BY <1>1, <2>2, <2>3
  <2>5. \A i \in 1 .. Len(p) - 1 : Adjacent(p[i], p[i + 1])
    BY <1>1, <2>2, <2>3
  <2>6. Shaped(p)
    BY <1>1, <2>2, <2>4, <2>5 DEF Shaped
  <2> QED  BY <2>2, <2>3, <2>6 DEF p, s
<1>2. /\ Belongs(Step("cleanup", "RemoveInterface")) /\ Belongs(Step("cleanup", "reset"))
      /\ Belongs(Step("lost", "Abort")) /\ Belongs(Step("lost", "RemoveInterface"))
      /\ Ends(Step("cleanup", "reset")) /\ Ends(Step("lost", "RemoveInterface"))
      /\ {"cleanup", "lost"} \subseteq Parts /\ {"RemoveInterface", "reset", "Abort"} \subseteq Names
  BY DEF Belongs, Ends, Step, Parts, Names
<1>3. Adjacent(Step("cleanup", "RemoveInterface"), Step("cleanup", "reset"))
  BY DEF Adjacent, Step
<1>4. Adjacent(Step("lost", "Abort"), Step("lost", "RemoveInterface"))
  BY DEF Adjacent, Step
<1>5. /\ Shaped(Cleanup) /\ Cleanup \in Seq(StepSet) /\ Len(Cleanup) = 2
      /\ Head(Cleanup) = Step("cleanup", "RemoveInterface") /\ Cleanup[2] = Step("cleanup", "reset")
  BY <1>1, <1>2, <1>3 DEF Cleanup
<1>6. LET p == Steps("lost", <<"Abort", "RemoveInterface">>)
      IN  Shaped(p) /\ p \in Seq(StepSet) /\ Head(p) = Step("lost", "Abort") /\ Len(p) = 2
          /\ p[2] = Step("lost", "RemoveInterface")
  BY <1>1, <1>2, <1>4
<1>7. /\ Shaped(DisconnectPlan) /\ DisconnectPlan \in Seq(StepSet) /\ Len(DisconnectPlan) = 4
      /\ Head(DisconnectPlan) = Step("cleanup", "deauth") /\ DisconnectPlan[4] = Step("cleanup", "reset")
  <2> DEFINE s == <<"deauth", "None", "RemoveInterface", "reset">>
  <2> DEFINE p == DisconnectPlan
  <2>1. s \in Seq(Names) /\ Len(s) = 4
    BY DEF Names
  <2>2. /\ p \in Seq(StepSet) /\ Len(p) = 4 /\ \A i \in 1 .. 4 : p[i] = Step("cleanup", s[i])
    BY <2>1, StepsTyped DEF DisconnectPlan, Parts
  <2>3. /\ p[1] = Step("cleanup", "deauth") /\ p[2] = Step("cleanup", "None")
        /\ p[3] = Step("cleanup", "RemoveInterface") /\ p[4] = Step("cleanup", "reset")
    <3>1. 1 \in 1 .. 4 /\ 2 \in 1 .. 4 /\ 3 \in 1 .. 4 /\ 4 \in 1 .. 4
      OBVIOUS
    <3>2. s[1] = "deauth" /\ s[2] = "None" /\ s[3] = "RemoveInterface" /\ s[4] = "reset"
      OBVIOUS
    <3> HIDE DEF s, p
    <3> QED  BY <2>2, <3>1, <3>2
  <2> HIDE DEF p, s
  <2>4. DOMAIN p = 1 .. 4 /\ Head(p) = p[1]
    BY <2>2
  <2>5. /\ Belongs(p[1]) /\ Belongs(p[2]) /\ Belongs(p[3]) /\ Belongs(p[4]) /\ Ends(p[4])
    BY <2>3 DEF Belongs, Ends, Step
  <2>6. Adjacent(p[1], p[2]) /\ Adjacent(p[2], p[3]) /\ Adjacent(p[3], p[4])
    BY <2>3 DEF Adjacent, Step
  <2>7. \A i \in DOMAIN p : Belongs(p[i])
    BY <2>4, <2>5
  <2>8. \A i \in 1 .. Len(p) - 1 : Adjacent(p[i], p[i + 1])
    <3> SUFFICES ASSUME NEW i \in 1 .. 3 PROVE Adjacent(p[i], p[i + 1])
      BY <2>2
    <3>1. i = 1 \/ i = 2 \/ i = 3
      OBVIOUS
    <3> QED  BY <2>6, <3>1
  <2>9. Shaped(p)
    BY <2>2, <2>5, <2>7, <2>8 DEF Shaped
  <2> QED  BY <2>2, <2>3, <2>4, <2>9 DEF p
<1> QED  BY <1>5, <1>6, <1>7

\* The pieces of a connection.
LEMMA ChainPieces ==
  /\ <<"AddInterface">> \in Seq(Names) /\ Chain(<<"AddInterface">>)
  /\ ChannelPlan \in Seq(Names) /\ Len(ChannelPlan) = 2 /\ Chain(ChannelPlan)
  /\ ChannelPlan[1] = "SetChannel" /\ ChannelPlan[2] = "SetTxPower"
  /\ LET s == <<"BssConfig", "ConfigPs">> IN s \in Seq(Names) /\ Chain(s)
  /\ QosPlan \in Seq(Names) /\ Len(QosPlan) = 4 /\ QosPlan[1] = "SetQosParams" /\ QosPlan[4] = "SetQosParams"
  /\ Chain(QosPlan)
  /\ AuthPlan \in Seq(Names) /\ AuthPlan # <<>> /\ AuthPlan[1] \in {"commit", "auth"}
  /\ AuthPlan[Len(AuthPlan)] \in {"confirm", "auth"} /\ Chain(AuthPlan)
  /\ LET s == <<"Authenticated", "assoc">> IN s \in Seq(Names) /\ Chain(s)
  /\ LET s == <<"m1", "m3">> IN s \in Seq(Names) /\ Chain(s)
  /\ KeysPlan \in Seq(Names) /\ Len(KeysPlan) = 2 /\ Chain(KeysPlan)
  /\ KeysPlan[1] = "InstallPtk" /\ KeysPlan[2] = "InstallGtk"
  /\ <<"Authorized">> \in Seq(Names) /\ Chain(<<"Authorized">>)
  /\ <<"up">> \in Seq(Names) /\ Chain(<<"up">>)
<1>1. ASSUME NEW a \in Names, Belongs(Step("connect", a))
      PROVE  <<a>> \in Seq(Names) /\ Chain(<<a>>)
  <2> DEFINE s == <<a>>
  <2>1. s \in Seq(Names) /\ Len(s) = 1 /\ s[1] = a
    OBVIOUS
  <2> HIDE DEF s
  <2>2. 1 .. Len(s) = {1} /\ 1 .. Len(s) - 1 = {}
    BY <2>1
  <2>3. Chain(s)
    BY <1>1, <2>1, <2>2 DEF Chain
  <2> QED  BY <2>1, <2>3 DEF s
<1>2. ASSUME NEW a \in Names, NEW b \in Names, Belongs(Step("connect", a)), Belongs(Step("connect", b)),
             Adjacent(Step("connect", a), Step("connect", b))
      PROVE  <<a, b>> \in Seq(Names) /\ Chain(<<a, b>>)
  <2> DEFINE s == <<a, b>>
  <2>1. s \in Seq(Names) /\ Len(s) = 2 /\ s[1] = a /\ s[2] = b
    OBVIOUS
  <2> HIDE DEF s
  <2>2. \A i \in 1 .. Len(s) : Belongs(Step("connect", s[i]))
    BY <1>2, <2>1
  <2>3. \A i \in 1 .. Len(s) - 1 : Adjacent(Step("connect", s[i]), Step("connect", s[i + 1]))
    BY <1>2, <2>1
  <2>4. Chain(s)
    BY <2>2, <2>3 DEF Chain
  <2> QED  BY <2>1, <2>4 DEF s
<1>3. /\ \A a \in {"AddInterface", "SetChannel", "SetTxPower", "BssConfig", "ConfigPs", "SetQosParams", "auth", "commit",
                    "confirm", "Authenticated", "assoc", "m1", "m3", "InstallPtk", "InstallGtk", "Authorized", "up"} :
           a \in Names /\ Belongs(Step("connect", a))
  BY DEF Names, Belongs, Step
<1>4. /\ Adjacent(Step("connect", "SetChannel"), Step("connect", "SetTxPower"))
      /\ Adjacent(Step("connect", "BssConfig"), Step("connect", "ConfigPs"))
      /\ Adjacent(Step("connect", "SetQosParams"), Step("connect", "SetQosParams"))
      /\ Adjacent(Step("connect", "commit"), Step("connect", "confirm"))
      /\ Adjacent(Step("connect", "Authenticated"), Step("connect", "assoc"))
      /\ Adjacent(Step("connect", "m1"), Step("connect", "m3"))
      /\ Adjacent(Step("connect", "InstallPtk"), Step("connect", "InstallGtk"))
  BY DEF Adjacent, Step
<1>5. /\ <<"AddInterface">> \in Seq(Names) /\ Chain(<<"AddInterface">>)
      /\ <<"Authorized">> \in Seq(Names) /\ Chain(<<"Authorized">>)
      /\ <<"up">> \in Seq(Names) /\ Chain(<<"up">>)
  BY <1>1, <1>3
<1>6. ChannelPlan \in Seq(Names) /\ Chain(ChannelPlan)
  BY <1>2, <1>3, <1>4 DEF ChannelPlan
<1>7. Len(ChannelPlan) = 2 /\ ChannelPlan[1] = "SetChannel" /\ ChannelPlan[2] = "SetTxPower"
  BY DEF ChannelPlan
<1>8. LET s == <<"BssConfig", "ConfigPs">> IN s \in Seq(Names) /\ Chain(s)
  BY <1>2, <1>3, <1>4
<1>9. LET s == <<"Authenticated", "assoc">> IN s \in Seq(Names) /\ Chain(s)
  BY <1>2, <1>3, <1>4
<1>10. LET s == <<"m1", "m3">> IN s \in Seq(Names) /\ Chain(s)
  BY <1>2, <1>3, <1>4
<1>11. KeysPlan \in Seq(Names) /\ Chain(KeysPlan)
  BY <1>2, <1>3, <1>4 DEF KeysPlan
<1>12. Len(KeysPlan) = 2 /\ KeysPlan[1] = "InstallPtk" /\ KeysPlan[2] = "InstallGtk"
  BY DEF KeysPlan
<1>13. /\ QosPlan \in Seq(Names) /\ Len(QosPlan) = 4 /\ QosPlan[1] = "SetQosParams" /\ QosPlan[4] = "SetQosParams"
       /\ Chain(QosPlan)
  <2>1. QosPlan \in Seq(Names) /\ Len(QosPlan) = 4 /\ \A i \in 1 .. 4 : QosPlan[i] = "SetQosParams"
    BY DEF QosPlan, Names
  <2>2. Chain(QosPlan)
    BY <2>1, <1>3, <1>4 DEF Chain
  <2> QED  BY <2>1, <2>2
<1>14. /\ AuthPlan \in Seq(Names) /\ AuthPlan # <<>> /\ AuthPlan[1] \in {"commit", "auth"}
       /\ AuthPlan[Len(AuthPlan)] \in {"confirm", "auth"} /\ Chain(AuthPlan)
  <2>1. CASE secure
    <3>1. AuthPlan = <<"commit", "confirm">>
      BY <2>1 DEF AuthPlan
    <3>2. AuthPlan \in Seq(Names) /\ Chain(AuthPlan)
      BY <3>1, <1>2, <1>3, <1>4
    <3>3. Len(AuthPlan) = 2 /\ AuthPlan[1] = "commit" /\ AuthPlan[2] = "confirm"
      BY <3>1
    <3> QED  BY <3>2, <3>3
  <2>2. CASE ~secure
    <3>1. AuthPlan = <<"auth">>
      BY <2>2 DEF AuthPlan
    <3>2. AuthPlan \in Seq(Names) /\ Chain(AuthPlan)
      BY <3>1, <1>1, <1>3
    <3>3. Len(AuthPlan) = 1 /\ AuthPlan[1] = "auth"
      BY <3>1
    <3> QED  BY <3>2, <3>3, SMTT(60)
  <2> QED  BY <2>1, <2>2
<1> QED  BY <1>5, <1>6, <1>7, <1>8, <1>9, <1>10, <1>11, <1>12, <1>13, <1>14

\* From the authentication to the authorized port.
LEMMA AssociateChain ==
  /\ AssociatePlan \in Seq(Names) /\ AssociatePlan # <<>> /\ AssociatePlan[1] = "Authenticated"
  /\ AssociatePlan[Len(AssociatePlan)] = "Authorized" /\ Chain(AssociatePlan)
<1> DEFINE a == <<"Authenticated", "assoc">>
<1> DEFINE m == <<"m1", "m3">>
<1> DEFINE z == <<"Authorized">>
<1>1. /\ a \in Seq(Names) /\ m \in Seq(Names) /\ z \in Seq(Names) /\ KeysPlan \in Seq(Names)
      /\ Chain(a) /\ Chain(m) /\ Chain(z) /\ Chain(KeysPlan)
  BY ChainPieces
<1>2. /\ Len(a) = 2 /\ a[1] = "Authenticated" /\ a[2] = "assoc" /\ Len(m) = 2 /\ m[1] = "m1" /\ m[2] = "m3"
      /\ Len(z) = 1 /\ z[1] = "Authorized"
  OBVIOUS
<1>3. Len(KeysPlan) = 2 /\ KeysPlan[1] = "InstallPtk" /\ KeysPlan[2] = "InstallGtk"
  BY ChainPieces
<1>4. CASE secure
  <2>1. AssociatePlan = (a \o (m \o KeysPlan)) \o z
    BY <1>4 DEF AssociatePlan
  <2> HIDE DEF a, m, z
  <2>2. Adjacent(Step("connect", "m3"), Step("connect", "InstallPtk"))
        /\ Adjacent(Step("connect", "assoc"), Step("connect", "m1"))
        /\ Adjacent(Step("connect", "InstallGtk"), Step("connect", "Authorized"))
    BY DEF Adjacent, Step
  <2>3. a # <<>> /\ m # <<>> /\ z # <<>> /\ KeysPlan # <<>>
    BY <1>2, <1>3
  <2> DEFINE k == m \o KeysPlan
  <2>31. /\ Adjacent(Step("connect", m[Len(m)]), Step("connect", KeysPlan[1]))
         /\ KeysPlan[Len(KeysPlan)] = "InstallGtk"
    BY <1>2, <1>3, <2>2
  <2>4. k \in Seq(Names) /\ k # <<>> /\ Chain(k) /\ k[1] = "m1" /\ k[Len(k)] = "InstallGtk"
    BY <1>1, <1>2, <2>3, <2>31, ChainJoin
  <2> HIDE DEF k
  <2> DEFINE l == a \o k
  <2>41. Adjacent(Step("connect", a[Len(a)]), Step("connect", k[1]))
    BY <1>2, <2>2, <2>4
  <2>5. l \in Seq(Names) /\ l # <<>> /\ Chain(l) /\ l[1] = "Authenticated" /\ l[Len(l)] = "InstallGtk"
    BY <1>1, <1>2, <2>3, <2>4, <2>41, ChainJoin
  <2> HIDE DEF l
  <2> DEFINE r == l \o z
  <2>6. r \in Seq(Names) /\ r # <<>> /\ Chain(r) /\ r[1] = "Authenticated" /\ r[Len(r)] = "Authorized"
    BY <1>1, <1>2, <2>2, <2>3, <2>5, ChainJoin
  <2>7. AssociatePlan = r
    BY <2>1 DEF k, l
  <2> QED  BY <2>6, <2>7
<1>5. CASE ~secure
  <2>1. AssociatePlan = (a \o <<>>) \o z
    BY <1>5 DEF AssociatePlan
  <2> HIDE DEF a, z
  <2>2. a \o <<>> = a
    BY <1>1
  <2>3. Adjacent(Step("connect", "assoc"), Step("connect", "Authorized"))
    BY <1>5 DEF Adjacent, Step
  <2>4. a # <<>> /\ z # <<>>
    BY <1>2, SMTT(60)
  <2> DEFINE r == a \o z
  <2>6. r \in Seq(Names) /\ r # <<>> /\ Chain(r) /\ r[1] = "Authenticated" /\ r[Len(r)] = "Authorized"
    BY <1>1, <1>2, <2>3, <2>4, ChainJoin, SMTT(60)
  <2>7. AssociatePlan = r
    BY <2>1, <2>2
  <2> QED  BY <2>6, <2>7
<1> QED  BY <1>4, <1>5

\* The connection, from its interface to the link that is up.
LEMMA ConnectChain ==
  /\ ConnectPlan \in Seq(StepSet) /\ ConnectPlan # <<>> /\ Shaped(ConnectPlan)
  /\ ConnectPlan[1] = Step("connect", "AddInterface")
  /\ ConnectPlan[Len(ConnectPlan)] = Step("connect", "up")
<1> DEFINE a == <<"AddInterface">>
<1> DEFINE b == <<"BssConfig", "ConfigPs">>
<1> DEFINE u == <<"up">>
<1>1. /\ a \in Seq(Names) /\ b \in Seq(Names) /\ u \in Seq(Names) /\ ChannelPlan \in Seq(Names)
      /\ QosPlan \in Seq(Names) /\ AuthPlan \in Seq(Names) /\ AuthPlan # <<>>
      /\ Chain(a) /\ Chain(b) /\ Chain(u) /\ Chain(ChannelPlan) /\ Chain(QosPlan) /\ Chain(AuthPlan)
      /\ Len(ChannelPlan) = 2 /\ ChannelPlan[1] = "SetChannel" /\ ChannelPlan[2] = "SetTxPower"
      /\ Len(QosPlan) = 4 /\ QosPlan[1] = "SetQosParams" /\ QosPlan[4] = "SetQosParams"
      /\ AuthPlan[1] \in {"commit", "auth"} /\ AuthPlan[Len(AuthPlan)] \in {"confirm", "auth"}
  BY ChainPieces
<1>2. /\ Len(a) = 1 /\ a[1] = "AddInterface" /\ Len(b) = 2 /\ b[1] = "BssConfig" /\ b[2] = "ConfigPs"
      /\ Len(u) = 1 /\ u[1] = "up"
  OBVIOUS
<1>3. ConnectPlan = Steps("connect", (((((a \o ChannelPlan) \o b) \o QosPlan) \o AuthPlan) \o AssociatePlan) \o u)
  BY DEF ConnectPlan
<1> HIDE DEF a, b, u
<1>4. a # <<>> /\ b # <<>> /\ u # <<>> /\ ChannelPlan # <<>> /\ QosPlan # <<>>
  BY <1>1, <1>2
<1>5. /\ Adjacent(Step("connect", "AddInterface"), Step("connect", "SetChannel"))
      /\ Adjacent(Step("connect", "SetTxPower"), Step("connect", "BssConfig"))
      /\ Adjacent(Step("connect", "ConfigPs"), Step("connect", "SetQosParams"))
      /\ \A x \in {"commit", "auth"} : Adjacent(Step("connect", "SetQosParams"), Step("connect", x))
      /\ \A x \in {"confirm", "auth"} : Adjacent(Step("connect", x), Step("connect", "Authenticated"))
      /\ Adjacent(Step("connect", "Authorized"), Step("connect", "up"))
  BY DEF Adjacent, Step
<1> DEFINE p1 == a \o ChannelPlan
<1>110. /\ Adjacent(Step("connect", a[Len(a)]), Step("connect", ChannelPlan[1]))
        /\ ChannelPlan[Len(ChannelPlan)] = "SetTxPower"
  BY <1>1, <1>2, <1>5
<1>11. p1 \in Seq(Names) /\ p1 # <<>> /\ Chain(p1) /\ p1[1] = "AddInterface" /\ p1[Len(p1)] = "SetTxPower"
  BY <1>1, <1>2, <1>4, <1>110, ChainJoin, ZenonT(60)
<1> HIDE DEF p1
<1> DEFINE p2 == p1 \o b
<1>120. /\ Adjacent(Step("connect", p1[Len(p1)]), Step("connect", b[1]))
        /\ b[Len(b)] = "ConfigPs"
  BY <1>2, <1>5, <1>11
<1>12. p2 \in Seq(Names) /\ p2 # <<>> /\ Chain(p2) /\ p2[1] = "AddInterface" /\ p2[Len(p2)] = "ConfigPs"
  BY <1>1, <1>4, <1>11, <1>120, ChainJoin
<1> HIDE DEF p2
<1> DEFINE p3 == p2 \o QosPlan
<1>130. /\ Adjacent(Step("connect", p2[Len(p2)]), Step("connect", QosPlan[1]))
        /\ QosPlan[Len(QosPlan)] = "SetQosParams"
  BY <1>1, <1>5, <1>12
<1>13. p3 \in Seq(Names) /\ p3 # <<>> /\ Chain(p3) /\ p3[1] = "AddInterface" /\ p3[Len(p3)] = "SetQosParams"
  BY <1>1, <1>4, <1>12, <1>130, ChainJoin
<1> HIDE DEF p3
<1> DEFINE p4 == p3 \o AuthPlan
<1>14. p4 \in Seq(Names) /\ p4 # <<>> /\ Chain(p4) /\ p4[1] = "AddInterface" /\ p4[Len(p4)] \in {"confirm", "auth"}
  BY <1>1, <1>5, <1>13, ChainJoin
<1> HIDE DEF p4
<1> DEFINE p5 == p4 \o AssociatePlan
<1>15. p5 \in Seq(Names) /\ p5 # <<>> /\ Chain(p5) /\ p5[1] = "AddInterface" /\ p5[Len(p5)] = "Authorized"
  BY <1>5, <1>14, AssociateChain, ChainJoin
<1> HIDE DEF p5
<1> DEFINE p6 == p5 \o u
<1>16. p6 \in Seq(Names) /\ p6 # <<>> /\ Chain(p6) /\ p6[1] = "AddInterface" /\ p6[Len(p6)] = "up"
  BY <1>1, <1>2, <1>4, <1>5, <1>15, ChainJoin, SMTT(60)
<1> HIDE DEF p6
<1>17. ConnectPlan = Steps("connect", p6)
  BY <1>3 DEF p1, p2, p3, p4, p5, p6
<1>18. /\ ConnectPlan \in Seq(StepSet) /\ Len(ConnectPlan) = Len(p6)
       /\ \A i \in 1 .. Len(p6) : ConnectPlan[i] = Step("connect", p6[i])
  BY <1>16, <1>17, StepsTyped DEF Parts
<1>19. Len(p6) \in Nat \ {0} /\ DOMAIN ConnectPlan = 1 .. Len(p6) /\ ConnectPlan # <<>>
  BY <1>16, <1>18
<1>20. /\ ConnectPlan[1] = Step("connect", "AddInterface")
       /\ ConnectPlan[Len(ConnectPlan)] = Step("connect", "up")
  BY <1>16, <1>18, <1>19
<1>21. Ends(Step("connect", "up"))
  BY DEF Ends
<1>22. Shaped(ConnectPlan)
  <2>1. \A i \in DOMAIN ConnectPlan : Belongs(ConnectPlan[i])
    BY <1>16, <1>18, <1>19 DEF Chain
  <2>2. \A i \in 1 .. Len(ConnectPlan) - 1 : Adjacent(ConnectPlan[i], ConnectPlan[i + 1])
    <3> SUFFICES ASSUME NEW i \in 1 .. Len(p6) - 1 PROVE Adjacent(ConnectPlan[i], ConnectPlan[i + 1])
      BY <1>18
    <3>1. i \in 1 .. Len(p6) /\ i + 1 \in 1 .. Len(p6)
      BY <1>19
    <3>2. ConnectPlan[i] = Step("connect", p6[i]) /\ ConnectPlan[i + 1] = Step("connect", p6[i + 1])
      BY <1>18, <3>1
    <3> QED  BY <1>16, <3>2 DEF Chain
  <2> QED  BY <1>20, <1>21, <2>1, <2>2 DEF Shaped
<1> QED  BY <1>18, <1>19, <1>20, <1>22

\* The plan of `halow connect': the scan, what it found, and the connection.
Whole == ScanPlan \o Steps("connect", <<"found">>) \o ConnectPlan

LEMMA ShapedJoin ==
  ASSUME NEW s \in Seq(StepSet), NEW t \in Seq(StepSet), s # <<>>, t # <<>>,
         \A i \in 1 .. Len(s) : Belongs(s[i]), \A i \in 1 .. Len(s) - 1 : Adjacent(s[i], s[i + 1]),
         Shaped(t), Adjacent(s[Len(s)], t[1])
  PROVE  /\ s \o t \in Seq(StepSet) /\ s \o t # <<>> /\ Shaped(s \o t)
         /\ (s \o t)[1] = s[1] /\ (s \o t)[Len(s \o t)] = t[Len(t)]
<1> DEFINE r == s \o t
<1>1. /\ r \in Seq(StepSet) /\ Len(s) \in Nat \ {0} /\ Len(t) \in Nat \ {0} /\ Len(r) = Len(s) + Len(t)
      /\ \A i \in 1 .. Len(s) : r[i] = s[i]
      /\ \A i \in Len(s) + 1 .. Len(s) + Len(t) : r[i] = t[i - Len(s)]
  OBVIOUS
<1> HIDE DEF r
<1>2. /\ DOMAIN r = 1 .. Len(r) /\ DOMAIN t = 1 .. Len(t) /\ r # <<>>
  BY <1>1
<1>3. /\ \A i \in 1 .. Len(t) : Belongs(t[i])
      /\ \A i \in 1 .. Len(t) - 1 : Adjacent(t[i], t[i + 1])
      /\ Ends(t[Len(t)])
  BY <1>2 DEF Shaped
<1>4. \A i \in DOMAIN r : Belongs(r[i])
  <2> SUFFICES ASSUME NEW i \in 1 .. Len(r) PROVE Belongs(r[i])
    BY <1>2
  <2>1. CASE i <= Len(s)
    BY <2>1, <1>1
  <2>2. CASE i > Len(s)
    <3>1. i - Len(s) \in 1 .. Len(t) /\ i \in Len(s) + 1 .. Len(s) + Len(t)
      BY <2>2, <1>1
    <3>2. r[i] = t[i - Len(s)]
      BY <1>1, <3>1
    <3> QED  BY <3>1, <3>2, <1>3
  <2> QED  BY <2>1, <2>2, <1>1
<1>5. \A i \in 1 .. Len(r) - 1 : Adjacent(r[i], r[i + 1])
  <2> SUFFICES ASSUME NEW i \in 1 .. Len(r) - 1 PROVE Adjacent(r[i], r[i + 1])
    OBVIOUS
  <2>1. CASE i < Len(s)
    <3>1. i \in 1 .. Len(s) - 1 /\ r[i] = s[i] /\ r[i + 1] = s[i + 1]
      BY <2>1, <1>1
    <3> QED  BY <3>1
  <2>2. CASE i = Len(s)
    <3>1. i \in 1 .. Len(s) /\ i + 1 \in Len(s) + 1 .. Len(s) + Len(t) /\ (i + 1) - Len(s) = 1
      BY <2>2, <1>1
    <3>2. r[i] = s[Len(s)] /\ r[i + 1] = t[1]
      BY <2>2, <3>1, <1>1
    <3> QED  BY <3>2
  <2>3. CASE i > Len(s)
    <3>1. /\ i - Len(s) \in 1 .. Len(t) - 1 /\ i \in Len(s) + 1 .. Len(s) + Len(t)
          /\ i + 1 \in Len(s) + 1 .. Len(s) + Len(t) /\ (i + 1) - Len(s) = (i - Len(s)) + 1
      BY <2>3, <1>1
    <3>2. r[i] = t[i - Len(s)] /\ r[i + 1] = t[(i - Len(s)) + 1]
      BY <3>1, <1>1
    <3> QED  BY <3>1, <3>2, <1>3
  <2> QED  BY <2>1, <2>2, <2>3, <1>1
<1>6. r[Len(r)] = t[Len(t)] /\ r[1] = s[1]
  <2>1. Len(r) \in Len(s) + 1 .. Len(s) + Len(t) /\ Len(r) - Len(s) = Len(t) /\ 1 \in 1 .. Len(s)
    BY <1>1
  <2> QED  BY <1>1, <2>1
<1>7. Shaped(r)
  BY <1>3, <1>4, <1>5, <1>6 DEF Shaped
<1> QED  BY <1>1, <1>2, <1>6, <1>7 DEF r

\* The plan of `halow connect' is well shaped.
LEMMA WholeShaped ==
  /\ Whole \in Seq(StepSet) /\ Whole # <<>> /\ Shaped(Whole) /\ Head(Whole) = Step("scan", "AddInterface")
  /\ Whole[Len(Whole)] = Step("connect", "up")
<1> DEFINE f == Steps("connect", <<"found">>)
<1>1. /\ f \in Seq(StepSet) /\ Len(f) = 1 /\ f[1] = Step("connect", "found")
  <2> DEFINE n == <<"found">>
  <2>1. n \in Seq(Names) /\ Len(n) = 1 /\ n[1] = "found"
    BY DEF Names
  <2> HIDE DEF n
  <2>2. LET g == Steps("connect", n) IN g \in Seq(StepSet) /\ Len(g) = 1 /\ g[1] = Step("connect", "found")
    BY <2>1, StepsTyped DEF Parts
  <2> QED  BY <2>2 DEF n
<1>2. Whole = ScanPlan \o f \o ConnectPlan
  BY DEF Whole
<1> HIDE DEF f
<1>31. f # <<>>
  BY <1>1
<1>3. /\ f # <<>> /\ ScanPlan # <<>> /\ ConnectPlan # <<>> /\ ConnectPlan \in Seq(StepSet)
      /\ ScanPlan \in Seq(StepSet) /\ Shaped(ConnectPlan)
      /\ ConnectPlan[1] = Step("connect", "AddInterface")
      /\ ConnectPlan[Len(ConnectPlan)] = Step("connect", "up")
  BY <1>31, ScanShaped, ConnectChain
<1>4. /\ Adjacent(Step("connect", "found"), Step("connect", "AddInterface"))
      /\ Adjacent(Step("scan", "RemoveInterface"), Step("connect", "found"))
      /\ Belongs(Step("connect", "found"))
  BY DEF Adjacent, Belongs, Step
<1> DEFINE q == f \o ConnectPlan
<1>5. /\ \A i \in 1 .. Len(f) : Belongs(f[i])
      /\ \A i \in 1 .. Len(f) - 1 : Adjacent(f[i], f[i + 1])
      /\ Adjacent(f[Len(f)], ConnectPlan[1])
  BY <1>1, <1>3, <1>4
<1>6. /\ q \in Seq(StepSet) /\ q # <<>> /\ Shaped(q) /\ q[1] = Step("connect", "found")
      /\ q[Len(q)] = Step("connect", "up")
  BY <1>1, <1>3, <1>5, ShapedJoin
<1> HIDE DEF q
<1>7. /\ Len(ScanPlan) = 4 /\ DOMAIN ScanPlan = 1 .. 4 /\ Shaped(ScanPlan)
      /\ ScanPlan[4] = Step("scan", "RemoveInterface") /\ ScanPlan[1] = Step("scan", "AddInterface")
  BY ScanShaped
<1>8. /\ \A i \in 1 .. Len(ScanPlan) : Belongs(ScanPlan[i])
      /\ \A i \in 1 .. Len(ScanPlan) - 1 : Adjacent(ScanPlan[i], ScanPlan[i + 1])
      /\ Adjacent(ScanPlan[Len(ScanPlan)], q[1])
  BY <1>4, <1>6, <1>7 DEF Shaped
<1> DEFINE w == ScanPlan \o q
<1>9. /\ w \in Seq(StepSet) /\ w # <<>> /\ Shaped(w) /\ w[1] = Step("scan", "AddInterface")
      /\ w[Len(w)] = Step("connect", "up")
  BY <1>3, <1>6, <1>7, <1>8, ShapedJoin
<1>10. Whole = w
  BY <1>1, <1>2, <1>3, SMTT(60) DEF q
<1> HIDE DEF w
<1>11. Head(w) = w[1]
  BY <1>9
<1> QED  BY <1>9, <1>10, <1>11

\* A plan is well shaped whatever else happens.
LEMMA ShapedStays ==
  ASSUME NEW q, secure' = secure, console'.plan = q, Shaped(q)
  PROVE  Shaped(console.plan)'
BY DEF Shaped, Adjacent

\* Going on with another plan, with the rest of this one, or after a failure.
LEMMA ContinuesFacts ==
  ASSUME Typed, NEW q \in Seq(StepSet), Shaped(q)
  PROVE  /\ Continues(q) \in ConsoleType /\ Continues(q).plan = q /\ Continues(q).phase = "ready"
         /\ q # <<>> => Continues(q).vif = console.vif
         /\ q = <<>> => Continues(q) = Idle
<1>1. Idle \in ConsoleType /\ Idle.plan = <<>> /\ Idle.phase = "ready"
  BY DEF Idle, ConsoleType
<1>2. CASE q = <<>>
  BY <1>1, <1>2 DEF Continues
<1>3. CASE q # <<>>
  <2>1. Continues(q) = [console EXCEPT !.plan = q, !.phase = "ready", !.tries = 0]
    BY <1>3 DEF Continues
  <2>2. console \in ConsoleType
    BY DEF Typed
  <2>3. /\ Continues(q).plan = q /\ Continues(q).phase = "ready" /\ Continues(q).vif = console.vif
    BY <2>1, <2>2 DEF ConsoleType
  <2>4. /\ Continues(q) = [plan |-> q, phase |-> "ready", tries |-> 0, vif |-> console.vif, found |-> console.found]
        /\ console.vif \in Vifs \cup {NoVif} /\ console.found \in BOOLEAN
    BY <2>1, <2>2 DEF ConsoleType
  <2>5. Continues(q) \in ConsoleType
    BY <2>4 DEF ConsoleType
  <2> QED  BY <1>3, <2>3, <2>5
<1> QED  BY <1>2, <1>3

\* Going on with the rest of the plan.
LEMMA AdvanceFacts ==
  ASSUME Typed, Shaped(console.plan), Busy
  PROVE  /\ Advance \in ConsoleType /\ Advance.phase = "ready" /\ Shaped(Advance.plan)
         /\ Todo \in StepSet /\ Belongs(Todo)
         /\ Advance.plan = <<>> => Ends(Todo) /\ Advance = Idle
         /\ Advance.plan # <<>> =>
              /\ Advance.vif = console.vif /\ Adjacent(Todo, Head(Advance.plan))
              /\ Head(Advance.plan) \in StepSet /\ Belongs(Head(Advance.plan))
              /\ Advance.plan[Len(Advance.plan)] = console.plan[Len(console.plan)]
<1>1. console.plan \in Seq(StepSet) /\ console.plan # <<>>
  BY DEF Typed, ConsoleType, Busy
<1> DEFINE q == Tail(console.plan)
<1>2. /\ Todo \in StepSet /\ Belongs(Todo) /\ q \in Seq(StepSet) /\ Shaped(q)
      /\ q = <<>> => Ends(Todo)
      /\ q # <<>> => /\ Adjacent(Todo, Head(q)) /\ Head(q) \in StepSet /\ Belongs(Head(q))
                      /\ q[Len(q)] = console.plan[Len(console.plan)]
  BY <1>1, TailShaped DEF Todo
<1>3. Advance = Continues(q)
  BY DEF Advance
<1> HIDE DEF q
<1>4. /\ Continues(q) \in ConsoleType /\ Continues(q).plan = q /\ Continues(q).phase = "ready"
      /\ q # <<>> => Continues(q).vif = console.vif
      /\ q = <<>> => Continues(q) = Idle
  BY <1>2, ContinuesFacts
<1> QED  BY <1>2, <1>3, <1>4

\* Going on after a step that failed.
LEMMA FailedFacts ==
  ASSUME Typed, Shaped(console.plan), Busy
  PROVE  /\ Failed \in ConsoleType /\ Failed.phase = "ready" /\ Shaped(Failed.plan)
         /\ \/ Failed = Advance /\ Todo.part \in {"cleanup", "scan", "lost"} /\ Todo.do \notin {"AddInterface", "HwScan"}
            \/ Failed = Idle /\ Todo.do = "AddInterface"
            \/ /\ Todo.part = "scan" /\ Todo.do = "HwScan" /\ Failed.plan # <<>> /\ Failed.vif = console.vif
               /\ Head(Failed.plan) = Step("lost", "RemoveInterface")
               /\ Failed.plan[Len(Failed.plan)].do # "up"
            \/ /\ Todo.part = "connect" /\ Todo.do # "AddInterface" /\ Failed.plan # <<>> /\ Failed.vif = console.vif
               /\ Head(Failed.plan) = Step("cleanup", "RemoveInterface")
               /\ Failed.plan[Len(Failed.plan)].do # "up"
<1>1. /\ Advance \in ConsoleType /\ Advance.phase = "ready" /\ Shaped(Advance.plan) /\ Todo \in StepSet /\ Belongs(Todo)
  BY AdvanceFacts
<1> DEFINE l == Steps("lost", <<"RemoveInterface">>)
<1>2. /\ Shaped(l) /\ l \in Seq(StepSet) /\ Head(l) = Step("lost", "RemoveInterface") /\ Len(l) = 1
      /\ l[1] = Step("lost", "RemoveInterface")
  BY ShortPlans
<1>3. /\ Shaped(Cleanup) /\ Cleanup \in Seq(StepSet) /\ Len(Cleanup) = 2
      /\ Head(Cleanup) = Step("cleanup", "RemoveInterface") /\ Cleanup[2] = Step("cleanup", "reset")
  BY LongerPlans
<1>4. Idle \in ConsoleType /\ Idle.plan = <<>> /\ Idle.phase = "ready" /\ Shaped(Idle.plan)
  BY DEF Idle, ConsoleType, Shaped
<1>10. Todo.part \in Parts /\ (Todo.part = "lost" => Todo.do # "HwScan")
  BY <1>1 DEF StepSet, Belongs
<1>11. (Todo = Step("scan", "HwScan")) <=> (Todo.part = "scan" /\ Todo.do = "HwScan")
  BY <1>1 DEF StepSet, Step
<1>5. CASE Todo.part = "cleanup"
  <2>1. Failed = Advance
    BY <1>5 DEF Failed
  <2>2. Todo.do \notin {"AddInterface", "HwScan"}
    BY <1>1, <1>5 DEF Belongs
  <2> QED  BY <1>1, <1>5, <2>1, <2>2
<1>6. CASE Todo.part # "cleanup" /\ Todo.do = "AddInterface"
  <2>1. Failed = Idle
    BY <1>6 DEF Failed
  <2> QED  BY <1>4, <1>6, <2>1
<1>7. CASE Todo.part = "scan" /\ Todo.do = "HwScan"
  <2>1. Failed = Continues(l)
    BY <1>7, <1>10, <1>11 DEF Failed
  <2> HIDE DEF l
  <2>2. /\ l # <<>> /\ l[Len(l)].do # "up"
    <3>1. l # <<>>
      BY <1>2
    <3>2. l[1].do # "up"
      BY <1>2 DEF Step
    <3> QED  BY <1>2, <3>1, <3>2
  <2>3. /\ Continues(l) \in ConsoleType /\ Continues(l).plan = l /\ Continues(l).phase = "ready"
        /\ Continues(l).vif = console.vif
    BY <1>2, <2>2, ContinuesFacts
  <2> QED  BY <1>2, <1>7, <2>1, <2>2, <2>3
<1>8. CASE Todo.part \in {"lost", "scan"} /\ Todo.do \notin {"AddInterface", "HwScan"}
  <2>1. Failed = Advance
    BY <1>8, <1>10, <1>11 DEF Failed
  <2> QED  BY <1>1, <1>8, <2>1
<1>9. CASE Todo.part = "connect" /\ Todo.do # "AddInterface"
  <2>1. Failed = Continues(Cleanup)
    BY <1>9, <1>10, <1>11 DEF Failed
  <2>2. /\ Cleanup # <<>> /\ Cleanup[Len(Cleanup)].do # "up"
    <3>1. Cleanup # <<>>
      BY <1>3
    <3> QED  BY <1>3, <3>1 DEF Step
  <2>3. /\ Continues(Cleanup) \in ConsoleType /\ Continues(Cleanup).plan = Cleanup /\ Continues(Cleanup).phase = "ready"
        /\ Continues(Cleanup).vif = console.vif
    BY <1>3, <2>2, ContinuesFacts
  <2> QED  BY <1>3, <1>9, <2>1, <2>2, <2>3
<1> QED  BY <1>5, <1>6, <1>7, <1>8, <1>9, <1>10 DEF Parts
-----------------------------------------------------------------------------
\* What becomes of the first step when the plan stays, goes on, fails or starts.
LEMMA ConsoleStays ==
  ASSUME Typed, Shaped(console.plan), console' = console, secure' = secure
  PROVE  /\ console' \in ConsoleType /\ Shaped(console.plan)' /\ Todo' = Todo /\ Pos' = Pos
         /\ (Busy' <=> Busy) /\ (Connecting' <=> Connecting)
<1>1. Shaped(console.plan)'
  BY ShapedStays
<1>2. console' \in ConsoleType
  BY DEF Typed
<1>3. Todo' = Todo /\ (Busy' <=> Busy)
  BY DEF Todo, Busy
<1>4. Connecting' <=> Connecting
  BY <1>3 DEF Connecting
<1>5. Pos' = Pos
  BY <1>3 DEF Pos
<1> QED  BY <1>1, <1>2, <1>3, <1>4, <1>5

LEMMA ConsoleGoesOn ==
  ASSUME Typed, Shaped(console.plan), Busy, secure' = secure, console'.plan = Advance.plan
  PROVE  /\ Shaped(console.plan)'
         /\ Busy' => Adjacent(Todo, Todo') /\ Belongs(Todo') /\ Todo' \in StepSet
         /\ ~Busy' => Ends(Todo)
         /\ Connecting' => Connecting
<1>1. /\ Advance \in ConsoleType /\ Shaped(Advance.plan)
      /\ Advance.plan = <<>> => Ends(Todo)
      /\ Advance.plan # <<>> =>
           /\ Adjacent(Todo, Head(Advance.plan))
           /\ Head(Advance.plan) \in StepSet /\ Belongs(Head(Advance.plan))
           /\ Advance.plan[Len(Advance.plan)] = console.plan[Len(console.plan)]
  BY AdvanceFacts
<1>2. Shaped(console.plan)'
  BY <1>1, ShapedStays
<1>3. (Busy' <=> Advance.plan # <<>>) /\ Todo' = Head(Advance.plan)
  BY DEF Busy, Todo
<1>4. Connecting' => Connecting
  BY <1>1, <1>3 DEF Connecting
<1> QED  BY <1>1, <1>2, <1>3, <1>4

LEMMA ConsoleFails ==
  ASSUME Typed, Shaped(console.plan), Busy, secure' = secure, console' = Failed
  PROVE  /\ Shaped(console.plan)' /\ console' \in ConsoleType /\ console'.phase = "ready"
         /\ Todo \in StepSet /\ Belongs(Todo)
         /\ Busy' => console'.vif = console.vif /\ Todo' \in StepSet /\ Belongs(Todo')
         /\ \/ /\ Todo.part \in {"cleanup", "scan", "lost"} /\ Todo.do \notin {"AddInterface", "HwScan"}
               /\ Busy' => Adjacent(Todo, Todo')
               /\ ~Busy' => Ends(Todo)
               /\ Connecting' => Connecting
            \/ Todo.do = "AddInterface" /\ ~Busy' /\ ~Connecting'
            \/ /\ Todo = Step("scan", "HwScan") /\ Busy' /\ Todo' = Step("lost", "RemoveInterface") /\ ~Connecting'
            \/ /\ Todo.part = "connect" /\ Todo.do # "AddInterface"
               /\ Busy' /\ Todo' = Step("cleanup", "RemoveInterface") /\ ~Connecting'
<1>1. /\ Failed \in ConsoleType /\ Failed.phase = "ready" /\ Shaped(Failed.plan) /\ Todo \in StepSet /\ Belongs(Todo)
  BY FailedFacts, AdvanceFacts
<1>2. Shaped(console.plan)'
  BY <1>1, ShapedStays
<1>3. (Busy' <=> Failed.plan # <<>>) /\ Todo' = Head(Failed.plan)
      /\ (Connecting' <=> Failed.plan # <<>> /\ Failed.plan[Len(Failed.plan)].do = "up")
  BY DEF Busy, Todo, Connecting
<1>4. CASE Failed = Advance /\ Todo.part \in {"cleanup", "scan", "lost"} /\ Todo.do \notin {"AddInterface", "HwScan"}
  <2>1. /\ Busy' => Adjacent(Todo, Todo') /\ Belongs(Todo') /\ Todo' \in StepSet
        /\ ~Busy' => Ends(Todo)
        /\ Connecting' => Connecting
    BY <1>4, ConsoleGoesOn
  <2>2. Busy' => console'.vif = console.vif
    BY <1>3, <1>4, AdvanceFacts
  <2> QED  BY <1>1, <1>2, <1>4, <2>1, <2>2
<1>5. CASE Failed = Idle /\ Todo.do = "AddInterface"
  <2>1. ~Busy' /\ ~Connecting'
    BY <1>3, <1>5 DEF Idle
  <2> QED  BY <1>1, <1>2, <1>5, <2>1
<1>6. CASE /\ Todo.part = "scan" /\ Todo.do = "HwScan" /\ Failed.plan # <<>> /\ Failed.vif = console.vif
           /\ Head(Failed.plan) = Step("lost", "RemoveInterface")
           /\ Failed.plan[Len(Failed.plan)].do # "up"
  <2>1. Todo = Step("scan", "HwScan")
    BY <1>1, <1>6 DEF Step, StepSet
  <2>2. Step("lost", "RemoveInterface") \in StepSet /\ Belongs(Step("lost", "RemoveInterface"))
    BY DEF Step, StepSet, Parts, Names, Belongs
  <2> QED  BY <1>1, <1>2, <1>3, <1>6, <2>1, <2>2
<1>7. CASE /\ Todo.part = "connect" /\ Todo.do # "AddInterface" /\ Failed.plan # <<>> /\ Failed.vif = console.vif
           /\ Head(Failed.plan) = Step("cleanup", "RemoveInterface")
           /\ Failed.plan[Len(Failed.plan)].do # "up"
  <2>2. Step("cleanup", "RemoveInterface") \in StepSet /\ Belongs(Step("cleanup", "RemoveInterface"))
    BY DEF Step, StepSet, Parts, Names, Belongs
  <2> QED  BY <1>1, <1>2, <1>3, <1>7, <2>2
<1> QED  BY <1>4, <1>5, <1>6, <1>7, FailedFacts

LEMMA ConsoleStarts ==
  ASSUME Typed, secure' = secure, NEW p \in Seq(StepSet), p # <<>>, Shaped(p), console' = [Idle EXCEPT !.plan = p]
  PROVE  /\ Shaped(console.plan)' /\ console' \in ConsoleType /\ console'.phase = "ready"
         /\ Busy' /\ Todo' = Head(p) /\ (Connecting' <=> p[Len(p)].do = "up")
<1>1. /\ console'.plan = p /\ console'.phase = "ready"
      /\ console' = [plan |-> p, phase |-> "ready", tries |-> 0, vif |-> NoVif, found |-> FALSE]
  BY DEF Idle
<1>2. console' \in ConsoleType
  <2> DEFINE v == NoVif
  <2> DEFINE f == FALSE
  <2>1. v \in Vifs \cup {NoVif} /\ f \in BOOLEAN
    OBVIOUS
  <2>2. console' = [plan |-> p, phase |-> "ready", tries |-> 0, vif |-> v, found |-> f]
    BY <1>1
  <2> HIDE DEF v, f
  <2>3. [plan |-> p, phase |-> "ready", tries |-> 0, vif |-> v, found |-> f] \in ConsoleType
    <3>1. p \in Seq(StepSet) /\ "ready" \in {"ready", "sent", "wait"} /\ 0 \in Nat
      OBVIOUS
    <3> QED  BY <2>1, <3>1 DEF ConsoleType
  <2> QED  BY <2>2, <2>3
<1>3. Shaped(console.plan)'
  BY <1>1, ShapedStays
<1>4. Busy' /\ Todo' = Head(p) /\ (Connecting' <=> p[Len(p)].do = "up")
  BY <1>1 DEF Busy, Todo, Connecting
<1> QED  BY <1>1, <1>2, <1>3, <1>4
-----------------------------------------------------------------------------
\* One lemma for each action.
LEMMA GatherKeeps == ASSUME Supervised, Gather PROVE Supervised'
<1> USE DEF Supervised
<1>1. /\ secure' = secure /\ console' = console /\ tasks' = tasks /\ handle' = handle /\ link' = link /\ cmd' = cmd
      /\ chip' = chip /\ due = {}
  BY DEF Gather
<1>2. /\ console' \in ConsoleType /\ Shaped(console.plan)' /\ Todo' = Todo /\ Pos' = Pos
      /\ (Busy' <=> Busy) /\ (Connecting' <=> Connecting)
  BY <1>1, ConsoleStays
<1>3. /\ due' \subseteq {Console} \cup LinkIds
      /\ Console \in due' => Busy
      /\ \A t \in LinkIds : tasks[t] \in {"loop", "remove", "reset"} => t \in due'
  <2>1. PICK late \in SUBSET (Possible \ Certain) : due' = Certain \cup late
    BY DEF Gather
  <2>2. /\ Certain \subseteq {Console} \cup LinkIds /\ Possible \subseteq {Console} \cup LinkIds
        /\ Console \notin LinkIds
    BY DEF Certain, Possible, Console, LinkIds
  <2>3. Console \in Certain \cup Possible => Busy
    BY <2>2 DEF Certain, Possible, Busy
  <2>4. \A t \in LinkIds : tasks[t] \in {"loop", "remove", "reset"} => t \in Certain
    BY DEF Certain
  <2> QED  BY <2>1, <2>2, <2>3, <2>4
<1>4. Typed'
  BY <1>1, <1>2, <1>3 DEF Typed, ChipTyped
<1>5. CmdKnown'
  BY <1>1, <1>2, <1>3 DEF CmdKnown, VifOf
<1>6. TasksKnown'
  <2>1. Alive' = Alive
    BY <1>1 DEF Alive
  <2>2. ASSUME NEW t \in Alive, Behind(t), ~link.up PROVE Behind(t)'
    <3>1. t \in LinkIds /\ tasks[t] \in Places \ {"none", "over"}
      BY DEF Alive, Typed
    <3>2. Pos \in 0 .. 4
      BY DEF Pos
    <3>3. One(Console \in due') >= 0 /\ One(Console \in due) = 0 /\ One(t \in due) = 0 /\ One(t \in due') >= 0
      BY <1>1 DEF One
    <3>4. CASE tasks[t] = "removing"
      BY <1>1, <1>2, <2>2, <3>4 DEF Behind
    <3>5. CASE tasks[t] # "removing" /\ Pos <= Gone(t) + One(t \in due') - One(Console \in due')
      BY <1>1, <1>2, <2>2, <3>5 DEF Behind, Gone
    <3>6. CASE tasks[t] # "removing" /\ ~(Pos <= Gone(t) + One(t \in due') - One(Console \in due'))
      <4>1. Pos <= Gone(t) /\ Todo.part = "scan" /\ Gone(t) \in 0 .. 3
        BY <1>1, <2>2, <3>6, <3>3 DEF Behind, Gone
      <4>2. t \notin due'
        BY <4>1, <3>2, <3>6 DEF One
      <4>3. tasks[t] \in {"waiting", "sending", "delivering"}
        BY <4>2, <1>3, <3>1, <3>6 DEF Places
      <4> QED  BY <4>3, <2>2 DEF TasksKnown
    <3> QED  BY <3>4, <3>5, <3>6
  <2> QED  BY <1>1, <1>2, <2>1, <2>2 DEF TasksKnown
<1>7. UpKnown'
  BY <1>1, <1>2 DEF UpKnown, Alive, Scanning
<1>8. KeysKnown'
  BY <1>1, <1>2 DEF KeysKnown, Added, KeysBeforePort
<1>9. AllOwned'
  BY <1>1, <1>2 DEF AllOwned, Owned, Scanning, Added, Removed, Alive
<1> QED  BY <1>2, <1>4, <1>5, <1>6, <1>7, <1>8, <1>9

LEMMA StartConnectKeeps == ASSUME Supervised, StartConnect PROVE Supervised'
<1> USE DEF Supervised
<1>1. /\ secure' = secure /\ due' = due /\ tasks' = tasks /\ handle' = handle /\ link' = link /\ cmd' = cmd
      /\ chip' = chip /\ ~link.up /\ ~Busy /\ console' = [Idle EXCEPT !.plan = Whole]
  BY DEF StartConnect, MayStart, Whole, Busy
<1>2. /\ Shaped(console.plan)' /\ console' \in ConsoleType /\ console'.phase = "ready"
      /\ Busy' /\ Todo' = Step("scan", "AddInterface")
  BY <1>1, WholeShaped, ConsoleStarts
<1>3. Typed'
  BY <1>1, <1>2 DEF Typed, ChipTyped
<1>4. Todo'.part = "scan" /\ Todo'.do = "AddInterface"
  BY <1>2 DEF Step
<1>5. cmd.owner # Console /\ Console \notin due /\ (\A t \in LinkIds : tasks[t] = "removing" <=> cmd.owner = t)
  BY <1>1 DEF CmdKnown
<1>6. CmdKnown'
  BY <1>1, <1>2, <1>5 DEF CmdKnown
<1>7. TasksKnown'
  <2>1. Alive' = Alive
    BY <1>1 DEF Alive
  <2>2. ASSUME NEW t \in Alive PROVE Behind(t)'
    <3>1. t \in LinkIds /\ tasks[t] \in Places \ {"none", "over"} /\ Pos' = 0
      BY <1>2, <1>4 DEF Alive, Typed, Pos
    <3>2. tasks[t] \in {"loop", "remove", "removing", "reset"}
      BY <1>1, <3>1 DEF TasksKnown, Places
    <3> QED  BY <1>1, <1>4, <1>5, <3>1, <3>2 DEF Behind, Gone, One
  <2> QED  BY <1>1, <1>2, <1>4, <2>1, <2>2 DEF TasksKnown
<1>8. UpKnown'
  BY <1>1 DEF UpKnown
<1>9. KeysKnown'
  BY <1>1, <1>4 DEF KeysKnown, Added, KeysBeforePort
<1>10. AllOwned'
  BY <1>1, <1>2, <1>4 DEF AllOwned, Owned, Scanning, Added, Removed, Alive
<1> QED  BY <1>2, <1>3, <1>6, <1>7, <1>8, <1>9, <1>10

\* A step that leaves the invariant's variables as they are.
LEMMA QuietKeeps ==
  ASSUME Supervised, secure' = secure, console' = console, tasks' = tasks, handle' = handle, link' = link, cmd' = cmd,
         due' = due, chip'.ifaces = chip.ifaces, chip'.stray = chip.stray,
         chip' = [ifaces |-> chip'.ifaces, scans |-> chip'.scans, stray |-> chip'.stray]
  PROVE  Supervised'
<1> USE DEF Supervised
<1>2. /\ console' \in ConsoleType /\ Shaped(console.plan)' /\ Todo' = Todo /\ Pos' = Pos
      /\ (Busy' <=> Busy) /\ (Connecting' <=> Connecting)
  BY ConsoleStays
<1>4. Typed'
  BY <1>2 DEF Typed, ChipTyped
<1>5. CmdKnown'
  BY <1>2 DEF CmdKnown, VifOf
<1>6. TasksKnown'
  <2>1. Alive' = Alive
    BY DEF Alive
  <2>2. ASSUME NEW t \in Alive, Behind(t) PROVE Behind(t)'
    BY <1>2, <2>2 DEF Behind, Gone
  <2> QED  BY <1>2, <2>1, <2>2 DEF TasksKnown
<1>7. UpKnown'
  BY <1>2 DEF UpKnown, Alive, Scanning
<1>8. KeysKnown'
  BY <1>2 DEF KeysKnown, Added, KeysBeforePort
<1>9. AllOwned'
  BY <1>2 DEF AllOwned, Owned, Scanning, Added, Removed, Alive
<1> QED  BY <1>2, <1>4, <1>5, <1>6, <1>7, <1>8, <1>9

\* What the chip and the access point do by themselves.
LEMMA OutsideKeeps ==
  ASSUME Supervised, ScanResult \/ ScanDone \/ BeaconLoss \/ ApReplies \/ ApSends
  PROVE  Supervised'
<1>1. /\ secure' = secure /\ console' = console /\ tasks' = tasks /\ handle' = handle /\ link' = link /\ cmd' = cmd
      /\ due' = due /\ (chip' = chip \/ chip' = [chip EXCEPT !.scans = FALSE])
  BY DEF ScanResult, ScanDone, BeaconLoss, ApReplies, ApSends
<1>2. chip = [ifaces |-> chip.ifaces, scans |-> chip.scans, stray |-> chip.stray]
  BY DEF Supervised, Typed, ChipTyped
<1>3. /\ chip'.ifaces = chip.ifaces /\ chip'.stray = chip.stray
      /\ chip' = [ifaces |-> chip'.ifaces, scans |-> chip'.scans, stray |-> chip'.stray]
  BY <1>1, <1>2
<1> QED  BY <1>1, <1>3, QuietKeeps

\* While no command of the console is in flight, the only one there may be removes an interface.
LEMMA NotConsole ==
  ASSUME Supervised, console.phase # "sent"
  PROVE  cmd.owner # Console /\ (cmd.do = "RemoveInterface" \/ cmd = NoCmd) /\ (cmd.owner \in LinkIds \/ cmd = NoCmd)
BY DEF Supervised, CmdKnown, Typed, CmdType

\* What an exchange, the collection or the look at the scan's result makes of the plan: it stays,
\* goes on, is given up for the way out, or ends.
Moves ==
  \/ Busy' /\ Todo' = Todo /\ (Connecting' => Connecting)
  \/ Busy' /\ Adjacent(Todo, Todo') /\ (Connecting' => Connecting)
  \/ Busy' /\ Todo' = Step("lost", "Abort") /\ Todo.part = "scan" /\ ~Connecting'
  \/ Busy' /\ Todo' = Step("cleanup", "RemoveInterface") /\ Todo.part = "connect" /\ Todo.do # "found" /\ ~Connecting'
  \/ ~Busy' /\ Todo.do = "found"

\* The console after such a step.
Fine ==
  /\ console' \in ConsoleType /\ Shaped(console.plan)' /\ console'.phase # "sent"
  /\ console'.phase = "wait" => Busy' /\ Todo'.do \in Exchanges
  /\ Busy' => console'.vif = console.vif /\ Todo' \in StepSet /\ Belongs(Todo')
  /\ Moves

\* Every step of the console that is neither a command nor the end of a connection.
LEMMA ExchangeKeeps ==
  ASSUME Supervised, Resumed(Console), Busy, Todo.do \in Exchanges \cup {"collect", "found"}, console.phase # "sent", Fine,
         secure' = secure, tasks' = tasks, handle' = handle, cmd' = cmd, chip' = chip,
         link' \in LinkType, link'.up = link.up, link'.vif = link.vif
  PROVE  Supervised'
<1> USE DEF Supervised, Fine
<1>1. /\ Console \in due /\ due' = due \ {Console} /\ due' \subseteq {Console} \cup LinkIds
      /\ Todo \in StepSet /\ Belongs(Todo) /\ Console \notin LinkIds
  <2>1. Todo \in StepSet /\ Belongs(Todo)
    BY AdvanceFacts
  <2>2. Console \notin LinkIds
    BY DEF Console, LinkIds
  <2> QED  BY <2>1, <2>2 DEF Resumed, Typed
<1>2. cmd.owner # Console /\ (cmd.do = "RemoveInterface" \/ cmd = NoCmd) /\ cmd.do # "AddInterface"
  BY NotConsole DEF NoCmd
<1>3. Typed'
  BY <1>1 DEF Typed, ChipTyped
<1>4. CmdKnown'
  BY <1>1, <1>2 DEF CmdKnown
<1>5. /\ Todo.part = "scan" => Todo.do = "collect"
      /\ Todo.do = "collect" => Todo.part = "scan"
      /\ Todo.do = "found" => Todo.part = "connect"
      /\ Todo.part # "lost"
      /\ Todo.part \in Parts
  <2>1. Todo.part \in Parts
    BY <1>1 DEF StepSet
  <2>2. Todo.do \in {"auth", "commit", "confirm", "assoc", "m1", "m3", "deauth", "collect", "found"}
    BY DEF Exchanges
  <2> QED  BY <1>1, <2>1, <2>2 DEF Belongs, Parts
<1>6. ASSUME Alive # {} PROVE Todo.part = "scan" /\ Todo.do = "collect" /\ (Connecting => link.up)
  <2>1. PICK t \in Alive : TRUE
    BY <1>6
  <2>2. Todo.part = "scan" /\ Todo.do = "collect"
    BY <1>5, <2>1 DEF TasksKnown
  <2>3. ASSUME Connecting, ~link.up PROVE FALSE
    <3>1. Behind(t) /\ Pos = 4
      BY <2>1, <2>2, <2>3 DEF TasksKnown, Pos
    <3>2. Gone(t) \in {0, 1, 3} /\ One(t \in due) \in {0, 1} /\ One(Console \in due) = 1
      BY <1>1 DEF Gone, One
    <3>3. tasks[t] # "removing"
      BY <3>1 DEF Behind
    <3>4. Gone(t) = 3 /\ One(t \in due) - 1 = 0 => 4 <= 3
      BY <3>1, <3>2, <3>3 DEF Behind
    <3>5. 4 <= Gone(t) + One(t \in due) - One(Console \in due)
      BY <3>1, <3>3 DEF Behind
    <3> QED  BY <3>2, <3>5
  <2> QED  BY <2>2, <2>3
<1>7. TasksKnown'
  <2>1. Alive' = Alive
    BY DEF Alive
  <2>2. CASE Alive = {}
    BY <2>1, <2>2 DEF TasksKnown
  <2>3. CASE Alive # {}
    <3>1. /\ Todo.part = "scan" /\ Todo.do = "collect" /\ (Connecting => link.up) /\ (link.up => ~Connecting)
      BY <1>6, <2>3 DEF TasksKnown
    <3>2. ~Connecting' /\ Busy' /\ Todo'.part \in {"scan", "lost"}
      <4>1. Step("lost", "Abort").part = "lost"
        BY DEF Step
      <4>2. ASSUME Adjacent(Todo, Todo'), Busy' PROVE Todo'.part = "scan"
        <5>1. Todo'.part \in Parts
          BY <4>2 DEF StepSet
        <5> QED  BY <3>1, <4>2, <5>1 DEF Adjacent, Parts
      <4>3. Connecting' => Connecting
        BY <3>1 DEF Moves
      <4> QED  BY <3>1, <4>1, <4>2, <4>3 DEF Moves
    <3> QED  BY <2>1, <3>1, <3>2 DEF TasksKnown
  <2> QED  BY <2>2, <2>3
<1>8. UpKnown'
  <2>1. Alive' = Alive
    BY DEF Alive
  <2>2. ASSUME link.up, Alive = {} PROVE Busy' /\ Todo'.part = "cleanup"
    <3>1. Busy /\ Todo.part = "cleanup"
      BY <2>2 DEF UpKnown
    <3>2. Step("cleanup", "RemoveInterface").part = "cleanup"
      BY DEF Step
    <3> QED  BY <1>5, <3>1, <3>2 DEF Moves, Adjacent
  <2>3. ASSUME link.up, Alive # {}, Scanning' PROVE console'.vif # link.vif
    <3>1. Scanning /\ Busy'
      BY <1>6, <2>3 DEF Scanning
    <3> QED  BY <2>3, <3>1 DEF UpKnown
  <2> QED  BY <1>2, <2>1, <2>2, <2>3 DEF UpKnown
<1>9. ASSUME Added' PROVE Added /\ Todo'.do # "up" /\ Todo'.do # "InstallGtk" /\ ~(secure /\ Todo'.do = "Authorized")
  <2>1. /\ Todo'.part = "connect" /\ Todo'.do \notin {"found", "AddInterface"} /\ Busy'
    BY <1>9 DEF Added
  <2>2. CASE Todo' = Todo
    BY <1>9, <2>1, <2>2 DEF Added, Exchanges
  <2>3. CASE Adjacent(Todo, Todo')
    <3>1. Todo.part = "connect" /\ Todo.do # "found"
      BY <2>1, <2>3 DEF Adjacent
    <3> QED  BY <1>5, <2>1, <2>3, <3>1 DEF Added, Adjacent, Exchanges
  <2>4. Step("lost", "Abort").part # "connect" /\ Step("cleanup", "RemoveInterface").part # "connect"
    BY DEF Step
  <2> QED  BY <2>1, <2>2, <2>3, <2>4 DEF Moves
<1>10. KeysKnown'
  BY <1>2, <1>9 DEF KeysKnown, KeysBeforePort, NoCmd
<1>11. AllOwned'
  <2>1. Alive' = Alive /\ (Removed' <=> Removed)
    BY DEF Alive, Removed
  <2>2. Scanning => Scanning' /\ console'.vif = console.vif
    <3>1. Step("lost", "Abort") = [part |-> "lost", do |-> "Abort"]
      BY DEF Step
    <3>2. ASSUME Scanning, Adjacent(Todo, Todo'), Busy' PROVE Scanning'
      <4>1. Todo.part = "scan" /\ Todo.do = "collect"
        BY <1>5, <3>2 DEF Scanning
      <4>2. Todo'.part = "scan" /\ Todo'.do = "RemoveInterface"
        <5>1. Todo'.part \in Parts /\ Todo'.do \in Names
          BY <3>2 DEF StepSet
        <5> QED  BY <4>1, <3>2, <5>1 DEF Adjacent, Parts, Belongs
      <4> QED  BY <3>2, <4>2 DEF Scanning
    <3> QED  BY <1>5, <3>1, <3>2 DEF Scanning, Moves
  <2>3. Added => \/ Added'
                 \/ Busy' /\ Todo'.part = "cleanup" /\ Todo'.do # "reset" /\ ~(cmd'.owner = Console /\ Removed')
    <3>1. Step("cleanup", "RemoveInterface") = [part |-> "cleanup", do |-> "RemoveInterface"]
      BY DEF Step
    <3>2. ASSUME Added, Adjacent(Todo, Todo'), Busy' PROVE Added'
      BY <3>2 DEF Added, Adjacent
    <3> QED  BY <1>2, <3>1, <3>2 DEF Added, Moves
  <2>4. ASSUME Busy, Todo.part = "cleanup", Todo.do # "reset"
        PROVE  Busy' /\ Todo'.part = "cleanup" /\ Todo'.do # "reset" /\ ~(cmd'.owner = Console /\ Removed')
    <3>1. Todo.do = "deauth"
      BY <1>1, <2>4 DEF Belongs, Exchanges
    <3> QED  BY <1>2, <2>4, <3>1 DEF Adjacent, Moves
  <2>5. Owned \subseteq Owned'
    BY <1>2, <2>1, <2>2, <2>3, <2>4 DEF Owned
  <2> QED  BY <2>5 DEF AllOwned
<1> QED  BY <1>3, <1>4, <1>7, <1>8, <1>10, <1>11

\* The console's record, field by field.
LEMMA ConsoleMade ==
  ASSUME NEW c \in ConsoleType
  PROVE  \A b \in {"ready", "sent", "wait"}, d \in Nat, e \in Vifs \cup {NoVif}, g \in BOOLEAN :
           /\ [plan |-> c.plan, phase |-> b, tries |-> d, vif |-> e, found |-> g] \in ConsoleType
           /\ c.phase \in {"ready", "sent", "wait"} /\ c.tries \in Nat
           /\ c.vif \in Vifs \cup {NoVif} /\ c.found \in BOOLEAN
<1>1. /\ c.plan \in Seq(StepSet) /\ c.phase \in {"ready", "sent", "wait"} /\ c.tries \in Nat
      /\ c.vif \in Vifs \cup {NoVif} /\ c.found \in BOOLEAN
  BY DEF ConsoleType
<1>2. ASSUME NEW a, NEW b, NEW d, NEW e, NEW g,
             a \in Seq(StepSet), b \in {"ready", "sent", "wait"}, d \in Nat, e \in Vifs \cup {NoVif}, g \in BOOLEAN
      PROVE  [plan |-> a, phase |-> b, tries |-> d, vif |-> e, found |-> g] \in ConsoleType
  BY <1>2 DEF ConsoleType
<1> QED  BY <1>1, <1>2

LEMMA ConsolePhase ==
  ASSUME NEW c \in ConsoleType, NEW p \in {"ready", "sent", "wait"}
  PROVE  LET d == [c EXCEPT !.phase = p] IN d \in ConsoleType /\ d.plan = c.plan /\ d.phase = p /\ d.vif = c.vif
<1> DEFINE d == [c EXCEPT !.phase = p]
<1>1. ASSUME NEW h, h = [c EXCEPT !.phase = p]
      PROVE  h = [plan |-> c.plan, phase |-> p, tries |-> c.tries, vif |-> c.vif, found |-> c.found]
  BY <1>1 DEF ConsoleType
<1>2. /\ c.plan \in Seq(StepSet) /\ c.phase \in {"ready", "sent", "wait"} /\ c.tries \in Nat
      /\ c.vif \in Vifs \cup {NoVif} /\ c.found \in BOOLEAN
  BY DEF ConsoleType
<1>3. [plan |-> c.plan, phase |-> p, tries |-> c.tries, vif |-> c.vif, found |-> c.found] \in ConsoleType
  BY <1>2, ConsoleMade
<1>4. d = [plan |-> c.plan, phase |-> p, tries |-> c.tries, vif |-> c.vif, found |-> c.found]
  BY <1>1
<1> HIDE DEF d
<1>5. d \in ConsoleType
  BY <1>3, <1>4
<1>6. d.plan = c.plan /\ d.phase = p /\ d.vif = c.vif
  BY <1>4
<1> QED  BY <1>5, <1>6 DEF d

LEMMA ConsoleTries ==
  ASSUME NEW c \in ConsoleType, NEW p \in {"ready", "sent", "wait"}, NEW n \in Nat
  PROVE  LET d == [c EXCEPT !.phase = p, !.tries = n] IN d \in ConsoleType /\ d.plan = c.plan /\ d.phase = p /\ d.vif = c.vif
<1> DEFINE d == [c EXCEPT !.phase = p, !.tries = n]
<1>1. ASSUME NEW h, h = [c EXCEPT !.phase = p, !.tries = n]
      PROVE  h = [plan |-> c.plan, phase |-> p, tries |-> n, vif |-> c.vif, found |-> c.found]
  BY <1>1 DEF ConsoleType
<1>2. /\ c.plan \in Seq(StepSet) /\ c.phase \in {"ready", "sent", "wait"} /\ c.tries \in Nat
      /\ c.vif \in Vifs \cup {NoVif} /\ c.found \in BOOLEAN
  BY DEF ConsoleType
<1>3. [plan |-> c.plan, phase |-> p, tries |-> n, vif |-> c.vif, found |-> c.found] \in ConsoleType
  BY <1>2, ConsoleMade
<1>4. d = [plan |-> c.plan, phase |-> p, tries |-> n, vif |-> c.vif, found |-> c.found]
  BY <1>1
<1> HIDE DEF d
<1>5. d \in ConsoleType
  BY <1>3, <1>4
<1>6. d.plan = c.plan /\ d.phase = p /\ d.vif = c.vif
  BY <1>4
<1> QED  BY <1>5, <1>6 DEF d

LEMMA ConsoleVif ==
  ASSUME NEW c \in ConsoleType, NEW v \in Vifs \cup {NoVif}
  PROVE  LET d == [c EXCEPT !.vif = v] IN d \in ConsoleType /\ d.plan = c.plan /\ d.phase = c.phase /\ d.vif = v
<1> DEFINE d == [c EXCEPT !.vif = v]
<1>1. ASSUME NEW h, h = [c EXCEPT !.vif = v]
      PROVE  h = [plan |-> c.plan, phase |-> c.phase, tries |-> c.tries, vif |-> v, found |-> c.found]
  BY <1>1 DEF ConsoleType
<1>2. /\ c.plan \in Seq(StepSet) /\ c.phase \in {"ready", "sent", "wait"} /\ c.tries \in Nat
      /\ c.vif \in Vifs \cup {NoVif} /\ c.found \in BOOLEAN
  BY DEF ConsoleType
<1>3. [plan |-> c.plan, phase |-> c.phase, tries |-> c.tries, vif |-> v, found |-> c.found] \in ConsoleType
  BY <1>2, ConsoleMade
<1>4. d = [plan |-> c.plan, phase |-> c.phase, tries |-> c.tries, vif |-> v, found |-> c.found]
  BY <1>1
<1> HIDE DEF d
<1>5. d \in ConsoleType
  BY <1>3, <1>4
<1>6. d.plan = c.plan /\ d.phase = c.phase /\ d.vif = v
  BY <1>4
<1> QED  BY <1>5, <1>6 DEF d

LEMMA ConsoleFound ==
  ASSUME NEW c \in ConsoleType, NEW f \in BOOLEAN
  PROVE  LET d == [c EXCEPT !.found = f] IN d \in ConsoleType /\ d.plan = c.plan /\ d.phase = c.phase /\ d.vif = c.vif
<1> DEFINE d == [c EXCEPT !.found = f]
<1>1. ASSUME NEW h, h = [c EXCEPT !.found = f]
      PROVE  h = [plan |-> c.plan, phase |-> c.phase, tries |-> c.tries, vif |-> c.vif, found |-> f]
  BY <1>1 DEF ConsoleType
<1>2. /\ c.plan \in Seq(StepSet) /\ c.phase \in {"ready", "sent", "wait"} /\ c.tries \in Nat
      /\ c.vif \in Vifs \cup {NoVif} /\ c.found \in BOOLEAN
  BY DEF ConsoleType
<1>3. [plan |-> c.plan, phase |-> c.phase, tries |-> c.tries, vif |-> c.vif, found |-> f] \in ConsoleType
  BY <1>2, ConsoleMade
<1>4. d = [plan |-> c.plan, phase |-> c.phase, tries |-> c.tries, vif |-> c.vif, found |-> f]
  BY <1>1
<1> HIDE DEF d
<1>5. d \in ConsoleType
  BY <1>3, <1>4
<1>6. d.plan = c.plan /\ d.phase = c.phase /\ d.vif = c.vif
  BY <1>4
<1> QED  BY <1>5, <1>6 DEF d

LEMMA PlanStays ==
  ASSUME Supervised, Busy, secure' = secure, console' \in ConsoleType, console'.plan = console.plan, console'.vif = console.vif,
         console'.phase # "sent", console'.phase = "wait" => Todo.do \in Exchanges
  PROVE  Fine
<1>1. Busy' /\ Todo' = Todo /\ (Connecting' => Connecting)
  BY DEF Busy, Todo, Connecting
<1>2. Shaped(console.plan)'
  BY ShapedStays DEF Supervised
<1>3. Todo \in StepSet /\ Belongs(Todo)
  BY AdvanceFacts DEF Supervised
<1> QED  BY <1>1, <1>2, <1>3 DEF Fine, Moves

LEMMA PlanAdvances ==
  ASSUME Supervised, Busy, secure' = secure, console' \in ConsoleType, console'.plan = Advance.plan,
         console'.phase = "ready", console'.vif = Advance.vif,
         Todo.do \in Exchanges \cup {"collect", "found"}
  PROVE  Fine
<1>1. /\ Shaped(console.plan)'
      /\ Busy' => Adjacent(Todo, Todo') /\ Belongs(Todo') /\ Todo' \in StepSet
      /\ ~Busy' => Ends(Todo)
      /\ Connecting' => Connecting
  BY ConsoleGoesOn DEF Supervised
<1>2. ~Ends(Todo)
  BY DEF Ends, Step, Exchanges
<1>3. Busy' => console'.vif = console.vif
  BY AdvanceFacts DEF Supervised, Busy
<1> QED  BY <1>1, <1>2, <1>3 DEF Fine, Moves

LEMMA PlanFails ==
  ASSUME Supervised, Busy, secure' = secure, console' = Failed, Todo.do \in Exchanges
  PROVE  Fine
<1>1. /\ Shaped(console.plan)' /\ console' \in ConsoleType /\ console'.phase = "ready"
      /\ Todo \in StepSet /\ Belongs(Todo)
      /\ Busy' => console'.vif = console.vif /\ Todo' \in StepSet /\ Belongs(Todo')
      /\ \/ /\ Todo.part \in {"cleanup", "scan", "lost"} /\ Todo.do \notin {"AddInterface", "HwScan"}
            /\ Busy' => Adjacent(Todo, Todo')
            /\ ~Busy' => Ends(Todo)
            /\ Connecting' => Connecting
         \/ Todo.do = "AddInterface" /\ ~Busy' /\ ~Connecting'
         \/ /\ Todo = Step("scan", "HwScan") /\ Busy' /\ Todo' = Step("lost", "RemoveInterface") /\ ~Connecting'
         \/ /\ Todo.part = "connect" /\ Todo.do # "AddInterface"
            /\ Busy' /\ Todo' = Step("cleanup", "RemoveInterface") /\ ~Connecting'
  BY ConsoleFails DEF Supervised
<1>2. ~Ends(Todo) /\ Todo.do # "AddInterface" /\ Todo # Step("scan", "HwScan") /\ Todo.do # "found"
  BY DEF Ends, Step, Exchanges
<1> QED  BY <1>1, <1>2 DEF Fine, Moves

\* The link's record, field by field.
LEMMA LinkMade ==
  ASSUME NEW a \in BOOLEAN, NEW e \in BOOLEAN, NEW d \in Vifs \cup {0}, NEW g \in BOOLEAN
  PROVE  [up |-> a, encrypted |-> e, vif |-> d, aid |-> g] \in LinkType
BY DEF LinkType

LEMMA LinkUp ==
  ASSUME NEW l \in LinkType, NEW b \in BOOLEAN
  PROVE  LET m == [l EXCEPT !.up = b] IN m \in LinkType /\ (m.up <=> b) /\ m.vif = l.vif
<1> DEFINE m == [l EXCEPT !.up = b]
<1>1. l.up \in BOOLEAN /\ l.encrypted \in BOOLEAN /\ l.vif \in Vifs \cup {0} /\ l.aid \in BOOLEAN
  BY DEF LinkType
<1>2. ASSUME NEW x, NEW h, h = [l EXCEPT !.up = x]
      PROVE  h = [up |-> x, encrypted |-> l.encrypted, vif |-> l.vif, aid |-> l.aid]
  BY <1>2 DEF LinkType
<1>3. m = [up |-> b, encrypted |-> l.encrypted, vif |-> l.vif, aid |-> l.aid]
  BY <1>2
<1>4. [up |-> b, encrypted |-> l.encrypted, vif |-> l.vif, aid |-> l.aid] \in LinkType
  BY <1>1, LinkMade
<1> HIDE DEF m
<1>5. m \in LinkType
  BY <1>3, <1>4
<1>6. (m.up <=> b) /\ m.vif = l.vif
  BY <1>3
<1> QED  BY <1>5, <1>6 DEF m

LEMMA LinkEncrypted ==
  ASSUME NEW l \in LinkType, NEW b \in BOOLEAN
  PROVE  LET m == [l EXCEPT !.encrypted = b] IN m \in LinkType /\ m.up = l.up /\ m.vif = l.vif
<1> DEFINE m == [l EXCEPT !.encrypted = b]
<1>1. l.up \in BOOLEAN /\ l.encrypted \in BOOLEAN /\ l.vif \in Vifs \cup {0} /\ l.aid \in BOOLEAN
  BY DEF LinkType
<1>2. ASSUME NEW x, NEW h, h = [l EXCEPT !.encrypted = x]
      PROVE  h = [up |-> l.up, encrypted |-> x, vif |-> l.vif, aid |-> l.aid]
  BY <1>2 DEF LinkType
<1>3. m = [up |-> l.up, encrypted |-> b, vif |-> l.vif, aid |-> l.aid]
  BY <1>2
<1>4. [up |-> l.up, encrypted |-> b, vif |-> l.vif, aid |-> l.aid] \in LinkType
  BY <1>1, LinkMade
<1> HIDE DEF m
<1>5. m \in LinkType
  BY <1>3, <1>4
<1>6. m.up = l.up /\ m.vif = l.vif
  BY <1>3
<1> QED  BY <1>5, <1>6 DEF m

LEMMA LinkAid ==
  ASSUME NEW l \in LinkType, NEW b \in BOOLEAN
  PROVE  LET m == [l EXCEPT !.aid = b] IN m \in LinkType /\ m.up = l.up /\ m.vif = l.vif
<1> DEFINE m == [l EXCEPT !.aid = b]
<1>1. l.up \in BOOLEAN /\ l.encrypted \in BOOLEAN /\ l.vif \in Vifs \cup {0} /\ l.aid \in BOOLEAN
  BY DEF LinkType
<1>2. ASSUME NEW x, NEW h, h = [l EXCEPT !.aid = x]
      PROVE  h = [up |-> l.up, encrypted |-> l.encrypted, vif |-> l.vif, aid |-> x]
  BY <1>2 DEF LinkType
<1>3. m = [up |-> l.up, encrypted |-> l.encrypted, vif |-> l.vif, aid |-> b]
  BY <1>2
<1>4. [up |-> l.up, encrypted |-> l.encrypted, vif |-> l.vif, aid |-> b] \in LinkType
  BY <1>1, LinkMade
<1> HIDE DEF m
<1>5. m \in LinkType
  BY <1>3, <1>4
<1>6. m.up = l.up /\ m.vif = l.vif
  BY <1>3
<1> QED  BY <1>5, <1>6 DEF m

LEMMA LinkVif ==
  ASSUME NEW l \in LinkType, NEW b \in Vifs \cup {0}
  PROVE  LET m == [l EXCEPT !.vif = b] IN m \in LinkType /\ m.up = l.up /\ m.vif = b
<1> DEFINE m == [l EXCEPT !.vif = b]
<1>1. l.up \in BOOLEAN /\ l.encrypted \in BOOLEAN /\ l.vif \in Vifs \cup {0} /\ l.aid \in BOOLEAN
  BY DEF LinkType
<1>2. ASSUME NEW x, NEW h, h = [l EXCEPT !.vif = x]
      PROVE  h = [up |-> l.up, encrypted |-> l.encrypted, vif |-> x, aid |-> l.aid]
  BY <1>2 DEF LinkType
<1>3. m = [up |-> l.up, encrypted |-> l.encrypted, vif |-> b, aid |-> l.aid]
  BY <1>2
<1>4. [up |-> l.up, encrypted |-> l.encrypted, vif |-> b, aid |-> l.aid] \in LinkType
  BY <1>1, LinkMade
<1> HIDE DEF m
<1>5. m \in LinkType
  BY <1>3, <1>4
<1>6. m.up = l.up /\ m.vif = b
  BY <1>3
<1> QED  BY <1>5, <1>6 DEF m

LEMMA CollectKeeps == ASSUME Supervised, Collect PROVE Supervised'
<1>1. /\ Resumed(Console) /\ Busy /\ Todo.do = "collect" /\ console.phase = "ready"
      /\ secure' = secure /\ tasks' = tasks /\ handle' = handle /\ link' = link /\ cmd' = cmd /\ chip' = chip
  BY DEF Collect, At, Busy
<1> DEFINE was == IF Contains(events, "scandone") THEN Advance ELSE console
           found == was.found \/ (air # <<>> /\ Head(air) = "probe")
<1>2. console' = [was EXCEPT !.found = found]
  BY DEF Collect
<1>3. console \in ConsoleType /\ Advance \in ConsoleType /\ Advance.phase = "ready" /\ link \in LinkType
  BY <1>1, AdvanceFacts DEF Supervised, Typed
<1>4. was \in ConsoleType /\ was.phase = "ready" /\ (was = Advance \/ was = console)
  BY <1>1, <1>3
<1> HIDE DEF was
<1>5. found \in BOOLEAN
  OBVIOUS
<1> HIDE DEF found
<1>6. /\ console' \in ConsoleType /\ console'.plan = was.plan /\ console'.phase = "ready" /\ console'.vif = was.vif
  BY <1>2, <1>4, <1>5, ConsoleFound
<1>7. Fine
  <2>1. CASE was = console
    BY <1>1, <1>6, <2>1, PlanStays
  <2>2. CASE was = Advance
    BY <1>1, <1>6, <2>2, PlanAdvances
  <2> QED  BY <1>4, <2>1, <2>2
<1> QED  BY <1>1, <1>3, <1>7, ExchangeKeeps

LEMMA CollectTimeoutKeeps == ASSUME Supervised, CollectTimeout PROVE Supervised'
<1> DEFINE l == Steps("lost", <<"Abort", "RemoveInterface">>)
<1>1. /\ Resumed(Console) /\ Busy /\ Todo.do = "collect" /\ console.phase = "ready" /\ console' = Continues(l)
      /\ secure' = secure /\ tasks' = tasks /\ handle' = handle /\ link' = link /\ cmd' = cmd /\ chip' = chip
  BY DEF CollectTimeout, At, Busy
<1>2. Shaped(l) /\ l \in Seq(StepSet) /\ Head(l) = Step("lost", "Abort") /\ Len(l) = 2
      /\ l[2] = Step("lost", "RemoveInterface")
  BY LongerPlans
<1> HIDE DEF l
<1>3. l # <<>> /\ l[Len(l)].do # "up"
  <2>1. l # <<>>
    BY <1>2
  <2> QED  BY <1>2, <2>1 DEF Step
<1>4. /\ console' \in ConsoleType /\ console'.plan = l /\ console'.phase = "ready" /\ console'.vif = console.vif
  BY <1>1, <1>2, <1>3, ContinuesFacts DEF Supervised
<1>5. Todo \in StepSet /\ Belongs(Todo) /\ link \in LinkType
  BY <1>1, AdvanceFacts DEF Supervised, Typed
<1>6. Todo.part = "scan"
  BY <1>1, <1>5 DEF Belongs, StepSet, Parts
<1>7. Busy' /\ Todo' = Step("lost", "Abort") /\ ~Connecting'
  BY <1>2, <1>3, <1>4 DEF Busy, Todo, Connecting
<1>8. Todo' \in StepSet /\ Belongs(Todo')
  BY <1>7 DEF Step, StepSet, Parts, Names, Belongs
<1>9. Shaped(console.plan)'
  BY <1>1, <1>2, <1>4, ShapedStays
<1>10. Fine
  BY <1>4, <1>6, <1>7, <1>8, <1>9 DEF Fine, Moves
<1> QED  BY <1>1, <1>5, <1>10, ExchangeKeeps

LEMMA FoundKeeps == ASSUME Supervised, Found PROVE Supervised'
<1>1. /\ Resumed(Console) /\ Busy /\ Todo.do = "found" /\ console.phase = "ready"
      /\ secure' = secure /\ tasks' = tasks /\ handle' = handle /\ cmd' = cmd /\ chip' = chip
      /\ \/ console' = Advance /\ link' = [link EXCEPT !.encrypted = FALSE]
         \/ console' = Idle /\ link' = link
  BY DEF Found, At, Busy
<1>2. link \in LinkType /\ Advance \in ConsoleType /\ Advance.phase = "ready"
  BY <1>1, AdvanceFacts DEF Supervised, Typed
<1>3. link' \in LinkType /\ link'.up = link.up /\ link'.vif = link.vif
  <2>1. CASE link' = link
    BY <1>2, <2>1
  <2>2. CASE link' = [link EXCEPT !.encrypted = FALSE]
    <3>1. ASSUME NEW b \in BOOLEAN, link' = [link EXCEPT !.encrypted = b]
          PROVE  link' \in LinkType /\ link'.up = link.up /\ link'.vif = link.vif
      BY <1>2, <3>1, LinkEncrypted
    <3> QED  BY <2>2, <3>1
  <2> QED  BY <1>1, <2>1, <2>2
<1>4. Fine
  <2>1. CASE console' = Advance
    BY <1>1, <1>2, <2>1, PlanAdvances
  <2>2. CASE console' = Idle
    <3>1. Idle \in ConsoleType /\ Idle.plan = <<>> /\ Idle.phase = "ready" /\ Shaped(Idle.plan)
      BY DEF Idle, ConsoleType, Shaped
    <3>2. Shaped(console.plan)' /\ ~Busy'
      BY <1>1, <2>2, <3>1, ShapedStays DEF Busy
    <3> QED  BY <1>1, <2>2, <3>1, <3>2 DEF Fine, Moves
  <2> QED  BY <1>1, <2>1, <2>2
<1> QED  BY <1>1, <1>3, <1>4, ExchangeKeeps

LEMMA TransmitKeeps == ASSUME Supervised, Transmit PROVE Supervised'
<1>1. /\ Resumed(Console) /\ Busy /\ Todo.do \in Exchanges /\ console.phase = "ready"
      /\ secure' = secure /\ tasks' = tasks /\ handle' = handle /\ link' = link /\ cmd' = cmd /\ chip' = chip
      /\ (console' = Advance \/ console' = [console EXCEPT !.phase = "wait"] \/ console' = Failed)
  BY DEF Transmit, Busy
<1>2. link \in LinkType /\ Advance \in ConsoleType /\ Advance.phase = "ready" /\ console \in ConsoleType
  BY <1>1, AdvanceFacts DEF Supervised, Typed
<1>3. Fine
  <2>1. CASE console' = Advance
    BY <1>1, <1>2, <2>1, PlanAdvances
  <2>2. CASE console' = [console EXCEPT !.phase = "wait"]
    <3>2. /\ console' \in ConsoleType /\ console'.plan = console.plan /\ console'.phase = "wait"
          /\ console'.vif = console.vif
      BY <1>2, <2>2, ConsolePhase
    <3> QED  BY <1>1, <3>2, PlanStays
  <2>3. CASE console' = Failed
    BY <1>1, <2>3, PlanFails
  <2> QED  BY <1>1, <2>1, <2>2, <2>3
<1> QED  BY <1>1, <1>2, <1>3, ExchangeKeeps

\* Another attempt, or none.
LEMMA AgainFine ==
  ASSUME Supervised, Busy, secure' = secure, Todo.do \in Exchanges, console' = Again
  PROVE  Fine
<1>1. console \in ConsoleType
  BY DEF Supervised, Typed
<1>2. CASE console' = Failed
  BY <1>2, PlanFails
<1>3. CASE console' = [console EXCEPT !.phase = "ready", !.tries = @ + 1]
  <2> DEFINE n == console.tries + 1
  <2>1. n \in Nat
    BY <1>1 DEF ConsoleType
  <2>2. console' = [console EXCEPT !.phase = "ready", !.tries = n]
    BY <1>3
  <2> HIDE DEF n
  <2>3. /\ console' \in ConsoleType /\ console'.plan = console.plan /\ console'.phase = "ready"
        /\ console'.vif = console.vif
    <3>1. "ready" \in {"ready", "sent", "wait"}
      OBVIOUS
    <3>2. LET d == [console EXCEPT !.phase = "ready", !.tries = n] IN
            d \in ConsoleType /\ d.plan = console.plan /\ d.phase = "ready" /\ d.vif = console.vif
      BY <1>1, <2>1, <3>1, ConsoleTries, Zenon
    <3> QED  BY <2>2, <3>2
  <2> QED  BY <2>3, PlanStays
<1> QED  BY <1>2, <1>3 DEF Again

LEMMA WaitTimeoutKeeps == ASSUME Supervised, WaitTimeout PROVE Supervised'
<1>1. /\ Resumed(Console) /\ Busy /\ Todo.do \in Exchanges /\ console.phase # "sent" /\ console' = Again
      /\ secure' = secure /\ tasks' = tasks /\ handle' = handle /\ link' = link /\ cmd' = cmd /\ chip' = chip
  BY DEF WaitTimeout, Busy
<1>2. link \in LinkType
  BY DEF Supervised, Typed
<1> QED  BY <1>1, <1>2, AgainFine, ExchangeKeeps

LEMMA ReceiveMgmtKeeps == ASSUME Supervised, ReceiveMgmt PROVE Supervised'
<1>1. /\ Resumed(Console) /\ Busy /\ Todo.do \in Exchanges /\ console.phase = "wait"
      /\ secure' = secure /\ tasks' = tasks /\ handle' = handle /\ cmd' = cmd /\ chip' = chip
  BY DEF ReceiveMgmt, Busy
<1>2. \/ console' = console /\ link' = link
      \/ console' = Again /\ link' = link
      \/ console' = Failed /\ link' = link
      \/ console' = Advance /\ \E b \in BOOLEAN : link' = [link EXCEPT !.aid = b]
  <2> DEFINE f == IF air = <<>> THEN "nothing" ELSE Head(air)
  <2>1. CASE f = Todo.do
    <3>1. \/ console' = Advance /\ link' = [link EXCEPT !.aid = @ \/ f = "assoc"]
          \/ console' = Failed /\ UNCHANGED link
      BY <2>1 DEF ReceiveMgmt
    <3>2. (link.aid \/ f = "assoc") \in BOOLEAN
      OBVIOUS
    <3> QED  BY <3>1, <3>2
  <2>2. CASE f # Todo.do
    <3>1. (console' = Again /\ UNCHANGED link) \/ UNCHANGED <<console, link>>
      BY <2>2 DEF ReceiveMgmt
    <3> QED  BY <3>1
  <2> QED  BY <2>1, <2>2
<1>3. link \in LinkType /\ Advance \in ConsoleType /\ Advance.phase = "ready" /\ console \in ConsoleType
  BY <1>1, AdvanceFacts DEF Supervised, Typed
<1>4. link' \in LinkType /\ link'.up = link.up /\ link'.vif = link.vif
  <2>1. ASSUME NEW b \in BOOLEAN, link' = [link EXCEPT !.aid = b]
        PROVE  link' \in LinkType /\ link'.up = link.up /\ link'.vif = link.vif
    BY <1>3, <2>1, LinkAid
  <2> QED  BY <1>2, <1>3, <2>1
<1>5. Fine
  <2>1. CASE console' = console
    BY <1>1, <1>3, <2>1, PlanStays
  <2>2. CASE console' = Again
    BY <1>1, <2>2, AgainFine
  <2>3. CASE console' = Failed
    BY <1>1, <2>3, PlanFails
  <2>4. CASE console' = Advance
    BY <1>1, <1>3, <2>4, PlanAdvances
  <2> QED  BY <1>2, <2>1, <2>2, <2>3, <2>4
<1> QED  BY <1>1, <1>4, <1>5, ExchangeKeeps

LEMMA HandshakeKeeps == ASSUME Supervised, Handshake PROVE Supervised'
<1>1. /\ Resumed(Console) /\ Busy /\ Todo.do \in Exchanges
      /\ secure' = secure /\ tasks' = tasks /\ handle' = handle /\ link' = link /\ cmd' = cmd /\ chip' = chip
      /\ (console' = Advance \/ console' = Failed \/ console' = console)
  BY DEF Handshake, Busy, Exchanges
<1>2. link \in LinkType /\ Advance \in ConsoleType /\ Advance.phase = "ready" /\ console \in ConsoleType
  BY <1>1, AdvanceFacts DEF Supervised, Typed
<1>3. console.phase # "sent"
  <2>1. console.phase = "sent" => Todo.do \notin Exchanges
    BY DEF Supervised, CmdKnown
  <2> QED  BY <1>1, <2>1
<1>4. Fine
  <2>1. CASE console' = Advance
    BY <1>1, <1>2, <2>1, PlanAdvances
  <2>2. CASE console' = Failed
    BY <1>1, <2>2, PlanFails
  <2>3. CASE console' = console
    BY <1>1, <1>2, <1>3, <2>3, PlanStays
  <2> QED  BY <1>1, <2>1, <2>2, <2>3
<1> QED  BY <1>1, <1>2, <1>3, <1>4, ExchangeKeeps

\* A plan that is connecting ends with the link up.
LEMMA ConnectEnds ==
  ASSUME NEW p \in Seq(StepSet), p # <<>>, Shaped(p), p[1].part = "connect"
  PROVE  p[Len(p)].do = "up"
<1> DEFINE B == {i \in 1 .. Len(p) : p[i].part # "connect"}
<1>1. Len(p) \in Nat \ {0} /\ DOMAIN p = 1 .. Len(p)
  OBVIOUS
<1>2. B \in SUBSET Nat
  BY <1>1
<1>3. ASSUME B # {} PROVE FALSE
  <2>1. PICK m \in B : \A i \in B : m <= i
    BY <1>2, <1>3, LeastOfNats
  <2>2. m \in 1 .. Len(p) /\ m # 1 /\ p[m].part # "connect"
    BY <2>1
  <2>3. m - 1 \in 1 .. Len(p) - 1 /\ (m - 1) + 1 = m /\ m - 1 \in 1 .. Len(p) /\ m - 1 < m
    BY <1>1, <2>2
  <2>4. m - 1 \notin B
    BY <2>1, <2>3, <1>2
  <2>5. p[m - 1].part = "connect"
    BY <2>3, <2>4
  <2>6. Adjacent(p[m - 1], p[(m - 1) + 1])
    BY <2>3 DEF Shaped
  <2> QED  BY <2>2, <2>3, <2>5, <2>6 DEF Adjacent
<1>4. p[Len(p)].part = "connect" /\ Ends(p[Len(p)])
  BY <1>1, <1>3 DEF Shaped
<1> QED  BY <1>4 DEF Ends, Step

\* The same of a plan that a step leaves in its connecting part.
LEMMA WillConnect ==
  ASSUME secure' = secure, console' \in ConsoleType, Shaped(console.plan)', Busy', Todo'.part = "connect"
  PROVE  Connecting'
<1> DEFINE q == console'.plan
<1>1. Shaped(q)
  BY DEF Shaped, Adjacent
<1>2. q \in Seq(StepSet) /\ q # <<>> /\ Todo' = Head(q)
  BY DEF ConsoleType, Busy, Todo
<1> HIDE DEF q
<1>3. Todo' = q[1]
  BY <1>2
<1>4. q[Len(q)].do = "up"
  BY <1>1, <1>2, <1>3, ConnectEnds
<1> QED  BY <1>4 DEF q, Connecting

LEMMA StartScanKeeps == ASSUME Supervised, StartScan PROVE Supervised'
<1> USE DEF Supervised
<1>1. /\ secure' = secure /\ due' = due /\ tasks' = tasks /\ handle' = handle /\ link' = link /\ cmd' = cmd
      /\ chip' = chip /\ ~Busy
      /\ \E p \in {ScanPlan, LongScanPlan, Steps("scan", <<"GetVersion">>)} : console' = [Idle EXCEPT !.plan = p]
  BY DEF StartScan, MayStart, Busy
<1>2. PICK p \in {ScanPlan, LongScanPlan, Steps("scan", <<"GetVersion">>)} : console' = [Idle EXCEPT !.plan = p]
  BY <1>1
<1>3. /\ p \in Seq(StepSet) /\ p # <<>> /\ Shaped(p)
      /\ Head(p) \in {Step("scan", "AddInterface"), Step("scan", "GetVersion")}
      /\ p[Len(p)].do # "up"
  <2>1. CASE p = ScanPlan
    <3>1. Head(ScanPlan) = ScanPlan[1]
      BY ScanShaped
    <3> QED  BY <2>1, <3>1, ScanShaped DEF Step
  <2>2. CASE p = Steps("scan", <<"GetVersion">>)
    <3> DEFINE g == Steps("scan", <<"GetVersion">>)
    <3>1. /\ Shaped(g) /\ g \in Seq(StepSet) /\ Head(g) = Step("scan", "GetVersion") /\ Len(g) = 1
          /\ g[1] = Step("scan", "GetVersion")
      BY ShortPlans
    <3> HIDE DEF g
    <3>2. p = g
      BY <2>2 DEF g
    <3>30. g \in Seq(StepSet) /\ Len(g) = 1
      BY <3>1
    <3>3. g # <<>>
      BY <3>30
    <3>4. Step("scan", "GetVersion").do # "up" /\ g[Len(g)] = Step("scan", "GetVersion")
      BY <3>1 DEF Step
    <3> QED  BY <3>1, <3>2, <3>3, <3>4
  <2>3. CASE p = LongScanPlan
    <3>1. Len(p) = 1 /\ p \in Seq(StepSet) /\ p[1] = Step("scan", "AddInterface") /\ Shaped(p) /\ Head(p) = p[1]
      BY <2>3, ShortPlans
    <3>2. Step("scan", "AddInterface").do # "up" /\ p # <<>> /\ p[Len(p)] = p[1]
      BY <3>1 DEF Step
    <3> QED  BY <3>1, <3>2
  <2> QED  BY <1>2, <2>1, <2>2, <2>3
<1>4. /\ Shaped(console.plan)' /\ console' \in ConsoleType /\ console'.phase = "ready"
      /\ Busy' /\ Todo' = Head(p) /\ ~Connecting'
  BY <1>1, <1>2, <1>3, ConsoleStarts
<1>5. Todo'.part = "scan" /\ Todo'.do \in {"AddInterface", "GetVersion"}
  BY <1>3, <1>4 DEF Step
<1>6. cmd.owner # Console /\ Console \notin due
  BY <1>1 DEF CmdKnown
<1>7. Typed'
  BY <1>1, <1>4 DEF Typed, ChipTyped
<1>8. CmdKnown'
  BY <1>1, <1>4, <1>6 DEF CmdKnown
<1>9. TasksKnown'
  <2>1. Alive' = Alive
    BY <1>1 DEF Alive
  <2> QED  BY <1>1, <1>4, <1>5, <2>1 DEF TasksKnown
<1>10. UpKnown'
  BY <1>1, <1>5 DEF UpKnown, Alive, Scanning
<1>11. KeysKnown'
  BY <1>1, <1>5 DEF KeysKnown, Added, KeysBeforePort
<1>12. AllOwned'
  BY <1>1, <1>5 DEF AllOwned, Owned, Scanning, Added, Removed, Alive
<1> QED  BY <1>4, <1>7, <1>8, <1>9, <1>10, <1>11, <1>12

LEMMA StartDisconnectKeeps == ASSUME Supervised, StartDisconnect PROVE Supervised'
<1> USE DEF Supervised
<1>1. /\ secure' = secure /\ due' = due /\ handle' = handle /\ cmd' = cmd /\ chip' = chip /\ ~Busy /\ link.up
      /\ tasks' = IF handle \in LinkIds THEN [tasks EXCEPT ![handle] = "over"] ELSE tasks
      /\ link' = [link EXCEPT !.up = FALSE]
      /\ console' = [Idle EXCEPT !.plan = DisconnectPlan]
  BY DEF StartDisconnect, MayStart, Busy
<1>2. /\ DisconnectPlan \in Seq(StepSet) /\ DisconnectPlan # <<>> /\ Shaped(DisconnectPlan)
      /\ Head(DisconnectPlan) = Step("cleanup", "deauth")
  <2>1. DisconnectPlan # <<>>
    BY LongerPlans
  <2> QED  BY <2>1, LongerPlans
<1>3. /\ Shaped(console.plan)' /\ console' \in ConsoleType /\ console'.phase = "ready"
      /\ Busy' /\ Todo' = Step("cleanup", "deauth")
  BY <1>1, <1>2, ConsoleStarts
<1>4. Todo'.part = "cleanup" /\ Todo'.do = "deauth"
  BY <1>3 DEF Step
<1>5. link' \in LinkType /\ ~link'.up /\ link'.vif = link.vif
  <2> DEFINE f == FALSE
  <2>1. f \in BOOLEAN /\ link \in LinkType /\ link' = [link EXCEPT !.up = f]
    BY <1>1 DEF Typed
  <2>2. ~f
    OBVIOUS
  <2> HIDE DEF f
  <2> QED  BY <2>1, <2>2, LinkUp
<1>6. PICK t \in Alive : t = handle
  BY <1>1 DEF UpKnown, TasksKnown
<1>7. /\ t \in LinkIds /\ tasks \in [LinkIds -> Places] /\ tasks' = [tasks EXCEPT ![t] = "over"]
  BY <1>1, <1>6 DEF Alive, Typed
<1>8. tasks[t] # "removing" /\ cmd.owner # Console /\ Console \notin due
  BY <1>1, <1>6 DEF TasksKnown, CmdKnown, Tearing
<1>9. Alive' = {}
  <2>1. \A s \in Alive : s = t
    BY <1>6 DEF TasksKnown
  <2>2. \A s \in LinkIds : tasks'[s] = IF s = t THEN "over" ELSE tasks[s]
    BY <1>7
  <2> QED  BY <2>1, <2>2 DEF Alive
<1>10. Typed'
  <2>1. tasks' \in [LinkIds -> Places]
    BY <1>7 DEF Places
  <2> QED  BY <1>1, <1>3, <1>5, <2>1 DEF Typed, ChipTyped
<1>11. CmdKnown'
  <2>1. \A s \in LinkIds : (cmd'.owner = s) <=> (tasks'[s] = "removing")
    BY <1>1, <1>7, <1>8 DEF CmdKnown
  <2> QED  BY <1>1, <1>3, <1>8, <2>1 DEF CmdKnown
<1>12. TasksKnown' /\ UpKnown'
  BY <1>5, <1>9 DEF TasksKnown, UpKnown
<1>13. KeysKnown'
  BY <1>1, <1>4 DEF KeysKnown, Added, KeysBeforePort
<1>14. AllOwned'
  <2>1. Removed' <=> Removed
    BY <1>1 DEF Removed
  <2>2. link.vif \in Owned'
    BY <1>1, <1>3, <1>4, <1>5, <1>8, <2>1 DEF Owned
  <2>3. (cmd.do = "AddInterface" /\ cmd.answer = "ok") => cmd.vif \in Owned'
    BY <1>1 DEF Owned
  <2>4. ~Scanning
    BY <1>1 DEF Scanning
  <2>5. Owned \subseteq Owned'
    BY <2>2, <2>3, <2>4 DEF Owned
  <2> QED  BY <1>1, <2>5 DEF AllOwned
<1> QED  BY <1>3, <1>10, <1>11, <1>12, <1>13, <1>14

LEMMA ResetKeeps == ASSUME Supervised, Reset PROVE Supervised'
<1> USE DEF Supervised
<1>1. /\ secure' = secure /\ due' = due \ {Console} /\ tasks' = tasks /\ handle' = handle /\ cmd' = cmd /\ chip' = chip
      /\ Busy /\ Todo.do = "reset" /\ console.phase = "ready" /\ link' = NoLink /\ console' = Idle
  BY DEF Reset, Resumed, At, Busy
<1>2. Todo.part = "cleanup" /\ cmd.owner # Console /\ cmd.do # "AddInterface"
  <2>1. Todo \in StepSet /\ Belongs(Todo)
    BY <1>1, AdvanceFacts
  <2>2. Todo.part \in Parts
    BY <2>1 DEF StepSet
  <2>3. cmd.owner # Console /\ cmd.do # "AddInterface"
    BY <1>1, NotConsole DEF NoCmd
  <2> QED  BY <1>1, <2>1, <2>2, <2>3 DEF Belongs, Parts
<1>3. Alive = {} /\ Alive' = {}
  BY <1>1, <1>2 DEF TasksKnown, Alive
<1>4. /\ console' \in ConsoleType /\ console'.phase = "ready" /\ ~Busy' /\ Shaped(console.plan)'
  <2>1. Idle \in ConsoleType /\ Idle.plan = <<>> /\ Idle.phase = "ready" /\ Shaped(Idle.plan)
    BY DEF Idle, ConsoleType, Shaped
  <2> QED  BY <1>1, <2>1, ShapedStays DEF Busy
<1>5. link' \in LinkType /\ ~link'.up
  <2> DEFINE f == FALSE
  <2>1. f \in BOOLEAN /\ ~f /\ 0 \in Vifs \cup {0} /\ NoLink = [up |-> f, encrypted |-> f, vif |-> 0, aid |-> f]
    BY DEF NoLink
  <2> HIDE DEF f
  <2>2. NoLink \in LinkType
    BY <2>1, LinkMade
  <2>3. ~NoLink.up
    BY <2>1
  <2> QED  BY <1>1, <2>2, <2>3
<1>6. Typed'
  BY <1>1, <1>4, <1>5 DEF Typed, ChipTyped
<1>7. CmdKnown'
  <2>1. cmd.owner \notin LinkIds
    BY <1>3 DEF CmdKnown, Alive
  <2> QED  BY <1>1, <1>2, <1>4, <2>1 DEF CmdKnown
<1>8. TasksKnown' /\ UpKnown'
  BY <1>3, <1>5 DEF TasksKnown, UpKnown
<1>9. KeysKnown'
  BY <1>1, <1>4 DEF KeysKnown, Added, KeysBeforePort
<1>10. Owned = {}
  BY <1>1, <1>2, <1>3 DEF Owned, Scanning, Added
<1>11. AllOwned'
  BY <1>1, <1>10 DEF AllOwned
<1> QED  BY <1>4, <1>6, <1>7, <1>8, <1>9, <1>11

\* An interface whose removal is refused is one nobody will remove.
LEMMA RefusedFacts ==
  ASSUME Typed, NEW do, NEW v, Refused(do, v)
  PROVE  /\ chip'.ifaces = chip.ifaces /\ chip.stray \subseteq chip'.stray /\ chip'.stray \subseteq DOMAIN chip.ifaces
         /\ chip' = [ifaces |-> chip'.ifaces, scans |-> chip'.scans, stray |-> chip'.stray]
         /\ do = "RemoveInterface" => {v} \cap DOMAIN chip.ifaces \subseteq chip'.stray
<1> DEFINE x == chip.stray \cup ({v} \cap DOMAIN chip.ifaces)
<1>1. chip = [ifaces |-> chip.ifaces, scans |-> chip.scans, stray |-> chip.stray] /\ chip.stray \subseteq DOMAIN chip.ifaces
  BY DEF Typed, ChipTyped
<1>2. CASE do = "RemoveInterface"
  <2>1. chip' = [chip EXCEPT !.stray = x]
    BY <1>2 DEF Refused
  <2>2. x \subseteq DOMAIN chip.ifaces /\ chip.stray \subseteq x /\ {v} \cap DOMAIN chip.ifaces \subseteq x
    BY <1>1
  <2> HIDE DEF x
  <2>3. chip' = [ifaces |-> chip.ifaces, scans |-> chip.scans, stray |-> x]
    BY <1>1, <2>1
  <2> QED  BY <2>2, <2>3
<1>3. CASE do # "RemoveInterface"
  BY <1>1, <1>3 DEF Refused
<1> QED  BY <1>2, <1>3

\* A command of the console that is refused because another one is in flight.
LEMMA ConsoleRefused ==
  ASSUME Supervised, Resumed(Console), Busy, console.phase = "ready", Todo.do \notin Exchanges \cup Local \cup {"found"},
         cmd # NoCmd, console' = Failed, Refused(Todo.do, VifOf(Todo)),
         secure' = secure, tasks' = tasks, handle' = handle, link' = link, cmd' = cmd
  PROVE  Supervised'
<1> USE DEF Supervised
<1>1. /\ chip'.ifaces = chip.ifaces /\ chip.stray \subseteq chip'.stray /\ chip'.stray \subseteq DOMAIN chip.ifaces
      /\ chip' = [ifaces |-> chip'.ifaces, scans |-> chip'.scans, stray |-> chip'.stray]
      /\ Todo.do = "RemoveInterface" => {VifOf(Todo)} \cap DOMAIN chip.ifaces \subseteq chip'.stray
  BY RefusedFacts
<1>2. /\ Console \in due /\ due' = due \ {Console} /\ due' \subseteq {Console} \cup LinkIds /\ Console \notin LinkIds
  BY DEF Resumed, Typed, Console, LinkIds
<1>3. /\ cmd.owner # Console /\ cmd.do = "RemoveInterface" /\ cmd.owner \in LinkIds
  BY NotConsole
<1>4. PICK t \in Alive : cmd.owner = t /\ tasks[t] = "removing" /\ ~link.up
  <2>1. tasks[cmd.owner] = "removing"
    BY <1>3 DEF CmdKnown
  <2> QED  BY <1>3, <2>1 DEF Alive, TasksKnown, Tearing
<1>5. Todo.part \in {"scan", "lost"}
  BY <1>4 DEF TasksKnown
<1>6. /\ Shaped(console.plan)' /\ console' \in ConsoleType /\ console'.phase = "ready"
      /\ Todo \in StepSet /\ Belongs(Todo)
      /\ Busy' => console'.vif = console.vif /\ Todo' \in StepSet /\ Belongs(Todo')
      /\ \/ /\ Todo.do \notin {"AddInterface", "HwScan"}
            /\ Busy' => Adjacent(Todo, Todo')
            /\ ~Busy' => Ends(Todo)
            /\ Connecting' => Connecting
         \/ Todo.do = "AddInterface" /\ ~Busy' /\ ~Connecting'
         \/ Todo = Step("scan", "HwScan") /\ Busy' /\ Todo' = Step("lost", "RemoveInterface") /\ ~Connecting'
  BY <1>5, ConsoleFails
<1>7. ~Connecting'
  <2>1. Connecting => Todo.do \in {"AddInterface", "HwScan"}
    BY <1>4 DEF TasksKnown, Behind, Pos
  <2>2. Step("scan", "HwScan").do = "HwScan"
    BY DEF Step
  <2> QED  BY <1>6, <2>1, <2>2
<1>8. Typed'
  BY <1>1, <1>2, <1>6 DEF Typed, ChipTyped
<1>9. CmdKnown'
  BY <1>1, <1>2, <1>3, <1>6 DEF CmdKnown
<1>10. Busy' => Todo'.part \in {"scan", "lost"}
  <2>1. Step("lost", "RemoveInterface").part = "lost"
    BY DEF Step
  <2>2. Busy' /\ Todo'.part = "connect" => Connecting'
    BY <1>6, WillConnect
  <2>3. ASSUME Busy', Adjacent(Todo, Todo') PROVE Todo'.part \in {"scan", "lost"}
    <3>1. Todo'.part \in Parts
      BY <1>6, <2>3 DEF StepSet
    <3> QED  BY <1>5, <1>7, <2>2, <2>3, <3>1 DEF Adjacent, Parts
  <2> QED  BY <1>6, <2>1, <2>3
<1>11. TasksKnown'
  <2>1. Alive' = Alive
    BY DEF Alive
  <2> QED  BY <1>7, <1>10, <2>1 DEF TasksKnown
<1>12. UpKnown'
  BY <1>4 DEF UpKnown
<1>13. KeysKnown'
  BY <1>1, <1>10 DEF KeysKnown, Added, KeysBeforePort
<1>14. AllOwned'
  <2>1. Alive' = Alive /\ (Removed' <=> Removed)
    BY DEF Alive, Removed
  <2>2. ~Added /\ Todo.part # "cleanup"
    BY <1>5 DEF Added
  <2>3. ASSUME Scanning, Todo.do # "RemoveInterface" PROVE Scanning' /\ console'.vif = console.vif
    <3>1. CASE Todo = Step("scan", "HwScan")
      BY <1>6, <2>3, <3>1 DEF Scanning, Step
    <3>2. CASE Todo.do = "Abort"
      <4>1. Todo.part = "lost"
        BY <1>5, <1>6, <3>2 DEF Belongs
      <4>2. ~Ends(Todo)
        BY <3>2 DEF Ends, Step
      <4>3. Busy' /\ Adjacent(Todo, Todo')
        BY <1>6, <3>2, <4>2 DEF Step
      <4>4. Todo'.part = "lost" /\ Todo'.do = "RemoveInterface"
        BY <1>6, <4>1, <4>3 DEF Adjacent, Belongs
      <4> QED  BY <1>6, <4>3, <4>4 DEF Scanning
    <3>3. Todo.do \in {"HwScan", "Abort"}
      BY <2>3 DEF Scanning, Local
    <3>4. Todo.do = "HwScan" => Todo = Step("scan", "HwScan")
      BY <1>5, <1>6 DEF Belongs, StepSet, Step
    <3> QED  BY <3>1, <3>2, <3>3, <3>4
  <2>4. ASSUME Scanning, Todo.do = "RemoveInterface" PROVE {console.vif} \cap DOMAIN chip.ifaces \subseteq chip'.stray
    BY <1>1, <1>5, <2>4 DEF VifOf
  <2>5. (\E s \in Alive : tasks[s] # "reset" /\ ~(cmd.owner = s /\ Removed)) => link.vif \in Owned'
    BY <2>1 DEF Owned
  <2>6. ASSUME NEW v \in DOMAIN chip.ifaces, v \in Owned PROVE v \in chip'.stray \cup Owned'
    <3>1. CASE Scanning /\ v = console.vif
      BY <2>3, <2>4, <3>1, <1>3, <2>6 DEF Owned
    <3>2. CASE ~(Scanning /\ v = console.vif)
      BY <1>3, <2>2, <2>5, <2>6, <3>2 DEF Owned
    <3> QED  BY <3>1, <3>2
  <2> QED  BY <1>1, <2>6 DEF AllOwned
<1> QED  BY <1>6, <1>8, <1>9, <1>11, <1>12, <1>13, <1>14

\* A command that is accepted.
LEMMA SendsFacts ==
  ASSUME NEW o \in {Console} \cup LinkIds, NEW do \in Names, NEW v \in Vifs \cup {NoVif, 0}, Sends(o, do, v)
  PROVE  cmd' \in CmdType /\ cmd'.owner = o /\ cmd'.do = do /\ cmd'.vif = v /\ cmd'.answer = "none"
<1> DEFINE w == NoVif
<1>1. cmd' = [[owner |-> -1, do |-> "none", vif |-> w, answer |-> "none"] EXCEPT !.owner = o, !.do = do, !.vif = v]
  BY DEF Sends, NoCmd
<1> HIDE DEF w
<1>2. cmd' = [owner |-> o, do |-> do, vif |-> v, answer |-> "none"]
  BY <1>1
<1>3. [owner |-> o, do |-> do, vif |-> v, answer |-> "none"] \in CmdType
  BY DEF CmdType
<1> QED  BY <1>2, <1>3

\* A command of the console that is accepted.
LEMMA ConsoleSent ==
  ASSUME Supervised, Resumed(Console), Busy, console.phase = "ready", Todo.do \notin Exchanges \cup Local \cup {"found"},
         cmd = NoCmd, console' = [console EXCEPT !.phase = "sent"], Sends(Console, Todo.do, VifOf(Todo)),
         secure' = secure, tasks' = tasks, handle' = handle, link' = link, chip' = chip
  PROVE  Supervised'
<1> USE DEF Supervised
<1>1. /\ Console \in due /\ due' = due \ {Console} /\ due' \subseteq {Console} \cup LinkIds /\ Console \notin LinkIds
      /\ -1 # Console
  BY DEF Resumed, Typed, Console, LinkIds
<1>2. /\ console' \in ConsoleType /\ console'.plan = console.plan /\ console'.phase = "sent" /\ console'.vif = console.vif
  BY ConsolePhase DEF Typed
<1>3. Busy' /\ Todo' = Todo /\ (Connecting' <=> Connecting) /\ Shaped(console.plan)'
  BY <1>2, ShapedStays DEF Busy, Todo, Connecting
<1>4. Todo \in StepSet /\ Belongs(Todo) /\ Todo.do \in Names
  <2>1. Todo \in StepSet /\ Belongs(Todo)
    BY AdvanceFacts
  <2> QED  BY <2>1 DEF StepSet
<1>5. VifOf(Todo) \in Vifs \cup {NoVif, 0} /\ VifOf(Todo)' = VifOf(Todo)
  BY <1>2, <1>3 DEF VifOf, Typed, ConsoleType, LinkType
<1>6. cmd' \in CmdType /\ cmd'.owner = Console /\ cmd'.do = Todo.do /\ cmd'.vif = VifOf(Todo) /\ cmd'.answer = "none"
  BY <1>4, <1>5, SendsFacts
<1>7. cmd.owner = -1 /\ cmd.do = "none" /\ cmd.answer = "none"
  BY DEF NoCmd
<1>8. Typed'
  BY <1>1, <1>2, <1>6 DEF Typed, ChipTyped
<1>9. \A t \in LinkIds : tasks[t] # "removing"
  <2>1. \A t \in LinkIds : t # -1
    BY DEF LinkIds
  <2> QED  BY <1>7, <2>1 DEF CmdKnown
<1>10. CmdKnown'
  BY <1>1, <1>2, <1>3, <1>5, <1>6, <1>7, <1>9 DEF CmdKnown
<1>11. TasksKnown'
  <2>1. Alive' = Alive
    BY DEF Alive
  <2>2. ASSUME NEW t \in Alive, Behind(t) PROVE Behind(t)'
    <3>1. t \in LinkIds /\ tasks[t] # "removing"
      BY <1>9 DEF Alive
    <3>2. Pos <= Gone(t) + One(t \in due) - One(Console \in due)
      BY <2>2, <3>1 DEF Behind
    <3>3. One(Console \in due) = 1 /\ One(Console \in due') = 0
      BY <1>1 DEF One
    <3>4. One(t \in due') = One(t \in due) /\ Gone(t)' = Gone(t)
      BY <1>1, <3>1 DEF One, Gone
    <3>5. Pos' \in {Pos, Pos + 1} /\ Pos \in 0 .. 4 /\ Pos' \in 0 .. 4
      BY <1>2, <1>3 DEF Pos
    <3>6. Gone(t) \in 0 .. 3 /\ One(t \in due) \in 0 .. 1
      BY DEF Gone, One
    <3>7. Pos' <= Gone(t)' + One(t \in due') - One(Console \in due')
      BY <3>2, <3>3, <3>4, <3>5, <3>6
    <3> QED  BY <1>3, <2>2, <3>1, <3>7 DEF Behind
  <2> QED  BY <1>3, <2>1, <2>2 DEF TasksKnown
<1>12. UpKnown'
  BY <1>2, <1>3, <1>6 DEF UpKnown, Alive, Scanning
<1>13. KeysKnown'
  BY <1>3, <1>6 DEF KeysKnown, Added, KeysBeforePort
<1>14. AllOwned'
  <2>1. Alive' = Alive /\ ~Removed /\ ~Removed'
    BY <1>6, <1>7 DEF Alive, Removed
  <2>2. (Scanning' <=> Scanning) /\ (Added' <=> Added)
    BY <1>3 DEF Scanning, Added
  <2>3. Owned \subseteq Owned'
    BY <1>2, <1>3, <1>6, <1>7, <2>1, <2>2 DEF Owned
  <2> QED  BY <2>3 DEF AllOwned
<1> QED  BY <1>2, <1>3, <1>8, <1>10, <1>11, <1>12, <1>13, <1>14

LEMMA ConsoleSendsKeeps == ASSUME Supervised, ConsoleSends PROVE Supervised'
<1>1. /\ Resumed(Console) /\ Busy /\ console.phase = "ready" /\ Todo.do \notin Exchanges \cup Local \cup {"found"}
      /\ secure' = secure /\ tasks' = tasks /\ handle' = handle /\ link' = link
  BY DEF ConsoleSends, Busy
<1>2. CASE cmd # NoCmd
  <2>1. console' = Failed /\ Refused(Todo.do, VifOf(Todo)) /\ cmd' = cmd
    BY <1>2 DEF ConsoleSends
  <2> QED  BY <1>1, <1>2, <2>1, ConsoleRefused
<1>3. CASE cmd = NoCmd
  <2>1. Sends(Console, Todo.do, VifOf(Todo)) /\ console' = [console EXCEPT !.phase = "sent"] /\ chip' = chip
    BY <1>3 DEF ConsoleSends
  <2> QED  BY <1>1, <1>3, <2>1, ConsoleSent
<1> QED  BY <1>2, <1>3

LEMMA UpKeeps == ASSUME Supervised, Up PROVE Supervised'
<1> USE DEF Supervised
<1>1. /\ secure' = secure /\ due' = due \ {Console} /\ cmd' = cmd /\ chip' = chip
      /\ Busy /\ Todo.do = "up" /\ console.phase = "ready" /\ link' = [link EXCEPT !.up = TRUE]
      /\ \/ console' = Failed /\ tasks' = tasks /\ handle' = handle
         \/ /\ console' = Idle
            /\ \E t \in LinkIds : tasks[t] = "none" /\ tasks' = [tasks EXCEPT ![t] = "loop"] /\ handle' = t
  BY DEF Up, Resumed, At, Busy
<1>2. /\ Todo \in StepSet /\ Belongs(Todo) /\ Todo.part = "connect"
      /\ cmd.owner # Console /\ cmd.do # "AddInterface"
  <2>1. Todo \in StepSet /\ Belongs(Todo)
    BY <1>1, AdvanceFacts
  <2>2. Todo.part \in Parts
    BY <2>1 DEF StepSet
  <2>3. cmd.owner # Console /\ cmd.do # "AddInterface"
    BY <1>1, NotConsole DEF NoCmd
  <2> QED  BY <1>1, <2>1, <2>2, <2>3 DEF Belongs, Parts
<1>3. Alive = {}
  BY <1>1, <1>2 DEF TasksKnown
<1>4. link' \in LinkType /\ link'.up /\ link'.vif = link.vif
  <2> DEFINE f == TRUE
  <2>1. f \in BOOLEAN /\ link \in LinkType /\ link' = [link EXCEPT !.up = f] /\ f
    BY <1>1 DEF Typed
  <2> HIDE DEF f
  <2> QED  BY <2>1, LinkUp
<1>5. /\ Added /\ link.vif \in DOMAIN chip.ifaces /\ chip.ifaces[link.vif].sta = "Authorized"
      /\ due' \subseteq {Console} \cup LinkIds
  BY <1>1, <1>2 DEF Added, KeysKnown, Typed
<1>6. CASE console' = Failed /\ tasks' = tasks /\ handle' = handle
  <2>1. /\ Shaped(console.plan)' /\ console' \in ConsoleType /\ console'.phase = "ready"
        /\ Busy' /\ Todo' = Step("cleanup", "RemoveInterface")
    BY <1>1, <1>2, <1>6, ConsoleFails DEF Step
  <2>2. Todo'.part = "cleanup" /\ Todo'.do = "RemoveInterface"
    BY <2>1 DEF Step
  <2>3. Alive' = {}
    BY <1>3, <1>6 DEF Alive
  <2>4. Typed'
    BY <1>1, <1>4, <1>5, <1>6, <2>1 DEF Typed, ChipTyped
  <2>5. CmdKnown'
    BY <1>1, <1>2, <1>6, <2>1 DEF CmdKnown
  <2>6. TasksKnown' /\ UpKnown'
    BY <2>1, <2>2, <2>3 DEF TasksKnown, UpKnown
  <2>7. KeysKnown'
    BY <1>1, <2>2 DEF KeysKnown, Added, KeysBeforePort
  <2>8. AllOwned'
    <3>1. link'.vif \in Owned'
      BY <1>1, <1>2, <2>1, <2>2 DEF Owned
    <3>2. Owned \subseteq {link.vif}
      BY <1>1, <1>2, <1>3 DEF Owned, Scanning
    <3> QED  BY <1>1, <1>4, <3>1, <3>2 DEF AllOwned
  <2> QED  BY <2>1, <2>4, <2>5, <2>6, <2>7, <2>8
<1>7. ASSUME console' = Idle, NEW t \in LinkIds, tasks[t] = "none", tasks' = [tasks EXCEPT ![t] = "loop"], handle' = t
      PROVE  Supervised'
  <2>1. /\ console' \in ConsoleType /\ console'.phase = "ready" /\ ~Busy' /\ Shaped(console.plan)'
    <3>1. Idle \in ConsoleType /\ Idle.plan = <<>> /\ Idle.phase = "ready" /\ Shaped(Idle.plan)
      BY DEF Idle, ConsoleType, Shaped
    <3> QED  BY <1>1, <1>7, <3>1, ShapedStays DEF Busy
  <2>2. tasks \in [LinkIds -> Places] /\ tasks' \in [LinkIds -> Places]
    BY <1>7 DEF Typed, Places
  <2>3. \A s \in LinkIds : tasks'[s] = IF s = t THEN "loop" ELSE tasks[s]
    BY <1>7, <2>2
  <2>4. Alive' = {t}
    BY <1>3, <2>3 DEF Alive
  <2>5. Typed'
    BY <1>1, <1>4, <1>5, <1>7, <2>1, <2>2 DEF Typed, ChipTyped
  <2>6. CmdKnown'
    <3>1. \A s \in LinkIds : (cmd'.owner = s) <=> (tasks'[s] = "removing")
      BY <1>1, <1>7, <2>3 DEF CmdKnown
    <3>2. Console \notin due'
      BY <1>1
    <3> QED  BY <1>1, <1>2, <2>1, <3>1, <3>2 DEF CmdKnown
  <2>7. TasksKnown'
    <3>1. ~Connecting'
      BY <2>1 DEF Connecting
    <3> QED  BY <1>4, <1>7, <2>1, <2>3, <2>4, <3>1 DEF TasksKnown, Tearing
  <2>8. UpKnown'
    BY <1>1, <1>2, <1>4, <1>5, <2>1, <2>4 DEF UpKnown, Scanning
  <2>9. KeysKnown'
    BY <1>1, <2>1 DEF KeysKnown, Added, KeysBeforePort
  <2>10. AllOwned'
    <3>1. t \in Alive' /\ tasks'[t] # "reset" /\ cmd'.owner # t
      BY <1>1, <1>7, <2>3, <2>4 DEF CmdKnown
    <3>2. link'.vif \in Owned'
      BY <3>1 DEF Owned
    <3>3. Owned \subseteq {link.vif}
      BY <1>1, <1>2, <1>3 DEF Owned, Scanning
    <3> QED  BY <1>1, <1>4, <3>2, <3>3 DEF AllOwned
  <2> QED  BY <2>1, <2>5, <2>6, <2>7, <2>8, <2>9, <2>10
<1> QED  BY <1>1, <1>6, <1>7

\* What the console, a command of whose it is that is answered, can say of the tasks.
LEMMA AnsweredFacts ==
  ASSUME Supervised, Resumed(Console), console.phase = "sent", cmd.owner = Console, cmd.answer # "none"
  PROVE  /\ Console \in due /\ due' = due \ {Console} /\ due' \subseteq {Console} \cup LinkIds /\ Console \notin LinkIds
         /\ Busy /\ Todo \in StepSet /\ Belongs(Todo) /\ Todo.part \in Parts /\ ~(Ends(Todo) /\ Todo.part = "cleanup")
         /\ Todo.do \notin Exchanges \cup Local \cup {"found"} /\ cmd.do = Todo.do
         /\ Todo.do # "AddInterface" => cmd.vif = VifOf(Todo)
         /\ \A t \in LinkIds : tasks[t] # "removing"
         /\ Alive # {} => Todo.part \in {"scan", "lost"}
         /\ (Alive # {} /\ Connecting) => ~link.up /\ Todo.do \in {"AddInterface", "HwScan"} /\ Todo.part = "scan"
<1> USE DEF Supervised
<1>1. /\ Console \in due /\ due' = due \ {Console} /\ due' \subseteq {Console} \cup LinkIds /\ Console \notin LinkIds
  BY DEF Resumed, Typed, Console, LinkIds
<1>2. Busy
  BY DEF CmdKnown
<1>3. Todo \in StepSet /\ Belongs(Todo)
  BY <1>2, AdvanceFacts
<1>4. /\ Todo.do \notin Exchanges \cup Local \cup {"found"} /\ cmd.do = Todo.do
      /\ Todo.do # "AddInterface" => cmd.vif = VifOf(Todo)
      /\ \A t \in LinkIds : tasks[t] # "removing"
  BY <1>1 DEF CmdKnown
<1>5. Alive # {} => Todo.part \in {"scan", "lost"}
  BY <1>2 DEF TasksKnown
<1>6. ASSUME Alive # {}, Connecting
      PROVE  ~link.up /\ Todo.do \in {"AddInterface", "HwScan"} /\ Todo.part = "scan"
  <2>1. PICK t \in Alive : TRUE
    BY <1>6
  <2>2. ~link.up /\ Behind(t) /\ tasks[t] # "removing"
    BY <1>4, <1>6, <2>1 DEF TasksKnown, Alive
  <2>3. Todo.part = "scan" /\ Pos <= Gone(t) + One(t \in due) - One(Console \in due)
    BY <2>2 DEF Behind
  <2>4. Gone(t) \in 0 .. 3 /\ One(t \in due) \in 0 .. 1 /\ One(Console \in due) = 1 /\ Pos \in 0 .. 4
    BY <1>1 DEF Gone, One, Pos
  <2>5. Pos # 4
    BY <2>3, <2>4
  <2> QED  BY <2>2, <2>3, <2>5 DEF Pos
<1>7. Todo.part \in Parts
  BY <1>3 DEF StepSet
<1>8. ~(Ends(Todo) /\ Todo.part = "cleanup")
  BY <1>4 DEF Ends, Step, Local
<1> QED  BY <1>1, <1>2, <1>3, <1>4, <1>5, <1>6, <1>7, <1>8

\* The console is told that its command failed.
LEMMA ConsoleAnsweredBadly ==
  ASSUME Supervised, Resumed(Console), console.phase = "sent", cmd.owner = Console, cmd.answer = "failed",
         cmd' = NoCmd, console' = Failed,
         secure' = secure, tasks' = tasks, handle' = handle, link' = link, chip' = chip
  PROVE  Supervised'
<1> USE DEF Supervised
<1>1. /\ due' \subseteq {Console} \cup LinkIds /\ Console \notin LinkIds /\ Console \notin due'
      /\ Busy /\ Todo \in StepSet /\ Belongs(Todo) /\ Todo.part \in Parts /\ ~(Ends(Todo) /\ Todo.part = "cleanup")
      /\ Todo.do \notin Exchanges \cup Local \cup {"found"} /\ cmd.do = Todo.do
      /\ \A t \in LinkIds : tasks[t] # "removing"
      /\ Alive # {} => Todo.part \in {"scan", "lost"}
      /\ (Alive # {} /\ Connecting) => Todo.do \in {"AddInterface", "HwScan"} /\ Todo.part = "scan"
  BY AnsweredFacts
<1>2. /\ Shaped(console.plan)' /\ console' \in ConsoleType /\ console'.phase = "ready"
      /\ Busy' => console'.vif = console.vif /\ Todo' \in StepSet /\ Belongs(Todo')
      /\ \/ /\ Todo.part \in {"cleanup", "scan", "lost"} /\ Todo.do \notin {"AddInterface", "HwScan"}
            /\ Busy' => Adjacent(Todo, Todo')
            /\ ~Busy' => Ends(Todo)
            /\ Connecting' => Connecting
         \/ Todo.do = "AddInterface" /\ ~Busy' /\ ~Connecting'
         \/ /\ Todo = Step("scan", "HwScan") /\ Busy' /\ Todo' = Step("lost", "RemoveInterface") /\ ~Connecting'
         \/ /\ Todo.part = "connect" /\ Todo.do # "AddInterface"
            /\ Busy' /\ Todo' = Step("cleanup", "RemoveInterface") /\ ~Connecting'
  BY <1>1, ConsoleFails
<1>3. /\ Step("lost", "RemoveInterface").part = "lost" /\ Step("lost", "RemoveInterface").do = "RemoveInterface"
      /\ Step("cleanup", "RemoveInterface").part = "cleanup" /\ Step("cleanup", "RemoveInterface").do = "RemoveInterface"
      /\ Step("scan", "HwScan").part = "scan" /\ Step("scan", "HwScan").do = "HwScan"
  BY DEF Step
<1>4. /\ cmd' \in CmdType /\ cmd'.owner = -1 /\ cmd'.do = "none" /\ cmd'.answer = "none" /\ -1 # Console
      /\ \A t \in LinkIds : t # -1
  BY DEF NoCmd, CmdType, Console, LinkIds
<1>5. Typed'
  BY <1>1, <1>2, <1>4 DEF Typed, ChipTyped
<1>6. CmdKnown'
  BY <1>1, <1>2, <1>4 DEF CmdKnown
<1>7. Busy' /\ Todo'.part = "connect" => Connecting'
  BY <1>2, WillConnect
<1>8. Alive' = Alive
  BY DEF Alive
<1>9. Alive # {} => ~Connecting' /\ (Busy' => Todo'.part \in {"scan", "lost"})
  <2>1. ASSUME Alive # {} PROVE ~Connecting'
    BY <1>1, <1>2, <2>1
  <2>2. ASSUME Alive # {}, Busy' PROVE Todo'.part \in {"scan", "lost"}
    <3>1. Todo.part \in {"scan", "lost"} /\ Todo'.part # "connect" /\ Todo'.part \in Parts
      BY <1>1, <1>2, <1>7, <2>1, <2>2 DEF StepSet
    <3> QED  BY <1>2, <1>3, <2>2, <3>1 DEF Adjacent, Parts
  <2> QED  BY <2>1, <2>2
<1>10. TasksKnown'
  BY <1>8, <1>9 DEF TasksKnown
<1>11. Scanning' => Scanning
  <2>1. ASSUME Adjacent(Todo, Todo'), Busy', Scanning', Todo.do \notin {"AddInterface", "HwScan"} PROVE Scanning
    <3>1. Todo.part \in {"scan", "lost"} /\ Todo.do # "GetVersion"
      BY <1>1, <2>1 DEF Adjacent, Scanning, Parts
    <3> QED  BY <1>1, <2>1, <3>1 DEF Scanning, Belongs
  <2> QED  BY <1>1, <1>2, <1>3, <2>1 DEF Scanning
<1>12. UpKnown'
  <2>1. ASSUME link.up, Alive = {} PROVE Busy' /\ Todo'.part = "cleanup"
    <3>1. Todo.part = "cleanup"
      BY <2>1 DEF UpKnown
    <3>2. Todo.do # "AddInterface"
      BY <1>1, <3>1 DEF Belongs
    <3> QED  BY <1>1, <1>2, <1>3, <3>1, <3>2 DEF Adjacent
  <2>2. ASSUME link.up, Scanning', Alive # {} PROVE console'.vif # link.vif
    BY <1>2, <1>11, <2>2 DEF UpKnown, Scanning
  <2> QED  BY <1>4, <1>8, <2>1, <2>2 DEF UpKnown
<1>13. ~Added'
  <2>1. ASSUME Adjacent(Todo, Todo'), Busy', Todo.part \in {"cleanup", "scan", "lost"} PROVE ~Added'
    BY <2>1 DEF Adjacent, Added
  <2> QED  BY <1>2, <1>3, <2>1 DEF Added
<1>14. KeysKnown'
  BY <1>13 DEF KeysKnown, KeysBeforePort
<1>15. AllOwned'
  <2>1. ~Removed'
    BY <1>4 DEF Removed
  <2>2. ASSUME Scanning, ~Removed PROVE Scanning' /\ console'.vif = console.vif
    <3>1. CASE Todo = Step("scan", "HwScan")
      BY <1>2, <1>3, <3>1 DEF Scanning
    <3>2. CASE Todo.do = "Abort"
      <4>1. Todo.part = "lost"
        BY <1>1, <2>2, <3>2 DEF Belongs, Scanning
      <4>2. ~Ends(Todo)
        BY <3>2 DEF Ends, Step
      <4>3. Busy' /\ Adjacent(Todo, Todo')
        BY <1>2, <1>3, <3>2, <4>1, <4>2
      <4>4. Todo'.part = "lost" /\ Todo'.do = "RemoveInterface"
        BY <1>2, <4>1, <4>3 DEF Adjacent, Belongs
      <4> QED  BY <1>2, <4>3, <4>4 DEF Scanning
    <3>3. Todo.do \in {"HwScan", "Abort"}
      BY <1>1, <2>2 DEF Scanning, Local, Removed
    <3>4. Todo.do = "HwScan" => Todo = Step("scan", "HwScan")
      BY <1>1, <2>2 DEF Belongs, StepSet, Step, Scanning
    <3> QED  BY <3>1, <3>2, <3>3, <3>4
  <2>3. ASSUME Added PROVE Busy' /\ Todo'.part = "cleanup" /\ Todo'.do # "reset"
    BY <1>2, <1>3, <2>3 DEF Added
  <2>4. ASSUME Todo.part = "cleanup", ~Removed PROVE Busy' /\ Todo'.part = "cleanup" /\ Todo'.do # "reset"
    <3>1. Todo.do = "None"
      BY <1>1, <2>4 DEF Belongs, Exchanges, Local, Removed
    <3>2. Busy' /\ Adjacent(Todo, Todo')
      BY <1>1, <1>2, <1>3, <2>4, <3>1
    <3> QED  BY <2>4, <3>1, <3>2 DEF Adjacent
  <2>5. ~(cmd.do = "AddInterface" /\ cmd.answer = "ok")
    OBVIOUS
  <2>6. \A t \in Alive : cmd.owner # t /\ cmd'.owner # t
    BY <1>1, <1>4 DEF Alive
  <2>7. Owned \subseteq Owned'
    <3>1. SUFFICES ASSUME NEW v \in Owned PROVE v \in Owned'
      OBVIOUS
    <3>2. \/ v = console.vif /\ Scanning /\ ~Removed
          \/ v = link.vif /\ Added
          \/ v = link.vif /\ Todo.part = "cleanup" /\ ~Removed
          \/ v = link.vif /\ \E t \in Alive : tasks[t] # "reset"
      BY <2>5, <2>6 DEF Owned
    <3>3. CASE v = console.vif /\ Scanning /\ ~Removed
      BY <2>1, <2>2, <3>3 DEF Owned
    <3>4. CASE v = link.vif /\ Added
      BY <2>1, <2>3, <3>4 DEF Owned
    <3>5. CASE v = link.vif /\ Todo.part = "cleanup" /\ ~Removed
      BY <2>1, <2>4, <3>5 DEF Owned
    <3>6. CASE v = link.vif /\ \E t \in Alive : tasks[t] # "reset"
      BY <1>8, <2>1, <3>6 DEF Owned
    <3> QED  BY <3>2, <3>3, <3>4, <3>5, <3>6
  <2> QED  BY <2>7 DEF AllOwned
<1> QED  BY <1>2, <1>5, <1>6, <1>10, <1>12, <1>14, <1>15

\* The console is told that its command was performed.
LEMMA ConsoleAnsweredWell ==
  ASSUME Supervised, Resumed(Console), console.phase = "sent", cmd.owner = Console, cmd.answer = "ok",
         cmd' = NoCmd, console'.plan = Advance.plan, console'.phase = "ready", console' \in ConsoleType,
         (Todo.do = "AddInterface" /\ Todo.part = "scan") => console'.vif = cmd.vif,
         ~(Todo.do = "AddInterface" /\ Todo.part = "scan") => console'.vif = Advance.vif,
         link' \in LinkType, link'.up = link.up,
         (Todo.do = "AddInterface" /\ Todo.part # "scan") => link'.vif = cmd.vif,
         ~(Todo.do = "AddInterface" /\ Todo.part # "scan") => link'.vif = link.vif,
         secure' = secure, tasks' = tasks, handle' = handle,
         chip'.ifaces = chip.ifaces, chip.stray \subseteq chip'.stray, chip'.stray \subseteq DOMAIN chip.ifaces,
         chip' = [ifaces |-> chip'.ifaces, scans |-> chip'.scans, stray |-> chip'.stray],
         (Todo.do = "AddInterface" /\ Todo.part = "scan" /\ console'.plan = <<>>) => cmd.vif \in chip'.stray
  PROVE  Supervised'
<1> USE DEF Supervised
<1>1. /\ due' \subseteq {Console} \cup LinkIds /\ Console \notin LinkIds /\ Console \notin due'
      /\ Busy /\ Todo \in StepSet /\ Belongs(Todo) /\ Todo.part \in Parts /\ ~(Ends(Todo) /\ Todo.part = "cleanup")
      /\ Todo.do \notin Exchanges \cup Local \cup {"found"} /\ cmd.do = Todo.do
      /\ \A t \in LinkIds : tasks[t] # "removing"
      /\ Alive # {} => Todo.part \in {"scan", "lost"}
      /\ (Alive # {} /\ Connecting) => ~link.up /\ Todo.do \in {"AddInterface", "HwScan"} /\ Todo.part = "scan"
  <2>1. Console \in due /\ due' = due \ {Console}
    BY DEF Resumed
  <2> QED  BY <2>1, AnsweredFacts
<1>2. /\ Shaped(console.plan)'
      /\ Busy' => Adjacent(Todo, Todo') /\ Belongs(Todo') /\ Todo' \in StepSet
      /\ ~Busy' => Ends(Todo)
      /\ Connecting' => Connecting
  BY <1>1, ConsoleGoesOn
<1>3. Busy' => Advance.vif = console.vif
  BY <1>1, AdvanceFacts DEF Busy
<1>4. /\ cmd' \in CmdType /\ cmd'.owner = -1 /\ cmd'.do = "none" /\ cmd'.answer = "none" /\ -1 # Console
      /\ \A t \in LinkIds : t # -1
  BY DEF NoCmd, CmdType, Console, LinkIds
<1>5. Typed'
  BY <1>1, <1>4 DEF Typed, ChipTyped
<1>6. CmdKnown'
  BY <1>1, <1>4 DEF CmdKnown
<1>7. Busy' /\ Todo'.part = "connect" => Connecting'
  BY <1>2, WillConnect
<1>8. Alive' = Alive
  BY DEF Alive
<1>9. Busy' => Todo'.part \in Parts /\ Todo'.do \in Names
  BY <1>2 DEF StepSet
<1>10. TasksKnown'
  <2>1. ASSUME NEW t \in Alive, Busy' PROVE Todo'.part \in {"scan", "lost"}
    <3>1. Todo.part \in {"scan", "lost"}
      BY <1>1, <2>1
    <3>2. Todo'.part # "cleanup"
      BY <1>2, <2>1, <3>1 DEF Adjacent
    <3>3. ASSUME Todo'.part = "connect" PROVE FALSE
      <4>1. Todo.do \in {"AddInterface", "HwScan"} /\ Todo.part = "scan"
        BY <1>1, <1>2, <1>7, <2>1, <3>3
      <4>2. Todo'.do = "found"
        BY <1>2, <2>1, <3>3, <4>1 DEF Adjacent
      <4> QED  BY <1>2, <2>1, <4>1, <4>2 DEF Adjacent
    <3> QED  BY <1>9, <2>1, <3>2, <3>3 DEF Parts
  <2>2. ASSUME NEW t \in Alive, ~link.up, Connecting' PROVE Behind(t)'
    <3>1. Connecting /\ Busy'
      BY <1>2, <2>2 DEF Connecting
    <3>2. Todo.do \in {"AddInterface", "HwScan"} /\ Todo.part = "scan"
      BY <1>1, <2>2, <3>1
    <3>3. Behind(t) /\ t \in LinkIds /\ tasks[t] # "removing"
      BY <1>1, <2>2, <3>1 DEF TasksKnown, Alive
    <3>4. Pos <= Gone(t) + One(t \in due) - One(Console \in due)
      BY <3>3 DEF Behind
    <3>5. /\ Gone(t)' = Gone(t) /\ Gone(t) \in 0 .. 3 /\ One(t \in due) \in 0 .. 1 /\ One(t \in due') = One(t \in due)
          /\ One(Console \in due) = 1 /\ One(Console \in due') = 0
      BY <1>1, <3>3 DEF Gone, One, Resumed
    <3>6. Pos = (IF Todo.do = "AddInterface" THEN 1 ELSE 3)
      BY <3>2 DEF Pos
    <3>7. Todo'.part = "scan"
      BY <1>9, <2>1, <2>2, <3>1, <3>2, <1>2 DEF Adjacent, Parts
    <3>8. Todo'.do = (IF Todo.do = "AddInterface" THEN "HwScan" ELSE "collect")
      BY <1>2, <3>1, <3>2, <3>7 DEF Adjacent
    <3>9. Pos' = Pos + 1
      BY <3>2, <3>6, <3>8 DEF Pos
    <3>10. Pos' <= Gone(t)' + One(t \in due') - One(Console \in due')
      BY <3>4, <3>5, <3>6, <3>9
    <3> QED  BY <3>3, <3>7, <3>10 DEF Behind
  <2> QED  BY <1>2, <1>8, <2>1, <2>2 DEF TasksKnown
<1>11. UpKnown'
  <2>1. ASSUME link.up, Alive = {} PROVE Busy' /\ Todo'.part = "cleanup"
    <3>1. Todo.part = "cleanup"
      BY <2>1 DEF UpKnown
    <3> QED  BY <1>1, <1>2, <3>1 DEF Adjacent
  <2>2. ASSUME link.up, Scanning', Alive # {} PROVE console'.vif # link.vif
    <3>1. Busy' /\ Todo'.part \in {"scan", "lost"}
      BY <2>2 DEF Scanning
    <3>2. CASE Todo.do = "AddInterface"
      <4>1. Todo.part = "scan"
        BY <1>1, <2>2, <3>2 DEF Belongs
      <4> QED  BY <1>1, <2>2, <3>2, <4>1 DEF UpKnown
    <3>3. CASE Todo.do # "AddInterface"
      <4>1. console'.vif = console.vif
        BY <1>3, <3>1, <3>3
      <4>2. Scanning
        <5>1. Todo.part \in {"scan", "lost"} /\ Todo.do # "GetVersion"
          BY <1>1, <1>2, <2>2, <3>1 DEF Adjacent
        <5> QED  BY <1>1, <3>3, <5>1 DEF Scanning, Belongs
      <4> QED  BY <2>2, <4>1, <4>2 DEF UpKnown
    <3> QED  BY <3>2, <3>3
  <2>3. link'.vif = link.vif \/ Alive = {}
    BY <1>1 DEF Belongs
  <2> QED  BY <1>4, <1>8, <2>1, <2>2, <2>3 DEF UpKnown
<1>12. ASSUME Added' PROVE Added \/ (Todo.part = "connect" /\ Todo.do = "AddInterface")
  <2>1. Adjacent(Todo, Todo') /\ Todo'.part = "connect" /\ Todo'.do # "found"
    BY <1>2, <1>12 DEF Added
  <2> QED  BY <1>1, <2>1 DEF Adjacent, Added
<1>13. KeysKnown'
  <2>1. KeysBeforePort'
    BY DEF KeysKnown, KeysBeforePort
  <2>2. ASSUME Added', Todo.part = "connect", Todo.do = "AddInterface"
        PROVE  /\ link'.vif \in DOMAIN chip.ifaces /\ Todo'.do # "InstallGtk" /\ ~(secure /\ Todo'.do = "Authorized")
               /\ Todo'.do # "up"
    <3>1. Adjacent(Todo, Todo')
      BY <1>2, <2>2 DEF Added
    <3>2. link'.vif \in DOMAIN chip.ifaces
      BY <1>1, <2>2 DEF CmdKnown
    <3> QED  BY <2>2, <3>1, <3>2 DEF Adjacent
  <2>3. ASSUME Added', Added
        PROVE  /\ link'.vif \in DOMAIN chip.ifaces
               /\ Todo'.do = "InstallGtk" => "InstallPtk" \in chip.ifaces[link'.vif].keys
               /\ (secure /\ Todo'.do \in {"Authorized", "up"}) =>
                    chip.ifaces[link'.vif].keys = {"InstallPtk", "InstallGtk"}
               /\ Todo'.do = "up" => chip.ifaces[link'.vif].sta = "Authorized"
    <3>1. Adjacent(Todo, Todo') /\ link'.vif = link.vif
      BY <1>2, <2>3 DEF Added
    <3>2. /\ Todo'.do = "InstallGtk" => cmd.do = "InstallPtk"
          /\ (secure /\ Todo'.do = "Authorized") => cmd.do = "InstallGtk"
          /\ Todo'.do = "up" => cmd.do = "Authorized" /\ Todo.do = "Authorized"
      BY <1>1, <3>1 DEF Adjacent
    <3>3. link.vif \in DOMAIN chip.ifaces
      BY <2>3 DEF KeysKnown
    <3>4. Todo'.do = "InstallGtk" => "InstallPtk" \in chip.ifaces[link.vif].keys
      BY <2>3, <3>2 DEF KeysKnown
    <3>5. (secure /\ Todo'.do = "Authorized") => chip.ifaces[link.vif].keys = {"InstallPtk", "InstallGtk"}
      BY <2>3, <3>2 DEF KeysKnown
    <3>6. (secure /\ Todo'.do = "up") => chip.ifaces[link.vif].keys = {"InstallPtk", "InstallGtk"}
      BY <2>3, <3>2 DEF KeysKnown
    <3>7. Todo'.do = "up" => chip.ifaces[link.vif].sta = "Authorized"
      BY <2>3, <3>2 DEF KeysKnown
    <3> QED  BY <3>1, <3>3, <3>4, <3>5, <3>6, <3>7
  <2> QED  BY <1>4, <1>12, <2>1, <2>2, <2>3 DEF KeysKnown
<1>14. AllOwned'
  <2>1. ~Removed'
    BY <1>4 DEF Removed
  <2>2. ASSUME Scanning, ~Removed PROVE Scanning' /\ console'.vif = console.vif
    <3>1. Todo.do \in {"HwScan", "Abort"} /\ Todo.part \in {"scan", "lost"}
      BY <1>1, <2>2 DEF Scanning, Local, Removed
    <3>2. ~Ends(Todo)
      BY <3>1 DEF Ends, Step
    <3>3. Busy' /\ Adjacent(Todo, Todo')
      BY <1>2, <3>2
    <3>4. CASE Todo.do = "HwScan"
      <4>1. Todo.part = "scan"
        BY <1>1, <3>1, <3>4 DEF Belongs
      <4>2. Todo'.part = "scan" /\ Todo'.do = "collect"
        BY <1>9, <3>3, <3>4, <4>1 DEF Adjacent, Parts
      <4> QED  BY <1>3, <3>3, <3>4, <4>2 DEF Scanning
    <3>5. CASE Todo.do = "Abort"
      <4>1. Todo.part = "lost"
        BY <1>1, <3>1, <3>5 DEF Belongs
      <4>2. Todo'.part = "lost" /\ Todo'.do = "RemoveInterface"
        BY <1>2, <3>3, <3>5, <4>1 DEF Adjacent, Belongs
      <4> QED  BY <1>3, <3>3, <3>5, <4>2 DEF Scanning
    <3> QED  BY <3>1, <3>4, <3>5
  <2>3. ASSUME Todo.part = "connect" PROVE Added'
    <3>1. ~Ends(Todo)
      BY <1>1, <2>3 DEF Ends, Step, Local
    <3>2. Busy' /\ Adjacent(Todo, Todo')
      BY <1>2, <3>1
    <3> QED  BY <1>1, <2>3, <3>2 DEF Added, Adjacent
  <2>4. ASSUME Todo.part = "cleanup", ~Removed PROVE Busy' /\ Todo'.part = "cleanup" /\ Todo'.do # "reset"
    <3>1. Todo.do = "None"
      BY <1>1, <2>4 DEF Belongs, Exchanges, Local, Removed
    <3>2. Busy' /\ Adjacent(Todo, Todo')
      BY <1>1, <1>2, <2>4, <3>1
    <3> QED  BY <2>4, <3>1, <3>2 DEF Adjacent
  <2>5. ASSUME Todo.do = "AddInterface", Todo.part = "scan", Busy' PROVE Scanning' /\ console'.vif = cmd.vif
    <3>2. Busy' /\ Adjacent(Todo, Todo')
      BY <1>2, <2>5
    <3>3. Todo'.part = "scan" /\ Todo'.do = "HwScan"
      BY <1>9, <2>5, <3>2 DEF Adjacent, Parts
    <3> QED  BY <2>5, <3>2, <3>3 DEF Scanning
  <2>6. \A t \in Alive : cmd.owner # t /\ cmd'.owner # t
    BY <1>1, <1>4 DEF Alive
  <2>60. Todo.do = "AddInterface" => Todo.part \in {"scan", "connect"}
    BY <1>1 DEF Belongs, Parts
  <2>7. Owned \subseteq chip'.stray \cup Owned'
    <3>1. SUFFICES ASSUME NEW v \in Owned PROVE v \in chip'.stray \cup Owned'
      OBVIOUS
    <3>2. \/ v = console.vif /\ Scanning /\ ~Removed
          \/ v = link.vif /\ Added
          \/ v = link.vif /\ Todo.part = "cleanup" /\ ~Removed
          \/ v = link.vif /\ \E t \in Alive : tasks[t] # "reset"
          \/ v = cmd.vif /\ Todo.do = "AddInterface"
      BY <1>1, <2>6 DEF Owned
    <3>3. CASE v = console.vif /\ Scanning /\ ~Removed
      BY <2>1, <2>2, <3>3 DEF Owned
    <3>4. CASE v = link.vif /\ Added
      BY <2>1, <2>3, <3>4 DEF Owned, Added
    <3>5. CASE v = link.vif /\ Todo.part = "cleanup" /\ ~Removed
      <4>1. link'.vif = link.vif
        BY <2>60, <3>5
      <4> QED  BY <2>1, <2>4, <3>5, <4>1 DEF Owned
    <3>6. CASE v = link.vif /\ \E t \in Alive : tasks[t] # "reset"
      <4>1. link'.vif = link.vif
        BY <1>1, <2>60, <3>6
      <4> QED  BY <1>8, <2>1, <3>6, <4>1 DEF Owned
    <3>7. CASE v = cmd.vif /\ Todo.do = "AddInterface"
      <4>1. CASE Todo.part = "scan" /\ Busy'
        BY <2>1, <2>5, <3>7, <4>1 DEF Owned
      <4>0. CASE Todo.part = "scan" /\ ~Busy'
        BY <3>7, <4>0 DEF Busy
      <4>2. CASE Todo.part = "connect"
        BY <2>1, <2>3, <3>7, <4>2 DEF Owned
      <4> QED  BY <2>60, <3>7, <4>0, <4>1, <4>2
    <3> QED  BY <3>2, <3>3, <3>4, <3>5, <3>6, <3>7
  <2> QED  BY <2>7 DEF AllOwned
<1> QED  BY <1>2, <1>5, <1>6, <1>10, <1>11, <1>13, <1>14

LEMMA ConsoleAnsweredKeeps == ASSUME Supervised, ConsoleAnswered PROVE Supervised'
<1>1. /\ Resumed(Console) /\ console.phase = "sent" /\ cmd.owner = Console /\ cmd.answer # "none" /\ cmd' = NoCmd
      /\ secure' = secure /\ tasks' = tasks /\ handle' = handle
  BY DEF ConsoleAnswered
<1>2. /\ Busy /\ Todo \in StepSet /\ Belongs(Todo) /\ Todo.part \in Parts /\ cmd.do = Todo.do
  BY <1>1, AnsweredFacts
<1>3. /\ cmd.answer \in {"none", "ok", "failed"} /\ link \in LinkType
      /\ Advance \in ConsoleType /\ Advance.phase = "ready"
      /\ (cmd.answer = "ok" /\ Todo.do = "AddInterface") => cmd.vif \in Vifs
  <2>1. Advance \in ConsoleType /\ Advance.phase = "ready"
    BY <1>2, AdvanceFacts DEF Supervised
  <2>2. (cmd.answer = "ok" /\ Todo.do = "AddInterface") => cmd.vif \in Vifs
    BY <1>2 DEF Supervised, CmdKnown, Typed, ChipTyped
  <2> QED  BY <2>1, <2>2 DEF Supervised, Typed, CmdType
<1>4. CASE cmd.answer = "failed"
  <2>1. console' = Failed /\ link' = link /\ chip' = chip
    BY <1>4 DEF ConsoleAnswered
  <2> QED  BY <1>1, <1>4, <2>1, ConsoleAnsweredBadly
<1>5. CASE cmd.answer = "ok"
  <2>1. console' = [Advance EXCEPT !.vif = IF Todo.do = "AddInterface" /\ Todo.part = "scan" THEN cmd.vif ELSE @]
    BY <1>5 DEF ConsoleAnswered
  <2> DEFINE w == IF Todo.do = "AddInterface" /\ Todo.part = "scan" THEN cmd.vif ELSE Advance.vif
  <2>2. w \in Vifs \cup {NoVif}
    BY <1>3, <1>5 DEF ConsoleType
  <2>3. console' = [Advance EXCEPT !.vif = w]
    BY <2>1
  <2>4. /\ (Todo.do = "AddInterface" /\ Todo.part = "scan") => w = cmd.vif
        /\ ~(Todo.do = "AddInterface" /\ Todo.part = "scan") => w = Advance.vif
    OBVIOUS
  <2> HIDE DEF w
  <2>5. console' \in ConsoleType /\ console'.plan = Advance.plan /\ console'.phase = "ready" /\ console'.vif = w
    BY <1>3, <2>2, <2>3, ConsoleVif
  <2>6. /\ link' \in LinkType /\ link'.up = link.up
        /\ (Todo.do = "AddInterface" /\ Todo.part # "scan") => link'.vif = cmd.vif
        /\ ~(Todo.do = "AddInterface" /\ Todo.part # "scan") => link'.vif = link.vif
    <3>1. CASE Todo.do = "AddInterface" /\ Todo.part # "scan"
      <4>1. link' = [link EXCEPT !.vif = cmd.vif]
        BY <1>5, <3>1 DEF ConsoleAnswered
      <4>2. cmd.vif \in Vifs \cup {0}
        BY <1>3, <1>5, <3>1
      <4> QED  BY <1>3, <3>1, <4>1, <4>2, LinkVif
    <3>2. CASE Todo.do = "InstallGtk"
      <4> DEFINE b == TRUE
      <4>1. b \in BOOLEAN /\ link' = [link EXCEPT !.encrypted = b]
        BY <1>5, <3>2 DEF ConsoleAnswered
      <4> HIDE DEF b
      <4> QED  BY <1>3, <3>2, <4>1, LinkEncrypted
    <3>3. CASE ~(Todo.do = "AddInterface" /\ Todo.part # "scan") /\ Todo.do # "InstallGtk"
      <4>1. link' = link
        BY <1>5, <3>3 DEF ConsoleAnswered
      <4> QED  BY <1>3, <3>3, <4>1
    <3> QED  BY <3>1, <3>2, <3>3
  <2>7. /\ chip = [ifaces |-> chip.ifaces, scans |-> chip.scans, stray |-> chip.stray]
        /\ chip.stray \subseteq DOMAIN chip.ifaces
        /\ Todo.do = "AddInterface" => cmd.vif \in DOMAIN chip.ifaces
    BY <1>2, <1>5 DEF Supervised, Typed, ChipTyped, CmdKnown
  <2>8. Tail(console.plan) = Advance.plan
    <3>1. console = [plan |-> console.plan, phase |-> console.phase, tries |-> console.tries,
                     vif |-> console.vif, found |-> console.found]
      BY <1>2 DEF Supervised, Typed, ConsoleType
    <3>2. CASE Tail(console.plan) = <<>>
      BY <3>2 DEF Advance, Continues, Idle
    <3>3. CASE Tail(console.plan) # <<>>
      BY <3>1, <3>3 DEF Advance, Continues
    <3> QED  BY <3>2, <3>3
  <2>9. /\ chip'.ifaces = chip.ifaces /\ chip.stray \subseteq chip'.stray /\ chip'.stray \subseteq DOMAIN chip.ifaces
        /\ chip' = [ifaces |-> chip'.ifaces, scans |-> chip'.scans, stray |-> chip'.stray]
        /\ (Todo.do = "AddInterface" /\ Todo.part = "scan" /\ Advance.plan = <<>>) => cmd.vif \in chip'.stray
    <3>1. CASE Todo.do = "AddInterface" /\ Todo.part = "scan" /\ Tail(console.plan) = <<>>
      <4> DEFINE x == chip.stray \cup {cmd.vif}
      <4>1. chip' = [chip EXCEPT !.stray = x]
        BY <1>5, <3>1 DEF ConsoleAnswered
      <4>2. x \subseteq DOMAIN chip.ifaces /\ chip.stray \subseteq x /\ cmd.vif \in x
        BY <2>7, <3>1
      <4> HIDE DEF x
      <4>3. chip' = [ifaces |-> chip.ifaces, scans |-> chip.scans, stray |-> x]
        BY <2>7, <4>1
      <4> QED  BY <4>2, <4>3
    <3>2. CASE ~(Todo.do = "AddInterface" /\ Todo.part = "scan" /\ Tail(console.plan) = <<>>)
      <4>1. chip' = chip
        BY <1>5, <3>2 DEF ConsoleAnswered
      <4> QED  BY <2>7, <2>8, <3>2, <4>1
    <3> QED  BY <3>1, <3>2
  <2> QED  BY <1>1, <1>5, <2>4, <2>5, <2>6, <2>9, ConsoleAnsweredWell
<1> QED  BY <1>1, <1>3, <1>4, <1>5

\* A link_task that takes a step is the one there is.
LEMMA TaskFacts ==
  ASSUME Supervised, NEW t \in LinkIds, Resumed(t), tasks[t] \notin {"none", "over"}, NEW pc \in Places, Goes(t, pc)
  PROVE  /\ t \in due /\ due' = due \ {t} /\ due' \subseteq {Console} \cup LinkIds /\ Console \notin LinkIds
         /\ One(Console \in due') = One(Console \in due) /\ One(t \in due) = 1 /\ One(t \in due') = 0
         /\ t = handle /\ Alive = {t}
         /\ tasks' \in [LinkIds -> Places] /\ \A s \in LinkIds : tasks'[s] = IF s = t THEN pc ELSE tasks[s]
         /\ Alive' = IF pc \in {"none", "over"} THEN {} ELSE {t}
         /\ Busy => Todo.part \in {"scan", "lost"} /\ ~Added /\ Todo.part # "cleanup"
         /\ link.up => ~Connecting
         /\ (~link.up /\ Connecting) => Behind(t)
<1> USE DEF Supervised
<1>1. /\ t \in due /\ due' = due \ {t} /\ due' \subseteq {Console} \cup LinkIds /\ Console \notin LinkIds
  BY DEF Resumed, Typed, Console, LinkIds
<1>2. t \in Alive
  BY DEF Alive
<1>3. t = handle /\ Alive = {t}
  BY <1>2 DEF TasksKnown
<1>4. tasks \in [LinkIds -> Places]
  BY DEF Typed
<1>5. tasks' \in [LinkIds -> Places] /\ \A s \in LinkIds : tasks'[s] = IF s = t THEN pc ELSE tasks[s]
  BY <1>4 DEF Goes
<1>6. Alive' = IF pc \in {"none", "over"} THEN {} ELSE {t}
  <2>1. \A s \in LinkIds : s # t => tasks[s] \in {"none", "over"}
    BY <1>3 DEF Alive
  <2> QED  BY <1>5, <2>1 DEF Alive
<1>7. One(Console \in due') = One(Console \in due) /\ One(t \in due) = 1 /\ One(t \in due') = 0
  BY <1>1 DEF One
<1>8. /\ Busy => Todo.part \in {"scan", "lost"} /\ ~Added /\ Todo.part # "cleanup"
      /\ link.up => ~Connecting
      /\ (~link.up /\ Connecting) => Behind(t)
  BY <1>2 DEF TasksKnown, Added
<1> QED  BY <1>1, <1>3, <1>5, <1>6, <1>7, <1>8

\* A step of a link_task that is not part of the teardown.
LEMMA TaskGoesOn ==
  ASSUME Supervised, NEW t \in LinkIds, Resumed(t), tasks[t] \in {"loop", "waiting", "sending", "delivering"},
         NEW pc \in {"loop", "waiting", "sending", "delivering", "remove"}, Goes(t, pc),
         pc \in {"waiting", "sending", "delivering"} => link'.up, pc = "remove" => ~link'.up,
         tasks[t] = "loop" => pc # "loop",
         link' \in LinkType, link'.vif = link.vif, link'.up => link.up,
         secure' = secure, console' = console, handle' = handle, cmd' = cmd, chip' = chip
  PROVE  Supervised'
<1> USE DEF Supervised
<1>1. /\ t \in due /\ due' = due \ {t} /\ due' \subseteq {Console} \cup LinkIds /\ Console \notin LinkIds
      /\ One(Console \in due') = One(Console \in due) /\ One(t \in due) = 1 /\ One(t \in due') = 0
      /\ t = handle /\ Alive = {t}
      /\ tasks' \in [LinkIds -> Places] /\ \A s \in LinkIds : tasks'[s] = IF s = t THEN pc ELSE tasks[s]
      /\ Alive' = {t}
      /\ Busy => Todo.part \in {"scan", "lost"} /\ ~Added /\ Todo.part # "cleanup"
      /\ link.up => ~Connecting
      /\ (~link.up /\ Connecting) => Behind(t)
  <2>1. pc \in Places
    BY DEF Places
  <2> QED  BY <2>1, TaskFacts
<1>2. /\ console' \in ConsoleType /\ Shaped(console.plan)' /\ Todo' = Todo /\ Pos' = Pos
      /\ (Busy' <=> Busy) /\ (Connecting' <=> Connecting)
  BY ConsoleStays
<1>3. Typed'
  BY <1>1, <1>2 DEF Typed, ChipTyped
<1>4. CmdKnown'
  <2>1. \A s \in LinkIds : (cmd'.owner = s) <=> (tasks'[s] = "removing")
    BY <1>1 DEF CmdKnown
  <2> QED  BY <1>1, <1>2, <2>1 DEF CmdKnown, VifOf
<1>5. TasksKnown'
  <2>1. tasks'[t] = pc
    BY <1>1
  <2>2. ASSUME ~link'.up, Connecting PROVE Behind(t)'
    <3>1. ~link.up /\ Behind(t)
      BY <1>1, <2>2
    <3>2. tasks[t] = "loop" /\ pc = "remove"
      BY <1>1, <2>2, <3>1 DEF TasksKnown
    <3>3. Todo.part = "scan" /\ Pos <= Gone(t) + One(t \in due) - One(Console \in due) /\ Gone(t) = 0 /\ Gone(t)' = 1
      BY <2>1, <3>1, <3>2 DEF Behind, Gone
    <3>4. One(Console \in due) \in {0, 1} /\ Pos \in 0 .. 4
      BY DEF One, Pos
    <3>5. Pos <= Gone(t)' + One(t \in due') - One(Console \in due')
      BY <1>1, <3>3, <3>4
    <3> QED  BY <1>2, <2>1, <3>2, <3>3, <3>5 DEF Behind
  <2> QED  BY <1>1, <1>2, <2>1, <2>2 DEF TasksKnown, Tearing
<1>6. UpKnown'
  BY <1>1, <1>2 DEF UpKnown, Scanning
<1>7. KeysKnown'
  BY <1>2 DEF KeysKnown, Added, KeysBeforePort
<1>8. AllOwned'
  <2>1. (Scanning' <=> Scanning) /\ (Added' <=> Added) /\ (Removed' <=> Removed)
    BY <1>2 DEF Scanning, Added, Removed
  <2>2. tasks'[t] = pc /\ t \in Alive' /\ cmd.owner # t
    BY <1>1 DEF CmdKnown
  <2>3. link.vif \in Owned'
    BY <2>1, <2>2 DEF Owned
  <2>4. Owned \subseteq Owned'
    BY <1>2, <2>1, <2>3 DEF Owned
  <2> QED  BY <2>4 DEF AllOwned
<1> QED  BY <1>2, <1>3, <1>4, <1>5, <1>6, <1>7, <1>8

LEMMA LinkLoopKeeps == ASSUME Supervised, NEW t \in LinkIds, LinkLoop(t) PROVE Supervised'
<1> DEFINE up == link.up /\ ~Contains(events, "loss")
<1>1. /\ Resumed(t) /\ tasks[t] = "loop" /\ secure' = secure /\ console' = console /\ handle' = handle /\ cmd' = cmd
      /\ chip' = chip /\ link' = [link EXCEPT !.up = up]
      /\ \E pc \in IF up THEN {"waiting", "sending"} ELSE {"remove"} : Goes(t, pc)
  BY DEF LinkLoop
<1>2. up \in BOOLEAN /\ (up => link.up) /\ link \in LinkType
  BY DEF Supervised, Typed
<1> HIDE DEF up
<1>3. link' \in LinkType /\ link'.vif = link.vif /\ (link'.up <=> up)
  BY <1>1, <1>2, LinkUp
<1>4. PICK pc \in IF up THEN {"waiting", "sending"} ELSE {"remove"} : Goes(t, pc)
  BY <1>1
<1>5. /\ pc \in {"loop", "waiting", "sending", "delivering", "remove"} /\ pc # "loop"
      /\ pc \in {"waiting", "sending", "delivering"} => link'.up
      /\ pc = "remove" => ~link'.up
      /\ link'.up => link.up
  BY <1>2, <1>3, <1>4
<1> QED  BY <1>1, <1>3, <1>4, <1>5, TaskGoesOn

LEMMA LinkSentKeeps == ASSUME Supervised, NEW t \in LinkIds, LinkSent(t) PROVE Supervised'
<1> DEFINE pc == IF tasks[t] = "sending" THEN "waiting" ELSE "loop"
<1>1. /\ Resumed(t) /\ tasks[t] \in {"sending", "delivering"} /\ secure' = secure /\ console' = console
      /\ handle' = handle /\ cmd' = cmd /\ chip' = chip /\ link' = link /\ Goes(t, pc)
  BY DEF LinkSent
<1>2. link \in LinkType /\ link.up
  <2>1. t \in Alive
    BY <1>1 DEF Alive
  <2> QED  BY <1>1, <2>1 DEF Supervised, Typed, TasksKnown
<1>3. pc \in {"loop", "waiting"}
  OBVIOUS
<1> HIDE DEF pc
<1> QED  BY <1>1, <1>2, <1>3, TaskGoesOn

LEMMA LinkReceivesKeeps == ASSUME Supervised, NEW t \in LinkIds, LinkReceives(t) PROVE Supervised'
<1>1. /\ Resumed(t) /\ tasks[t] = "waiting" /\ secure' = secure /\ console' = console
      /\ handle' = handle /\ cmd' = cmd /\ chip' = chip
  BY DEF LinkReceives
<1>2. link \in LinkType /\ link.up
  <2>1. t \in Alive
    BY <1>1 DEF Alive
  <2> QED  BY <1>1, <2>1 DEF Supervised, Typed, TasksKnown
<1>3. CASE air = <<>>
  <2>1. Goes(t, "loop") /\ link' = link
    BY <1>3 DEF LinkReceives
  <2> QED  BY <1>1, <1>2, <2>1, TaskGoesOn
<1>4. CASE air # <<>>
  <2> DEFINE pc == IF Head(air) = "data" THEN "delivering" ELSE "loop"
             up == link.up /\ Head(air) # "deauth"
  <2>1. Goes(t, pc) /\ link' = [link EXCEPT !.up = up]
    BY <1>4 DEF LinkReceives
  <2>2. up \in BOOLEAN /\ (pc = "delivering" => up) /\ pc \in {"delivering", "loop"}
    BY <1>2
  <2> HIDE DEF pc, up
  <2>3. link' \in LinkType /\ link'.vif = link.vif /\ (link'.up <=> up)
    BY <1>2, <2>1, <2>2, LinkUp
  <2>4. link'.up => link.up
    BY <1>2
  <2> QED  BY <1>1, <2>1, <2>2, <2>3, <2>4, TaskGoesOn
<1> QED  BY <1>3, <1>4

LEMMA LinkRemovesKeeps == ASSUME Supervised, NEW t \in LinkIds, LinkRemoves(t) PROVE Supervised'
<1> USE DEF Supervised
<1>1. /\ Resumed(t) /\ tasks[t] = "remove" /\ secure' = secure /\ console' = console /\ handle' = handle /\ link' = link
      /\ \/ /\ cmd # NoCmd /\ Goes(t, "reset") /\ Refused("RemoveInterface", link.vif) /\ cmd' = cmd
         \/ /\ cmd = NoCmd /\ Sends(t, "RemoveInterface", link.vif) /\ Goes(t, "removing") /\ chip' = chip
  BY DEF LinkRemoves
<1>2. PICK pc \in {"reset", "removing"} :
        /\ Goes(t, pc)
        /\ \/ pc = "reset" /\ cmd # NoCmd /\ Refused("RemoveInterface", link.vif) /\ cmd' = cmd
           \/ pc = "removing" /\ cmd = NoCmd /\ Sends(t, "RemoveInterface", link.vif) /\ chip' = chip
  BY <1>1
<1>3. /\ t \in due /\ due' = due \ {t} /\ due' \subseteq {Console} \cup LinkIds /\ Console \notin LinkIds
      /\ One(Console \in due') = One(Console \in due) /\ One(t \in due) = 1 /\ One(t \in due') = 0
      /\ t = handle /\ Alive = {t}
      /\ tasks' \in [LinkIds -> Places] /\ \A s \in LinkIds : tasks'[s] = IF s = t THEN pc ELSE tasks[s]
      /\ Alive' = {t}
      /\ Busy => Todo.part \in {"scan", "lost"} /\ ~Added /\ Todo.part # "cleanup"
      /\ (~link.up /\ Connecting) => Behind(t)
  <2>1. pc \in Places /\ pc \notin {"none", "over"} /\ tasks[t] \notin {"none", "over"}
    BY <1>1, <1>2 DEF Places
  <2> QED  BY <1>1, <1>2, <2>1, TaskFacts
<1>4. /\ console' \in ConsoleType /\ Shaped(console.plan)' /\ Todo' = Todo /\ Pos' = Pos
      /\ (Busy' <=> Busy) /\ (Connecting' <=> Connecting)
  BY <1>1, ConsoleStays
<1>5. ~link.up /\ cmd.owner # t /\ tasks'[t] = pc /\ t # -1
  <2>1. t # -1 /\ t \in Alive
    BY <1>3 DEF LinkIds
  <2> QED  BY <1>1, <1>3, <2>1 DEF TasksKnown, CmdKnown, Tearing
<1>6. /\ chip'.ifaces = chip.ifaces /\ chip.stray \subseteq chip'.stray /\ chip'.stray \subseteq DOMAIN chip.ifaces
      /\ chip' = [ifaces |-> chip'.ifaces, scans |-> chip'.scans, stray |-> chip'.stray]
      /\ pc = "reset" => {link.vif} \cap DOMAIN chip.ifaces \subseteq chip'.stray
  <2>1. CASE pc = "reset"
    BY <1>2, <2>1, RefusedFacts
  <2>2. CASE pc = "removing"
    BY <1>2, <2>2 DEF Typed, ChipTyped
  <2> QED  BY <1>2, <2>1, <2>2
<1>7. /\ cmd' \in CmdType
      /\ pc = "reset" => cmd' = cmd
      /\ pc = "removing" => /\ cmd = NoCmd /\ cmd'.owner = t /\ cmd'.do = "RemoveInterface" /\ cmd'.vif = link.vif
                            /\ cmd'.answer = "none"
  <2>1. link.vif \in Vifs \cup {NoVif, 0} /\ "RemoveInterface" \in Names
    BY DEF Typed, LinkType, Names
  <2>2. CASE pc = "reset"
    BY <1>2, <2>2 DEF Typed
  <2>3. CASE pc = "removing"
    BY <1>2, <2>1, <2>3, SendsFacts
  <2> QED  BY <1>2, <2>2, <2>3
<1>8. NoCmd.owner = -1 /\ NoCmd.do = "none" /\ NoCmd.answer = "none" /\ Console # -1
  BY DEF NoCmd, Console
<1>9. Typed'
  BY <1>1, <1>3, <1>4, <1>6, <1>7 DEF Typed, ChipTyped
<1>10. CmdKnown'
  <2>1. CASE pc = "reset"
    <3>1. \A s \in LinkIds : (cmd'.owner = s) <=> (tasks'[s] = "removing")
      BY <1>3, <1>5, <1>7, <2>1 DEF CmdKnown
    <3> QED  BY <1>1, <1>3, <1>4, <1>6, <1>7, <2>1, <3>1 DEF CmdKnown, VifOf
  <2>2. CASE pc = "removing"
    <3>1. \A s \in LinkIds : (cmd'.owner = s) <=> (tasks'[s] = "removing")
      <4>1. \A s \in LinkIds : tasks[s] # "removing"
        <5>1. \A s \in LinkIds : s # -1
          BY DEF LinkIds
        <5> QED  BY <1>7, <1>8, <2>2, <5>1 DEF CmdKnown
      <4> QED  BY <1>3, <1>7, <2>2, <4>1
    <3>2. console.phase # "sent"
      BY <1>7, <1>8, <2>2 DEF CmdKnown
    <3>3. t # Console
      BY <1>3
    <3> QED  BY <1>1, <1>3, <1>4, <1>5, <1>7, <2>2, <3>1, <3>2, <3>3 DEF CmdKnown
  <2> QED  BY <1>2, <2>1, <2>2
<1>11. TasksKnown'
  <2>1. ASSUME Connecting PROVE Behind(t)'
    <3>1. Todo.part = "scan" /\ Pos <= Gone(t) + One(t \in due) - One(Console \in due) /\ Gone(t) = 1
      BY <1>1, <1>3, <1>5, <2>1 DEF Behind, Gone
    <3>2. One(Console \in due) \in {0, 1} /\ Pos \in 0 .. 4
      BY DEF One, Pos
    <3>3. CASE pc = "reset"
      <4>1. Gone(t)' = 3
        BY <1>5, <3>3 DEF Gone
      <4>2. Pos <= Gone(t)' + One(t \in due') - One(Console \in due')
        BY <1>3, <3>1, <3>2, <4>1
      <4> QED  BY <1>4, <1>5, <3>1, <3>3, <4>2 DEF Behind
    <3>4. CASE pc = "removing"
      <4>1. Pos <= 2
        BY <1>3, <3>1, <3>2
      <4>2. console.phase = "sent" => FALSE
        BY <1>7, <1>8, <3>4 DEF CmdKnown
      <4>3. Todo.do \in {"AddInterface", "HwScan"} => console.phase = "ready"
        BY <4>2 DEF Typed, ConsoleType, CmdKnown, Exchanges
      <4>4. Pos \in {0, 2}
        BY <4>1, <4>3 DEF Pos
      <4> QED  BY <1>4, <1>5, <3>1, <3>4, <4>4 DEF Behind
    <3> QED  BY <1>2, <3>3, <3>4
  <2> QED  BY <1>1, <1>2, <1>3, <1>4, <1>5, <2>1 DEF TasksKnown, Tearing
<1>12. UpKnown'
  BY <1>1, <1>5 DEF UpKnown
<1>13. KeysKnown'
  <2>1. ~Added'
    BY <1>3, <1>4 DEF Added
  <2> QED  BY <1>1, <1>6, <2>1 DEF KeysKnown, KeysBeforePort
<1>14. AllOwned'
  <2>1. (Scanning' <=> Scanning) /\ ~Added /\ (Todo.part = "cleanup" => ~Busy)
    BY <1>3, <1>4 DEF Scanning, Added
  <2>2. CASE pc = "reset"
    <3>1. (Removed' <=> Removed) /\ cmd' = cmd
      BY <1>7, <2>2 DEF Removed
    <3>2. Owned \subseteq Owned' \cup {link.vif}
      BY <1>1, <2>1, <3>1 DEF Owned
    <3> QED  BY <1>6, <2>2, <3>2 DEF AllOwned
  <2>3. CASE pc = "removing"
    <3>1. ~Removed' /\ ~Removed /\ cmd.do # "AddInterface"
      BY <1>7, <1>8, <2>3 DEF Removed
    <3>2. link'.vif \in Owned'
      BY <1>3, <1>5, <2>3, <3>1 DEF Owned
    <3>3. Owned \subseteq Owned'
      BY <1>1, <2>1, <3>1, <3>2 DEF Owned
    <3> QED  BY <1>6, <3>3 DEF AllOwned
  <2> QED  BY <1>2, <2>2, <2>3
<1> QED  BY <1>4, <1>9, <1>10, <1>11, <1>12, <1>13, <1>14

LEMMA LinkRemovedKeeps == ASSUME Supervised, NEW t \in LinkIds, LinkRemoved(t) PROVE Supervised'
<1> USE DEF Supervised
<1>1. /\ Resumed(t) /\ tasks[t] = "removing" /\ cmd.owner = t /\ cmd.answer # "none" /\ cmd' = NoCmd /\ Goes(t, "reset")
      /\ secure' = secure /\ console' = console /\ handle' = handle /\ link' = link /\ chip' = chip
  BY DEF LinkRemoved
<1>3. /\ t \in due /\ due' = due \ {t} /\ due' \subseteq {Console} \cup LinkIds /\ Console \notin LinkIds
      /\ One(Console \in due') = One(Console \in due) /\ One(t \in due) = 1 /\ One(t \in due') = 0
      /\ t = handle /\ Alive = {t}
      /\ tasks' \in [LinkIds -> Places] /\ \A s \in LinkIds : tasks'[s] = IF s = t THEN "reset" ELSE tasks[s]
      /\ Alive' = {t}
      /\ Busy => Todo.part \in {"scan", "lost"} /\ ~Added /\ Todo.part # "cleanup"
      /\ (~link.up /\ Connecting) => Behind(t)
  <2> DEFINE pc == "reset"
  <2>1. pc \in Places /\ pc \notin {"none", "over"} /\ tasks[t] \notin {"none", "over"} /\ Goes(t, pc)
    BY <1>1 DEF Places
  <2> HIDE DEF pc
  <2>2. /\ t \in due /\ due' = due \ {t} /\ due' \subseteq {Console} \cup LinkIds /\ Console \notin LinkIds
        /\ One(Console \in due') = One(Console \in due) /\ One(t \in due) = 1 /\ One(t \in due') = 0
        /\ t = handle /\ Alive = {t}
        /\ tasks' \in [LinkIds -> Places] /\ \A s \in LinkIds : tasks'[s] = IF s = t THEN pc ELSE tasks[s]
        /\ Alive' = {t}
        /\ Busy => Todo.part \in {"scan", "lost"} /\ ~Added /\ Todo.part # "cleanup"
        /\ (~link.up /\ Connecting) => Behind(t)
    BY <1>1, <2>1, TaskFacts
  <2> QED  BY <2>2 DEF pc
<1>4. /\ console' \in ConsoleType /\ Shaped(console.plan)' /\ Todo' = Todo /\ Pos' = Pos
      /\ (Busy' <=> Busy) /\ (Connecting' <=> Connecting)
  BY <1>1, ConsoleStays
<1>5. ~link.up /\ tasks'[t] = "reset" /\ cmd.do = "RemoveInterface" /\ Removed
  BY <1>1, <1>3 DEF TasksKnown, CmdKnown, Tearing, Removed
<1>6. /\ cmd' \in CmdType /\ cmd'.owner = -1 /\ cmd'.do = "none" /\ cmd'.answer = "none" /\ -1 # Console
      /\ \A s \in LinkIds : s # -1
  BY <1>1 DEF NoCmd, CmdType, Console, LinkIds
<1>7. Typed'
  BY <1>1, <1>3, <1>4, <1>6 DEF Typed, ChipTyped
<1>8. CmdKnown'
  <2>1. \A s \in LinkIds : tasks'[s] # "removing"
    BY <1>1, <1>3 DEF CmdKnown
  <2>2. console.phase # "sent"
    BY <1>1, <1>3 DEF CmdKnown
  <2> QED  BY <1>1, <1>3, <1>4, <1>6, <2>1, <2>2 DEF CmdKnown
<1>9. TasksKnown'
  <2>1. ASSUME Connecting PROVE Behind(t)'
    <3>1. Todo.part = "scan" /\ Pos \in {0, 2}
      BY <1>1, <1>3, <1>5, <2>1 DEF Behind
    <3>2. One(Console \in due) \in {0, 1} /\ Gone(t)' = 3
      BY <1>5 DEF One, Gone
    <3>3. Pos <= Gone(t)' + One(t \in due') - One(Console \in due')
      BY <1>3, <3>1, <3>2
    <3> QED  BY <1>4, <1>5, <3>1, <3>3 DEF Behind
  <2> QED  BY <1>1, <1>3, <1>4, <1>5, <2>1 DEF TasksKnown, Tearing
<1>10. UpKnown'
  BY <1>1, <1>5 DEF UpKnown
<1>11. KeysKnown'
  <2>1. ~Added'
    BY <1>3, <1>4 DEF Added
  <2> QED  BY <1>1, <2>1 DEF KeysKnown, KeysBeforePort
<1>12. AllOwned'
  <2>1. (Scanning' <=> Scanning) /\ ~Added /\ (Todo.part = "cleanup" => ~Busy) /\ ~Removed'
    BY <1>3, <1>4, <1>6 DEF Scanning, Added, Removed
  <2>2. ~ \E s \in Alive : tasks[s] # "reset" /\ ~(cmd.owner = s /\ Removed)
    BY <1>1, <1>3, <1>5
  <2>3. Owned \subseteq Owned'
    BY <1>1, <1>5, <1>6, <2>1, <2>2 DEF Owned
  <2> QED  BY <1>1, <2>3 DEF AllOwned
<1> QED  BY <1>4, <1>7, <1>8, <1>9, <1>10, <1>11, <1>12

LEMMA LinkEndsKeeps == ASSUME Supervised, NEW t \in LinkIds, LinkEnds(t) PROVE Supervised'
<1> USE DEF Supervised
<1>1. /\ Resumed(t) /\ tasks[t] = "reset" /\ Goes(t, "over") /\ link' = NoLink
      /\ secure' = secure /\ console' = console /\ handle' = handle /\ cmd' = cmd /\ chip' = chip
  BY DEF LinkEnds
<1>3. /\ due' \subseteq {Console} \cup LinkIds /\ Console \notin LinkIds /\ due' = due \ {t} /\ Alive = {t}
      /\ tasks' \in [LinkIds -> Places] /\ \A s \in LinkIds : tasks'[s] = IF s = t THEN "over" ELSE tasks[s]
      /\ Alive' = {}
      /\ Busy => Todo.part \in {"scan", "lost"} /\ ~Added /\ Todo.part # "cleanup"
  <2> DEFINE pc == "over"
  <2>1. pc \in Places /\ pc \in {"none", "over"} /\ tasks[t] \notin {"none", "over"} /\ Goes(t, pc)
    BY <1>1 DEF Places
  <2> HIDE DEF pc
  <2>2. /\ due' \subseteq {Console} \cup LinkIds /\ Console \notin LinkIds /\ due' = due \ {t} /\ Alive = {t}
        /\ tasks' \in [LinkIds -> Places] /\ \A s \in LinkIds : tasks'[s] = IF s = t THEN pc ELSE tasks[s]
        /\ Alive' = {}
        /\ Busy => Todo.part \in {"scan", "lost"} /\ ~Added /\ Todo.part # "cleanup"
    BY <1>1, <2>1, TaskFacts
  <2> QED  BY <2>2 DEF pc
<1>4. /\ console' \in ConsoleType /\ Shaped(console.plan)' /\ Todo' = Todo
      /\ (Busy' <=> Busy)
  BY <1>1, ConsoleStays
<1>5. link' \in LinkType /\ ~link'.up
  <2> DEFINE f == FALSE
  <2>1. f \in BOOLEAN /\ ~f /\ 0 \in Vifs \cup {0} /\ NoLink = [up |-> f, encrypted |-> f, vif |-> 0, aid |-> f]
    BY DEF NoLink
  <2> HIDE DEF f
  <2>2. NoLink \in LinkType
    BY <2>1, LinkMade
  <2>3. ~NoLink.up
    BY <2>1
  <2> QED  BY <1>1, <2>2, <2>3
<1>6. Typed'
  BY <1>1, <1>3, <1>4, <1>5 DEF Typed, ChipTyped
<1>7. CmdKnown'
  <2>1. \A s \in LinkIds : (cmd'.owner = s) <=> (tasks'[s] = "removing")
    BY <1>1, <1>3 DEF CmdKnown
  <2>2. Busy => VifOf(Todo)' = VifOf(Todo)
    BY <1>1, <1>3, <1>4 DEF VifOf
  <2>3. cmd.owner \notin LinkIds
    BY <1>1, <1>3 DEF CmdKnown, Alive
  <2> QED  BY <1>1, <1>3, <1>4, <2>1, <2>2, <2>3 DEF CmdKnown
<1>8. TasksKnown' /\ UpKnown'
  BY <1>3, <1>5 DEF TasksKnown, UpKnown
<1>9. ~Added /\ ~Added'
  BY <1>3, <1>4 DEF Added
<1>10. KeysKnown'
  BY <1>1, <1>9 DEF KeysKnown, KeysBeforePort
<1>11. AllOwned'
  <2>1. (Scanning' <=> Scanning) /\ (Removed' <=> Removed) /\ (Todo.part = "cleanup" => ~Busy)
    BY <1>1, <1>3, <1>4 DEF Scanning, Removed
  <2>2. ~ \E s \in Alive : tasks[s] # "reset" /\ ~(cmd.owner = s /\ Removed)
    BY <1>1, <1>3
  <2>3. Owned \subseteq Owned'
    BY <1>1, <1>9, <2>1, <2>2 DEF Owned
  <2> QED  BY <1>1, <2>3 DEF AllOwned
<1> QED  BY <1>4, <1>6, <1>7, <1>8, <1>10, <1>11

\* The interface the chip would add is a free one, if there is any.
LEMMA NewVifFacts ==
  ASSUME LinkSizes, Typed
  PROVE  NewVif \in Vifs \cup {NoVif} /\ NewVif \notin DOMAIN chip.ifaces
<1> DEFINE F == {v \in Vifs : v \notin DOMAIN chip.ifaces} \cup {NoVif}
<1>1. MaxVif \in Nat /\ NoVif = MaxVif /\ Vifs = 0 .. MaxVif - 1
  BY DEF LinkSizes, NoVif, Vifs
<1>2. F \in SUBSET Nat /\ F # {}
  BY <1>1
<1>3. \A v \in F : v \in Vifs \cup {NoVif} /\ v \notin DOMAIN chip.ifaces
  <2>1. NoVif \notin Vifs /\ DOMAIN chip.ifaces \subseteq Vifs
    BY <1>1 DEF Typed, ChipTyped
  <2> QED  BY <2>1
<1>4. NewVif = CHOOSE v \in F : \A w \in F : v <= w
  BY DEF NewVif, Min
<1> HIDE DEF F
<1>5. \E v \in F : \A w \in F : v <= w
  BY <1>2, LeastOfNats
<1>6. NewVif \in F
  BY <1>4, <1>5
<1> QED  BY <1>3, <1>6

Sta  == {"None", "Authenticated", "Authorized"}
Keys == {"InstallPtk", "InstallGtk"}

\* What a command makes of the chip's interfaces, whether it is performed or not.
Weak(after) ==
  /\ DOMAIN after \subseteq Vifs /\ after \in [DOMAIN after -> IfaceType]
  /\ \A v \in DOMAIN after \ DOMAIN chip.ifaces : cmd.do = "AddInterface" /\ after[v].sta = "None"
  /\ \A v \in DOMAIN chip.ifaces \ DOMAIN after : cmd.do = "RemoveInterface" /\ v = cmd.vif
  /\ \A v \in DOMAIN after \cap DOMAIN chip.ifaces :
       /\ \/ after[v].keys = chip.ifaces[v].keys
          \/ cmd.do \in Keys /\ v = cmd.vif /\ after[v].keys = chip.ifaces[v].keys \cup {cmd.do}
       /\ \/ after[v].sta = chip.ifaces[v].sta
          \/ cmd.do \in Sta /\ v = cmd.vif /\ after[v].sta = cmd.do

\* And what it does make of them when it is performed.
Strong(after) ==
  /\ cmd.do = "AddInterface" =>
       /\ NewVif \in DOMAIN after /\ NewVif \notin DOMAIN chip.ifaces /\ after[NewVif].keys = {}
       /\ DOMAIN after \subseteq DOMAIN chip.ifaces \cup {NewVif}
  /\ cmd.do = "RemoveInterface" => cmd.vif \notin DOMAIN after
  /\ (cmd.do \in Keys /\ cmd.vif \in DOMAIN after) => after[cmd.vif].keys = chip.ifaces[cmd.vif].keys \cup {cmd.do}
  /\ (cmd.do \in Sta /\ cmd.vif \in DOMAIN after) => after[cmd.vif].sta = cmd.do

\* What performing a command makes of the interfaces.
LEMMA PerformedFacts ==
  ASSUME LinkSizes, Typed, Accepts
  PROVE  Weak(Performed) /\ Strong(Performed)
<1> DEFINE i == chip.ifaces
<1>1. /\ DOMAIN i \subseteq Vifs /\ i \in [DOMAIN i -> IfaceType]
      /\ \A v \in DOMAIN i : i[v].sta \in Sta /\ i[v].keys \subseteq Keys /\ i[v] = [sta |-> i[v].sta, keys |-> i[v].keys]
  BY DEF Typed, ChipTyped, IfaceType, Sta, Keys
<1>2. NewVif \in Vifs \cup {NoVif} /\ NewVif \notin DOMAIN i
  BY NewVifFacts
<1>3. ASSUME NEW s \in Sta, NEW k \in SUBSET Keys PROVE [sta |-> s, keys |-> k] \in IfaceType
  BY DEF IfaceType, Sta, Keys
<1> HIDE DEF i
<1>4. CASE cmd.do = "AddInterface"
  <2> DEFINE new == [sta |-> "None", keys |-> {}]
             a == [v \in DOMAIN i \cup {NewVif} |-> IF v = NewVif THEN new ELSE i[v]]
  <2>1. Performed = a
    BY <1>4 DEF Performed, i
  <2>2. NewVif \in Vifs
    BY <1>2, <1>4 DEF Accepts
  <2>3. new \in IfaceType /\ new.sta = "None" /\ new.keys = {}
    <3>1. "None" \in Sta /\ {} \in SUBSET Keys
      BY DEF Sta
    <3> QED  BY <1>3, <3>1
  <2> HIDE DEF new
  <2>4. /\ DOMAIN a = DOMAIN i \cup {NewVif} /\ a[NewVif] = new /\ \A v \in DOMAIN i : a[v] = i[v]
    BY <1>2
  <2>5. a \in [DOMAIN i \cup {NewVif} -> IfaceType]
    BY <1>1, <2>3
  <2> HIDE DEF a
  <2>6. Weak(a)
    BY <1>1, <1>4, <2>2, <2>3, <2>4, <2>5 DEF Weak, i
  <2>7. Strong(a)
    BY <1>2, <1>4, <2>3, <2>4 DEF Strong, Keys, Sta, i
  <2> QED  BY <2>1, <2>6, <2>7
<1>5. CASE cmd.do = "RemoveInterface"
  <2> DEFINE a == [v \in DOMAIN i \ {cmd.vif} |-> i[v]]
  <2>1. Performed = a
    BY <1>5 DEF Performed, i
  <2>2. DOMAIN a = DOMAIN i \ {cmd.vif} /\ (\A v \in DOMAIN a : a[v] = i[v]) /\ a \in [DOMAIN a -> IfaceType]
    BY <1>1
  <2> HIDE DEF a
  <2>3. Weak(a)
    BY <1>1, <1>5, <2>2 DEF Weak, i
  <2>4. Strong(a)
    BY <1>5, <2>2 DEF Strong, Keys, Sta
  <2> QED  BY <2>1, <2>3, <2>4
<1>6. CASE cmd.do \in Sta
  <2> DEFINE a == [i EXCEPT ![cmd.vif].sta = cmd.do]
  <2>1. Performed = a
    BY <1>6 DEF Performed, i, Sta
  <2>2. cmd.vif \in DOMAIN i
    BY <1>6 DEF Accepts, i, Sta
  <2> DEFINE w == [sta |-> cmd.do, keys |-> i[cmd.vif].keys]
  <2>3. a = [i EXCEPT ![cmd.vif] = w]
    <3>1. ASSUME NEW r, NEW s, NEW k, NEW n, r = [sta |-> s, keys |-> k] PROVE [r EXCEPT !.sta = n] = [sta |-> n, keys |-> k]
      BY <3>1
    <3>2. i[cmd.vif] = [sta |-> i[cmd.vif].sta, keys |-> i[cmd.vif].keys]
      BY <1>1, <2>2
    <3>3. [i[cmd.vif] EXCEPT !.sta = cmd.do] = w
      BY <3>1, <3>2
    <3> QED  BY <3>3
  <2>4. w \in IfaceType /\ w.sta = cmd.do /\ w.keys = i[cmd.vif].keys
    BY <1>1, <1>3, <1>6, <2>2
  <2> HIDE DEF w
  <2>5. /\ DOMAIN a = DOMAIN i /\ a[cmd.vif] = w /\ \A v \in DOMAIN i : v # cmd.vif => a[v] = i[v]
    BY <1>1, <2>2, <2>3
  <2>6. a \in [DOMAIN i -> IfaceType]
    BY <1>1, <2>2, <2>3, <2>4
  <2> HIDE DEF a
  <2>7. Weak(a)
    BY <1>1, <1>6, <2>4, <2>5, <2>6 DEF Weak, i, Sta
  <2>8. Strong(a)
    BY <1>6, <2>4, <2>5 DEF Strong, Keys, Sta, i
  <2> QED  BY <2>1, <2>7, <2>8
<1>7. CASE cmd.do \in Keys
  <2> DEFINE a == [i EXCEPT ![cmd.vif].keys = @ \cup {cmd.do}]
  <2>1. Performed = a
    BY <1>7 DEF Performed, i, Keys
  <2>2. cmd.vif \in DOMAIN i
    BY <1>7 DEF Accepts, i, Keys
  <2> DEFINE k == i[cmd.vif].keys \cup {cmd.do}
             w == [sta |-> i[cmd.vif].sta, keys |-> k]
  <2>3. a = [i EXCEPT ![cmd.vif] = w]
    <3>1. ASSUME NEW r, NEW s, NEW l, NEW n, r = [sta |-> s, keys |-> l] PROVE [r EXCEPT !.keys = n] = [sta |-> s, keys |-> n]
      BY <3>1
    <3>2. i[cmd.vif] = [sta |-> i[cmd.vif].sta, keys |-> i[cmd.vif].keys]
      BY <1>1, <2>2
    <3>3. [i[cmd.vif] EXCEPT !.keys = k] = w
      BY <3>1, <3>2
    <3> QED  BY <3>3
  <2>4. w \in IfaceType /\ w.sta = i[cmd.vif].sta /\ w.keys = k
    <3>1. k \in SUBSET Keys
      BY <1>1, <1>7, <2>2
    <3> HIDE DEF k
    <3> QED  BY <1>1, <1>3, <2>2, <3>1
  <2> HIDE DEF w
  <2>5. /\ DOMAIN a = DOMAIN i /\ a[cmd.vif] = w /\ \A v \in DOMAIN i : v # cmd.vif => a[v] = i[v]
    BY <1>1, <2>2, <2>3
  <2>6. a \in [DOMAIN i -> IfaceType]
    BY <1>1, <2>2, <2>3, <2>4
  <2> HIDE DEF a
  <2>7. Weak(a)
    BY <1>1, <1>7, <2>4, <2>5, <2>6 DEF Weak, i, Keys
  <2>8. Strong(a)
    BY <1>7, <2>4, <2>5 DEF Strong, Keys, Sta, i
  <2> QED  BY <2>1, <2>7, <2>8
<1>8. CASE cmd.do \notin {"AddInterface", "RemoveInterface"} \cup Sta \cup Keys
  <2>1. Performed = i
    BY <1>8 DEF Performed, Sta, Keys, i
  <2> QED  BY <1>1, <1>8, <2>1 DEF Weak, Strong, i
<1> QED  BY <1>4, <1>5, <1>6, <1>7, <1>8

\* Whose command the chip performs, and on which interface.
LEMMA CommandFacts ==
  ASSUME Supervised, cmd # NoCmd
  PROVE  /\ cmd.owner = Console \/ (cmd.owner \in LinkIds /\ cmd.owner # Console)
         /\ cmd.owner = Console => /\ Busy /\ Todo \in StepSet /\ Belongs(Todo) /\ cmd.do = Todo.do
                                   /\ cmd.do # "AddInterface" => cmd.vif = VifOf(Todo)
                                   /\ Todo.do \notin {"up", "found", "reset"}
         /\ cmd.owner \in LinkIds =>
              cmd.do = "RemoveInterface" /\ cmd.vif = link.vif /\ cmd.owner \in Alive /\ tasks[cmd.owner] = "removing"
              /\ ~link.up
         /\ (Added /\ Alive # {}) => FALSE
         /\ Alive # {} /\ cmd.owner = Console => Todo.part \in {"scan", "lost"}
<1> USE DEF Supervised
<1>1. cmd.owner \in {Console} \cup LinkIds /\ Console \notin LinkIds
  BY DEF CmdKnown, Typed, CmdType, Console, LinkIds
<1>2. ASSUME cmd.owner = Console
      PROVE  /\ Busy /\ Todo \in StepSet /\ Belongs(Todo) /\ cmd.do = Todo.do
             /\ cmd.do # "AddInterface" => cmd.vif = VifOf(Todo)
             /\ Todo.do \notin {"up", "found", "reset"}
  <2>1. Busy
    BY <1>2 DEF CmdKnown
  <2>2. Todo \in StepSet /\ Belongs(Todo)
    BY <2>1, AdvanceFacts
  <2> QED  BY <1>2, <2>1, <2>2 DEF CmdKnown, Local
<1>3. ASSUME cmd.owner \in LinkIds
      PROVE  /\ cmd.do = "RemoveInterface" /\ cmd.vif = link.vif /\ cmd.owner \in Alive /\ tasks[cmd.owner] = "removing"
             /\ ~link.up
  <2>1. tasks[cmd.owner] = "removing" /\ cmd.owner \in Alive
    BY <1>3 DEF CmdKnown, Alive
  <2> QED  BY <1>3, <2>1 DEF CmdKnown, TasksKnown, Tearing
<1>4. (Added /\ Alive # {}) => FALSE
  BY DEF TasksKnown, Added
<1>5. Alive # {} /\ cmd.owner = Console => Todo.part \in {"scan", "lost"}
  BY <1>2 DEF TasksKnown
<1> QED  BY <1>1, <1>2, <1>3, <1>4, <1>5

\* A command is answered.
LEMMA ChipAnswers ==
  ASSUME Supervised, cmd # NoCmd, cmd.answer = "none", Weak(chip'.ifaces),
         cmd' \in CmdType, cmd'.owner = cmd.owner, cmd'.do = cmd.do,
         \/ /\ cmd'.answer = "ok" /\ Strong(chip'.ifaces) /\ chip'.stray = chip.stray \cap DOMAIN chip'.ifaces
            /\ cmd'.vif = IF cmd.do = "AddInterface" THEN NewVif ELSE cmd.vif
         \/ /\ cmd'.answer = "failed" /\ cmd'.vif = cmd.vif
            /\ chip'.stray \subseteq DOMAIN chip'.ifaces /\ chip.stray \cap DOMAIN chip'.ifaces \subseteq chip'.stray
            /\ DOMAIN chip'.ifaces \ DOMAIN chip.ifaces \subseteq chip'.stray
            /\ cmd.do = "RemoveInterface" => {cmd.vif} \cap DOMAIN chip'.ifaces \subseteq chip'.stray,
         chip' = [ifaces |-> chip'.ifaces, scans |-> chip'.scans, stray |-> chip'.stray],
         secure' = secure, console' = console, tasks' = tasks, handle' = handle, link' = link, due' = due
  PROVE  Supervised'
<1> USE DEF Supervised
<1> DEFINE i == chip.ifaces
           a == chip'.ifaces
<1>1. /\ cmd.owner = Console \/ (cmd.owner \in LinkIds /\ cmd.owner # Console)
      /\ cmd.owner = Console => /\ Busy /\ Todo \in StepSet /\ Belongs(Todo) /\ cmd.do = Todo.do
                                /\ cmd.do # "AddInterface" => cmd.vif = VifOf(Todo)
                                /\ Todo.do \notin {"up", "found", "reset"}
      /\ cmd.owner \in LinkIds =>
           cmd.do = "RemoveInterface" /\ cmd.vif = link.vif /\ cmd.owner \in Alive /\ tasks[cmd.owner] = "removing"
           /\ ~link.up
      /\ (Added /\ Alive # {}) => FALSE
      /\ Alive # {} /\ cmd.owner = Console => Todo.part \in {"scan", "lost"}
  BY CommandFacts
<1>2. /\ console' \in ConsoleType /\ Shaped(console.plan)' /\ Todo' = Todo /\ Pos' = Pos
      /\ (Busy' <=> Busy) /\ (Connecting' <=> Connecting)
  BY ConsoleStays
<1>3. /\ Alive' = Alive /\ (Added' <=> Added) /\ (Scanning' <=> Scanning)
  BY <1>2 DEF Alive, Added, Scanning
<1>4. Typed'
  BY <1>2 DEF Typed, ChipTyped, Weak
<1>5. CmdKnown'
  <2>1. cmd'.do = "AddInterface" /\ cmd'.answer = "ok" => cmd'.vif \in DOMAIN a /\ a[cmd'.vif].keys = {}
    BY DEF Strong
  <2>2. cmd'.do # "AddInterface" => cmd'.vif = cmd.vif
    OBVIOUS
  <2>3. VifOf(Todo)' = VifOf(Todo)
    BY <1>2 DEF VifOf
  <2>4. cmd'.owner # -1
    BY <1>1 DEF Console, LinkIds
  <2>5. cmd'.owner \in LinkIds => cmd'.do = "RemoveInterface" /\ cmd'.vif = link'.vif
    BY <1>1, <2>2
  <2>6. cmd'.owner = Console =>
          /\ console'.phase = "sent"
          /\ cmd'.do = Todo'.do /\ cmd'.do \notin Exchanges \cup Local \cup {"found"}
          /\ cmd'.do # "AddInterface" => cmd'.vif = VifOf(Todo)'
    BY <1>2, <2>2, <2>3 DEF CmdKnown
  <2>7. /\ console'.phase = "sent" => Busy' /\ cmd'.owner = Console
        /\ console'.phase = "wait" => Busy' /\ Todo'.do \in Exchanges
        /\ Console \in due' => Busy'
        /\ \A t \in LinkIds : (cmd'.owner = t) <=> (tasks'[t] = "removing")
    BY <1>2 DEF CmdKnown
  <2> QED  BY <2>1, <2>4, <2>5, <2>6, <2>7 DEF CmdKnown
<1>6. TasksKnown'
  <2>1. ASSUME NEW t \in Alive, Behind(t) PROVE Behind(t)'
    BY <1>2, <2>1 DEF Behind, Gone
  <2> QED  BY <1>2, <1>3, <2>1 DEF TasksKnown
<1>7. ASSUME Todo.part \in {"scan", "lost"}, cmd.owner = Console PROVE cmd.do \notin Sta \cup Keys
  BY <1>1, <1>7 DEF Belongs, Sta, Keys
<1>8. UpKnown'
  <2>1. (link.up /\ Alive = {}) => Busy /\ Todo.part = "cleanup"
    BY DEF UpKnown
  <2>2. ASSUME link.up, Alive # {}
        PROVE  /\ link.vif \in DOMAIN a /\ a[link.vif].sta = "Authorized"
               /\ (cmd'.do = "AddInterface" /\ cmd'.answer = "ok") => cmd'.vif # link.vif
               /\ Scanning => console.vif # link.vif
    <3>1. link.vif \in DOMAIN i /\ i[link.vif].sta = "Authorized" /\ (Scanning => console.vif # link.vif)
      BY <2>2 DEF UpKnown
    <3>2. cmd.owner = Console /\ Todo.part \in {"scan", "lost"} /\ cmd.do \notin Sta \cup Keys
      BY <1>1, <1>7, <2>2
    <3>3. cmd.do = "RemoveInterface" => cmd.vif # link.vif
      <4>1. cmd.do = "RemoveInterface" => Scanning /\ cmd.vif = console.vif
        BY <1>1, <3>2 DEF Scanning, VifOf
      <4> QED  BY <3>1, <4>1
    <3>4. link.vif \in DOMAIN a /\ a[link.vif].sta = "Authorized"
      BY <3>1, <3>2, <3>3 DEF Weak
    <3>5. (cmd'.do = "AddInterface" /\ cmd'.answer = "ok") => cmd'.vif # link.vif
      BY <3>1 DEF Strong
    <3> QED  BY <3>1, <3>4, <3>5
  <2> QED  BY <1>2, <1>3, <2>1, <2>2 DEF UpKnown
<1>9. ASSUME Added PROVE link.vif \in DOMAIN i /\ link.vif \in DOMAIN a /\ cmd.owner = Console /\ cmd.do = Todo.do
                         /\ Todo.part = "connect" /\ cmd.vif = link.vif /\ i[link.vif].keys \subseteq a[link.vif].keys
                         /\ a[link.vif].keys \subseteq Keys
  <2>1. link.vif \in DOMAIN i /\ Todo.part = "connect" /\ Todo.do # "AddInterface"
    BY <1>9 DEF KeysKnown, Added
  <2>2. cmd.owner = Console
    BY <1>1, <1>9
  <2>3. cmd.do # "RemoveInterface" /\ cmd.vif = link.vif /\ cmd.do = Todo.do
    BY <1>1, <2>1, <2>2 DEF Belongs, VifOf
  <2>4. link.vif \in DOMAIN a /\ i[link.vif].keys \subseteq a[link.vif].keys
    BY <2>1, <2>3 DEF Weak
  <2>5. a[link.vif].keys \subseteq Keys
    BY <2>4 DEF Weak, IfaceType, Keys
  <2> QED  BY <2>1, <2>2, <2>3, <2>4, <2>5
<1>10. KeysKnown'
  <2>1. Added => link.vif \in DOMAIN a
    BY <1>9
  <2>2. Added /\ (Todo.do = "InstallGtk" \/ (cmd'.do = "InstallPtk" /\ cmd'.answer = "ok"))
          => "InstallPtk" \in a[link.vif].keys
    <3>1. CASE Todo.do = "InstallGtk"
      BY <1>9, <3>1 DEF KeysKnown
    <3>2. CASE cmd'.do = "InstallPtk" /\ cmd'.answer = "ok"
      BY <1>9, <3>2 DEF Strong, Keys
    <3> QED  BY <3>1, <3>2
  <2>3. Added /\ ((secure /\ Todo.do \in {"Authorized", "up"}) \/ (cmd'.do = "InstallGtk" /\ cmd'.answer = "ok"))
          => a[link.vif].keys = {"InstallPtk", "InstallGtk"}
    <3>1. CASE secure /\ Todo.do \in {"Authorized", "up"}
      <4>1. Added => i[link.vif].keys = Keys
        BY <3>1 DEF KeysKnown, Keys
      <4> QED  BY <1>9, <4>1 DEF Keys
    <3>2. CASE cmd'.do = "InstallGtk" /\ cmd'.answer = "ok"
      <4>1. Added => "InstallPtk" \in i[link.vif].keys
        BY <1>9, <3>2 DEF KeysKnown
      <4>2. Added => "InstallGtk" \in a[link.vif].keys
        BY <1>9, <3>2 DEF Strong, Keys
      <4> QED  BY <1>9, <4>1, <4>2 DEF Keys
    <3> QED  BY <3>1, <3>2
  <2>4. Added /\ (Todo.do = "up" \/ (cmd'.do = "Authorized" /\ cmd'.answer = "ok")) => a[link.vif].sta = "Authorized"
    BY <1>1, <1>9 DEF Strong, Sta
  <2>5. KeysBeforePort'
    <3>1. SUFFICES ASSUME secure, NEW v \in DOMAIN a, a[v].sta = "Authorized"
                   PROVE  a[v].keys = {"InstallPtk", "InstallGtk"}
      BY DEF KeysBeforePort
    <3>2. v \in DOMAIN i
      BY <3>1 DEF Weak
    <3>3. a[v].keys \subseteq Keys /\ i[v].keys \subseteq a[v].keys
      BY <3>2 DEF Weak, IfaceType, Keys
    <3>4. i[v].keys = Keys
      <4>1. CASE i[v].sta = "Authorized"
        BY <3>1, <3>2, <4>1 DEF KeysKnown, KeysBeforePort, Keys
      <4>2. CASE i[v].sta # "Authorized"
        <5>1. cmd.do = "Authorized" /\ v = cmd.vif
          BY <3>1, <3>2, <4>2 DEF Weak
        <5>2. cmd.owner = Console /\ Todo.do = "Authorized"
          BY <1>1, <5>1
        <5>3. Todo.part = "connect"
          BY <1>1, <5>2 DEF Belongs, StepSet, Parts
        <5>4. Added
          BY <1>1, <5>2, <5>3 DEF Added
        <5> QED  BY <1>9, <3>1, <5>1, <5>2, <5>4 DEF KeysKnown, Keys
      <4> QED  BY <4>1, <4>2
    <3> QED  BY <3>3, <3>4 DEF Keys
  <2> QED  BY <1>2, <1>3, <2>1, <2>2, <2>3, <2>4, <2>5 DEF KeysKnown
<1>11. AllOwned'
  <2>1. SUFFICES ASSUME NEW v \in DOMAIN a, v \notin chip'.stray PROVE v \in Owned'
    BY DEF AllOwned
  <2>2. CASE v \notin DOMAIN i
    <3>1. cmd.do = "AddInterface" /\ cmd'.answer = "ok" /\ v = NewVif
      BY <2>1, <2>2 DEF Weak, Strong
    <3>2. cmd'.vif = v
      BY <3>1
    <3> QED  BY <3>1, <3>2 DEF Owned
  <2>3. CASE v \in DOMAIN i
    <3>1. v \in Owned
      BY <2>1, <2>3 DEF AllOwned
    <3>2. Removed' => cmd.do = "RemoveInterface" /\ v # cmd.vif
      BY <2>1 DEF Removed, Strong
    <3>3. ~Removed /\ ~(cmd.do = "AddInterface" /\ cmd.answer = "ok")
      BY DEF Removed
    <3>4. \/ v = console.vif /\ Scanning
          \/ v = link.vif /\ Added
          \/ v = link.vif /\ Busy /\ Todo.part = "cleanup" /\ Todo.do # "reset"
          \/ v = link.vif /\ \E t \in Alive : tasks[t] # "reset"
      BY <3>1, <3>3 DEF Owned
    <3>5. CASE v = console.vif /\ Scanning
      <4>1. ~(cmd'.owner = Console /\ Removed')
        BY <1>1, <3>2, <3>5 DEF Scanning, VifOf
      <4> QED  BY <1>3, <3>5, <4>1 DEF Owned
    <3>6. CASE v = link.vif /\ Added
      BY <1>3, <3>6 DEF Owned
    <3>7. CASE v = link.vif /\ Busy /\ Todo.part = "cleanup" /\ Todo.do # "reset"
      <4>1. ~(cmd'.owner = Console /\ Removed')
        BY <1>1, <3>2, <3>7 DEF VifOf
      <4> QED  BY <1>2, <3>7, <4>1 DEF Owned
    <3>8. CASE v = link.vif /\ \E t \in Alive : tasks[t] # "reset"
      <4>1. \A t \in LinkIds : ~(cmd'.owner = t /\ Removed')
        BY <1>1, <3>2, <3>8
      <4>2. \E t \in Alive' : tasks'[t] # "reset" /\ ~(cmd'.owner = t /\ Removed')
        BY <1>3, <3>8, <4>1 DEF Alive
      <4> QED  BY <3>8, <4>2 DEF Owned
    <3> QED  BY <3>4, <3>5, <3>6, <3>7, <3>8
  <2> QED  BY <2>2, <2>3
<1> QED  BY <1>2, <1>4, <1>5, <1>6, <1>8, <1>10, <1>11

LEMMA ChipPerformsKeeps == ASSUME LinkSizes, Supervised, ChipPerforms PROVE Supervised'
<1> DEFINE a == Performed
           s == (chip.scans \/ cmd.do = "HwScan") /\ cmd.do # "Abort"
           n == chip.stray \cap DOMAIN a
           w == IF cmd.do = "AddInterface" THEN NewVif ELSE cmd.vif
<1>1. /\ cmd # NoCmd /\ cmd.answer = "none" /\ Accepts
      /\ chip' = [chip EXCEPT !.ifaces = a, !.scans = s, !.stray = n]
      /\ cmd' = [cmd EXCEPT !.answer = "ok", !.vif = w]
      /\ secure' = secure /\ console' = console /\ tasks' = tasks /\ handle' = handle /\ link' = link /\ due' = due
  BY DEF ChipPerforms
<1>2. Weak(a) /\ Strong(a) /\ NewVif \in Vifs \cup {NoVif}
  BY <1>1, PerformedFacts, NewVifFacts DEF Supervised
<1>3. w \in Vifs \cup {NoVif, 0} /\ cmd \in CmdType
  BY <1>2 DEF Supervised, Typed, CmdType
<1>4. chip = [ifaces |-> chip.ifaces, scans |-> chip.scans, stray |-> chip.stray]
  BY DEF Supervised, Typed, ChipTyped
<1> HIDE DEF a, s, n, w
<1>5. chip' = [ifaces |-> a, scans |-> s, stray |-> n]
  BY <1>1, <1>4
<1>6. chip'.ifaces = a /\ chip'.stray = n /\ chip' = [ifaces |-> chip'.ifaces, scans |-> chip'.scans, stray |-> chip'.stray]
  BY <1>5
<1>7. cmd' = [owner |-> cmd.owner, do |-> cmd.do, vif |-> w, answer |-> "ok"]
  <2>1. ASSUME NEW h, h = [cmd EXCEPT !.answer = "ok", !.vif = w]
        PROVE  h = [owner |-> cmd.owner, do |-> cmd.do, vif |-> w, answer |-> "ok"]
    BY <1>3, <2>1 DEF CmdType
  <2> QED  BY <1>1, <2>1
<1>8. cmd' \in CmdType /\ cmd'.owner = cmd.owner /\ cmd'.do = cmd.do /\ cmd'.answer = "ok" /\ cmd'.vif = w
  BY <1>3, <1>7 DEF CmdType
<1>9. Weak(chip'.ifaces) /\ Strong(chip'.ifaces) /\ chip'.stray = chip.stray \cap DOMAIN chip'.ifaces
  BY <1>2, <1>6 DEF n
<1>10. cmd'.vif = IF cmd.do = "AddInterface" THEN NewVif ELSE cmd.vif
  BY <1>8 DEF w
<1> QED  BY <1>1, <1>6, <1>8, <1>9, <1>10, ChipAnswers

\* An interface no command touches stays as it is.
LEMMA UnperformedFacts == ASSUME Typed PROVE Weak(chip.ifaces)
BY DEF Weak, Typed, ChipTyped

LEMMA ChipFailsKeeps == ASSUME LinkSizes, Supervised, ChipFails PROVE Supervised'
<1>1. /\ cmd # NoCmd /\ cmd.answer = "none"
      /\ cmd' = [cmd EXCEPT !.answer = "failed"]
      /\ secure' = secure /\ console' = console /\ tasks' = tasks /\ handle' = handle /\ link' = link /\ due' = due
  BY DEF ChipFails
<1>2. PICK performed \in {Accepts, FALSE} :
        LET after == IF performed THEN Performed ELSE chip.ifaces
            new   == DOMAIN after \ DOMAIN chip.ifaces
            kept  == IF cmd.do = "RemoveInterface" THEN {cmd.vif} \cap DOMAIN after ELSE {}
        IN chip' = [chip EXCEPT !.ifaces = after, !.stray = (@ \cup new \cup kept) \cap DOMAIN after]
  BY DEF ChipFails
<1> DEFINE a == IF performed THEN Performed ELSE chip.ifaces
           n == (chip.stray \cup (DOMAIN a \ DOMAIN chip.ifaces)
                   \cup IF cmd.do = "RemoveInterface" THEN {cmd.vif} \cap DOMAIN a ELSE {}) \cap DOMAIN a
<1>3. chip' = [chip EXCEPT !.ifaces = a, !.stray = n]
  BY <1>2
<1>4. Weak(a)
  <2>1. CASE performed
    <3>1. Accepts
      BY <1>2, <2>1
    <3>2. Weak(Performed)
      BY <3>1, PerformedFacts DEF Supervised
    <3> QED  BY <2>1, <3>2
  <2>2. CASE ~performed
    BY <2>2, UnperformedFacts DEF Supervised
  <2> QED  BY <2>1, <2>2
<1>5. chip = [ifaces |-> chip.ifaces, scans |-> chip.scans, stray |-> chip.stray] /\ cmd \in CmdType
  BY DEF Supervised, Typed, ChipTyped
<1> HIDE DEF a
<1>6. /\ n \subseteq DOMAIN a /\ chip.stray \cap DOMAIN a \subseteq n /\ DOMAIN a \ DOMAIN chip.ifaces \subseteq n
      /\ cmd.do = "RemoveInterface" => {cmd.vif} \cap DOMAIN a \subseteq n
  OBVIOUS
<1> HIDE DEF n
<1>7. chip' = [ifaces |-> a, scans |-> chip.scans, stray |-> n]
  BY <1>3, <1>5
<1>8. chip'.ifaces = a /\ chip'.stray = n /\ chip' = [ifaces |-> chip'.ifaces, scans |-> chip'.scans, stray |-> chip'.stray]
  BY <1>7
<1>9. cmd' = [owner |-> cmd.owner, do |-> cmd.do, vif |-> cmd.vif, answer |-> "failed"]
  <2>1. ASSUME NEW h, h = [cmd EXCEPT !.answer = "failed"]
        PROVE  h = [owner |-> cmd.owner, do |-> cmd.do, vif |-> cmd.vif, answer |-> "failed"]
    BY <1>5, <2>1 DEF CmdType
  <2> QED  BY <1>1, <2>1
<1>10. cmd' \in CmdType /\ cmd'.owner = cmd.owner /\ cmd'.do = cmd.do /\ cmd'.answer = "failed" /\ cmd'.vif = cmd.vif
  BY <1>5, <1>9 DEF CmdType
<1>11. Weak(chip'.ifaces)
  BY <1>4, <1>8
<1> QED  BY <1>1, <1>6, <1>8, <1>10, <1>11, ChipAnswers

LEMMA SupervisedInit == ASSUME LinkSizes, LinkInit PROVE Supervised
<1>1. /\ due = {} /\ secure \in BOOLEAN /\ console = Idle /\ tasks = [t \in LinkIds |-> "none"] /\ handle = 0
      /\ link = NoLink /\ cmd = NoCmd /\ chip = [ifaces |-> <<>>, scans |-> FALSE, stray |-> {}]
  BY DEF LinkInit
<1>2. MaxVif \in Nat \ {0}
  BY DEF LinkSizes
<1>3. /\ console.plan = <<>> /\ console.phase = "ready" /\ console \in ConsoleType /\ ~Busy
  <2>1. /\ <<>> \in Seq(StepSet) /\ NoVif \in Vifs \cup {NoVif} /\ 0 \in Nat /\ FALSE \in BOOLEAN
        /\ "ready" \in {"ready", "sent", "wait"}
    OBVIOUS
  <2>2. Idle \in ConsoleType /\ Idle.plan = <<>> /\ Idle.phase = "ready"
    BY <2>1 DEF Idle, ConsoleType
  <2> QED  BY <1>1, <2>2 DEF Busy
<1>4. link.vif = 0 /\ ~link.up /\ link \in LinkType
  BY <1>1 DEF NoLink, LinkType
<1>5. cmd.owner = -1 /\ cmd.do = "none" /\ cmd.answer = "none" /\ cmd \in CmdType
  BY <1>1 DEF NoCmd, CmdType, Console
<1>6. chip.ifaces = <<>> /\ chip.stray = {} /\ DOMAIN chip.ifaces = {}
  BY <1>1
<1>7. ChipTyped
  <2>1. chip.ifaces \in [DOMAIN chip.ifaces -> IfaceType]
    BY <1>6
  <2> QED  BY <1>1, <1>6, <2>1 DEF ChipTyped
<1>8. tasks \in [LinkIds -> Places] /\ (\A t \in LinkIds : tasks[t] = "none") /\ Alive = {}
  BY <1>1 DEF Places, Alive
<1>9. Typed
  BY <1>1, <1>3, <1>4, <1>5, <1>7, <1>8 DEF Typed
<1>10. Shaped(console.plan)
  <2>1. DOMAIN <<>> = {} /\ Len(<<>>) = 0 /\ 1 .. 0 - 1 = {}
    OBVIOUS
  <2> QED  BY <1>3, <2>1 DEF Shaped
<1>11. CmdKnown
  <2>1. \A t \in LinkIds : cmd.owner # t
    BY <1>5 DEF LinkIds
  <2> QED  BY <1>1, <1>3, <1>5, <1>8, <2>1 DEF CmdKnown, Console
<1>12. TasksKnown /\ UpKnown
  BY <1>4, <1>8 DEF TasksKnown, UpKnown
<1>13. KeysKnown
  BY <1>3, <1>6 DEF KeysKnown, Added, KeysBeforePort
<1>14. AllOwned
  BY <1>6 DEF AllOwned
<1> QED  BY <1>9, <1>10, <1>11, <1>12, <1>13, <1>14 DEF Supervised

LEMMA StutterKeeps == ASSUME Supervised, UNCHANGED linkVars PROVE Supervised'
<1>1. /\ secure' = secure /\ console' = console /\ tasks' = tasks /\ handle' = handle /\ link' = link /\ cmd' = cmd
      /\ due' = due /\ chip' = chip
  BY DEF linkVars
<1>2. chip = [ifaces |-> chip.ifaces, scans |-> chip.scans, stray |-> chip.stray]
  BY DEF Supervised, Typed, ChipTyped
<1> QED  BY <1>1, <1>2, QuietKeeps

LEMMA SupervisedNext == ASSUME LinkSizes, Supervised, [LinkNext]_linkVars PROVE Supervised'
<1>1. CASE Gather
  BY <1>1, GatherKeeps
<1>2. CASE ConsoleStep
  <2>1. CASE StartConnect
    BY <2>1, StartConnectKeeps
  <2>2. CASE StartScan
    BY <2>2, StartScanKeeps
  <2>3. CASE StartDisconnect
    BY <2>3, StartDisconnectKeeps
  <2>4. CASE ConsoleSends
    BY <2>4, ConsoleSendsKeeps
  <2>5. CASE ConsoleAnswered
    BY <2>5, ConsoleAnsweredKeeps
  <2>6. CASE Collect
    BY <2>6, CollectKeeps
  <2>7. CASE CollectTimeout
    BY <2>7, CollectTimeoutKeeps
  <2>8. CASE Found
    BY <2>8, FoundKeeps
  <2>9. CASE Transmit
    BY <2>9, TransmitKeeps
  <2>10. CASE WaitTimeout
    BY <2>10, WaitTimeoutKeeps
  <2>11. CASE ReceiveMgmt
    BY <2>11, ReceiveMgmtKeeps
  <2>12. CASE Handshake
    BY <2>12, HandshakeKeeps
  <2>13. CASE Up
    BY <2>13, UpKeeps
  <2>14. CASE Reset
    BY <2>14, ResetKeeps
  <2> QED  BY <1>2, <2>1, <2>2, <2>3, <2>4, <2>5, <2>6, <2>7, <2>8, <2>9, <2>10, <2>11, <2>12, <2>13, <2>14
           DEF ConsoleStep
<1>3. CASE Outside
  <2>1. CASE ChipPerforms
    BY <2>1, ChipPerformsKeeps
  <2>2. CASE ChipFails
    BY <2>2, ChipFailsKeeps
  <2>3. CASE ScanResult \/ ScanDone \/ BeaconLoss \/ ApReplies \/ ApSends
    BY <2>3, OutsideKeeps
  <2> QED  BY <1>3, <2>1, <2>2, <2>3 DEF Outside
<1>4. ASSUME NEW t \in LinkIds, LinkStep(t) PROVE Supervised'
  <2>1. CASE LinkLoop(t)
    BY <2>1, LinkLoopKeeps
  <2>2. CASE LinkSent(t)
    BY <2>2, LinkSentKeeps
  <2>3. CASE LinkReceives(t)
    BY <2>3, LinkReceivesKeeps
  <2>4. CASE LinkRemoves(t)
    BY <2>4, LinkRemovesKeeps
  <2>5. CASE LinkRemoved(t)
    BY <2>5, LinkRemovedKeeps
  <2>6. CASE LinkEnds(t)
    BY <2>6, LinkEndsKeeps
  <2> QED  BY <1>4, <2>1, <2>2, <2>3, <2>4, <2>5, <2>6 DEF LinkStep
<1>5. CASE UNCHANGED linkVars
  BY <1>5, StutterKeeps
<1> QED  BY <1>1, <1>2, <1>3, <1>4, <1>5 DEF LinkNext

LEMMA SupervisedMeans == ASSUME Supervised PROVE UpIsSupervised /\ KeysBeforePort /\ InterfacesReturned
<1> USE DEF Supervised
<1>1. KeysBeforePort
  BY DEF KeysKnown
<1>2. ASSUME link.up, console.plan = <<>>
      PROVE  /\ Alive = {handle} /\ tasks[handle] \in {"loop", "waiting", "sending", "delivering"}
             /\ link.vif \in DOMAIN chip.ifaces /\ chip.ifaces[link.vif].sta = "Authorized"
  <2>1. ~Busy
    BY <1>2 DEF Busy
  <2>2. Alive # {}
    BY <1>2, <2>1 DEF UpKnown
  <2>3. Alive = {handle}
    BY <2>2 DEF TasksKnown
  <2>4. handle \in LinkIds /\ tasks[handle] \in Places \ {"none", "over"}
    BY <2>3 DEF Alive, Typed
  <2>5. tasks[handle] \notin Tearing
    BY <1>2, <2>3 DEF TasksKnown
  <2>6. tasks[handle] \in {"loop", "waiting", "sending", "delivering"}
    BY <2>4, <2>5 DEF Tearing, Places
  <2>7. link.vif \in DOMAIN chip.ifaces /\ chip.ifaces[link.vif].sta = "Authorized"
    BY <1>2, <2>2 DEF UpKnown
  <2> QED  BY <2>3, <2>6, <2>7
<1>3. ASSUME console.plan = <<>>, Alive = {} PROVE DOMAIN chip.ifaces \subseteq chip.stray
  <2>1. ~Busy /\ ~Scanning /\ ~Added
    BY <1>3 DEF Busy, Scanning, Added
  <2>2. ~(cmd.do = "AddInterface" /\ cmd.answer = "ok")
    <3>1. cmd.owner # Console
      BY <2>1 DEF CmdKnown
    <3>2. cmd.owner \notin LinkIds
      BY <1>3 DEF CmdKnown, Alive
    <3>3. cmd = NoCmd
      BY <3>1, <3>2 DEF CmdKnown, Typed, CmdType
    <3> QED  BY <3>3 DEF NoCmd
  <2>3. Owned = {}
    BY <1>3, <2>1, <2>2 DEF Owned
  <2> QED  BY <2>3 DEF AllOwned
<1> QED  BY <1>1, <1>2, <1>3 DEF UpIsSupervised, InterfacesReturned

\* Commands have one owner, a connection is behind the teardown of the last one, and every
\* interface the chip has is one that somebody will remove or one that was given up.
THEOREM AlwaysSupervised == ASSUME LinkSizes PROVE LinkSpec => []Supervised
<1>1. LinkInit => Supervised
  BY SupervisedInit
<1>2. Supervised /\ [LinkNext]_linkVars => Supervised'
  BY SupervisedNext
<1> QED  BY <1>1, <1>2, PTL DEF LinkSpec


\* "link.up is true here, so the task is still alive and the handle is valid" (disconnect()).
THEOREM LinkUpIsSupervised == ASSUME LinkSizes PROVE LinkSpec => []UpIsSupervised
<1>1. Supervised => UpIsSupervised
  BY SupervisedMeans
<1> QED  BY <1>1, AlwaysSupervised, PTL

\* No port is authorized with a protected access point before both keys are in (connect()).
THEOREM LinkKeysBeforePort == ASSUME LinkSizes PROVE LinkSpec => []KeysBeforePort
<1>1. Supervised => KeysBeforePort
  BY SupervisedMeans
<1> QED  BY <1>1, AlwaysSupervised, PTL

\* When nobody is at work the chip has no interface but those that were given up (scan(),
\* connect(), disconnect(), link_task()).
THEOREM LinkInterfacesReturned == ASSUME LinkSizes PROVE LinkSpec => []InterfacesReturned
<1>1. Supervised => InterfacesReturned
  BY SupervisedMeans
<1> QED  BY <1>1, AlwaysSupervised, PTL
=============================================================================
