-------------------------------- MODULE Tcp --------------------------------
(***************************************************************************)
(* Two endpoints running the transmission control protocol of re-net       *)
(* (net/tcp.cpp), joined by a network that loses, duplicates and reorders  *)
(* segments.  "client" opens actively, "server" passively.                 *)
(*                                                                         *)
(* An endpoint is one Conn object and three coroutines that share it:      *)
(*   "in"   the driver's receive task inside tcp::input;                   *)
(*   "tx"   the application task: connect or listen/accept, its send()     *)
(*          calls, close();                                                *)
(*   "rx"   the application task that calls recv() until end of stream.    *)
(* The runner is cooperative: a coroutine runs without interruption from   *)
(* one co_await to the next, so an action here is the code between two     *)
(* co_awaits.  A child coroutine starts in a later round than the call     *)
(* that creates it; send_segment() therefore reads rcv_nxt and the free    *)
(* ring space in a step of its own (Emit), after other tasks have run, and *)
(* its caller goes on in a third step, after yet others have run.          *)
(***************************************************************************)
EXTENDS Integers, Sequences, FiniteSets

CONSTANTS
  SeqSpace,       \* size of the sequence space (2^32 in the code)
  RxBufferSize,   \* rx_buffer_size: bytes of the receive ring
  Mss,            \* the segment size both sides negotiate
  MaxRetx,        \* max_retx: timeouts before an operation gives up
  ReadSize,       \* size of the buffer the application passes to recv()
  Sends,          \* Sends[e][n]: the lengths of the send() calls of e's n-th opening
  Iss,            \* Iss[e][n]: initial sequence number of e's n-th opening
  CloseAfterEof,  \* the ends that call close() only once recv() has ended
  MaxOpens,       \* how often each end opens its connection
  MaxNet,         \* bound: segments under way to one end; the network drops any more
  MaxFaults,      \* bound: segments lost, duplicated or overtaken, and timers that
                  \* fire while segments are still under way
  MaxFail         \* bound: send_segment() calls that fail (pool empty, link down)

Ends == {"client", "server"}
Tasks == {"in", "tx", "rx"}

ASSUME TcpAssumption ==
  /\ SeqSpace \in Nat /\ SeqSpace >= 4 /\ SeqSpace % 2 = 0
  /\ RxBufferSize \in Nat \ {0} /\ Mss \in Nat \ {0} /\ ReadSize \in Nat \ {0}
  /\ RxBufferSize < SeqSpace \div 2
  /\ MaxRetx \in Nat /\ MaxNet \in Nat /\ MaxFaults \in Nat /\ MaxFail \in Nat
  /\ MaxOpens \in Nat \ {0}
  /\ Sends \in [Ends -> [1..MaxOpens -> Seq(Nat \ {0})]]
  /\ Iss \in [Ends -> [1..MaxOpens -> 0..(SeqSpace - 1)]]
  /\ CloseAfterEof \subseteq Ends

(* One connection of each end, and streams shorter than half of the        *)
(* sequence space: f[n] is what the first n send() calls add up to. (That  *)
(* none of them exceeds the last follows by induction, which the provers   *)
(* cannot do; stated here, it excludes nothing.)                           *)
AddsUp(e, f) ==
  LET m == Len(Sends[e][1])
  IN /\ f[0] = 0
     /\ \A n \in 1..m : f[n] = f[n - 1] + Sends[e][1][n]
     /\ \A n \in 0..m : f[n] <= f[m]
Totals(e) == [0..Len(Sends[e][1]) -> 0..(SeqSpace \div 2 - 4)]
StreamSizes == MaxOpens = 1 /\ \A e \in Ends : \E f \in Totals(e) : AddsUp(e, f)

VARIABLES
  conn,    \* conn[e]: e's Conn object and whether the table holds it
  task,    \* task[e][t]: where task t of end e stands
  op,      \* op[e]: the locals of e's running connect(), send() or close()
  net,     \* net[e]: segments under way to e, in the order they were sent
  got,     \* got[e]: what recv() has returned to e's application so far
  acked,   \* acked[e]: bytes for which e's send() has returned true
  opens,   \* opens[e]: connections e has opened so far
  faults,  \* network faults and early timers so far
  fails    \* failed send_segment() calls so far

vars == <<conn, task, op, net, got, acked, opens, faults, fails>>

Peer(e) == IF e = "client" THEN "server" ELSE "client"
-----------------------------------------------------------------------------
(* Serial-number arithmetic over the sequence space. *)

Add(a, n) == (a + n) % SeqSpace
Dist(a, b) == (b - a) % SeqSpace          \* u32(b - a)
SeqLt(a, b) == Dist(b, a) >= SeqSpace \div 2
SeqLe(a, b) == a = b \/ SeqLt(a, b)
Lesser(a, b) == IF a <= b THEN a ELSE b
-----------------------------------------------------------------------------
(* coop::SingleEvent.  "none": no waiter; "set": a notify() came first and *)
(* left its mark; "waiting": a task is suspended on it; "woken": that task *)
(* has been made runnable again (or its await found the mark).             *)

Events == {"none", "set", "waiting", "woken"}
Notify(ev) == IF ev \in {"waiting", "woken"} THEN "woken" ELSE "set"
Await(ev) == IF ev = "set" THEN "woken" ELSE "waiting"
-----------------------------------------------------------------------------
(* The Conn object.  A definition right above another one and with the      *)
(* same parameters is that one with a plausible mistake in it; no behaviour *)
(* of Spec uses it (the mutants of PROJECT.json do).                       *)

States == {"Closed", "Listen", "SynSent", "SynReceived", "Established",
           "FinWait1", "FinWait2", "Closing", "CloseWait", "LastAck", "TimeWait"}

(* reinit(): a Conn is reusable; `bound' says the connection table points to it. *)
Reinit(port) ==
  [state |-> "Closed", bound |-> FALSE, port |-> port, una |-> 0, nxt |-> 0,
   wnd |-> 0, retries |-> 0, rcv |-> 0, ring |-> <<>>, fin |-> FALSE,
   wnd_closed |-> FALSE, tx |-> "none", rx |-> "none"]

NotifyTxOnly(c) == [c EXCEPT !.tx = Notify(@)]
NotifyBoth(c) == [c EXCEPT !.tx = Notify(@), !.rx = Notify(@)]
UnbindSlotOnly(c) == [c EXCEPT !.bound = FALSE]
Unbind(c) == [c EXCEPT !.bound = FALSE, !.state = "Closed"]
ResetConn(c) == NotifyBoth(Unbind(c))
TimeWait(c) == NotifyBoth([c EXCEPT !.state = "TimeWait"])
RxFreeOneMore(c) == RxBufferSize + 1 - Len(c.ring)
RxFree(c) == RxBufferSize - Len(c.ring)
-----------------------------------------------------------------------------
(* Segments.  A call of send_segment() fixes flags, seq and data; the      *)
(* remaining fields are read from the Conn when its body runs.  An octet   *)
(* of data is the pair of the connection it belongs to and its position in *)
(* the sender's stream, so that the receiver's stream can be judged.       *)

NoCall == [kind |-> "none"]
Call(flags, seq, data) == [kind |-> "segment", flags |-> flags, seq |-> seq, data |-> data]
RstCall(s) == [kind |-> "rst", offender |-> s]

Segment(c, k) ==
  [port |-> c.port, flags |-> k.flags, seq |-> k.seq,
   ack |-> IF "A" \in k.flags THEN c.rcv ELSE 0, wnd |-> RxFree(c), data |-> k.data]

(* Sequence numbers a segment occupies. *)
SegLen(s) == Len(s.data) + Cardinality(s.flags \cap {"S", "F"})

(* send_rst(): rfc 793 reset generation for a segment that matches nothing. *)
RstFor(s) ==
  LET seg(flags, seq, ack) == [port |-> s.port, flags |-> flags, seq |-> seq, ack |-> ack,
                               wnd |-> 0, data |-> <<>>]
  IN IF "A" \in s.flags THEN seg({"R"}, s.ack, 0)
                        ELSE seg({"R", "A"}, 0, Add(s.seq, SegLen(s)))
-----------------------------------------------------------------------------
(* tcp::input(), from demultiplexing to its (last) co_await: the Conn it   *)
(* leaves, the send it awaits, and whether it notifies tx_event after it.  *)

Result(c, k) == [conn |-> c, call |-> k, notify |-> FALSE]
Silent(c) == Result(c, NoCall)
Refuse(c, s) == Result(c, IF "R" \in s.flags THEN NoCall ELSE RstCall(s))

InListen(e, c, s) ==
  LET iss == Iss[e][opens[e]]
  IN IF "A" \in s.flags THEN Refuse(c, s)
     ELSE IF s.flags \cap {"R", "S"} = {"S"}
          THEN Result([c EXCEPT !.port = s.port, !.rcv = Add(s.seq, 1), !.wnd = s.wnd,
                                !.una = iss, !.nxt = Add(iss, 1), !.state = "SynReceived"],
                      Call({"S", "A"}, iss, <<>>))
     ELSE Silent(c)

InSynSent(c, s) ==
  LET ack_ok == SeqLt(c.una, s.ack) /\ SeqLe(s.ack, c.nxt)
      est == [c EXCEPT !.rcv = Add(s.seq, 1), !.una = s.ack, !.wnd = s.wnd,
                       !.state = "Established"]
  IN IF "A" \in s.flags /\ ~ack_ok THEN Refuse(c, s)
     ELSE IF "R" \in s.flags
          THEN Silent(IF "A" \in s.flags THEN ResetConn(c) ELSE c)
     ELSE IF {"S", "A"} \subseteq s.flags
          THEN [Result(est, Call({"A"}, est.nxt, <<>>)) EXCEPT !.notify = TRUE]
     ELSE Silent(c)

(* Acknowledgement processing; it always ends in tx_event.notify().  Once  *)
(* everything sent is acknowledged, so is the fin of a closing Conn.       *)
AckValidStrict(c, s) == SeqLt(s.ack, c.nxt) /\ SeqLe(c.una, s.ack)
AckValid(c, s) == SeqLe(s.ack, c.nxt) /\ SeqLe(c.una, s.ack)
AckedAnyhow(c) == TRUE
AllAcked(c) == c.una = c.nxt

AckStep(c, s) ==
  LET c1 == [c EXCEPT !.una = s.ack, !.wnd = s.wnd]
      c2 == CASE c.state = "FinWait1" -> [c1 EXCEPT !.state = "FinWait2"]
              [] c.state = "Closing" -> TimeWait(c1)
              [] c.state = "LastAck" -> Unbind(c1)
              [] OTHER -> c1
      c3 == IF ~AckValid(c, s) THEN c ELSE IF AllAcked(c1) THEN c2 ELSE c1
  IN [c3 EXCEPT !.tx = Notify(@)]

(* rx_push(): octets for the ring, and a notification for recv().          *)
PushQuietly(c, octets) == [c EXCEPT !.ring = @ \o octets, !.rcv = Add(@, Len(octets))]
Push(c, octets) ==
  [c EXCEPT !.ring = @ \o octets, !.rcv = Add(@, Len(octets)), !.rx = Notify(@)]

(* What lies n octets after seq is what rcv_nxt expects next.              *)
ExpectedUnchecked(c, seq, n) == TRUE
Expected(c, seq, n) == Add(seq, n) = c.rcv

(* In-order data: the part not yet received, as far as the ring has room. *)
DataStep(c, s) ==
  LET skip == IF SeqLt(s.seq, c.rcv) THEN Dist(s.seq, c.rcv) ELSE 0
      body == SubSeq(s.data, skip + 1, Len(s.data))
      n == Lesser(Len(body), RxFree(c))
  IN IF /\ c.state \in {"Established", "FinWait1", "FinWait2"}
        /\ n # 0 /\ Expected(c, s.seq, skip)
     THEN Push(c, SubSeq(body, 1, n)) ELSE c

(* A fin counts once every octet before it has been received. *)
FinStep(c, s) ==
  LET c1 == [c EXCEPT !.rcv = Add(@, 1), !.fin = TRUE]
      c2 == CASE c.state = "Established" -> [c1 EXCEPT !.state = "CloseWait"]
              [] c.state = "FinWait1" -> [c1 EXCEPT !.state = "Closing"]
              [] c.state = "FinWait2" -> TimeWait(c1)
              [] OTHER -> c1
  IN IF "F" \in s.flags /\ Expected(c, s.seq, Len(s.data)) /\ ~c.fin
     THEN NotifyBoth(c2) ELSE c

InSynchronized(c, s) ==
  LET handshake == c.state = "SynReceived"
      c1 == IF handshake THEN [c EXCEPT !.state = "Established"] ELSE c
      c2 == FinStep(DataStep(AckStep(c1, s), s), s)
  IN IF "R" \in s.flags
     THEN Silent(IF s.seq = c.rcv \/ handshake THEN ResetConn(c) ELSE c)
     ELSE IF "S" \in s.flags /\ handshake /\ Add(s.seq, 1) = c.rcv
          THEN Result(c, Call({"S", "A"}, c.una, <<>>))
     ELSE IF "S" \in s.flags /\ SeqLe(c.rcv, s.seq) THEN Silent(ResetConn(c))
     ELSE IF "A" \notin s.flags THEN Silent(c)
     ELSE IF handshake /\ ~(SeqLe(c.una, s.ack) /\ SeqLe(s.ack, c.nxt)) THEN Refuse(c, s)
     ELSE Result(c2, IF c2.rcv # c.rcv \/ s.data # <<>> \/ "F" \in s.flags
                     THEN Call({"A"}, c2.nxt, <<>>) ELSE NoCall)

(* A four-tuple match first, then a listener. *)
Handle(e, s) ==
  LET c == conn[e]
  IN CASE c.bound /\ c.state = "Listen" -> InListen(e, c, s)
       [] c.bound /\ c.state = "SynSent" /\ c.port = s.port -> InSynSent(c, s)
       [] c.bound /\ c.state \notin {"Listen", "SynSent"} /\ c.port = s.port
            -> InSynchronized(c, s)
       [] OTHER -> Refuse(c, s)
-----------------------------------------------------------------------------
(* How a task stands.  phase: "idle" no operation; "run" about to run;     *)
(* "call" awaiting send_segment(), which has yet to run; "ret" it has run, *)
(* the caller has yet to go on; "wait" suspended on an event.              *)

At(pc, phase) == [pc |-> pc, phase |-> phase, call |-> NoCall, ok |-> TRUE, notify |-> FALSE]
Sending(pc, k) == [At(pc, "call") EXCEPT !.call = k]

Init ==
  /\ conn = [e \in Ends |-> Reinit(0)]
  /\ task = [e \in Ends |-> [in |-> At("input", "idle"), tx |-> At("closed", "run"),
                             rx |-> At("off", "idle")]]
  /\ op = [e \in Ends |-> [base |-> 0, end |-> 0, fin |-> 0, count |-> 0, tries |-> 0,
                       sends |-> 0]]
  /\ net = [e \in Ends |-> <<>>]
  /\ got = [e \in Ends |-> <<>>]
  /\ acked = [e \in Ends |-> 0]
  /\ opens = [e \in Ends |-> 0]
  /\ faults = 0 /\ fails = 0

(* The network normally delivers in order; each fault is counted.          *)
Fault == faults < MaxFaults /\ faults' = faults + 1

Drop(q, i) == SubSeq(q, 1, i - 1) \o SubSeq(q, i + 1, Len(q))
Put(e, s) == IF Len(net[e]) < MaxNet THEN [net EXCEPT ![e] = Append(@, s)] ELSE net

Lose(e) ==
  /\ net[e] # <<>> /\ Fault
  /\ net' = [net EXCEPT ![e] = Tail(@)]
  /\ UNCHANGED <<conn, task, op, got, acked, opens, fails>>

(* The receive task hands the i-th segment under way to tcp::input(); it   *)
(* takes the next one only when this one's reply, if any, has been sent.   *)
Input(e, i) ==
  LET r == Handle(e, net[e][i])
  IN /\ task[e].in.phase = "idle"
     /\ \/ i = 1 /\ UNCHANGED faults /\ net' = [net EXCEPT ![e] = Tail(@)]
        \/ i > 1 /\ Fault /\ net' = [net EXCEPT ![e] = Drop(@, i)]
        \/ i = 1 /\ Fault /\ UNCHANGED net
     /\ conn' = [conn EXCEPT ![e] = r.conn]
     /\ task' = IF r.call = NoCall THEN task
                ELSE [task EXCEPT ![e].in = [Sending("input", r.call) EXCEPT !.notify = r.notify]]
     /\ UNCHANGED <<op, got, acked, opens, fails>>

(* What follows the co_await of a send: nothing more in recv() and, but for *)
(* one case, in tcp::input(); elsewhere a step of the caller.              *)
AfterSend(t, ok) ==
  CASE t.pc = "recv" -> At("recv", "run")
    [] t.pc = "input" /\ ~t.notify -> At("input", "idle")
    [] OTHER -> [t EXCEPT !.phase = "ret", !.ok = ok, !.call = NoCall]

(* The body of send_segment() or send_rst(): build the segment from the    *)
(* Conn as it is now, and transmit it.                                     *)
Emit(e, t) ==
  LET k == task[e][t].call
      c == conn[e]
      shut == c.wnd_closed \/ (k.kind = "segment" /\ RxFree(c) = 0)
      after(ok) == [task EXCEPT ![e][t] = AfterSend(@, ok)]
  IN /\ task[e][t].phase = "call"
     /\ \/ /\ net' = Put(Peer(e), IF k.kind = "rst" THEN RstFor(k.offender)
                                   ELSE Segment(c, k))
           /\ conn' = [conn EXCEPT ![e].wnd_closed = shut]
           /\ task' = after(TRUE)
           /\ UNCHANGED fails
        \/ /\ fails < MaxFail /\ fails' = fails + 1
           /\ \E w \in {c.wnd_closed, shut} : conn' = [conn EXCEPT ![e].wnd_closed = w]
           /\ task' = after(FALSE)
           /\ UNCHANGED net
     /\ UNCHANGED <<op, got, acked, opens, faults>>

(* tcp::input() tells connect() of the established connection only after   *)
(* the acknowledgement has been sent.                                      *)
InputReturn(e) ==
  /\ task[e].in.phase = "ret"
  /\ conn' = [conn EXCEPT ![e].tx = Notify(@)]
  /\ task' = [task EXCEPT ![e].in = At("input", "idle")]
  /\ UNCHANGED <<op, net, got, acked, opens, faults, fails>>

(* tick(): the linger of a time-wait connection has passed. *)
Tick(e) ==
  /\ conn[e].bound /\ conn[e].state = "TimeWait"
  /\ conn' = [conn EXCEPT ![e] = Unbind(@)]
  /\ UNCHANGED <<task, op, net, got, acked, opens, faults, fails>>
-----------------------------------------------------------------------------
(* The application's operations.  Each operator below is the code from one *)
(* point of a coroutine to its next co_await, applied to the Conn c as the *)
(* step has left it so far.                                                *)

Stay == UNCHANGED <<net, got, acked, opens, fails>>

(* Leave the Conn as c, the task at t, the locals as o. *)
Set(e, c, t, o) ==
  /\ conn' = [conn EXCEPT ![e] = c]
  /\ task' = [task EXCEPT ![e].tx = t]
  /\ op' = [op EXCEPT ![e] = o]

(* co_await wait_for_event(tx_event, ...) *)
WaitTx(e, pc, c, o) == Set(e, [c EXCEPT !.tx = Await(@)], At(pc, "wait"), o)

(* The wait is over: woken by notify(), or its timer ran out.  Timers are  *)
(* longer than a round trip: they fire when the network is quiet, or       *)
(* early, which counts as a fault.                                         *)
Quiet == \A e \in Ends : net[e] = <<>> /\ task[e].in.phase = "idle"

Waiting(e, pc) == task[e].tx.pc = pc /\ task[e].tx.phase = "wait"

Woken(e, pc) == Waiting(e, pc) /\ conn[e].tx = "woken" /\ UNCHANGED faults

TimedOut(e, pc) ==
  /\ Waiting(e, pc) /\ conn[e].tx = "waiting"
  /\ IF Quiet THEN UNCHANGED faults ELSE Fault
Returned(e, pc) == task[e].tx.pc = pc /\ task[e].tx.phase = "ret"
Resumed(e) == [conn[e] EXCEPT !.tx = "none"]

(* The application opens a connection when its two tasks are through with  *)
(* the previous one and tick() has reaped a lingering time-wait.           *)
MayOpen(e) ==
  /\ task[e].tx.pc \in {"closed", "done"} /\ task[e].rx.pc \in {"off", "eof", "error"}
  /\ conn[e].state = "Closed" /\ opens[e] < MaxOpens

Usable(c) == c.state \in {"Established", "CloseWait"}
Unacked(c) == SeqLt(c.una, c.nxt) /\ c.state # "Closed"

(* ---- connect() ---- *)

(* reinit, bind to a fresh ephemeral port, send the first syn. *)
Connect ==
  LET e == "client"
      iss == Iss[e][opens[e] + 1]
      c == [Reinit(opens[e] + 1) EXCEPT !.bound = TRUE, !.una = iss, !.nxt = Add(iss, 1),
                                        !.state = "SynSent"]
  IN /\ MayOpen(e)
     /\ Set(e, c, Sending("connect", Call({"S"}, iss, <<>>)),
            [op[e] EXCEPT !.base = iss, !.tries = 0, !.sends = 0])
     /\ opens' = [opens EXCEPT ![e] = @ + 1]
     /\ got' = [got EXCEPT ![e] = <<>>]
     /\ acked' = [acked EXCEPT ![e] = 0]
     /\ UNCHANGED <<net, faults, fails>>

(* The syn has been sent: wait for the answer.  It could not be: give up.  *)
ConnectSent ==
  LET e == "client"
  IN /\ Returned(e, "connect")
     /\ IF task[e].tx.ok THEN WaitTx(e, "connect", conn[e], op[e])
        ELSE Set(e, Unbind(conn[e]), At("closed", "run"), op[e])
     /\ Stay /\ UNCHANGED faults

(* Established, refused, or once more; after max_retx repetitions give up. *)
ConnectWake ==
  LET e == "client"
      c == Resumed(e)
  IN /\ Woken(e, "connect") \/ TimedOut(e, "connect")
     /\ \/ /\ c.state = "Established"
           /\ task' = [task EXCEPT ![e].tx = At("ready", "run"), ![e].rx = At("recv", "run")]
           /\ conn' = [conn EXCEPT ![e] = c]
           /\ UNCHANGED op
        \/ c.state = "Closed" /\ Set(e, c, At("closed", "run"), op[e])
        \/ /\ c.state \notin {"Established", "Closed"} /\ op[e].tries < MaxRetx
           /\ Set(e, c, Sending("connect", Call({"S"}, op[e].base, <<>>)),
                  [op[e] EXCEPT !.tries = @ + 1])
        \/ /\ c.state \notin {"Established", "Closed"} /\ op[e].tries = MaxRetx
           /\ Set(e, Unbind(c), At("closed", "run"), op[e])
     /\ Stay

(* ---- listen() and accept() ---- *)

Listen ==
  LET e == "server"
  IN /\ MayOpen(e)
     /\ Set(e, [Reinit(0) EXCEPT !.bound = TRUE, !.state = "Listen"],
            At("accept", "run"), [op[e] EXCEPT !.sends = 0])
     /\ opens' = [opens EXCEPT ![e] = @ + 1]
     /\ got' = [got EXCEPT ![e] = <<>>]
     /\ acked' = [acked EXCEPT ![e] = 0]
     /\ UNCHANGED <<net, faults, fails>>

(* The loop of accept(): wait while the handshake is not over.  A refused  *)
(* accept ends the serving task for good (tcp_echo_task).                  *)
Accept ==
  LET e == "server"
      c == Resumed(e)
  IN /\ task[e].tx.pc = "accept"
     /\ \/ task[e].tx.phase = "run" /\ UNCHANGED faults
        \/ Woken(e, "accept")
     /\ \/ c.state \in {"Listen", "SynReceived"} /\ WaitTx(e, "accept", c, op[e])
        \/ c.state = "Closed" /\ Set(e, c, At("ended", "idle"), op[e])
        \/ /\ c.state \notin {"Listen", "SynReceived", "Closed"}
           /\ task' = [task EXCEPT ![e].tx = At("ready", "run"), ![e].rx = At("recv", "run")]
           /\ conn' = [conn EXCEPT ![e] = c]
           /\ UNCHANGED op
     /\ Stay

(* ---- send() ---- *)

Script(e) == Sends[e][opens[e]]

(* Octets the peer's window has room for; one if it is closed and nothing  *)
(* is in flight: the probe of a zero window.                               *)
AvailUnprobed(c) ==
  LET in_flight == Dist(c.una, c.nxt)
  IN IF c.wnd > in_flight THEN c.wnd - in_flight ELSE 0
Avail(c) ==
  LET in_flight == Dist(c.una, c.nxt)
  IN IF c.wnd > in_flight THEN c.wnd - in_flight
     ELSE IF in_flight = 0 THEN 1 ELSE 0

(* The inner loop: the next segment, or wait for acknowledgements.         *)
SendMore(e, c, o) ==
  LET n == Lesser(Lesser(Avail(c), Mss), Dist(c.nxt, o.end))
      chunk == [i \in 1..n |-> <<c.port, acked[e] + Dist(o.base, c.nxt) + i>>]
  IN IF SeqLt(c.nxt, o.end) /\ Avail(c) > 0
     THEN Set(e, c, Sending("send", Call({"A"}, c.nxt, chunk)), [o EXCEPT !.count = n])
     ELSE WaitTx(e, "send", c, o)

(* The outer loop: done once everything is acknowledged.                   *)
SendDoneWhenSent(c, o) == ~SeqLt(c.nxt, o.end)
SendDone(c, o) == ~SeqLt(c.una, o.end)

SendLoop(e, c, o) ==
  IF SendDone(c, o)
  THEN /\ Set(e, c, At("ready", "run"), [o EXCEPT !.sends = @ + 1])
       /\ acked' = [acked EXCEPT ![e] = @ + Script(e)[o.sends + 1]]
  ELSE /\ IF Usable(c) THEN SendMore(e, [c EXCEPT !.tx = "none"], o)
          ELSE Set(e, c, At("failed", "run"), o)
       /\ UNCHANGED acked

Send(e) ==
  LET c == [conn[e] EXCEPT !.retries = 0]
      n == Script(e)[op[e].sends + 1]
  IN /\ task[e].tx.pc = "ready" /\ op[e].sends < Len(Script(e))
     /\ IF Usable(c)
        THEN SendLoop(e, c, [op[e] EXCEPT !.base = c.nxt, !.end = Add(c.nxt, n)])
        ELSE Set(e, conn[e], At("failed", "run"), op[e]) /\ UNCHANGED acked
     /\ UNCHANGED <<net, got, opens, faults, fails>>

(* A segment has been sent; only now does snd_nxt move past it.            *)
SendSent(e) ==
  LET c == [conn[e] EXCEPT !.nxt = Add(@, op[e].count)]
  IN /\ Returned(e, "send")
     /\ IF task[e].tx.ok THEN SendMore(e, c, op[e])
        ELSE Set(e, conn[e], At("failed", "run"), op[e])
     /\ Stay /\ UNCHANGED faults

SendWake(e) ==
  /\ Woken(e, "send")
  /\ SendLoop(e, [Resumed(e) EXCEPT !.retries = 0], op[e])
  /\ UNCHANGED <<net, got, opens, fails>>

(* Timeout: go back to the oldest unacknowledged octet.  Only a timeout    *)
(* under an open window counts against max_retx.                           *)
SendTimeout(e) ==
  LET c == [Resumed(e) EXCEPT !.retries = IF conn[e].wnd # 0 THEN @ + 1 ELSE @]
  IN /\ TimedOut(e, "send")
     /\ IF c.wnd # 0 /\ c.retries > MaxRetx
        THEN Set(e, c, At("failed", "run"), op[e]) /\ UNCHANGED acked
        ELSE SendLoop(e, [c EXCEPT !.nxt = c.una], op[e])
     /\ UNCHANGED <<net, got, opens, fails>>

(* ---- close() and abort() ---- *)

(* The fin is unacknowledged: (re)send it.  Else, or when the loop is left *)
(* with `give_up', see what the connection still needs.                    *)
CloseLoop(e, c, o, give_up) ==
  IF Unacked(c) /\ ~give_up
  THEN Set(e, [c EXCEPT !.tx = "none"], Sending("close", Call({"F", "A"}, o.fin, <<>>)), o)
  ELSE IF Unacked(c) THEN Set(e, c, At("abort", "run"), o)
  ELSE IF c.state = "FinWait2" THEN WaitTx(e, "finwait", [c EXCEPT !.tx = "none"], o)
  ELSE Set(e, c, At("done", "idle"), o)

(* The application closes when its send() calls are through or one failed  *)
(* and, if it is one that waits for the end of the peer's stream, recv()   *)
(* has ended.                                                              *)
Close(e) ==
  LET c == conn[e]
      closing == [c EXCEPT !.nxt = Add(@, 1), !.retries = 0,
                           !.state = IF @ = "Established" THEN "FinWait1" ELSE "LastAck"]
  IN /\ \/ task[e].tx.pc = "ready" /\ op[e].sends = Len(Script(e))
        \/ task[e].tx.pc = "failed"
     /\ e \in CloseAfterEof => task[e].rx.pc \in {"eof", "error"}
     /\ IF Usable(c) THEN CloseLoop(e, closing, [op[e] EXCEPT !.fin = c.nxt], FALSE)
        ELSE Set(e, IF c.state \in {"Listen", "SynSent"} THEN Unbind(c) ELSE c,
                 At("done", "idle"), op[e])
     /\ Stay /\ UNCHANGED faults

CloseSent(e) ==
  /\ Returned(e, "close")
  /\ IF task[e].tx.ok THEN WaitTx(e, "close", conn[e], op[e])
     ELSE CloseLoop(e, conn[e], op[e], TRUE)
  /\ Stay /\ UNCHANGED faults

CloseWake(e) ==
  /\ Woken(e, "close")
  /\ CloseLoop(e, Resumed(e), op[e], FALSE)
  /\ Stay

CloseTimeout(e) ==
  LET c == [Resumed(e) EXCEPT !.retries = @ + 1]
  IN /\ TimedOut(e, "close")
     /\ CloseLoop(e, c, op[e], c.retries > MaxRetx)
     /\ Stay

(* The wait for the peer's fin has ended, by notify() or by its timer.     *)
FinWaitOver(e) ==
  /\ Woken(e, "finwait") \/ TimedOut(e, "finwait")
  /\ Set(e, Resumed(e), IF conn[e].state = "FinWait2" THEN At("abort", "run")
                        ELSE At("done", "idle"), op[e])
  /\ Stay

(* abort(): a reset to the peer unless there is none, then drop the Conn.  *)
Abort(e) ==
  LET c == conn[e]
  IN /\ task[e].tx.pc = "abort" /\ task[e].tx.phase = "run"
     /\ IF c.state \in {"Closed", "Listen", "SynSent"}
        THEN Set(e, ResetConn(c), At("done", "idle"), op[e])
        ELSE Set(e, c, Sending("abort", Call({"R", "A"}, c.nxt, <<>>)), op[e])
     /\ Stay /\ UNCHANGED faults

AbortSent(e) ==
  /\ Returned(e, "abort")
  /\ Set(e, ResetConn(conn[e]), At("done", "idle"), op[e])
  /\ Stay /\ UNCHANGED faults

(* ---- recv() ---- *)

SetRx(e, c, t) ==
  /\ conn' = [conn EXCEPT ![e] = c]
  /\ task' = [task EXCEPT ![e].rx = t]
  /\ UNCHANGED <<op, net, acked, opens, faults, fails>>

(* One turn of recv(): hand over what the ring holds and reopen a window   *)
(* that was closed; else end of stream, else error, else wait.             *)
Recv(e) ==
  LET waited == task[e].rx.phase = "wait"
      c == IF waited THEN [conn[e] EXCEPT !.rx = "none"] ELSE conn[e]
      n == Lesser(ReadSize, Len(c.ring))
      popped == [c EXCEPT !.ring = SubSeq(@, n + 1, Len(@)), !.wnd_closed = FALSE]
      dead == c.state \in {"Closed", "Listen"}
  IN /\ task[e].rx.pc = "recv"
     /\ task[e].rx.phase = "run" \/ (waited /\ conn[e].rx = "woken")
     /\ \/ /\ n > 0
           /\ got' = [got EXCEPT ![e] = @ \o SubSeq(c.ring, 1, n)]
           /\ SetRx(e, popped, IF c.wnd_closed THEN Sending("recv", Call({"A"}, c.nxt, <<>>))
                               ELSE At("recv", "run"))
        \/ n = 0 /\ c.fin /\ SetRx(e, c, At("eof", "idle")) /\ UNCHANGED got
        \/ n = 0 /\ ~c.fin /\ dead /\ SetRx(e, c, At("error", "idle")) /\ UNCHANGED got
        \/ /\ n = 0 /\ ~c.fin /\ ~dead
           /\ SetRx(e, [c EXCEPT !.rx = "waiting"], At("recv", "wait")) /\ UNCHANGED got
-----------------------------------------------------------------------------
(* The steps of the three tasks of end e. *)

InTask(e) ==
  \/ \E i \in 1..Len(net[e]) : Input(e, i)
  \/ Emit(e, "in") \/ InputReturn(e)

TxTask(e) ==
  \/ e = "client" /\ (Connect \/ ConnectSent \/ ConnectWake)
  \/ e = "server" /\ (Listen \/ Accept)
  \/ Send(e) \/ SendSent(e) \/ SendWake(e) \/ SendTimeout(e)
  \/ Close(e) \/ CloseSent(e) \/ CloseWake(e) \/ CloseTimeout(e) \/ FinWaitOver(e)
  \/ Abort(e) \/ AbortSent(e)
  \/ Emit(e, "tx")

RxTask(e) == Recv(e) \/ Emit(e, "rx")

Next == \E e \in Ends : InTask(e) \/ TxTask(e) \/ RxTask(e) \/ Tick(e) \/ Lose(e)

Spec == Init /\ [][Next]_vars

(* The runner resumes every ready task once per round, a timer always      *)
(* ends, and the driver hands over every frame it receives.  Nothing is    *)
(* assumed of losses, of failing sends, or of tick().                      *)
Fairness == \A e \in Ends : WF_vars(InTask(e)) /\ WF_vars(TxTask(e)) /\ WF_vars(RxTask(e))

FairSpec == Spec /\ Fairness
-----------------------------------------------------------------------------
(* Properties. *)

Octets == Nat \X (Nat \ {0})
SeqNums == 0..(SeqSpace - 1)
FlagSets == SUBSET {"S", "A", "F", "R"}
Segments == [port : 0..MaxOpens, flags : FlagSets, seq : SeqNums, ack : SeqNums,
             wnd : 0..RxBufferSize, data : Seq(Octets)]
Calls ==
  {NoCall} \cup [kind : {"segment"}, flags : FlagSets, seq : SeqNums, data : Seq(Octets)]
           \cup [kind : {"rst"}, offender : Segments]

(* Every variable has its type; a ring never holds more than its buffer, a *)
(* bound Conn is not Closed and an unbound one is, so that no slot of the  *)
(* connection table outlives the connection it points to.                  *)
TypeOK ==
  /\ \A e \in Ends :
       /\ conn[e].state \in States /\ (conn[e].bound <=> conn[e].state # "Closed")
       /\ {conn[e].una, conn[e].nxt, conn[e].rcv} \subseteq SeqNums
       /\ conn[e].wnd \in 0..RxBufferSize /\ conn[e].port \in 0..MaxOpens
       /\ conn[e].ring \in Seq(Octets) /\ Len(conn[e].ring) <= RxBufferSize
       /\ {conn[e].fin, conn[e].wnd_closed} \subseteq BOOLEAN
       /\ {conn[e].tx, conn[e].rx} \subseteq Events
       /\ \A t \in Tasks : task[e][t].call \in Calls /\ task[e][t].ok \in BOOLEAN
       /\ net[e] \in Seq(Segments) /\ Len(net[e]) <= MaxNet
       /\ got[e] \in Seq(Octets) /\ acked[e] \in Nat /\ opens[e] \in 0..MaxOpens
  /\ faults \in 0..MaxFaults /\ fails \in 0..MaxFail

(* What e has received: handed out by recv(), then still in the ring. *)
Received(e) == got[e] \o conn[e].ring

(* The peer's octets arrive in order, each once, none skipped, whatever the *)
(* network loses, repeats or overtakes and however often send() goes back   *)
(* (tcp.cpp, the in-order branch of input() and the rewind in send()).      *)
StreamInOrder ==
  \A e \in Ends : Received(e) = [i \in 1..Len(Received(e)) |-> <<conn[e].port, i>>]

(* "reliable send; resolves once every byte is acknowledged": when send()  *)
(* has returned true for a byte, the peer holds that byte.                 *)
SendTrueMeansReceived ==
  \A e \in Ends : conn[Peer(e)].port = conn[e].port => acked[e] <= Len(Received(Peer(e)))

(* No lost wake-up: recv() sleeps only while there is nothing to return,   *)
(* accept() only while the handshake is under way, although both forget    *)
(* earlier notifications (tx_event, rx_event = SingleEvent()) before they  *)
(* wait.                                                                   *)
NoLostWakeup ==
  \A e \in Ends :
    /\ task[e].rx.phase = "wait" /\ conn[e].rx # "woken"
         => conn[e].ring = <<>> /\ ~conn[e].fin /\ conn[e].state \notin {"Closed", "Listen"}
    /\ task[e].tx.pc = "accept" /\ task[e].tx.phase = "wait" /\ conn[e].tx # "woken"
         => conn[e].state \in {"Listen", "SynReceived"}

(* Where the peer's fin was taken, its whole stream had been: the octets   *)
(* received are exactly those its close() put before the fin.  (Of a peer  *)
(* that has reused its Conn since, nothing is left to compare with.)       *)
EofIsTheEnd ==
  \A e \in Ends : LET p == Peer(e) IN
    conn[e].fin /\ conn[p].port = conn[e].port =>
      Add(Iss[p][opens[p]], 1 + Len(Received(e))) = op[p].fin

(* "everything including any in-flight fin is acknowledged": when input()  *)
(* decides so, the peer has indeed taken the fin.                          *)
FinDeemedAcked(c, d) ==
  \/ c.state \in {"FinWait1", "Closing"} /\ d.state \in {"FinWait2", "TimeWait"}
  \/ c.state = "LastAck" /\ c.una # c.nxt /\ d.una = d.nxt

FinAckedMeansConsumed ==
  [][\A e \in Ends : FinDeemedAcked(conn[e], conn'[e]) /\ conn[Peer(e)].port = conn[e].port
                     => conn[Peer(e)].fin]_vars

(* The same of an orderly close, one that follows send() calls which all   *)
(* returned true: after one that gave up, snd_nxt may stand before octets  *)
(* the peer already has, and the fin then has the number of one of these.  *)
OrderlyFinConsumed ==
  [][\A e \in Ends : FinDeemedAcked(conn[e], conn'[e]) /\ conn[Peer(e)].port = conn[e].port
                     /\ op[e].sends = Len(Script(e))
                     => conn[Peer(e)].fin]_vars

(* When close() has returned, the Conn is closed or will be by tick(): the *)
(* echo task, which polls for Closed before it listens again, can go on.   *)
CloseLeavesReusable ==
  \A e \in Ends : task[e].tx.pc = "done" => conn[e].state \in {"Closed", "TimeWait"}

(* send() returns, provided it does not for ever lose one race: between    *)
(* its resumption after a segment, a few rounds away, and the              *)
(* acknowledgement of that segment, a round trip away.  An acknowledgement *)
(* that comes first is beyond snd_nxt, is ignored, and the segment is sent *)
(* again after a timeout.                                                  *)
Senders == {e \in Ends : \E n \in 1..MaxOpens : Sends[e][n] # <<>>}
OnItsWay(e) == net[Peer(e)] # <<>>
Prompt == \A e \in Senders : SF_vars(SendSent(e) /\ OnItsWay(e))

SendResolves ==
  Prompt => \A e \in Senders : (task[e].tx.pc = "send") ~> (task[e].tx.pc # "send")

(* close() returns, however its fins and their acknowledgements cross, and *)
(* the peer's recv() ends too (or it never got as far as accept()).        *)
CloseResolves ==
  \A e \in Ends : LET p == Peer(e) IN
    (task[e].tx.pc \in {"close", "finwait", "abort"})
      ~> /\ task[e].tx.pc = "done"
         /\ task[p].rx.pc \in {"eof", "error"} \/ task[p].tx.pc = "ended"

(* "orderly close (fin handshake); falls back to a reset on timeout":      *)
(* close() returns, also the one that follows a send() which gave up.  Its *)
(* fin then lies past a hole, and as each acknowledgement of the hole ends *)
(* its wait before the timeout that would be counted, it need not.         *)
CloseReturns ==
  \A e \in Ends : (task[e].tx.pc \in {"close", "finwait", "abort"}) ~> (task[e].tx.pc = "done")

(* close() cuts the peer's stream off only after the bounded wait for its  *)
(* fin, not because some other segment woke it.                            *)
GiveUpOnlyAfterWait ==
  [][\A e \in Ends :
       task[e].tx.pc = "finwait" /\ task'[e].tx.pc = "abort" => conn[e].tx = "waiting"]_vars
=============================================================================
