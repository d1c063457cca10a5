--------------------------- MODULE TcpStreamProofs ---------------------------
(***************************************************************************)
(* The stream of one connection, for every network, loss, buffer and       *)
(* script of send() calls that add up to less than half of the sequence    *)
(* space: octets arrive in order, send() is true only of what arrived, the *)
(* end of the stream is where the peer closed, and the fin of an orderly   *)
(* close that is taken to be acknowledged was received.                    *)
(***************************************************************************)
EXTENDS TcpProofs

(***************************************************************************)
(* The inductive invariant.  A position of a stream is the distance of its *)
(* sequence number from the initial one: 0 the syn, 1 the first octet.     *)
(***************************************************************************)
Pos(e, q) == Dist(Iss[e][1], q)
Upto(e)   == CHOOSE f \in Totals(e) : AddsUp(e, f)
Total(e)  == Upto(e)[Len(Sends[e][1])]

Linked  == States \ {"Closed", "Listen", "SynSent"}
Running == {"ready", "send", "failed", "close", "finwait", "abort", "done"}
Leaving == {"close", "finwait", "abort"}
Closers == {"close", "finwait", "abort", "done"}

\* What has been received in c's stream, of which g has been handed out; the fin counts as an octet.
Stream(c, g)   == g \o c.ring
Taken(c, g)    == Len(Stream(c, g)) + (IF c.fin THEN 1 ELSE 0)
Heard(e, c, g) == Pos(Peer(e), c.rcv) = 1 + Taken(c, g)

\* The receiving side: the peer's octets, in order; rcv_nxt is behind them.
Receives(e, c, g, pc, n) ==
  /\ \A i \in 1 .. Len(Stream(c, g)) : Stream(c, g)[i] = <<c.port, i>>
  /\ Len(Stream(c, g)) <= Total(Peer(e))
  /\ (c.state \in Linked \/ pc \in Running) => Heard(e, c, g)
  /\ (c.state \in {"Listen", "SynSent"} \/ n = 0) => Stream(c, g) = <<>> /\ ~c.fin

\* A fin taken is that of the peer's close(), at its place: o and pc are the peer p's.
Finished(p, c, g, o, pc) ==
  c.fin => pc \in Closers /\ Add(Iss[p][1], 1 + Len(Stream(c, g))) = o.fin

\* The sending side: where snd_una and snd_nxt may be while the application is at t.
AtStart(c, t, o, a, u, x, b) ==
  t.pc \in {"connect", "accept"} =>
    /\ a = 0
    /\ c.state \in {"SynSent", "SynReceived"} => u = 0 /\ x = 1
    /\ c.state \in {"Established", "CloseWait"} => u = 1 /\ x = 1
    /\ t.pc = "connect" => o.base = b
AtSend(e, t, o, a, u, x) ==
  /\ t.pc = "ready" => u = 1 + a /\ x = 1 + a /\ a = Upto(e)[o.sends]
  /\ t.pc = "send" =>
       /\ a = Upto(e)[o.sends] /\ Pos(e, o.base) = 1 + a /\ Pos(e, o.end) = 1 + Upto(e)[o.sends + 1]
       /\ 1 + a <= u /\ u <= x /\ x <= 1 + Upto(e)[o.sends + 1]
       /\ t.phase \in {"call", "ret"} => x + o.count <= 1 + Upto(e)[o.sends + 1]
  /\ t.pc = "failed" =>
       /\ o.sends < Len(Sends[e][1]) /\ a = Upto(e)[o.sends]
       /\ 1 + a <= u /\ u <= x /\ x <= 1 + Total(e)
AtClose(e, c, t, o, u, x) ==
  /\ t.pc \in Leaving =>
       LET y == Pos(e, o.fin)
       IN /\ x = y + 1 /\ 1 <= y /\ y <= 1 + Total(e) /\ 1 <= u /\ u <= x
          /\ o.sends = Len(Sends[e][1]) => y = 1 + Total(e)
  /\ c.state \in {"FinWait1", "Closing", "LastAck"} => u < x
  /\ t.pc = "finwait" => c.state \in {"FinWait2", "TimeWait", "Closed"}
  /\ t.pc = "done" => c.state \in {"TimeWait", "Closed"}

\* r octets of it, w numbers after the syn, are with the peer.
Sends2(e, c, t, o, a, r, w) ==
  LET u == Pos(e, c.una)
      x == Pos(e, c.nxt)
  IN /\ a <= r
     /\ t.pc \in Running \ {"done"} => u <= 1 + w
     /\ AtStart(c, t, o, a, u, x, Iss[e][1])
     /\ AtSend(e, t, o, a, u, x)
     /\ AtClose(e, c, t, o, u, x)

\* A segment of e, or a call for one, says only what is true of e's stream, whenever it arrives.
Honest(e, o, pc, s, port) ==
  /\ "S" \in s.flags => s.seq = Iss[e][1] /\ s.data = <<>>
  /\ "F" \in s.flags =>
       /\ pc \in Closers /\ s.seq = o.fin /\ s.data = <<>>
       /\ 1 <= Pos(e, o.fin) /\ Pos(e, o.fin) <= 1 + Total(e)
  /\ s.data # <<>> =>
       /\ 1 <= Pos(e, s.seq) /\ Pos(e, s.seq) + Len(s.data) <= 1 + Total(e)
       /\ \A j \in 1 .. Len(s.data) : s.data[j] = <<port, Pos(e, s.seq) - 1 + j>>
Acking(s) == "A" \in s.flags /\ "R" \notin s.flags

Asked(e, c, g, k, o, n) ==
  \A t \in Tasks : k[t].call.kind = "segment" =>
     /\ n >= 1
     /\ Honest(e, o, k.tx.pc, k[t].call, c.port)
     /\ Acking(k[t].call) => Heard(e, c, g)

\* What is under way from e, which has taken w numbers after the syn.
Sent(e, o, pc, q, w) ==
  \A m \in 1 .. Len(q) :
     /\ Honest(e, o, pc, q[m], q[m].port)
     /\ Acking(q[m]) => 1 <= Pos(Peer(e), q[m].ack) /\ Pos(Peer(e), q[m].ack) <= 1 + w

Faithful(e) ==
  LET p == Peer(e)
  IN /\ Receives(e, conn[e], got[e], task[e].tx.pc, opens[e])
     /\ Finished(p, conn[e], got[e], op[p], task[p].tx.pc)
     /\ Sends2(e, conn[e], task[e].tx, op[e], acked[e], Len(Stream(conn[p], got[p])), Taken(conn[p], got[p]))
     /\ Asked(e, conn[e], got[e], task[e], op[e], opens[e])
     /\ Sent(e, op[e], task[e].tx.pc, net[p], Taken(conn[e], got[e]))

Right == \A e \in Ends : Faithful(e)
-----------------------------------------------------------------------------
(***************************************************************************)
(* Positions.                                                              *)
(***************************************************************************)
LEMMA BaseIs ==
  ASSUME StreamSizes, NEW e \in Ends
  PROVE  Iss[e][1] \in Int /\ 0 <= Iss[e][1] /\ Iss[e][1] < SeqSpace /\ Iss[e][1] \in SeqNums
<1>1. Iss[e][1] \in SeqNums
  BY Constants DEF StreamSizes
<1> QED
  BY <1>1, NumIs

LEMMA PosIs ==
  ASSUME StreamSizes, NEW e \in Ends, NEW q \in SeqNums
  PROVE  /\ Pos(e, q) \in Int /\ 0 <= Pos(e, q) /\ Pos(e, q) < SeqSpace
         /\ Add(Iss[e][1], Pos(e, q)) = q
<1>1. q \in Int /\ 0 <= q /\ q < SeqSpace
  BY NumIs
<1> QED
  BY <1>1, BaseIs, DistIs, AddDist DEF Pos

LEMMA PosBase ==
  ASSUME StreamSizes, NEW e \in Ends
  PROVE  Pos(e, Iss[e][1]) = 0
BY BaseIs, DistIs DEF Pos

LEMMA PosAdd ==
  ASSUME StreamSizes, NEW e \in Ends, NEW q \in SeqNums, NEW n \in Nat, Pos(e, q) + n < SeqSpace
  PROVE  Add(q, n) \in SeqNums /\ Pos(e, Add(q, n)) = Pos(e, q) + n
<1> DEFINE b == Iss[e][1]
           m == Pos(e, q)
<1>1. b \in Int /\ 0 <= b /\ b < SeqSpace
  BY BaseIs
<1>2. m \in Int /\ 0 <= m /\ m < SeqSpace /\ Add(b, m) = q
  BY PosIs
<1> HIDE DEF b, m
<1>3. SeqSpace \in Nat /\ m + n <= SeqSpace /\ m + n < SeqSpace /\ 0 <= m + n /\ m + n \in Int
  BY <1>2, Space DEF m
<1>4. Add(q, n) = Add(b, m + n)
  BY <1>1, <1>2, <1>3, AddAdd
<1>5. Add(b, 0) = b
  BY <1>1, AddIs, Space
<1>6. Dist(b, Add(b, m + n)) = m + n
  <2>1. Dist(Add(b, 0), Add(b, m + n)) = m + n
    BY <1>1, <1>3, DistOf
  <2> QED
    BY <1>5, <2>1
<1>7. Add(q, n) \in SeqNums
  BY AddNum
<1> QED
  BY <1>4, <1>6, <1>7 DEF b, m, Pos

\* Within half of the sequence space serial-number comparison is that of positions.
LEMMA PosLt ==
  ASSUME StreamSizes, NEW e \in Ends, NEW q \in SeqNums, NEW r \in SeqNums, Pos(e, q) < Half, Pos(e, r) < Half
  PROVE  /\ SeqLt(q, r) <=> Pos(e, q) < Pos(e, r)
         /\ SeqLe(q, r) <=> Pos(e, q) <= Pos(e, r)
         /\ q = r <=> Pos(e, q) = Pos(e, r)
         /\ Pos(e, q) <= Pos(e, r) => Dist(q, r) = Pos(e, r) - Pos(e, q)
<1> DEFINE b == Iss[e][1]
           m == Pos(e, q)
           n == Pos(e, r)
           d == Dist(q, r)
<1>1. b \in Int /\ 0 <= b /\ b < SeqSpace
  BY BaseIs
<1>2. m \in Int /\ 0 <= m /\ m < SeqSpace /\ Add(b, m) = q /\ n \in Int /\ 0 <= n /\ n < SeqSpace /\ Add(b, n) = r
  BY PosIs
<1>3. m < Half /\ n < Half
  OBVIOUS
<1>q. q \in Int /\ 0 <= q /\ q < SeqSpace /\ r \in Int /\ 0 <= r /\ r < SeqSpace
  BY NumIs
<1> HIDE DEF b, m, n
<1>4. (m <= n => d = n - m) /\ (m > n => d = n - m + SeqSpace)
  BY <1>1, <1>2, DistOf
<1>5. (SeqLt(q, r) <=> 1 <= d /\ d <= Half) /\ (SeqLe(q, r) <=> 0 <= d /\ d <= Half)
  BY <1>q, SeqLtIs
<1>6. q = r <=> m = n
  BY <1>2 DEF m, n
<1> HIDE DEF d
<1>7. /\ SeqLt(q, r) <=> m < n
      /\ SeqLe(q, r) <=> m <= n
  BY <1>2, <1>3, <1>4, <1>5, Space
<1> QED
  BY <1>4, <1>6, <1>7 DEF m, n, d

\* Running totals.
LEMMA UptoIs ==
  ASSUME StreamSizes, NEW e \in Ends
  PROVE  /\ Len(Sends[e][1]) \in Nat /\ Sends[e][1] \in Seq(Nat \ {0})
         /\ Total(e) \in Nat /\ Total(e) + 4 <= Half
         /\ Upto(e)[0] = 0
         /\ \A n \in 0 .. Len(Sends[e][1]) : Upto(e)[n] \in Nat /\ Upto(e)[n] <= Total(e)
         /\ \A n \in 0 .. Len(Sends[e][1]) : n < Len(Sends[e][1]) => Upto(e)[n + 1] = Upto(e)[n] + Sends[e][1][n + 1]
<1>1. Upto(e) \in Totals(e) /\ AddsUp(e, Upto(e))
  BY DEF StreamSizes, Upto
<1>2. Sends[e][1] \in Seq(Nat \ {0}) /\ Len(Sends[e][1]) \in Nat
  BY Constants DEF StreamSizes
<1> DEFINE f == Upto(e)
           m == Len(Sends[e][1])
<1> HIDE DEF f, m
<1>3. f \in [0 .. m -> 0 .. (Half - 4)] /\ m \in Nat
  BY <1>1, <1>2 DEF f, m, Totals, Half
<1>4. f[0] = 0 /\ (\A n \in 1 .. m : f[n] = f[n - 1] + Sends[e][1][n]) /\ \A n \in 0 .. m : f[n] <= f[m]
  BY <1>1 DEF AddsUp, f, m
<1>5. \A n \in 0 .. m : f[n] \in Nat /\ f[n] + 4 <= Half
  BY <1>3, Space
<1>6. \A n \in 0 .. m : n < m => f[n + 1] = f[n] + Sends[e][1][n + 1]
  <2> SUFFICES ASSUME NEW n \in 0 .. m, n < m PROVE f[n + 1] = f[n] + Sends[e][1][n + 1]
    OBVIOUS
  <2>1. n + 1 \in 1 .. m /\ (n + 1) - 1 = n
    BY <1>3
  <2> QED
    BY <1>4, <2>1
<1>7. Total(e) = f[m] /\ m \in 0 .. m
  BY <1>3 DEF Total, f, m
<1> QED
  BY <1>2, <1>3, <1>4, <1>5, <1>6, <1>7 DEF f, m
-----------------------------------------------------------------------------
(***************************************************************************)
(* What a step of one end leaves of it all.                                *)
(***************************************************************************)
LEMMA StreamIs ==
  ASSUME NEW c \in Conns, NEW g \in Seq(Octets)
  PROVE  /\ Stream(c, g) \in Seq(Octets) /\ Len(Stream(c, g)) \in Nat
         /\ Taken(c, g) \in Nat
         /\ c.fin => Taken(c, g) = Len(Stream(c, g)) + 1
         /\ ~c.fin => Taken(c, g) = Len(Stream(c, g))
<1>1. c.ring \in Seq(Octets) /\ c.fin \in BOOLEAN
  BY DEF Conns, Rings
<1>2. g \o c.ring \in Seq(Octets)
  BY <1>1, ConcatProperties
<1>3. Stream(c, g) \in Seq(Octets) /\ Len(Stream(c, g)) \in Nat
  BY <1>2, LenProperties DEF Stream
<1> QED
  BY <1>1, <1>3 DEF Taken

\* Once the application closes it stays at that, and the fin keeps its number.
Going(pc, o, pc2, o2) == pc \in Closers => pc2 \in Closers /\ o2.fin = o.fin

LEMMA HonestKeeps ==
  ASSUME NEW e, NEW o, NEW o2, NEW pc, NEW pc2, NEW s, NEW port, Honest(e, o, pc, s, port), Going(pc, o, pc2, o2)
  PROVE  Honest(e, o2, pc2, s, port)
BY DEF Honest, Going

LEMMA SentKeeps ==
  ASSUME StreamSizes, NEW e \in Ends, NEW o, NEW o2, NEW pc, NEW pc2, NEW q \in Nets, NEW q2, NEW w \in Int, NEW w2 \in Int,
         Sent(e, o, pc, q, w), Going(pc, o, pc2, o2), From(q2, q), w <= w2
  PROVE  Sent(e, o2, pc2, q2, w2)
<1> SUFFICES ASSUME NEW j \in 1 .. Len(q2)
             PROVE  /\ Honest(e, o2, pc2, q2[j], q2[j].port)
                    /\ Acking(q2[j]) => 1 <= Pos(Peer(e), q2[j].ack) /\ Pos(Peer(e), q2[j].ack) <= 1 + w2
  BY DEF Sent
<1>1. PICK m \in 1 .. Len(q) : q2[j] = q[m]
  BY DEF From
<1>2. q[m] \in Segments
  BY ElementOfSeq DEF Nets
<1>3. q[m].ack \in SeqNums
  BY <1>2 DEF Segments
<1>4. Pos(Peer(e), q[m].ack) \in Int
  BY <1>3, PosIs, PeerIs
<1>5. Honest(e, o, pc, q[m], q[m].port) /\ (Acking(q[m]) => 1 <= Pos(Peer(e), q[m].ack) /\ Pos(Peer(e), q[m].ack) <= 1 + w)
  BY DEF Sent
<1>6. Honest(e, o2, pc2, q[m], q[m].port)
  BY <1>5, HonestKeeps
<1> DEFINE z == Pos(Peer(e), q[m].ack)
<1> HIDE DEF z
<1>7. Acking(q[m]) => 1 <= z /\ z <= 1 + w2
  BY <1>4, <1>5 DEF z
<1> QED
  BY <1>1, <1>6, <1>7 DEF z

\* The peer has more of the stream than before.
LEMMA MoreReceived ==
  ASSUME StreamSizes, NEW e \in Ends, NEW c \in Conns, NEW t, NEW o, NEW a \in Int, NEW r \in Int, NEW w \in Int, NEW r2 \in Int,
         NEW w2 \in Int, Sends2(e, c, t, o, a, r, w), r <= r2, w <= w2
  PROVE  Sends2(e, c, t, o, a, r2, w2)
<1>1. Pos(e, c.una) \in Int
  <2>1. c.una \in SeqNums
    BY DEF Conns
  <2> QED
    BY <2>1, PosIs
<1> DEFINE u == Pos(e, c.una)
           x == Pos(e, c.nxt)
<1>2. /\ a <= r /\ (t.pc \in Running \ {"done"} => u <= 1 + w)
      /\ AtStart(c, t, o, a, u, x, Iss[e][1]) /\ AtSend(e, t, o, a, u, x) /\ AtClose(e, c, t, o, u, x)
  BY DEF Sends2
<1> HIDE DEF u, x
<1>3. a <= r2 /\ (t.pc \in Running \ {"done"} => u <= 1 + w2)
  BY <1>1, <1>2 DEF u
<1> QED
  BY <1>2, <1>3 DEF Sends2, u, x

Others(e) ==
  LET p == Peer(e)
  IN /\ conn'[p] = conn[p] /\ got'[p] = got[p] /\ task'[p] = task[p] /\ op'[p] = op[p]
     /\ acked'[p] = acked[p] /\ opens'[p] = opens[p]

LEMMA StepRight ==
  ASSUME StreamSizes, Sane, Sane', Right, NEW e \in Ends, Others(e), From(net'[e], net[e]),
         Len(Stream(conn[e], got[e])) <= Len(Stream(conn'[e], got'[e])),
         Taken(conn[e], got[e]) <= Taken(conn'[e], got'[e]),
         Going(task[e].tx.pc, op[e], task'[e].tx.pc, op'[e]),
         Receives(e, conn'[e], got'[e], task'[e].tx.pc, opens'[e]),
         Finished(Peer(e), conn'[e], got'[e], op[Peer(e)], task[Peer(e)].tx.pc),
         Sends2(e, conn'[e], task'[e].tx, op'[e], acked'[e], Len(Stream(conn[Peer(e)], got[Peer(e)])),
                Taken(conn[Peer(e)], got[Peer(e)])),
         Asked(e, conn'[e], got'[e], task'[e], op'[e], opens'[e]),
         Sent(e, op'[e], task'[e].tx.pc, net'[Peer(e)], Taken(conn'[e], got'[e]))
  PROVE  Right'
<1> DEFINE p == Peer(e)
<1>1. p \in Ends /\ Peer(p) = e /\ Ends = {e, p}
  BY PeerIs
<1>2. Faithful(p)
  BY <1>1 DEF Right
<1>3. /\ conn'[p] = conn[p] /\ got'[p] = got[p] /\ task'[p] = task[p] /\ op'[p] = op[p]
      /\ acked'[p] = acked[p] /\ opens'[p] = opens[p]
  BY DEF Others
<1>4. /\ conn[p] \in Conns /\ got[p] \in Seq(Octets) /\ conn[e] \in Conns /\ got[e] \in Seq(Octets)
      /\ conn'[e] \in Conns /\ got'[e] \in Seq(Octets) /\ net[e] \in Nets /\ acked[p] \in Int
  BY <1>1 DEF Sane, Typed
<1>5. /\ Len(Stream(conn[e], got[e])) \in Int /\ Taken(conn[e], got[e]) \in Int
      /\ Len(Stream(conn'[e], got'[e])) \in Int /\ Taken(conn'[e], got'[e]) \in Int
      /\ Taken(conn[p], got[p]) \in Int
  <2>1. Len(Stream(conn[e], got[e])) \in Nat /\ Taken(conn[e], got[e]) \in Nat
    BY <1>4, StreamIs
  <2>2. Len(Stream(conn'[e], got'[e])) \in Nat /\ Taken(conn'[e], got'[e]) \in Nat
    BY <1>4, StreamIs
  <2>3. Taken(conn[p], got[p]) \in Nat
    BY <1>4, StreamIs
  <2> QED
    BY <2>1, <2>2, <2>3
<1> DEFINE r == Len(Stream(conn[e], got[e]))
           w == Taken(conn[e], got[e])
           r2 == Len(Stream(conn'[e], got'[e]))
           w2 == Taken(conn'[e], got'[e])
<1>6. r <= r2 /\ w <= w2
  OBVIOUS
<1>7. Receives(p, conn'[p], got'[p], task'[p].tx.pc, opens'[p])
  BY <1>2, <1>3 DEF Faithful
<1>8. Finished(e, conn'[p], got'[p], op'[e], task'[e].tx.pc)
  <2>1. Finished(e, conn[p], got[p], op[e], task[e].tx.pc)
    BY <1>1, <1>2 DEF Faithful
  <2>2. Finished(e, conn[p], got[p], op'[e], task'[e].tx.pc)
    BY <2>1 DEF Finished, Going
  <2> QED
    BY <1>3, <2>2
<1>9. Sends2(p, conn'[p], task'[p].tx, op'[p], acked'[p], r2, w2)
  <2>1. Sends2(p, conn[p], task[p].tx, op[p], acked[p], r, w)
    BY <1>1, <1>2 DEF Faithful
  <2> HIDE DEF r, w, r2, w2, p
  <2>2. r \in Int /\ w \in Int /\ r2 \in Int /\ w2 \in Int
    BY <1>5 DEF r, w, r2, w2
  <2>3. Sends2(p, conn[p], task[p].tx, op[p], acked[p], r2, w2)
    BY <1>1, <1>4, <1>6, <2>1, <2>2, MoreReceived
  <2> QED
    BY <1>3, <2>3
<1>10. Asked(p, conn'[p], got'[p], task'[p], op'[p], opens'[p])
  BY <1>2, <1>3 DEF Faithful
<1>11. Sent(p, op'[p], task'[p].tx.pc, net'[e], Taken(conn'[p], got'[p]))
  <2>1. Sent(p, op[p], task[p].tx.pc, net[e], Taken(conn[p], got[p]))
    BY <1>1, <1>2 DEF Faithful
  <2> DEFINE v == Taken(conn[p], got[p])
  <2>2. v \in Int /\ v <= v
    BY <1>5
  <2>3. Going(task[p].tx.pc, op[p], task[p].tx.pc, op[p])
    BY DEF Going
  <2> HIDE DEF v, p
  <2>4. Sent(p, op[p], task[p].tx.pc, net'[e], v)
    BY <1>1, <1>4, <2>1, <2>2, <2>3, SentKeeps DEF v
  <2> QED
    BY <1>3, <2>4 DEF v
<1>12. Faithful(p)'
  BY <1>1, <1>7, <1>8, <1>9, <1>10, <1>11 DEF Faithful
<1>13. Faithful(e)'
  BY <1>3 DEF Faithful
<1> QED
  BY <1>1, <1>12, <1>13 DEF Right

\* A step that sends nothing.
LEMMA QuietRight ==
  ASSUME StreamSizes, Sane, Sane', Right, NEW e \in Ends, Others(e), NetShrinks,
         Len(Stream(conn[e], got[e])) <= Len(Stream(conn'[e], got'[e])),
         Taken(conn[e], got[e]) <= Taken(conn'[e], got'[e]),
         Going(task[e].tx.pc, op[e], task'[e].tx.pc, op'[e]),
         Receives(e, conn'[e], got'[e], task'[e].tx.pc, opens'[e]),
         Finished(Peer(e), conn'[e], got'[e], op[Peer(e)], task[Peer(e)].tx.pc),
         Sends2(e, conn'[e], task'[e].tx, op'[e], acked'[e], Len(Stream(conn[Peer(e)], got[Peer(e)])),
                Taken(conn[Peer(e)], got[Peer(e)])),
         Asked(e, conn'[e], got'[e], task'[e], op'[e], opens'[e])
  PROVE  Right'
<1>1. Peer(e) \in Ends
  BY PeerIs
<1>2. From(net'[e], net[e]) /\ From(net'[Peer(e)], net[Peer(e)])
  BY <1>1 DEF NetShrinks
<1>3. net[Peer(e)] \in Nets
  BY <1>1 DEF Sane, Typed
<1> DEFINE w == Taken(conn[e], got[e])
           w2 == Taken(conn'[e], got'[e])
<1>4. w \in Int /\ w2 \in Int /\ w <= w2
  <2>1. conn[e] \in Conns /\ got[e] \in Seq(Octets) /\ conn'[e] \in Conns /\ got'[e] \in Seq(Octets)
    BY DEF Sane, Typed
  <2>2. Taken(conn[e], got[e]) \in Nat
    BY <2>1, StreamIs
  <2>3. Taken(conn'[e], got'[e]) \in Nat
    BY <2>1, StreamIs
  <2> QED
    BY <2>2, <2>3
<1>5. Sent(e, op[e], task[e].tx.pc, net[Peer(e)], w)
  BY DEF Right, Faithful
<1> HIDE DEF w, w2
<1>6. Sent(e, op'[e], task'[e].tx.pc, net'[Peer(e)], w2)
  BY <1>2, <1>3, <1>4, <1>5, SentKeeps
<1> QED
  BY <1>2, <1>6, StepRight DEF w2

\* What a call for a segment may say: k is the call, d the Conn and o the locals after the step.
CallFits(e, d, g, o, pc, k, n) ==
  k.kind = "segment" => /\ n >= 1 /\ Honest(e, o, pc, k, d.port)
                        /\ Acking(k) => Heard(e, d, g)

\* An end's application takes a step: its Conn is left as d, its task at t, its locals as o.
LEMMA TxRight ==
  ASSUME StreamSizes, Sane, Sane', Right, NEW e \in Ends, NEW d \in Conns, NEW t \in Txs, NEW o \in Ops,
         conn' = [conn EXCEPT ![e] = d], task'[e].tx = t, task'[e].in = task[e].in,
         task'[e].rx.call = task[e].rx.call, task'[Peer(e)] = task[Peer(e)],
         op' = [op EXCEPT ![e] = o], UNCHANGED <<net, got, opens>>, acked'[Peer(e)] = acked[Peer(e)],
         SameRcv(conn[e], d), d.port = conn[e].port,
         d.state \in {conn[e].state, "Closed"} \/ t.pc \in Running,
         t.pc \in Running => task[e].tx.pc \in Running \/ conn[e].state \in Linked,
         Going(task[e].tx.pc, op[e], t.pc, o),
         Sends2(e, d, t, o, acked'[e], Len(Stream(conn[Peer(e)], got[Peer(e)])), Taken(conn[Peer(e)], got[Peer(e)])),
         CallFits(e, d, got[e], o, t.pc, t.call, opens[e]), d.state \notin {"Listen", "SynSent"} \/ d.state = conn[e].state
  PROVE  Right'
<1> DEFINE c == conn[e]
           g == got[e]
           p == Peer(e)
<1>1. p \in Ends /\ p # e
  BY PeerIs
<1>2. conn'[e] = d /\ op'[e] = o /\ got'[e] = g /\ opens'[e] = opens[e] /\ conn'[p] = conn[p] /\ op'[p] = op[p]
  BY <1>1 DEF Sane, Typed
<1>3. Others(e)
  BY <1>1, <1>2 DEF Others
<1>4. Stream(d, g) = Stream(c, g) /\ Taken(d, g) = Taken(c, g) /\ (Heard(e, d, g) <=> Heard(e, c, g))
  BY DEF SameRcv, Stream, Taken, Heard
<1>5. c \in Conns /\ g \in Seq(Octets)
  BY DEF Sane, Typed
<1>6. /\ Len(Stream(c, g)) <= Len(Stream(conn'[e], got'[e]))
      /\ Taken(c, g) <= Taken(conn'[e], got'[e])
  <2>1. Len(Stream(c, g)) \in Nat /\ Taken(c, g) \in Nat
    BY <1>5, StreamIs
  <2> QED
    BY <1>2, <1>4, <2>1
<1>7. NetShrinks
  BY FromSame DEF NetShrinks, Sane, Typed
<1>8. Faithful(e)
  BY DEF Right
<1>9. Receives(e, d, g, t.pc, opens[e])
  <2>1. Receives(e, c, g, task[e].tx.pc, opens[e])
    BY <1>8 DEF Faithful
  <2>2. (d.state \in Linked \/ t.pc \in Running) => Heard(e, d, g)
    BY <1>4, <2>1 DEF Receives, Linked
  <2>3. (d.state \in {"Listen", "SynSent"} \/ opens[e] = 0) => Stream(d, g) = <<>> /\ ~d.fin
    BY <1>4, <2>1 DEF Receives, SameRcv
  <2> QED
    BY <1>4, <2>1, <2>2, <2>3 DEF Receives
<1>10. Finished(p, d, g, op[p], task[p].tx.pc)
  BY <1>4, <1>8 DEF Faithful, Finished, SameRcv
<1>11. Asked(e, d, g, task'[e], o, opens[e])
  <2>1. Asked(e, c, g, task[e], op[e], opens[e])
    BY <1>8 DEF Faithful
  <2>2. ASSUME NEW k,
               k.kind = "segment" =>
                 opens[e] >= 1 /\ Honest(e, op[e], task[e].tx.pc, k, c.port) /\ (Acking(k) => Heard(e, c, g))
        PROVE  k.kind = "segment" => opens[e] >= 1 /\ Honest(e, o, t.pc, k, d.port) /\ (Acking(k) => Heard(e, d, g))
    BY <1>4, <2>2, HonestKeeps
  <2>3. CallFits(e, d, g, o, t.pc, task'[e].tx.call, opens[e])
    OBVIOUS
  <2>4. CallFits(e, d, g, o, t.pc, task'[e].in.call, opens[e])
    BY <2>1, <2>2 DEF Asked, Tasks, CallFits
  <2>5. CallFits(e, d, g, o, t.pc, task'[e].rx.call, opens[e])
    BY <2>1, <2>2 DEF Asked, Tasks, CallFits
  <2> QED
    BY <2>3, <2>4, <2>5 DEF Asked, Tasks, CallFits
<1> QED
  BY <1>2, <1>3, <1>6, <1>7, <1>9, <1>10, <1>11, QuietRight

LEMMA SetRight ==
  ASSUME StreamSizes, Sane, Sane', Right, NEW e \in Ends, NEW d \in Conns, NEW t \in Txs, NEW o \in Ops,
         Set(e, d, t, o), UNCHANGED <<net, got, opens>>, acked'[Peer(e)] = acked[Peer(e)],
         SameRcv(conn[e], d), d.port = conn[e].port,
         d.state \in {conn[e].state, "Closed"} \/ t.pc \in Running,
         t.pc \in Running => task[e].tx.pc \in Running \/ conn[e].state \in Linked,
         Going(task[e].tx.pc, op[e], t.pc, o),
         Sends2(e, d, t, o, acked'[e], Len(Stream(conn[Peer(e)], got[Peer(e)])), Taken(conn[Peer(e)], got[Peer(e)])),
         CallFits(e, d, got[e], o, t.pc, t.call, opens[e]), d.state \notin {"Listen", "SynSent"} \/ d.state = conn[e].state
  PROVE  Right'
<1>1. conn' = [conn EXCEPT ![e] = d] /\ task' = [task EXCEPT ![e].tx = t] /\ op' = [op EXCEPT ![e] = o]
  BY DEF Set
<1>2. task'[e].tx = t /\ task'[e].in = task[e].in /\ task'[e].rx = task[e].rx /\ \A y \in Ends \ {e} : task'[y] = task[y]
  <2>1. Typed
    BY DEF Sane
  <2> QED
    BY <1>1, <2>1, TxSet
<1>3. task'[Peer(e)] = task[Peer(e)]
  BY <1>2, PeerIs
<1> QED
  BY <1>1, <1>2, <1>3, TxRight

\* What the ends know of each other: r octets, w numbers after the syn are with e's peer.
There(e)  == Len(Stream(conn[Peer(e)], got[Peer(e)]))
There2(e) == Taken(conn[Peer(e)], got[Peer(e)])

LEMMA ThereIs ==
  ASSUME StreamSizes, Sane, Right, NEW e \in Ends
  PROVE  /\ There(e) \in Nat /\ There2(e) \in Nat /\ There(e) <= Total(e) /\ Total(e) \in Nat /\ Total(e) + 4 <= Half
         /\ There(e) <= There2(e) /\ There2(e) <= There(e) + 1
         /\ task[e].tx.pc \notin Closers => There2(e) = There(e)
<1> DEFINE p == Peer(e)
<1>1. p \in Ends /\ Peer(p) = e
  BY PeerIs
<1>2. conn[p] \in Conns /\ got[p] \in Seq(Octets)
  BY <1>1 DEF Sane, Typed
<1>3. conn[p].fin \in BOOLEAN
  BY <1>2 DEF Conns
<1>4. /\ Len(Stream(conn[p], got[p])) \in Nat /\ Taken(conn[p], got[p]) \in Nat
      /\ conn[p].fin => Taken(conn[p], got[p]) = Len(Stream(conn[p], got[p])) + 1
      /\ ~conn[p].fin => Taken(conn[p], got[p]) = Len(Stream(conn[p], got[p]))
  BY <1>2, StreamIs
<1>5. Faithful(p)
  BY <1>1 DEF Right
<1>6. Len(Stream(conn[p], got[p])) <= Total(e)
  BY <1>1, <1>5 DEF Faithful, Receives
<1>7. conn[p].fin => task[e].tx.pc \in Closers
  BY <1>1, <1>5 DEF Faithful, Finished
<1>8. Total(e) \in Nat /\ Total(e) + 4 <= Half
  BY UptoIs
<1> DEFINE r == There(e)
           w == There2(e)
<1>9. r \in Nat /\ w \in Nat /\ r <= Total(e) /\ (conn[p].fin => w = r + 1) /\ (~conn[p].fin => w = r)
  BY <1>4, <1>6 DEF There, There2
<1> HIDE DEF r, w
<1>10. r <= w /\ w <= r + 1 /\ (task[e].tx.pc \notin Closers => w = r)
  BY <1>3, <1>7, <1>9
<1> QED
  BY <1>8, <1>9, <1>10 DEF r, w

\* The sending side of an end, in positions.
LEMMA SendsIs ==
  ASSUME StreamSizes, Sane, Right, NEW e \in Ends
  PROVE  LET u == Pos(e, conn[e].una)
             x == Pos(e, conn[e].nxt)
             t == task[e].tx
             c == conn[e]
             o == op[e]
         IN /\ u \in Int /\ 0 <= u /\ u < SeqSpace /\ x \in Int /\ 0 <= x /\ x < SeqSpace
            /\ acked[e] \in Nat /\ acked[e] <= There(e)
            /\ t.pc \in Running \ {"done"} => u <= 1 + There2(e)
            /\ AtStart(c, t, o, acked[e], u, x, Iss[e][1])
            /\ AtSend(e, t, o, acked[e], u, x)
            /\ AtClose(e, c, t, o, u, x)
<1>1. conn[e] \in Conns /\ acked[e] \in Nat
  BY DEF Sane, Typed
<1>2. conn[e].una \in SeqNums /\ conn[e].nxt \in SeqNums
  BY <1>1 DEF Conns
<1>3. Sends2(e, conn[e], task[e].tx, op[e], acked[e], There(e), There2(e))
  BY DEF Right, Faithful, There, There2
<1>4. Pos(e, conn[e].una) \in Int /\ 0 <= Pos(e, conn[e].una) /\ Pos(e, conn[e].una) < SeqSpace
  BY <1>2, PosIs
<1>5. Pos(e, conn[e].nxt) \in Int /\ 0 <= Pos(e, conn[e].nxt) /\ Pos(e, conn[e].nxt) < SeqSpace
  BY <1>2, PosIs
<1>6. /\ acked[e] <= There(e)
      /\ task[e].tx.pc \in Running \ {"done"} => Pos(e, conn[e].una) <= 1 + There2(e)
      /\ AtStart(conn[e], task[e].tx, op[e], acked[e], Pos(e, conn[e].una), Pos(e, conn[e].nxt), Iss[e][1])
      /\ AtSend(e, task[e].tx, op[e], acked[e], Pos(e, conn[e].una), Pos(e, conn[e].nxt))
      /\ AtClose(e, conn[e], task[e].tx, op[e], Pos(e, conn[e].una), Pos(e, conn[e].nxt))
  BY <1>3 DEF Sends2
<1> QED
  BY <1>1, <1>4, <1>5, <1>6

\* Nothing is sent from there.
LEMMA NoCallFits ==
  ASSUME NEW e, NEW d, NEW g, NEW o, NEW pc, NEW n
  PROVE  CallFits(e, d, g, o, pc, NoCall, n)
BY DEF CallFits, NoCall

LEMMA ClosedSends ==
  ASSUME NEW e, NEW d, NEW t, NEW o, NEW a, NEW r, NEW w, a <= r, t.pc \in {"closed", "ended"}, d.state = "Closed"
  PROVE  Sends2(e, d, t, o, a, r, w)
BY DEF Sends2, AtStart, AtSend, AtClose, Running, Leaving

(* ---- connect() and accept() ---- *)
LEMMA ConnectSentRight ==
  ASSUME StreamSizes, Sane, Sane', Right, ConnectSent
  PROVE  Right'
<1> DEFINE e == "client"
           c == conn[e]
           u == Pos(e, c.una)
           x == Pos(e, c.nxt)
<1>1. e \in Ends
  BY DEF Ends
<1>2. PICK d \in Conns, t \in Txs :
        /\ ConnectSentDone(c, d, t) /\ Set(e, d, t, op[e])
        /\ UNCHANGED <<net, got, acked, opens, fails, faults>>
  BY ConnectSentDoes
<1>3. task[e].tx.pc = "connect" /\ op[e] \in Ops /\ c \in Conns
  BY <1>1 DEF ConnectSent, Returned, Sane, Typed
<1>4. /\ acked[e] <= There(e)
      /\ AtStart(c, task[e].tx, op[e], acked[e], u, x, Iss[e][1])
  BY <1>1, SendsIs
<1>5. Going("connect", op[e], t.pc, op[e])
  BY DEF Going, Closers
<1>6. CASE Keeps(c, d) /\ SameSnd(c, d) /\ t = At("connect", "wait")
  <2>1. t.pc = "connect" /\ t.phase = "wait" /\ t.call = NoCall
    BY <1>6, AtIs DEF TxPcs
  <2>2. d.state = c.state /\ d.port = c.port /\ SameRcv(c, d) /\ Pos(e, d.una) = u /\ Pos(e, d.nxt) = x
    BY <1>6 DEF Keeps, SameWho, SameSnd
  <2> HIDE DEF e
  <2>3. AtStart(d, t, op[e], acked[e], u, x, Iss[e][1])
    BY <1>3, <1>4, <2>1, <2>2 DEF AtStart
  <2>4. AtSend(e, t, op[e], acked[e], u, x) /\ AtClose(e, d, t, op[e], u, x)
    <3>1. d.state \notin {"FinWait1", "Closing", "LastAck"}
      BY <1>1, <1>3, <2>2 DEF Sane, Fine, Stages, Reached
    <3> QED
      BY <2>1, <3>1 DEF AtSend, AtClose, Leaving
  <2>5. Sends2(e, d, t, op[e], acked[e], There(e), There2(e))
    BY <1>4, <2>1, <2>2, <2>3, <2>4 DEF Sends2, Running
  <2>6. CallFits(e, d, got[e], op[e], t.pc, t.call, opens[e])
    BY <2>1, NoCallFits
  <2>7. t.pc \notin Running /\ Going(task[e].tx.pc, op[e], t.pc, op[e])
    BY <1>3, <1>5, <2>1 DEF Running
  <2> QED
    BY <1>1, <1>2, <1>3, <2>2, <2>5, <2>6, <2>7, SetRight DEF There, There2
<1>7. CASE d = Unbind(c) /\ t = At("closed", "run")
  <2>1. t.pc = "closed" /\ t.phase = "run" /\ t.call = NoCall
    BY <1>7, AtIs DEF TxPcs
  <2>2. d.state = "Closed" /\ d.port = c.port /\ SameRcv(c, d)
    BY <1>3, <1>7, UnbindIs
  <2> HIDE DEF e
  <2>5. Sends2(e, d, t, op[e], acked[e], There(e), There2(e))
    BY <1>4, <2>1, <2>2, ClosedSends
  <2>6. CallFits(e, d, got[e], op[e], t.pc, t.call, opens[e])
    BY <2>1, NoCallFits
  <2>7. t.pc \notin Running /\ Going(task[e].tx.pc, op[e], t.pc, op[e])
    BY <1>3, <1>5, <2>1 DEF Running
  <2> QED
    BY <1>1, <1>2, <1>3, <2>2, <2>5, <2>6, <2>7, SetRight DEF There, There2
<1> QED
  BY <1>2, <1>6, <1>7 DEF ConnectSentDone

\* The opening goes on.
LEMMA StartSends ==
  ASSUME StreamSizes, Sane, Right, NEW e \in Ends, NEW d, NEW t, NEW o, Keeps(conn[e], d), SameSnd(conn[e], d),
         task[e].tx.pc \in {"connect", "accept"}, t.pc = task[e].tx.pc, o.base = op[e].base
  PROVE  Sends2(e, d, t, o, acked[e], There(e), There2(e))
<1> DEFINE u == Pos(e, conn[e].una)
           x == Pos(e, conn[e].nxt)
<1>1. acked[e] <= There(e) /\ AtStart(conn[e], task[e].tx, op[e], acked[e], u, x, Iss[e][1])
  BY SendsIs
<1>2. d.state = conn[e].state /\ Pos(e, d.una) = u /\ Pos(e, d.nxt) = x
  BY DEF Keeps, SameWho, SameSnd
<1>3. AtStart(d, t, o, acked[e], u, x, Iss[e][1])
  BY <1>1, <1>2 DEF AtStart
<1>4. d.state \notin {"FinWait1", "Closing", "LastAck"}
  BY <1>2 DEF Sane, Fine, Stages, Reached
<1>5. AtSend(e, t, o, acked[e], u, x) /\ AtClose(e, d, t, o, u, x)
  BY <1>4 DEF AtSend, AtClose, Leaving
<1>6. t.pc \notin Running \ {"done"}
  BY DEF Running
<1> QED
  BY <1>1, <1>2, <1>3, <1>5, <1>6 DEF Sends2

LEMMA ReadyRight ==
  ASSUME StreamSizes, Sane, Sane', Right, NEW e \in Ends, NEW c \in Conns, Keeps(conn[e], c), SameSnd(conn[e], c),
         conn[e].state \in {"Established", "CloseWait"},
         task[e].tx.pc \in {"connect", "accept"}, conn' = [conn EXCEPT ![e] = c],
         task' = [task EXCEPT ![e].tx = At("ready", "run"), ![e].rx = At("recv", "run")],
         UNCHANGED <<op, net, got, acked, opens>>
  PROVE  Right'
<1> DEFINE t == At("ready", "run")
           x == At("recv", "run")
           k == task[e]
<1>1. k \in Teams /\ Fine(e, conn[e], k, op[e], opens[e]) /\ opens[e] \in 0 .. MaxOpens /\ op[e] \in Ops
  BY TxSane
<1>2. t \in Txs /\ t.pc = "ready" /\ t.phase = "run" /\ t.call = NoCall
  BY AtIs DEF TxPcs
<1>3. x \in Rxs /\ x.pc = "recv" /\ x.phase = "run" /\ x.call = NoCall
  BY DEF At, Rxs, Calls
<1>4. task' = [task EXCEPT ![e].tx = t, ![e].rx = x]
  OBVIOUS
<1>5. k.rx.call = NoCall /\ op[e].sends = 0
  BY <1>1 DEF Fine, Phases, Stages, Counts
<1> HIDE DEF t, x
<1>6. task'[e].in = k.in /\ task'[e].tx = t /\ task'[e].rx = x /\ \A y \in Ends \ {e} : task'[y] = task[y]
  <2> DEFINE v == [k EXCEPT !.tx = t, !.rx = x]
  <2>1. v.in = k.in /\ v.tx = t /\ v.rx = x
    BY <1>1, <1>2, <1>3 DEF Teams
  <2>2. task' = [task EXCEPT ![e] = v]
    BY <1>4 DEF Sane, Typed
  <2> HIDE DEF v
  <2> QED
    BY <2>1, <2>2 DEF Sane, Typed
<1>7. task'[Peer(e)] = task[Peer(e)]
  BY <1>6, PeerIs
<1>8. op' = [op EXCEPT ![e] = op[e]]
  BY DEF Sane, Typed
<1> DEFINE u == Pos(e, conn[e].una)
           y == Pos(e, conn[e].nxt)
<1>9. /\ acked[e] <= There(e) /\ u = 1 /\ y = 1 /\ acked[e] = 0
  <2>1. acked[e] <= There(e) /\ AtStart(conn[e], k.tx, op[e], acked[e], u, y, Iss[e][1])
    BY SendsIs
  <2> QED
    BY <2>1 DEF AtStart
<1>10. c.state = conn[e].state /\ c.port = conn[e].port /\ SameRcv(conn[e], c) /\ Pos(e, c.una) = u /\ Pos(e, c.nxt) = y
  BY DEF Keeps, SameWho, SameSnd
<1>11. There2(e) \in Nat
  BY ThereIs
<1> HIDE DEF u, y
<1>12. Upto(e)[op[e].sends] = 0
  BY <1>5, UptoIs
<1>13. Sends2(e, c, t, op[e], acked'[e], There(e), There2(e))
  <2>1. acked'[e] = 0
    BY <1>9
  <2>2. AtStart(c, t, op[e], 0, u, y, Iss[e][1])
    BY <1>2 DEF AtStart
  <2>3. AtSend(e, t, op[e], 0, u, y)
    BY <1>2, <1>9, <1>12 DEF AtSend
  <2>4. AtClose(e, c, t, op[e], u, y)
    BY <1>2, <1>10 DEF AtClose, Leaving
  <2>5. 0 <= There(e) /\ u <= 1 + There2(e)
    BY <1>9, <1>11
  <2> QED
    BY <1>10, <2>1, <2>2, <2>3, <2>4, <2>5 DEF Sends2
<1>14. CallFits(e, c, got[e], op[e], t.pc, t.call, opens[e])
  BY <1>2, NoCallFits
<1>15. Going(k.tx.pc, op[e], t.pc, op[e])
  BY DEF Going, Closers
<1>16. conn[e].state \in Linked
  BY DEF Linked, States
<1>17. /\ task'[e].tx = t /\ task'[e].in = task[e].in /\ task'[e].rx.call = task[e].rx.call
       /\ UNCHANGED <<net, got, opens>> /\ acked'[Peer(e)] = acked[Peer(e)]
       /\ c.state \in {conn[e].state, "Closed"} /\ c.state \notin {"Listen", "SynSent"}
  BY <1>3, <1>5, <1>6, <1>10
<1>18. Sends2(e, c, t, op[e], acked'[e], Len(Stream(conn[Peer(e)], got[Peer(e)])), Taken(conn[Peer(e)], got[Peer(e)]))
  BY <1>13 DEF There, There2
<1>19. t \in Txs /\ op[e] \in Ops /\ c.port = conn[e].port /\ SameRcv(conn[e], c)
  BY <1>1, <1>2, <1>10
<1> QED
  BY <1>7, <1>8, <1>14, <1>15, <1>16, <1>17, <1>18, <1>19, TxRight

LEMMA ConnectWakeRight ==
  ASSUME StreamSizes, Sane, Sane', Right, ConnectWake
  PROVE  Right'
<1> DEFINE e == "client"
           c == Resumed(e)
           k == task[e]
           q == Call({"S"}, op[e].base, <<>>)
           o == [op[e] EXCEPT !.tries = @ + 1]
           closed == At("closed", "run")
<1>0. e \in Ends
  BY DEF Ends
<1>1. /\ conn[e] \in Conns /\ k \in Teams /\ op[e] \in Ops /\ Fine(e, conn[e], k, op[e], opens[e])
      /\ opens[e] \in 0 .. MaxOpens
  BY <1>0, TxSane
<1>2. k.tx.pc = "connect" /\ UNCHANGED <<net, got, acked, opens, fails>>
  BY DEF ConnectWake, Stay, Woken, TimedOut, Waiting
<1>3. opens[e] >= 1 /\ conn[e].state \in {"SynSent", "Established", "CloseWait", "Closed"}
  BY <1>1, <1>2 DEF Fine, Stages, Counts, Reached
<1>4. c \in Conns /\ Keeps(conn[e], c) /\ SameSnd(conn[e], c) /\ c.state = conn[e].state /\ c.port = conn[e].port
      /\ SameRcv(conn[e], c)
  BY <1>1, ResumedIs DEF Keeps, SameWho
<1>6. closed \in Txs /\ closed.pc = "closed" /\ closed.phase = "run" /\ closed.call = NoCall
  BY AtIs DEF TxPcs
<1>7. \/ /\ c.state = "Established"
         /\ task' = [task EXCEPT ![e].tx = At("ready", "run"), ![e].rx = At("recv", "run")]
         /\ conn' = [conn EXCEPT ![e] = c]
         /\ UNCHANGED op
      \/ c.state = "Closed" /\ Set(e, c, closed, op[e])
      \/ c.state \notin {"Established", "Closed"} /\ Set(e, c, Sending("connect", q), o)
      \/ Set(e, Unbind(c), closed, op[e])
  BY DEF ConnectWake
<1> HIDE DEF c, e, closed
<1>a. acked[e] <= There(e) /\ acked'[Peer(e)] = acked[Peer(e)] /\ acked'[e] = acked[e]
  BY <1>0, <1>2, SendsIs
<1>b. "closed" \notin Running /\ "connect" \notin Running
  BY DEF Running
<1>c. \A pc \in TxPcs, o2 \in Ops : Going(k.tx.pc, op[e], pc, o2)
  BY <1>2 DEF Going, Closers
<1>8. CASE /\ c.state = "Established"
           /\ task' = [task EXCEPT ![e].tx = At("ready", "run"), ![e].rx = At("recv", "run")]
           /\ conn' = [conn EXCEPT ![e] = c]
           /\ UNCHANGED op
  BY <1>0, <1>2, <1>4, <1>8, ReadyRight
<1>9. CASE c.state = "Closed" /\ Set(e, c, closed, op[e])
  <2>1. Sends2(e, c, closed, op[e], acked'[e], There(e), There2(e))
    BY <1>6, <1>9, <1>a, ClosedSends
  <2>2. CallFits(e, c, got[e], op[e], closed.pc, closed.call, opens[e])
    BY <1>6, NoCallFits
  <2>3. Going(k.tx.pc, op[e], closed.pc, op[e])
    BY <1>1, <1>6, <1>c DEF TxPcs
  <2> QED
    BY <1>0, <1>1, <1>2, <1>4, <1>6, <1>9, <1>a, <1>b, <2>1, <2>2, <2>3, SetRight DEF There, There2
<1>10. CASE c.state \notin {"Established", "Closed"} /\ Set(e, c, Sending("connect", q), o)
  <2>1. op[e].base \in SeqNums /\ o \in Ops /\ o.base = op[e].base
    BY <1>1 DEF Ops
  <2>2. q \in Calls /\ q # NoCall /\ q.flags = {"S"} /\ q.seq = op[e].base /\ q.data = <<>>
    <3>1. q \in Calls /\ q # NoCall
      BY <2>1, ControlCalls
    <3> QED
      BY <3>1 DEF Call
  <2> HIDE DEF q, o
  <2> DEFINE t == Sending("connect", q)
  <2>3. t \in Txs /\ t.pc = "connect" /\ t.phase = "call" /\ t.call = q
    BY <2>2, SendingIs DEF TxPcs
  <2> HIDE DEF t
  <2>4. Sends2(e, c, t, o, acked'[e], There(e), There2(e))
    BY <1>0, <1>2, <1>4, <1>a, <2>1, <2>3, StartSends
  <2>5. CallFits(e, c, got[e], o, t.pc, t.call, opens[e])
    <3>1. op[e].base = Iss[e][1]
      BY <1>0, <1>2, SendsIs DEF AtStart
    <3> QED
      BY <1>3, <2>2, <2>3, <3>1 DEF CallFits, Honest, Acking
  <2>6. Going(k.tx.pc, op[e], t.pc, o)
    BY <1>c, <2>1, <2>3 DEF TxPcs
  <2>7. Set(e, c, t, o)
    BY <1>10 DEF t
  <2> QED
    BY <1>0, <1>2, <1>4, <1>a, <1>b, <2>1, <2>3, <2>4, <2>5, <2>6, <2>7, SetRight DEF There, There2
<1>11. CASE Set(e, Unbind(c), closed, op[e])
  <2>1. Unbind(c) \in Conns /\ Unbind(c).state = "Closed" /\ Unbind(c).port = c.port /\ SameRcv(c, Unbind(c))
    BY <1>4, UnbindIs
  <2> DEFINE d == Unbind(c)
  <2> HIDE DEF d
  <2>2. d \in Conns /\ d.state = "Closed" /\ d.port = conn[e].port /\ SameRcv(conn[e], d)
    BY <1>4, <2>1 DEF d, SameRcv
  <2>3. Sends2(e, d, closed, op[e], acked'[e], There(e), There2(e))
    BY <1>6, <1>a, <2>2, ClosedSends
  <2>4. CallFits(e, d, got[e], op[e], closed.pc, closed.call, opens[e])
    BY <1>6, NoCallFits
  <2>5. Going(k.tx.pc, op[e], closed.pc, op[e])
    BY <1>1, <1>6, <1>c DEF TxPcs
  <2>6. Set(e, d, closed, op[e])
    BY <1>11 DEF d
  <2> QED
    BY <1>0, <1>1, <1>2, <1>6, <1>a, <1>b, <2>2, <2>3, <2>4, <2>5, <2>6, SetRight DEF There, There2
<1> QED
  BY <1>7, <1>8, <1>9, <1>10, <1>11

LEMMA AcceptRight ==
  ASSUME StreamSizes, Sane, Sane', Right, Accept
  PROVE  Right'
<1> DEFINE e == "server"
           c == Resumed(e)
           k == task[e]
           w == [c EXCEPT !.tx = Await(@)]
           wait == At("accept", "wait")
           ended == At("ended", "idle")
<1>0. e \in Ends
  BY DEF Ends
<1>1. /\ conn[e] \in Conns /\ k \in Teams /\ op[e] \in Ops /\ Fine(e, conn[e], k, op[e], opens[e])
  BY <1>0, TxSane
<1>2. k.tx.pc = "accept" /\ UNCHANGED <<net, got, acked, opens, fails>>
  BY DEF Accept, Stay
<1>3. conn[e].state \in Reached("accept")
  BY <1>1, <1>2 DEF Fine, Stages
<1>4. c \in Conns /\ Keeps(conn[e], c) /\ SameSnd(conn[e], c) /\ c.state = conn[e].state /\ c.port = conn[e].port
      /\ SameRcv(conn[e], c)
  BY <1>1, ResumedIs DEF Keeps, SameWho
<1>6. /\ wait \in Txs /\ wait.pc = "accept" /\ wait.phase = "wait" /\ wait.call = NoCall
      /\ ended \in Txs /\ ended.pc = "ended" /\ ended.phase = "idle" /\ ended.call = NoCall
  BY AtIs DEF TxPcs
<1>7. \/ c.state \in {"Listen", "SynReceived"} /\ Set(e, w, wait, op[e])
      \/ c.state = "Closed" /\ Set(e, c, ended, op[e])
      \/ /\ c.state \notin {"Listen", "SynReceived", "Closed"}
         /\ task' = [task EXCEPT ![e].tx = At("ready", "run"), ![e].rx = At("recv", "run")]
         /\ conn' = [conn EXCEPT ![e] = c]
         /\ UNCHANGED op
  BY DEF Accept, WaitTx
<1> HIDE DEF c, e, wait, ended
<1>a. acked[e] <= There(e) /\ acked'[Peer(e)] = acked[Peer(e)] /\ acked'[e] = acked[e]
  BY <1>0, <1>2, SendsIs
<1>b. "ended" \notin Running /\ "accept" \notin Running
  BY DEF Running
<1>c. Going(k.tx.pc, op[e], wait.pc, op[e]) /\ Going(k.tx.pc, op[e], ended.pc, op[e])
  BY <1>2 DEF Going, Closers
<1>8. CASE c.state \in {"Listen", "SynReceived"} /\ Set(e, w, wait, op[e])
  <2>1. w \in Conns /\ Keeps(c, w) /\ SameSnd(c, w)
    BY <1>4, AwaitIs
  <2> HIDE DEF w
  <2>2. Keeps(conn[e], w) /\ SameSnd(conn[e], w) /\ w.state = conn[e].state /\ w.port = conn[e].port /\ SameRcv(conn[e], w)
    <3>1. Keeps(conn[e], w)
      BY <1>4, <2>1, KeepsKeeps
    <3>2. SameSnd(conn[e], w)
      BY <1>4, <2>1, SndSnd
    <3> QED
      BY <3>1, <3>2 DEF Keeps, SameWho
  <2>3. Sends2(e, w, wait, op[e], acked'[e], There(e), There2(e))
    BY <1>0, <1>2, <1>6, <1>a, <2>2, StartSends
  <2>4. CallFits(e, w, got[e], op[e], wait.pc, wait.call, opens[e])
    BY <1>6, NoCallFits
  <2> QED
    BY <1>0, <1>1, <1>2, <1>6, <1>8, <1>a, <1>b, <1>c, <2>1, <2>2, <2>3, <2>4, SetRight DEF There, There2
<1>9. CASE c.state = "Closed" /\ Set(e, c, ended, op[e])
  <2>1. Sends2(e, c, ended, op[e], acked'[e], There(e), There2(e))
    BY <1>6, <1>9, <1>a, ClosedSends
  <2>2. CallFits(e, c, got[e], op[e], ended.pc, ended.call, opens[e])
    BY <1>6, NoCallFits
  <2> QED
    BY <1>0, <1>1, <1>2, <1>4, <1>6, <1>9, <1>a, <1>b, <1>c, <2>1, <2>2, SetRight DEF There, There2
<1>10. CASE /\ c.state \notin {"Listen", "SynReceived", "Closed"}
            /\ task' = [task EXCEPT ![e].tx = At("ready", "run"), ![e].rx = At("recv", "run")]
            /\ conn' = [conn EXCEPT ![e] = c]
            /\ UNCHANGED op
  <2>1. conn[e].state \in {"Established", "CloseWait"}
    BY <1>3, <1>4, <1>10 DEF Reached
  <2> QED
    BY <1>0, <1>2, <1>4, <1>10, <2>1, ReadyRight
<1> QED
  BY <1>7, <1>8, <1>9, <1>10

\* An end opens its connection.
LEMMA OpenRight ==
  ASSUME StreamSizes, Sane, Sane', Right, NEW e \in Ends, MayOpen(e), NEW d \in Conns, NEW t \in Txs, NEW o \in Ops,
         Set(e, d, t, o), opens' = [opens EXCEPT ![e] = @ + 1], got' = [got EXCEPT ![e] = <<>>],
         acked' = [acked EXCEPT ![e] = 0], UNCHANGED net, d.ring = <<>>, ~d.fin, d.state \in {"SynSent", "Listen"},
         d.state = "SynSent" => Pos(e, d.una) = 0 /\ Pos(e, d.nxt) = 1,
         (t.pc = "connect" /\ o.base = Iss[e][1]) \/ t.pc = "accept",
         t.call.kind = "segment" => Honest(e, o, t.pc, t.call, d.port) /\ ~Acking(t.call)
  PROVE  Right'
<1> DEFINE c == conn[e]
           g == got[e]
           k == task[e]
           p == Peer(e)
<1>1. p \in Ends /\ p # e
  BY PeerIs
<1>2. Typed /\ c \in Conns /\ g \in Seq(Octets) /\ k \in Teams /\ Fine(e, c, k, op[e], opens[e])
  BY DEF Sane, Typed
<1>3. opens[e] = 0 /\ opens'[e] = 1
  BY Constants DEF Sane, Typed, MayOpen, StreamSizes
<1>4. k.tx.pc = "closed" /\ k.rx.call = NoCall /\ k.tx.call = NoCall
  <2>1. k.tx.pc = "closed"
    BY <1>2, <1>3 DEF MayOpen, Fine, Counts
  <2>2. k.rx.pc # "recv"
    BY DEF MayOpen
  <2> QED
    BY <1>2, <2>1, <2>2 DEF Fine, Phases
<1>5. Faithful(e)
  BY DEF Right
<1>6. Stream(c, g) = <<>> /\ ~c.fin
  BY <1>3, <1>5 DEF Faithful, Receives
<1>7. conn' = [conn EXCEPT ![e] = d] /\ task' = [task EXCEPT ![e].tx = t] /\ op' = [op EXCEPT ![e] = o]
  BY DEF Set
<1>8. task'[e].tx = t /\ task'[e].in = k.in /\ task'[e].rx = k.rx /\ \A y \in Ends \ {e} : task'[y] = task[y]
  BY <1>2, <1>7, TxSet
<1>9. /\ conn'[e] = d /\ op'[e] = o /\ got'[e] = <<>> /\ acked'[e] = 0
      /\ conn'[p] = conn[p] /\ op'[p] = op[p] /\ task'[p] = task[p] /\ got'[p] = got[p] /\ acked'[p] = acked[p]
      /\ opens'[p] = opens[p]
  BY <1>1, <1>7, <1>8 DEF Sane, Typed
<1>10. Others(e)
  BY <1>9 DEF Others
<1>11. Stream(d, <<>>) = <<>>
  BY ConcatProperties DEF Stream
<1>12. /\ Len(Stream(c, g)) <= Len(Stream(conn'[e], got'[e]))
       /\ Taken(c, g) <= Taken(conn'[e], got'[e])
  BY <1>6, <1>9, <1>11 DEF Taken
<1>13. NetShrinks
  BY FromSame DEF NetShrinks, Sane, Typed
<1>14. Going(k.tx.pc, op[e], t.pc, o)
  BY <1>4 DEF Going, Closers
<1>15. Receives(e, d, <<>>, t.pc, 1)
  <2>1. Total(p) \in Nat
    BY <1>1, UptoIs
  <2>2. d.state \notin Linked /\ t.pc \notin Running
    BY DEF Linked, Running
  <2> QED
    BY <1>11, <2>1, <2>2 DEF Receives
<1>16. Finished(p, d, <<>>, op[p], task[p].tx.pc)
  BY DEF Finished
<1>17. Sends2(e, d, t, o, 0, There(e), There2(e))
  <2> DEFINE u == Pos(e, d.una)
             x == Pos(e, d.nxt)
  <2>1. 0 <= There(e)
    BY ThereIs
  <2>2. AtStart(d, t, o, 0, u, x, Iss[e][1])
    BY DEF AtStart
  <2>3. AtSend(e, t, o, 0, u, x) /\ AtClose(e, d, t, o, u, x)
    BY DEF AtSend, AtClose, Leaving
  <2> QED
    BY <2>1, <2>2, <2>3 DEF Sends2, Running
<1>18. Asked(e, d, <<>>, task'[e], o, 1)
  <2>1. k.in.call.kind # "segment"
    BY <1>3, <1>5 DEF Faithful, Asked, Tasks
  <2>2. k.rx.call.kind # "segment"
    BY <1>4 DEF NoCall
  <2>3. \A y \in Tasks : y # "tx" => task'[e][y].call.kind # "segment"
    BY <1>8, <2>1, <2>2 DEF Tasks
  <2> QED
    BY <1>8, <2>3 DEF Asked, Tasks
<1> QED
  BY <1>3, <1>8, <1>9, <1>10, <1>12, <1>13, <1>14, <1>15, <1>16, <1>17, <1>18, QuietRight DEF There, There2

LEMMA ConnectRight ==
  ASSUME StreamSizes, Sane, Sane', Right, Connect
  PROVE  Right'
<1> DEFINE e == "client"
           n == opens[e] + 1
           iss == Iss[e][n]
           r == Reinit(n)
           c == [r EXCEPT !.bound = TRUE, !.una = iss, !.nxt = Add(iss, 1), !.state = "SynSent"]
           k == Call({"S"}, iss, <<>>)
           t == Sending("connect", k)
           o == [op[e] EXCEPT !.base = iss, !.tries = 0, !.sends = 0]
<1>0. e \in Ends
  BY DEF Ends
<1>1. /\ MayOpen(e) /\ Set(e, c, t, o) /\ opens' = [opens EXCEPT ![e] = @ + 1]
      /\ got' = [got EXCEPT ![e] = <<>>] /\ acked' = [acked EXCEPT ![e] = 0] /\ UNCHANGED <<net, faults, fails>>
  BY DEF Connect
<1>2. op[e] \in Ops /\ opens[e] \in Nat /\ opens[e] < MaxOpens
  BY <1>0, <1>1, TxSane, Constants DEF MayOpen
<1>3. n = 1 /\ n \in 0 .. MaxOpens
  BY <1>2 DEF StreamSizes
<1>4. iss = Iss[e][1]
  BY <1>3
<1> HIDE DEF iss, n, e
<1>5. iss \in SeqNums /\ Add(iss, 1) \in SeqNums
  BY <1>0, <1>4, BaseIs, AddNum
<1>a. Pos(e, iss) = 0 /\ Pos(e, Add(iss, 1)) = 1
  <2>1. Pos(e, iss) = 0
    BY <1>0, <1>4, PosBase
  <2>2. Pos(e, iss) + 1 < SeqSpace
    BY <2>1, Space
  <2> QED
    BY <1>0, <1>5, <2>1, <2>2, PosAdd
<1>6. r \in Conns /\ r.fin = FALSE /\ r.ring = <<>>
  <2>1. 0 \in SeqNums /\ 0 \in 0 .. RxBufferSize
    BY Space, Constants DEF SeqNums
  <2>2. <<>> \in Rings
    BY Constants DEF Rings
  <2> QED
    BY <1>3, <2>1, <2>2 DEF Reinit, Conns, States, Events
<1> HIDE DEF r
<1>7. c \in Conns /\ ~c.fin /\ c.state = "SynSent" /\ c.ring = <<>> /\ c.una = iss /\ c.nxt = Add(iss, 1)
  BY <1>5, <1>6 DEF Conns, States
<1>8. k \in Calls /\ k # NoCall /\ k.flags = {"S"} /\ k.seq = iss /\ k.data = <<>>
  <2>1. k \in Calls /\ k # NoCall
    BY <1>5, ControlCalls
  <2> QED
    BY <2>1 DEF Call
<1> HIDE DEF k
<1>9. t \in Txs /\ t.pc = "connect" /\ t.call = k
  BY <1>8, SendingIs DEF TxPcs
<1>10. o \in Ops /\ o.base = iss
  BY <1>2, <1>5 DEF Ops
<1> HIDE DEF c, t, o
<1>11. Honest(e, o, t.pc, t.call, c.port) /\ ~Acking(t.call)
  BY <1>4, <1>8, <1>9 DEF Honest, Acking
<1> QED
  BY <1>0, <1>1, <1>4, <1>7, <1>9, <1>10, <1>11, <1>a, OpenRight

LEMMA ListenRight ==
  ASSUME StreamSizes, Sane, Sane', Right, Listen
  PROVE  Right'
<1> DEFINE e == "server"
           r == Reinit(0)
           c == [r EXCEPT !.bound = TRUE, !.state = "Listen"]
           t == At("accept", "run")
           o == [op[e] EXCEPT !.sends = 0]
<1>0. e \in Ends
  BY DEF Ends
<1>1. /\ MayOpen(e) /\ Set(e, c, t, o) /\ opens' = [opens EXCEPT ![e] = @ + 1]
      /\ got' = [got EXCEPT ![e] = <<>>] /\ acked' = [acked EXCEPT ![e] = 0] /\ UNCHANGED <<net, faults, fails>>
  BY DEF Listen
<1>2. op[e] \in Ops
  BY <1>0, TxSane
<1> HIDE DEF e
<1>6. r \in Conns /\ r.fin = FALSE /\ r.ring = <<>>
  <2>1. 0 \in SeqNums /\ 0 \in 0 .. RxBufferSize /\ 0 \in 0 .. MaxOpens
    BY Space, Constants DEF SeqNums
  <2>2. <<>> \in Rings
    BY Constants DEF Rings
  <2> QED
    BY <2>1, <2>2 DEF Reinit, Conns, States, Events
<1> HIDE DEF r
<1>7. c \in Conns /\ ~c.fin /\ c.state = "Listen" /\ c.ring = <<>>
  BY <1>6 DEF Conns, States
<1>9. t \in Txs /\ t.pc = "accept" /\ t.call = NoCall
  BY AtIs DEF TxPcs
<1>10. o \in Ops
  BY <1>2 DEF Ops
<1>11. t.call.kind # "segment"
  BY <1>9 DEF NoCall
<1> HIDE DEF c, t, o
<1> QED
  BY <1>0, <1>1, <1>7, <1>9, <1>10, <1>11, OpenRight

(* ---- send() ---- *)

\* Where send() stands in its stream: a octets before it, w numbers after the syn with the peer.
Within(e, c, o, a, w) ==
  LET u == Pos(e, c.una)
      x == Pos(e, c.nxt)
      z == 1 + Upto(e)[o.sends + 1]
  IN /\ o.sends < Len(Sends[e][1]) /\ a = Upto(e)[o.sends] /\ Pos(e, o.base) = 1 + a /\ Pos(e, o.end) = z
     /\ 1 + a <= u /\ u <= x /\ x <= z /\ u <= 1 + w

\* The totals on either side of a send().
LEMMA UptoNext ==
  ASSUME StreamSizes, NEW e \in Ends, NEW n \in Nat, n < Len(Sends[e][1])
  PROVE  /\ Upto(e)[n] \in Nat /\ Upto(e)[n + 1] \in Nat /\ Upto(e)[n + 1] <= Total(e)
         /\ Upto(e)[n + 1] = Upto(e)[n] + Sends[e][1][n + 1] /\ Total(e) \in Nat /\ Total(e) + 4 <= Half
<1>1. Len(Sends[e][1]) \in Nat /\ Total(e) \in Nat /\ Total(e) + 4 <= Half
  BY UptoIs
<1>2. n \in 0 .. Len(Sends[e][1]) /\ n + 1 \in 0 .. Len(Sends[e][1])
  BY <1>1
<1>3. Upto(e)[n] \in Nat /\ Upto(e)[n + 1] \in Nat /\ Upto(e)[n + 1] <= Total(e)
  BY <1>2, UptoIs
<1>4. Upto(e)[n + 1] = Upto(e)[n] + Sends[e][1][n + 1]
  BY <1>2, UptoIs
<1> QED
  BY <1>1, <1>3, <1>4

\* A step of send() that leaves the Conn as d and the task at t, within the same send() or given up.
LEMMA WithinSends ==
  ASSUME StreamSizes, Sane, Right, NEW e \in Ends, NEW c, NEW d, NEW t, NEW o \in Ops, NEW o2,
         Within(e, c, o, acked[e], There2(e)),
         c.una \in SeqNums, c.nxt \in SeqNums,
         d.una = c.una, d.nxt = c.nxt, o2.base = o.base, o2.end = o.end, o2.sends = o.sends,
         \/ t.pc = "send" /\ (t.phase \in {"call", "ret"} => Pos(e, d.nxt) + o2.count <= 1 + Upto(e)[o.sends + 1])
         \/ t.pc = "failed",
         d.state \in {"Established", "CloseWait", "Closed"}
  PROVE  Sends2(e, d, t, o2, acked[e], There(e), There2(e))
<1> DEFINE u == Pos(e, c.una)
           x == Pos(e, c.nxt)
           z == 1 + Upto(e)[o.sends + 1]
           a == acked[e]
<1>1. /\ o.sends < Len(Sends[e][1]) /\ a = Upto(e)[o.sends] /\ Pos(e, o.base) = 1 + a /\ Pos(e, o.end) = z
      /\ 1 + a <= u /\ u <= x /\ x <= z /\ u <= 1 + There2(e)
  BY DEF Within
<1>2. o.sends \in Nat
  BY DEF Ops
<1>3. Upto(e)[o.sends + 1] \in Nat /\ Upto(e)[o.sends + 1] <= Total(e) /\ Total(e) \in Nat
  BY <1>1, <1>2, UptoNext
<1>4. u \in Int /\ x \in Int
  <2>1. Pos(e, c.una) \in Int
    BY PosIs
  <2>2. Pos(e, c.nxt) \in Int
    BY PosIs
  <2> QED
    BY <2>1, <2>2
<1>5. acked[e] <= There(e)
  BY SendsIs
<1>6. Pos(e, d.una) = u /\ Pos(e, d.nxt) = x
  OBVIOUS
<1> HIDE DEF u, x
<1>7. AtStart(d, t, o2, a, u, x, Iss[e][1])
  BY DEF AtStart
<1>8. AtSend(e, t, o2, a, u, x)
  <2>1. x <= 1 + Total(e)
    BY <1>1, <1>3, <1>4
  <2> QED
    BY <1>1, <1>6, <2>1 DEF AtSend
<1>9. AtClose(e, d, t, o2, u, x)
  BY DEF AtClose, Leaving
<1> QED
  BY <1>1, <1>5, <1>6, <1>7, <1>8, <1>9 DEF Sends2

\* The next segment of send().
LEMMA ChunkHonest ==
  ASSUME StreamSizes, Sane, Right, NEW e \in Ends, NEW c \in Conns, NEW o \in Ops, NEW o2, NEW n \in Nat \ {0},
         Within(e, c, o, acked[e], There2(e)), SeqLt(c.nxt, o.end), n <= Dist(c.nxt, o.end)
  PROVE  LET k == Call({"A"}, c.nxt, Chunk(e, c, o, n))
         IN /\ k \in Calls /\ k # NoCall /\ Acking(k) /\ Honest(e, o2, "send", k, c.port)
            /\ Pos(e, c.nxt) + n <= 1 + Upto(e)[o.sends + 1]
<1> DEFINE u == Pos(e, c.una)
           x == Pos(e, c.nxt)
           a == acked[e]
           z == 1 + Upto(e)[o.sends + 1]
           ch == Chunk(e, c, o, n)
           k == Call({"A"}, c.nxt, ch)
<1>1. /\ o.sends < Len(Sends[e][1]) /\ a = Upto(e)[o.sends] /\ Pos(e, o.base) = 1 + a /\ Pos(e, o.end) = z
      /\ 1 + a <= u /\ u <= x /\ x <= z
  BY DEF Within
<1>2. o.sends \in Nat /\ o.base \in SeqNums /\ o.end \in SeqNums /\ c.nxt \in SeqNums /\ c.una \in SeqNums
  BY DEF Ops, Conns
<1>3. /\ Upto(e)[o.sends + 1] \in Nat /\ Upto(e)[o.sends + 1] <= Total(e) /\ Total(e) \in Nat /\ Total(e) + 4 <= Half
      /\ a \in Nat
  BY <1>1, <1>2, UptoNext
<1>4. x \in Int /\ u \in Int
  <2>1. Pos(e, c.una) \in Int
    BY <1>2, PosIs
  <2>2. Pos(e, c.nxt) \in Int
    BY <1>2, PosIs
  <2> QED
    BY <2>1, <2>2
<1>5. Half \in Nat
  BY Space
<1> HIDE DEF u, x, z, a
<1>6. z \in Int /\ x < Half /\ z < Half /\ 1 + a < Half /\ 1 + a <= x /\ z <= 1 + Total(e)
  <2>1. z \in Int /\ z <= 1 + Total(e)
    BY <1>3 DEF z
  <2>2. 1 + a <= x
    BY <1>1, <1>3, <1>4
  <2>3. z < Half
    BY <1>3, <1>5, <2>1
  <2>4. x < Half
    BY <1>1, <1>4, <1>5, <2>1, <2>3
  <2>5. 1 + a < Half
    BY <1>3, <1>4, <1>5, <2>2, <2>4
  <2> QED
    BY <2>1, <2>2, <2>3, <2>4, <2>5
<1>7. Dist(c.nxt, o.end) = z - x
  <2>1. Pos(e, c.nxt) < Half /\ Pos(e, o.end) < Half /\ Pos(e, c.nxt) <= Pos(e, o.end)
    BY <1>1, <1>6 DEF x
  <2>2. Dist(c.nxt, o.end) = Pos(e, o.end) - Pos(e, c.nxt)
    BY <1>2, <2>1, PosLt
  <2> QED
    BY <1>1, <2>2 DEF x
<1>8. Dist(o.base, c.nxt) = x - (1 + a)
  <2>1. Pos(e, o.base) < Half /\ Pos(e, c.nxt) < Half /\ Pos(e, o.base) <= Pos(e, c.nxt)
    BY <1>1, <1>6 DEF x
  <2>2. Dist(o.base, c.nxt) = Pos(e, c.nxt) - Pos(e, o.base)
    BY <1>2, <2>1, PosLt
  <2> QED
    BY <1>1, <2>2 DEF x
<1>9. n \in Nat /\ n >= 1 /\ x + n <= z
  BY <1>4, <1>6, <1>7
<1>10. ch \in Seq(Octets) /\ Len(ch) = n
  BY <1>9, ChunkIs DEF Sane
<1>11. \A j \in 1 .. n : ch[j] = <<c.port, x - 1 + j>>
  <2> SUFFICES ASSUME NEW j \in 1 .. n PROVE ch[j] = <<c.port, x - 1 + j>>
    OBVIOUS
  <2>1. ch[j] = <<c.port, a + Dist(o.base, c.nxt) + j>>
    BY DEF Chunk, a
  <2>2. a + (x - (1 + a)) + j = x - 1 + j
    BY <1>3, <1>4, <1>9
  <2> QED
    BY <1>8, <2>1, <2>2
<1> HIDE DEF ch
<1>12. {"A"} \in FlagSets
  BY DEF FlagSets
<1>13. k \in Calls /\ k # NoCall /\ k.kind = "segment" /\ k.flags = {"A"} /\ k.seq = c.nxt /\ k.data = ch
  BY <1>2, <1>10, <1>12, CallIs
<1> HIDE DEF k
<1>14. Honest(e, o2, "send", k, c.port)
  <2>1. Pos(e, k.seq) = x
    BY <1>13 DEF x
  <2>2. 1 <= x /\ x + n <= 1 + Total(e)
    BY <1>3, <1>4, <1>6, <1>9
  <2>3. "S" \notin k.flags /\ "F" \notin k.flags
    BY <1>13
  <2> QED
    BY <1>10, <1>11, <1>13, <2>1, <2>2, <2>3 DEF Honest
<1>15. Acking(k)
  BY <1>13 DEF Acking
<1> QED
  BY <1>9, <1>13, <1>14, <1>15 DEF k, x, z, ch

\* What every step of send() has for SetRight.
SendStep(e, c) ==
  /\ task[e].tx.pc \in {"ready", "send"} /\ Keeps(conn[e], c) /\ UNCHANGED <<net, got, opens>>
  /\ acked'[Peer(e)] = acked[Peer(e)]

LEMMA SendStepIs ==
  ASSUME Sane, NEW e \in Ends, NEW c, SendStep(e, c)
  PROVE  /\ task[e].tx.pc \in Running /\ task[e].tx.pc \notin Closers /\ c.state = conn[e].state /\ c.port = conn[e].port
         /\ SameRcv(conn[e], c) /\ c.state \in {"Established", "CloseWait", "Closed"} /\ opens[e] >= 1
         /\ \A pc, o : Going(task[e].tx.pc, op[e], pc, o)
<1>1. Fine(e, conn[e], task[e], op[e], opens[e])
  BY TxSane
<1>2. conn[e].state \in {"Established", "CloseWait", "Closed"} /\ opens[e] >= 1
  BY <1>1 DEF SendStep, Fine, Stages, Reached, Counts
<1> QED
  BY <1>2 DEF SendStep, Running, Closers, Going, Keeps, SameWho

LEMMA FailedRight ==
  ASSUME StreamSizes, Sane, Sane', Right, NEW e \in Ends, NEW c \in Conns, NEW o \in Ops, SendStep(e, c), acked'[e] = acked[e],
         Within(e, c, o, acked[e], There2(e)), Set(e, c, At("failed", "run"), o)
  PROVE  Right'
<1> DEFINE t == At("failed", "run")
<1>1. t \in Txs /\ t.pc = "failed" /\ t.call = NoCall
  BY AtIs DEF TxPcs
<1> HIDE DEF t
<1>2. c.una \in SeqNums /\ c.nxt \in SeqNums
  BY DEF Conns
<1>3. /\ task[e].tx.pc \in Running /\ c.state = conn[e].state /\ c.port = conn[e].port
      /\ SameRcv(conn[e], c) /\ c.state \in {"Established", "CloseWait", "Closed"} /\ Going(task[e].tx.pc, op[e], t.pc, o)
  BY SendStepIs
<1>4. Sends2(e, c, t, o, acked'[e], There(e), There2(e))
  BY <1>1, <1>2, <1>3, WithinSends
<1>5. CallFits(e, c, got[e], o, t.pc, t.call, opens[e])
  BY <1>1, NoCallFits
<1>6. Set(e, c, t, o) /\ UNCHANGED <<net, got, opens>> /\ acked'[Peer(e)] = acked[Peer(e)]
  BY DEF t, SendStep
<1> QED
  BY <1>1, <1>3, <1>4, <1>5, <1>6, SetRight DEF There, There2

LEMMA SentOnRight ==
  ASSUME StreamSizes, Sane, Sane', Right, NEW e \in Ends, NEW c \in Conns, NEW d \in Conns, NEW t \in Txs,
         NEW o \in Ops, NEW o2 \in Ops, SendStep(e, c), acked'[e] = acked[e],
         Within(e, c, o, acked[e], There2(e)), SentOn(e, c, o, d, t, o2), Set(e, d, t, o2)
  PROVE  Right'
<1>1. c.una \in SeqNums /\ c.nxt \in SeqNums
  BY DEF Conns
<1>2. /\ task[e].tx.pc \in Running /\ c.state = conn[e].state /\ c.port = conn[e].port /\ opens[e] >= 1
      /\ SameRcv(conn[e], c) /\ c.state \in {"Established", "CloseWait", "Closed"} /\ Going(task[e].tx.pc, op[e], t.pc, o2)
  BY SendStepIs
<1>3. UNCHANGED <<net, got, opens>> /\ acked'[Peer(e)] = acked[Peer(e)]
  BY DEF SendStep
<1>4. CASE t = At("send", "wait") /\ o2 = o /\ Keeps(c, d) /\ SameSnd(c, d)
  <2>1. t.pc = "send" /\ t.phase = "wait" /\ t.call = NoCall
    BY <1>4, AtIs DEF TxPcs
  <2>2. d.una = c.una /\ d.nxt = c.nxt /\ d.state = c.state /\ d.port = c.port /\ SameRcv(conn[e], d)
    BY <1>2, <1>4 DEF Keeps, SameWho, SameSnd, SameRcv
  <2>3. Sends2(e, d, t, o2, acked'[e], There(e), There2(e))
    BY <1>1, <1>2, <1>4, <2>1, <2>2, WithinSends
  <2>4. CallFits(e, d, got[e], o2, t.pc, t.call, opens[e])
    BY <2>1, NoCallFits
  <2>5. d.state = conn[e].state /\ d.port = conn[e].port
    BY <1>2, <2>2
  <2> QED
    BY <1>2, <1>3, <2>2, <2>3, <2>4, <2>5, SetRight DEF There, There2
<1>5. CASE /\ SeqLt(c.nxt, o.end) /\ d = c
           /\ \E n \in Nat \ {0} :
                /\ n <= Dist(c.nxt, o.end) /\ n <= Mss /\ o2 = [o EXCEPT !.count = n]
                /\ t = Sending("send", Call({"A"}, c.nxt, Chunk(e, c, o, n)))
  <2>1. PICK n \in Nat \ {0} :
          /\ n <= Dist(c.nxt, o.end) /\ o2 = [o EXCEPT !.count = n]
          /\ t = Sending("send", Call({"A"}, c.nxt, Chunk(e, c, o, n)))
    BY <1>5
  <2> DEFINE k == Call({"A"}, c.nxt, Chunk(e, c, o, n))
  <2>2. /\ k \in Calls /\ k # NoCall /\ Acking(k) /\ Honest(e, o2, "send", k, c.port)
        /\ Pos(e, c.nxt) + n <= 1 + Upto(e)[o.sends + 1]
    BY <1>5, <2>1, ChunkHonest
  <2>3. t = Sending("send", k)
    BY <2>1
  <2> HIDE DEF k
  <2>4. t.pc = "send" /\ t.phase = "call" /\ t.call = k
    BY <2>2, <2>3, SendingIs DEF TxPcs
  <2>5. o2.base = o.base /\ o2.end = o.end /\ o2.sends = o.sends /\ o2.count = n
    BY <2>1 DEF Ops
  <2>6. d.una = c.una /\ d.nxt = c.nxt /\ d.state = conn[e].state /\ d.port = conn[e].port /\ SameRcv(conn[e], d) /\ d = c
    BY <1>2, <1>5
  <2>7. Sends2(e, d, t, o2, acked'[e], There(e), There2(e))
    BY <1>1, <1>2, <2>2, <2>4, <2>5, <2>6, WithinSends
  <2>8. CallFits(e, d, got[e], o2, t.pc, t.call, opens[e])
    <3>1. Heard(e, conn[e], got[e])
      BY <1>2 DEF Right, Faithful, Receives
    <3>2. Heard(e, d, got[e])
      BY <2>6, <3>1 DEF Heard, Taken, Stream, SameRcv
    <3> QED
      BY <1>2, <2>2, <2>4, <2>6, <3>2 DEF CallFits
  <2> QED
    BY <1>2, <1>3, <2>6, <2>7, <2>8, SetRight DEF There, There2
<1> QED
  BY <1>4, <1>5 DEF SentOn

LEMMA LoopRight ==
  ASSUME StreamSizes, Sane, Sane', Right, NEW e \in Ends, NEW c \in Conns, NEW o \in Ops, SendStep(e, c),
         Within(e, c, o, acked[e], There2(e)), SendLoop(e, c, o)
  PROVE  Right'
<1>1. PICK d \in Conns, t \in Txs, o2 \in Ops :
        /\ o2.sends = IF t = At("ready", "run") THEN o.sends + 1 ELSE o.sends
        /\ Looped(e, c, o, d, t, o2) /\ Set(e, d, t, o2) /\ Credited(e, t, o)
  BY SendLoopDoes
<1>2. c.una \in SeqNums /\ c.nxt \in SeqNums /\ o.sends \in Nat /\ o.end \in SeqNums
  BY DEF Conns, Ops
<1>3. /\ task[e].tx.pc \in Running /\ task[e].tx.pc \notin Closers /\ c.state = conn[e].state /\ c.port = conn[e].port
      /\ SameRcv(conn[e], c) /\ c.state \in {"Established", "CloseWait", "Closed"} /\ opens[e] >= 1
      /\ Going(task[e].tx.pc, op[e], t.pc, o2)
  BY SendStepIs
<1>n. At("ready", "run").pc = "ready" /\ At("failed", "run").pc = "failed" /\ At("send", "wait").pc = "send"
      /\ \A k : Sending("send", k).pc = "send"
  BY DEF At, Sending
<1>4. CASE SendDone(c, o) /\ d = c /\ t = At("ready", "run") /\ o2 = [o EXCEPT !.sends = @ + 1]
  <2> DEFINE u == Pos(e, c.una)
             x == Pos(e, c.nxt)
             z == 1 + Upto(e)[o.sends + 1]
             a == acked[e]
             a2 == Upto(e)[o.sends + 1]
             r == There(e)
             w == There2(e)
  <2>1. /\ o.sends < Len(Sends[e][1]) /\ a = Upto(e)[o.sends] /\ Pos(e, o.end) = z
        /\ 1 + a <= u /\ u <= x /\ x <= z /\ u <= 1 + w
    BY DEF Within
  <2>2. /\ a2 \in Nat /\ a2 <= Total(e) /\ Total(e) \in Nat /\ Total(e) + 4 <= Half
        /\ a2 = a + Sends[e][1][o.sends + 1]
    BY <1>2, <2>1, UptoNext
  <2>3. u \in Int /\ x \in Int
    <3>1. Pos(e, c.una) \in Int
      BY <1>2, PosIs
    <3>2. Pos(e, c.nxt) \in Int
      BY <1>2, PosIs
    <3> QED
      BY <3>1, <3>2
  <2>4. Half \in Nat
    BY Space
  <2>5. r \in Nat /\ w = r
    BY <1>3, ThereIs
  <2> HIDE DEF u, x, a, a2, r, w
  <2>6. z = 1 + a2 /\ z < Half /\ u < Half
    BY <2>1, <2>2, <2>3, <2>4 DEF a2
  <2> HIDE DEF z
  <2>7. ~SeqLt(c.una, o.end)
    BY <1>4 DEF SendDone
  <2>8. ~(u < z)
    <3>1. Pos(e, c.una) < Half /\ Pos(e, o.end) < Half
      BY <2>1, <2>6 DEF u
    <3>2. SeqLt(c.una, o.end) <=> Pos(e, c.una) < Pos(e, o.end)
      BY <1>2, <3>1, PosLt
    <3> QED
      BY <2>1, <2>7, <3>2 DEF u
  <2>9. u = 1 + a2 /\ x = 1 + a2 /\ a2 <= r /\ u <= 1 + w
    BY <2>1, <2>2, <2>3, <2>5, <2>6, <2>8
  <2>10. acked'[e] = a2 /\ acked'[Peer(e)] = acked[Peer(e)]
    <3>1. acked' = [acked EXCEPT ![e] = @ + Script(e)[o.sends + 1]]
      BY <1>1, <1>4 DEF Credited
    <3>2. opens[e] = 1
      BY <1>3 DEF Sane, Typed, StreamSizes
    <3>3. acked'[e] = acked[e] + Sends[e][1][o.sends + 1] /\ acked'[Peer(e)] = acked[Peer(e)]
      BY <3>1, <3>2, PeerIs DEF Sane, Typed, Script
    <3> QED
      BY <2>2, <3>3 DEF a
  <2>11. o2.sends = o.sends + 1 /\ t.pc = "ready" /\ t.call = NoCall
    BY <1>1, <1>4 DEF At
  <2>12. Sends2(e, d, t, o2, acked'[e], r, w)
    <3>1. AtSend(e, t, o2, a2, u, x)
      BY <2>9, <2>11 DEF AtSend, a2
    <3>2. AtStart(d, t, o2, a2, u, x, Iss[e][1]) /\ AtClose(e, d, t, o2, u, x)
      BY <1>3, <1>4, <2>11 DEF AtStart, AtClose, Leaving
    <3>3. Pos(e, d.una) = u /\ Pos(e, d.nxt) = x
      BY <1>4 DEF u, x
    <3> QED
      BY <2>9, <2>10, <3>1, <3>2, <3>3 DEF Sends2
  <2>13. CallFits(e, d, got[e], o2, t.pc, t.call, opens[e])
    BY <2>11, NoCallFits
  <2>14. UNCHANGED <<net, got, opens>> /\ d = c
    BY <1>4 DEF SendStep
  <2> QED
    BY <1>1, <1>3, <2>10, <2>12, <2>13, <2>14, SetRight DEF There, There2, r, w
<1>5. CASE ~SendDone(c, o) /\ d = c /\ t = At("failed", "run") /\ o2 = o
  <2>1. acked'[e] = acked[e]
    <3>1. t # At("ready", "run")
      BY <1>5, <1>n
    <3> QED
      BY <1>1, <3>1 DEF Credited
  <2> QED
    BY <1>1, <1>5, <2>1, FailedRight
<1>6. CASE ~SendDone(c, o) /\ SentOn(e, [c EXCEPT !.tx = "none"], o, d, t, o2)
  <2> DEFINE b == [c EXCEPT !.tx = "none"]
  <2>1. b \in Conns /\ Keeps(c, b) /\ b.una = c.una /\ b.nxt = c.nxt
    BY DEF Conns, Events, Keeps, SameWho, SameRcv
  <2> HIDE DEF b
  <2>2. Within(e, b, o, acked[e], There2(e))
    BY <2>1 DEF Within
  <2>3. SendStep(e, b)
    BY <2>1, KeepsKeeps DEF SendStep
  <2>4. t.pc = "send"
    BY <1>6, <1>n DEF SentOn
  <2>5. acked'[e] = acked[e]
    <3>1. t # At("ready", "run")
      BY <2>4, <1>n
    <3> QED
      BY <1>1, <3>1 DEF Credited
  <2>6. SentOn(e, b, o, d, t, o2)
    BY <1>6 DEF b
  <2> QED
    BY <1>1, <2>1, <2>2, <2>3, <2>5, <2>6, SentOnRight
<1> QED
  BY <1>1, <1>4, <1>5, <1>6 DEF Looped

LEMMA LoopOther ==
  ASSUME Sane, NEW e \in Ends, NEW c, NEW o, SendLoop(e, c, o)
  PROVE  acked'[Peer(e)] = acked[Peer(e)]
<1>1. acked' = [acked EXCEPT ![e] = @ + Script(e)[o.sends + 1]] \/ acked' = acked
  BY DEF SendLoop
<1> QED
  BY <1>1, PeerIs DEF Sane, Typed

\* While send() runs it is within its stream.
LEMMA WithinNow ==
  ASSUME StreamSizes, Sane, Right, NEW e \in Ends, task[e].tx.pc = "send"
  PROVE  /\ Within(e, conn[e], op[e], acked[e], There2(e))
         /\ task[e].tx.phase \in {"call", "ret"} => Pos(e, conn[e].nxt) + op[e].count <= 1 + Upto(e)[op[e].sends + 1]
<1>1. opens[e] \in 0 .. MaxOpens /\ Fine(e, conn[e], task[e], op[e], opens[e])
  BY TxSane
<1>2. opens[e] = 1 /\ op[e].sends < Len(Sends[e][opens[e]])
  BY <1>1 DEF Fine, Counts, StreamSizes
<1>3. /\ AtSend(e, task[e].tx, op[e], acked[e], Pos(e, conn[e].una), Pos(e, conn[e].nxt))
      /\ task[e].tx.pc \in Running \ {"done"} => Pos(e, conn[e].una) <= 1 + There2(e)
  BY SendsIs
<1>4. task[e].tx.pc \in Running \ {"done"}
  BY DEF Running
<1> QED
  BY <1>2, <1>3, <1>4 DEF Within, AtSend

LEMMA SendRight ==
  ASSUME StreamSizes, Sane, Sane', Right, NEW e \in Ends, Send(e)
  PROVE  Right'
<1> DEFINE c == [conn[e] EXCEPT !.retries = 0]
           m == Script(e)[op[e].sends + 1]
           o == [op[e] EXCEPT !.base = c.nxt, !.end = Add(c.nxt, m)]
           u == Pos(e, conn[e].una)
           x == Pos(e, conn[e].nxt)
           a == acked[e]
           f == Upto(e)
           n == op[e].sends
<1>1. conn[e] \in Conns /\ op[e] \in Ops /\ Fine(e, conn[e], task[e], op[e], opens[e]) /\ opens[e] \in 0 .. MaxOpens
  BY TxSane
<1>2. task[e].tx.pc = "ready" /\ n < Len(Script(e)) /\ UNCHANGED <<net, got, opens>>
  BY DEF Send
<1>3. opens[e] = 1
  BY <1>1, <1>2 DEF Fine, Counts, StreamSizes
<1>4. n < Len(Sends[e][1]) /\ m = Sends[e][1][n + 1] /\ n \in Nat
  BY <1>1, <1>2, <1>3 DEF Script, Ops
<1>5. /\ f[n] \in Nat /\ f[n + 1] \in Nat /\ f[n + 1] <= Total(e) /\ f[n + 1] = f[n] + m /\ Total(e) \in Nat
      /\ Total(e) + 4 <= Half
  BY <1>4, UptoNext
<1>6. /\ u = 1 + a /\ x = 1 + a /\ a = f[n] /\ a <= There(e) /\ u <= 1 + There2(e)
  <2>1. /\ AtSend(e, task[e].tx, op[e], acked[e], u, x) /\ a <= There(e)
        /\ task[e].tx.pc \in Running \ {"done"} => u <= 1 + There2(e)
    BY SendsIs
  <2> QED
    BY <1>2, <2>1 DEF AtSend, Running
<1>7. m \in Nat
  <2>1. Len(Sends[e][1]) \in Nat /\ \A i \in 1 .. Len(Sends[e][1]) : Sends[e][1][i] \in Nat \ {0}
    BY <1>3, <1>1, ScriptIs
  <2>2. n + 1 \in 1 .. Len(Sends[e][1])
    BY <1>4, <2>1
  <2> QED
    BY <1>4, <2>1, <2>2
<1>8. Keeps(conn[e], conn[e])
  BY DEF Keeps, SameWho, SameRcv
<1> HIDE DEF m
<1>9. CASE Usable(c)
  <2>1. SendLoop(e, c, o)
    BY <1>9 DEF Send, m
  <2>2. c \in Conns /\ Keeps(conn[e], c) /\ c.nxt = conn[e].nxt /\ c.una = conn[e].una /\ c.nxt \in SeqNums
    BY <1>1 DEF Conns, Keeps, SameWho, SameRcv
  <2>3. Add(c.nxt, m) \in SeqNums
    BY <1>7, <2>2, AddNum
  <2>4. o \in Ops /\ o.sends = n /\ o.base = c.nxt /\ o.end = Add(c.nxt, m)
    BY <1>1, <2>2, <2>3 DEF Ops
  <2> HIDE DEF c, o
  <2>5. Pos(e, o.end) = 1 + f[n + 1]
    <3>1. Pos(e, c.nxt) = 1 + a
      BY <1>6, <2>2
    <3>2. Pos(e, c.nxt) + m < SeqSpace
      BY <1>5, <1>6, <1>7, <3>1, Space
    <3>3. Pos(e, Add(c.nxt, m)) = Pos(e, c.nxt) + m
      BY <1>7, <2>2, <3>2, PosAdd
    <3>4. Pos(e, c.nxt) + m = 1 + f[n + 1]
      <4> HIDE DEF f, n, a
      <4> QED
        BY <1>5, <1>6, <1>7, <3>1
    <3> QED
      BY <2>4, <3>3, <3>4
  <2>6. Within(e, c, o, acked[e], There2(e))
    <3>1. Pos(e, c.una) = 1 + a /\ Pos(e, c.nxt) = 1 + a /\ Pos(e, o.base) = 1 + a
      BY <1>6, <2>2, <2>4
    <3>2. 1 + a <= 1 + f[n + 1]
      <4> HIDE DEF f, n, a
      <4> QED
        BY <1>5, <1>6, <1>7
    <3>3. a \in Nat
      BY <1>5, <1>6
    <3> QED
      BY <1>4, <1>6, <2>4, <2>5, <3>1, <3>2, <3>3 DEF Within
  <2>7. SendStep(e, c)
    BY <1>2, <2>1, <2>2, LoopOther DEF SendStep
  <2> QED
    BY <2>1, <2>2, <2>4, <2>6, <2>7, LoopRight
<1>10. CASE ~Usable(c)
  <2> DEFINE t == At("failed", "run")
  <2>1. Set(e, conn[e], t, op[e]) /\ UNCHANGED acked
    BY <1>10 DEF Send
  <2>2. t \in Txs /\ t.pc = "failed" /\ t.call = NoCall
    BY AtIs DEF TxPcs
  <2> HIDE DEF t
  <2>3. SendStep(e, conn[e])
    BY <1>2, <1>8, <2>1 DEF SendStep
  <2>4. /\ task[e].tx.pc \in Running /\ SameRcv(conn[e], conn[e]) /\ conn[e].state \in {"Established", "CloseWait", "Closed"}
        /\ Going(task[e].tx.pc, op[e], t.pc, op[e])
    BY <2>3, SendStepIs
  <2>5. Sends2(e, conn[e], t, op[e], acked'[e], There(e), There2(e))
    <3>1. acked'[e] = a
      BY <2>1
    <3>2. AtSend(e, t, op[e], a, u, x)
      <4>1. 1 + a <= 1 + Total(e) /\ a \in Nat
        <5> HIDE DEF f, n, a
        <5> QED
          BY <1>5, <1>6, <1>7
      <4> QED
        BY <1>4, <1>6, <2>2, <4>1 DEF AtSend
    <3>3. AtStart(conn[e], t, op[e], a, u, x, Iss[e][1]) /\ AtClose(e, conn[e], t, op[e], u, x)
      BY <2>2, <2>4 DEF AtStart, AtClose, Leaving
    <3> QED
      BY <1>6, <3>1, <3>2, <3>3 DEF Sends2
  <2>6. CallFits(e, conn[e], got[e], op[e], t.pc, t.call, opens[e])
    BY <2>2, NoCallFits
  <2> QED
    BY <1>1, <1>2, <2>1, <2>2, <2>4, <2>5, <2>6, SetRight DEF There, There2
<1> QED
  BY <1>9, <1>10

LEMMA SendSentRight ==
  ASSUME StreamSizes, Sane, Sane', Right, NEW e \in Ends, SendSent(e)
  PROVE  Right'
<1> DEFINE c == [conn[e] EXCEPT !.nxt = Add(@, op[e].count)]
           x == Pos(e, conn[e].nxt)
           z == 1 + Upto(e)[op[e].sends + 1]
<1>1. conn[e] \in Conns /\ op[e] \in Ops
  BY TxSane
<1>2. task[e].tx.pc = "send" /\ task[e].tx.phase = "ret" /\ UNCHANGED <<net, got, opens, faults, fails, acked>>
  BY DEF SendSent, Returned, Stay
<1>3. conn[e].nxt \in SeqNums /\ op[e].count \in Nat /\ conn[e].una \in SeqNums /\ op[e].sends \in Nat
  BY <1>1 DEF Conns, Ops
<1>4. Add(conn[e].nxt, op[e].count) \in SeqNums
  BY <1>3, AddNum
<1>5. c \in Conns /\ Keeps(conn[e], c) /\ c.una = conn[e].una /\ c.nxt = Add(conn[e].nxt, op[e].count)
  BY <1>1, <1>4 DEF Conns, Keeps, SameWho, SameRcv
<1>6. SendMore(e, c, op[e]) \/ Set(e, conn[e], At("failed", "run"), op[e])
  BY DEF SendSent
<1>7. Keeps(conn[e], conn[e])
  BY DEF Keeps, SameWho, SameRcv
<1>8. Within(e, conn[e], op[e], acked[e], There2(e)) /\ x + op[e].count <= z
  BY <1>2, WithinNow
<1> HIDE DEF c
<1>9. SendStep(e, conn[e]) /\ SendStep(e, c)
  BY <1>2, <1>5, <1>7 DEF SendStep
<1>10. CASE Set(e, conn[e], At("failed", "run"), op[e])
  BY <1>1, <1>2, <1>8, <1>9, <1>10, FailedRight
<1>11. CASE SendMore(e, c, op[e])
  <2>1. PICK d \in Conns, t \in Txs, o2 \in Ops : SentOn(e, c, op[e], d, t, o2) /\ Set(e, d, t, o2)
    BY <1>1, <1>5, <1>11, SendMoreDoes
  <2>2. Upto(e)[op[e].sends + 1] \in Nat /\ Upto(e)[op[e].sends + 1] <= Total(e) /\ Total(e) \in Nat /\ Total(e) + 4 <= Half
    BY <1>3, <1>8, UptoNext DEF Within
  <2>3. x \in Int /\ x + op[e].count < SeqSpace
    <3>1. x \in Int
      BY <1>3, PosIs
    <3> HIDE DEF x
    <3> QED
      BY <1>3, <1>8, <2>2, <3>1, Space
  <2>4. Pos(e, c.nxt) = x + op[e].count
    BY <1>3, <1>5, <2>3, PosAdd
  <2>5. Within(e, c, op[e], acked[e], There2(e))
    <3>1. Pos(e, conn[e].una) \in Int
      BY <1>3, PosIs
    <3>2. Pos(e, conn[e].una) <= x /\ x <= x + op[e].count /\ Pos(e, conn[e].una) <= x + op[e].count
      <4>1. Pos(e, conn[e].una) <= x
        BY <1>8 DEF Within
      <4> HIDE DEF x
      <4> QED
        BY <1>3, <2>3, <3>1, <4>1
    <3> QED
      BY <1>5, <1>8, <2>4, <3>2 DEF Within
  <2> QED
    BY <1>1, <1>2, <1>5, <1>9, <2>1, <2>5, SentOnRight
<1> QED
  BY <1>6, <1>10, <1>11

LEMMA SendWakeRight ==
  ASSUME StreamSizes, Sane, Sane', Right, NEW e \in Ends, SendWake(e)
  PROVE  Right'
<1> DEFINE c == [Resumed(e) EXCEPT !.retries = 0]
<1>1. conn[e] \in Conns /\ op[e] \in Ops
  BY TxSane
<1>2. task[e].tx.pc = "send" /\ UNCHANGED <<net, got, opens, fails>> /\ SendLoop(e, c, op[e])
  BY DEF SendWake, Woken, Waiting
<1>4. Resumed(e) \in Conns /\ Keeps(conn[e], Resumed(e)) /\ SameSnd(conn[e], Resumed(e))
  BY <1>1, ResumedIs
<1>5. c \in Conns /\ Keeps(conn[e], c) /\ c.una = conn[e].una /\ c.nxt = conn[e].nxt
  BY <1>4 DEF Conns, Keeps, SameWho, SameRcv, SameSnd
<1> HIDE DEF c
<1>6. Within(e, c, op[e], acked[e], There2(e))
  BY <1>2, <1>5, WithinNow DEF Within
<1>7. SendStep(e, c)
  BY <1>2, <1>5, LoopOther DEF SendStep
<1> QED
  BY <1>1, <1>2, <1>5, <1>6, <1>7, LoopRight

LEMMA SendTimeoutRight ==
  ASSUME StreamSizes, Sane, Sane', Right, NEW e \in Ends, SendTimeout(e)
  PROVE  Right'
<1> DEFINE r == Resumed(e)
           c == [r EXCEPT !.retries = IF conn[e].wnd # 0 THEN @ + 1 ELSE @]
           z == [c EXCEPT !.nxt = c.una]
<1>1. conn[e] \in Conns /\ op[e] \in Ops
  BY TxSane
<1>2. task[e].tx.pc = "send" /\ UNCHANGED <<net, got, opens, fails>>
  BY DEF SendTimeout, TimedOut, Waiting
<1>4. r \in Conns /\ Keeps(conn[e], r) /\ SameSnd(conn[e], r)
  BY <1>1, ResumedIs
<1>6. (Set(e, c, At("failed", "run"), op[e]) /\ UNCHANGED acked) \/ SendLoop(e, z, op[e])
  BY DEF SendTimeout
<1> HIDE DEF r
<1>5. c \in Conns /\ Keeps(conn[e], c) /\ c.una = conn[e].una /\ c.nxt = conn[e].nxt /\ c.una \in SeqNums
  BY <1>4 DEF Conns, Keeps, SameWho, SameRcv, SameSnd
<1> HIDE DEF c
<1>7. z \in Conns /\ Keeps(conn[e], z) /\ z.una = c.una /\ z.nxt = c.una
  BY <1>5 DEF Conns, Keeps, SameWho, SameRcv
<1> HIDE DEF z
<1>8. Within(e, conn[e], op[e], acked[e], There2(e))
  BY <1>2, WithinNow
<1>9. CASE Set(e, c, At("failed", "run"), op[e]) /\ UNCHANGED acked
  <2>1. Within(e, c, op[e], acked[e], There2(e))
    BY <1>5, <1>8 DEF Within
  <2>2. SendStep(e, c)
    BY <1>2, <1>5, <1>9 DEF SendStep
  <2> QED
    BY <1>1, <1>5, <1>9, <2>1, <2>2, FailedRight
<1>10. CASE SendLoop(e, z, op[e])
  <2>1. Within(e, z, op[e], acked[e], There2(e))
    <3> DEFINE u == Pos(e, conn[e].una)
               x == Pos(e, conn[e].nxt)
               y == 1 + Upto(e)[op[e].sends + 1]
    <3>1. u \in Int
      BY <1>5, PosIs
    <3>2. x \in Int
      <4>1. conn[e].nxt \in SeqNums
        BY <1>1 DEF Conns
      <4> QED
        BY <4>1, PosIs
    <3>3. op[e].sends < Len(Sends[e][1]) /\ op[e].sends \in Nat
      BY <1>1, <1>8 DEF Within, Ops
    <3>4. y \in Int
      BY <3>3, UptoNext
    <3>5. u <= x /\ x <= y
      BY <1>8 DEF Within
    <3> HIDE DEF u, x, y
    <3>6. u <= u /\ u <= y
      BY <3>1, <3>2, <3>4, <3>5
    <3> QED
      BY <1>5, <1>7, <1>8, <3>6 DEF Within, u, x, y
  <2>2. SendStep(e, z)
    BY <1>2, <1>7, <1>10, LoopOther DEF SendStep
  <2> QED
    BY <1>1, <1>7, <1>10, <2>1, <2>2, LoopRight
<1> QED
  BY <1>6, <1>9, <1>10

(* ---- close() and abort() ---- *)

\* Where close() stands: its fin is the last number sent, behind all that was.
Parting(e, c, o) ==
  LET u == Pos(e, c.una)
      x == Pos(e, c.nxt)
      y == Pos(e, o.fin)
  IN /\ x = y + 1 /\ 1 <= y /\ y <= 1 + Total(e) /\ 1 <= u /\ u <= x /\ u <= 1 + There2(e)
     /\ o.sends = Len(Sends[e][1]) => y = 1 + Total(e)

LEMMA PartingNow ==
  ASSUME StreamSizes, Sane, Right, NEW e \in Ends, task[e].tx.pc \in Leaving
  PROVE  /\ Parting(e, conn[e], op[e]) /\ conn[e].state \in Late /\ opens[e] >= 1
         /\ conn[e].state \in {"FinWait1", "Closing", "LastAck"} => Pos(e, conn[e].una) < Pos(e, conn[e].nxt)
         /\ task[e].tx.pc = "finwait" => conn[e].state \in {"FinWait2", "TimeWait", "Closed"}
<1>1. /\ AtClose(e, conn[e], task[e].tx, op[e], Pos(e, conn[e].una), Pos(e, conn[e].nxt))
      /\ task[e].tx.pc \in Running \ {"done"} => Pos(e, conn[e].una) <= 1 + There2(e)
  BY SendsIs
<1>2. task[e].tx.pc \in Running \ {"done"} /\ task[e].tx.pc \in {"close", "finwait", "abort"}
  BY DEF Running, Leaving
<1>3. conn[e].state \in Late /\ opens[e] >= 1
  BY <1>2, LateIs
<1> QED
  BY <1>1, <1>2, <1>3 DEF AtClose, Parting

\* A step of close() that leaves the Conn as d and its task at t.
LEMMA LateRight ==
  ASSUME StreamSizes, Sane, Sane', Right, NEW e \in Ends, NEW d \in Conns, NEW t \in Txs, NEW o \in Ops,
         Set(e, d, t, o), UNCHANGED <<net, got, acked, opens>>, opens[e] >= 1,
         task[e].tx.pc \in Running \ {"done"}, task[e].tx.pc \in Leaving => o.fin = op[e].fin,
         SameRcv(conn[e], d), d.port = conn[e].port, d.state \in Late,
         Parting(e, d, o) \/ t.pc = "done", t.pc \in Closers,
         d.state \in {"FinWait1", "Closing", "LastAck"} => Pos(e, d.una) < Pos(e, d.nxt),
         t.pc = "finwait" => d.state \in {"FinWait2", "TimeWait", "Closed"},
         t.pc = "done" => d.state \in {"TimeWait", "Closed"},
         \/ t.call = NoCall
         \/ /\ t.pc \in Leaving
            /\ t.call \in {Call({"F", "A"}, o.fin, <<>>), Call({"R", "A"}, d.nxt, <<>>)}
  PROVE  Right'
<1>1. Going(task[e].tx.pc, op[e], t.pc, o)
  BY DEF Going, Closers, Leaving, Running
<1>2. Sends2(e, d, t, o, acked'[e], There(e), There2(e))
  <2> DEFINE u == Pos(e, d.una)
             x == Pos(e, d.nxt)
  <2>1. acked'[e] = acked[e] /\ acked[e] <= There(e)
    BY SendsIs
  <2>2. AtStart(d, t, o, acked[e], u, x, Iss[e][1]) /\ AtSend(e, t, o, acked[e], u, x)
    BY DEF AtStart, AtSend, Closers
  <2>3. AtClose(e, d, t, o, u, x)
    BY DEF AtClose, Closers, Leaving, Parting
  <2>4. t.pc \in Running \ {"done"} => u <= 1 + There2(e)
    BY DEF Parting
  <2> QED
    BY <2>1, <2>2, <2>3, <2>4 DEF Sends2
<1>3. CallFits(e, d, got[e], o, t.pc, t.call, opens[e])
  <2>1. CASE t.call = NoCall
    BY <2>1, NoCallFits
  <2>2. CASE t.pc \in Leaving /\ t.call = Call({"F", "A"}, o.fin, <<>>)
    <3> DEFINE k == Call({"F", "A"}, o.fin, <<>>)
    <3>1. k.flags = {"F", "A"} /\ k.seq = o.fin /\ k.data = <<>>
      BY DEF Call
    <3> HIDE DEF k
    <3>2. 1 <= Pos(e, o.fin) /\ Pos(e, o.fin) <= 1 + Total(e)
      BY <2>2 DEF Parting, Leaving
    <3>3. Honest(e, o, t.pc, k, d.port)
      BY <3>1, <3>2 DEF Honest
    <3>4. Heard(e, d, got[e])
      <4>1. Heard(e, conn[e], got[e])
        BY DEF Right, Faithful, Receives
      <4> QED
        BY <4>1 DEF Heard, Taken, Stream, SameRcv
    <3> QED
      BY <2>2, <3>3, <3>4 DEF CallFits, k
  <2>3. CASE t.pc \in Leaving /\ t.call = Call({"R", "A"}, d.nxt, <<>>)
    <3> DEFINE k == Call({"R", "A"}, d.nxt, <<>>)
    <3>1. k.flags = {"R", "A"} /\ k.seq = d.nxt /\ k.data = <<>>
      BY DEF Call
    <3> HIDE DEF k
    <3>2. Honest(e, o, t.pc, k, d.port) /\ ~Acking(k)
      BY <3>1 DEF Honest, Acking
    <3> QED
      BY <2>3, <3>2 DEF CallFits, k
  <2> QED
    BY <2>1, <2>2, <2>3
<1>4. t.pc \in Running /\ task[e].tx.pc \in Running /\ d.state \notin {"Listen", "SynSent"}
  BY DEF Running, Closers, Late
<1>5. UNCHANGED <<net, got, opens>> /\ acked'[Peer(e)] = acked[Peer(e)]
  OBVIOUS
<1> QED
  BY <1>1, <1>2, <1>3, <1>4, <1>5, SetRight DEF There, There2

\* A turn of the loop of close().
LEMMA CloseLoopRight ==
  ASSUME StreamSizes, Sane, Sane', Right, NEW e \in Ends, NEW c \in Conns, NEW o \in Ops, NEW give_up \in BOOLEAN,
         CloseLoop(e, c, o, give_up), UNCHANGED <<net, got, acked, opens>>, opens[e] >= 1,
         task[e].tx.pc \in Running \ {"done"}, task[e].tx.pc \in Leaving => o.fin = op[e].fin,
         SameRcv(conn[e], c), c.port = conn[e].port, c.state \in Late, Parting(e, c, o),
         c.state \in {"FinWait1", "Closing", "LastAck"} => Pos(e, c.una) < Pos(e, c.nxt)
  PROVE  Right'
<1>1. PICK d \in Conns, t \in Txs : ClosedOn(c, o, d, t) /\ Set(e, d, t, o)
  BY CloseLoopDoes
<1>2. /\ d.una = c.una /\ d.nxt = c.nxt /\ d.state = c.state /\ d.port = c.port /\ SameRcv(conn[e], d)
  <2>1. CASE d = [c EXCEPT !.tx = "none"]
    BY <2>1 DEF Conns, SameRcv
  <2>2. CASE d = c
    BY <2>2
  <2>3. CASE Keeps(c, d) /\ SameSnd(c, d)
    BY <2>3 DEF Keeps, SameWho, SameSnd, SameRcv
  <2> QED
    BY <1>1, <2>1, <2>2, <2>3 DEF ClosedOn
<1>3. Unacked(c) \/ c.state \notin {"FinWait1", "Closing", "LastAck"}
  <2> SUFFICES ASSUME c.state \in {"FinWait1", "Closing", "LastAck"} PROVE Unacked(c)
    OBVIOUS
  <2> DEFINE u == Pos(e, c.una)
             x == Pos(e, c.nxt)
             y == Pos(e, o.fin)
  <2>1. c.una \in SeqNums /\ c.nxt \in SeqNums /\ o.fin \in SeqNums
    BY DEF Conns, Ops
  <2>2. u \in Int /\ y \in Int
    <3>1. Pos(e, c.una) \in Int
      BY <2>1, PosIs
    <3>2. Pos(e, o.fin) \in Int
      BY <2>1, PosIs
    <3> QED
      BY <3>1, <3>2
  <2>3. x = y + 1 /\ y <= 1 + Total(e) /\ u < x
    BY DEF Parting
  <2>4. Total(e) \in Nat /\ Total(e) + 4 <= Half /\ Half \in Nat
    BY UptoIs, Space
  <2> HIDE DEF u, x, y
  <2>5. u < Half /\ x < Half
    BY <2>2, <2>3, <2>4
  <2>6. SeqLt(c.una, c.nxt)
    BY <2>1, <2>3, <2>5, PosLt DEF u, x
  <2> QED
    BY <2>6 DEF Unacked
<1>4. Parting(e, d, o)
  BY <1>2 DEF Parting
<1>5. CASE Unacked(c) /\ t = Sending("close", Call({"F", "A"}, o.fin, <<>>))
  <2>1. t.pc = "close" /\ t.call = Call({"F", "A"}, o.fin, <<>>)
    BY <1>5 DEF Sending, At
  <2> QED
    BY <1>1, <1>2, <1>4, <2>1, LateRight DEF Closers, Leaving
<1>6. CASE Unacked(c) /\ t = At("abort", "run")
  <2>1. t.pc = "abort" /\ t.call = NoCall
    BY <1>6 DEF At
  <2> QED
    BY <1>1, <1>2, <1>4, <2>1, LateRight DEF Closers
<1>7. CASE ~Unacked(c) /\ c.state = "FinWait2" /\ t = At("finwait", "wait")
  <2>1. t.pc = "finwait" /\ t.call = NoCall
    BY <1>7 DEF At
  <2> QED
    BY <1>1, <1>2, <1>4, <1>7, <2>1, LateRight DEF Closers
<1>8. CASE ~Unacked(c) /\ c.state # "FinWait2" /\ t = At("done", "idle")
  <2>1. t.pc = "done" /\ t.call = NoCall
    BY <1>8 DEF At
  <2>2. d.state \in {"TimeWait", "Closed"}
    BY <1>2, <1>3, <1>8 DEF Late
  <2> QED
    BY <1>1, <1>2, <2>1, <2>2, LateRight DEF Closers
<1> QED
  BY <1>1, <1>5, <1>6, <1>7, <1>8 DEF ClosedOn

LEMMA CloseRight ==
  ASSUME StreamSizes, Sane, Sane', Right, NEW e \in Ends, Close(e)
  PROVE  Right'
<1> DEFINE c == conn[e]
           d == [c EXCEPT !.nxt = Add(@, 1), !.retries = 0, !.state = IF @ = "Established" THEN "FinWait1" ELSE "LastAck"]
           o == [op[e] EXCEPT !.fin = c.nxt]
           u == Pos(e, c.una)
           x == Pos(e, c.nxt)
           n == op[e].sends
           a == acked[e]
<1>1. c \in Conns /\ op[e] \in Ops /\ Fine(e, c, task[e], op[e], opens[e]) /\ opens[e] \in 0 .. MaxOpens
  BY TxSane
<1>2. /\ task[e].tx.pc \in {"ready", "failed"} /\ UNCHANGED <<net, got, acked, opens>>
      /\ task[e].tx.pc = "ready" => n = Len(Sends[e][opens[e]])
  BY DEF Close, Stay, Script
<1>3. c.state \in {"Established", "CloseWait", "Closed"} /\ opens[e] = 1
  BY <1>1, <1>2 DEF Fine, Stages, Reached, Counts, StreamSizes
<1>4. task[e].tx.pc \in Running \ {"done"} /\ task[e].tx.pc \notin Leaving
  BY <1>2 DEF Running, Leaving
<1>5. c.una \in SeqNums /\ c.nxt \in SeqNums /\ n \in Nat
  BY <1>1 DEF Conns, Ops
<1>6. CASE Usable(c)
  <2>1. CloseLoop(e, d, o, FALSE)
    BY <1>6 DEF Close
  <2>2. Add(c.nxt, 1) \in SeqNums
    BY <1>5, AddNum
  <2>3. o \in Ops /\ o.fin = c.nxt /\ o.sends = n
    BY <1>1, <1>5 DEF Ops
  <2>4. /\ d \in Conns /\ SameRcv(c, d) /\ d.una = c.una /\ d.nxt = Add(c.nxt, 1) /\ d.port = c.port
        /\ d.state \in Late
    BY <1>1, <2>2 DEF Conns, States, SameRcv, Late
  <2>5. /\ 1 + a <= u /\ u <= x /\ x <= 1 + Total(e) /\ a \in Nat /\ u <= 1 + There2(e)
        /\ n = Len(Sends[e][1]) => x = 1 + Total(e)
    <3>1. /\ AtSend(e, task[e].tx, op[e], a, u, x) /\ a \in Nat /\ u \in Int /\ x \in Int
          /\ task[e].tx.pc \in Running \ {"done"} => u <= 1 + There2(e)
      BY SendsIs
    <3>2. CASE task[e].tx.pc = "ready"
      <4>1. u = 1 + a /\ x = 1 + a /\ a = Upto(e)[n] /\ n = Len(Sends[e][1])
        BY <1>2, <1>3, <3>1, <3>2 DEF AtSend
      <4>2. Total(e) = a
        BY <4>1 DEF Total
      <4> HIDE DEF u, x, a
      <4> QED
        BY <1>4, <3>1, <4>1, <4>2
    <3>3. CASE task[e].tx.pc = "failed"
      <4>1. n < Len(Sends[e][1]) /\ 1 + a <= u /\ u <= x /\ x <= 1 + Total(e)
        BY <3>1, <3>3 DEF AtSend
      <4>2. n # Len(Sends[e][1])
        BY <1>5, <4>1, UptoIs
      <4> QED
        BY <1>4, <3>1, <4>1, <4>2
    <3> QED
      BY <1>2, <3>2, <3>3
  <2>6. u \in Int /\ x \in Int /\ Total(e) \in Nat /\ Total(e) + 4 <= Half /\ Half \in Nat /\ SeqSpace = 2 * Half
    <3>1. u \in Int /\ x \in Int
      BY SendsIs
    <3>2. Total(e) \in Nat /\ Total(e) + 4 <= Half /\ Half \in Nat /\ SeqSpace = 2 * Half
      BY UptoIs, Space
    <3> QED
      BY <3>1, <3>2
  <2>7. Pos(e, d.nxt) = x + 1
    <3>1. x + 1 < SeqSpace
      <4> HIDE DEF x, u
      <4> QED
        BY <2>5, <2>6
    <3>2. Pos(e, Add(c.nxt, 1)) = Pos(e, c.nxt) + 1
      BY <1>5, <3>1, PosAdd
    <3> QED
      BY <2>4, <3>2
  <2>8. 1 <= u /\ 1 <= x /\ u < x + 1 /\ u <= x + 1
    <3> HIDE DEF x, u, a
    <3> QED
      BY <2>5, <2>6
  <2> HIDE DEF d, o
  <2>9. Parting(e, d, o) /\ Pos(e, d.una) < Pos(e, d.nxt)
    BY <2>3, <2>4, <2>5, <2>7, <2>8 DEF Parting
  <2>10. SameRcv(conn[e], d) /\ d.port = conn[e].port /\ opens[e] >= 1 /\ UNCHANGED <<net, got, acked, opens>>
    BY <1>2, <1>3, <2>4
  <2> HIDE DEF c
  <2> QED
    BY <1>4, <2>1, <2>3, <2>4, <2>9, <2>10, CloseLoopRight
<1>7. CASE ~Usable(c)
  <2>1. c.state = "Closed"
    BY <1>3, <1>7 DEF Usable
  <2>2. Set(e, c, At("done", "idle"), op[e])
    BY <1>7, <2>1 DEF Close
  <2>3. At("done", "idle") \in Txs /\ At("done", "idle").pc = "done" /\ At("done", "idle").call = NoCall
    BY AtIs DEF TxPcs
  <2>4. SameRcv(c, c) /\ c.state \in Late
    BY <2>1 DEF SameRcv, Late
  <2> QED
    BY <1>1, <1>2, <1>3, <1>4, <2>1, <2>2, <2>3, <2>4, LateRight DEF Closers
<1> QED
  BY <1>6, <1>7

\* The Conn c with no change to what close() goes by.
LEMMA PartingKeeps ==
  ASSUME StreamSizes, Sane, Right, NEW e \in Ends, task[e].tx.pc \in Leaving, NEW c, Keeps(conn[e], c),
         c.una = conn[e].una, c.nxt = conn[e].nxt
  PROVE  /\ Parting(e, c, op[e]) /\ c.state \in Late /\ opens[e] >= 1
         /\ c.state \in {"FinWait1", "Closing", "LastAck"} => Pos(e, c.una) < Pos(e, c.nxt)
         /\ task[e].tx.pc = "finwait" => c.state \in {"FinWait2", "TimeWait", "Closed"}
         /\ SameRcv(conn[e], c) /\ c.port = conn[e].port /\ c.state = conn[e].state
         /\ task[e].tx.pc \in Running \ {"done"}
<1>1. /\ Parting(e, conn[e], op[e]) /\ conn[e].state \in Late /\ opens[e] >= 1
      /\ conn[e].state \in {"FinWait1", "Closing", "LastAck"} => Pos(e, conn[e].una) < Pos(e, conn[e].nxt)
      /\ task[e].tx.pc = "finwait" => conn[e].state \in {"FinWait2", "TimeWait", "Closed"}
  BY PartingNow
<1>2. c.state = conn[e].state /\ c.port = conn[e].port /\ SameRcv(conn[e], c)
  BY DEF Keeps, SameWho
<1>3. Parting(e, c, op[e])
  BY <1>1 DEF Parting
<1> QED
  BY <1>1, <1>2, <1>3 DEF Running, Leaving

LEMMA CloseSentRight ==
  ASSUME StreamSizes, Sane, Sane', Right, NEW e \in Ends, CloseSent(e)
  PROVE  Right'
<1> DEFINE c == conn[e]
           w == [c EXCEPT !.tx = Await(@)]
           t == At("close", "wait")
<1>1. c \in Conns /\ op[e] \in Ops
  BY TxSane
<1>2. task[e].tx.pc = "close" /\ task[e].tx.pc \in Leaving /\ UNCHANGED <<net, got, acked, opens>>
  BY DEF CloseSent, Returned, Stay, Leaving
<1>3. Keeps(c, c)
  BY DEF Keeps, SameWho, SameRcv
<1>5. Set(e, w, t, op[e]) \/ CloseLoop(e, c, op[e], TRUE)
  BY DEF CloseSent, WaitTx
<1>6. CASE Set(e, w, t, op[e])
  <2>1. w \in Conns /\ Keeps(c, w) /\ w.una = c.una /\ w.nxt = c.nxt
    BY <1>1, AwaitIs DEF SameSnd
  <2>2. t \in Txs /\ t.pc = "close" /\ t.call = NoCall
    BY AtIs DEF TxPcs
  <2> HIDE DEF w, t
  <2>3. /\ Parting(e, w, op[e]) /\ w.state \in Late /\ opens[e] >= 1
        /\ w.state \in {"FinWait1", "Closing", "LastAck"} => Pos(e, w.una) < Pos(e, w.nxt)
        /\ SameRcv(c, w) /\ w.port = c.port /\ task[e].tx.pc \in Running \ {"done"}
    BY <1>2, <2>1, PartingKeeps
  <2>4. t.pc \in Closers
    BY <2>2 DEF Closers
  <2> QED
    BY <1>1, <1>2, <1>6, <2>1, <2>2, <2>3, <2>4, LateRight
<1>7. CASE CloseLoop(e, c, op[e], TRUE)
  <2>3. /\ Parting(e, c, op[e]) /\ c.state \in Late /\ opens[e] >= 1
        /\ c.state \in {"FinWait1", "Closing", "LastAck"} => Pos(e, c.una) < Pos(e, c.nxt)
        /\ SameRcv(c, c) /\ task[e].tx.pc \in Running \ {"done"}
    BY <1>2, <1>3, PartingKeeps
  <2> QED
    BY <1>1, <1>2, <1>7, <2>3, CloseLoopRight
<1> QED
  BY <1>5, <1>6, <1>7

LEMMA CloseWakeRight ==
  ASSUME StreamSizes, Sane, Sane', Right, NEW e \in Ends, CloseWake(e)
  PROVE  Right'
<1> DEFINE r == Resumed(e)
<1>1. conn[e] \in Conns /\ op[e] \in Ops
  BY TxSane
<1>2. /\ task[e].tx.pc \in Leaving /\ UNCHANGED <<net, got, acked, opens>> /\ CloseLoop(e, r, op[e], FALSE)
  BY DEF CloseWake, Stay, Woken, Waiting, Leaving
<1>4. r \in Conns /\ Keeps(conn[e], r) /\ r.una = conn[e].una /\ r.nxt = conn[e].nxt
  BY <1>1, ResumedIs DEF SameSnd
<1> HIDE DEF r
<1>5. /\ Parting(e, r, op[e]) /\ r.state \in Late /\ opens[e] >= 1
      /\ r.state \in {"FinWait1", "Closing", "LastAck"} => Pos(e, r.una) < Pos(e, r.nxt)
      /\ SameRcv(conn[e], r) /\ r.port = conn[e].port /\ task[e].tx.pc \in Running \ {"done"}
  BY <1>2, <1>4, PartingKeeps
<1> QED
  BY <1>1, <1>2, <1>4, <1>5, CloseLoopRight

LEMMA CloseTimeoutRight ==
  ASSUME StreamSizes, Sane, Sane', Right, NEW e \in Ends, CloseTimeout(e)
  PROVE  Right'
<1> DEFINE r == Resumed(e)
           c == [r EXCEPT !.retries = @ + 1]
           g == c.retries > MaxRetx
<1>1. conn[e] \in Conns /\ op[e] \in Ops
  BY TxSane
<1>2. /\ task[e].tx.pc \in Leaving /\ UNCHANGED <<net, got, acked, opens>> /\ CloseLoop(e, c, op[e], g)
  BY DEF CloseTimeout, Stay, TimedOut, Waiting, Leaving
<1>4. r \in Conns /\ Keeps(conn[e], r) /\ r.una = conn[e].una /\ r.nxt = conn[e].nxt
  BY <1>1, ResumedIs DEF SameSnd
<1> HIDE DEF r
<1>5. c \in Conns /\ Keeps(r, c) /\ c.una = r.una /\ c.nxt = r.nxt
  BY <1>4 DEF Conns, Keeps, SameWho, SameRcv
<1>6. g \in BOOLEAN
  OBVIOUS
<1> HIDE DEF c, g
<1>7. Keeps(conn[e], c) /\ c.una = conn[e].una /\ c.nxt = conn[e].nxt
  BY <1>4, <1>5, KeepsKeeps
<1>8. /\ Parting(e, c, op[e]) /\ c.state \in Late /\ opens[e] >= 1
      /\ c.state \in {"FinWait1", "Closing", "LastAck"} => Pos(e, c.una) < Pos(e, c.nxt)
      /\ SameRcv(conn[e], c) /\ c.port = conn[e].port /\ task[e].tx.pc \in Running \ {"done"}
  BY <1>2, <1>7, PartingKeeps
<1> QED
  BY <1>1, <1>2, <1>5, <1>6, <1>8, CloseLoopRight

LEMMA FinWaitOverRight ==
  ASSUME StreamSizes, Sane, Sane', Right, NEW e \in Ends, FinWaitOver(e)
  PROVE  Right'
<1> DEFINE r == Resumed(e)
           t == IF conn[e].state = "FinWait2" THEN At("abort", "run") ELSE At("done", "idle")
<1>1. conn[e] \in Conns /\ op[e] \in Ops
  BY TxSane
<1>2. /\ task[e].tx.pc = "finwait" /\ task[e].tx.pc \in Leaving /\ UNCHANGED <<net, got, acked, opens>>
      /\ Set(e, r, t, op[e])
  BY DEF FinWaitOver, Stay, Woken, TimedOut, Waiting, Leaving
<1>4. r \in Conns /\ Keeps(conn[e], r) /\ r.una = conn[e].una /\ r.nxt = conn[e].nxt
  BY <1>1, ResumedIs DEF SameSnd
<1>5. t \in Txs /\ t.call = NoCall /\ (t.pc = "abort" \/ (t.pc = "done" /\ conn[e].state # "FinWait2"))
  BY AtIs DEF TxPcs
<1> HIDE DEF r, t
<1>6. /\ Parting(e, r, op[e]) /\ r.state \in Late /\ opens[e] >= 1
      /\ r.state \in {"FinWait1", "Closing", "LastAck"} => Pos(e, r.una) < Pos(e, r.nxt)
      /\ SameRcv(conn[e], r) /\ r.port = conn[e].port /\ task[e].tx.pc \in Running \ {"done"}
      /\ r.state = conn[e].state /\ (task[e].tx.pc = "finwait" => r.state \in {"FinWait2", "TimeWait", "Closed"})
  BY <1>2, <1>4, PartingKeeps
<1>7. t.pc \in Closers /\ t.pc # "finwait" /\ (t.pc = "done" => r.state \in {"TimeWait", "Closed"})
  BY <1>2, <1>5, <1>6 DEF Closers
<1> QED
  BY <1>1, <1>2, <1>4, <1>5, <1>6, <1>7, LateRight

LEMMA AbortRight ==
  ASSUME StreamSizes, Sane, Sane', Right, NEW e \in Ends, Abort(e)
  PROVE  Right'
<1> DEFINE c == conn[e]
           r == ResetConn(c)
           q == Call({"R", "A"}, c.nxt, <<>>)
           s == Sending("abort", q)
           t == At("done", "idle")
<1>1. c \in Conns /\ op[e] \in Ops
  BY TxSane
<1>2. task[e].tx.pc = "abort" /\ task[e].tx.pc \in Leaving /\ UNCHANGED <<net, got, acked, opens>>
  BY DEF Abort, Stay, Leaving
<1>3. Keeps(c, c)
  BY DEF Keeps, SameWho, SameRcv
<1>4. Set(e, r, t, op[e]) \/ Set(e, c, s, op[e])
  BY DEF Abort
<1>5. r \in Conns /\ r.state = "Closed" /\ SameRcv(c, r) /\ r.port = c.port
  BY <1>1, ResetIs
<1>6. /\ Parting(e, c, op[e]) /\ c.state \in Late /\ opens[e] >= 1
      /\ c.state \in {"FinWait1", "Closing", "LastAck"} => Pos(e, c.una) < Pos(e, c.nxt)
      /\ SameRcv(c, c) /\ task[e].tx.pc \in Running \ {"done"}
  BY <1>2, <1>3, PartingKeeps
<1>7. c.nxt \in SeqNums
  BY <1>1 DEF Conns
<1>8. q \in Calls /\ q # NoCall
  BY <1>7, ControlCalls
<1>9. s \in Txs /\ s.pc = "abort" /\ s.call = q
  BY <1>8, SendingIs DEF TxPcs
<1>10. t \in Txs /\ t.pc = "done" /\ t.call = NoCall
  BY AtIs DEF TxPcs
<1> HIDE DEF r, s, t
<1>11. r.state \in Late
  BY <1>5 DEF Late
<1>12. CASE Set(e, r, t, op[e])
  BY <1>1, <1>2, <1>5, <1>6, <1>10, <1>11, <1>12, LateRight DEF Closers
<1>13. CASE Set(e, c, s, op[e])
  BY <1>1, <1>2, <1>6, <1>9, <1>13, LateRight DEF Closers, Leaving
<1> QED
  BY <1>4, <1>12, <1>13

LEMMA AbortSentRight ==
  ASSUME StreamSizes, Sane, Sane', Right, NEW e \in Ends, AbortSent(e)
  PROVE  Right'
<1> DEFINE c == conn[e]
           r == ResetConn(c)
           t == At("done", "idle")
<1>1. c \in Conns /\ op[e] \in Ops
  BY TxSane
<1>2. task[e].tx.pc = "abort" /\ UNCHANGED <<net, got, acked, opens>> /\ Set(e, r, t, op[e])
  BY DEF AbortSent, Returned, Stay
<1>3. opens[e] >= 1 /\ task[e].tx.pc \in Running \ {"done"}
  BY <1>2, LateIs DEF Running
<1>5. r \in Conns /\ r.state = "Closed" /\ SameRcv(c, r) /\ r.port = c.port
  BY <1>1, ResetIs
<1>10. t \in Txs /\ t.pc = "done" /\ t.call = NoCall
  BY AtIs DEF TxPcs
<1> HIDE DEF r, t
<1>11. r.state \in Late
  BY <1>5 DEF Late
<1> QED
  BY <1>1, <1>2, <1>3, <1>5, <1>10, <1>11, LateRight DEF Closers

(***************************************************************************)
(* The steps that leave the stream and the numbers as they are.            *)
(***************************************************************************)
LEMMA SameSends ==
  ASSUME NEW e, NEW c, NEW d, NEW t, NEW o, NEW a, NEW r, NEW w, Sends2(e, c, t, o, a, r, w),
         d.una = c.una, d.nxt = c.nxt, d.state \in {c.state, "Closed"}
  PROVE  Sends2(e, d, t, o, a, r, w)
<1> DEFINE u == Pos(e, c.una)
           x == Pos(e, c.nxt)
<1>1. /\ a <= r /\ (t.pc \in Running \ {"done"} => u <= 1 + w)
      /\ AtStart(c, t, o, a, u, x, Iss[e][1]) /\ AtSend(e, t, o, a, u, x) /\ AtClose(e, c, t, o, u, x)
  BY DEF Sends2
<1>2. Pos(e, d.una) = u /\ Pos(e, d.nxt) = x
  OBVIOUS
<1> HIDE DEF u, x
<1>3. AtStart(d, t, o, a, u, x, Iss[e][1])
  BY <1>1 DEF AtStart
<1>4. AtClose(e, d, t, o, u, x)
  BY <1>1 DEF AtClose
<1> QED
  BY <1>1, <1>2, <1>3, <1>4 DEF Sends2

LEMMA SameRight ==
  ASSUME StreamSizes, Sane, Sane', Right, NEW e \in Ends, NEW d \in Conns, NEW g \in Seq(Octets), Others(e), NetShrinks,
         conn'[e] = d, got'[e] = g, op'[e] = op[e], acked'[e] = acked[e], opens'[e] = opens[e],
         task'[e].tx = task[e].tx,
         Stream(d, g) = Stream(conn[e], got[e]), d.fin = conn[e].fin, d.rcv = conn[e].rcv, d.port = conn[e].port,
         d.una = conn[e].una, d.nxt = conn[e].nxt, d.state \in {conn[e].state, "Closed"},
         task'[e].in.call = task[e].in.call \/ CallFits(e, d, g, op[e], task[e].tx.pc, task'[e].in.call, opens[e]),
         task'[e].rx.call = task[e].rx.call \/ CallFits(e, d, g, op[e], task[e].tx.pc, task'[e].rx.call, opens[e])
  PROVE  Right'
<1> DEFINE c == conn[e]
           p == Peer(e)
           t == task[e].tx
<1>1. Taken(d, g) = Taken(c, got[e]) /\ (Heard(e, d, g) <=> Heard(e, c, got[e]))
  BY DEF Taken, Heard
<1>2. /\ Len(Stream(c, got[e])) <= Len(Stream(conn'[e], got'[e]))
      /\ Taken(c, got[e]) <= Taken(conn'[e], got'[e])
  <2>1. Len(Stream(c, got[e])) \in Nat /\ Taken(c, got[e]) \in Nat
    BY StreamIs DEF Sane, Typed
  <2> QED
    BY <1>1, <2>1
<1>3. Going(t.pc, op[e], task'[e].tx.pc, op'[e])
  BY DEF Going
<1>4. Faithful(e)
  BY DEF Right
<1>5. Receives(e, d, g, t.pc, opens[e])
  <2>1. Receives(e, c, got[e], t.pc, opens[e])
    BY <1>4 DEF Faithful
  <2>2. (d.state \in Linked \/ t.pc \in Running) => Heard(e, d, g)
    BY <1>1, <2>1 DEF Receives, Linked
  <2>3. (d.state \in {"Listen", "SynSent"} \/ opens[e] = 0) => Stream(d, g) = <<>> /\ ~d.fin
    BY <2>1 DEF Receives
  <2> QED
    BY <2>1, <2>2, <2>3 DEF Receives
<1>6. Finished(p, d, g, op[p], task[p].tx.pc)
  BY <1>4 DEF Faithful, Finished
<1>7. Sends2(e, d, t, op[e], acked[e], There(e), There2(e))
  <2>1. Sends2(e, c, t, op[e], acked[e], There(e), There2(e))
    BY <1>4 DEF Faithful, There, There2
  <2> QED
    BY <2>1, SameSends
<1>8. Asked(e, d, g, task'[e], op[e], opens[e])
  <2>1. Asked(e, c, got[e], task[e], op[e], opens[e])
    BY <1>4 DEF Faithful
  <2>2. \A y \in Tasks : CallFits(e, d, g, op[e], t.pc, task[e][y].call, opens[e])
    BY <1>1, <2>1 DEF Asked, CallFits
  <2>3. CallFits(e, d, g, op[e], t.pc, task'[e].tx.call, opens[e])
    BY <2>2 DEF Tasks
  <2>4. CallFits(e, d, g, op[e], t.pc, task'[e].in.call, opens[e])
    BY <2>2 DEF Tasks
  <2>5. CallFits(e, d, g, op[e], t.pc, task'[e].rx.call, opens[e])
    BY <2>2 DEF Tasks
  <2> QED
    BY <2>3, <2>4, <2>5 DEF Asked, Tasks, CallFits
<1> QED
  BY <1>2, <1>3, <1>5, <1>6, <1>7, <1>8, QuietRight DEF There, There2

\* A call for an acknowledgement, on an open connection.
LEMMA AckFits ==
  ASSUME NEW e, NEW d, NEW g, NEW o, NEW pc, NEW n, n >= 1, Heard(e, d, g), NEW q
  PROVE  CallFits(e, d, g, o, pc, Call({"A"}, q, <<>>), n)
<1> DEFINE k == Call({"A"}, q, <<>>)
<1>1. k.flags = {"A"} /\ k.data = <<>>
  BY DEF Call
<1> HIDE DEF k
<1>2. Honest(e, o, pc, k, d.port)
  BY <1>1 DEF Honest
<1> QED
  BY <1>2 DEF CallFits, k

LEMMA RecvRight ==
  ASSUME StreamSizes, Sane, Sane', Right, NEW e \in Ends, Recv(e)
  PROVE  Right'
<1>1. PICK d \in Conns, t \in Rxs :
        /\ RecvDone(conn[e], d, t) /\ conn' = [conn EXCEPT ![e] = d] /\ task' = [task EXCEPT ![e].rx = t]
        /\ got' \in [Ends -> Seq(Octets)] /\ got'[e] \o d.ring = got[e] \o conn[e].ring
        /\ \A x \in Ends \ {e} : got'[x] = got[x]
        /\ UNCHANGED <<op, net, acked, opens, faults, fails>>
  BY RecvDoes
<1>2. /\ conn'[e] = d /\ task'[e].rx = t /\ task'[e].in = task[e].in /\ task'[e].tx = task[e].tx
      /\ \A x \in Ends \ {e} : conn'[x] = conn[x] /\ task'[x] = task[x]
  <2>1. Typed
    BY DEF Sane
  <2> QED
    BY <1>1, <2>1, RxSet
<1>3. Peer(e) \in Ends \ {e}
  BY PeerIs
<1>4. Others(e)
  BY <1>1, <1>2, <1>3 DEF Others
<1>5. NetShrinks
  BY <1>1, FromSame DEF NetShrinks, Sane, Typed
<1>6. Stream(d, got'[e]) = Stream(conn[e], got[e]) /\ got'[e] \in Seq(Octets)
  BY <1>1 DEF Stream
<1>7. /\ d.fin = conn[e].fin /\ d.rcv = conn[e].rcv /\ d.port = conn[e].port /\ d.una = conn[e].una
      /\ d.nxt = conn[e].nxt /\ d.state = conn[e].state
  BY <1>1 DEF RecvDone, SameWho, SameSnd
<1>8. CallFits(e, d, got'[e], op[e], task[e].tx.pc, t.call, opens[e])
  <2>1. CASE t.call = NoCall
    BY <2>1, NoCallFits
  <2>2. CASE t = Sending("recv", Call({"A"}, conn[e].nxt, <<>>))
    <3>1. t.call = Call({"A"}, conn[e].nxt, <<>>)
      BY <2>2 DEF Sending, At
    <3>2. Fine(e, conn[e], task[e], op[e], opens[e]) /\ task[e].tx.pc \in TxPcs
      BY TxSane
    <3>3. task[e].rx.pc = "recv"
      BY DEF Recv
    <3>4. task[e].tx.pc \in Running /\ opens[e] >= 1
      BY <3>2, <3>3 DEF Fine, Stages, Counts, Running, TxPcs
    <3>5. Heard(e, conn[e], got[e])
      BY <3>4 DEF Right, Faithful, Receives
    <3>6. Heard(e, d, got'[e])
      BY <1>6, <1>7, <3>5 DEF Heard, Taken
    <3> QED
      BY <3>1, <3>4, <3>6, AckFits
  <2>3. t.call = NoCall \/ t = Sending("recv", Call({"A"}, conn[e].nxt, <<>>))
    BY <1>1 DEF RecvDone, At
  <2> QED
    BY <2>1, <2>2, <2>3
<1>9. op'[e] = op[e] /\ acked'[e] = acked[e] /\ opens'[e] = opens[e]
  BY <1>1
<1> QED
  BY <1>2, <1>4, <1>5, <1>6, <1>7, <1>8, <1>9, SameRight

LEMMA InputReturnRight ==
  ASSUME StreamSizes, Sane, Sane', Right, NEW e \in Ends, InputReturn(e)
  PROVE  Right'
<1> DEFINE d == NotifyTxOnly(conn[e])
           t == At("input", "idle")
<1>1. conn[e] \in Conns /\ got[e] \in Seq(Octets)
  BY DEF Sane, Typed
<1>2. d \in Conns /\ SameWho(conn[e], d) /\ SameSnd(conn[e], d) /\ SameRcv(conn[e], d)
  BY <1>1, NotifyTxIs
<1>3. conn' = [conn EXCEPT ![e] = d] /\ task' = [task EXCEPT ![e].in = t] /\ UNCHANGED <<op, net, got, acked, opens>>
  BY DEF InputReturn, NotifyTxOnly, Sane, Typed
<1>4. t \in Ins /\ t.call = NoCall
  BY DEF At, Ins, Calls
<1> HIDE DEF d, t
<1>5. /\ conn'[e] = d /\ task'[e].in = t /\ task'[e].tx = task[e].tx /\ task'[e].rx = task[e].rx
      /\ \A x \in Ends \ {e} : conn'[x] = conn[x] /\ task'[x] = task[x]
  <2>1. Typed
    BY DEF Sane
  <2> QED
    BY <1>2, <1>3, <1>4, <2>1, InSet
<1>6. Peer(e) \in Ends \ {e}
  BY PeerIs
<1>7. Others(e)
  BY <1>3, <1>5, <1>6 DEF Others
<1>8. NetShrinks
  BY <1>3, FromSame DEF NetShrinks, Sane, Typed
<1>9. Stream(d, got[e]) = Stream(conn[e], got[e])
  BY <1>2 DEF Stream, SameRcv
<1>10. CallFits(e, d, got[e], op[e], task[e].tx.pc, t.call, opens[e])
  BY <1>4, NoCallFits
<1>11. /\ d.fin = conn[e].fin /\ d.rcv = conn[e].rcv /\ d.port = conn[e].port /\ d.una = conn[e].una
       /\ d.nxt = conn[e].nxt /\ d.state = conn[e].state
  BY <1>2 DEF SameWho, SameRcv, SameSnd
<1> QED
  BY <1>1, <1>2, <1>3, <1>5, <1>7, <1>8, <1>9, <1>10, <1>11, SameRight

LEMMA TickRight ==
  ASSUME StreamSizes, Sane, Sane', Right, NEW e \in Ends, Tick(e)
  PROVE  Right'
<1> DEFINE d == Unbind(conn[e])
<1>1. conn[e] \in Conns /\ got[e] \in Seq(Octets)
  BY DEF Sane, Typed
<1>2. d \in Conns /\ d.state = "Closed" /\ d.port = conn[e].port /\ SameSnd(conn[e], d) /\ SameRcv(conn[e], d)
  BY <1>1, UnbindIs
<1>3. conn' = [conn EXCEPT ![e] = d] /\ UNCHANGED <<task, op, net, got, acked, opens>>
  BY DEF Tick, Sane, Typed
<1> HIDE DEF d
<1>4. Peer(e) \in Ends \ {e}
  BY PeerIs
<1>5. conn'[e] = d /\ Others(e)
  BY <1>3, <1>4 DEF Others, Sane, Typed
<1>6. NetShrinks
  BY <1>3, FromSame DEF NetShrinks, Sane, Typed
<1>7. Stream(d, got[e]) = Stream(conn[e], got[e]) /\ d.fin = conn[e].fin /\ d.rcv = conn[e].rcv
      /\ d.una = conn[e].una /\ d.nxt = conn[e].nxt
  BY <1>2 DEF Stream, SameRcv, SameSnd
<1> QED
  BY <1>1, <1>2, <1>3, <1>5, <1>6, <1>7, SameRight

LEMMA LoseRight ==
  ASSUME StreamSizes, Sane, Sane', Right, NEW e \in Ends, Lose(e)
  PROVE  Right'
<1>1. NetShrinks /\ UNCHANGED <<conn, task, op, got, acked, opens, fails>>
  BY LoseKeeps
<1>2. conn[e] \in Conns /\ got[e] \in Seq(Octets)
  BY DEF Sane, Typed
<1>3. Others(e)
  BY <1>1 DEF Others
<1> QED
  BY <1>1, <1>2, <1>3, SameRight

(* ---- send_segment() and send_rst() ---- *)
LEMMA RstForSays ==
  ASSUME NEW s
  PROVE  RstFor(s).flags \in {{"R"}, {"R", "A"}} /\ RstFor(s).data = <<>>
<1>1. CASE "A" \in s.flags
  BY <1>1 DEF RstFor
<1>2. CASE "A" \notin s.flags
  BY <1>2 DEF RstFor
<1> QED
  BY <1>1, <1>2

\* The body of the send puts under way what the call says, and what has been received by now.
LEMMA WrittenSays ==
  ASSUME StreamSizes, Sane, Right, NEW e \in Ends, NEW t \in Tasks, task[e][t].call \in Calls, task[e][t].call # NoCall
  PROVE  LET s == Written(e, task[e][t].call)
         IN /\ Honest(e, op[e], task[e].tx.pc, s, s.port)
            /\ Acking(s) => 1 <= Pos(Peer(e), s.ack) /\ Pos(Peer(e), s.ack) <= 1 + Taken(conn[e], got[e])
<1> DEFINE k == task[e][t].call
           c == conn[e]
           g == got[e]
           s == Written(e, k)
<1>1. CASE k.kind = "rst"
  <2>1. s = RstFor(k.offender)
    BY <1>1 DEF Written
  <2>2. s.flags \in {{"R"}, {"R", "A"}} /\ s.data = <<>>
    BY <2>1, RstForSays
  <2> HIDE DEF s
  <2>3. "S" \notin s.flags /\ "F" \notin s.flags /\ "R" \in s.flags
    BY <2>2
  <2>4. Honest(e, op[e], task[e].tx.pc, s, s.port) /\ ~Acking(s)
    BY <2>2, <2>3 DEF Honest, Acking
  <2> QED
    BY <2>4 DEF s
<1>2. CASE k.kind = "segment"
  <2>1. s = Segment(c, k)
    BY <1>2 DEF Written
  <2>2. s.port = c.port /\ s.flags = k.flags /\ s.seq = k.seq /\ s.data = k.data /\ ("A" \in k.flags => s.ack = c.rcv)
    BY <2>1 DEF Segment
  <2>3. Honest(e, op[e], task[e].tx.pc, k, c.port) /\ (Acking(k) => Heard(e, c, g))
    BY <1>2 DEF Right, Faithful, Asked
  <2> HIDE DEF s
  <2>4. Honest(e, op[e], task[e].tx.pc, s, s.port)
    BY <2>2, <2>3 DEF Honest
  <2>5. Taken(c, g) \in Nat
    <3>1. c \in Conns /\ g \in Seq(Octets)
      BY DEF Sane, Typed
    <3> QED
      BY <3>1, StreamIs
  <2>6. ASSUME Acking(s)
        PROVE  1 <= Pos(Peer(e), s.ack) /\ Pos(Peer(e), s.ack) <= 1 + Taken(c, g)
    <3>1. Acking(k) /\ s.ack = c.rcv
      BY <2>2, <2>6 DEF Acking
    <3>2. Pos(Peer(e), s.ack) = 1 + Taken(c, g)
      BY <2>3, <3>1 DEF Heard
    <3> QED
      BY <2>5, <3>2
  <2> QED
    BY <2>4, <2>6 DEF s
<1>3. k.kind = "rst" \/ k.kind = "segment"
  BY CallKinds
<1> QED
  BY <1>1, <1>2, <1>3

LEMMA SentSends ==
  ASSUME NEW e, NEW c, NEW d, NEW t, NEW t2, NEW o, NEW a, NEW r, NEW w, Sends2(e, c, t, o, a, r, w),
         d.una = c.una, d.nxt = c.nxt, d.state = c.state, t2.pc = t.pc,
         t2.phase \in {"call", "ret"} => t.phase \in {"call", "ret"}
  PROVE  Sends2(e, d, t2, o, a, r, w)
<1> DEFINE u == Pos(e, c.una)
           x == Pos(e, c.nxt)
<1>1. /\ a <= r /\ (t.pc \in Running \ {"done"} => u <= 1 + w)
      /\ AtStart(c, t, o, a, u, x, Iss[e][1]) /\ AtSend(e, t, o, a, u, x) /\ AtClose(e, c, t, o, u, x)
  BY DEF Sends2
<1> HIDE DEF u, x
<1>2. AtStart(d, t2, o, a, u, x, Iss[e][1])
  BY <1>1 DEF AtStart
<1>3. AtSend(e, t2, o, a, u, x)
  BY <1>1 DEF AtSend
<1>4. AtClose(e, d, t2, o, u, x)
  BY <1>1 DEF AtClose
<1> QED
  BY <1>1, <1>2, <1>3, <1>4 DEF Sends2, u, x

\* The task that has sent is at t2, whatever it does next.
LEMMA EmittedRight ==
  ASSUME StreamSizes, Sane, Sane', Right, NEW e \in Ends, NEW t \in Tasks, Emit(e, t),
         task[e][t].call \in Calls, task[e][t].call # NoCall,
         \A x \in Ends \ {e} : task'[x] = task[x],
         \A x \in Tasks : task'[e][x].call \in {task[e][x].call, NoCall},
         task'[e].tx.pc = task[e].tx.pc,
         task'[e].tx.phase \in {"call", "ret"} => task[e].tx.phase \in {"call", "ret"}
  PROVE  Right'
<1> DEFINE c == conn[e]
           g == got[e]
           p == Peer(e)
           k == task[e][t].call
<1>1. p \in Ends /\ p # e
  BY PeerIs
<1>2. PICK w \in BOOLEAN : /\ conn' = [conn EXCEPT ![e] = [conn[e] EXCEPT !.wnd_closed = w]]
                           /\ NetGrows(e, k) /\ UNCHANGED <<op, got, acked, opens>>
  BY EmitDoes
<1> DEFINE d == [conn[e] EXCEPT !.wnd_closed = w]
<1>3. Typed /\ c \in Conns /\ g \in Seq(Octets) /\ net[e] \in Nets
  BY DEF Sane, Typed
<1>4. conn'[e] = d /\ conn'[p] = conn[p]
  BY <1>1, <1>2, <1>3 DEF Typed
<1>5. /\ d.state = c.state /\ d.port = c.port /\ d.una = c.una /\ d.nxt = c.nxt /\ d.rcv = c.rcv
      /\ d.ring = c.ring /\ d.fin = c.fin
  BY <1>3 DEF Conns
<1> HIDE DEF d
<1>6. Others(e)
  BY <1>1, <1>2, <1>4 DEF Others
<1>7. Stream(d, g) = Stream(c, g) /\ Taken(d, g) = Taken(c, g) /\ (Heard(e, d, g) <=> Heard(e, c, g))
  BY <1>5 DEF Stream, Taken, Heard
<1>8. Len(Stream(c, g)) \in Nat /\ Taken(c, g) \in Nat
  BY <1>3, StreamIs
<1>9. Faithful(e)
  BY DEF Right
<1>10. /\ net'[e] = net[e]
       /\ \A j \in 1 .. Len(net'[p]) :
            net'[p][j] = Written(e, k) \/ \E m \in 1 .. Len(net[p]) : net'[p][j] = net[p][m]
  BY <1>2, <1>3, NetGrowsIs
<1>11. From(net'[e], net[e])
  BY <1>3, <1>10, FromSame
<1>12. Going(task[e].tx.pc, op[e], task'[e].tx.pc, op'[e])
  BY <1>2 DEF Going
<1>13. Receives(e, d, g, task'[e].tx.pc, opens'[e])
  BY <1>2, <1>5, <1>7, <1>9 DEF Faithful, Receives
<1>14. Finished(p, d, g, op[p], task[p].tx.pc)
  BY <1>5, <1>7, <1>9 DEF Faithful, Finished
<1>15. Sends2(e, d, task'[e].tx, op'[e], acked'[e], Len(Stream(conn[p], got[p])), Taken(conn[p], got[p]))
  <2>1. Sends2(e, c, task[e].tx, op[e], acked[e], Len(Stream(conn[p], got[p])), Taken(conn[p], got[p]))
    BY <1>9 DEF Faithful
  <2>2. Sends2(e, d, task'[e].tx, op[e], acked[e], Len(Stream(conn[p], got[p])), Taken(conn[p], got[p]))
    BY <1>5, <2>1, SentSends
  <2> QED
    BY <1>2, <2>2
<1>16. Asked(e, d, g, task'[e], op'[e], opens'[e])
  <2> SUFFICES ASSUME NEW x \in Tasks, task'[e][x].call.kind = "segment"
               PROVE  /\ opens'[e] >= 1
                      /\ Honest(e, op'[e], task'[e].tx.pc, task'[e][x].call, d.port)
                      /\ Acking(task'[e][x].call) => Heard(e, d, g)
    BY DEF Asked
  <2>1. task'[e][x].call = task[e][x].call
    BY DEF NoCall
  <2> QED
    BY <1>2, <1>5, <1>7, <1>9, <2>1 DEF Faithful, Asked
<1>17. Sent(e, op'[e], task'[e].tx.pc, net'[p], Taken(d, g))
  <2> SUFFICES ASSUME NEW j \in 1 .. Len(net'[p])
               PROVE  /\ Honest(e, op[e], task[e].tx.pc, net'[p][j], net'[p][j].port)
                      /\ Acking(net'[p][j]) => 1 <= Pos(p, net'[p][j].ack) /\ Pos(p, net'[p][j].ack) <= 1 + Taken(c, g)
    BY <1>2, <1>7 DEF Sent
  <2>1. CASE net'[p][j] = Written(e, k)
    BY <2>1, WrittenSays
  <2>2. CASE \E m \in 1 .. Len(net[p]) : net'[p][j] = net[p][m]
    BY <2>2, <1>9 DEF Faithful, Sent
  <2> QED
    BY <1>10, <2>1, <2>2
<1>18. got'[e] = g
  BY <1>2
<1>19. /\ Len(Stream(c, g)) <= Len(Stream(d, g))
       /\ Taken(c, g) <= Taken(d, g)
  BY <1>7, <1>8
<1> QED
  BY <1>4, <1>6, <1>11, <1>12, <1>13, <1>14, <1>15, <1>16, <1>17, <1>18, <1>19, StepRight

LEMMA EmitRight ==
  ASSUME StreamSizes, Sane, Sane', Right, NEW e \in Ends, NEW t \in Tasks, Emit(e, t)
  PROVE  Right'
<1>1. PICK ok \in BOOLEAN : task' = [task EXCEPT ![e][t] = AfterSend(task[e][t], ok)]
  BY EmitDoes
<1>2. task[e] \in Teams /\ task[e].in \in Ins /\ task[e].tx \in Txs /\ task[e].rx \in Rxs /\ Phases(task[e])
  BY DEF Sane, Typed, Teams, Fine
<1>3. task[e][t].phase = "call"
  BY DEF Emit
<1>4. CASE t = "in"
  <2>1. task' = [task EXCEPT ![e].in = AfterSend(task[e].in, ok)]
    BY <1>1, <1>4
  <2>2. AfterSend(task[e].in, ok) \in Ins /\ AfterSend(task[e].in, ok).call = NoCall
    BY <1>2, AfterSendIs
  <2>3. /\ \A x \in Ends \ {e} : task'[x] = task[x]
        /\ task'[e].in = AfterSend(task[e].in, ok) /\ task'[e].tx = task[e].tx /\ task'[e].rx = task[e].rx
    BY <1>2, <2>1, <2>2 DEF Sane, Typed, Teams
  <2>4. task[e][t].call \in Calls /\ task[e][t].call # NoCall
    BY <1>2, <1>3, <1>4 DEF Ins, Phases
  <2>5. \A x \in Tasks : task'[e][x].call \in {task[e][x].call, NoCall}
    BY <2>2, <2>3 DEF Tasks
  <2> QED
    BY <2>3, <2>4, <2>5, EmittedRight
<1>5. CASE t = "tx"
  <2>1. task' = [task EXCEPT ![e].tx = AfterSend(task[e].tx, ok)]
    BY <1>1, <1>5
  <2>2. /\ AfterSend(task[e].tx, ok) \in Txs
        /\ AfterSend(task[e].tx, ok).pc = task[e].tx.pc /\ AfterSend(task[e].tx, ok).call = NoCall
    BY <1>2, AfterSendIs
  <2>3. /\ \A x \in Ends \ {e} : task'[x] = task[x]
        /\ task'[e].tx = AfterSend(task[e].tx, ok) /\ task'[e].in = task[e].in /\ task'[e].rx = task[e].rx
    BY <1>2, <2>1, <2>2 DEF Sane, Typed, Teams
  <2>4. task[e].tx.phase \in {"call", "ret"}
    BY <1>3, <1>5
  <2>5. task[e][t].call \in Calls /\ task[e][t].call # NoCall
    BY <1>2, <1>3, <1>5 DEF Txs, Phases
  <2>6. \A x \in Tasks : task'[e][x].call \in {task[e][x].call, NoCall}
    BY <2>2, <2>3 DEF Tasks
  <2> QED
    BY <2>2, <2>3, <2>4, <2>5, <2>6, EmittedRight
<1>6. CASE t = "rx"
  <2>1. task' = [task EXCEPT ![e].rx = AfterSend(task[e].rx, ok)]
    BY <1>1, <1>6
  <2>0. task[e].rx.phase = "call" /\ task[e].rx.pc = "recv"
    BY <1>2, <1>3, <1>6 DEF Phases
  <2>2. AfterSend(task[e].rx, ok) = At("recv", "run")
    BY <1>2, <2>0, AfterSendIs
  <2>3. At("recv", "run").call = NoCall
    BY DEF At
  <2>4. /\ \A x \in Ends \ {e} : task'[x] = task[x]
        /\ task'[e].rx = At("recv", "run") /\ task'[e].in = task[e].in /\ task'[e].tx = task[e].tx
    BY <1>2, <2>1, <2>2 DEF Sane, Typed, Teams
  <2>5. task[e][t].call \in Calls /\ task[e][t].call # NoCall
    BY <1>2, <1>3, <1>6 DEF Rxs, Phases
  <2>6. \A x \in Tasks : task'[e][x].call \in {task[e][x].call, NoCall}
    BY <2>3, <2>4 DEF Tasks
  <2> QED
    BY <2>4, <2>5, <2>6, EmittedRight
<1> QED
  BY <1>4, <1>5, <1>6 DEF Tasks

(***************************************************************************)
(* tcp::input()                                                            *)
(***************************************************************************)
LEMMA ArrivedSays ==
  ASSUME StreamSizes, Sane, Right, NEW e \in Ends, NEW m \in 1 .. Len(net[e])
  PROVE  LET s == net[e][m]
             p == Peer(e)
         IN /\ s \in Segments /\ Honest(p, op[p], task[p].tx.pc, s, s.port)
            /\ Acking(s) => 1 <= Pos(e, s.ack) /\ Pos(e, s.ack) <= 1 + There2(e)
<1> DEFINE p == Peer(e)
<1>1. p \in Ends /\ Peer(p) = e
  BY PeerIs
<1>2. Sent(p, op[p], task[p].tx.pc, net[e], Taken(conn[p], got[p]))
  BY <1>1 DEF Right, Faithful
<1>3. net[e] \in Nets
  BY DEF Sane, Typed
<1>4. net[e][m] \in Segments
  BY <1>3, ElementOfSeq DEF Nets
<1> QED
  BY <1>1, <1>2, <1>4 DEF Sent, There2

LEMMA AtBase ==
  ASSUME StreamSizes, NEW e \in Ends, NEW q \in SeqNums, Pos(e, q) = 0
  PROVE  q = Iss[e][1]
<1>1. Add(Iss[e][1], 0) = q
  BY PosIs
<1>2. Add(Iss[e][1], 0) = Iss[e][1]
  BY BaseIs, AddIs, Space
<1> QED
  BY <1>1, <1>2

\* The calls that stand, and the new one, when what has been received is known.
LEMMA HeardAsked ==
  ASSUME NEW e, NEW c, NEW d, NEW g, NEW k, NEW k2, NEW o, NEW n, Asked(e, c, g, k, o, n), Heard(e, d, g), d.port = c.port,
         k2.tx = k.tx, k2.rx = k.rx, CallFits(e, d, g, o, k.tx.pc, k2.in.call, n)
  PROVE  Asked(e, d, g, k2, o, n)
<1> SUFFICES ASSUME NEW x \in Tasks, k2[x].call.kind = "segment"
             PROVE  n >= 1 /\ Honest(e, o, k.tx.pc, k2[x].call, d.port) /\ (Acking(k2[x].call) => Heard(e, d, g))
  BY DEF Asked
<1>1. CASE x = "in"
  BY <1>1 DEF CallFits
<1>2. CASE x \in {"tx", "rx"}
  <2>1. k2[x] = k[x]
    BY <1>2
  <2> QED
    BY <2>1 DEF Asked
<1> QED
  BY <1>1, <1>2 DEF Tasks

\* What every outcome of tcp::input() has for the step.
LEMMA ArriveIs ==
  ASSUME Sane, NEW e \in Ends, NEW d \in Conns, NEW t \in Ins, conn' = [conn EXCEPT ![e] = d],
         task' = [task EXCEPT ![e].in = t], UNCHANGED <<op, got, acked, opens>>
  PROVE  /\ Others(e) /\ conn'[e] = d /\ task'[e].in = t /\ task'[e].tx = task[e].tx /\ task'[e].rx = task[e].rx
         /\ conn[e] \in Conns /\ got[e] \in Seq(Octets) /\ op'[e] = op[e] /\ got'[e] = got[e]
         /\ acked'[e] = acked[e] /\ opens'[e] = opens[e] /\ opens[e] \in 0 .. MaxOpens /\ task[e] \in Teams
         /\ Fine(e, conn[e], task[e], op[e], opens[e])
<1>1. Typed /\ Fine(e, conn[e], task[e], op[e], opens[e])
  BY DEF Sane
<1>2. Peer(e) \in Ends /\ Peer(e) # e
  BY PeerIs
<1>3. /\ conn'[e] = d /\ task'[e].in = t /\ task'[e].tx = task[e].tx /\ task'[e].rx = task[e].rx
      /\ \A x \in Ends \ {e} : conn'[x] = conn[x] /\ task'[x] = task[x]
  BY <1>1, InSet
<1> QED
  BY <1>1, <1>2, <1>3 DEF Others, Typed

\* The segment changes nothing of the stream or the numbers.
LEMMA ArriveSame ==
  ASSUME StreamSizes, Sane, Sane', Right, NEW e \in Ends, NEW d \in Conns, NEW t \in Ins, conn' = [conn EXCEPT ![e] = d],
         task' = [task EXCEPT ![e].in = t], NetShrinks, UNCHANGED <<op, got, acked, opens>>,
         SameRcv(conn[e], d), d.port = conn[e].port, d.una = conn[e].una, d.nxt = conn[e].nxt,
         d.state \in {conn[e].state, "Closed"},
         CallFits(e, d, got[e], op[e], task[e].tx.pc, t.call, opens[e])
  PROVE  Right'
<1>1. /\ Others(e) /\ conn'[e] = d /\ task'[e].in = t /\ task'[e].tx = task[e].tx /\ task'[e].rx = task[e].rx
      /\ conn[e] \in Conns /\ got[e] \in Seq(Octets) /\ op'[e] = op[e] /\ got'[e] = got[e]
      /\ acked'[e] = acked[e] /\ opens'[e] = opens[e] /\ opens[e] \in 0 .. MaxOpens /\ task[e] \in Teams
      /\ Fine(e, conn[e], task[e], op[e], opens[e])
  BY ArriveIs
<1>2. Stream(d, got[e]) = Stream(conn[e], got[e]) /\ d.fin = conn[e].fin /\ d.rcv = conn[e].rcv
  BY DEF SameRcv, Stream
<1> QED
  BY <1>1, <1>2, SameRight

LEMMA RepeatedRight ==
  ASSUME StreamSizes, Sane, Sane', Right, NEW e \in Ends, NEW d \in Conns, NEW t \in Ins, conn' = [conn EXCEPT ![e] = d],
         task' = [task EXCEPT ![e].in = t], NetShrinks, UNCHANGED <<op, got, acked, opens>>,
         Repeated(conn[e], d, t.call)
  PROVE  Right'
<1> DEFINE c == conn[e]
           k == Call({"S", "A"}, c.una, <<>>)
<1>1. d = c /\ c.state = "SynReceived" /\ t.call = k
  BY DEF Repeated
<1>2. c \in Conns /\ task[e] \in Teams /\ Fine(e, c, task[e], op[e], opens[e])
  BY ArriveIs
<1>3. task[e].tx.pc = "accept" /\ opens[e] >= 1
  BY <1>1, <1>2 DEF Fine, Stages, Counts, Reached, Late, Teams, Txs, TxPcs
<1>4. Pos(e, c.una) = 0
  <2>1. AtStart(c, task[e].tx, op[e], acked[e], Pos(e, c.una), Pos(e, c.nxt), Iss[e][1])
    BY SendsIs
  <2> QED
    BY <1>1, <1>3, <2>1 DEF AtStart
<1>5. c.una \in SeqNums
  BY <1>2 DEF Conns
<1>6. c.una = Iss[e][1]
  BY <1>4, <1>5, AtBase
<1>7. Heard(e, c, got[e])
  <2>1. Receives(e, c, got[e], task[e].tx.pc, opens[e])
    BY DEF Right, Faithful
  <2> QED
    BY <1>1, <2>1 DEF Receives, Linked, States
<1>8. k.flags = {"S", "A"} /\ k.seq = c.una /\ k.data = <<>>
  BY DEF Call
<1> HIDE DEF k
<1>9. CallFits(e, d, got[e], op[e], task[e].tx.pc, t.call, opens[e])
  BY <1>1, <1>3, <1>6, <1>7, <1>8 DEF CallFits, Honest
<1>10. SameRcv(c, d) /\ d.port = c.port /\ d.una = c.una /\ d.nxt = c.nxt /\ d.state \in {c.state, "Closed"}
  BY <1>1 DEF SameRcv
<1> QED
  BY <1>9, <1>10, ArriveSame

\* The first syn of the peer, on a listening Conn.
LEMMA AnsweredRight ==
  ASSUME StreamSizes, Sane, Sane', Right, NEW e \in Ends, NEW m \in 1 .. Len(net[e]), NEW d \in Conns, NEW t \in Ins,
         conn' = [conn EXCEPT ![e] = d], task' = [task EXCEPT ![e].in = t], NetShrinks,
         UNCHANGED <<op, got, acked, opens>>, Answered(e, conn[e], net[e][m], d, t.call)
  PROVE  Right'
<1> DEFINE c == conn[e]
           g == got[e]
           p == Peer(e)
           s == net[e][m]
           b == Iss[e][1]
           k == Call({"S", "A"}, b, <<>>)
<1>1. /\ Others(e) /\ conn'[e] = d /\ task'[e].in = t /\ task'[e].tx = task[e].tx /\ task'[e].rx = task[e].rx
      /\ c \in Conns /\ g \in Seq(Octets) /\ op'[e] = op[e] /\ got'[e] = got[e]
      /\ acked'[e] = acked[e] /\ opens'[e] = opens[e] /\ opens[e] \in 0 .. MaxOpens /\ task[e] \in Teams
      /\ Fine(e, c, task[e], op[e], opens[e])
  BY ArriveIs
<1>2. p \in Ends
  BY PeerIs
<1>3. c.state = "Listen"
  BY DEF Answered
<1>4. task[e].tx.pc = "accept" /\ opens[e] = 1
  <2>1. task[e].tx.pc = "accept"
    BY <1>1, <1>3 DEF Fine, Stages, Reached, Late, Teams, Txs, TxPcs
  <2>2. opens[e] >= 1
    BY <1>1, <1>3 DEF Fine, Counts
  <2> QED
    BY <1>1, <2>1, <2>2 DEF StreamSizes
<1>5. /\ d.state = "SynReceived" /\ d.una = b /\ d.nxt = Add(b, 1) /\ d.rcv = Add(s.seq, 1)
      /\ d.ring = c.ring /\ d.fin = c.fin /\ t.call = k /\ "S" \in s.flags
  BY <1>4 DEF Answered
<1>6. s \in Segments /\ s.seq = Iss[p][1]
  BY <1>5, ArrivedSays DEF Honest
<1>7. Receives(e, c, g, task[e].tx.pc, opens[e]) /\ Asked(e, c, g, task[e], op[e], opens[e])
  BY DEF Right, Faithful
<1>8. Stream(c, g) = <<>> /\ ~c.fin
  BY <1>3, <1>7 DEF Receives
<1>9. Stream(d, g) = <<>> /\ ~d.fin /\ Taken(d, g) = 0 /\ Taken(c, g) = 0
  BY <1>5, <1>8 DEF Stream, Taken
<1>10. Pos(p, d.rcv) = 1
  <2>1. Pos(p, s.seq) = 0 /\ s.seq \in SeqNums
    BY <1>2, <1>6, PosBase DEF Segments
  <2>2. Pos(p, s.seq) + 1 < SeqSpace
    BY <2>1, Space
  <2>3. Pos(p, Add(s.seq, 1)) = Pos(p, s.seq) + 1
    BY <1>2, <2>1, <2>2, PosAdd
  <2> QED
    BY <1>5, <2>1, <2>3
<1>11. Heard(e, d, g)
  BY <1>9, <1>10 DEF Heard
<1>12. Pos(e, d.una) = 0 /\ Pos(e, d.nxt) = 1
  <2>1. Pos(e, b) = 0 /\ b \in SeqNums
    BY BaseIs, PosBase
  <2> HIDE DEF b
  <2>2. Pos(e, b) + 1 < SeqSpace
    BY <2>1, Space
  <2>3. Pos(e, Add(b, 1)) = Pos(e, b) + 1
    BY <2>1, <2>2, PosAdd
  <2> QED
    BY <1>5, <2>1, <2>3 DEF b
<1>13. Receives(e, d, g, task[e].tx.pc, opens[e])
  <2>1. Total(p) \in Nat
    BY <1>2, UptoIs
  <2> QED
    BY <1>4, <1>5, <1>9, <1>11, <2>1 DEF Receives
<1>14. Finished(p, d, g, op[p], task[p].tx.pc)
  BY <1>9 DEF Finished
<1>15. Sends2(e, d, task[e].tx, op[e], acked[e], There(e), There2(e))
  <2>1. acked[e] <= There(e) /\ AtStart(c, task[e].tx, op[e], acked[e], Pos(e, c.una), Pos(e, c.nxt), b)
    BY SendsIs
  <2> DEFINE u == Pos(e, d.una)
             x == Pos(e, d.nxt)
  <2> HIDE DEF b
  <2>2. acked[e] = 0 /\ u = 0 /\ x = 1
    BY <1>4, <1>12, <2>1 DEF AtStart
  <2> HIDE DEF u, x
  <2>3. AtStart(d, task[e].tx, op[e], acked[e], u, x, b)
    BY <1>4, <1>5, <2>2 DEF AtStart
  <2>4. AtSend(e, task[e].tx, op[e], acked[e], u, x)
    BY <1>4 DEF AtSend
  <2>5. AtClose(e, d, task[e].tx, op[e], u, x)
    BY <1>4, <1>5 DEF AtClose, Leaving
  <2>6. task[e].tx.pc \notin Running
    BY <1>4 DEF Running
  <2> QED
    BY <2>1, <2>3, <2>4, <2>5, <2>6 DEF Sends2, u, x, b
<1>16. Asked(e, d, g, task'[e], op[e], opens[e])
  <2>1. k.flags = {"S", "A"} /\ k.seq = b /\ k.data = <<>>
    BY DEF Call
  <2> HIDE DEF k, b
  <2>2. Honest(e, op[e], task[e].tx.pc, k, d.port)
    BY <2>1 DEF Honest, b
  <2>3. task[e].tx.call = NoCall /\ task[e].rx.call = NoCall
    <3>1. Phases(task[e]) /\ task[e].rx.pc # "recv"
      BY <1>1, <1>4 DEF Fine, Stages
    <3>2. task[e].tx.phase # "call" /\ task[e].rx.phase # "call"
      BY <1>4, <3>1 DEF Phases
    <3> QED
      BY <3>1, <3>2 DEF Phases
  <2> SUFFICES ASSUME NEW x \in Tasks, task'[e][x].call.kind = "segment"
               PROVE  /\ opens[e] >= 1 /\ Honest(e, op[e], task'[e].tx.pc, task'[e][x].call, d.port)
                      /\ Acking(task'[e][x].call) => Heard(e, d, g)
    BY DEF Asked
  <2>4. x = "in"
    <3>1. task'[e].tx.call.kind = "none" /\ task'[e].rx.call.kind = "none"
      BY <1>1, <2>3 DEF NoCall
    <3>2. x # "tx" /\ x # "rx"
      BY <3>1
    <3> QED
      BY <3>2 DEF Tasks
  <2> QED
    BY <1>1, <1>4, <1>5, <1>11, <2>2, <2>4
<1>17. /\ Len(Stream(c, g)) <= Len(Stream(d, g))
       /\ Taken(c, g) <= Taken(d, g)
  BY <1>8, <1>9
<1>18. Going(task[e].tx.pc, op[e], task'[e].tx.pc, op'[e])
  BY <1>1 DEF Going
<1> QED
  BY <1>1, <1>13, <1>14, <1>15, <1>16, <1>17, <1>18, QuietRight DEF There, There2

\* The peer's answer to the syn.
LEMMA ConnectedRight ==
  ASSUME StreamSizes, Sane, Sane', Right, NEW e \in Ends, NEW m \in 1 .. Len(net[e]), NEW d \in Conns, NEW t \in Ins,
         conn' = [conn EXCEPT ![e] = d], task' = [task EXCEPT ![e].in = t], NetShrinks,
         UNCHANGED <<op, got, acked, opens>>, Connected(conn[e], net[e][m], d, t.call)
  PROVE  Right'
<1> DEFINE c == conn[e]
           g == got[e]
           p == Peer(e)
           s == net[e][m]
           b == Iss[e][1]
<1>1. /\ Others(e) /\ conn'[e] = d /\ task'[e].in = t /\ task'[e].tx = task[e].tx /\ task'[e].rx = task[e].rx
      /\ c \in Conns /\ g \in Seq(Octets) /\ op'[e] = op[e] /\ got'[e] = got[e]
      /\ acked'[e] = acked[e] /\ opens'[e] = opens[e] /\ opens[e] \in 0 .. MaxOpens /\ task[e] \in Teams
      /\ Fine(e, c, task[e], op[e], opens[e])
  BY ArriveIs
<1>2. p \in Ends
  BY PeerIs
<1>3. c.state = "SynSent"
  BY DEF Connected
<1>4. task[e].tx.pc = "connect" /\ opens[e] >= 1
  BY <1>1, <1>3 DEF Fine, Stages, Counts, Reached, Late, Teams, Txs, TxPcs
<1>5. /\ d.state = "Established" /\ d.una = s.ack /\ d.nxt = c.nxt /\ d.rcv = Add(s.seq, 1) /\ d.port = c.port
      /\ d.ring = c.ring /\ d.fin = c.fin /\ t.call = Call({"A"}, c.nxt, <<>>) /\ "S" \in s.flags /\ Acking(s)
      /\ SeqLe(s.ack, c.nxt)
  BY DEF Connected, Acking
<1>6. s \in Segments /\ s.seq = Iss[p][1] /\ 1 <= Pos(e, s.ack) /\ Pos(e, s.ack) <= 1 + There2(e)
  BY <1>5, ArrivedSays DEF Honest
<1>7. Receives(e, c, g, task[e].tx.pc, opens[e]) /\ Asked(e, c, g, task[e], op[e], opens[e])
  BY DEF Right, Faithful
<1>8. Stream(c, g) = <<>> /\ ~c.fin
  BY <1>3, <1>7 DEF Receives
<1>9. Stream(d, g) = <<>> /\ ~d.fin /\ Taken(d, g) = 0 /\ Taken(c, g) = 0
  BY <1>5, <1>8 DEF Stream, Taken
<1>10. Pos(p, d.rcv) = 1
  <2>1. Pos(p, s.seq) = 0 /\ s.seq \in SeqNums
    BY <1>2, <1>6, PosBase DEF Segments
  <2>2. Pos(p, s.seq) + 1 < SeqSpace
    BY <2>1, Space
  <2>3. Pos(p, Add(s.seq, 1)) = Pos(p, s.seq) + 1
    BY <1>2, <2>1, <2>2, PosAdd
  <2> QED
    BY <1>5, <2>1, <2>3
<1>11. Heard(e, d, g)
  BY <1>9, <1>10 DEF Heard
<1>12. Receives(e, d, g, task[e].tx.pc, opens[e])
  <2>1. Total(p) \in Nat
    BY <1>2, UptoIs
  <2> QED
    BY <1>4, <1>5, <1>9, <1>11, <2>1 DEF Receives
<1>13. Finished(p, d, g, op[p], task[p].tx.pc)
  BY <1>9 DEF Finished
<1>14. /\ acked[e] <= There(e)
       /\ AtStart(c, task[e].tx, op[e], acked[e], Pos(e, c.una), Pos(e, c.nxt), b)
  BY SendsIs
<1>15. Pos(e, c.nxt) = 1
  BY <1>3, <1>4, <1>14 DEF AtStart
<1>16. Pos(e, s.ack) = 1
  <2>1. s.ack \in SeqNums /\ c.nxt \in SeqNums
    BY <1>1, <1>6 DEF Segments, Conns
  <2>2. Pos(e, s.ack) \in Int
    BY <2>1, PosIs
  <2>3. There(e) <= Total(e) /\ There2(e) <= There(e) + 1 /\ Total(e) + 4 <= Half /\ There(e) \in Nat /\ There2(e) \in Nat
        /\ Total(e) \in Nat
    BY ThereIs
  <2> DEFINE v == Pos(e, s.ack)
             x == Pos(e, c.nxt)
  <2>4. v \in Int /\ 1 <= v /\ v <= 1 + There2(e) /\ x = 1
    BY <1>6, <1>15, <2>2
  <2> DEFINE r == There(e)
             w == There2(e)
             T == Total(e)
             h == Half
  <2>7. r <= T /\ w <= r + 1 /\ T + 4 <= h /\ r \in Nat /\ w \in Nat /\ T \in Nat /\ h \in Nat /\ v <= 1 + w
    BY <2>3, <2>4, Space
  <2> HIDE DEF v, x, r, w, T, h
  <2>8. v < h /\ x < h
    BY <2>4, <2>7
  <2>5. v < Half /\ x < Half
    BY <2>8 DEF h
  <2>6. v <= x
    BY <1>5, <2>1, <2>5, PosLt DEF v, x
  <2> QED
    BY <2>4, <2>6 DEF v
<1>17. Sends2(e, d, task[e].tx, op[e], acked[e], There(e), There2(e))
  <2> DEFINE u == Pos(e, d.una)
             x == Pos(e, d.nxt)
  <2> HIDE DEF b
  <2>1. u = 1 /\ x = 1
    BY <1>5, <1>15, <1>16
  <2>2. acked[e] = 0 /\ op[e].base = b
    BY <1>4, <1>14 DEF AtStart
  <2> HIDE DEF u, x
  <2>3. AtStart(d, task[e].tx, op[e], acked[e], u, x, b)
    BY <1>4, <1>5, <2>1, <2>2 DEF AtStart
  <2>4. AtSend(e, task[e].tx, op[e], acked[e], u, x)
    BY <1>4 DEF AtSend
  <2>5. AtClose(e, d, task[e].tx, op[e], u, x)
    BY <1>4, <1>5 DEF AtClose, Leaving
  <2>6. task[e].tx.pc \notin Running
    BY <1>4 DEF Running
  <2> QED
    BY <1>14, <2>3, <2>4, <2>5, <2>6 DEF Sends2, u, x, b
<1>18. Asked(e, d, g, task'[e], op[e], opens[e])
  <2>1. CallFits(e, d, g, op[e], task[e].tx.pc, task'[e].in.call, opens[e])
    BY <1>1, <1>4, <1>5, <1>11, AckFits
  <2> QED
    BY <1>1, <1>5, <1>7, <1>11, <2>1, HeardAsked
<1>19. /\ Len(Stream(c, g)) <= Len(Stream(d, g))
       /\ Taken(c, g) <= Taken(d, g)
  BY <1>8, <1>9
<1>20. Going(task[e].tx.pc, op[e], task'[e].tx.pc, op'[e])
  BY <1>1 DEF Going
<1> QED
  BY <1>1, <1>12, <1>13, <1>17, <1>18, <1>19, <1>20, QuietRight DEF There, There2

(* ---- What an acceptable segment does to the numbers, and to the stream. ---- *)
LEMMA ProcessedSnd ==
  ASSUME NEW c \in Conns, NEW s \in Segments, NEW d, NEW k, Processed(c, s, d, k)
  PROVE  /\ d.nxt = c.nxt /\ d.una = IF AckValid(c, s) THEN s.ack ELSE c.una
         /\ d.state \in {"FinWait1", "Closing", "LastAck"} => c.state \in {"FinWait1", "Closing", "LastAck"} /\ ~Takes(c, s)
         /\ c.state \in {"SynReceived", "Established", "CloseWait"} => d.state \in {"Established", "CloseWait"}
         /\ c.state \in {"FinWait2", "TimeWait"} => d.state \in {"FinWait2", "TimeWait"}
         /\ c.state = "TimeWait" => d.state = "TimeWait"
         /\ c.state \in {"FinWait1", "Closing"} /\ d.state \in {"FinWait2", "TimeWait"} => Takes(c, s)
<1> DEFINE b == Established(c)
           c1 == AckStep(b, s)
           c2 == DataStep(c1, s)
<1>1. d = FinStep(c2, s) /\ c.state \notin {"Closed", "Listen", "SynSent"}
  BY DEF Processed
<1>2. b \in Conns /\ SameSnd(c, b) /\ b.state = IF c.state = "SynReceived" THEN "Established" ELSE c.state
  BY EstablishedIs
<1>3. (AckValid(b, s) <=> AckValid(c, s)) /\ (Takes(b, s) <=> Takes(c, s))
  BY <1>2 DEF SameSnd, AckValid, Takes
<1> HIDE DEF b
<1>4. /\ c1 \in Conns /\ c1.nxt = b.nxt
      /\ c1.una = IF AckValid(b, s) THEN s.ack ELSE b.una
      /\ \/ c1.state = b.state /\ (Takes(b, s) => b.state \notin {"FinWait1", "Closing", "LastAck"})
         \/ Takes(b, s) /\ b.state = "FinWait1" /\ c1.state = "FinWait2"
         \/ Takes(b, s) /\ b.state = "Closing" /\ c1.state = "TimeWait"
         \/ Takes(b, s) /\ b.state = "LastAck" /\ c1.state = "Closed"
  BY <1>2, AckStepIs
<1> HIDE DEF c1
<1>5. c2 \in Conns /\ SameWho(c1, c2) /\ SameSnd(c1, c2)
  BY <1>4, DataStepIs
<1> HIDE DEF c2
<1>6. d = c2 \/ (SameSnd(c2, d) /\ FinTaken(c2, s, d))
  BY <1>1, <1>5, FinStepIs
<1>7. d.nxt = c.nxt /\ d.una = IF AckValid(c, s) THEN s.ack ELSE c.una
  BY <1>2, <1>3, <1>4, <1>5, <1>6 DEF SameSnd
<1>8. \/ d.state = c1.state
      \/ c1.state = "Established" /\ d.state = "CloseWait"
      \/ c1.state = "FinWait1" /\ d.state = "Closing"
      \/ c1.state = "FinWait2" /\ d.state = "TimeWait"
  <2>1. CASE d = c2
    BY <2>1, <1>5 DEF SameWho
  <2>2. CASE FinTaken(c2, s, d)
    <3>1. d.state = CASE c2.state = "Established" -> "CloseWait"
                      [] c2.state = "FinWait1" -> "Closing"
                      [] c2.state = "FinWait2" -> "TimeWait"
                      [] OTHER -> c2.state
      BY <2>2 DEF FinTaken
    <3> QED
      BY <1>5, <3>1 DEF SameWho
  <2> QED
    BY <1>6, <2>1, <2>2
<1>9. ASSUME d.state \in {"FinWait1", "Closing", "LastAck"}
      PROVE  c.state \in {"FinWait1", "Closing", "LastAck"} /\ ~Takes(c, s)
  <2>1. c1.state \in {"FinWait1", "Closing", "LastAck"}
    BY <1>8, <1>9
  <2>2. c1.state = b.state /\ b.state \in {"FinWait1", "Closing", "LastAck"} /\ ~Takes(b, s)
    BY <1>4, <2>1
  <2> QED
    BY <1>2, <1>3, <2>2
<1>10. /\ c.state \in {"SynReceived", "Established", "CloseWait"} => d.state \in {"Established", "CloseWait"}
       /\ c.state \in {"FinWait2", "TimeWait"} => d.state \in {"FinWait2", "TimeWait"}
       /\ c.state = "TimeWait" => d.state = "TimeWait"
  BY <1>2, <1>4, <1>8
<1>11. ASSUME c.state \in {"FinWait1", "Closing"}, ~Takes(c, s)
       PROVE  d.state \notin {"FinWait2", "TimeWait"}
  <2>1. c1.state \in {"FinWait1", "Closing"}
    BY <1>2, <1>3, <1>4, <1>11
  <2> QED
    BY <1>8, <2>1
<1> QED
  BY <1>7, <1>9, <1>10, <1>11

\* c's stream is the peer's, in order, and rcv_nxt is behind it.
InStep(e, c, g) ==
  /\ \A i \in 1 .. Len(Stream(c, g)) : Stream(c, g)[i] = <<c.port, i>>
  /\ Len(Stream(c, g)) <= Total(Peer(e)) /\ Heard(e, c, g)

LEMMA PushedInStep ==
  ASSUME StreamSizes, NEW e \in Ends, NEW c \in Conns, NEW d \in Conns, NEW s \in Segments, NEW g \in Seq(Octets),
         InStep(e, c, g), ~c.fin, NEW o, NEW pc, Honest(Peer(e), o, pc, s, c.port), d.port = c.port,
         NEW skip, NEW octets, Pushed(c, s, d, skip, octets)
  PROVE  InStep(e, d, g) /\ ~d.fin /\ Len(Stream(c, g)) <= Len(Stream(d, g))
<1> DEFINE p == Peer(e)
           L == Len(Stream(c, g))
           N == Len(octets)
           K == Pos(p, s.seq)
           M == Len(s.data)
           T == Total(p)
<1>1. p \in Ends
  BY PeerIs
<1>2. /\ skip \in Nat /\ octets \in Seq(Octets) /\ N >= 1 /\ skip + N <= M
      /\ \A j \in 1 .. N : octets[j] = s.data[skip + j]
      /\ Add(s.seq, skip) = c.rcv /\ d.rcv = Add(c.rcv, N) /\ d.ring = c.ring \o octets /\ d.fin = c.fin
  BY DEF Pushed
<1>3. N \in Nat /\ M \in Nat /\ s.data \in Seq(Octets) /\ s.seq \in SeqNums /\ c.rcv \in SeqNums /\ c.ring \in Seq(Octets)
  BY <1>2, LenProperties DEF Segments, Conns, Rings
<1>4. L \in Nat /\ Stream(c, g) \in Seq(Octets) /\ Taken(c, g) = L
  BY StreamIs
<1>5. T \in Nat /\ T + 4 <= Half
  BY <1>1, UptoIs
<1>6. K \in Int /\ 0 <= K
  BY <1>1, <1>3, PosIs
<1>7. 1 <= K /\ K + M <= 1 + T /\ \A j \in 1 .. M : s.data[j] = <<c.port, K - 1 + j>>
  <2>1. s.data # <<>>
    BY <1>2, <1>3
  <2> QED
    BY <2>1 DEF Honest
<1>8. Stream(d, g) = Stream(c, g) \o octets
  <2>1. c.ring \in Seq(Octets) /\ octets \in Seq(Octets)
    BY <1>2, <1>3
  <2>2. (g \o c.ring) \o octets = g \o (c.ring \o octets)
    BY <2>1, Associative
  <2>3. d.ring = c.ring \o octets
    BY <1>2
  <2> QED
    BY <2>2, <2>3 DEF Stream
<1>9. Pos(p, c.rcv) = 1 + L
  BY <1>4 DEF InStep, Heard
<1> HIDE DEF L, N, K, M, T, p
<1>10. K + skip < SeqSpace
  BY <1>2, <1>3, <1>5, <1>6, <1>7, Space
<1>11. K + skip = 1 + L
  <2>1. Pos(p, Add(s.seq, skip)) = K + skip
    BY <1>1, <1>2, <1>3, <1>10, PosAdd DEF K
  <2> QED
    BY <1>2, <1>9, <2>1
<1>12. L + N <= T
  BY <1>2, <1>3, <1>4, <1>5, <1>6, <1>7, <1>11
<1>13. Pos(p, d.rcv) = 1 + (L + N)
  <2>1. Pos(p, c.rcv) + N < SeqSpace
    BY <1>3, <1>4, <1>5, <1>9, <1>12, Space
  <2>2. Pos(p, Add(c.rcv, N)) = Pos(p, c.rcv) + N
    BY <1>1, <1>3, <2>1, PosAdd
  <2> QED
    BY <1>2, <1>3, <1>4, <1>9, <2>2
<1>14. /\ Len(Stream(d, g)) = L + N
       /\ \A i \in 1 .. L + N : Stream(d, g)[i] = IF i <= L THEN Stream(c, g)[i] ELSE octets[i - L]
  BY <1>2, <1>4, <1>8, ConcatProperties DEF L, N
<1>15. ASSUME NEW i \in 1 .. L + N
       PROVE  Stream(d, g)[i] = <<d.port, i>>
  <2>1. CASE i <= L
    <3>1. i \in 1 .. L
      BY <2>1, <1>3, <1>4
    <3>2. Stream(c, g)[i] = <<c.port, i>>
      BY <3>1 DEF InStep, L
    <3> QED
      BY <2>1, <1>14, <3>2
  <2>2. CASE i > L
    <3> DEFINE j == i - L
    <3>1. j \in 1 .. N
      BY <2>2, <1>3, <1>4
    <3>2. skip + j \in 1 .. M
      BY <3>1, <1>2, <1>3
    <3>3. octets[j] = s.data[skip + j] /\ s.data[skip + j] = <<c.port, K - 1 + (skip + j)>>
      BY <3>1, <3>2, <1>2, <1>7
    <3>4. K - 1 + (skip + j) = i
      BY <1>2, <1>4, <1>6, <1>11
    <3>5. Stream(d, g)[i] = octets[j]
      BY <2>2, <1>4, <1>14
    <3> QED
      BY <3>3, <3>4, <3>5
  <2> QED
    BY <1>3, <1>4, <2>1, <2>2
<1>16. ~d.fin
  BY <1>2
<1>17. Heard(e, d, g)
  <2>1. Taken(d, g) = L + N
    BY <1>3, <1>4, <1>14, <1>16 DEF Taken
  <2> QED
    BY <1>13, <2>1 DEF Heard, p
<1>18. L <= L + N
  BY <1>3, <1>4
<1> QED
  BY <1>12, <1>14, <1>15, <1>16, <1>17, <1>18 DEF InStep, L, T, p

LEMMA FinInStep ==
  ASSUME StreamSizes, NEW e \in Ends, NEW c \in Conns, NEW d \in Conns, NEW s \in Segments, NEW g \in Seq(Octets),
         InStep(e, c, g), NEW o, NEW pc, Honest(Peer(e), o, pc, s, c.port), d.port = c.port, FinTaken(c, s, d)
  PROVE  InStep(e, d, g) /\ Stream(d, g) = Stream(c, g) /\ Finished(Peer(e), d, g, o, pc) /\ ~c.fin /\ d.fin
<1> DEFINE p == Peer(e)
           L == Len(Stream(c, g))
<1>1. p \in Ends
  BY PeerIs
<1>2. "F" \in s.flags /\ Add(s.seq, Len(s.data)) = c.rcv /\ ~c.fin /\ d.fin /\ d.rcv = Add(c.rcv, 1) /\ d.ring = c.ring
  BY DEF FinTaken, Expected
<1>3. pc \in Closers /\ s.seq = o.fin /\ s.data = <<>>
  BY <1>2 DEF Honest
<1>4. s.seq \in SeqNums /\ c.rcv \in SeqNums
  BY DEF Segments, Conns
<1>5. c.rcv = o.fin
  <2>1. s.seq \in Int /\ 0 <= s.seq /\ s.seq < SeqSpace
    BY <1>4, NumIs
  <2>2. Add(s.seq, 0) = s.seq
    BY <2>1, AddIs, Space
  <2>3. Len(s.data) = 0
    BY <1>3
  <2> QED
    BY <1>2, <1>3, <2>2, <2>3
<1>6. Stream(d, g) = Stream(c, g)
  BY <1>2 DEF Stream
<1>7. L \in Nat /\ Taken(c, g) = L
  BY <1>2, StreamIs
<1>8. Pos(p, c.rcv) = 1 + L /\ L <= Total(p)
  BY <1>7 DEF InStep, Heard
<1>9. Total(p) \in Nat /\ Total(p) + 4 <= Half
  BY <1>1, UptoIs
<1>10. Add(Iss[p][1], 1 + L) = o.fin
  <2>1. Add(Iss[p][1], Pos(p, c.rcv)) = c.rcv
    BY <1>1, <1>4, PosIs
  <2> QED
    BY <1>5, <1>8, <2>1
<1>11. Pos(p, d.rcv) = 1 + (L + 1)
  <2> DEFINE z == Pos(p, c.rcv)
  <2>1. z = 1 + L
    BY <1>8
  <2> HIDE DEF L, p, z
  <2>2. z + 1 < SeqSpace
    BY <1>7, <1>8, <1>9, <2>1, Space
  <2>3. Pos(p, Add(c.rcv, 1)) = z + 1
    BY <1>1, <1>4, <2>2, PosAdd DEF z
  <2> QED
    BY <1>2, <1>7, <2>1, <2>3
<1>12. Taken(d, g) = L + 1
  BY <1>2, <1>6, <1>7 DEF Taken
<1>13. Heard(e, d, g)
  BY <1>11, <1>12 DEF Heard
<1>14. Finished(p, d, g, o, pc)
  BY <1>3, <1>6, <1>10 DEF Finished
<1> QED
  BY <1>2, <1>6, <1>13, <1>14 DEF InStep

\* An acceptable acknowledgement lies between snd_una and snd_nxt.
LEMMA AckBetween ==
  ASSUME StreamSizes, NEW e \in Ends, NEW c \in Conns, NEW s \in Segments,
         Pos(e, c.una) < Half, Pos(e, c.nxt) < Half, Pos(e, s.ack) < Half
  PROVE  /\ AckValid(c, s) <=> Pos(e, c.una) <= Pos(e, s.ack) /\ Pos(e, s.ack) <= Pos(e, c.nxt)
         /\ Takes(c, s) <=> AckValid(c, s) /\ Pos(e, s.ack) = Pos(e, c.nxt)
<1>1. c.una \in SeqNums /\ c.nxt \in SeqNums /\ s.ack \in SeqNums
  BY DEF Conns, Segments
<1>2. SeqLe(s.ack, c.nxt) <=> Pos(e, s.ack) <= Pos(e, c.nxt)
  BY <1>1, PosLt
<1>3. SeqLe(c.una, s.ack) <=> Pos(e, c.una) <= Pos(e, s.ack)
  BY <1>1, PosLt
<1>4. s.ack = c.nxt <=> Pos(e, s.ack) = Pos(e, c.nxt)
  BY <1>1, PosLt
<1> QED
  BY <1>2, <1>3, <1>4 DEF AckValid, Takes

LEMMA ProcessedSends ==
  ASSUME StreamSizes, Sane, Right, NEW e \in Ends, NEW s \in Segments, NEW d, NEW k, Processed(conn[e], s, d, k),
         1 <= Pos(e, s.ack), Pos(e, s.ack) <= 1 + There2(e)
  PROVE  Sends2(e, d, task[e].tx, op[e], acked[e], There(e), There2(e))
<1> DEFINE c == conn[e]
           t == task[e].tx
           o == op[e]
           a == acked[e]
           u == Pos(e, c.una)
           x == Pos(e, c.nxt)
           v == Pos(e, s.ack)
           u2 == Pos(e, d.una)
           x2 == Pos(e, d.nxt)
           w == There2(e)
           T == Total(e)
           valid == AckValid(c, s)
<1>1. /\ c \in Conns /\ task[e] \in Teams /\ t \in Txs /\ t.pc \in TxPcs /\ o \in Ops
      /\ Fine(e, c, task[e], o, opens[e])
  BY TxSane
<1>2. c.state \notin {"Closed", "Listen", "SynSent"} /\ (c.state = "SynReceived" => valid)
  BY DEF Processed, AckValid
<1>3. c.state \in Reached(t.pc)
  BY <1>1 DEF Fine, Stages
<1>4. /\ u \in Int /\ 0 <= u /\ x \in Int /\ 0 <= x
      /\ a \in Nat /\ a <= There(e)
      /\ t.pc \in Running \ {"done"} => u <= 1 + w
      /\ AtStart(c, t, o, a, u, x, Iss[e][1])
      /\ AtSend(e, t, o, a, u, x)
      /\ AtClose(e, c, t, o, u, x)
  BY SendsIs
<1>5. w \in Nat /\ w <= T + 1 /\ T \in Nat /\ T + 4 <= Half
  <2>1. There(e) <= T /\ w <= There(e) + 1 /\ T + 4 <= Half /\ There(e) \in Nat /\ w \in Nat /\ T \in Nat
    BY ThereIs
  <2> QED
    BY <2>1
<1>6. v \in Int /\ 1 <= v /\ v <= 1 + w /\ v < Half
  <2>1. s.ack \in SeqNums
    BY DEF Segments
  <2>2. v \in Int
    BY <2>1, PosIs
  <2> QED
    BY <1>5, <2>2, Space
<1>7. /\ d.nxt = c.nxt /\ d.una = IF valid THEN s.ack ELSE c.una
      /\ d.state \in {"FinWait1", "Closing", "LastAck"} => c.state \in {"FinWait1", "Closing", "LastAck"} /\ ~Takes(c, s)
      /\ c.state \in {"SynReceived", "Established", "CloseWait"} => d.state \in {"Established", "CloseWait"}
      /\ c.state \in {"FinWait2", "TimeWait"} => d.state \in {"FinWait2", "TimeWait"}
      /\ c.state = "TimeWait" => d.state = "TimeWait"
  BY <1>1, ProcessedSnd
<1>8. x2 = x /\ u2 = IF valid THEN v ELSE u
  BY <1>7
<1>9. u < Half /\ x < Half => (valid <=> u <= v /\ v <= x) /\ (Takes(c, s) <=> valid /\ v = x)
  BY <1>1, <1>6, AckBetween
<1>d. a \in Nat
  BY <1>4
<1> HIDE DEF valid, u, x, v, u2, x2, w, T, c, t, o, a
<1>10. SUFFICES /\ t.pc \in Running \ {"done"} => u2 <= 1 + w
                /\ AtStart(d, t, o, a, u2, x2, Iss[e][1])
                /\ AtSend(e, t, o, a, u2, x2)
                /\ AtClose(e, d, t, o, u2, x2)
  BY <1>4 DEF Sends2, u2, x2, w, a, t, o
<1>11. t.pc \in Running \ {"done"} => u2 <= 1 + w
  BY <1>4, <1>6, <1>8
<1>12. CASE t.pc \in {"connect", "accept"}
  <2>1. c.state \in {"SynReceived", "Established", "CloseWait"}
    BY <1>2, <1>3, <1>12 DEF Reached
  <2>2. a = 0 /\ (t.pc = "connect" => o.base = Iss[e][1])
    BY <1>4, <1>12 DEF AtStart
  <2>3. x = 1 /\ (c.state = "SynReceived" => u = 0) /\ (c.state # "SynReceived" => u = 1)
    BY <1>4, <1>12, <2>1 DEF AtStart
  <2>4. u < Half /\ x < Half
    BY <2>3, Space
  <2>5. u2 = 1 /\ x2 = 1
    BY <1>2, <1>6, <1>8, <1>9, <2>3, <2>4
  <2>6. d.state \in {"Established", "CloseWait"}
    BY <1>7, <2>1
  <2>7. AtStart(d, t, o, a, u2, x2, Iss[e][1])
    BY <2>2, <2>5, <2>6 DEF AtStart
  <2>8. AtSend(e, t, o, a, u2, x2)
    BY <1>12 DEF AtSend
  <2>9. AtClose(e, d, t, o, u2, x2)
    BY <1>12, <2>6 DEF AtClose, Leaving
  <2> QED
    BY <1>11, <2>7, <2>8, <2>9
<1>13. CASE t.pc \in {"ready", "send", "failed"}
  <2>1. d.state \in {"Established", "CloseWait"}
    BY <1>2, <1>3, <1>7, <1>13 DEF Reached
  <2>2. AtStart(d, t, o, a, u2, x2, Iss[e][1])
    BY <1>13 DEF AtStart
  <2>3. AtClose(e, d, t, o, u2, x2)
    BY <1>13, <2>1 DEF AtClose, Leaving
  <2>4. AtSend(e, t, o, a, u2, x2)
    <3>1. CASE t.pc = "ready"
      <4>1. u = 1 + a /\ x = 1 + a /\ a = Upto(e)[o.sends]
        BY <1>4, <3>1 DEF AtSend
      <4>2. o.sends \in 0 .. Len(Sends[e][1])
        <5>1. o.sends \in Nat /\ o.sends <= Len(Sends[e][opens[e]]) /\ opens[e] >= 1
          BY <1>1, <3>1 DEF Fine, Counts, Ops, t, o
        <5>2. opens[e] = 1
          BY <5>1 DEF StreamSizes, Sane, Typed
        <5> QED
          BY <5>1, <5>2, UptoIs
      <4>3. a <= T
        BY <4>1, <4>2, UptoIs DEF T
      <4>4. u < Half /\ x < Half
        BY <1>d, <1>5, <4>1, <4>3, Space
      <4>5. u2 = 1 + a /\ x2 = 1 + a
        BY <1>d, <1>6, <1>8, <1>9, <4>1, <4>4
      <4> QED
        BY <3>1, <4>1, <4>5 DEF AtSend
    <3>2. CASE t.pc = "send"
      <4> DEFINE z == 1 + Upto(e)[o.sends + 1]
      <4>1. /\ a = Upto(e)[o.sends] /\ Pos(e, o.base) = 1 + a /\ Pos(e, o.end) = z
            /\ 1 + a <= u /\ u <= x /\ x <= z
            /\ t.phase \in {"call", "ret"} => x + o.count <= z
        BY <1>4, <3>2 DEF AtSend
      <4>2. z \in Nat /\ z <= 1 + T
        <5>1. Within(e, conn[e], op[e], acked[e], There2(e))
          BY <3>2, WithinNow DEF t
        <5>2. o.sends \in Nat /\ o.sends < Len(Sends[e][1])
          BY <5>1, <1>1 DEF Within, Ops, o
        <5>3. Upto(e)[o.sends + 1] \in Nat /\ Upto(e)[o.sends + 1] <= Total(e)
          BY <5>2, UptoNext
        <5> QED
          BY <1>5, <5>3 DEF T
      <4> HIDE DEF z
      <4>3. u < Half /\ x < Half
        BY <1>4, <1>5, <4>1, <4>2, Space
      <4>4. 1 + a <= u2 /\ u2 <= x2 /\ x2 = x
        BY <1>d, <1>4, <1>6, <1>8, <1>9, <4>1, <4>3
      <4> QED
        BY <3>2, <4>1, <4>4 DEF AtSend, z
    <3>3. CASE t.pc = "failed"
      <4>1. o.sends < Len(Sends[e][1]) /\ a = Upto(e)[o.sends] /\ 1 + a <= u /\ u <= x /\ x <= 1 + T
        BY <1>4, <3>3 DEF AtSend, T
      <4>2. u < Half /\ x < Half
        BY <1>4, <1>5, <4>1, Space
      <4>3. 1 + a <= u2 /\ u2 <= x2 /\ x2 <= 1 + T
        BY <1>d, <1>4, <1>6, <1>8, <1>9, <4>1, <4>2
      <4> QED
        BY <3>3, <4>1, <4>3 DEF AtSend, T
    <3> QED
      BY <1>13, <3>1, <3>2, <3>3
  <2> QED
    BY <1>11, <2>2, <2>3, <2>4
<1>14. CASE t.pc \in Leaving
  <2> DEFINE y == Pos(e, o.fin)
  <2>1. /\ x = y + 1 /\ 1 <= y /\ y <= 1 + T /\ 1 <= u /\ u <= x
        /\ o.sends = Len(Sends[e][1]) => y = 1 + T
    BY <1>4, <1>14 DEF AtClose, T
  <2>y. y \in Int
    <3>1. o.fin \in SeqNums
      BY <1>1 DEF Ops
    <3> QED
      BY <3>1, PosIs
  <2> HIDE DEF y
  <2>2. u < Half /\ x < Half
    BY <1>4, <1>5, <2>1, <2>y, Space
  <2>3. 1 <= u2 /\ u2 <= x2 /\ x2 = x
    BY <1>4, <1>6, <1>8, <1>9, <2>1, <2>2
  <2>4. d.state \in {"FinWait1", "Closing", "LastAck"} => u2 < x2
    <3> SUFFICES ASSUME d.state \in {"FinWait1", "Closing", "LastAck"} PROVE u2 < x2
      OBVIOUS
    <3>1. c.state \in {"FinWait1", "Closing", "LastAck"} /\ ~Takes(c, s)
      BY <1>7
    <3>2. u < x
      BY <1>4, <3>1 DEF AtClose
    <3> QED
      BY <1>4, <1>6, <1>8, <1>9, <2>2, <3>1, <3>2
  <2>5. t.pc = "finwait" => d.state \in {"FinWait2", "TimeWait", "Closed"}
    <3> SUFFICES ASSUME t.pc = "finwait" PROVE d.state \in {"FinWait2", "TimeWait", "Closed"}
      OBVIOUS
    <3>1. c.state \in {"FinWait2", "TimeWait"}
      BY <1>2, <1>4 DEF AtClose
    <3> QED
      BY <1>7, <3>1
  <2>6. AtClose(e, d, t, o, u2, x2)
    BY <1>14, <2>1, <2>3, <2>4, <2>5 DEF AtClose, Leaving, T, y
  <2>7. AtStart(d, t, o, a, u2, x2, Iss[e][1]) /\ AtSend(e, t, o, a, u2, x2)
    BY <1>14 DEF AtStart, AtSend, Leaving
  <2> QED
    BY <1>11, <2>6, <2>7
<1>15. CASE t.pc = "done"
  <2>1. c.state = "TimeWait"
    BY <1>2, <1>4, <1>15 DEF AtClose
  <2>2. d.state = "TimeWait"
    BY <1>7, <2>1
  <2>3. AtClose(e, d, t, o, u2, x2)
    BY <1>15, <2>2 DEF AtClose, Leaving
  <2>4. AtStart(d, t, o, a, u2, x2, Iss[e][1]) /\ AtSend(e, t, o, a, u2, x2)
    BY <1>15 DEF AtStart, AtSend
  <2> QED
    BY <1>11, <2>3, <2>4
<1>16. CASE t.pc \in {"closed", "ended"}
  BY <1>2, <1>3, <1>16 DEF Reached
<1> QED
  BY <1>1, <1>12, <1>13, <1>14, <1>15, <1>16 DEF TxPcs, Leaving

\* The receiving side of the same.
LEMMA ProcessedRcv ==
  ASSUME StreamSizes, NEW e \in Ends, NEW c \in Conns, NEW s \in Segments, NEW d, NEW k, NEW q \in Teams, Held(c, q),
         Processed(c, s, d, k), NEW g \in Seq(Octets), InStep(e, c, g), NEW o, NEW pc, Honest(Peer(e), o, pc, s, s.port),
         Finished(Peer(e), c, g, o, pc)
  PROVE  /\ InStep(e, d, g) /\ Finished(Peer(e), d, g, o, pc)
         /\ Len(Stream(c, g)) <= Len(Stream(d, g))
         /\ Taken(c, g) <= Taken(d, g)
<1> DEFINE p == Peer(e)
           b == Established(c)
           c1 == AckStep(b, s)
           c2 == DataStep(c1, s)
<1>1. d = FinStep(c2, s) /\ c.state \notin {"Closed", "Listen", "SynSent"} /\ c.port = s.port
  BY DEF Processed
<1>2. b \in Conns /\ SameRcv(c, b) /\ b.port = c.port
  BY EstablishedIs
<1>3. c1 \in Conns /\ Held(c1, q)
  BY <1>1, AckKeeps
<1> HIDE DEF b
<1>4. SameRcv(b, c1) /\ c1.port = b.port
  BY <1>2, AckStepIs
<1> HIDE DEF c1
<1>5. c2 \in Conns /\ SameWho(c1, c2) /\ (SameRcv(c1, c2) \/ \E skip, octets : Pushed(c1, s, c2, skip, octets))
  BY <1>3, DataStepIs
<1> HIDE DEF c2
<1>6. d = c2 \/ (d \in Conns /\ d.port = c2.port /\ FinTaken(c2, s, d))
  BY <1>1, <1>5, FinStepIs
<1>7. SameRcv(c, c1) /\ c1.port = c.port
  BY <1>2, <1>4 DEF SameRcv
<1>8. c2.port = c.port
  BY <1>5, <1>7 DEF SameWho
<1>9. InStep(e, c1, g) /\ Stream(c1, g) = Stream(c, g) /\ Finished(p, c1, g, o, pc) /\ c1.fin = c.fin
  <2>1. Stream(c1, g) = Stream(c, g) /\ Taken(c1, g) = Taken(c, g) /\ c1.rcv = c.rcv /\ c1.fin = c.fin
    BY <1>7 DEF SameRcv, Stream, Taken
  <2> QED
    BY <1>7, <2>1 DEF InStep, Heard, Finished
<1>10. InStep(e, c2, g) /\ Finished(p, c2, g, o, pc) /\ c2.fin = c.fin /\ Len(Stream(c, g)) <= Len(Stream(c2, g))
  <2>1. CASE SameRcv(c1, c2)
    <3>1. /\ Stream(c2, g) = Stream(c1, g) /\ Taken(c2, g) = Taken(c1, g) /\ c2.rcv = c1.rcv /\ c2.fin = c1.fin
          /\ c2.port = c1.port
      BY <1>5, <2>1 DEF SameRcv, SameWho, Stream, Taken
    <3>2. Len(Stream(c, g)) \in Nat
      BY StreamIs
    <3>3. InStep(e, c2, g) /\ Finished(p, c2, g, o, pc)
      BY <1>9, <3>1 DEF InStep, Heard, Finished
    <3> QED
      BY <1>9, <3>1, <3>2, <3>3
  <2>2. ASSUME NEW skip, NEW octets, Pushed(c1, s, c2, skip, octets)
        PROVE  InStep(e, c2, g) /\ Finished(p, c2, g, o, pc) /\ c2.fin = c.fin /\ Len(Stream(c, g)) <= Len(Stream(c2, g))
    <3>1. c1.state \in Takers /\ c2.fin = c1.fin
      BY <2>2 DEF Pushed
    <3>2. ~c1.fin
      BY <1>3, <3>1 DEF Held, Fins, PastFin, Takers
    <3>3. Honest(p, o, pc, s, c1.port) /\ c2.port = c1.port
      BY <1>1, <1>7, <1>8
    <3>4. InStep(e, c2, g) /\ ~c2.fin /\ Len(Stream(c1, g)) <= Len(Stream(c2, g))
      BY <1>3, <1>5, <1>9, <2>2, <3>2, <3>3, PushedInStep
    <3> QED
      BY <1>9, <3>1, <3>4 DEF Finished
  <2> QED
    BY <1>5, <2>1, <2>2
<1>11. Taken(c, g) <= Taken(c2, g)
  <2>1. Len(Stream(c, g)) \in Nat
    BY StreamIs
  <2>2. Len(Stream(c2, g)) \in Nat
    BY <1>5, StreamIs
  <2> QED
    BY <1>10, <2>1, <2>2 DEF Taken
<1>12. CASE d = c2
  BY <1>10, <1>11, <1>12
<1>13. CASE d \in Conns /\ d.port = c2.port /\ FinTaken(c2, s, d)
  <2>1. Honest(p, o, pc, s, c2.port)
    BY <1>1, <1>8
  <2>2. InStep(e, d, g) /\ Stream(d, g) = Stream(c2, g) /\ Finished(p, d, g, o, pc) /\ ~c2.fin /\ d.fin
    BY <1>5, <1>10, <1>13, <2>1, FinInStep
  <2>3. Taken(c, g) \in Nat /\ Taken(c2, g) \in Nat /\ Len(Stream(c2, g)) \in Nat
    <3>1. Taken(c, g) \in Nat
      BY StreamIs
    <3> QED
      BY <1>5, <3>1, StreamIs
  <2>4. Taken(d, g) = Len(Stream(c2, g)) + 1 /\ Taken(c2, g) = Len(Stream(c2, g))
    BY <2>2, <2>3 DEF Taken
  <2> QED
    BY <1>10, <1>11, <2>2, <2>3, <2>4
<1> QED
  BY <1>6, <1>12, <1>13

LEMMA ProcessedRight ==
  ASSUME StreamSizes, Sane, Sane', Right, NEW e \in Ends, NEW m \in 1 .. Len(net[e]), NEW d \in Conns, NEW t \in Ins,
         conn' = [conn EXCEPT ![e] = d], task' = [task EXCEPT ![e].in = t], NetShrinks,
         UNCHANGED <<op, got, acked, opens>>, Processed(conn[e], net[e][m], d, t.call)
  PROVE  Right'
<1> DEFINE c == conn[e]
           g == got[e]
           p == Peer(e)
           s == net[e][m]
<1>1. /\ Others(e) /\ conn'[e] = d /\ task'[e].in = t /\ task'[e].tx = task[e].tx /\ task'[e].rx = task[e].rx
      /\ c \in Conns /\ g \in Seq(Octets) /\ op'[e] = op[e] /\ got'[e] = got[e]
      /\ acked'[e] = acked[e] /\ opens'[e] = opens[e] /\ opens[e] \in 0 .. MaxOpens /\ task[e] \in Teams
      /\ Fine(e, c, task[e], op[e], opens[e])
  BY ArriveIs
<1>2. c.state \in Linked /\ c.state # "Closed" /\ Acking(s) /\ (t.call = NoCall \/ t.call = Call({"A"}, d.nxt, <<>>))
  BY <1>1 DEF Processed, Linked, Acking, Conns
<1>3. s \in Segments /\ Honest(p, op[p], task[p].tx.pc, s, s.port) /\ 1 <= Pos(e, s.ack) /\ Pos(e, s.ack) <= 1 + There2(e)
  BY <1>2, ArrivedSays
<1>4. Sends2(e, d, task[e].tx, op[e], acked[e], There(e), There2(e))
  BY <1>3, ProcessedSends
<1>5. /\ Receives(e, c, g, task[e].tx.pc, opens[e]) /\ Finished(p, c, g, op[p], task[p].tx.pc)
      /\ Asked(e, c, g, task[e], op[e], opens[e])
  BY DEF Right, Faithful
<1>6. InStep(e, c, g)
  BY <1>2, <1>5 DEF Receives, InStep
<1>7. Held(c, task[e]) /\ opens[e] >= 1
  BY <1>1, <1>2 DEF Fine, Held, Counts
<1>8. /\ InStep(e, d, g) /\ Finished(p, d, g, op[p], task[p].tx.pc)
      /\ Len(Stream(c, g)) <= Len(Stream(d, g))
      /\ Taken(c, g) <= Taken(d, g)
  BY <1>1, <1>3, <1>5, <1>6, <1>7, ProcessedRcv
<1>9. d.state \notin {"Listen", "SynSent"} /\ d.port = c.port
  <2>1. d.port = c.port
    BY <1>1, <1>3, ProcessedIs
  <2>2. Held(d, task[e])
    <3>1. Outcome(e, c, s, d, t.call)
      BY DEF Outcome
    <3> QED
      BY <1>1, <1>3, <1>7, <3>1, OutcomeKeeps
  <2>3. c.state \in {"SynReceived", "Established", "CloseWait", "FinWait1", "FinWait2", "Closing", "LastAck", "TimeWait"}
    BY <1>1, <1>2 DEF Conns, States, Linked
  <2>4. CASE c.state = "SynReceived" \/ c.state = "Established" \/ c.state = "CloseWait"
    <3>1. Processed(c, s, d, t.call)
      OBVIOUS
    <3>2. d.state \in {"Established", "CloseWait"}
      BY <1>1, <1>3, <2>4, <3>1, ProcessedSnd
    <3> QED
      BY <2>1, <3>2
  <2>5. CASE c.state \in {"FinWait1", "FinWait2", "Closing", "LastAck", "TimeWait"}
    <3>1. task[e].tx.pc \in Closers
      BY <1>1, <1>7, <2>5 DEF Held, Stages, Reached, Closers, Teams, Txs, TxPcs
    <3>2. d.state \in Late
      BY <2>2, <3>1 DEF Held, Stages, Reached, Closers
    <3> QED
      BY <2>1, <3>2 DEF Late
  <2> QED
    BY <2>1, <2>3, <2>4, <2>5
<1>10. Receives(e, d, g, task[e].tx.pc, opens[e])
  BY <1>7, <1>8, <1>9 DEF InStep, Receives
<1>11. Heard(e, d, g)
  BY <1>8 DEF InStep
<1>12. Asked(e, d, g, task'[e], op[e], opens[e])
  <2>1. CallFits(e, d, g, op[e], task[e].tx.pc, t.call, opens[e])
    BY <1>2, <1>7, <1>11, AckFits, NoCallFits
  <2> QED
    BY <1>1, <1>5, <1>9, <1>11, <2>1, HeardAsked
<1>13. Going(task[e].tx.pc, op[e], task'[e].tx.pc, op'[e])
  BY <1>1 DEF Going
<1> QED
  BY <1>1, <1>4, <1>8, <1>10, <1>12, <1>13, QuietRight DEF There, There2

LEMMA InputRight ==
  ASSUME StreamSizes, Sane, Sane', Right, NEW e \in Ends, NEW i \in 1 .. Len(net[e]), Input(e, i)
  PROVE  Right'
<1>1. PICK s \in Segments, d \in Conns, t \in Ins :
        /\ \E m \in 1 .. Len(net[e]) : s = net[e][m]
        /\ Outcome(e, conn[e], s, d, t.call)
        /\ conn' = [conn EXCEPT ![e] = d] /\ task' = [task EXCEPT ![e].in = t]
        /\ NetShrinks /\ UNCHANGED <<op, got, acked, opens>>
  BY InputDoes
<1>2. PICK m \in 1 .. Len(net[e]) : s = net[e][m]
  BY <1>1
<1>3. conn[e] \in Conns
  BY DEF Sane, Typed
<1>4. CASE Refused(conn[e], s, d, t.call)
  <2>1. d = conn[e] /\ (t.call = NoCall \/ t.call = RstCall(s))
    BY <1>4 DEF Refused
  <2>2. t.call.kind # "segment"
    BY <2>1 DEF NoCall, RstCall
  <2>3. CallFits(e, d, got[e], op[e], task[e].tx.pc, t.call, opens[e])
    BY <2>2 DEF CallFits
  <2>4. SameRcv(conn[e], d) /\ d.port = conn[e].port /\ d.una = conn[e].una /\ d.nxt = conn[e].nxt
        /\ d.state \in {conn[e].state, "Closed"}
    BY <2>1 DEF SameRcv
  <2> QED
    BY <1>1, <2>3, <2>4, ArriveSame
<1>5. CASE IsReset(conn[e], d, t.call)
  <2>1. d = ResetConn(conn[e]) /\ t.call = NoCall
    BY <1>5 DEF IsReset
  <2>2. SameRcv(conn[e], d) /\ d.port = conn[e].port /\ d.una = conn[e].una /\ d.nxt = conn[e].nxt
        /\ d.state \in {conn[e].state, "Closed"}
    BY <1>3, <2>1, ResetIs DEF SameSnd
  <2>3. CallFits(e, d, got[e], op[e], task[e].tx.pc, t.call, opens[e])
    BY <2>1, NoCallFits
  <2> QED
    BY <1>1, <2>2, <2>3, ArriveSame
<1>6. CASE Repeated(conn[e], d, t.call)
  BY <1>1, <1>6, RepeatedRight
<1>7. CASE Answered(e, conn[e], s, d, t.call)
  BY <1>1, <1>2, <1>7, AnsweredRight
<1>8. CASE Connected(conn[e], s, d, t.call)
  BY <1>1, <1>2, <1>8, ConnectedRight
<1>9. CASE Processed(conn[e], s, d, t.call)
  BY <1>1, <1>2, <1>9, ProcessedRight
<1> QED
  BY <1>1, <1>4, <1>5, <1>6, <1>7, <1>8, <1>9 DEF Outcome

(***************************************************************************)
(* The invariant.                                                          *)
(***************************************************************************)
LEMMA RightInit ==
  ASSUME StreamSizes, Init
  PROVE  Right
<1> SUFFICES ASSUME NEW e \in Ends PROVE Faithful(e)
  BY DEF Right
<1> DEFINE p == Peer(e)
<1>1. p \in Ends
  BY PeerIs
<1>2. \A x \in Ends : /\ conn[x] = Reinit(0) /\ got[x] = <<>> /\ net[x] = <<>> /\ acked[x] = 0 /\ opens[x] = 0
                      /\ task[x] = [in |-> At("input", "idle"), tx |-> At("closed", "run"), rx |-> At("off", "idle")]
  BY DEF Init
<1>3. conn[e].ring = <<>> /\ ~conn[e].fin /\ conn[e].state = "Closed" /\ conn[p].ring = <<>> /\ ~conn[p].fin
  BY <1>1, <1>2 DEF Reinit
<1>4. task[e].tx.pc = "closed" /\ task[e].in.call = NoCall /\ task[e].tx.call = NoCall /\ task[e].rx.call = NoCall
  BY <1>2 DEF At
<1>5. \A x \in Ends : Stream(conn[x], got[x]) = <<>> /\ Taken(conn[x], got[x]) = 0
  <2> SUFFICES ASSUME NEW x \in Ends PROVE Stream(conn[x], got[x]) = <<>> /\ Taken(conn[x], got[x]) = 0
    OBVIOUS
  <2>1. conn[x].ring = <<>> /\ ~conn[x].fin /\ got[x] = <<>>
    BY <1>2 DEF Reinit
  <2>2. Stream(conn[x], got[x]) = <<>>
    BY <2>1 DEF Stream
  <2> QED
    BY <2>1, <2>2 DEF Taken
<1>6. Receives(e, conn[e], got[e], task[e].tx.pc, opens[e])
  <2>1. Total(p) \in Nat
    BY <1>1, UptoIs
  <2> QED
    BY <1>3, <1>4, <1>5, <2>1 DEF Receives, Linked, Running
<1>7. Finished(p, conn[e], got[e], op[p], task[p].tx.pc)
  BY <1>3 DEF Finished
<1>8. Sends2(e, conn[e], task[e].tx, op[e], acked[e], Len(Stream(conn[p], got[p])), Taken(conn[p], got[p]))
  <2>1. acked[e] <= Len(Stream(conn[p], got[p]))
    BY <1>1, <1>2, <1>5
  <2> QED
    BY <1>3, <1>4, <2>1, ClosedSends
<1>9. Asked(e, conn[e], got[e], task[e], op[e], opens[e])
  BY <1>4 DEF Asked, Tasks, NoCall
<1>10. Sent(e, op[e], task[e].tx.pc, net[p], Taken(conn[e], got[e]))
  BY <1>1, <1>2 DEF Sent
<1> QED
  BY <1>6, <1>7, <1>8, <1>9, <1>10 DEF Faithful

LEMMA RightStutter ==
  ASSUME Right, UNCHANGED vars
  PROVE  Right'
<1>1. /\ conn' = conn /\ task' = task /\ op' = op /\ net' = net /\ got' = got /\ acked' = acked /\ opens' = opens
  BY DEF vars
<1>2. ASSUME NEW e \in Ends PROVE Faithful(e)'
  BY <1>1 DEF Right, Faithful
<1> QED
  BY <1>2 DEF Right

LEMMA RightNext ==
  ASSUME StreamSizes, Sane, Sane', Right, [Next]_vars
  PROVE  Right'
<1>1. ASSUME NEW e \in Ends, InTask(e)
      PROVE  Right'
  BY <1>1, InputRight, InputReturnRight, EmitRight DEF InTask, Tasks
<1>2. ASSUME NEW e \in Ends, TxTask(e)
      PROVE  Right'
  BY <1>2, ConnectRight, ConnectSentRight, ConnectWakeRight, ListenRight, AcceptRight, SendRight, SendSentRight,
     SendWakeRight, SendTimeoutRight, CloseRight, CloseSentRight, CloseWakeRight, CloseTimeoutRight,
     FinWaitOverRight, AbortRight, AbortSentRight, EmitRight DEF TxTask, Tasks
<1>3. ASSUME NEW e \in Ends, RxTask(e)
      PROVE  Right'
  BY <1>3, RecvRight, EmitRight DEF RxTask, Tasks
<1> QED
  BY <1>1, <1>2, <1>3, RightStutter, TickRight, LoseRight DEF Next

LEMMA RightAlways == StreamSizes => (Spec => [](Sane /\ Right))
<1> SUFFICES ASSUME StreamSizes PROVE Spec => [](Sane /\ Right)
  OBVIOUS
<1>1. Init => Sane /\ Right
  BY SaneInit, RightInit
<1>2. (Sane /\ Right) /\ [Next]_vars => (Sane /\ Right)'
  BY SaneNext, RightNext
<1> QED
  BY <1>1, <1>2, PTL DEF Spec
-----------------------------------------------------------------------------
(***************************************************************************)
(* What it says.  StreamSizes: each end opens once, and the lengths of its *)
(* send() calls add up to less than half of the sequence space.            *)
(***************************************************************************)

(* The peer's octets arrive in order, each once and none skipped, whatever *)
(* is lost, repeated or overtaken (the in-order branch of tcp::input()).   *)
THEOREM InOrder == StreamSizes => (Spec => []StreamInOrder)
<1> SUFFICES ASSUME StreamSizes PROVE Spec => []StreamInOrder
  OBVIOUS
<1>1. Sane /\ Right => StreamInOrder
  <2> SUFFICES ASSUME Sane, Right, NEW e \in Ends
               PROVE  Received(e) = [i \in 1..Len(Received(e)) |-> <<conn[e].port, i>>]
    BY DEF StreamInOrder
  <2>1. Received(e) = Stream(conn[e], got[e])
    BY DEF Received, Stream
  <2>2. conn[e] \in Conns /\ got[e] \in Seq(Octets)
    BY DEF Sane, Typed
  <2> DEFINE q == Received(e)
  <2>3. q \in Seq(Octets)
    BY <2>1, <2>2, StreamIs
  <2>4. \A i \in 1 .. Len(q) : q[i] = <<conn[e].port, i>>
    BY <2>1 DEF Right, Faithful, Receives
  <2> HIDE DEF q
  <2>5. q = [i \in 1 .. Len(q) |-> q[i]]
    BY <2>3
  <2>6. q = [i \in 1 .. Len(q) |-> <<conn[e].port, i>>]
    BY <2>4, <2>5
  <2> QED
    BY <2>6 DEF q
<1> QED
  BY <1>1, RightAlways, PTL

(* What send() has returned true for is with the peer (the wait for        *)
(* acknowledgements in send(), the acknowledgements input() accepts).      *)
THEOREM SendTrue == StreamSizes => (Spec => []SendTrueMeansReceived)
<1> SUFFICES ASSUME StreamSizes PROVE Spec => []SendTrueMeansReceived
  OBVIOUS
<1>1. Sane /\ Right => SendTrueMeansReceived
  <2> SUFFICES ASSUME Sane, Right, NEW e \in Ends PROVE acked[e] <= Len(Received(Peer(e)))
    BY DEF SendTrueMeansReceived
  <2>1. acked[e] <= There(e)
    BY SendsIs
  <2> QED
    BY <2>1 DEF There, Received, Stream
<1> QED
  BY <1>1, RightAlways, PTL

(* End of stream is reported exactly where the peer's close() put its fin  *)
(* (the fin branch of tcp::input()).                                       *)
THEOREM EndOfStream == StreamSizes => (Spec => []EofIsTheEnd)
<1> SUFFICES ASSUME StreamSizes PROVE Spec => []EofIsTheEnd
  OBVIOUS
<1>1. Sane /\ Right => EofIsTheEnd
  <2> SUFFICES ASSUME Sane, Right, NEW e \in Ends, conn[e].fin
               PROVE  Add(Iss[Peer(e)][opens[Peer(e)]], 1 + Len(Received(e))) = op[Peer(e)].fin
    BY DEF EofIsTheEnd
  <2> DEFINE p == Peer(e)
  <2>1. p \in Ends
    BY PeerIs
  <2>2. task[p].tx.pc \in Closers /\ Add(Iss[p][1], 1 + Len(Stream(conn[e], got[e]))) = op[p].fin
    BY DEF Right, Faithful, Finished
  <2>3. opens[p] = 1
    <3>1. Fine(p, conn[p], task[p], op[p], opens[p]) /\ opens[p] \in 0 .. MaxOpens
      BY <2>1 DEF Sane, Typed
    <3>2. opens[p] >= 1
      BY <2>2, <3>1 DEF Fine, Counts, Closers
    <3> QED
      BY <3>1, <3>2 DEF StreamSizes
  <2> QED
    BY <2>2, <2>3 DEF Received, Stream
<1> QED
  BY <1>1, RightAlways, PTL

(* A closed connection is Closed, or tick() will close it (the ways out of *)
(* close() and abort()).                                                   *)
THEOREM Reusable == StreamSizes => (Spec => []CloseLeavesReusable)
<1> SUFFICES ASSUME StreamSizes PROVE Spec => []CloseLeavesReusable
  OBVIOUS
<1>1. Sane /\ Right => CloseLeavesReusable
  <2> SUFFICES ASSUME Sane, Right, NEW e \in Ends, task[e].tx.pc = "done" PROVE conn[e].state \in {"Closed", "TimeWait"}
    BY DEF CloseLeavesReusable
  <2>1. AtClose(e, conn[e], task[e].tx, op[e], Pos(e, conn[e].una), Pos(e, conn[e].nxt))
    BY SendsIs
  <2> QED
    BY <2>1 DEF AtClose
<1> QED
  BY <1>1, RightAlways, PTL
-----------------------------------------------------------------------------
(***************************************************************************)
(* The fin that input() takes to be acknowledged.                          *)
(***************************************************************************)
Parted == {"FinWait1", "Closing", "LastAck"}

\* What a Conn that waits for that acknowledgement keeps unless a segment brings it.
Abides(c, d) == d.una = c.una /\ d.nxt = c.nxt /\ d.state \in {c.state, "Closed"}

LEMMA AbidesNot ==
  ASSUME NEW c, NEW d, Abides(c, d)
  PROVE  ~FinDeemedAcked(c, d)
BY DEF Abides, FinDeemedAcked

LEMMA KeepsAbides ==
  ASSUME NEW c, NEW d, Keeps(c, d), SameSnd(c, d)
  PROVE  Abides(c, d)
BY DEF Keeps, SameWho, SameSnd, Abides

\* A segment that brings it has a number that the peer can only know of after the fin.
LEMMA FinReached ==
  ASSUME StreamSizes, Sane, Right, NEW e \in Ends, NEW m \in 1 .. Len(net[e]), NEW d, NEW k,
         Processed(conn[e], net[e][m], d, k), FinDeemedAcked(conn[e], d), op[e].sends = Len(Sends[e][1])
  PROVE  conn[Peer(e)].fin
<1> DEFINE c == conn[e]
           s == net[e][m]
           p == Peer(e)
           x == Pos(e, c.nxt)
           y == Pos(e, op[e].fin)
           w == There2(e)
           r == There(e)
           T == Total(e)
<1>1. /\ c \in Conns /\ task[e] \in Teams /\ task[e].tx.pc \in TxPcs /\ op[e] \in Ops
      /\ Fine(e, c, task[e], op[e], opens[e])
  BY TxSane
<1>2. s \in Segments /\ Acking(s)
  BY ArrivedSays DEF Processed, Acking
<1>3. 1 <= Pos(e, s.ack) /\ Pos(e, s.ack) <= 1 + w
  BY <1>2, ArrivedSays
<1>4. c.state \in Parted
  BY DEF FinDeemedAcked, Parted
<1>5. Takes(c, s)
  <2>1. /\ d.nxt = c.nxt /\ d.una = IF AckValid(c, s) THEN s.ack ELSE c.una
        /\ c.state \in {"FinWait1", "Closing"} /\ d.state \in {"FinWait2", "TimeWait"} => Takes(c, s)
    BY <1>1, <1>2, ProcessedSnd
  <2>2. CASE c.state \in {"FinWait1", "Closing"} /\ d.state \in {"FinWait2", "TimeWait"}
    BY <2>1, <2>2
  <2>3. CASE c.una # c.nxt /\ d.una = d.nxt
    BY <2>1, <2>3 DEF Takes
  <2> QED
    BY <2>2, <2>3 DEF FinDeemedAcked
<1>6. Pos(e, s.ack) = x
  BY <1>5 DEF Takes
<1>7. AtClose(e, c, task[e].tx, op[e], Pos(e, c.una), x)
  BY SendsIs
<1>8. task[e].tx.pc \in Leaving
  <2>1. c.state \in Reached(task[e].tx.pc)
    BY <1>1 DEF Fine, Stages
  <2>2. task[e].tx.pc \in {"close", "finwait", "abort", "done"}
    BY <1>1, <1>4, <2>1 DEF Reached, Parted, TxPcs
  <2>3. task[e].tx.pc # "done"
    BY <1>4, <1>7 DEF AtClose, Parted
  <2> QED
    BY <2>2, <2>3 DEF Leaving
<1>9. x = y + 1 /\ y = 1 + T
  BY <1>7, <1>8 DEF AtClose
<1>10. r \in Nat /\ w \in Nat /\ T \in Nat /\ r <= T
  BY ThereIs
<1>11. ASSUME ~conn[p].fin PROVE FALSE
  <2>1. w = r
    <3>1. p \in Ends
      BY PeerIs
    <3>2. conn[p] \in Conns /\ got[p] \in Seq(Octets)
      BY <3>1 DEF Sane, Typed
    <3> QED
      BY <1>11, <3>2, StreamIs DEF There, There2
  <2> HIDE DEF x, y, w, r, T
  <2> QED
    BY <1>3, <1>6, <1>9, <1>10, <2>1
<1> QED
  BY <1>11

LEMMA FinInput ==
  ASSUME StreamSizes, Sane, Right, NEW e \in Ends, NEW i \in 1 .. Len(net[e]), Input(e, i),
         FinDeemedAcked(conn[e], conn'[e]), op[e].sends = Len(Sends[e][1])
  PROVE  conn[Peer(e)].fin
<1>1. PICK s \in Segments, d \in Conns, t \in Ins :
        /\ \E m \in 1 .. Len(net[e]) : s = net[e][m]
        /\ Outcome(e, conn[e], s, d, t.call) /\ conn' = [conn EXCEPT ![e] = d]
  BY InputDoes
<1>2. PICK m \in 1 .. Len(net[e]) : s = net[e][m]
  BY <1>1
<1>3. conn[e] \in Conns /\ conn'[e] = d
  BY <1>1 DEF Sane, Typed
<1>4. conn[e].state \in Parted /\ ~Abides(conn[e], d)
  BY <1>3, AbidesNot DEF FinDeemedAcked, Parted
<1>5. ~Refused(conn[e], s, d, t.call) /\ ~Repeated(conn[e], d, t.call)
  BY <1>4 DEF Refused, Repeated, Abides
<1>6. ~IsReset(conn[e], d, t.call)
  BY <1>3, <1>4, ResetIs DEF IsReset, Abides, SameSnd
<1>7. ~Answered(e, conn[e], s, d, t.call) /\ ~Connected(conn[e], s, d, t.call)
  BY <1>4 DEF Answered, Connected, Parted
<1>8. Processed(conn[e], net[e][m], d, t.call)
  BY <1>1, <1>2, <1>5, <1>6, <1>7 DEF Outcome
<1> QED
  BY <1>3, <1>8, FinReached

\* The application of another end changes nothing of this one's Conn.
LEMMA Untouched ==
  ASSUME Sane, NEW x \in Ends, NEW e \in Ends \ {x}, NEW d, conn' = [conn EXCEPT ![x] = d]
  PROVE  conn'[e] = conn[e]
BY DEF Sane, Typed

LEMMA OwnSet ==
  ASSUME Sane, NEW e \in Ends, NEW d, NEW t, NEW o, Set(e, d, t, o)
  PROVE  conn'[e] = d
BY DEF Sane, Typed, Set

LEMMA CloseAbides ==
  ASSUME Sane, NEW e \in Ends, NEW c \in Conns, NEW o \in Ops, NEW give_up \in BOOLEAN, CloseLoop(e, c, o, give_up)
  PROVE  Abides(c, conn'[e])
<1>1. PICK d \in Conns, t \in Txs : ClosedOn(c, o, d, t) /\ Set(e, d, t, o)
  BY CloseLoopDoes
<1>2. conn'[e] = d
  BY <1>1, OwnSet
<1>3. CASE d = c
  BY <1>2, <1>3 DEF Abides
<1>4. CASE d = [c EXCEPT !.tx = "none"]
  <2>1. d.una = c.una /\ d.nxt = c.nxt /\ d.state = c.state
    BY <1>4 DEF Conns
  <2> QED
    BY <1>2, <2>1 DEF Abides
<1>5. CASE Keeps(c, d) /\ SameSnd(c, d)
  BY <1>2, <1>5, KeepsAbides
<1> QED
  BY <1>1, <1>3, <1>4, <1>5 DEF ClosedOn

\* While an end's fin is on its way, its application only repeats it, waits, or gives up.
LEMMA TxAbides ==
  ASSUME Sane, NEW e \in Ends, conn[e].state \in Parted, TxTask(e)
  PROVE  Abides(conn[e], conn'[e])
<1> DEFINE c == conn[e]
<1>1. /\ c \in Conns /\ task[e] \in Teams /\ task[e].tx.pc \in TxPcs /\ op[e] \in Ops
      /\ Fine(e, c, task[e], op[e], opens[e])
  BY TxSane
<1>2. c.state \in Reached(task[e].tx.pc)
  BY <1>1 DEF Fine, Stages
<1>3. task[e].tx.pc \in {"close", "finwait", "abort", "done"}
  BY <1>1, <1>2 DEF Reached, Parted, TxPcs
<1>4. Resumed(e) \in Conns /\ Keeps(c, Resumed(e)) /\ SameSnd(c, Resumed(e))
  BY <1>1, ResumedIs
<1>5. Abides(c, Resumed(e))
  BY <1>4, KeepsAbides
<1>6. CASE Emit(e, "tx")
  <2>1. PICK v \in BOOLEAN : conn' = [conn EXCEPT ![e] = [conn[e] EXCEPT !.wnd_closed = v]]
    BY <1>6, EmitDoes DEF Tasks
  <2>2. conn'[e] = [c EXCEPT !.wnd_closed = v]
    BY <2>1 DEF Sane, Typed
  <2> QED
    BY <1>1, <2>2 DEF Conns, Abides
<1>7. ~(e = "client" /\ (Connect \/ ConnectSent \/ ConnectWake)) /\ ~(e = "server" /\ (Listen \/ Accept))
  <2>1. ~MayOpen(e)
    BY DEF MayOpen, Parted
  <2>2. ASSUME e = "client" PROVE ~Connect /\ ~ConnectSent /\ ~ConnectWake
    <3>1. task["client"].tx.pc # "connect" /\ ~MayOpen("client")
      BY <1>3, <2>1, <2>2
    <3> QED
      BY <3>1 DEF Connect, ConnectSent, ConnectWake, Returned, Woken, TimedOut, Waiting
  <2>3. ASSUME e = "server" PROVE ~Listen /\ ~Accept
    <3>1. task["server"].tx.pc # "accept" /\ ~MayOpen("server")
      BY <1>3, <2>1, <2>3
    <3> QED
      BY <3>1 DEF Listen, Accept
  <2> QED
    BY <2>2, <2>3
<1>8. ~Send(e) /\ ~SendSent(e) /\ ~SendWake(e) /\ ~SendTimeout(e) /\ ~Close(e)
  BY <1>3 DEF Send, SendSent, SendWake, SendTimeout, Close, Returned, Woken, TimedOut, Waiting
<1>9. CASE CloseSent(e)
  <2>1. CASE task[e].tx.ok
    <3> DEFINE d == [c EXCEPT !.tx = Await(@)]
    <3>1. Set(e, d, At("close", "wait"), op[e])
      BY <1>9, <2>1 DEF CloseSent, WaitTx
    <3>2. Keeps(c, d) /\ SameSnd(c, d)
      BY <1>1, AwaitIs
    <3> HIDE DEF d
    <3> QED
      BY <3>1, <3>2, OwnSet, KeepsAbides
  <2>2. CASE ~task[e].tx.ok
    <3>1. CloseLoop(e, c, op[e], TRUE)
      BY <1>9, <2>2 DEF CloseSent
    <3> QED
      BY <1>1, <3>1, CloseAbides
  <2> QED
    BY <2>1, <2>2
<1>10. CASE CloseWake(e)
  <2>1. CloseLoop(e, Resumed(e), op[e], FALSE)
    BY <1>10 DEF CloseWake
  <2>2. Abides(Resumed(e), conn'[e])
    BY <1>1, <1>4, <2>1, CloseAbides
  <2> QED
    BY <1>5, <2>2 DEF Abides
<1>11. CASE CloseTimeout(e)
  <2> DEFINE b == [Resumed(e) EXCEPT !.retries = @ + 1]
             give_up == b.retries > MaxRetx
  <2>1. CloseLoop(e, b, op[e], give_up)
    BY <1>11 DEF CloseTimeout
  <2>2. b \in Conns /\ b.una = c.una /\ b.nxt = c.nxt /\ b.state = c.state
    BY <1>4 DEF Conns, Keeps, SameWho, SameSnd
  <2>3. give_up \in BOOLEAN
    OBVIOUS
  <2> HIDE DEF b, give_up
  <2>4. Abides(b, conn'[e])
    BY <1>1, <2>1, <2>2, <2>3, CloseAbides
  <2> QED
    BY <2>2, <2>4 DEF Abides
<1>12. CASE FinWaitOver(e)
  <2>1. PICK t : Set(e, Resumed(e), t, op[e])
    BY <1>12 DEF FinWaitOver
  <2>2. conn'[e] = Resumed(e)
    BY <2>1, OwnSet
  <2> QED
    BY <1>5, <2>2
<1>13. CASE Abort(e)
  <2>1. PICK t : Set(e, c, t, op[e])
    BY <1>13 DEF Abort, Parted
  <2>2. conn'[e] = c
    BY <2>1, OwnSet
  <2> QED
    BY <2>2 DEF Abides
<1>14. CASE AbortSent(e)
  <2>1. Set(e, ResetConn(c), At("done", "idle"), op[e])
    BY <1>14 DEF AbortSent
  <2>2. conn'[e] = ResetConn(c)
    BY <2>1, OwnSet
  <2>3. ResetConn(c).state = "Closed" /\ SameSnd(c, ResetConn(c))
    BY <1>1, ResetIs
  <2> QED
    BY <2>2, <2>3 DEF Abides, SameSnd
<1> QED
  BY <1>6, <1>7, <1>8, <1>9, <1>10, <1>11, <1>12, <1>13, <1>14 DEF TxTask

\* What another end does leaves this one's Conn alone.
LEMMA SetElse ==
  ASSUME Sane, NEW x \in Ends, NEW e \in Ends \ {x}, NEW d, NEW t, NEW o, Set(x, d, t, o)
  PROVE  conn'[e] = conn[e]
BY Untouched DEF Set

LEMMA MoreElse ==
  ASSUME Sane, NEW x \in Ends, NEW e \in Ends \ {x}, NEW c, NEW o, SendMore(x, c, o)
  PROVE  conn'[e] = conn[e]
<1>1. PICK d, t, o2 : Set(x, d, t, o2)
  BY DEF SendMore, WaitTx
<1> QED
  BY <1>1, SetElse

LEMMA LoopElse ==
  ASSUME Sane, NEW x \in Ends, NEW e \in Ends \ {x}, NEW c, NEW o, SendLoop(x, c, o)
  PROVE  conn'[e] = conn[e]
<1>1. CASE SendDone(c, o)
  <2>1. PICK d, t, o2 : Set(x, d, t, o2)
    BY <1>1 DEF SendLoop
  <2> QED
    BY <2>1, SetElse
<1>2. CASE ~SendDone(c, o) /\ Usable(c)
  <2>1. SendMore(x, [c EXCEPT !.tx = "none"], o)
    BY <1>2 DEF SendLoop
  <2> QED
    BY <2>1, MoreElse
<1>3. CASE ~SendDone(c, o) /\ ~Usable(c)
  <2>1. PICK d, t, o2 : Set(x, d, t, o2)
    BY <1>3 DEF SendLoop
  <2> QED
    BY <2>1, SetElse
<1> QED
  BY <1>1, <1>2, <1>3

LEMMA CloseElse ==
  ASSUME Sane, NEW x \in Ends, NEW e \in Ends \ {x}, NEW c, NEW o, NEW give_up, CloseLoop(x, c, o, give_up)
  PROVE  conn'[e] = conn[e]
<1>1. PICK d, t, o2 : Set(x, d, t, o2)
  BY DEF CloseLoop, WaitTx
<1> QED
  BY <1>1, SetElse

LEMMA TxElse ==
  ASSUME Sane, NEW x \in Ends, NEW e \in Ends \ {x}, TxTask(x)
  PROVE  conn'[e] = conn[e]
<1>1. CASE Emit(x, "tx")
  <2>1. PICK v \in BOOLEAN : conn' = [conn EXCEPT ![x] = [conn[x] EXCEPT !.wnd_closed = v]]
    BY <1>1, EmitDoes DEF Tasks
  <2> QED
    BY <2>1, Untouched
<1>2. CASE x = "client" /\ Connect
  <2>1. PICK d, t, o : Set(x, d, t, o)
    BY <1>2 DEF Connect
  <2> QED
    BY <2>1, SetElse
<1>3. CASE x = "client" /\ ConnectSent
  <2>1. PICK d, t, o : Set(x, d, t, o)
    BY <1>3 DEF ConnectSent, WaitTx
  <2> QED
    BY <2>1, SetElse
<1>4. CASE x = "client" /\ ConnectWake
  <2>1. PICK d : conn' = [conn EXCEPT ![x] = d]
    BY <1>4 DEF ConnectWake, Set
  <2> QED
    BY <2>1, Untouched
<1>5. CASE x = "server" /\ Listen
  <2>1. PICK d, t, o : Set(x, d, t, o)
    BY <1>5 DEF Listen
  <2> QED
    BY <2>1, SetElse
<1>6. CASE x = "server" /\ Accept
  <2>1. PICK d : conn' = [conn EXCEPT ![x] = d]
    BY <1>6 DEF Accept, Set, WaitTx
  <2> QED
    BY <2>1, Untouched
<1>7. CASE Send(x)
  <2>1. (\E c, o : SendLoop(x, c, o)) \/ (\E d, t, o : Set(x, d, t, o))
    BY <1>7 DEF Send
  <2> QED
    BY <2>1, LoopElse, SetElse
<1>8. CASE SendSent(x)
  <2>1. (\E c, o : SendMore(x, c, o)) \/ (\E d, t, o : Set(x, d, t, o))
    BY <1>8 DEF SendSent
  <2> QED
    BY <2>1, MoreElse, SetElse
<1>9. CASE SendWake(x)
  <2>1. \E c, o : SendLoop(x, c, o)
    BY <1>9 DEF SendWake
  <2> QED
    BY <2>1, LoopElse
<1>10. CASE SendTimeout(x)
  <2>1. (\E c, o : SendLoop(x, c, o)) \/ (\E d, t, o : Set(x, d, t, o))
    BY <1>10 DEF SendTimeout
  <2> QED
    BY <2>1, LoopElse, SetElse
<1>11. CASE Close(x)
  <2>1. (\E c, o, b : CloseLoop(x, c, o, b)) \/ (\E d, t, o : Set(x, d, t, o))
    BY <1>11 DEF Close
  <2> QED
    BY <2>1, CloseElse, SetElse
<1>12. CASE CloseSent(x)
  <2>1. (\E c, o, b : CloseLoop(x, c, o, b)) \/ (\E d, t, o : Set(x, d, t, o))
    BY <1>12 DEF CloseSent, WaitTx
  <2> QED
    BY <2>1, CloseElse, SetElse
<1>13. CASE CloseWake(x)
  <2>1. \E c, o, b : CloseLoop(x, c, o, b)
    BY <1>13 DEF CloseWake
  <2> QED
    BY <2>1, CloseElse
<1>14. CASE CloseTimeout(x)
  <2>1. \E c, o, b : CloseLoop(x, c, o, b)
    BY <1>14 DEF CloseTimeout
  <2> QED
    BY <2>1, CloseElse
<1>15. CASE FinWaitOver(x)
  <2>1. PICK d, t, o : Set(x, d, t, o)
    BY <1>15 DEF FinWaitOver
  <2> QED
    BY <2>1, SetElse
<1>16. CASE Abort(x)
  <2>1. PICK d, t, o : Set(x, d, t, o)
    BY <1>16 DEF Abort
  <2> QED
    BY <2>1, SetElse
<1>17. CASE AbortSent(x)
  <2>1. PICK d, t, o : Set(x, d, t, o)
    BY <1>17 DEF AbortSent
  <2> QED
    BY <2>1, SetElse
<1> QED
  BY <1>1, <1>2, <1>3, <1>4, <1>5, <1>6, <1>7, <1>8, <1>9, <1>10, <1>11, <1>12, <1>13, <1>14, <1>15, <1>16, <1>17
  DEF TxTask

\* No step but that of tcp::input() on a segment decides that a fin has been acknowledged.
LEMMA OthersAbide ==
  ASSUME Sane, NEW e \in Ends, conn[e].state \in Parted, [Next]_vars
  PROVE  Abides(conn[e], conn'[e]) \/ \E i \in 1 .. Len(net[e]) : Input(e, i)
<1>1. conn[e] \in Conns
  BY DEF Sane, Typed
<1>2. ASSUME conn'[e] = conn[e]
      PROVE  Abides(conn[e], conn'[e])
  BY <1>2 DEF Abides
<1>3. ASSUME NEW x \in Ends, NEW t \in Tasks, Emit(x, t)
      PROVE  Abides(conn[e], conn'[e])
  <2>1. PICK v \in BOOLEAN : conn' = [conn EXCEPT ![x] = [conn[x] EXCEPT !.wnd_closed = v]]
    BY <1>3, EmitDoes
  <2>2. CASE x = e
    <3>1. conn'[e] = [conn[e] EXCEPT !.wnd_closed = v]
      BY <2>1, <2>2 DEF Sane, Typed
    <3> QED
      BY <1>1, <3>1 DEF Conns, Abides
  <2>3. CASE x # e
    BY <1>2, <2>1, <2>3, Untouched
  <2> QED
    BY <2>2, <2>3
<1>4. ASSUME NEW x \in Ends, NEW i \in 1 .. Len(net[x]), Input(x, i), x # e
      PROVE  Abides(conn[e], conn'[e])
  <2>1. PICK d \in Conns : conn' = [conn EXCEPT ![x] = d]
    BY <1>4, InputDoes
  <2> QED
    BY <1>2, <1>4, <2>1, Untouched
<1>5. ASSUME NEW x \in Ends, InputReturn(x)
      PROVE  Abides(conn[e], conn'[e])
  <2>1. conn' = [conn EXCEPT ![x] = [conn[x] EXCEPT !.tx = Notify(@)]]
    BY <1>5 DEF InputReturn, Sane, Typed
  <2>2. CASE x = e
    <3>1. conn'[e] = [conn[e] EXCEPT !.tx = Notify(@)]
      BY <2>1, <2>2 DEF Sane, Typed
    <3> QED
      BY <1>1, <3>1 DEF Conns, Abides
  <2>3. CASE x # e
    BY <1>2, <2>1, <2>3, Untouched
  <2> QED
    BY <2>2, <2>3
<1>6. ASSUME NEW x \in Ends, InTask(x)
      PROVE  Abides(conn[e], conn'[e]) \/ \E i \in 1 .. Len(net[e]) : Input(e, i)
  BY <1>3, <1>4, <1>5, <1>6 DEF InTask, Tasks
<1>7. ASSUME NEW x \in Ends, TxTask(x)
      PROVE  Abides(conn[e], conn'[e])
  <2>1. CASE x = e
    BY <1>7, <2>1, TxAbides
  <2>2. CASE x # e
    BY <1>2, <1>7, <2>2, TxElse
  <2> QED
    BY <2>1, <2>2
<1>8. ASSUME NEW x \in Ends, Recv(x)
      PROVE  Abides(conn[e], conn'[e])
  <2>1. PICK d \in Conns, t \in Rxs : RecvDone(conn[x], d, t) /\ conn' = [conn EXCEPT ![x] = d]
    BY <1>8, RecvDoes
  <2>2. CASE x = e
    <3>1. conn'[e] = d
      BY <2>1, <2>2 DEF Sane, Typed
    <3> QED
      BY <2>1, <2>2, <3>1 DEF RecvDone, SameWho, SameSnd, Abides
  <2>3. CASE x # e
    BY <1>2, <2>1, <2>3, Untouched
  <2> QED
    BY <2>2, <2>3
<1>9. ASSUME NEW x \in Ends, Tick(x)
      PROVE  Abides(conn[e], conn'[e])
  <2>1. x # e
    BY <1>9 DEF Tick, Parted
  <2>2. conn' = [conn EXCEPT ![x] = Unbind(conn[x])]
    BY <1>9 DEF Tick, Sane, Typed
  <2> QED
    BY <1>2, <2>1, <2>2, Untouched
<1>10. ASSUME NEW x \in Ends, Lose(x)
       PROVE  Abides(conn[e], conn'[e])
  <2>1. conn' = conn
    BY <1>10 DEF Lose
  <2> QED
    BY <1>2, <2>1
<1>11. ASSUME UNCHANGED vars
       PROVE  Abides(conn[e], conn'[e])
  <2>1. conn' = conn
    BY <1>11 DEF vars
  <2> QED
    BY <1>2, <2>1
<1>12. ASSUME NEW x \in Ends, RxTask(x)
       PROVE  Abides(conn[e], conn'[e])
  BY <1>3, <1>8, <1>12 DEF RxTask, Tasks
<1> QED
  BY <1>6, <1>7, <1>9, <1>10, <1>11, <1>12 DEF Next

(* When input() decides that the fin of an orderly close is acknowledged,  *)
(* the peer has taken that fin.                                            *)
THEOREM OrderlyFin == StreamSizes => (Spec => OrderlyFinConsumed)
<1> SUFFICES ASSUME StreamSizes PROVE Spec => OrderlyFinConsumed
  OBVIOUS
<1> DEFINE A == \A e \in Ends :
                  FinDeemedAcked(conn[e], conn'[e]) /\ conn[Peer(e)].port = conn[e].port
                    /\ op[e].sends = Len(Script(e))
                  => conn[Peer(e)].fin
<1>1. (Sane /\ Right) /\ [Next]_vars => [A]_vars
  <2> SUFFICES ASSUME Sane, Right, [Next]_vars, NEW e \in Ends, FinDeemedAcked(conn[e], conn'[e]),
                      op[e].sends = Len(Script(e))
               PROVE  conn[Peer(e)].fin
    OBVIOUS
  <2>1. conn[e].state \in Parted
    BY DEF FinDeemedAcked, Parted
  <2>2. ~Abides(conn[e], conn'[e])
    BY AbidesNot
  <2>3. PICK i \in 1 .. Len(net[e]) : Input(e, i)
    BY <2>1, <2>2, OthersAbide
  <2>4. op[e].sends = Len(Sends[e][1])
    <3>1. Fine(e, conn[e], task[e], op[e], opens[e]) /\ opens[e] \in 0 .. MaxOpens
      BY DEF Sane, Typed
    <3>2. opens[e] >= 1
      BY <2>1, <3>1 DEF Fine, Counts, Parted
    <3>3. opens[e] = 1
      BY <3>1, <3>2 DEF StreamSizes
    <3> QED
      BY <3>3 DEF Script
  <2> QED
    BY <2>3, <2>4, FinInput
<1>2. Spec => [](Sane /\ Right)
  BY RightAlways
<1>3. Spec => [][A]_vars
  BY <1>1, <1>2, PTL DEF Spec
<1> QED
  BY <1>3 DEF OrderlyFinConsumed
=============================================================================
