------------------------------ MODULE TcpProofs ------------------------------
(***************************************************************************)
(* Tcp keeps its types and loses no wake-up, for every sequence space,     *)
(* buffer, script and network.  First the arithmetic of sequence numbers   *)
(* and rings, then what input() may do to a Conn (Outcome), then the       *)
(* invariant Sane action by action.                                        *)
(***************************************************************************)
EXTENDS Tcp, SequenceTheorems, FiniteSetTheorems, TLAPS

Half == SeqSpace \div 2

LEMMA Space ==
  SeqSpace \in Nat /\ SeqSpace >= 4 /\ Half \in Nat /\ SeqSpace = 2 * Half /\ Half >= 2
BY TcpAssumption DEF Half

LEMMA NumIs ==
  ASSUME NEW a
  PROVE  a \in SeqNums <=> a \in Int /\ 0 <= a /\ a < SeqSpace
BY Space DEF SeqNums

LEMMA AddIs ==
  ASSUME NEW a \in Int, 0 <= a, a < SeqSpace, NEW n \in Int, 0 <= n, n <= SeqSpace
  PROVE  /\ Add(a, n) \in Int /\ 0 <= Add(a, n) /\ Add(a, n) < SeqSpace
         /\ a + n < SeqSpace => Add(a, n) = a + n
         /\ a + n >= SeqSpace => Add(a, n) = a + n - SeqSpace
BY Space DEF Add

LEMMA DistIs ==
  ASSUME NEW a \in Int, 0 <= a, a < SeqSpace, NEW b \in Int, 0 <= b, b < SeqSpace
  PROVE  /\ Dist(a, b) \in Int /\ 0 <= Dist(a, b) /\ Dist(a, b) < SeqSpace
         /\ b >= a => Dist(a, b) = b - a
         /\ b < a => Dist(a, b) = b - a + SeqSpace
BY Space DEF Dist

LEMMA SeqLtIs ==
  ASSUME NEW a \in Int, 0 <= a, a < SeqSpace, NEW b \in Int, 0 <= b, b < SeqSpace
  PROVE  /\ SeqLt(a, b) <=> 1 <= Dist(a, b) /\ Dist(a, b) <= Half
         /\ SeqLe(a, b) <=> 0 <= Dist(a, b) /\ Dist(a, b) <= Half
<1> DEFINE x == Dist(a, b)
           y == Dist(b, a)
<1>1. x \in Int /\ 0 <= x /\ x < SeqSpace /\ (b >= a => x = b - a) /\ (b < a => x = b - a + SeqSpace)
  BY Space, DistIs
<1>2. y \in Int /\ 0 <= y /\ y < SeqSpace /\ (a >= b => y = a - b) /\ (a < b => y = a - b + SeqSpace)
  BY Space, DistIs
<1>3. SeqLt(a, b) <=> y >= Half
  BY DEF SeqLt, Half
<1> HIDE DEF x, y
<1>4. SeqLt(a, b) <=> 1 <= x /\ x <= Half
  BY Space, <1>1, <1>2, <1>3
<1>5. SeqLe(a, b) <=> 0 <= x /\ x <= Half
  BY Space, <1>1, <1>4 DEF SeqLe
<1> QED
  BY <1>4, <1>5 DEF x

\* Numbers that count from a common one.
LEMMA AddAdd ==
  ASSUME NEW a \in Int, 0 <= a, a < SeqSpace, NEW m \in Int, 0 <= m, NEW n \in Int, 0 <= n,
         m + n <= SeqSpace
  PROVE  Add(Add(a, m), n) = Add(a, m + n)
<1>1. m <= SeqSpace /\ n <= SeqSpace /\ m + n \in Int /\ 0 <= m + n
  BY Space
<1> DEFINE x == Add(a, m)
<1>2. x \in Int /\ 0 <= x /\ x < SeqSpace /\ (a + m < SeqSpace => x = a + m) /\ (a + m >= SeqSpace => x = a + m - SeqSpace)
  BY Space, <1>1, AddIs
<1> HIDE DEF x
<1> DEFINE y == Add(x, n)
           z == Add(a, m + n)
<1>3. y \in Int /\ 0 <= y /\ y < SeqSpace /\ (x + n < SeqSpace => y = x + n) /\ (x + n >= SeqSpace => y = x + n - SeqSpace)
  BY Space, <1>1, <1>2, AddIs
<1>4. /\ z \in Int /\ 0 <= z /\ z < SeqSpace
      /\ a + (m + n) < SeqSpace => z = a + (m + n)
      /\ a + (m + n) >= SeqSpace => z = a + (m + n) - SeqSpace
  BY Space, <1>1, AddIs
<1> HIDE DEF y, z
<1>5. y = z
  BY Space, <1>1, <1>2, <1>3, <1>4
<1> QED
  BY <1>5 DEF x, y, z

LEMMA DistOf ==
  ASSUME NEW a \in Int, 0 <= a, a < SeqSpace, NEW m \in Int, 0 <= m, m < SeqSpace,
         NEW n \in Int, 0 <= n, n < SeqSpace
  PROVE  /\ m <= n => Dist(Add(a, m), Add(a, n)) = n - m
         /\ m > n => Dist(Add(a, m), Add(a, n)) = n - m + SeqSpace
<1> DEFINE x == Add(a, m)
           y == Add(a, n)
<1>2. x \in Int /\ 0 <= x /\ x < SeqSpace /\ (a + m < SeqSpace => x = a + m) /\ (a + m >= SeqSpace => x = a + m - SeqSpace)
  BY Space, AddIs
<1>3. y \in Int /\ 0 <= y /\ y < SeqSpace /\ (a + n < SeqSpace => y = a + n) /\ (a + n >= SeqSpace => y = a + n - SeqSpace)
  BY Space, AddIs
<1> HIDE DEF x, y
<1>4. /\ y >= x => Dist(x, y) = y - x
      /\ y < x => Dist(x, y) = y - x + SeqSpace
  BY <1>2, <1>3, DistIs
<1>5. /\ m <= n => Dist(x, y) = n - m
      /\ m > n => Dist(x, y) = n - m + SeqSpace
  BY Space, <1>2, <1>3, <1>4
<1> QED
  BY <1>5 DEF x, y

LEMMA AddDist ==
  ASSUME NEW a \in Int, 0 <= a, a < SeqSpace, NEW b \in Int, 0 <= b, b < SeqSpace
  PROVE  Add(a, Dist(a, b)) = b
<1> DEFINE d == Dist(a, b)
<1>1. d \in Int /\ 0 <= d /\ d < SeqSpace /\ (b >= a => d = b - a) /\ (b < a => d = b - a + SeqSpace)
  BY DistIs
<1> HIDE DEF d
<1> DEFINE z == Add(a, d)
<1>2. z \in Int /\ (a + d < SeqSpace => z = a + d) /\ (a + d >= SeqSpace => z = a + d - SeqSpace)
  BY Space, <1>1, AddIs
<1> HIDE DEF z
<1>3. z = b
  BY Space, <1>1, <1>2
<1> QED
  BY <1>3 DEF d, z

Rings == {q \in Seq(Octets) : Len(q) <= RxBufferSize}
Conns == [state : States, bound : BOOLEAN, port : 0 .. MaxOpens, una : SeqNums, nxt : SeqNums,
          wnd : 0 .. RxBufferSize, retries : Nat, rcv : SeqNums, ring : Rings, fin : BOOLEAN,
          wnd_closed : BOOLEAN, tx : Events, rx : Events]
SameWho(c, d) == c.state = d.state /\ c.bound = d.bound /\ c.port = d.port
SameSnd(c, d) == c.una = d.una /\ c.nxt = d.nxt /\ c.wnd = d.wnd /\ c.retries = d.retries
SameRcv(c, d) == c.rcv = d.rcv /\ c.ring = d.ring /\ c.fin = d.fin /\ c.wnd_closed = d.wnd_closed

LEMMA Events1 == ASSUME NEW ev \in Events PROVE Notify(ev) \in {"set", "woken"} /\ Notify(ev) \in Events /\ Await(ev) \in {"waiting", "woken"} /\ Await(ev) \in Events
BY DEF Events, Notify, Await

LEMMA NotifyTxIs ==
  ASSUME NEW c \in Conns
  PROVE  LET d == NotifyTxOnly(c)
         IN d \in Conns /\ SameWho(c, d) /\ SameSnd(c, d) /\ SameRcv(c, d) /\ d.tx = Notify(c.tx) /\ d.rx = c.rx
BY Events1 DEF NotifyTxOnly, Conns, SameWho, SameSnd, SameRcv

LEMMA UnbindIs ==
  ASSUME NEW c \in Conns
  PROVE  LET d == Unbind(c)
         IN /\ d \in Conns /\ d.state = "Closed" /\ ~d.bound /\ d.port = c.port
            /\ SameSnd(c, d) /\ SameRcv(c, d) /\ d.tx = c.tx /\ d.rx = c.rx
BY DEF Unbind, Conns, SameWho, SameSnd, SameRcv, States

LEMMA ResetIs ==
  ASSUME NEW c \in Conns
  PROVE  LET d == ResetConn(c)
         IN /\ d \in Conns /\ d.state = "Closed" /\ ~d.bound /\ d.port = c.port
            /\ SameSnd(c, d) /\ SameRcv(c, d) /\ d.tx = Notify(c.tx) /\ d.rx = Notify(c.rx)
<1> DEFINE b == Unbind(c)
<1>1. /\ b \in Conns /\ b.state = "Closed" /\ ~b.bound /\ b.port = c.port
      /\ SameSnd(c, b) /\ SameRcv(c, b) /\ b.tx = c.tx /\ b.rx = c.rx
  BY UnbindIs
<1> HIDE DEF b
<1>2. ResetConn(c) = [b EXCEPT !.tx = Notify(@), !.rx = Notify(@)]
  BY DEF ResetConn, NotifyBoth, b
<1>3. Notify(b.tx) \in Events /\ Notify(b.rx) \in Events
  BY <1>1, Events1 DEF Conns
<1> QED
  BY <1>1, <1>2, <1>3 DEF Conns, SameSnd, SameRcv

LEMMA TimeWaitIs ==
  ASSUME NEW c \in Conns
  PROVE  LET d == TimeWait(c)
         IN /\ d \in Conns /\ d.state = "TimeWait" /\ d.bound = c.bound /\ d.port = c.port
            /\ SameSnd(c, d) /\ SameRcv(c, d) /\ d.tx = Notify(c.tx) /\ d.rx = Notify(c.rx)
BY Events1 DEF TimeWait, NotifyBoth, Conns, SameWho, SameSnd, SameRcv, States

LEMMA Constants ==
  /\ RxBufferSize \in Nat /\ RxBufferSize >= 1 /\ RxBufferSize < Half /\ Mss \in Nat /\ Mss >= 1
  /\ ReadSize \in Nat /\ ReadSize >= 1 /\ MaxRetx \in Nat /\ MaxNet \in Nat /\ MaxFaults \in Nat
  /\ MaxFail \in Nat /\ MaxOpens \in Nat /\ MaxOpens >= 1
  /\ Sends \in [Ends -> [1..MaxOpens -> Seq(Nat \ {0})]]
  /\ Iss \in [Ends -> [1..MaxOpens -> SeqNums]]
BY TcpAssumption DEF Half, SeqNums

LEMMA FreeIs ==
  ASSUME NEW c \in Conns
  PROVE  /\ Len(c.ring) \in Nat /\ c.ring \in Seq(Octets) /\ Len(c.ring) <= RxBufferSize
         /\ RxFree(c) \in 0 .. RxBufferSize /\ RxFree(c) = RxBufferSize - Len(c.ring)
BY Constants DEF Conns, Rings, RxFree

\* The states around the closing of the sending direction.
Takes(c, s) == AckValid(c, s) /\ s.ack = c.nxt

LEMMA AckStepIs ==
  ASSUME NEW c \in Conns, NEW s \in Segments
  PROVE  LET d == AckStep(c, s)
         IN /\ d \in Conns /\ d.port = c.port /\ d.nxt = c.nxt /\ d.retries = c.retries /\ SameRcv(c, d)
            /\ (d.tx = Notify(c.tx) \/ d.tx = Notify(Notify(c.tx)))
            /\ (d.rx = c.rx \/ (d.state = "TimeWait" /\ d.rx = Notify(c.rx)))
            /\ d.una = IF AckValid(c, s) THEN s.ack ELSE c.una
            /\ \/ d.state = c.state /\ d.bound = c.bound
                  /\ (Takes(c, s) => c.state \notin {"FinWait1", "Closing", "LastAck"})
               \/ Takes(c, s) /\ c.state = "FinWait1" /\ d.state = "FinWait2" /\ d.bound = c.bound
               \/ Takes(c, s) /\ c.state = "Closing" /\ d.state = "TimeWait" /\ d.bound = c.bound
               \/ Takes(c, s) /\ c.state = "LastAck" /\ d.state = "Closed" /\ ~d.bound
<1> DEFINE c1 == [c EXCEPT !.una = s.ack, !.wnd = s.wnd]
           c2 == CASE c.state = "FinWait1" -> [c1 EXCEPT !.state = "FinWait2"]
                   [] c.state = "Closing" -> TimeWait(c1)
                   [] c.state = "LastAck" -> Unbind(c1)
                   [] OTHER -> c1
           c3 == IF ~AckValid(c, s) THEN c ELSE IF AllAcked(c1) THEN c2 ELSE c1
           d  == [c3 EXCEPT !.tx = Notify(@)]
<1>0. AckStep(c, s) = d
  BY DEF AckStep
<1>1. c1 \in Conns /\ SameWho(c, c1) /\ SameRcv(c, c1) /\ c1.una = s.ack /\ c1.nxt = c.nxt
      /\ c1.retries = c.retries /\ c1.tx = c.tx /\ c1.rx = c.rx
  BY DEF Conns, Segments, SameWho, SameRcv
<1>2. AllAcked(c1) <=> s.ack = c.nxt
  BY <1>1 DEF AllAcked
<1> HIDE DEF c1
<1>3. /\ c2 \in Conns /\ c2.port = c.port /\ SameRcv(c, c2) /\ c2.una = s.ack /\ c2.nxt = c.nxt
      /\ c2.retries = c.retries /\ (c2.tx = c.tx \/ c2.tx = Notify(c.tx))
      /\ (c2.rx = c.rx \/ (c2.state = "TimeWait" /\ c2.rx = Notify(c.rx)))
      /\ \/ c2.state = c.state /\ c2.bound = c.bound /\ c.state \notin {"FinWait1", "Closing", "LastAck"}
         \/ c.state = "FinWait1" /\ c2.state = "FinWait2" /\ c2.bound = c.bound
         \/ c.state = "Closing" /\ c2.state = "TimeWait" /\ c2.bound = c.bound
         \/ c.state = "LastAck" /\ c2.state = "Closed" /\ ~c2.bound
  <2>1. CASE c.state = "FinWait1"
    <3>1. c2 = [c1 EXCEPT !.state = "FinWait2"]
      BY <2>1
    <3> QED
      BY <3>1, <2>1, <1>1 DEF Conns, SameRcv, SameWho, States
  <2>2. CASE c.state = "Closing"
    <3>1. c2 = TimeWait(c1)
      BY <2>2
    <3> HIDE DEF c2
    <3> QED
      BY <3>1, <2>2, <1>1, TimeWaitIs DEF SameRcv, SameWho, SameSnd
  <2>3. CASE c.state = "LastAck"
    <3>1. c2 = Unbind(c1)
      BY <2>3
    <3> HIDE DEF c2
    <3> QED
      BY <3>1, <2>3, <1>1, UnbindIs DEF SameRcv, SameWho, SameSnd
  <2>4. CASE c.state \notin {"FinWait1", "Closing", "LastAck"}
    <3>1. c2 = c1
      BY <2>4
    <3> HIDE DEF c2
    <3> QED
      BY <3>1, <2>4, <1>1 DEF SameRcv, SameWho, SameSnd
  <2> QED
    BY <2>1, <2>2, <2>3, <2>4
<1> HIDE DEF c2
<1>4. c3 \in Conns
  BY <1>1, <1>3
<1>5. /\ d \in Conns /\ d.tx = Notify(c3.tx) /\ d.rx = c3.rx /\ SameWho(c3, d) /\ SameSnd(c3, d) /\ SameRcv(c3, d)
  BY <1>4, NotifyTxIs DEF NotifyTxOnly
<1>6. CASE ~AckValid(c, s)
  <2>1. c3 = c
    BY <1>6
  <2> HIDE DEF c3, d
  <2> QED
    BY <2>1, <1>0, <1>5, <1>6 DEF SameWho, SameSnd, SameRcv, Takes
<1>7. CASE AckValid(c, s) /\ s.ack = c.nxt
  <2>1. c3 = c2
    BY <1>7, <1>2
  <2> HIDE DEF c3, d
  <2> QED
    BY <2>1, <1>0, <1>3, <1>5, <1>7 DEF SameWho, SameSnd, SameRcv, Takes
<1>8. CASE AckValid(c, s) /\ s.ack # c.nxt
  <2>1. c3 = c1
    BY <1>8, <1>2
  <2> HIDE DEF c3, d
  <2> QED
    BY <2>1, <1>0, <1>1, <1>5, <1>8 DEF SameWho, SameSnd, SameRcv, Takes
<1> QED
  BY <1>6, <1>7, <1>8

\* d is c with octets of s behind those c has, as many as the ring takes.
Takers == {"Established", "FinWait1", "FinWait2"}
Pushed(c, s, d, skip, octets) ==
  /\ skip \in Nat /\ octets \in Seq(Octets) /\ Len(octets) >= 1 /\ skip + Len(octets) <= Len(s.data)
  /\ \A j \in 1 .. Len(octets) : octets[j] = s.data[skip + j]
  /\ Add(s.seq, skip) = c.rcv /\ c.state \in Takers
  /\ d.rcv = Add(c.rcv, Len(octets)) /\ d.ring = c.ring \o octets
  /\ d.fin = c.fin /\ d.wnd_closed = c.wnd_closed /\ d.rx = Notify(c.rx)

LEMMA DataStepIs ==
  ASSUME NEW c \in Conns, NEW s \in Segments
  PROVE  LET d == DataStep(c, s)
         IN /\ d \in Conns /\ SameWho(c, d) /\ SameSnd(c, d) /\ d.tx = c.tx
            /\ \/ SameRcv(c, d) /\ d.rx = c.rx
               \/ \E skip, octets : Pushed(c, s, d, skip, octets)
<1> DEFINE skip == IF SeqLt(s.seq, c.rcv) THEN Dist(s.seq, c.rcv) ELSE 0
           body == SubSeq(s.data, skip + 1, Len(s.data))
           n    == Lesser(Len(body), RxFree(c))
           o    == SubSeq(body, 1, n)
           d    == DataStep(c, s)
           g    == c.state \in Takers /\ n # 0 /\ Expected(c, s.seq, skip)
<1>1. d = IF g THEN Push(c, o) ELSE c
  BY DEF DataStep, Takers
<1>2. s.data \in Seq(Octets) /\ Len(s.data) \in Nat /\ s.seq \in SeqNums /\ c.rcv \in SeqNums
  BY DEF Segments, Conns
<1>3. skip \in Nat
  BY <1>2, NumIs, DistIs
<1> HIDE DEF skip
<1>4. /\ body \in Seq(Octets) /\ Len(body) \in Nat
      /\ Len(body) = IF skip <= Len(s.data) THEN Len(s.data) - skip ELSE 0
      /\ \A j \in 1 .. Len(body) : body[j] = s.data[skip + j]
  <2>1. skip + 1 \in Nat
    BY <1>3
  <2> QED
    BY <1>2, <1>3, <2>1, SubSeqProperties
<1> HIDE DEF body
<1>5. n \in Nat /\ n <= Len(body) /\ n <= RxFree(c)
  BY <1>4, FreeIs, Constants DEF Lesser
<1> HIDE DEF n
<1>6. o \in Seq(Octets) /\ Len(o) = n /\ \A j \in 1 .. n : o[j] = body[j]
  BY <1>4, <1>5, SubSeqProperties
<1> HIDE DEF o
<1>9. DataStep(c, s) = d
  OBVIOUS
<1>7. CASE ~g
  <2>1. d = c
    BY <1>1, <1>7
  <2> HIDE DEF d
  <2> QED
    BY <1>9, <2>1 DEF SameWho, SameSnd, SameRcv
<1>8. CASE g
  <2>1. d = Push(c, o)
    BY <1>1, <1>8
  <2> HIDE DEF d
  <2>2. c.ring \o o \in Rings
    BY <1>5, <1>6, FreeIs, ConcatProperties, Constants DEF Rings
  <2>3. Add(c.rcv, Len(o)) \in SeqNums
    BY <1>2, <1>6, NumIs, Space, TcpAssumption DEF Add, SeqNums
  <2>4. Notify(c.rx) \in Events
    BY Events1 DEF Conns
  <2>5. d \in Conns /\ SameWho(c, d) /\ SameSnd(c, d) /\ d.tx = c.tx /\ d.rx = Notify(c.rx)
        /\ d.rcv = Add(c.rcv, Len(o)) /\ d.ring = c.ring \o o /\ d.fin = c.fin /\ d.wnd_closed = c.wnd_closed
    BY <2>1, <2>2, <2>3, <2>4 DEF Push, Conns, SameWho, SameSnd
  <2>6. n # 0 /\ Add(s.seq, skip) = c.rcv /\ c.state \in Takers
    BY <1>8 DEF Expected
  <2>7. Pushed(c, s, d, skip, o)
    <3>1. Len(o) >= 1 /\ skip + Len(o) <= Len(s.data)
      BY <1>2, <1>3, <1>4, <1>5, <1>6, <2>6
    <3>2. \A j \in 1 .. Len(o) : o[j] = s.data[skip + j]
      BY <1>4, <1>5, <1>6
    <3> QED
      BY <1>3, <1>6, <2>5, <2>6, <3>1, <3>2 DEF Pushed
  <2> QED
    BY <1>9, <2>5, <2>7
<1> QED
  BY <1>7, <1>8

FinTaken(c, s, d) ==
  /\ "F" \in s.flags /\ Expected(c, s.seq, Len(s.data)) /\ ~c.fin
  /\ d.fin /\ d.rcv = Add(c.rcv, 1) /\ d.ring = c.ring /\ d.wnd_closed = c.wnd_closed
  /\ (d.rx = Notify(c.rx) \/ d.rx = Notify(Notify(c.rx)))
  /\ (d.tx = Notify(c.tx) \/ d.tx = Notify(Notify(c.tx)))
  /\ d.bound = c.bound
  /\ d.state = CASE c.state = "Established" -> "CloseWait"
                 [] c.state = "FinWait1" -> "Closing"
                 [] c.state = "FinWait2" -> "TimeWait"
                 [] OTHER -> c.state

LEMMA FinStepIs ==
  ASSUME NEW c \in Conns, NEW s \in Segments
  PROVE  LET d == FinStep(c, s)
         IN d = c \/ (d \in Conns /\ d.port = c.port /\ SameSnd(c, d) /\ FinTaken(c, s, d))
<1> DEFINE c1 == [c EXCEPT !.rcv = Add(@, 1), !.fin = TRUE]
           c2 == CASE c.state = "Established" -> [c1 EXCEPT !.state = "CloseWait"]
                   [] c.state = "FinWait1" -> [c1 EXCEPT !.state = "Closing"]
                   [] c.state = "FinWait2" -> TimeWait(c1)
                   [] OTHER -> c1
           d  == FinStep(c, s)
           g  == "F" \in s.flags /\ Expected(c, s.seq, Len(s.data)) /\ ~c.fin
<1>0. d = IF g THEN NotifyBoth(c2) ELSE c
  BY DEF FinStep
<1>1. Add(c.rcv, 1) \in SeqNums
  BY Space, TcpAssumption DEF Add, SeqNums, Conns
<1>2. c1 \in Conns /\ SameWho(c, c1) /\ SameSnd(c, c1) /\ c1.tx = c.tx /\ c1.rx = c.rx
      /\ c1.rcv = Add(c.rcv, 1) /\ c1.fin /\ c1.ring = c.ring /\ c1.wnd_closed = c.wnd_closed
  BY <1>1 DEF Conns, SameWho, SameSnd
<1> HIDE DEF c1
<1> DEFINE st == CASE c.state = "Established" -> "CloseWait"
                   [] c.state = "FinWait1" -> "Closing"
                   [] c.state = "FinWait2" -> "TimeWait"
                   [] OTHER -> c.state
<1>3. /\ c2 \in Conns /\ c2.port = c.port /\ c2.bound = c.bound /\ SameSnd(c, c2)
      /\ (c2.tx = c.tx \/ c2.tx = Notify(c.tx)) /\ (c2.rx = c.rx \/ c2.rx = Notify(c.rx))
      /\ c2.rcv = Add(c.rcv, 1) /\ c2.fin /\ c2.ring = c.ring /\ c2.wnd_closed = c.wnd_closed
      /\ c2.state = st
  <2>1. CASE c.state = "Established"
    <3>1. c2 = [c1 EXCEPT !.state = "CloseWait"] /\ st = "CloseWait"
      BY <2>1
    <3> QED
      BY <3>1, <2>1, <1>2 DEF Conns, SameSnd, SameWho, States
  <2>2. CASE c.state = "FinWait1"
    <3>1. c2 = [c1 EXCEPT !.state = "Closing"] /\ st = "Closing"
      BY <2>2
    <3> QED
      BY <3>1, <2>2, <1>2 DEF Conns, SameSnd, SameWho, States
  <2>3. CASE c.state = "FinWait2"
    <3>1. c2 = TimeWait(c1) /\ st = "TimeWait"
      BY <2>3
    <3> HIDE DEF c2, st
    <3> QED
      BY <3>1, <2>3, <1>2, TimeWaitIs DEF SameRcv, SameWho, SameSnd
  <2>4. CASE c.state \notin {"Established", "FinWait1", "FinWait2"}
    <3>1. c2 = c1 /\ st = c.state
      BY <2>4
    <3> HIDE DEF c2, st
    <3> QED
      BY <3>1, <2>4, <1>2 DEF SameRcv, SameWho, SameSnd
  <2> QED
    BY <2>1, <2>2, <2>3, <2>4
<1> HIDE DEF c2
<1>4. CASE g
  <2>1. d = [c2 EXCEPT !.tx = Notify(@), !.rx = Notify(@)]
    BY <1>0, <1>4 DEF NotifyBoth
  <2> HIDE DEF d, st
  <2>2. Notify(c2.tx) \in Events /\ Notify(c2.rx) \in Events
    BY <1>3, Events1 DEF Conns
  <2>3. d \in Conns /\ SameWho(c2, d) /\ SameSnd(c2, d) /\ SameRcv(c2, d) /\ d.tx = Notify(c2.tx) /\ d.rx = Notify(c2.rx)
    BY <1>3, <2>1, <2>2 DEF Conns, SameWho, SameSnd, SameRcv
  <2>4. d.state = st /\ d.bound = c.bound /\ d.port = c.port /\ SameSnd(c, d)
    BY <1>3, <2>3 DEF SameWho, SameSnd
  <2>5. d.fin /\ d.rcv = Add(c.rcv, 1) /\ d.ring = c.ring /\ d.wnd_closed = c.wnd_closed
    BY <1>3, <2>3 DEF SameRcv
  <2>6. /\ (d.rx = Notify(c.rx) \/ d.rx = Notify(Notify(c.rx)))
        /\ (d.tx = Notify(c.tx) \/ d.tx = Notify(Notify(c.tx)))
    BY <1>3, <2>3
  <2>7. FinTaken(c, s, d)
    BY <1>4, <2>4, <2>5, <2>6 DEF FinTaken, st
  <2>8. FinStep(c, s) = d
    BY DEF d
  <2> QED
    BY <2>3, <2>4, <2>7, <2>8
<1>5. CASE ~g
  BY <1>0, <1>5
<1> QED
  BY <1>4, <1>5

\* What tcp::input() may make of a segment s: the Conn d after c, and the call k.
Refused(c, s, d, k) == d = c /\ (k = NoCall \/ k = RstCall(s))

Answered(e, c, s, d, k) ==
  LET iss == Iss[e][opens[e]]
  IN /\ c.state = "Listen" /\ "A" \notin s.flags /\ "R" \notin s.flags /\ "S" \in s.flags
     /\ d.state = "SynReceived" /\ d.bound = c.bound /\ d.port = s.port
     /\ d.una = iss /\ d.nxt = Add(iss, 1) /\ d.rcv = Add(s.seq, 1)
     /\ d.ring = c.ring /\ d.fin = c.fin /\ d.wnd_closed = c.wnd_closed /\ d.tx = c.tx /\ d.rx = c.rx
     /\ k = Call({"S", "A"}, iss, <<>>)

Connected(c, s, d, k) ==
  /\ c.state = "SynSent" /\ c.port = s.port /\ "A" \in s.flags /\ "R" \notin s.flags /\ "S" \in s.flags
  /\ SeqLt(c.una, s.ack) /\ SeqLe(s.ack, c.nxt)
  /\ d.state = "Established" /\ d.bound = c.bound /\ d.port = c.port
  /\ d.una = s.ack /\ d.nxt = c.nxt /\ d.rcv = Add(s.seq, 1)
  /\ d.ring = c.ring /\ d.fin = c.fin /\ d.wnd_closed = c.wnd_closed /\ d.tx = c.tx /\ d.rx = c.rx
  /\ k = Call({"A"}, c.nxt, <<>>)

IsReset(c, d, k) == d = ResetConn(c) /\ c.state \notin {"Closed", "Listen"} /\ k = NoCall

Repeated(c, d, k) == d = c /\ c.state = "SynReceived" /\ k = Call({"S", "A"}, c.una, <<>>)

Established(c) == IF c.state = "SynReceived" THEN [c EXCEPT !.state = "Established"] ELSE c

Processed(c, s, d, k) ==
  /\ c.state \notin {"Closed", "Listen", "SynSent"} /\ c.port = s.port
  /\ "A" \in s.flags /\ "R" \notin s.flags
  /\ c.state = "SynReceived" => SeqLe(c.una, s.ack) /\ SeqLe(s.ack, c.nxt)
  /\ d = FinStep(DataStep(AckStep(Established(c), s), s), s)
  /\ (k = NoCall \/ k = Call({"A"}, d.nxt, <<>>))

Known(c) == c.bound <=> c.state # "Closed"

LEMMA CallIs ==
  ASSUME NEW f \in FlagSets, NEW q \in SeqNums, NEW o \in Seq(Octets)
  PROVE  Call(f, q, o) \in Calls /\ Call(f, q, o) # NoCall /\ Call(f, q, o).kind = "segment"
         /\ Call(f, q, o).flags = f /\ Call(f, q, o).seq = q /\ Call(f, q, o).data = o
BY DEF Call, Calls, NoCall

LEMMA ControlCalls ==
  ASSUME NEW q \in SeqNums
  PROVE  \A f \in {{"A"}, {"S"}, {"S", "A"}, {"F", "A"}, {"R", "A"}} :
           Call(f, q, <<>>) \in Calls /\ Call(f, q, <<>>) # NoCall
<1>1. \A f \in {{"A"}, {"S"}, {"S", "A"}, {"F", "A"}, {"R", "A"}} : f \in FlagSets
  BY DEF FlagSets
<1>2. <<>> \in Seq(Octets)
  OBVIOUS
<1>3. ASSUME NEW f \in FlagSets
      PROVE  Call(f, q, <<>>) \in Calls /\ Call(f, q, <<>>) # NoCall
  BY <1>2 DEF Call, Calls, NoCall
<1> QED
  BY <1>1, <1>3

LEMMA RstCallIs ==
  ASSUME NEW s \in Segments
  PROVE  RstCall(s) \in Calls /\ RstCall(s) # NoCall /\ RstCall(s).kind = "rst" /\ RstCall(s).offender = s
BY DEF RstCall, Calls, NoCall

LEMMA EstablishedIs ==
  ASSUME NEW c \in Conns
  PROVE  LET d == Established(c)
         IN /\ d \in Conns /\ d.bound = c.bound /\ d.port = c.port /\ SameSnd(c, d) /\ SameRcv(c, d)
            /\ d.tx = c.tx /\ d.rx = c.rx
            /\ d.state = IF c.state = "SynReceived" THEN "Established" ELSE c.state
BY DEF Established, Conns, SameWho, SameSnd, SameRcv, States

LEMMA AddNum ==
  ASSUME NEW a \in SeqNums, NEW n \in Nat
  PROVE  Add(a, n) \in SeqNums
BY Space DEF Add, SeqNums

LEMMA ProcessedIs ==
  ASSUME NEW c \in Conns, NEW s \in Segments, NEW d, NEW k, Processed(c, s, d, k)
  PROVE  d \in Conns /\ d.port = c.port /\ d.nxt = c.nxt
<1>1. Established(c) \in Conns /\ Established(c).port = c.port /\ Established(c).nxt = c.nxt
  BY EstablishedIs DEF SameSnd
<1> DEFINE a == AckStep(Established(c), s)
<1>2. a \in Conns /\ a.port = c.port /\ a.nxt = c.nxt
  BY <1>1, AckStepIs
<1> HIDE DEF a
<1> DEFINE b == DataStep(a, s)
<1>3. b \in Conns /\ b.port = c.port /\ b.nxt = c.nxt
  BY <1>2, DataStepIs DEF SameWho, SameSnd
<1> HIDE DEF b
<1>4. d = FinStep(b, s)
  BY DEF Processed, a, b
<1>5. d = b \/ (d \in Conns /\ d.port = b.port /\ SameSnd(b, d))
  BY <1>3, <1>4, FinStepIs
<1> QED
  BY <1>3, <1>5 DEF SameSnd

Outcome(e, c, s, d, k) ==
  \/ Refused(c, s, d, k) \/ Answered(e, c, s, d, k) \/ Connected(c, s, d, k)
  \/ IsReset(c, d, k) \/ Repeated(c, d, k) \/ Processed(c, s, d, k)

LEMMA RefuseIs ==
  ASSUME NEW c, NEW s
  PROVE  /\ Refused(c, s, Refuse(c, s).conn, Refuse(c, s).call) /\ Refuse(c, s).notify = FALSE
         /\ Refused(c, s, Silent(c).conn, Silent(c).call) /\ Silent(c).notify = FALSE
BY DEF Refused, Refuse, Silent, Result

LEMMA ListenIs ==
  ASSUME NEW e \in Ends, NEW c \in Conns, NEW s \in Segments, c.state = "Listen", opens[e] \in 1 .. MaxOpens
  PROVE  LET r == InListen(e, c, s)
         IN r.conn \in Conns /\ r.call \in Calls /\ r.notify = FALSE /\ Outcome(e, c, s, r.conn, r.call)
<1> DEFINE r   == InListen(e, c, s)
           iss == Iss[e][opens[e]]
<1>0. iss \in SeqNums /\ Add(iss, 1) \in SeqNums /\ Add(s.seq, 1) \in SeqNums
  <2>1. iss \in SeqNums
    BY Constants
  <2>2. s.seq \in SeqNums
    BY DEF Segments
  <2> QED
    BY <2>1, <2>2, AddNum
<1>1. CASE "A" \in s.flags
  <2>1. r = Refuse(c, s)
    BY <1>1 DEF InListen
  <2> HIDE DEF r
  <2>2. Refused(c, s, r.conn, r.call) /\ r.notify = FALSE
    BY <2>1, RefuseIs
  <2>3. r.conn \in Conns /\ r.call \in Calls
    BY <2>2, RstCallIs DEF Refused, Calls
  <2> QED
    BY <2>2, <2>3 DEF Outcome, r
<1>2. CASE "A" \notin s.flags /\ s.flags \cap {"R", "S"} = {"S"}
  <2> DEFINE d == [c EXCEPT !.port = s.port, !.rcv = Add(s.seq, 1), !.wnd = s.wnd,
                            !.una = iss, !.nxt = Add(iss, 1), !.state = "SynReceived"]
             k == Call({"S", "A"}, iss, <<>>)
  <2>1. r = [conn |-> d, call |-> k, notify |-> FALSE]
    BY <1>2 DEF InListen, Result
  <2>2. "S" \in s.flags /\ "R" \notin s.flags
    BY <1>2
  <2>3. d \in Conns
    BY <1>0 DEF Conns, Segments, States
  <2>4. k \in Calls
    <3>1. {"S", "A"} \in FlagSets /\ <<>> \in Seq(Octets)
      BY DEF FlagSets
    <3> QED
      BY <1>0, <3>1, CallIs
  <2>5. Answered(e, c, s, d, k)
    BY <1>2, <2>2 DEF Answered, Conns
  <2> HIDE DEF d, k
  <2>6. r.conn = d /\ r.call = k /\ r.notify = FALSE
    BY <2>1
  <2> HIDE DEF r
  <2> QED
    BY <2>3, <2>4, <2>5, <2>6 DEF Outcome, r
<1>3. CASE "A" \notin s.flags /\ s.flags \cap {"R", "S"} # {"S"}
  <2>1. r = Silent(c)
    BY <1>3 DEF InListen
  <2> HIDE DEF r
  <2>2. Refused(c, s, r.conn, r.call) /\ r.notify = FALSE
    BY <2>1, RefuseIs
  <2>3. r.conn \in Conns /\ r.call \in Calls
    BY <2>2, RstCallIs DEF Refused, Calls
  <2> QED
    BY <2>2, <2>3 DEF Outcome, r
<1> QED
  BY <1>1, <1>2, <1>3

LEMMA SynSentIs ==
  ASSUME NEW e, NEW c \in Conns, NEW s \in Segments, c.state = "SynSent", c.port = s.port
  PROVE  LET r == InSynSent(c, s)
         IN r.conn \in Conns /\ r.call \in Calls /\ r.notify \in BOOLEAN
            /\ (r.notify => r.call # NoCall)
            /\ Outcome(e, c, s, r.conn, r.call)
<1> DEFINE r      == InSynSent(c, s)
           ack_ok == SeqLt(c.una, s.ack) /\ SeqLe(s.ack, c.nxt)
           est    == [c EXCEPT !.rcv = Add(s.seq, 1), !.una = s.ack, !.wnd = s.wnd,
                               !.state = "Established"]
<1>0. Add(s.seq, 1) \in SeqNums /\ s.ack \in SeqNums
  BY Constants, AddNum DEF Segments
<1>1. CASE "A" \in s.flags /\ ~ack_ok
  <2>1. r = Refuse(c, s)
    BY <1>1 DEF InSynSent
  <2> HIDE DEF r
  <2>2. Refused(c, s, r.conn, r.call) /\ r.notify = FALSE
    BY <2>1, RefuseIs
  <2>3. r.conn \in Conns /\ r.call \in Calls
    BY <2>2, RstCallIs DEF Refused, Calls
  <2> QED
    BY <2>2, <2>3 DEF Outcome, r
<1>2. CASE ("A" \in s.flags => ack_ok) /\ "R" \in s.flags
  <2>1. r = Silent(IF "A" \in s.flags THEN ResetConn(c) ELSE c)
    BY <1>2 DEF InSynSent
  <2>2. CASE "A" \in s.flags
    <3>1. r = [conn |-> ResetConn(c), call |-> NoCall, notify |-> FALSE]
      BY <2>1, <2>2 DEF Silent, Result
    <3> HIDE DEF r
    <3>2. r.conn = ResetConn(c) /\ r.call = NoCall /\ r.notify = FALSE
      BY <3>1
    <3>3. r.conn \in Conns /\ r.call \in Calls
      BY <3>2, ResetIs DEF Calls
    <3> QED
      BY <3>2, <3>3 DEF Outcome, IsReset, r
  <2>3. CASE "A" \notin s.flags
    <3>1. r = Silent(c)
      BY <2>1, <2>3
    <3> HIDE DEF r
    <3>2. Refused(c, s, r.conn, r.call) /\ r.notify = FALSE
      BY <3>1, RefuseIs
    <3>3. r.conn \in Conns /\ r.call \in Calls
      BY <3>2, RstCallIs DEF Refused, Calls
    <3> QED
      BY <3>2, <3>3 DEF Outcome, r
  <2> QED
    BY <2>2, <2>3
<1>3. CASE ("A" \in s.flags => ack_ok) /\ "R" \notin s.flags /\ {"S", "A"} \subseteq s.flags
  <2> DEFINE k == Call({"A"}, est.nxt, <<>>)
  <2>1. r = [conn |-> est, call |-> k, notify |-> TRUE]
    BY <1>3 DEF InSynSent, Result
  <2>2. est \in Conns /\ est.nxt = c.nxt
    BY <1>0 DEF Conns, Segments, States
  <2>3. c.nxt \in SeqNums
    BY DEF Conns
  <2>4. k \in Calls /\ k # NoCall
    BY <2>2, <2>3, ControlCalls
  <2>5. Connected(c, s, est, k)
    BY <1>3, <2>2 DEF Connected, Conns
  <2> HIDE DEF est, k
  <2>6. r.conn = est /\ r.call = k /\ r.notify = TRUE
    BY <2>1
  <2> HIDE DEF r
  <2> QED
    BY <2>2, <2>4, <2>5, <2>6 DEF Outcome, r
<1>4. CASE ("A" \in s.flags => ack_ok) /\ "R" \notin s.flags /\ ~({"S", "A"} \subseteq s.flags)
  <2>1. r = Silent(c)
    BY <1>4 DEF InSynSent
  <2> HIDE DEF r
  <2>2. Refused(c, s, r.conn, r.call) /\ r.notify = FALSE
    BY <2>1, RefuseIs
  <2>3. r.conn \in Conns /\ r.call \in Calls
    BY <2>2, RstCallIs DEF Refused, Calls
  <2> QED
    BY <2>2, <2>3 DEF Outcome, r
<1> QED
  BY <1>1, <1>2, <1>3, <1>4

LEMMA SynchronizedIs ==
  ASSUME NEW e, NEW c \in Conns, NEW s \in Segments,
         c.state \notin {"Closed", "Listen", "SynSent"}, c.port = s.port
  PROVE  LET r == InSynchronized(c, s)
         IN r.conn \in Conns /\ r.call \in Calls /\ r.notify = FALSE /\ Outcome(e, c, s, r.conn, r.call)
<1> DEFINE r    == InSynchronized(c, s)
           hand == c.state = "SynReceived"
           c1   == Established(c)
           c2   == FinStep(DataStep(AckStep(c1, s), s), s)
           R    == "R" \in s.flags
           S1   == "S" \in s.flags /\ hand /\ Add(s.seq, 1) = c.rcv
           S2   == "S" \in s.flags /\ SeqLe(c.rcv, s.seq)
           bad  == hand /\ ~(SeqLe(c.una, s.ack) /\ SeqLe(s.ack, c.nxt))
<1>0. r = IF R THEN Silent(IF s.seq = c.rcv \/ hand THEN ResetConn(c) ELSE c)
          ELSE IF S1 THEN Result(c, Call({"S", "A"}, c.una, <<>>))
          ELSE IF S2 THEN Silent(ResetConn(c))
          ELSE IF "A" \notin s.flags THEN Silent(c)
          ELSE IF bad THEN Refuse(c, s)
          ELSE Result(c2, IF c2.rcv # c.rcv \/ s.data # <<>> \/ "F" \in s.flags
                          THEN Call({"A"}, c2.nxt, <<>>) ELSE NoCall)
  BY DEF InSynchronized, Established
<1> HIDE DEF r, c2
<1>1. ASSUME r = Silent(ResetConn(c))
      PROVE  r.conn \in Conns /\ r.call \in Calls /\ r.notify = FALSE /\ Outcome(e, c, s, r.conn, r.call)
  <2>1. r.conn = ResetConn(c) /\ r.call = NoCall /\ r.notify = FALSE
    BY <1>1 DEF Silent, Result
  <2>2. r.conn \in Conns /\ r.call \in Calls
    BY <2>1, ResetIs DEF Calls
  <2> QED
    BY <2>1, <2>2 DEF Outcome, IsReset
<1>2. ASSUME r = Silent(c) \/ r = Refuse(c, s)
      PROVE  r.conn \in Conns /\ r.call \in Calls /\ r.notify = FALSE /\ Outcome(e, c, s, r.conn, r.call)
  <2>1. Refused(c, s, r.conn, r.call) /\ r.notify = FALSE
    BY <1>2, RefuseIs
  <2>2. r.conn \in Conns /\ r.call \in Calls
    BY <2>1, RstCallIs DEF Refused, Calls
  <2> QED
    BY <2>1, <2>2 DEF Outcome
<1>3. CASE R \/ (~S1 /\ S2)
  <2>1. r = Silent(ResetConn(c)) \/ r = Silent(c)
    BY <1>0, <1>3
  <2> QED
    BY <2>1, <1>1, <1>2 DEF r
<1>4. CASE ~R /\ S1
  <2>1. r = Result(c, Call({"S", "A"}, c.una, <<>>))
    BY <1>0, <1>4
  <2>2. r.conn = c /\ r.call = Call({"S", "A"}, c.una, <<>>) /\ r.notify = FALSE
    BY <2>1 DEF Result
  <2>3. c.una \in SeqNums
    BY DEF Conns
  <2>4. r.call \in Calls
    BY <2>2, <2>3, ControlCalls
  <2> QED
    BY <1>4, <2>2, <2>4 DEF Outcome, Repeated, r
<1>5. CASE ~R /\ ~S1 /\ ~S2 /\ ("A" \notin s.flags \/ bad)
  BY <1>0, <1>2, <1>5 DEF r
<1>6. CASE ~R /\ ~S1 /\ ~S2 /\ "A" \in s.flags /\ ~bad
  <2> DEFINE k == IF c2.rcv # c.rcv \/ s.data # <<>> \/ "F" \in s.flags
                  THEN Call({"A"}, c2.nxt, <<>>) ELSE NoCall
  <2>1. r = Result(c2, k)
    BY <1>0, <1>6
  <2>2. k = NoCall \/ k = Call({"A"}, c2.nxt, <<>>)
    OBVIOUS
  <2> HIDE DEF k
  <2>3. r.conn = c2 /\ r.call = k /\ r.notify = FALSE
    BY <2>1 DEF Result
  <2>4. Processed(c, s, c2, k)
    BY <1>6, <2>2 DEF Processed, c2
  <2>5. c2 \in Conns
    BY <2>4, ProcessedIs
  <2>6. k \in Calls
    <3>1. c2.nxt \in SeqNums
      BY <2>5 DEF Conns
    <3>2. Call({"A"}, c2.nxt, <<>>) \in Calls
      BY <3>1, ControlCalls
    <3>3. NoCall \in Calls
      BY DEF Calls
    <3> QED
      BY <2>2, <3>2, <3>3
  <2> QED
    BY <2>3, <2>4, <2>5, <2>6 DEF Outcome, r
<1> QED
  BY <1>3, <1>4, <1>5, <1>6

LEMMA HandleIs ==
  ASSUME NEW e \in Ends, conn[e] \in Conns, Known(conn[e]), NEW s \in Segments,
         conn[e].state # "Closed" => opens[e] \in 1 .. MaxOpens
  PROVE  LET r == Handle(e, s)
         IN /\ r.conn \in Conns /\ r.call \in Calls /\ r.notify \in BOOLEAN
            /\ (r.notify => r.call # NoCall) /\ Outcome(e, conn[e], s, r.conn, r.call)
<1> DEFINE c == conn[e]
           r == Handle(e, s)
<1>0. r = CASE c.bound /\ c.state = "Listen" -> InListen(e, c, s)
            [] c.bound /\ c.state = "SynSent" /\ c.port = s.port -> InSynSent(c, s)
            [] c.bound /\ c.state \notin {"Listen", "SynSent"} /\ c.port = s.port -> InSynchronized(c, s)
            [] OTHER -> Refuse(c, s)
  BY DEF Handle
<1>1. CASE c.bound /\ c.state = "Listen"
  <2>1. r = InListen(e, c, s)
    BY <1>0, <1>1
  <2> HIDE DEF r
  <2> QED
    BY <2>1, <1>1, ListenIs DEF r
<1>2. CASE c.bound /\ c.state = "SynSent" /\ c.port = s.port
  <2>1. r = InSynSent(c, s)
    BY <1>0, <1>2
  <2> HIDE DEF r
  <2> QED
    BY <2>1, <1>2, SynSentIs DEF r
<1>3. CASE c.bound /\ c.state \notin {"Listen", "SynSent"} /\ c.port = s.port
  <2>1. r = InSynchronized(c, s)
    BY <1>0, <1>3
  <2> HIDE DEF r
  <2> QED
    BY <2>1, <1>3, SynchronizedIs DEF r, Known
<1>4. CASE ~(c.bound /\ c.state = "Listen") /\ ~(c.bound /\ c.state = "SynSent" /\ c.port = s.port)
           /\ ~(c.bound /\ c.state \notin {"Listen", "SynSent"} /\ c.port = s.port)
  <2>1. r = Refuse(c, s)
    BY <1>0, <1>4
  <2> HIDE DEF r
  <2>2. Refused(c, s, r.conn, r.call) /\ r.notify = FALSE
    BY <2>1, RefuseIs
  <2>3. r.conn \in Conns /\ r.call \in Calls
    BY <2>2, RstCallIs DEF Refused, Calls
  <2> QED
    BY <2>2, <2>3 DEF Outcome, r
<1> QED
  BY <1>1, <1>2, <1>3, <1>4

(***************************************************************************)
(* Types of the tasks and the network, and the first inductive invariant:  *)
(* how the Conn and its three coroutines fit together.                     *)
(***************************************************************************)
TxPcs == {"closed", "connect", "accept", "ended", "ready", "send", "failed", "close", "finwait", "abort", "done"}
Ins   == [pc : {"input"}, phase : {"idle", "call", "ret"}, call : Calls, ok : BOOLEAN, notify : BOOLEAN]
Txs   == [pc : TxPcs, phase : {"idle", "run", "call", "ret", "wait"}, call : Calls, ok : BOOLEAN, notify : BOOLEAN]
Rxs   == [pc : {"off", "recv", "eof", "error"}, phase : {"idle", "run", "call", "wait"},
          call : Calls, ok : BOOLEAN, notify : BOOLEAN]
Teams == [in : Ins, tx : Txs, rx : Rxs]
Ops   == [base : SeqNums, end : SeqNums, fin : SeqNums, count : Nat, tries : Nat, sends : Nat]
Nets  == {q \in Seq(Segments) : Len(q) <= MaxNet}

Typed ==
  /\ conn \in [Ends -> Conns] /\ task \in [Ends -> Teams] /\ op \in [Ends -> Ops]
  /\ net \in [Ends -> Nets] /\ got \in [Ends -> Seq(Octets)] /\ acked \in [Ends -> Nat]
  /\ opens \in [Ends -> 0 .. MaxOpens]
  /\ faults \in 0 .. MaxFaults /\ fails \in 0 .. MaxFail

\* A task's phase goes with where it stands, and exactly a task that awaits a send has one to make.
Phases(k) ==
  /\ k.tx.phase \in CASE k.tx.pc \in {"closed", "ready", "failed"}   -> {"run"}
                      [] k.tx.pc \in {"connect", "send", "close"}    -> {"call", "ret", "wait"}
                      [] k.tx.pc = "accept"                          -> {"run", "wait"}
                      [] k.tx.pc = "finwait"                         -> {"wait"}
                      [] k.tx.pc = "abort"                           -> {"run", "call", "ret"}
                      [] k.tx.pc \in {"ended", "done"}               -> {"idle"}
  /\ k.rx.phase \in IF k.rx.pc = "recv" THEN {"run", "call", "wait"} ELSE {"idle"}
  /\ k.in.phase = "call" <=> k.in.call # NoCall
  /\ k.tx.phase = "call" <=> k.tx.call # NoCall
  /\ k.rx.phase = "call" <=> k.rx.call # NoCall

\* How far the connection may be, given what the application is about.
Late == {"FinWait1", "FinWait2", "Closing", "LastAck", "TimeWait", "Closed"}
Reached(pc) ==
  CASE pc \in {"closed", "ended"}                     -> {"Closed"}
    [] pc = "connect"                                 -> {"SynSent", "Established", "CloseWait", "Closed"}
    [] pc = "accept"                                  -> {"Listen", "SynReceived", "Established", "CloseWait", "Closed"}
    [] pc \in {"ready", "send", "failed"}             -> {"Established", "CloseWait", "Closed"}
    [] pc \in {"close", "finwait", "abort", "done"}   -> Late

Stages(c, k) ==
  /\ Known(c) /\ c.state \in Reached(k.tx.pc)
  /\ k.tx.pc \in {"closed", "connect", "accept", "ended"} => k.rx.pc # "recv"

\* The peer's fin has been taken exactly in the states that say so.
PastFin == {"CloseWait", "LastAck", "Closing", "TimeWait"}
Fins(c) ==
  /\ c.state \in PastFin => c.fin
  /\ c.fin => c.state \in PastFin \cup {"Closed"}

\* A sleeper's event is armed or has fired, and while it is armed there is nothing to wake for.
Sleeps(c, k) ==
  /\ k.rx.phase = "wait" => c.rx \in {"waiting", "woken"}
  /\ (k.rx.phase = "wait" /\ c.rx = "waiting")
       => c.ring = <<>> /\ ~c.fin /\ c.state \notin {"Closed", "Listen"}
  /\ k.tx.phase = "wait" => c.tx \in {"waiting", "woken"}
  /\ (k.tx.phase = "wait" /\ c.tx = "waiting" /\ k.tx.pc = "accept") => c.state \in {"Listen", "SynReceived"}

\* Which connection of the end this is, and how much of its script has been sent.
Counts(e, c, k, o, n) ==
  /\ (k.tx.pc # "closed" \/ c.state # "Closed") => n >= 1
  /\ k.tx.pc \in {"connect", "accept"} => o.sends = 0
  /\ k.tx.pc \in {"ready", "failed"} => o.sends <= Len(Sends[e][n])
  /\ k.tx.pc = "send" => o.sends < Len(Sends[e][n])

Fine(e, c, k, o, n) == Phases(k) /\ Stages(c, k) /\ Fins(c) /\ Sleeps(c, k) /\ Counts(e, c, k, o, n)

Sane == Typed /\ \A e \in Ends : Fine(e, conn[e], task[e], op[e], opens[e])

LEMMA SaneInit == Init => Sane
<1> SUFFICES ASSUME Init PROVE Sane
  OBVIOUS
<1>1. Reinit(0) \in Conns
  <2>1. 0 \in SeqNums /\ 0 \in 0 .. MaxOpens /\ 0 \in 0 .. RxBufferSize
    BY Space, Constants DEF SeqNums
  <2>2. <<>> \in Rings
    BY Constants DEF Rings
  <2> QED
    BY <2>1, <2>2 DEF Reinit, Conns, States, Events
<1>2. \A e \in Ends : task[e] \in Teams
  BY DEF Init, At, Teams, Ins, Txs, Rxs, TxPcs, Calls
<1>3. \A e \in Ends : op[e] \in Ops
  BY Space DEF Init, Ops, SeqNums
<1>4. Typed
  <2>1. <<>> \in Nets /\ <<>> \in Seq(Octets)
    BY Constants DEF Nets
  <2>2. conn \in [Ends -> Conns] /\ task \in [Ends -> Teams] /\ op \in [Ends -> Ops]
    BY <1>1, <1>2, <1>3 DEF Init
  <2> QED
    BY <2>1, <2>2, Constants DEF Init, Typed
<1>5. ASSUME NEW e \in Ends
      PROVE  Fine(e, conn[e], task[e], op[e], opens[e])
  <2>1. conn[e] = Reinit(0) /\ task[e] = [in |-> At("input", "idle"), tx |-> At("closed", "run"), rx |-> At("off", "idle")]
    BY DEF Init
  <2>2. conn[e].state = "Closed" /\ ~conn[e].bound /\ ~conn[e].fin
    BY <2>1 DEF Reinit
  <2>3. /\ task[e].in.phase = "idle" /\ task[e].tx.pc = "closed" /\ task[e].tx.phase = "run"
        /\ task[e].rx.pc = "off" /\ task[e].rx.phase = "idle"
        /\ task[e].in.call = NoCall /\ task[e].tx.call = NoCall /\ task[e].rx.call = NoCall
    BY <2>1 DEF At
  <2> QED
    BY <2>2, <2>3 DEF Fine, Phases, Stages, Known, Reached, Fins, PastFin, Sleeps, Counts
<1> QED
  BY <1>4, <1>5 DEF Sane

\* A step of one end leaves the other as it is.
Elsewhere(e) ==
  \A x \in Ends \ {e} : conn'[x] = conn[x] /\ task'[x] = task[x] /\ op'[x] = op[x] /\ opens'[x] = opens[x]

LEMMA LocalStep ==
  ASSUME Sane, NEW e \in Ends, Typed', Elsewhere(e), Fine(e, conn'[e], task'[e], op'[e], opens'[e])
  PROVE  Sane'
<1>1. ASSUME NEW x \in Ends
      PROVE  Fine(x, conn'[x], task'[x], op'[x], opens'[x])
  <2>1. CASE x = e
    BY <2>1
  <2>2. CASE x # e
    <3>1. conn'[x] = conn[x] /\ task'[x] = task[x] /\ op'[x] = op[x] /\ opens'[x] = opens[x]
      BY <2>2 DEF Elsewhere
    <3> QED
      BY <3>1 DEF Sane
  <2> QED
    BY <2>1, <2>2
<1> QED
  BY <1>1 DEF Sane

\* The Conn of the end changes, and one task of it.
LEMMA InSet ==
  ASSUME Typed, NEW e \in Ends, NEW d \in Conns, NEW t \in Ins,
         conn' = [conn EXCEPT ![e] = d], task' = [task EXCEPT ![e].in = t]
  PROVE  /\ conn' \in [Ends -> Conns] /\ task' \in [Ends -> Teams] /\ conn'[e] = d
         /\ task'[e].in = t /\ task'[e].tx = task[e].tx /\ task'[e].rx = task[e].rx
         /\ \A x \in Ends \ {e} : conn'[x] = conn[x] /\ task'[x] = task[x]
BY DEF Typed, Teams

LEMMA TxSet ==
  ASSUME Typed, NEW e \in Ends, NEW d \in Conns, NEW t \in Txs,
         conn' = [conn EXCEPT ![e] = d], task' = [task EXCEPT ![e].tx = t]
  PROVE  /\ conn' \in [Ends -> Conns] /\ task' \in [Ends -> Teams] /\ conn'[e] = d
         /\ task'[e].tx = t /\ task'[e].in = task[e].in /\ task'[e].rx = task[e].rx
         /\ \A x \in Ends \ {e} : conn'[x] = conn[x] /\ task'[x] = task[x]
BY DEF Typed, Teams

LEMMA RxSet ==
  ASSUME Typed, NEW e \in Ends, NEW d \in Conns, NEW t \in Rxs,
         conn' = [conn EXCEPT ![e] = d], task' = [task EXCEPT ![e].rx = t]
  PROVE  /\ conn' \in [Ends -> Conns] /\ task' \in [Ends -> Teams] /\ conn'[e] = d
         /\ task'[e].rx = t /\ task'[e].in = task[e].in /\ task'[e].tx = task[e].tx
         /\ \A x \in Ends \ {e} : conn'[x] = conn[x] /\ task'[x] = task[x]
BY DEF Typed, Teams

(***************************************************************************)
(* tcp::input() keeps the invariant.                                       *)
(***************************************************************************)
Held(c, k) == Stages(c, k) /\ Fins(c) /\ Sleeps(c, k)

\* Event e was notified, at least once.
Told(before, after) == after = Notify(before) \/ after = Notify(Notify(before))

LEMMA ToldIs ==
  ASSUME NEW before \in Events, NEW after, Told(before, after)
  PROVE  after \in {"set", "woken"} /\ (before \in {"waiting", "woken"} => after = "woken")
BY DEF Told, Notify, Events

\* The steps of the state diagram stay within reach.
LEMMA ReachedMoves ==
  ASSUME NEW k \in Teams
  PROVE  LET R == Reached(k.tx.pc)
         IN /\ "Closed" \in R
            /\ "Listen" \in R => "SynReceived" \in R
            /\ ("SynReceived" \in R \/ "SynSent" \in R) => "Established" \in R
            /\ "Established" \in R => "CloseWait" \in R
            /\ "FinWait1" \in R => "FinWait2" \in R /\ "Closing" \in R
            /\ ("FinWait2" \in R \/ "Closing" \in R) => "TimeWait" \in R
<1> DEFINE pc == k.tx.pc
<1>1. pc \in TxPcs
  BY DEF Teams, Txs
<1> HIDE DEF pc
<1>2. CASE pc \in {"closed", "ended"}
  <2>1. Reached(pc) = {"Closed"}
    BY <1>2 DEF Reached
  <2> QED
    BY <2>1 DEF pc
<1>3. CASE pc = "connect"
  <2>1. Reached(pc) = {"SynSent", "Established", "CloseWait", "Closed"}
    BY <1>3 DEF Reached
  <2> QED
    BY <2>1 DEF pc
<1>4. CASE pc = "accept"
  <2>1. Reached(pc) = {"Listen", "SynReceived", "Established", "CloseWait", "Closed"}
    BY <1>4 DEF Reached
  <2> QED
    BY <2>1 DEF pc
<1>5. CASE pc \in {"ready", "send", "failed"}
  <2>1. Reached(pc) = {"Established", "CloseWait", "Closed"}
    BY <1>5 DEF Reached
  <2> QED
    BY <2>1 DEF pc
<1>6. CASE pc \in {"close", "finwait", "abort", "done"}
  <2>1. Reached(pc) = Late
    BY <1>6 DEF Reached
  <2> QED
    BY <2>1 DEF pc, Late
<1> QED
  BY <1>1, <1>2, <1>3, <1>4, <1>5, <1>6 DEF TxPcs

LEMMA AckKeeps ==
  ASSUME NEW c \in Conns, NEW s \in Segments, NEW k \in Teams, Held(c, k),
         c.state \notin {"Closed", "Listen", "SynSent"}
  PROVE  LET d == AckStep(Established(c), s) IN d \in Conns /\ Held(d, k) /\ d.state # "SynReceived"
<1> DEFINE b == Established(c)
           d == AckStep(b, s)
<1>1. /\ b \in Conns /\ b.bound = c.bound /\ b.port = c.port /\ SameSnd(c, b) /\ SameRcv(c, b)
      /\ b.tx = c.tx /\ b.rx = c.rx
      /\ b.state = IF c.state = "SynReceived" THEN "Established" ELSE c.state
  BY EstablishedIs
<1> HIDE DEF b
<1>2. /\ d \in Conns /\ SameRcv(b, d) /\ Told(b.tx, d.tx)
      /\ (d.rx = b.rx \/ (d.state = "TimeWait" /\ d.rx = Notify(b.rx)))
      /\ \/ d.state = b.state /\ d.bound = b.bound
         \/ b.state = "FinWait1" /\ d.state = "FinWait2" /\ d.bound = b.bound
         \/ b.state = "Closing" /\ d.state = "TimeWait" /\ d.bound = b.bound
         \/ b.state = "LastAck" /\ d.state = "Closed" /\ ~d.bound
  BY <1>1, AckStepIs DEF Told
<1> HIDE DEF d
<1>3. d.tx \in {"set", "woken"} /\ (c.tx \in {"waiting", "woken"} => d.tx = "woken")
  <2>1. b.tx \in Events
    BY <1>1 DEF Conns
  <2> QED
    BY <1>1, <1>2, <2>1, ToldIs
<1>4. c.rx \in {"waiting", "woken"} => d.rx = c.rx \/ d.rx = "woken"
  BY <1>1, <1>2 DEF Notify
<1>5. Known(d) /\ d.state # "SynReceived" /\ d.state \in Reached(k.tx.pc)
  <2>1. c.bound /\ c.state \in Reached(k.tx.pc)
    BY DEF Held, Stages, Known
  <2>2. Known(d) /\ d.state # "SynReceived"
    BY <1>1, <1>2, <2>1 DEF Known
  <2>3. d.state \in Reached(k.tx.pc)
    BY <1>1, <1>2, <2>1, ReachedMoves
  <2> QED
    BY <2>2, <2>3
<1>6. Stages(d, k)
  BY <1>5 DEF Held, Stages
<1>7. Fins(d)
  BY <1>1, <1>2 DEF Held, Fins, PastFin, SameRcv
<1>8. Sleeps(d, k)
  <2>1. k.rx.phase = "wait" => d.rx \in {"waiting", "woken"}
    BY <1>4 DEF Held, Sleeps
  <2>2. k.tx.phase = "wait" => d.tx = "woken"
    BY <1>3 DEF Held, Sleeps
  <2>3. (k.rx.phase = "wait" /\ d.rx = "waiting") => d.ring = <<>> /\ ~d.fin /\ d.state \notin {"Closed", "Listen"}
    <3> SUFFICES ASSUME k.rx.phase = "wait", d.rx = "waiting"
                 PROVE  d.ring = <<>> /\ ~d.fin /\ d.state \notin {"Closed", "Listen"}
      OBVIOUS
    <3>1. c.rx = "waiting"
      BY <1>4 DEF Held, Sleeps
    <3>2. c.ring = <<>> /\ ~c.fin /\ c.state \notin {"Closed", "Listen"}
      BY <3>1 DEF Held, Sleeps
    <3>3. c.state # "LastAck"
      BY <3>2 DEF Held, Fins, PastFin
    <3> QED
      BY <1>1, <1>2, <3>2, <3>3 DEF SameRcv
  <2> QED
    BY <2>1, <2>2, <2>3 DEF Sleeps
<1> QED
  BY <1>2, <1>5, <1>6, <1>7, <1>8 DEF Held, b, d

LEMMA DataKeeps ==
  ASSUME NEW c \in Conns, NEW s \in Segments, NEW k \in Teams, Held(c, k)
  PROVE  LET d == DataStep(c, s) IN d \in Conns /\ Held(d, k) /\ d.state = c.state
<1> DEFINE d == DataStep(c, s)
<1>1. d \in Conns /\ SameWho(c, d) /\ d.tx = c.tx
      /\ (\/ SameRcv(c, d) /\ d.rx = c.rx
          \/ d.fin = c.fin /\ d.rx = Notify(c.rx))
  BY DataStepIs DEF Pushed
<1> HIDE DEF d
<1>2. d.state = c.state /\ Stages(d, k)
  BY <1>1 DEF Held, Stages, SameWho, Known
<1>3. Fins(d)
  BY <1>1 DEF Held, Fins, SameWho, SameRcv
<1>4. Sleeps(d, k)
  BY <1>1 DEF Held, Sleeps, SameWho, SameRcv, Notify
<1> QED
  BY <1>1, <1>2, <1>3, <1>4 DEF Held, d

LEMMA FinKeeps ==
  ASSUME NEW c \in Conns, NEW s \in Segments, NEW k \in Teams, Held(c, k), c.state \notin {"Listen", "SynSent", "SynReceived"}
  PROVE  LET d == FinStep(c, s) IN d \in Conns /\ Held(d, k)
<1> DEFINE d == FinStep(c, s)
<1>1. CASE d = c
  BY <1>1
<1>2. CASE d # c
  <2>1. d \in Conns /\ FinTaken(c, s, d)
    BY <1>2, FinStepIs
  <2> HIDE DEF d
  <2>2. c.tx \in Events /\ c.rx \in Events /\ c.state \in States
    BY DEF Conns
  <2>3. d.fin /\ d.bound = c.bound /\ Told(c.tx, d.tx) /\ Told(c.rx, d.rx)
    BY <2>1 DEF FinTaken, Told
  <2>4. d.state = CASE c.state = "Established" -> "CloseWait"
                    [] c.state = "FinWait1" -> "Closing"
                    [] c.state = "FinWait2" -> "TimeWait"
                    [] OTHER -> c.state
    BY <2>1 DEF FinTaken
  <2>5. \/ c.state = "Established" /\ d.state = "CloseWait"
        \/ c.state = "FinWait1" /\ d.state = "Closing"
        \/ c.state = "FinWait2" /\ d.state = "TimeWait"
        \/ c.state \in {"Closing", "CloseWait", "LastAck", "TimeWait", "Closed"} /\ d.state = c.state
    BY <2>2, <2>4 DEF States
  <2>6. Stages(d, k)
    <3>1. d.state \in Reached(k.tx.pc)
      BY <2>5, ReachedMoves DEF Held, Stages
    <3>2. Known(d)
      BY <2>3, <2>5 DEF Held, Stages, Known
    <3> QED
      BY <3>1, <3>2 DEF Held, Stages
  <2>7. Fins(d)
    BY <2>3, <2>5 DEF Fins, PastFin
  <2>8. Sleeps(d, k)
    <3>1. k.rx.phase = "wait" => d.rx = "woken"
      BY <2>2, <2>3, ToldIs DEF Held, Sleeps
    <3>2. k.tx.phase = "wait" => d.tx = "woken"
      BY <2>2, <2>3, ToldIs DEF Held, Sleeps
    <3> QED
      BY <3>1, <3>2 DEF Sleeps
  <2> QED
    BY <2>1, <2>6, <2>7, <2>8 DEF Held, d
<1> QED
  BY <1>1, <1>2

LEMMA ResetKeeps ==
  ASSUME NEW c \in Conns, NEW k \in Teams, Held(c, k)
  PROVE  Held(ResetConn(c), k)
<1> DEFINE d == ResetConn(c)
<1>1. d.state = "Closed" /\ ~d.bound /\ SameRcv(c, d) /\ d.tx = Notify(c.tx) /\ d.rx = Notify(c.rx)
  BY ResetIs
<1> HIDE DEF d
<1>2. Stages(d, k)
  BY <1>1, ReachedMoves DEF Held, Stages, Known
<1>3. Fins(d)
  BY <1>1 DEF Fins, PastFin
<1>4. Sleeps(d, k)
  BY <1>1 DEF Held, Sleeps, Notify
<1> QED
  BY <1>2, <1>3, <1>4 DEF Held, d

LEMMA OutcomeKeeps ==
  ASSUME NEW e \in Ends, NEW c \in Conns, NEW s \in Segments, NEW d, NEW call, Outcome(e, c, s, d, call),
         NEW k \in Teams, Held(c, k)
  PROVE  Held(d, k)
<1>1. CASE Refused(c, s, d, call) \/ Repeated(c, d, call)
  BY <1>1 DEF Refused, Repeated
<1>2. CASE Answered(e, c, s, d, call)
  <2>1. /\ c.state = "Listen" /\ d.state = "SynReceived" /\ d.bound = c.bound
        /\ d.fin = c.fin /\ d.tx = c.tx /\ d.rx = c.rx
    BY <1>2 DEF Answered
  <2>2. Stages(d, k)
    BY <2>1, ReachedMoves DEF Held, Stages, Known
  <2>3. Fins(d)
    BY <2>1 DEF Held, Fins, PastFin
  <2>4. Sleeps(d, k)
    BY <2>1 DEF Held, Sleeps
  <2> QED
    BY <2>2, <2>3, <2>4 DEF Held
<1>3. CASE Connected(c, s, d, call)
  <2>1. /\ c.state = "SynSent" /\ d.state = "Established" /\ d.bound = c.bound
        /\ d.ring = c.ring /\ d.fin = c.fin /\ d.tx = c.tx /\ d.rx = c.rx
    BY <1>3 DEF Connected
  <2>2. Stages(d, k)
    BY <2>1, ReachedMoves DEF Held, Stages, Known
  <2>3. Fins(d)
    BY <2>1 DEF Held, Fins, PastFin
  <2>4. Sleeps(d, k)
    BY <2>1, <2>2 DEF Held, Sleeps, Stages, Reached
  <2> QED
    BY <2>2, <2>3, <2>4 DEF Held
<1>4. CASE IsReset(c, d, call)
  BY <1>4, ResetKeeps DEF IsReset
<1>5. CASE Processed(c, s, d, call)
  <2> DEFINE a == AckStep(Established(c), s)
  <2>1. a \in Conns /\ Held(a, k) /\ a.state # "SynReceived"
    BY <1>5, AckKeeps DEF Processed
  <2>2. a.state \notin {"Listen", "SynSent", "SynReceived"}
    <3>1. a.state = Established(c).state \/ a.state \in {"FinWait2", "TimeWait", "Closed"}
      BY EstablishedIs, AckStepIs
    <3>2. Established(c).state \notin {"Listen", "SynSent", "SynReceived"}
      BY <1>5, EstablishedIs DEF Processed
    <3> QED
      BY <3>1, <3>2
  <2> HIDE DEF a
  <2> DEFINE b == DataStep(a, s)
  <2>3. b \in Conns /\ Held(b, k) /\ b.state = a.state
    BY <2>1, DataKeeps
  <2> HIDE DEF b
  <2>4. Held(FinStep(b, s), k)
    BY <2>2, <2>3, FinKeeps
  <2>5. d = FinStep(b, s)
    BY <1>5 DEF Processed, a, b
  <2> QED
    BY <2>4, <2>5
<1> QED
  BY <1>1, <1>2, <1>3, <1>4, <1>5 DEF Outcome

\* The segments of queue p were in queue q.
From(p, q) == \A j \in 1 .. Len(p) : \E m \in 1 .. Len(q) : p[j] = q[m]

LEMMA DropIs ==
  ASSUME NEW q \in Nets, NEW i \in 1 .. Len(q)
  PROVE  Drop(q, i) \in Nets /\ From(Drop(q, i), q)
<1> DEFINE a == SubSeq(q, 1, i - 1)
           b == SubSeq(q, i + 1, Len(q))
<1>1. q \in Seq(Segments) /\ Len(q) \in Nat /\ Len(q) <= MaxNet
  BY DEF Nets
<1>2. a \in Seq(Segments) /\ Len(a) = i - 1 /\ \A j \in 1 .. i - 1 : a[j] = q[j]
  BY <1>1, SubSeqProperties
<1>3. b \in Seq(Segments) /\ Len(b) = Len(q) - i /\ \A j \in 1 .. Len(q) - i : b[j] = q[i + j]
  BY <1>1, SubSeqProperties
<1> HIDE DEF a, b
<1>9. i \in Nat /\ 1 <= i /\ i <= Len(q)
  BY <1>1
<1>4. a \o b \in Seq(Segments) /\ Len(a \o b) = Len(q) - 1
  <2>1. a \o b \in Seq(Segments) /\ Len(a \o b) = Len(a) + Len(b)
    BY <1>2, <1>3, ConcatProperties
  <2> QED
    BY <2>1, <1>1, <1>2, <1>3, <1>9
<1>5. \A j \in 1 .. Len(q) - 1 : (a \o b)[j] = IF j < i THEN q[j] ELSE q[j + 1]
  <2> SUFFICES ASSUME NEW j \in 1 .. Len(q) - 1 PROVE (a \o b)[j] = IF j < i THEN q[j] ELSE q[j + 1]
    OBVIOUS
  <2>1. (a \o b)[j] = IF j <= i - 1 THEN a[j] ELSE b[j - (i - 1)]
    BY <1>1, <1>2, <1>3, ConcatProperties
  <2>2. CASE j < i
    BY <1>2, <2>1, <2>2
  <2>3. CASE j >= i
    <3>1. j - (i - 1) \in 1 .. Len(q) - i /\ i + (j - (i - 1)) = j + 1
      BY <1>1, <2>3
    <3> QED
      BY <1>1, <1>3, <2>1, <2>3, <3>1
  <2>4. j < i \/ j >= i
    BY <1>1, <1>9
  <2> QED
    BY <2>2, <2>3, <2>4
<1>6. From(a \o b, q)
  <2> SUFFICES ASSUME NEW j \in 1 .. Len(a \o b) PROVE \E m \in 1 .. Len(q) : (a \o b)[j] = q[m]
    BY DEF From
  <2>1. CASE j < i
    BY <1>1, <1>4, <1>5, <2>1
  <2>2. CASE j >= i
    <3>1. j + 1 \in 1 .. Len(q) /\ j \in 1 .. Len(q) - 1 /\ ~(j < i)
      BY <1>1, <1>4, <2>2
    <3>2. (a \o b)[j] = q[j + 1]
      BY <1>5, <3>1
    <3> QED
      BY <3>1, <3>2
  <2> QED
    BY <1>1, <1>4, <2>1, <2>2
<1>7. a \o b \in Nets
  BY <1>1, <1>4, Constants DEF Nets
<1> QED
  BY <1>6, <1>7 DEF Drop, a, b

LEMMA TailIs ==
  ASSUME NEW q \in Nets, q # <<>>
  PROVE  Tail(q) \in Nets /\ From(Tail(q), q)
<1>1. q \in Seq(Segments) /\ Len(q) \in Nat /\ Len(q) <= MaxNet /\ Len(q) >= 1
  BY DEF Nets
<1>2. Tail(q) \in Seq(Segments) /\ Len(Tail(q)) = Len(q) - 1 /\ \A j \in 1 .. Len(q) - 1 : Tail(q)[j] = q[j + 1]
  BY <1>1
<1> QED
  BY <1>1, <1>2, Constants DEF Nets, From

LEMMA FromSame ==
  ASSUME NEW q \in Nets
  PROVE  From(q, q)
BY DEF From

\* The network as a step that only takes from it leaves it.
NetShrinks == net' \in [Ends -> Nets] /\ \A x \in Ends : From(net'[x], net[x])

LEMMA FaultIs ==
  ASSUME Typed, Fault \/ UNCHANGED faults
  PROVE  faults' \in 0 .. MaxFaults
BY Constants DEF Typed, Fault

LEMMA InputDoes ==
  ASSUME Sane, NEW e \in Ends, NEW i \in 1 .. Len(net[e]), Input(e, i)
  PROVE  \E s \in Segments, d \in Conns, t \in Ins :
           /\ \E m \in 1 .. Len(net[e]) : s = net[e][m]
           /\ Outcome(e, conn[e], s, d, t.call)
           /\ t.phase = "call" <=> t.call # NoCall
           /\ conn' = [conn EXCEPT ![e] = d] /\ task' = [task EXCEPT ![e].in = t]
           /\ NetShrinks /\ faults' \in 0 .. MaxFaults
           /\ UNCHANGED <<op, got, acked, opens, fails>>
<1> DEFINE s == net[e][i]
           r == Handle(e, s)
           c == conn[e]
<1>1. net[e] \in Nets /\ s \in Segments /\ c \in Conns /\ task[e] \in Teams /\ task[e].in \in Ins
  BY DEF Sane, Typed, Nets, Teams
<1>2. /\ r.conn \in Conns /\ r.call \in Calls /\ r.notify \in BOOLEAN
      /\ Outcome(e, c, s, r.conn, r.call)
  <2>1. Known(c) /\ (c.state # "Closed" => opens[e] \in 1 .. MaxOpens)
    BY Constants DEF Sane, Typed, Fine, Stages, Counts
  <2> QED
    BY <1>1, <2>1, HandleIs
<1>3. /\ task[e].in.phase = "idle" /\ conn' = [conn EXCEPT ![e] = r.conn]
      /\ task' = IF r.call = NoCall THEN task
                 ELSE [task EXCEPT ![e].in = [Sending("input", r.call) EXCEPT !.notify = r.notify]]
      /\ UNCHANGED <<op, got, acked, opens, fails>>
  BY DEF Input
<1>4. NetShrinks /\ faults' \in 0 .. MaxFaults
  <2>1. faults' \in 0 .. MaxFaults
    BY FaultIs DEF Input, Sane
  <2>2. net' = [net EXCEPT ![e] = Tail(@)] \/ net' = [net EXCEPT ![e] = Drop(@, i)] \/ net' = net
    BY DEF Input
  <2>3. net[e] # <<>>
    BY <1>1
  <2>4. \A q \in Nets : net' = [net EXCEPT ![e] = q] /\ From(q, net[e]) => NetShrinks
    BY FromSame DEF NetShrinks, Sane, Typed
  <2>5. NetShrinks
    <3>1. CASE net' = [net EXCEPT ![e] = Tail(@)]
      BY <1>1, <2>3, <2>4, <3>1, TailIs
    <3>2. CASE net' = [net EXCEPT ![e] = Drop(@, i)]
      BY <1>1, <2>3, <2>4, <3>2, DropIs
    <3>3. CASE net' = net
      BY <3>3, FromSame DEF NetShrinks, Sane, Typed
    <3> QED
      BY <2>2, <3>1, <3>2, <3>3
  <2> QED
    BY <2>1, <2>5
<1> HIDE DEF r
<1>5. CASE r.call = NoCall
  <2> DEFINE t == task[e].in
  <2>1. t.call = NoCall /\ t.phase = "idle"
    BY <1>3 DEF Sane, Fine, Phases
  <2>2. task' = [task EXCEPT ![e].in = t]
    BY <1>3, <1>5, <1>1 DEF Sane, Typed, Teams
  <2>3. t \in Ins
    BY <1>1
  <2> HIDE DEF t, s, c
  <2>4. Outcome(e, c, s, r.conn, t.call)
    BY <1>2, <1>5, <2>1
  <2> QED
    BY <1>1, <1>2, <1>3, <1>4, <2>1, <2>2, <2>3, <2>4 DEF c, s
<1>6. CASE r.call # NoCall
  <2> DEFINE t == [Sending("input", r.call) EXCEPT !.notify = r.notify]
  <2>2. t \in Ins /\ t.call = r.call /\ t.phase = "call"
    BY <1>2 DEF Ins, Sending, At
  <2>3. task' = [task EXCEPT ![e].in = t]
    BY <1>3, <1>6
  <2> HIDE DEF t, s, c
  <2>4. Outcome(e, c, s, r.conn, t.call)
    BY <1>2, <2>2
  <2> QED
    BY <1>1, <1>2, <1>3, <1>4, <1>6, <2>2, <2>3, <2>4 DEF c, s
<1> QED
  BY <1>5, <1>6

LEMMA InputKeeps ==
  ASSUME Sane, NEW e \in Ends, NEW i \in 1 .. Len(net[e]), Input(e, i)
  PROVE  Sane'
<1>1. PICK s \in Segments, d \in Conns, t \in Ins :
           /\ Outcome(e, conn[e], s, d, t.call)
           /\ t.phase = "call" <=> t.call # NoCall
           /\ conn' = [conn EXCEPT ![e] = d] /\ task' = [task EXCEPT ![e].in = t]
           /\ NetShrinks /\ faults' \in 0 .. MaxFaults
           /\ UNCHANGED <<op, got, acked, opens, fails>>
  BY InputDoes
<1>2. /\ conn' \in [Ends -> Conns] /\ task' \in [Ends -> Teams] /\ conn'[e] = d
      /\ task'[e].in = t /\ task'[e].tx = task[e].tx /\ task'[e].rx = task[e].rx
      /\ \A x \in Ends \ {e} : conn'[x] = conn[x] /\ task'[x] = task[x]
  BY <1>1, InSet DEF Sane
<1>3. Typed'
  BY <1>1, <1>2 DEF Sane, Typed, NetShrinks
<1>4. Elsewhere(e)
  BY <1>1, <1>2 DEF Elsewhere
<1>5. Fine(e, conn[e], task[e], op[e], opens[e]) /\ conn[e] \in Conns /\ task[e] \in Teams /\ task'[e] \in Teams
  BY <1>2 DEF Sane, Typed
<1>6. Held(d, task[e])
  <2>1. Held(conn[e], task[e])
    BY <1>5 DEF Fine, Held
  <2> QED
    BY <1>1, <1>5, <2>1, OutcomeKeeps
<1>7. Fine(e, d, task'[e], op[e], opens[e])
  <2>1. Phases(task'[e])
    BY <1>1, <1>2, <1>5 DEF Fine, Phases
  <2>2. Stages(d, task'[e])
    BY <1>2, <1>6 DEF Held, Stages
  <2>3. Fins(d) /\ Sleeps(d, task'[e])
    BY <1>2, <1>6 DEF Held, Sleeps
  <2>4. Counts(e, d, task'[e], op[e], opens[e])
    <3>1. d.state # "Closed" => conn[e].state # "Closed"
      BY <1>1 DEF Outcome, Refused, Repeated, Answered, Connected, IsReset, Processed
    <3> QED
      BY <1>2, <1>5, <3>1 DEF Fine, Counts
  <2> QED
    BY <2>1, <2>2, <2>3, <2>4 DEF Fine
<1>8. op'[e] = op[e] /\ opens'[e] = opens[e]
  BY <1>1
<1> QED
  BY <1>2, <1>3, <1>4, <1>7, <1>8, LocalStep

LEMMA InputReturnKeeps ==
  ASSUME Sane, NEW e \in Ends, InputReturn(e)
  PROVE  Sane'
<1> DEFINE c == conn[e]
           d == [c EXCEPT !.tx = Notify(@)]
           t == At("input", "idle")
<1>1. c \in Conns /\ task[e] \in Teams /\ Fine(e, c, task[e], op[e], opens[e])
  BY DEF Sane, Typed
<1>2. /\ d \in Conns /\ SameWho(c, d) /\ SameSnd(c, d) /\ SameRcv(c, d) /\ d.tx = Notify(c.tx) /\ d.rx = c.rx
  BY <1>1, NotifyTxIs DEF NotifyTxOnly
<1>3. t \in Ins /\ t.call = NoCall /\ t.phase = "idle"
  BY DEF At, Ins, Calls
<1>4. conn' = [conn EXCEPT ![e] = d] /\ task' = [task EXCEPT ![e].in = t]
      /\ UNCHANGED <<op, net, got, acked, opens, faults, fails>>
  BY DEF InputReturn
<1> HIDE DEF d, t
<1>5. /\ conn' \in [Ends -> Conns] /\ task' \in [Ends -> Teams] /\ conn'[e] = d
      /\ task'[e].in = t /\ task'[e].tx = task[e].tx /\ task'[e].rx = task[e].rx
      /\ \A x \in Ends \ {e} : conn'[x] = conn[x] /\ task'[x] = task[x]
  BY <1>2, <1>3, <1>4, InSet DEF Sane
<1>6. Typed'
  BY <1>4, <1>5 DEF Sane, Typed
<1>7. Elsewhere(e)
  BY <1>4, <1>5 DEF Elsewhere
<1>8. Fine(e, d, task'[e], op[e], opens[e])
  <2>1. Phases(task'[e])
    BY <1>1, <1>3, <1>5 DEF Fine, Phases
  <2>2. Stages(d, task'[e]) /\ Fins(d)
    BY <1>1, <1>2, <1>5 DEF Fine, Stages, Fins, SameWho, SameRcv, Known
  <2>3. Sleeps(d, task'[e])
    BY <1>1, <1>2, <1>5 DEF Fine, Sleeps, SameWho, SameRcv, Notify
  <2>4. Counts(e, d, task'[e], op[e], opens[e])
    BY <1>1, <1>2, <1>5 DEF Fine, Counts, SameWho
  <2> QED
    BY <2>1, <2>2, <2>3, <2>4 DEF Fine
<1> QED
  BY <1>4, <1>5, <1>6, <1>7, <1>8, LocalStep

LEMMA TickKeeps ==
  ASSUME Sane, NEW e \in Ends, Tick(e)
  PROVE  Sane'
<1> DEFINE c == conn[e]
           d == Unbind(c)
<1>1. c \in Conns /\ task[e] \in Teams /\ Fine(e, c, task[e], op[e], opens[e])
  BY DEF Sane, Typed
<1>2. /\ d \in Conns /\ d.state = "Closed" /\ ~d.bound /\ SameRcv(c, d) /\ d.tx = c.tx /\ d.rx = c.rx
  BY <1>1, UnbindIs
<1>3. c.state = "TimeWait" /\ conn' = [conn EXCEPT ![e] = d] /\ UNCHANGED <<task, op, net, got, acked, opens, faults, fails>>
  BY DEF Tick
<1> HIDE DEF d
<1>5. conn' \in [Ends -> Conns] /\ conn'[e] = d /\ \A x \in Ends \ {e} : conn'[x] = conn[x]
  BY <1>2, <1>3 DEF Sane, Typed
<1>6. Typed'
  BY <1>3, <1>5 DEF Sane, Typed
<1>7. Elsewhere(e)
  BY <1>3, <1>5 DEF Elsewhere
<1>8. Fine(e, d, task[e], op[e], opens[e])
  <2>1. Stages(d, task[e]) /\ Fins(d)
    BY <1>1, <1>2, ReachedMoves DEF Fine, Stages, Fins, SameRcv, Known, PastFin
  <2>2. Sleeps(d, task[e])
    BY <1>1, <1>2, <1>3 DEF Fine, Sleeps, Fins, PastFin, SameRcv
  <2>4. Counts(e, d, task[e], op[e], opens[e])
    BY <1>1, <1>2 DEF Fine, Counts
  <2> QED
    BY <1>1, <2>1, <2>2, <2>4 DEF Fine
<1> QED
  BY <1>3, <1>5, <1>6, <1>7, <1>8, LocalStep

LEMMA LoseKeeps ==
  ASSUME Sane, NEW e \in Ends, Lose(e)
  PROVE  Sane' /\ NetShrinks /\ UNCHANGED <<conn, task, op, got, acked, opens, fails>>
<1>1. net[e] \in Nets /\ net[e] # <<>> /\ net' = [net EXCEPT ![e] = Tail(@)]
      /\ UNCHANGED <<conn, task, op, got, acked, opens, fails>>
  BY DEF Sane, Typed, Lose
<1>2. Tail(net[e]) \in Nets /\ From(Tail(net[e]), net[e])
  BY <1>1, TailIs
<1>3. NetShrinks
  BY <1>1, <1>2, FromSame DEF NetShrinks, Sane, Typed
<1>4. faults' \in 0 .. MaxFaults
  BY FaultIs DEF Lose, Sane
<1>5. Typed'
  BY <1>1, <1>3, <1>4 DEF Sane, Typed, NetShrinks
<1> QED
  BY <1>1, <1>3, <1>5 DEF Sane

(***************************************************************************)
(* send_segment() and send_rst().                                          *)
(***************************************************************************)
Written(e, k) == IF k.kind = "rst" THEN RstFor(k.offender) ELSE Segment(conn[e], k)
NetGrows(e, k) ==
  net' = net \/ (Len(net[Peer(e)]) < MaxNet /\ net' = [net EXCEPT ![Peer(e)] = Append(@, Written(e, k))])

LEMMA PeerIs == \A e \in Ends : Peer(e) \in Ends /\ Peer(e) # e /\ Peer(Peer(e)) = e /\ Ends = {e, Peer(e)}
BY DEF Ends, Peer

\* How many of the two flags that take a number a segment has.
Marks(s) == IF "S" \in s.flags /\ "F" \in s.flags THEN 2
            ELSE IF "S" \in s.flags \/ "F" \in s.flags THEN 1 ELSE 0

LEMMA SegLenIs ==
  ASSUME NEW s \in Segments
  PROVE  SegLen(s) \in Nat /\ Len(s.data) \in Nat /\ SegLen(s) = Len(s.data) + Marks(s)
<1> DEFINE f == s.flags \cap {"S", "F"}
<1>1. Cardinality(f) = Marks(s)
  <2>1. CASE "S" \in s.flags /\ "F" \in s.flags
    <3>1. f = {"S"} \cup {"F"} /\ "F" \notin {"S"}
      BY <2>1
    <3>2. IsFiniteSet({"S"}) /\ Cardinality({"S"}) = 1
      BY FS_Singleton
    <3>3. Cardinality({"S"} \cup {"F"}) = Cardinality({"S"}) + 1
      BY <3>1, <3>2, FS_AddElement
    <3> QED
      BY <2>1, <3>1, <3>2, <3>3 DEF Marks
  <2>2. CASE "S" \in s.flags /\ "F" \notin s.flags
    <3>1. f = {"S"}
      BY <2>2
    <3> QED
      BY <2>2, <3>1, FS_Singleton DEF Marks
  <2>3. CASE "S" \notin s.flags /\ "F" \in s.flags
    <3>1. f = {"F"}
      BY <2>3
    <3> QED
      BY <2>3, <3>1, FS_Singleton DEF Marks
  <2>4. CASE "S" \notin s.flags /\ "F" \notin s.flags
    <3>1. f = {}
      BY <2>4
    <3> QED
      BY <2>4, <3>1, FS_EmptySet DEF Marks
  <2> QED
    BY <2>1, <2>2, <2>3, <2>4
<1>2. Len(s.data) \in Nat
  BY DEF Segments
<1>3. SegLen(s) = Len(s.data) + Cardinality(f)
  BY DEF SegLen
<1> HIDE DEF f
<1>4. Marks(s) \in Nat
  BY DEF Marks
<1> QED
  BY <1>1, <1>2, <1>3, <1>4

LEMMA RstForIs ==
  ASSUME NEW s \in Segments
  PROVE  RstFor(s) \in Segments /\ "R" \in RstFor(s).flags
<1>1. Add(s.seq, SegLen(s)) \in SeqNums /\ 0 \in SeqNums /\ s.ack \in SeqNums
  <2>1. s.seq \in SeqNums /\ s.ack \in SeqNums
    BY DEF Segments
  <2>2. SegLen(s) \in Nat
    BY SegLenIs
  <2>3. 0 \in SeqNums
    BY Space DEF SeqNums
  <2> QED
    BY <2>1, <2>2, <2>3, AddNum
<1>2. {"R"} \in FlagSets /\ {"R", "A"} \in FlagSets /\ <<>> \in Seq(Octets) /\ 0 \in 0 .. RxBufferSize
  BY Constants DEF FlagSets
<1>3. CASE "A" \in s.flags
  <2>1. RstFor(s) = [port |-> s.port, flags |-> {"R"}, seq |-> s.ack, ack |-> 0, wnd |-> 0, data |-> <<>>]
    BY <1>3 DEF RstFor
  <2> QED
    BY <2>1, <1>1, <1>2 DEF Segments
<1>4. CASE "A" \notin s.flags
  <2>1. RstFor(s) = [port |-> s.port, flags |-> {"R", "A"}, seq |-> 0, ack |-> Add(s.seq, SegLen(s)), wnd |-> 0,
                     data |-> <<>>]
    BY <1>4 DEF RstFor
  <2> QED
    BY <2>1, <1>1, <1>2 DEF Segments
<1> QED
  BY <1>3, <1>4

LEMMA CallKinds ==
  ASSUME NEW k \in Calls, k # NoCall
  PROVE  \/ k.kind = "segment" /\ k.flags \in FlagSets /\ k.seq \in SeqNums /\ k.data \in Seq(Octets)
         \/ k.kind = "rst" /\ k.offender \in Segments
BY DEF Calls, NoCall

LEMMA WrittenIs ==
  ASSUME Typed, NEW e \in Ends, NEW k \in Calls, k # NoCall
  PROVE  Written(e, k) \in Segments
<1>1. conn[e] \in Conns
  BY DEF Typed
<1>2. CASE k.kind = "rst"
  BY <1>2, CallKinds, RstForIs DEF Written
<1>3. CASE k.kind # "rst"
  <2>1. Written(e, k) = Segment(conn[e], k) /\ k.flags \in FlagSets /\ k.seq \in SeqNums /\ k.data \in Seq(Octets)
    BY <1>3, CallKinds DEF Written
  <2>2. RxFree(conn[e]) \in 0 .. RxBufferSize
    BY <1>1, FreeIs
  <2>3. conn[e].port \in 0 .. MaxOpens /\ conn[e].rcv \in SeqNums /\ 0 \in SeqNums
    BY <1>1, Space DEF Conns, SeqNums
  <2> QED
    BY <2>1, <2>2, <2>3 DEF Segment, Segments
<1> QED
  BY <1>2, <1>3

LEMMA NetGrowsIs ==
  ASSUME Typed, NEW e \in Ends, NEW k \in Calls, k # NoCall, NetGrows(e, k)
  PROVE  /\ net' \in [Ends -> Nets] /\ net'[e] = net[e]
         /\ \A j \in 1 .. Len(net'[Peer(e)]) :
              net'[Peer(e)][j] = Written(e, k) \/ \E m \in 1 .. Len(net[Peer(e)]) : net'[Peer(e)][j] = net[Peer(e)][m]
<1> DEFINE q == net[Peer(e)]
           w == Written(e, k)
<1>1. w \in Segments
  BY WrittenIs
<1>2. q \in Seq(Segments) /\ Len(q) \in Nat /\ Peer(e) \in Ends /\ Peer(e) # e
  BY PeerIs DEF Typed, Nets
<1>3. CASE net' = net
  BY <1>2, <1>3 DEF Typed
<1>4. CASE Len(q) < MaxNet /\ net' = [net EXCEPT ![Peer(e)] = Append(@, w)]
  <2>1. /\ Append(q, w) \in Seq(Segments) /\ Len(Append(q, w)) = Len(q) + 1
        /\ \A j \in 1 .. Len(q) + 1 : Append(q, w)[j] = IF j <= Len(q) THEN q[j] ELSE w
    BY <1>1, <1>2, AppendProperties
  <2>2. Append(q, w) \in Nets
    BY <1>2, <1>4, <2>1, Constants DEF Nets
  <2>3. net' \in [Ends -> Nets] /\ net'[e] = net[e] /\ net'[Peer(e)] = Append(q, w)
    BY <1>2, <1>4, <2>2 DEF Typed
  <2>4. ASSUME NEW j \in 1 .. Len(q) + 1
        PROVE  Append(q, w)[j] = w \/ \E m \in 1 .. Len(q) : Append(q, w)[j] = q[m]
    <3>1. CASE j <= Len(q)
      BY <1>2, <2>1, <3>1
    <3>2. CASE ~(j <= Len(q))
      BY <2>1, <3>2
    <3> QED
      BY <3>1, <3>2
  <2> QED
    BY <2>1, <2>3, <2>4
<1> QED
  BY <1>3, <1>4 DEF NetGrows

LEMMA EmitDoes ==
  ASSUME Sane, NEW e \in Ends, NEW t \in Tasks, Emit(e, t)
  PROVE  \E w \in BOOLEAN, ok \in BOOLEAN :
           /\ conn' = [conn EXCEPT ![e] = [conn[e] EXCEPT !.wnd_closed = w]]
           /\ task' = [task EXCEPT ![e][t] = AfterSend(task[e][t], ok)]
           /\ NetGrows(e, task[e][t].call)
           /\ fails' \in 0 .. MaxFail /\ UNCHANGED <<op, got, acked, opens, faults>>
<1> DEFINE k    == task[e][t].call
           c    == conn[e]
           shut == c.wnd_closed \/ (k.kind = "segment" /\ RxFree(c) = 0)
<1>1. c.wnd_closed \in BOOLEAN /\ shut \in BOOLEAN
  BY DEF Sane, Typed, Conns
<1>2. UNCHANGED <<op, got, acked, opens, faults>>
  BY DEF Emit
<1>3. CASE /\ net' = Put(Peer(e), Written(e, k))
           /\ conn' = [conn EXCEPT ![e].wnd_closed = shut]
           /\ task' = [task EXCEPT ![e][t] = AfterSend(@, TRUE)]
           /\ UNCHANGED fails
  <2>1. NetGrows(e, k)
    BY <1>3 DEF Put, NetGrows
  <2>2. fails' \in 0 .. MaxFail
    BY <1>3 DEF Sane, Typed
  <2>3. task' = [task EXCEPT ![e][t] = AfterSend(task[e][t], TRUE)]
    BY <1>3
  <2> QED
    BY <1>1, <1>2, <1>3, <2>1, <2>2, <2>3
<1>4. CASE /\ fails < MaxFail /\ fails' = fails + 1
           /\ \E w \in {c.wnd_closed, shut} : conn' = [conn EXCEPT ![e].wnd_closed = w]
           /\ task' = [task EXCEPT ![e][t] = AfterSend(@, FALSE)]
           /\ UNCHANGED net
  <2>1. NetGrows(e, k)
    BY <1>4 DEF NetGrows
  <2>2. fails' \in 0 .. MaxFail
    BY <1>4, Constants DEF Sane, Typed
  <2>3. task' = [task EXCEPT ![e][t] = AfterSend(task[e][t], FALSE)]
    BY <1>4
  <2>4. PICK w \in {c.wnd_closed, shut} : conn' = [conn EXCEPT ![e].wnd_closed = w]
    BY <1>4
  <2> HIDE DEF shut
  <2>5. w \in BOOLEAN
    BY <1>1
  <2> QED
    BY <1>2, <2>1, <2>2, <2>3, <2>4, <2>5
<1> QED
  BY <1>3, <1>4 DEF Emit, Written

\* The task that has sent goes on; nothing else about the end changes but whether a closed window
\* has been advertised.
LEMMA EmittedIs ==
  ASSUME Typed, NEW e \in Ends, NEW k2 \in Teams, NEW w \in BOOLEAN, NEW o, NEW n,
         Fine(e, conn[e], task[e], o, n), Phases(k2),
         k2.tx.pc = task[e].tx.pc, k2.rx.pc = task[e].rx.pc,
         k2.tx.phase # task[e].tx.phase => k2.tx.phase # "wait",
         k2.rx.phase # task[e].rx.phase => k2.rx.phase # "wait"
  PROVE  LET d == [conn[e] EXCEPT !.wnd_closed = w]
         IN d \in Conns /\ Fine(e, d, k2, o, n)
<1> DEFINE c == conn[e]
           d == [conn[e] EXCEPT !.wnd_closed = w]
           k == task[e]
<1>1. c \in Conns
  BY DEF Typed
<1>2. d \in Conns /\ SameWho(c, d) /\ d.ring = c.ring /\ d.fin = c.fin /\ d.tx = c.tx /\ d.rx = c.rx
  BY <1>1 DEF Conns, SameWho
<1> HIDE DEF d, c, k
<1>3. Stages(d, k2) /\ Fins(d)
  BY <1>2 DEF Fine, Stages, Fins, SameWho, Known, c
<1>4. Sleeps(d, k2)
  <2>1. (k2.rx.phase = "wait" => k.rx.phase = "wait") /\ (k2.tx.phase = "wait" => k.tx.phase = "wait")
    BY DEF k
  <2> QED
    BY <1>2, <2>1 DEF Fine, Sleeps, SameWho, c, k
<1>5. Counts(e, d, k2, o, n)
  BY <1>2 DEF Fine, Counts, SameWho, c
<1> QED
  BY <1>2, <1>3, <1>4, <1>5 DEF Fine, d

LEMMA EmitFrame ==
  ASSUME Sane, NEW e \in Ends, NEW t \in Tasks, Emit(e, t), task[e][t].call \in Calls, task[e][t].call # NoCall,
         task' \in [Ends -> Teams], \A x \in Ends \ {e} : task'[x] = task[x],
         Phases(task'[e]), task'[e].tx.pc = task[e].tx.pc, task'[e].rx.pc = task[e].rx.pc,
         task'[e].tx.phase # task[e].tx.phase => task'[e].tx.phase # "wait",
         task'[e].rx.phase # task[e].rx.phase => task'[e].rx.phase # "wait"
  PROVE  Sane'
<1>1. PICK w \in BOOLEAN :
           /\ conn' = [conn EXCEPT ![e] = [conn[e] EXCEPT !.wnd_closed = w]]
           /\ NetGrows(e, task[e][t].call)
           /\ fails' \in 0 .. MaxFail /\ UNCHANGED <<op, got, acked, opens, faults>>
  BY EmitDoes
<1> DEFINE d == [conn[e] EXCEPT !.wnd_closed = w]
<1>2. Fine(e, conn[e], task[e], op[e], opens[e]) /\ task'[e] \in Teams
  BY DEF Sane
<1>3. d \in Conns /\ Fine(e, d, task'[e], op[e], opens[e])
  BY <1>2, EmittedIs DEF Sane
<1> HIDE DEF d
<1>4. conn' = [conn EXCEPT ![e] = d]
  BY <1>1 DEF d
<1>5. conn' \in [Ends -> Conns] /\ conn'[e] = d /\ \A x \in Ends \ {e} : conn'[x] = conn[x]
  BY <1>3, <1>4 DEF Sane, Typed
<1>6. net' \in [Ends -> Nets]
  BY <1>1, NetGrowsIs DEF Sane
<1>7. Typed'
  BY <1>1, <1>5, <1>6 DEF Sane, Typed
<1>8. Elsewhere(e)
  BY <1>1, <1>5 DEF Elsewhere
<1>9. op'[e] = op[e] /\ opens'[e] = opens[e]
  BY <1>1
<1> QED
  BY <1>3, <1>5, <1>7, <1>8, <1>9, LocalStep

LEMMA AfterSendIs ==
  ASSUME NEW t, NEW ok \in BOOLEAN
  PROVE  /\ t \in Ins => AfterSend(t, ok) \in Ins /\ AfterSend(t, ok).phase \in {"idle", "ret"}
         /\ t \in Txs => /\ AfterSend(t, ok) \in Txs /\ AfterSend(t, ok).phase = "ret"
                         /\ AfterSend(t, ok).pc = t.pc /\ AfterSend(t, ok).ok = ok
         /\ (t \in Rxs /\ t.pc = "recv") => AfterSend(t, ok) = At("recv", "run")
         /\ AfterSend(t, ok).call = NoCall \/ ~(t \in Ins \cup Txs \cup Rxs)
<1> DEFINE u == [t EXCEPT !.phase = "ret", !.ok = ok, !.call = NoCall]
<1>1. NoCall \in Calls
  BY DEF Calls
<1>2. ASSUME t \in Ins
      PROVE  AfterSend(t, ok) \in Ins /\ AfterSend(t, ok).phase \in {"idle", "ret"} /\ AfterSend(t, ok).call = NoCall
  <2>1. t.pc = "input"
    BY <1>2 DEF Ins
  <2>2. CASE ~t.notify
    <3>1. AfterSend(t, ok) = At("input", "idle")
      BY <2>1, <2>2 DEF AfterSend
    <3> QED
      BY <3>1, <1>1 DEF At, Ins
  <2>3. CASE t.notify
    <3>1. AfterSend(t, ok) = u
      BY <2>1, <2>3 DEF AfterSend
    <3> QED
      BY <3>1, <1>1, <1>2 DEF Ins
  <2> QED
    BY <2>2, <2>3
<1>3. ASSUME t \in Txs
      PROVE  /\ AfterSend(t, ok) \in Txs /\ AfterSend(t, ok).phase = "ret" /\ AfterSend(t, ok).call = NoCall
             /\ AfterSend(t, ok).pc = t.pc /\ AfterSend(t, ok).ok = ok
  <2>1. t.pc # "input" /\ t.pc # "recv"
    BY <1>3 DEF Txs, TxPcs
  <2>2. AfterSend(t, ok) = u
    BY <2>1 DEF AfterSend
  <2> QED
    BY <2>2, <1>1, <1>3 DEF Txs
<1>4. ASSUME t \in Rxs
      PROVE  (t.pc = "recv" => AfterSend(t, ok) = At("recv", "run")) /\ AfterSend(t, ok).call = NoCall
  <2>1. CASE t.pc = "recv"
    BY <2>1 DEF AfterSend, At
  <2>2. CASE t.pc # "recv"
    <3>1. AfterSend(t, ok) = u
      BY <1>4, <2>2 DEF AfterSend, Rxs
    <3> QED
      BY <1>4, <2>2, <3>1 DEF Rxs
  <2> QED
    BY <2>1, <2>2
<1> QED
  BY <1>2, <1>3, <1>4

LEMMA EmitKeeps ==
  ASSUME Sane, NEW e \in Ends, NEW t \in Tasks, Emit(e, t)
  PROVE  Sane'
<1>1. PICK ok \in BOOLEAN : task' = [task EXCEPT ![e][t] = AfterSend(task[e][t], ok)]
  BY EmitDoes
<1>2. task[e] \in Teams /\ task[e].in \in Ins /\ task[e].tx \in Txs /\ task[e].rx \in Rxs /\ Phases(task[e])
  BY DEF Sane, Typed, Teams, Fine
<1>3. task[e][t].phase = "call"
  BY DEF Emit
<1>4. CASE t = "in"
  <2>1. task' = [task EXCEPT ![e].in = AfterSend(task[e].in, ok)]
    BY <1>1, <1>4
  <2>2. /\ AfterSend(task[e].in, ok) \in Ins /\ AfterSend(task[e].in, ok).phase \in {"idle", "ret"}
        /\ AfterSend(task[e].in, ok).call = NoCall
    BY <1>2, AfterSendIs
  <2>3. /\ task' \in [Ends -> Teams] /\ \A x \in Ends \ {e} : task'[x] = task[x]
        /\ task'[e].in = AfterSend(task[e].in, ok) /\ task'[e].tx = task[e].tx /\ task'[e].rx = task[e].rx
    BY <1>2, <2>1, <2>2 DEF Sane, Typed, Teams
  <2>4. Phases(task'[e])
    BY <1>2, <2>2, <2>3 DEF Phases
  <2>5. task[e][t].call \in Calls /\ task[e][t].call # NoCall
    BY <1>2, <1>3, <1>4 DEF Ins, Phases
  <2> QED
    BY <2>3, <2>4, <2>5, EmitFrame
<1>5. CASE t = "tx"
  <2>1. task' = [task EXCEPT ![e].tx = AfterSend(task[e].tx, ok)]
    BY <1>1, <1>5
  <2>2. /\ AfterSend(task[e].tx, ok) \in Txs /\ AfterSend(task[e].tx, ok).phase = "ret"
        /\ AfterSend(task[e].tx, ok).pc = task[e].tx.pc /\ AfterSend(task[e].tx, ok).call = NoCall
    BY <1>2, AfterSendIs
  <2>3. /\ task' \in [Ends -> Teams] /\ \A x \in Ends \ {e} : task'[x] = task[x]
        /\ task'[e].tx = AfterSend(task[e].tx, ok) /\ task'[e].in = task[e].in /\ task'[e].rx = task[e].rx
    BY <1>2, <2>1, <2>2 DEF Sane, Typed, Teams
  <2>4. Phases(task'[e])
    <3>1. task[e].tx.phase = "call"
      BY <1>3, <1>5
    <3>2. task[e].tx.pc \in {"connect", "send", "close", "abort"}
      BY <1>2, <3>1 DEF Phases, Txs, TxPcs
    <3> QED
      BY <1>2, <2>2, <2>3, <3>2 DEF Phases
  <2>5. task[e][t].call \in Calls /\ task[e][t].call # NoCall
    BY <1>2, <1>3, <1>5 DEF Txs, Phases
  <2> QED
    BY <2>2, <2>3, <2>4, <2>5, EmitFrame
<1>6. CASE t = "rx"
  <2>1. task' = [task EXCEPT ![e].rx = AfterSend(task[e].rx, ok)]
    BY <1>1, <1>6
  <2>0. task[e].rx.phase = "call" /\ task[e].rx.pc = "recv"
    BY <1>2, <1>3, <1>6 DEF Phases
  <2>2. AfterSend(task[e].rx, ok) = At("recv", "run")
    BY <1>2, <2>0, AfterSendIs
  <2>6. At("recv", "run") \in Rxs /\ At("recv", "run").phase = "run" /\ At("recv", "run").pc = "recv"
        /\ At("recv", "run").call = NoCall
    BY DEF At, Rxs, Calls
  <2>3. /\ task' \in [Ends -> Teams] /\ \A x \in Ends \ {e} : task'[x] = task[x]
        /\ task'[e].rx = At("recv", "run") /\ task'[e].in = task[e].in /\ task'[e].tx = task[e].tx
    BY <1>2, <2>1, <2>2, <2>6 DEF Sane, Typed, Teams
  <2>4. Phases(task'[e])
    BY <1>2, <2>0, <2>3, <2>6 DEF Phases
  <2>5. task[e][t].call \in Calls /\ task[e][t].call # NoCall
    BY <1>2, <1>3, <1>6 DEF Rxs, Phases
  <2> QED
    BY <2>0, <2>3, <2>4, <2>5, <2>6, EmitFrame
<1> QED
  BY <1>4, <1>5, <1>6 DEF Tasks

(***************************************************************************)
(* recv()                                                                  *)
(***************************************************************************)
RecvDone(c, d, t) ==
  /\ SameWho(c, d) /\ SameSnd(c, d) /\ d.rcv = c.rcv /\ d.fin = c.fin /\ d.tx = c.tx
  /\ \/ t = At("recv", "run") \/ t = Sending("recv", Call({"A"}, c.nxt, <<>>))
     \/ t = At("eof", "idle") \/ t = At("error", "idle")
     \/ /\ t = At("recv", "wait") /\ d.rx = "waiting" /\ d.ring = <<>> /\ ~d.fin
        /\ d.state \notin {"Closed", "Listen"}

LEMMA Associative ==
  ASSUME NEW x \in Seq(Octets), NEW y \in Seq(Octets), NEW z \in Seq(Octets)
  PROVE  (x \o y) \o z = x \o (y \o z)
BY ConcatAssociative

LEMMA RecvDoes ==
  ASSUME Sane, NEW e \in Ends, Recv(e)
  PROVE  \E d \in Conns, t \in Rxs :
           /\ RecvDone(conn[e], d, t) /\ t \in Rxs
           /\ conn' = [conn EXCEPT ![e] = d] /\ task' = [task EXCEPT ![e].rx = t]
           /\ got' \in [Ends -> Seq(Octets)] /\ got'[e] \o d.ring = got[e] \o conn[e].ring
           /\ \A x \in Ends \ {e} : got'[x] = got[x]
           /\ UNCHANGED <<op, net, acked, opens, faults, fails>>
<1> DEFINE waited == task[e].rx.phase = "wait"
           c0 == conn[e]
           c == IF waited THEN [conn[e] EXCEPT !.rx = "none"] ELSE conn[e]
           n == Lesser(ReadSize, Len(c.ring))
           popped == [c EXCEPT !.ring = SubSeq(@, n + 1, Len(@)), !.wnd_closed = FALSE]
           dead == c.state \in {"Closed", "Listen"}
<1>1. c0 \in Conns /\ got[e] \in Seq(Octets)
  BY DEF Sane, Typed
<1>2. /\ c \in Conns /\ SameWho(c0, c) /\ SameSnd(c0, c) /\ SameRcv(c0, c) /\ c.tx = c0.tx
  <2>1. "none" \in Events
    BY DEF Events
  <2> QED
    BY <1>1, <2>1 DEF Conns, SameWho, SameSnd, SameRcv
<1>3. \/ /\ n > 0
         /\ got' = [got EXCEPT ![e] = @ \o SubSeq(c.ring, 1, n)]
         /\ SetRx(e, popped, IF c.wnd_closed THEN Sending("recv", Call({"A"}, c.nxt, <<>>))
                             ELSE At("recv", "run"))
      \/ n = 0 /\ c.fin /\ SetRx(e, c, At("eof", "idle")) /\ UNCHANGED got
      \/ n = 0 /\ ~c.fin /\ dead /\ SetRx(e, c, At("error", "idle")) /\ UNCHANGED got
      \/ /\ n = 0 /\ ~c.fin /\ ~dead
         /\ SetRx(e, [c EXCEPT !.rx = "waiting"], At("recv", "wait")) /\ UNCHANGED got
  BY DEF Recv
<1> HIDE DEF c
<1>4. c.ring \in Seq(Octets) /\ Len(c.ring) \in Nat /\ n \in Nat /\ n <= Len(c.ring) /\ (n = 0 => c.ring = <<>>)
  BY <1>2, FreeIs, Constants DEF Lesser
<1>5. /\ At("recv", "run") \in Rxs /\ At("eof", "idle") \in Rxs /\ At("error", "idle") \in Rxs
      /\ At("recv", "wait") \in Rxs
  BY DEF At, Rxs, Calls
<1>6. Sending("recv", Call({"A"}, c.nxt, <<>>)) \in Rxs
  <2>1. Call({"A"}, c.nxt, <<>>) \in Calls
    BY <1>2, ControlCalls DEF Conns
  <2> QED
    BY <2>1 DEF At, Sending, Rxs
<1> HIDE DEF n, popped
<1>7. ASSUME NEW d \in Conns, NEW t \in Rxs, SetRx(e, d, t), RecvDone(c0, d, t), UNCHANGED got, d.ring = c0.ring
      PROVE  \E dd \in Conns, tt \in Rxs :
           /\ RecvDone(conn[e], dd, tt) /\ tt \in Rxs
           /\ conn' = [conn EXCEPT ![e] = dd] /\ task' = [task EXCEPT ![e].rx = tt]
           /\ got' \in [Ends -> Seq(Octets)] /\ got'[e] \o dd.ring = got[e] \o conn[e].ring
           /\ \A x \in Ends \ {e} : got'[x] = got[x]
           /\ UNCHANGED <<op, net, acked, opens, faults, fails>>
  <2>1. got' \in [Ends -> Seq(Octets)]
    BY <1>7 DEF Sane, Typed
  <2> QED
    BY <1>7, <2>1 DEF SetRx
<1>8. CASE n = 0 /\ c.fin /\ SetRx(e, c, At("eof", "idle")) /\ UNCHANGED got
  <2>1. RecvDone(c0, c, At("eof", "idle")) /\ c.ring = c0.ring
    BY <1>2 DEF RecvDone, SameRcv
  <2> QED
    BY <1>2, <1>5, <1>7, <1>8, <2>1
<1>9. CASE n = 0 /\ ~c.fin /\ dead /\ SetRx(e, c, At("error", "idle")) /\ UNCHANGED got
  <2>1. RecvDone(c0, c, At("error", "idle")) /\ c.ring = c0.ring
    BY <1>2 DEF RecvDone, SameRcv
  <2> QED
    BY <1>2, <1>5, <1>7, <1>9, <2>1
<1>10. CASE /\ n = 0 /\ ~c.fin /\ ~dead
            /\ SetRx(e, [c EXCEPT !.rx = "waiting"], At("recv", "wait")) /\ UNCHANGED got
  <2> DEFINE d == [c EXCEPT !.rx = "waiting"]
  <2>1. d \in Conns /\ SameWho(c, d) /\ SameSnd(c, d) /\ SameRcv(c, d) /\ d.tx = c.tx /\ d.rx = "waiting"
    BY <1>2 DEF Conns, SameWho, SameSnd, SameRcv, Events
  <2>2. SetRx(e, d, At("recv", "wait")) /\ UNCHANGED got
    BY <1>10
  <2> HIDE DEF d
  <2>3. RecvDone(c0, d, At("recv", "wait")) /\ d.ring = c0.ring
    BY <1>2, <1>4, <1>10, <2>1 DEF RecvDone, SameRcv, SameWho, SameSnd
  <2> QED
    BY <1>5, <1>7, <2>1, <2>2, <2>3
<1>11. CASE /\ n > 0
            /\ got' = [got EXCEPT ![e] = @ \o SubSeq(c.ring, 1, n)]
            /\ SetRx(e, popped, IF c.wnd_closed THEN Sending("recv", Call({"A"}, c.nxt, <<>>))
                                ELSE At("recv", "run"))
  <2> DEFINE t  == IF c.wnd_closed THEN Sending("recv", Call({"A"}, c.nxt, <<>>)) ELSE At("recv", "run")
             a  == SubSeq(c.ring, 1, n)
             b  == SubSeq(c.ring, n + 1, Len(c.ring))
  <2>1. a \in Seq(Octets) /\ b \in Seq(Octets) /\ Len(b) = Len(c.ring) - n
    BY <1>4, SubSeqProperties
  <2>2. a \o b = c.ring
    <3>1. Len(a) = n /\ \A j \in 1 .. n : a[j] = c.ring[j]
      BY <1>4, SubSeqProperties
    <3>2. \A j \in 1 .. Len(c.ring) - n : b[j] = c.ring[n + j]
      BY <1>4, SubSeqProperties
    <3> HIDE DEF a, b
    <3>3. a \o b \in Seq(Octets) /\ Len(a \o b) = Len(c.ring)
      BY <1>4, <2>1, <3>1, ConcatProperties
    <3>4. ASSUME NEW j \in 1 .. Len(c.ring)
          PROVE  (a \o b)[j] = c.ring[j]
      <4>1. (a \o b)[j] = IF j <= n THEN a[j] ELSE b[j - n]
        BY <1>4, <2>1, <3>1, ConcatProperties
      <4>2. CASE j <= n
        BY <4>1, <4>2, <3>1
      <4>3. CASE ~(j <= n)
        <5>1. j - n \in 1 .. Len(c.ring) - n /\ n + (j - n) = j
          BY <1>4, <4>3
        <5> QED
          BY <4>1, <4>3, <3>2, <5>1
      <4> QED
        BY <4>2, <4>3
    <3> QED
      BY <1>4, <3>3, <3>4, SeqEqual
  <2>3. popped \in Conns /\ popped.ring = b /\ SameWho(c, popped) /\ SameSnd(c, popped) /\ popped.rcv = c.rcv
        /\ popped.fin = c.fin /\ popped.tx = c.tx
    <3>1. popped = [c EXCEPT !.ring = b, !.wnd_closed = FALSE]
      BY DEF popped
    <3>2. b \in Rings
      BY <1>2, <1>4, <2>1, FreeIs, Constants DEF Rings
    <3> HIDE DEF b, popped
    <3> QED
      BY <1>2, <3>1, <3>2 DEF Conns, SameWho, SameSnd
  <2> HIDE DEF a, b
  <2>4. got' = [got EXCEPT ![e] = got[e] \o a]
    BY <1>11 DEF a
  <2>5. got[e] \o a \in Seq(Octets)
    BY <1>1, <2>1, ConcatProperties
  <2>6. got' \in [Ends -> Seq(Octets)] /\ got'[e] = got[e] \o a /\ \A x \in Ends \ {e} : got'[x] = got[x]
    BY <2>4, <2>5 DEF Sane, Typed
  <2>7. got'[e] \o popped.ring = got[e] \o conn[e].ring
    <3>1. (got[e] \o a) \o b = got[e] \o (a \o b)
      BY <1>1, <2>1, Associative
    <3> QED
      BY <1>2, <2>2, <2>3, <2>6, <3>1 DEF SameRcv
  <2>8. t \in Rxs
    BY <1>5, <1>6
  <2>9. RecvDone(c0, popped, t)
    <3>1. c.nxt = c0.nxt
      BY <1>2 DEF SameSnd
    <3>2. t = At("recv", "run") \/ t = Sending("recv", Call({"A"}, c0.nxt, <<>>))
      BY <3>1
    <3> HIDE DEF t
    <3> QED
      BY <1>2, <2>3, <3>2 DEF RecvDone, SameWho, SameSnd, SameRcv
  <2>10. SetRx(e, popped, t)
    BY <1>11
  <2> HIDE DEF t
  <2> QED
    BY <2>3, <2>6, <2>7, <2>8, <2>9, <2>10 DEF SetRx
<1> QED
  BY <1>3, <1>8, <1>9, <1>10, <1>11

LEMMA RecvKeeps ==
  ASSUME Sane, NEW e \in Ends, Recv(e)
  PROVE  Sane'
<1>1. PICK d \in Conns, t \in Rxs :
           /\ RecvDone(conn[e], d, t)
           /\ conn' = [conn EXCEPT ![e] = d] /\ task' = [task EXCEPT ![e].rx = t]
           /\ got' \in [Ends -> Seq(Octets)]
           /\ UNCHANGED <<op, net, acked, opens, faults, fails>>
  BY RecvDoes
<1> DEFINE c == conn[e]
<1>2. /\ conn' \in [Ends -> Conns] /\ task' \in [Ends -> Teams] /\ conn'[e] = d
      /\ task'[e].rx = t /\ task'[e].in = task[e].in /\ task'[e].tx = task[e].tx
      /\ \A x \in Ends \ {e} : conn'[x] = conn[x] /\ task'[x] = task[x]
  BY <1>1, RxSet DEF Sane
<1>3. Typed'
  BY <1>1, <1>2 DEF Sane, Typed
<1>4. Elsewhere(e)
  BY <1>1, <1>2 DEF Elsewhere
<1>5. Fine(e, c, task[e], op[e], opens[e]) /\ c \in Conns
  BY DEF Sane, Typed
<1>6. task[e].rx.pc = "recv"
  BY DEF Recv
<1>7. /\ (t.phase = "call" <=> t.call # NoCall)
      /\ t.phase \in IF t.pc = "recv" THEN {"run", "call", "wait"} ELSE {"idle"}
      /\ (t.phase = "wait" => d.rx = "waiting" /\ d.ring = <<>> /\ ~d.fin /\ d.state \notin {"Closed", "Listen"})
  <2>1. Call({"A"}, c.nxt, <<>>) # NoCall
    BY <1>5, ControlCalls DEF Conns
  <2> QED
    BY <1>1, <2>1 DEF RecvDone, At, Sending
<1>8. Fine(e, d, task'[e], op[e], opens[e])
  <2>1. Phases(task'[e])
    BY <1>2, <1>5, <1>7 DEF Fine, Phases
  <2>2. Stages(d, task'[e]) /\ Fins(d)
    BY <1>1, <1>2, <1>5, <1>6 DEF Fine, Stages, Fins, RecvDone, SameWho, Known
  <2>3. Sleeps(d, task'[e])
    BY <1>1, <1>2, <1>5, <1>7 DEF Fine, Sleeps, RecvDone, SameWho
  <2>4. Counts(e, d, task'[e], op[e], opens[e])
    BY <1>1, <1>2, <1>5 DEF Fine, Counts, RecvDone, SameWho
  <2> QED
    BY <2>1, <2>2, <2>3, <2>4 DEF Fine
<1> QED
  BY <1>1, <1>2, <1>3, <1>4, <1>8, LocalStep

(***************************************************************************)
(* The application's operations.                                           *)
(***************************************************************************)
RxSleeps(d, k) ==
  /\ k.rx.phase = "wait" => d.rx \in {"waiting", "woken"}
  /\ (k.rx.phase = "wait" /\ d.rx = "waiting") => d.ring = <<>> /\ ~d.fin /\ d.state \notin {"Closed", "Listen"}

\* What d has to be, whatever the application is about, and what its task t has to be on d.
Good(d, k) == Known(d) /\ Fins(d) /\ RxSleeps(d, k)

Fits(e, d, k, t, o, n) ==
  /\ t.phase \in CASE t.pc \in {"closed", "ready", "failed"}   -> {"run"}
                   [] t.pc \in {"connect", "send", "close"}    -> {"call", "ret", "wait"}
                   [] t.pc = "accept"                          -> {"run", "wait"}
                   [] t.pc = "finwait"                         -> {"wait"}
                   [] t.pc = "abort"                           -> {"run", "call", "ret"}
                   [] t.pc \in {"ended", "done"}               -> {"idle"}
  /\ t.phase = "call" <=> t.call # NoCall
  /\ d.state \in Reached(t.pc)
  /\ t.pc \in {"closed", "connect", "accept", "ended"} => k.rx.pc # "recv"
  /\ t.phase = "wait" => d.tx \in {"waiting", "woken"}
  /\ (t.phase = "wait" /\ d.tx = "waiting" /\ t.pc = "accept") => d.state \in {"Listen", "SynReceived"}
  /\ n >= 1
  /\ t.pc \in {"connect", "accept"} => o.sends = 0
  /\ t.pc \in {"ready", "failed"} => o.sends <= Len(Sends[e][n])
  /\ t.pc = "send" => o.sends < Len(Sends[e][n])

LEMMA FitsFine ==
  ASSUME NEW e, NEW d, NEW k \in Teams, NEW k2 \in Teams, NEW o, NEW n, Phases(k),
         k2.in = k.in, k2.rx = k.rx, Good(d, k), Fits(e, d, k, k2.tx, o, n)
  PROVE  Fine(e, d, k2, o, n)
<1>1. Phases(k2)
  BY DEF Fits, Phases
<1>2. Stages(d, k2) /\ Fins(d)
  BY DEF Fits, Good, Stages
<1>3. Sleeps(d, k2)
  BY DEF Fits, Good, RxSleeps, Sleeps
<1>4. Counts(e, d, k2, o, n)
  BY DEF Fits, Counts
<1> QED
  BY <1>1, <1>2, <1>3, <1>4 DEF Fine

LEMMA TxFrame ==
  ASSUME Sane, NEW e \in Ends, NEW d \in Conns, NEW t \in Txs, NEW o \in Ops,
         Set(e, d, t, o), UNCHANGED <<net, got, opens, fails>>,
         acked' \in [Ends -> Nat], faults' \in 0 .. MaxFaults,
         Good(d, task[e]), Fits(e, d, task[e], t, o, opens[e])
  PROVE  Sane'
<1>1. /\ conn' \in [Ends -> Conns] /\ task' \in [Ends -> Teams] /\ conn'[e] = d
      /\ task'[e].tx = t /\ task'[e].in = task[e].in /\ task'[e].rx = task[e].rx
      /\ \A x \in Ends \ {e} : conn'[x] = conn[x] /\ task'[x] = task[x]
  BY TxSet DEF Sane, Set
<1>2. op' \in [Ends -> Ops] /\ op'[e] = o /\ \A x \in Ends \ {e} : op'[x] = op[x]
  BY DEF Sane, Typed, Set
<1>3. Typed'
  BY <1>1, <1>2 DEF Sane, Typed
<1>4. Elsewhere(e)
  BY <1>1, <1>2 DEF Elsewhere
<1>5. task[e] \in Teams /\ task'[e] \in Teams /\ Phases(task[e])
  BY <1>1 DEF Sane, Typed, Fine
<1>6. Fine(e, d, task'[e], o, opens[e])
  BY <1>1, <1>5, FitsFine
<1> QED
  BY <1>1, <1>2, <1>3, <1>4, <1>6, LocalStep

\* d has the receiving side of c, and its state.
Keeps(c, d) == SameWho(c, d) /\ SameRcv(c, d) /\ d.rx = c.rx /\ d.wnd = c.wnd

LEMMA KeepsGood ==
  ASSUME NEW e, NEW c, NEW d, NEW k, NEW o, NEW n, Fine(e, c, k, o, n), Keeps(c, d)
  PROVE  Good(d, k)
BY DEF Fine, Stages, Fins, Sleeps, Good, RxSleeps, Keeps, SameWho, SameRcv, Known

LEMMA UnbindGood ==
  ASSUME NEW e, NEW c \in Conns, NEW k, NEW o, NEW n, Fine(e, c, k, o, n), k.rx.pc # "recv"
  PROVE  Good(Unbind(c), k)
<1> DEFINE d == Unbind(c)
<1>1. d.state = "Closed" /\ ~d.bound
  BY UnbindIs
<1> HIDE DEF d
<1>2. k.rx.phase # "wait"
  BY DEF Fine, Phases
<1> QED
  BY <1>1, <1>2 DEF Good, RxSleeps, Fins, PastFin, Known, d

LEMMA ResetGood ==
  ASSUME NEW e, NEW c \in Conns, NEW k, NEW o, NEW n, Fine(e, c, k, o, n)
  PROVE  Good(ResetConn(c), k)
<1> DEFINE d == ResetConn(c)
<1>1. d.state = "Closed" /\ ~d.bound /\ d.rx = Notify(c.rx)
  BY ResetIs
<1> HIDE DEF d
<1> QED
  BY <1>1 DEF Fine, Sleeps, Good, RxSleeps, Fins, PastFin, Known, Notify, d

LEMMA SendingIs ==
  ASSUME NEW pc \in TxPcs, NEW k \in Calls, k # NoCall
  PROVE  /\ Sending(pc, k) \in Txs /\ Sending(pc, k).pc = pc /\ Sending(pc, k).phase = "call"
         /\ Sending(pc, k).call = k
BY DEF Sending, At, Txs

LEMMA AtIs ==
  ASSUME NEW pc \in TxPcs, NEW phase \in {"idle", "run", "wait"}
  PROVE  /\ At(pc, phase) \in Txs /\ At(pc, phase).pc = pc /\ At(pc, phase).phase = phase
         /\ At(pc, phase).call = NoCall
BY DEF At, Txs, Calls

\* The Conn of a task that goes to wait.
LEMMA AwaitIs ==
  ASSUME NEW c \in Conns
  PROVE  LET d == [c EXCEPT !.tx = Await(@)]
         IN /\ d \in Conns /\ Keeps(c, d) /\ SameSnd(c, d) /\ d.tx \in {"waiting", "woken"}
            /\ c.tx = "none" => d.tx = "waiting"
BY Events1 DEF Conns, Keeps, SameWho, SameSnd, SameRcv, Await

LEMMA ResumedIs ==
  ASSUME NEW e, conn[e] \in Conns
  PROVE  LET d == Resumed(e)
         IN d \in Conns /\ Keeps(conn[e], d) /\ SameSnd(conn[e], d) /\ d.tx = "none"
BY DEF Resumed, Conns, Keeps, SameWho, SameSnd, SameRcv, Events

LEMMA KeepsKeeps ==
  ASSUME NEW a, NEW b, NEW c, Keeps(a, b), Keeps(b, c)
  PROVE  Keeps(a, c)
BY DEF Keeps, SameWho, SameRcv

LEMMA SndSnd ==
  ASSUME NEW a, NEW b, NEW c, SameSnd(a, b), SameSnd(b, c)
  PROVE  SameSnd(a, c)
BY DEF SameSnd

\* What the application's task knows when it runs.
LEMMA TxSane ==
  ASSUME Sane, NEW e \in Ends
  PROVE  /\ conn[e] \in Conns /\ task[e] \in Teams /\ task[e].tx \in Txs /\ task[e].tx.pc \in TxPcs
         /\ op[e] \in Ops /\ opens[e] \in 0 .. MaxOpens /\ acked[e] \in Nat
         /\ Fine(e, conn[e], task[e], op[e], opens[e])
BY DEF Sane, Typed, Teams, Txs

LEMMA WaitFaults ==
  ASSUME Sane, NEW e \in Ends, NEW pc, Woken(e, pc) \/ TimedOut(e, pc)
  PROVE  faults' \in 0 .. MaxFaults /\ task[e].tx.pc = pc /\ task[e].tx.phase = "wait"
BY FaultIs DEF Woken, TimedOut, Waiting, Sane, Typed

(* ---- connect() ---- *)
ConnectSentDone(c, d, t) ==
  \/ Keeps(c, d) /\ SameSnd(c, d) /\ t = At("connect", "wait") /\ d.tx \in {"waiting", "woken"}
  \/ d = Unbind(c) /\ t = At("closed", "run")

LEMMA ConnectSentDoes ==
  ASSUME Sane, ConnectSent
  PROVE  \E d \in Conns, t \in Txs :
           /\ ConnectSentDone(conn["client"], d, t) /\ Set("client", d, t, op["client"])
           /\ UNCHANGED <<net, got, acked, opens, fails, faults>>
<1> DEFINE e == "client"
           c == conn[e]
           w == [c EXCEPT !.tx = Await(@)]
<1>0. e \in Ends
  BY DEF Ends
<1>1. c \in Conns
  BY <1>0, TxSane
<1>2. UNCHANGED <<net, got, acked, opens, fails, faults>>
  BY DEF ConnectSent, Stay
<1>3. \/ Set(e, w, At("connect", "wait"), op[e])
      \/ Set(e, Unbind(c), At("closed", "run"), op[e])
  BY DEF ConnectSent, WaitTx
<1>4. CASE Set(e, w, At("connect", "wait"), op[e])
  <2>1. w \in Conns /\ Keeps(c, w) /\ SameSnd(c, w) /\ w.tx \in {"waiting", "woken"}
    BY <1>1, AwaitIs
  <2>2. At("connect", "wait") \in Txs
    BY AtIs DEF TxPcs
  <2> HIDE DEF w, c
  <2>3. ConnectSentDone(c, w, At("connect", "wait"))
    BY <2>1 DEF ConnectSentDone
  <2> QED
    BY <1>2, <1>4, <2>1, <2>2, <2>3 DEF c
<1>5. CASE Set(e, Unbind(c), At("closed", "run"), op[e])
  <2>1. Unbind(c) \in Conns
    BY <1>1, UnbindIs
  <2>2. At("closed", "run") \in Txs
    BY AtIs DEF TxPcs
  <2> HIDE DEF c
  <2>3. ConnectSentDone(c, Unbind(c), At("closed", "run"))
    BY DEF ConnectSentDone
  <2> QED
    BY <1>2, <1>5, <2>1, <2>2, <2>3 DEF c
<1> QED
  BY <1>3, <1>4, <1>5

LEMMA ConnectSentKeeps ==
  ASSUME Sane, ConnectSent
  PROVE  Sane'
<1> DEFINE e == "client"
           c == conn[e]
           k == task[e]
<1>0. e \in Ends
  BY DEF Ends
<1>1. /\ c \in Conns /\ k \in Teams /\ op[e] \in Ops /\ Fine(e, c, k, op[e], opens[e]) /\ opens[e] \in 0 .. MaxOpens
      /\ k.tx.pc = "connect"
  BY <1>0, TxSane DEF ConnectSent, Returned
<1>2. k.rx.pc # "recv" /\ opens[e] >= 1 /\ op[e].sends = 0 /\ c.state \in Reached("connect")
  BY <1>1 DEF Fine, Stages, Counts
<1>3. PICK d \in Conns, t \in Txs :
           /\ ConnectSentDone(c, d, t) /\ Set(e, d, t, op[e])
           /\ UNCHANGED <<net, got, acked, opens, fails, faults>>
  BY ConnectSentDoes
<1>4. acked' \in [Ends -> Nat] /\ faults' \in 0 .. MaxFaults
  BY <1>3 DEF Sane, Typed
<1>5. Good(d, k) /\ Fits(e, d, k, t, op[e], opens[e])
  <2>1. CASE Keeps(c, d) /\ SameSnd(c, d) /\ t = At("connect", "wait") /\ d.tx \in {"waiting", "woken"}
    <3>1. Good(d, k)
      BY <1>1, <2>1, KeepsGood
    <3>2. t.pc = "connect" /\ t.phase = "wait" /\ t.call = NoCall
      BY <2>1 DEF At
    <3> HIDE DEF e
    <3>3. Fits(e, d, k, t, op[e], opens[e])
      BY <1>2, <2>1, <3>2 DEF Fits, Keeps, SameWho
    <3> QED
      BY <3>1, <3>3
  <2>2. CASE d = Unbind(c) /\ t = At("closed", "run")
    <3>1. Good(d, k)
      BY <1>1, <1>2, <2>2, UnbindGood
    <3>2. t.pc = "closed" /\ t.phase = "run" /\ t.call = NoCall
      BY <2>2 DEF At
    <3>3. d.state = "Closed"
      BY <1>1, <2>2, UnbindIs
    <3> HIDE DEF e
    <3>4. Fits(e, d, k, t, op[e], opens[e])
      BY <1>2, <3>2, <3>3 DEF Fits, Reached
    <3> QED
      BY <3>1, <3>4
  <2> QED
    BY <1>3, <2>1, <2>2 DEF ConnectSentDone
<1> HIDE DEF e
<1> QED
  BY <1>0, <1>1, <1>3, <1>4, <1>5, TxFrame

(* ---- send() ---- *)
Chunk(e, c, o, n) == [i \in 1..n |-> <<c.port, acked[e] + Dist(o.base, c.nxt) + i>>]

\* What the inner loop of send() leaves: a wait, or the next segment on its way.
SentOn(e, c, o, d, t, o2) ==
  \/ /\ t = At("send", "wait") /\ o2 = o /\ Keeps(c, d) /\ SameSnd(c, d) /\ d.tx \in {"waiting", "woken"}
  \/ /\ SeqLt(c.nxt, o.end) /\ d = c
     /\ \E n \in Nat \ {0} :
          /\ n <= Dist(c.nxt, o.end) /\ n <= Mss /\ o2 = [o EXCEPT !.count = n]
          /\ t = Sending("send", Call({"A"}, c.nxt, Chunk(e, c, o, n)))

LEMMA ChunkIs ==
  ASSUME Typed, NEW e \in Ends, NEW c \in Conns, NEW o \in Ops, NEW n \in Nat
  PROVE  Chunk(e, c, o, n) \in Seq(Octets) /\ Len(Chunk(e, c, o, n)) = n
<1> DEFINE a == acked[e] + Dist(o.base, c.nxt)
<1>1. c.port \in Nat /\ c.nxt \in SeqNums /\ o.base \in SeqNums /\ acked[e] \in Nat
  BY Constants DEF Typed, Conns, Ops
<1>2. c.nxt \in Int /\ o.base \in Int /\ 0 <= c.nxt /\ c.nxt < SeqSpace /\ 0 <= o.base /\ o.base < SeqSpace
  BY <1>1, Space, NumIs
<1>3. Dist(o.base, c.nxt) \in Int /\ 0 <= Dist(o.base, c.nxt)
  BY <1>2, DistIs
<1>4. a \in Nat
  BY <1>1, <1>3
<1> HIDE DEF a
<1>5. \A i \in 1..n : a + i \in Nat \ {0}
  BY <1>4
<1>6. \A i \in 1..n : <<c.port, a + i>> \in Octets
  BY <1>1, <1>5 DEF Octets
<1>7. [i \in 1..n |-> <<c.port, a + i>>] \in [1..n -> Octets]
  BY <1>6
<1>8. [i \in 1..n |-> <<c.port, a + i>>] \in Seq(Octets) /\ Len([i \in 1..n |-> <<c.port, a + i>>]) = n
  BY <1>7
<1> QED
  BY <1>8 DEF Chunk, a

LEMMA AvailIs ==
  ASSUME NEW c \in Conns
  PROVE  Avail(c) \in Nat
<1> DEFINE f == Dist(c.una, c.nxt)
<1>1. c.una \in Int /\ c.nxt \in Int /\ 0 <= c.una /\ c.una < SeqSpace /\ 0 <= c.nxt /\ c.nxt < SeqSpace
  BY Space, NumIs DEF Conns
<1>2. f \in Int /\ 0 <= f
  BY <1>1, DistIs
<1>3. c.wnd \in Nat
  BY Constants DEF Conns
<1> HIDE DEF f
<1>4. (IF c.wnd > f THEN c.wnd - f ELSE IF f = 0 THEN 1 ELSE 0) \in Nat
  BY <1>2, <1>3
<1> QED
  BY <1>4 DEF Avail, f

LEMMA SendMoreDoes ==
  ASSUME Sane, NEW e \in Ends, NEW c \in Conns, NEW o \in Ops, SendMore(e, c, o)
  PROVE  \E d \in Conns, t \in Txs, o2 \in Ops : o2.sends = o.sends /\ SentOn(e, c, o, d, t, o2) /\ Set(e, d, t, o2)
<1>1. c.nxt \in SeqNums /\ o.end \in SeqNums
  BY DEF Conns, Ops
<1>2. c.nxt \in Int /\ o.end \in Int /\ 0 <= c.nxt /\ c.nxt < SeqSpace /\ 0 <= o.end /\ o.end < SeqSpace
  BY <1>1, Space, NumIs
<1> DEFINE n == Lesser(Lesser(Avail(c), Mss), Dist(c.nxt, o.end))
           k == Call({"A"}, c.nxt, Chunk(e, c, o, n))
           m == [o EXCEPT !.count = n]
           w == [c EXCEPT !.tx = Await(@)]
<1>3. \/ SeqLt(c.nxt, o.end) /\ Avail(c) > 0 /\ Set(e, c, Sending("send", k), m)
      \/ Set(e, w, At("send", "wait"), o)
  BY DEF SendMore, WaitTx, Chunk
<1>4. CASE SeqLt(c.nxt, o.end) /\ Avail(c) > 0 /\ Set(e, c, Sending("send", k), m)
  <2> DEFINE f == Dist(c.nxt, o.end)
             v == Avail(c)
  <2>1. f \in Int /\ 1 <= f
    BY <1>2, <1>4, DistIs, SeqLtIs
  <2>3. v \in Nat /\ v >= 1
    BY AvailIs, <1>4
  <2> HIDE DEF f, v
  <2>4. n \in Nat \ {0} /\ n <= f /\ n <= Mss
    BY <2>1, <2>3, Constants DEF Lesser, f, v
  <2> HIDE DEF n
  <2>5. m \in Ops /\ m.sends = o.sends
    BY <2>4 DEF Ops
  <2>6. Chunk(e, c, o, n) \in Seq(Octets) /\ {"A"} \in FlagSets
    BY <2>4, ChunkIs DEF Sane, FlagSets
  <2>7. k \in Calls /\ k # NoCall
    BY <2>6, <1>1, CallIs
  <2>8. Sending("send", k) \in Txs
    BY <2>7, SendingIs DEF TxPcs
  <2>9. SentOn(e, c, o, c, Sending("send", k), m)
    BY <1>4, <2>4 DEF SentOn, f
  <2> QED
    BY <1>4, <2>5, <2>8, <2>9
<1>5. CASE Set(e, w, At("send", "wait"), o)
  <2>1. w \in Conns /\ Keeps(c, w) /\ SameSnd(c, w) /\ w.tx \in {"waiting", "woken"}
    BY AwaitIs
  <2>2. At("send", "wait") \in Txs
    BY AtIs DEF TxPcs
  <2> HIDE DEF w
  <2>3. SentOn(e, c, o, w, At("send", "wait"), o)
    BY <2>1 DEF SentOn
  <2> QED
    BY <1>5, <2>1, <2>2, <2>3
<1> QED
  BY <1>3, <1>4, <1>5

\* What a turn of the outer loop leaves.
Looped(e, c, o, d, t, o2) ==
  \/ SendDone(c, o) /\ d = c /\ t = At("ready", "run") /\ o2 = [o EXCEPT !.sends = @ + 1]
  \/ ~SendDone(c, o) /\ ~Usable(c) /\ d = c /\ t = At("failed", "run") /\ o2 = o
  \/ ~SendDone(c, o) /\ Usable(c) /\ SentOn(e, [c EXCEPT !.tx = "none"], o, d, t, o2)

Credited(e, t, o) ==
  acked' = IF t = At("ready", "run") THEN [acked EXCEPT ![e] = @ + Script(e)[o.sends + 1]] ELSE acked

LEMMA SendLoopDoes ==
  ASSUME Sane, NEW e \in Ends, NEW c \in Conns, NEW o \in Ops, SendLoop(e, c, o)
  PROVE  \E d \in Conns, t \in Txs, o2 \in Ops :
           /\ o2.sends = IF t = At("ready", "run") THEN o.sends + 1 ELSE o.sends
           /\ Looped(e, c, o, d, t, o2) /\ Set(e, d, t, o2) /\ Credited(e, t, o)
<1> DEFINE z == [c EXCEPT !.tx = "none"]
           m == [o EXCEPT !.sends = @ + 1]
           ready == At("ready", "run")
           failed == At("failed", "run")
<1>0. ready \in Txs /\ failed \in Txs /\ ready.pc = "ready" /\ failed.pc = "failed"
  BY AtIs DEF TxPcs
<1>1. CASE SendDone(c, o)
  <2>1. Set(e, c, ready, m) /\ acked' = [acked EXCEPT ![e] = @ + Script(e)[o.sends + 1]]
    BY <1>1 DEF SendLoop
  <2>2. m \in Ops /\ m.sends = o.sends + 1
    BY DEF Ops
  <2> HIDE DEF m
  <2>3. Looped(e, c, o, c, ready, m)
    BY <1>1 DEF Looped, m
  <2>4. Credited(e, ready, o)
    BY <2>1 DEF Credited
  <2> QED
    BY <1>0, <2>1, <2>2, <2>3, <2>4
<1>2. CASE ~SendDone(c, o) /\ ~Usable(c)
  <2>1. Set(e, c, failed, o) /\ acked' = acked
    BY <1>2 DEF SendLoop
  <2>2. failed # ready
    BY <1>0
  <2> HIDE DEF ready, failed
  <2>3. Looped(e, c, o, c, failed, o)
    BY <1>2 DEF Looped, failed
  <2>4. Credited(e, failed, o)
    BY <2>1, <2>2 DEF Credited, ready
  <2> QED
    BY <1>0, <2>1, <2>2, <2>3, <2>4 DEF ready
<1>3. CASE ~SendDone(c, o) /\ Usable(c)
  <2>1. SendMore(e, z, o) /\ acked' = acked
    BY <1>3 DEF SendLoop
  <2>2. z \in Conns
    BY DEF Conns, Events
  <2> HIDE DEF z
  <2>3. PICK d \in Conns, t \in Txs, o2 \in Ops : o2.sends = o.sends /\ SentOn(e, z, o, d, t, o2) /\ Set(e, d, t, o2)
    BY <2>1, <2>2, SendMoreDoes
  <2>4. t.pc = "send"
    <3>1. ASSUME NEW k PROVE Sending("send", k).pc = "send"
      BY DEF Sending, At
    <3>2. At("send", "wait").pc = "send"
      BY DEF At
    <3> QED
      BY <2>3, <3>1, <3>2 DEF SentOn
  <2>5. t # ready
    BY <2>4, <1>0
  <2>6. Looped(e, c, o, d, t, o2)
    BY <1>3, <2>3 DEF Looped, z
  <2>7. Credited(e, t, o)
    BY <2>1, <2>5 DEF Credited
  <2> HIDE DEF ready
  <2> QED
    BY <2>3, <2>5, <2>6, <2>7 DEF ready
<1> QED
  BY <1>1, <1>2, <1>3

LEMMA SentOnFits ==
  ASSUME NEW e, NEW c \in Conns, NEW d, NEW k, NEW t \in Txs, NEW o, NEW o2, NEW n, Good(c, k), SentOn(e, c, o, d, t, o2),
         c.state \in Reached("send"), n >= 1, o2.sends < Len(Sends[e][n])
  PROVE  Good(d, k) /\ Fits(e, d, k, t, o2, n)
<1>1. CASE t = At("send", "wait") /\ Keeps(c, d) /\ d.tx \in {"waiting", "woken"}
  <2>1. t.pc = "send" /\ t.phase = "wait" /\ t.call = NoCall
    BY <1>1 DEF At
  <2>2. Good(d, k)
    BY <1>1 DEF Good, Known, Fins, RxSleeps, Keeps, SameWho, SameRcv
  <2>3. d.state = c.state
    BY <1>1 DEF Keeps, SameWho
  <2> QED
    BY <1>1, <2>1, <2>2, <2>3 DEF Fits
<1>2. ASSUME NEW q, d = c, t = Sending("send", Call({"A"}, c.nxt, q))
      PROVE  Good(d, k) /\ Fits(e, d, k, t, o2, n)
  <2>1. t.pc = "send" /\ t.phase = "call" /\ t.call = Call({"A"}, c.nxt, q)
    BY <1>2 DEF Sending, At
  <2>2. t.call # NoCall
    BY <2>1 DEF Call, NoCall
  <2> QED
    BY <1>2, <2>1, <2>2 DEF Fits
<1> QED
  BY <1>1, <1>2 DEF SentOn

LEMMA LoopFits ==
  ASSUME NEW e, NEW c \in Conns, NEW d, NEW k, NEW t \in Txs, NEW o \in Ops, NEW o2 \in Ops, NEW n,
         Good(c, k), Looped(e, c, o, d, t, o2), c.state \in Reached("send"),
         n >= 1, Len(Sends[e][n]) \in Nat, o.sends < Len(Sends[e][n]),
         o2.sends = IF t = At("ready", "run") THEN o.sends + 1 ELSE o.sends
  PROVE  Good(d, k) /\ Fits(e, d, k, t, o2, n)
<1> DEFINE z == [c EXCEPT !.tx = "none"]
<1>0. Reached("ready") = Reached("send") /\ Reached("failed") = Reached("send") /\ o.sends \in Nat
  BY DEF Reached, Ops
<1>1. CASE d = c /\ t = At("ready", "run")
  <2>1. t.pc = "ready" /\ t.phase = "run" /\ t.call = NoCall /\ o2.sends <= Len(Sends[e][n])
    BY <1>0, <1>1 DEF At
  <2> QED
    BY <1>0, <1>1, <2>1 DEF Fits
<1>2. CASE d = c /\ t = At("failed", "run") /\ o2 = o
  <2>1. t.pc = "failed" /\ t.phase = "run" /\ t.call = NoCall /\ o.sends <= Len(Sends[e][n])
    BY <1>0, <1>2 DEF At
  <2> QED
    BY <1>0, <1>2, <2>1 DEF Fits
<1>3. CASE SentOn(e, z, o, d, t, o2)
  <2>1. z \in Conns /\ z.state = c.state
    BY DEF Conns, Events
  <2>2. Good(z, k)
    BY DEF Good, Known, Fins, RxSleeps
  <2> HIDE DEF z
  <2>3. t # At("ready", "run")
    BY <1>3 DEF SentOn, Sending, At
  <2> QED
    BY <1>3, <2>1, <2>2, <2>3, SentOnFits
<1> QED
  BY <1>1, <1>2, <1>3 DEF Looped

\* The script of an opened end.
LEMMA ScriptIs ==
  ASSUME NEW e \in Ends, NEW n \in 1 .. MaxOpens
  PROVE  /\ Sends[e][n] \in Seq(Nat \ {0}) /\ Len(Sends[e][n]) \in Nat
         /\ \A i \in 1 .. Len(Sends[e][n]) : Sends[e][n][i] \in Nat \ {0}
BY Constants

LEMMA SendLoopKeeps ==
  ASSUME Sane, NEW e \in Ends, NEW c \in Conns, NEW o \in Ops, Keeps(conn[e], c), SendLoop(e, c, o),
         o.sends = op[e].sends, task[e].tx.pc \in {"ready", "send"}, op[e].sends < Len(Sends[e][opens[e]]),
         UNCHANGED <<net, got, opens, fails>>, faults' \in 0 .. MaxFaults
  PROVE  Sane'
<1> DEFINE k == task[e]
           n == opens[e]
<1>1. k \in Teams /\ Fine(e, conn[e], k, op[e], n) /\ opens[e] \in 0 .. MaxOpens /\ op[e] \in Ops
  BY TxSane
<1>2. n >= 1 /\ n \in 1 .. MaxOpens
  BY <1>1, Constants DEF Fine, Counts
<1>3. Len(Sends[e][n]) \in Nat /\ Len(Script(e)) \in Nat /\ \A i \in 1 .. Len(Script(e)) : Script(e)[i] \in Nat \ {0}
  BY <1>2, ScriptIs DEF Script
<1>4. Good(c, k)
  BY <1>1, KeepsGood
<1>5. c.state \in Reached("send")
  BY <1>1 DEF Fine, Stages, Reached, Keeps, SameWho
<1>6. PICK d \in Conns, t \in Txs, o2 \in Ops :
         /\ o2.sends = IF t = At("ready", "run") THEN o.sends + 1 ELSE o.sends
         /\ Looped(e, c, o, d, t, o2) /\ Set(e, d, t, o2) /\ Credited(e, t, o)
  BY SendLoopDoes
<1>7. Good(d, k) /\ Fits(e, d, k, t, o2, n)
  BY <1>2, <1>3, <1>4, <1>5, <1>6, LoopFits
<1>8. acked' \in [Ends -> Nat]
  <2>1. o.sends + 1 \in 1 .. Len(Script(e))
    <3>1. o.sends \in Nat /\ o.sends < Len(Script(e))
      BY DEF Ops, Script
    <3> QED
      BY <1>3, <3>1
  <2>2. Script(e)[o.sends + 1] \in Nat /\ acked \in [Ends -> Nat]
    BY <2>1, <1>3 DEF Sane, Typed
  <2> QED
    BY <1>6, <2>2 DEF Credited
<1> QED
  BY <1>6, <1>7, <1>8, TxFrame

LEMMA SendMoreKeeps ==
  ASSUME Sane, NEW e \in Ends, NEW c \in Conns, Keeps(conn[e], c), SendMore(e, c, op[e]),
         task[e].tx.pc = "send", UNCHANGED <<net, got, opens, fails, acked>>, faults' \in 0 .. MaxFaults
  PROVE  Sane'
<1> DEFINE k == task[e]
           n == opens[e]
<1>1. k \in Teams /\ Fine(e, conn[e], k, op[e], n) /\ op[e] \in Ops
  BY TxSane
<1>2. n >= 1 /\ op[e].sends < Len(Sends[e][n])
  BY <1>1 DEF Fine, Counts
<1>4. Good(c, k)
  BY <1>1, KeepsGood
<1>5. c.state \in Reached("send")
  BY <1>1 DEF Fine, Stages, Keeps, SameWho
<1>6. PICK d \in Conns, t \in Txs, o2 \in Ops :
         o2.sends = op[e].sends /\ SentOn(e, c, op[e], d, t, o2) /\ Set(e, d, t, o2)
  BY <1>1, SendMoreDoes
<1>7. Good(d, k) /\ Fits(e, d, k, t, o2, n)
  BY <1>2, <1>4, <1>5, <1>6, SentOnFits
<1>8. acked' \in [Ends -> Nat]
  BY DEF Sane, Typed
<1> QED
  BY <1>6, <1>7, <1>8, TxFrame

LEMMA FailedKeeps ==
  ASSUME Sane, NEW e \in Ends, NEW c \in Conns, Keeps(conn[e], c), Set(e, c, At("failed", "run"), op[e]),
         task[e].tx.pc \in {"ready", "send"}, UNCHANGED <<net, got, opens, fails, acked>>, faults' \in 0 .. MaxFaults
  PROVE  Sane'
<1> DEFINE k == task[e]
           n == opens[e]
           t == At("failed", "run")
<1>1. k \in Teams /\ Fine(e, conn[e], k, op[e], n) /\ op[e] \in Ops /\ n \in 0 .. MaxOpens
  BY TxSane
<1>2. n >= 1 /\ n \in 1 .. MaxOpens
  BY <1>1, Constants DEF Fine, Counts
<1>3. op[e].sends <= Len(Sends[e][n])
  BY <1>1, <1>2, ScriptIs DEF Fine, Counts, Ops
<1>4. Good(c, k)
  BY <1>1, KeepsGood
<1>5. c.state \in Reached("failed")
  BY <1>1 DEF Fine, Stages, Reached, Keeps, SameWho
<1>6. t \in Txs /\ t.pc = "failed" /\ t.phase = "run" /\ t.call = NoCall
  BY AtIs DEF TxPcs
<1> HIDE DEF t
<1>7. Fits(e, c, k, t, op[e], n)
  BY <1>2, <1>3, <1>5, <1>6 DEF Fits
<1>8. acked' \in [Ends -> Nat]
  BY DEF Sane, Typed
<1> QED
  BY <1>1, <1>4, <1>6, <1>7, <1>8, TxFrame DEF t

LEMMA SendKeeps ==
  ASSUME Sane, NEW e \in Ends, Send(e)
  PROVE  Sane'
<1> DEFINE c == [conn[e] EXCEPT !.retries = 0]
           m == Script(e)[op[e].sends + 1]
           o == [op[e] EXCEPT !.base = c.nxt, !.end = Add(c.nxt, m)]
<1>1. conn[e] \in Conns /\ op[e] \in Ops /\ Fine(e, conn[e], task[e], op[e], opens[e]) /\ opens[e] \in 0 .. MaxOpens
  BY TxSane
<1>2. /\ task[e].tx.pc = "ready" /\ op[e].sends < Len(Script(e))
      /\ UNCHANGED <<net, got, opens, faults, fails>> /\ faults' \in 0 .. MaxFaults
  BY DEF Send, Sane, Typed
<1>3. opens[e] \in 1 .. MaxOpens
  BY <1>1, <1>2, Constants DEF Fine, Counts
<1>4. m \in Nat /\ m >= 0
  <2>1. Len(Script(e)) \in Nat /\ \A i \in 1 .. Len(Script(e)) : Script(e)[i] \in Nat \ {0}
    BY <1>3, ScriptIs DEF Script
  <2>2. op[e].sends + 1 \in 1 .. Len(Script(e))
    BY <1>1, <1>2, <2>1 DEF Ops
  <2> QED
    BY <2>1, <2>2
<1> HIDE DEF m
<1>5. CASE Usable(c)
  <2>1. SendLoop(e, c, o)
    BY <1>5 DEF Send, m
  <2>2. c \in Conns /\ Keeps(conn[e], c) /\ c.nxt \in SeqNums
    BY <1>1 DEF Conns, Keeps, SameWho, SameRcv
  <2>3. Add(c.nxt, m) \in SeqNums
    BY <2>2, <1>4, AddNum
  <2>4. o \in Ops /\ o.sends = op[e].sends
    BY <1>1, <2>2, <2>3 DEF Ops
  <2> HIDE DEF c, o
  <2> QED
    BY <1>2, <2>1, <2>2, <2>4, SendLoopKeeps DEF Script
<1>6. CASE ~Usable(c)
  <2>1. Set(e, conn[e], At("failed", "run"), op[e]) /\ UNCHANGED acked
    BY <1>6 DEF Send
  <2>2. Keeps(conn[e], conn[e])
    BY DEF Keeps, SameWho, SameRcv
  <2> QED
    BY <1>1, <1>2, <2>1, <2>2, FailedKeeps
<1> QED
  BY <1>5, <1>6

LEMMA SendSentKeeps ==
  ASSUME Sane, NEW e \in Ends, SendSent(e)
  PROVE  Sane'
<1> DEFINE c == [conn[e] EXCEPT !.nxt = Add(@, op[e].count)]
<1>1. conn[e] \in Conns /\ op[e] \in Ops
  BY TxSane
<1>2. task[e].tx.pc = "send" /\ UNCHANGED <<net, got, opens, faults, fails, acked>> /\ faults' \in 0 .. MaxFaults
  BY DEF SendSent, Returned, Stay, Sane, Typed
<1>3. conn[e].nxt \in SeqNums /\ op[e].count \in Nat
  BY <1>1 DEF Conns, Ops
<1>4. Add(conn[e].nxt, op[e].count) \in SeqNums
  BY <1>3, AddNum
<1>5. c \in Conns /\ Keeps(conn[e], c)
  BY <1>1, <1>4 DEF Conns, Keeps, SameWho, SameRcv
<1>6. SendMore(e, c, op[e]) \/ Set(e, conn[e], At("failed", "run"), op[e])
  BY DEF SendSent
<1>7. Keeps(conn[e], conn[e])
  BY DEF Keeps, SameWho, SameRcv
<1> HIDE DEF c
<1> QED
  BY <1>1, <1>2, <1>5, <1>6, <1>7, SendMoreKeeps, FailedKeeps

LEMMA SendWakeKeeps ==
  ASSUME Sane, NEW e \in Ends, SendWake(e)
  PROVE  Sane'
<1> DEFINE c == [Resumed(e) EXCEPT !.retries = 0]
<1>1. conn[e] \in Conns /\ op[e] \in Ops /\ Fine(e, conn[e], task[e], op[e], opens[e])
  BY TxSane
<1>2. task[e].tx.pc = "send" /\ faults' \in 0 .. MaxFaults /\ UNCHANGED <<net, got, opens, fails>> /\ SendLoop(e, c, op[e])
  BY WaitFaults DEF SendWake
<1>3. op[e].sends < Len(Sends[e][opens[e]])
  BY <1>1, <1>2 DEF Fine, Counts
<1>4. Resumed(e) \in Conns /\ Keeps(conn[e], Resumed(e))
  BY <1>1, ResumedIs
<1>5. c \in Conns /\ Keeps(conn[e], c)
  BY <1>4 DEF Conns, Keeps, SameWho, SameRcv
<1> HIDE DEF c
<1> QED
  BY <1>1, <1>2, <1>3, <1>5, SendLoopKeeps

LEMMA SendTimeoutKeeps ==
  ASSUME Sane, NEW e \in Ends, SendTimeout(e)
  PROVE  Sane'
<1> DEFINE r == Resumed(e)
           c == [r EXCEPT !.retries = IF conn[e].wnd # 0 THEN @ + 1 ELSE @]
           z == [c EXCEPT !.nxt = c.una]
<1>1. conn[e] \in Conns /\ op[e] \in Ops /\ Fine(e, conn[e], task[e], op[e], opens[e])
  BY TxSane
<1>2. task[e].tx.pc = "send" /\ faults' \in 0 .. MaxFaults /\ UNCHANGED <<net, got, opens, fails>>
  BY WaitFaults DEF SendTimeout
<1>3. op[e].sends < Len(Sends[e][opens[e]])
  BY <1>1, <1>2 DEF Fine, Counts
<1>4. r \in Conns /\ Keeps(conn[e], r)
  BY <1>1, ResumedIs
<1>6. (Set(e, c, At("failed", "run"), op[e]) /\ UNCHANGED acked) \/ SendLoop(e, z, op[e])
  BY DEF SendTimeout
<1> HIDE DEF r
<1>5. c \in Conns /\ Keeps(conn[e], c)
  BY <1>4 DEF Conns, Keeps, SameWho, SameRcv
<1> HIDE DEF c
<1>7. z \in Conns /\ Keeps(conn[e], z)
  BY <1>5 DEF Conns, Keeps, SameWho, SameRcv
<1> HIDE DEF z
<1> QED
  BY <1>1, <1>2, <1>3, <1>5, <1>6, <1>7, SendLoopKeeps, FailedKeeps

(* ---- close() and abort() ---- *)

\* What a turn of the loop of close() leaves.
ClosedOn(c, o, d, t) ==
  \/ Unacked(c) /\ d = [c EXCEPT !.tx = "none"] /\ t = Sending("close", Call({"F", "A"}, o.fin, <<>>))
  \/ Unacked(c) /\ d = c /\ t = At("abort", "run")
  \/ /\ ~Unacked(c) /\ c.state = "FinWait2" /\ t = At("finwait", "wait")
     /\ Keeps(c, d) /\ SameSnd(c, d) /\ d.tx = "waiting"
  \/ ~Unacked(c) /\ c.state # "FinWait2" /\ d = c /\ t = At("done", "idle")

LEMMA CloseLoopDoes ==
  ASSUME NEW e \in Ends, NEW c \in Conns, NEW o \in Ops, NEW give_up \in BOOLEAN, CloseLoop(e, c, o, give_up)
  PROVE  \E d \in Conns, t \in Txs : ClosedOn(c, o, d, t) /\ Set(e, d, t, o)
<1> DEFINE z == [c EXCEPT !.tx = "none"]
           w == [z EXCEPT !.tx = Await(@)]
           k == Call({"F", "A"}, o.fin, <<>>)
<1>1. At("abort", "run") \in Txs /\ At("finwait", "wait") \in Txs /\ At("done", "idle") \in Txs
  BY AtIs DEF TxPcs
<1>2. z \in Conns /\ Keeps(c, z) /\ SameSnd(c, z) /\ z.tx = "none"
  BY DEF Conns, Events, Keeps, SameWho, SameRcv, SameSnd
<1>3. o.fin \in SeqNums
  BY DEF Ops
<1>4. k \in Calls /\ k # NoCall
  BY <1>3, ControlCalls
<1> HIDE DEF k
<1>5. Sending("close", k) \in Txs
  BY <1>4, SendingIs DEF TxPcs
<1>6. CASE Unacked(c) /\ ~give_up
  <2>1. Set(e, z, Sending("close", k), o)
    BY <1>6 DEF CloseLoop, k
  <2>2. ClosedOn(c, o, z, Sending("close", k))
    BY <1>6 DEF ClosedOn, k
  <2> QED
    BY <1>2, <1>5, <2>1, <2>2
<1>7. CASE Unacked(c) /\ give_up
  <2>1. Set(e, c, At("abort", "run"), o)
    BY <1>7 DEF CloseLoop
  <2>2. ClosedOn(c, o, c, At("abort", "run"))
    BY <1>7 DEF ClosedOn
  <2> QED
    BY <1>1, <2>1, <2>2
<1>8. CASE ~Unacked(c) /\ c.state = "FinWait2"
  <2>1. Set(e, w, At("finwait", "wait"), o)
    BY <1>8 DEF CloseLoop, WaitTx
  <2> HIDE DEF z
  <2>2. w \in Conns /\ Keeps(z, w) /\ SameSnd(z, w) /\ w.tx = "waiting"
    BY <1>2, AwaitIs
  <2> HIDE DEF w
  <2>3. Keeps(c, w) /\ SameSnd(c, w)
    BY <1>2, <2>2, KeepsKeeps, SndSnd
  <2>4. ClosedOn(c, o, w, At("finwait", "wait"))
    BY <1>8, <2>2, <2>3 DEF ClosedOn
  <2> QED
    BY <1>1, <2>1, <2>2, <2>4
<1>9. CASE ~Unacked(c) /\ c.state # "FinWait2"
  <2>1. Set(e, c, At("done", "idle"), o)
    BY <1>9 DEF CloseLoop
  <2>2. ClosedOn(c, o, c, At("done", "idle"))
    BY <1>9 DEF ClosedOn
  <2> QED
    BY <1>1, <2>1, <2>2
<1> QED
  BY <1>6, <1>7, <1>8, <1>9

LEMMA CloseFits ==
  ASSUME NEW e, NEW c \in Conns, NEW d, NEW k, NEW t \in Txs, NEW o, NEW n,
         Good(c, k), ClosedOn(c, o, d, t), c.state \in Late, n >= 1
  PROVE  Good(d, k) /\ Fits(e, d, k, t, o, n)
<1>0. \A p \in {"close", "abort", "finwait", "done"} : Reached(p) = Late
  BY DEF Reached
<1>1. CASE d = [c EXCEPT !.tx = "none"] /\ t = Sending("close", Call({"F", "A"}, o.fin, <<>>))
  <2>1. t.pc = "close" /\ t.phase = "call" /\ t.call = Call({"F", "A"}, o.fin, <<>>)
    BY <1>1 DEF Sending, At
  <2>2. t.call # NoCall
    BY <2>1 DEF Call, NoCall
  <2>3. d.state = c.state /\ Good(d, k)
    BY <1>1 DEF Good, Known, Fins, RxSleeps, Conns
  <2> QED
    BY <1>0, <2>1, <2>2, <2>3 DEF Fits
<1>2. CASE d = c /\ t = At("abort", "run")
  <2>1. t.pc = "abort" /\ t.phase = "run" /\ t.call = NoCall
    BY <1>2 DEF At
  <2> QED
    BY <1>0, <1>2, <2>1 DEF Fits
<1>3. CASE t = At("finwait", "wait") /\ Keeps(c, d) /\ d.tx = "waiting"
  <2>1. t.pc = "finwait" /\ t.phase = "wait" /\ t.call = NoCall
    BY <1>3 DEF At
  <2>2. d.state = c.state /\ Good(d, k)
    BY <1>3 DEF Good, Known, Fins, RxSleeps, Keeps, SameWho, SameRcv
  <2> QED
    BY <1>0, <1>3, <2>1, <2>2 DEF Fits
<1>4. CASE d = c /\ t = At("done", "idle")
  <2>1. t.pc = "done" /\ t.phase = "idle" /\ t.call = NoCall
    BY <1>4 DEF At
  <2> QED
    BY <1>0, <1>4, <2>1 DEF Fits
<1> QED
  BY <1>1, <1>2, <1>3, <1>4 DEF ClosedOn

\* A step of close() that goes on with c.
LEMMA CloseLoopKeeps ==
  ASSUME Sane, NEW e \in Ends, NEW c \in Conns, NEW o \in Ops, NEW give_up \in BOOLEAN, CloseLoop(e, c, o, give_up),
         Good(c, task[e]), c.state \in Late, opens[e] >= 1,
         UNCHANGED <<net, got, acked, opens, fails>>, faults' \in 0 .. MaxFaults
  PROVE  Sane'
<1>1. PICK d \in Conns, t \in Txs : ClosedOn(c, o, d, t) /\ Set(e, d, t, o)
  BY CloseLoopDoes
<1>2. Good(d, task[e]) /\ Fits(e, d, task[e], t, o, opens[e])
  BY <1>1, CloseFits
<1>3. acked' \in [Ends -> Nat]
  BY DEF Sane, Typed
<1> QED
  BY <1>1, <1>2, <1>3, TxFrame

\* A step of close() or abort() that leaves the Conn as d and its task at t.
LEMMA LateKeeps ==
  ASSUME Sane, NEW e \in Ends, NEW d \in Conns, NEW t \in Txs, Set(e, d, t, op[e]), Good(d, task[e]), d.state \in Late,
         \/ t.pc \in {"close", "finwait"} /\ t.phase = "wait" /\ t.call = NoCall /\ d.tx \in {"waiting", "woken"}
         \/ t.pc = "abort" /\ t.phase = "run" /\ t.call = NoCall
         \/ t.pc = "abort" /\ t.phase = "call" /\ t.call # NoCall
         \/ t.pc = "done" /\ t.phase = "idle" /\ t.call = NoCall,
         opens[e] >= 1, UNCHANGED <<net, got, acked, opens, fails>>, faults' \in 0 .. MaxFaults
  PROVE  Sane'
<1>1. acked' \in [Ends -> Nat] /\ op[e] \in Ops
  BY TxSane DEF Sane, Typed
<1>2. \A p \in {"close", "abort", "finwait", "done"} : Reached(p) = Late
  BY DEF Reached
<1>3. Fits(e, d, task[e], t, op[e], opens[e])
  BY <1>2 DEF Fits
<1> QED
  BY <1>1, <1>3, TxFrame

\* What the application's task knows when it closes.
LEMMA LateIs ==
  ASSUME Sane, NEW e \in Ends, task[e].tx.pc \in {"close", "finwait", "abort"}
  PROVE  conn[e].state \in Late /\ opens[e] >= 1
BY TxSane DEF Fine, Stages, Reached, Counts

LEMMA CloseKeeps ==
  ASSUME Sane, NEW e \in Ends, Close(e)
  PROVE  Sane'
<1> DEFINE c == conn[e]
           k == task[e]
           d == [c EXCEPT !.nxt = Add(@, 1), !.retries = 0, !.state = IF @ = "Established" THEN "FinWait1" ELSE "LastAck"]
           o == [op[e] EXCEPT !.fin = c.nxt]
<1>1. c \in Conns /\ op[e] \in Ops /\ k \in Teams /\ Fine(e, c, k, op[e], opens[e])
  BY TxSane
<1>2. k.tx.pc \in {"ready", "failed"} /\ UNCHANGED <<net, got, acked, opens, fails, faults>> /\ faults' \in 0 .. MaxFaults
  BY DEF Close, Stay, Sane, Typed
<1>3. c.state \in {"Established", "CloseWait", "Closed"} /\ opens[e] >= 1
  BY <1>1, <1>2 DEF Fine, Stages, Reached, Counts
<1>4. CASE Usable(c)
  <2>1. CloseLoop(e, d, o, FALSE)
    BY <1>4 DEF Close
  <2>2. c.nxt \in SeqNums
    BY <1>1 DEF Conns
  <2>3. Add(c.nxt, 1) \in SeqNums
    BY <2>2, AddNum
  <2>4. o \in Ops
    BY <1>1, <2>2 DEF Ops
  <2>5. /\ d \in Conns /\ d.bound = c.bound /\ SameRcv(c, d) /\ d.rx = c.rx
        /\ d.state = IF c.state = "Established" THEN "FinWait1" ELSE "LastAck"
    BY <1>1, <2>3 DEF Conns, States, SameRcv
  <2> HIDE DEF d, o
  <2>6. d.state \in Late
    BY <2>5 DEF Late
  <2>7. Good(d, k)
    BY <1>1, <1>4, <2>5 DEF Fine, Stages, Fins, Sleeps, Good, RxSleeps, SameRcv, Known, PastFin, Usable
  <2> QED
    BY <1>2, <1>3, <2>1, <2>4, <2>5, <2>6, <2>7, CloseLoopKeeps
<1>5. CASE ~Usable(c)
  <2>1. c.state = "Closed"
    BY <1>3, <1>5 DEF Usable
  <2>2. Set(e, c, At("done", "idle"), op[e])
    BY <1>5, <2>1 DEF Close
  <2>3. Good(c, k)
    BY <1>1, KeepsGood DEF Keeps, SameWho, SameRcv
  <2>4. At("done", "idle") \in Txs /\ At("done", "idle").pc = "done" /\ At("done", "idle").phase = "idle" /\ At("done", "idle").call = NoCall
    BY AtIs DEF TxPcs
  <2>5. c.state \in Late
    BY <2>1 DEF Late
  <2> QED
    BY <1>1, <1>2, <1>3, <2>2, <2>3, <2>4, <2>5, LateKeeps
<1> QED
  BY <1>4, <1>5

LEMMA CloseSentKeeps ==
  ASSUME Sane, NEW e \in Ends, CloseSent(e)
  PROVE  Sane'
<1> DEFINE c == conn[e]
           k == task[e]
           w == [c EXCEPT !.tx = Await(@)]
           t == At("close", "wait")
<1>1. c \in Conns /\ op[e] \in Ops /\ k \in Teams /\ Fine(e, c, k, op[e], opens[e]) /\ k.tx \in Txs
  BY TxSane
<1>2. k.tx.pc = "close" /\ UNCHANGED <<net, got, acked, opens, fails, faults>> /\ faults' \in 0 .. MaxFaults
  BY DEF CloseSent, Returned, Stay, Sane, Typed
<1>3. c.state \in Late /\ opens[e] >= 1
  BY <1>2, LateIs
<1>4. Good(c, k)
  BY <1>1, KeepsGood DEF Keeps, SameWho, SameRcv
<1>5. Set(e, w, t, op[e]) \/ CloseLoop(e, c, op[e], TRUE)
  BY DEF CloseSent, WaitTx
<1>6. CASE Set(e, w, t, op[e])
  <2>1. w \in Conns /\ Keeps(c, w) /\ w.tx \in {"waiting", "woken"}
    BY <1>1, AwaitIs
  <2>2. t \in Txs /\ t.pc = "close" /\ t.phase = "wait" /\ t.call = NoCall
    BY AtIs DEF TxPcs
  <2> HIDE DEF w, t
  <2>3. Good(w, k) /\ w.state \in Late
    BY <1>1, <1>3, <2>1, KeepsGood DEF Keeps, SameWho
  <2> QED
    BY <1>2, <1>3, <1>6, <2>1, <2>2, <2>3, LateKeeps
<1>7. CASE CloseLoop(e, c, op[e], TRUE)
  BY <1>1, <1>2, <1>3, <1>4, <1>7, CloseLoopKeeps
<1> QED
  BY <1>5, <1>6, <1>7

LEMMA CloseWakeKeeps ==
  ASSUME Sane, NEW e \in Ends, CloseWake(e)
  PROVE  Sane'
<1> DEFINE r == Resumed(e)
<1>1. conn[e] \in Conns /\ op[e] \in Ops /\ Fine(e, conn[e], task[e], op[e], opens[e])
  BY TxSane
<1>2. task[e].tx.pc = "close" /\ faults' \in 0 .. MaxFaults /\ UNCHANGED <<net, got, acked, opens, fails>> /\ CloseLoop(e, r, op[e], FALSE)
  BY WaitFaults DEF CloseWake, Stay
<1>3. conn[e].state \in Late /\ opens[e] >= 1
  BY <1>2, LateIs
<1>4. r \in Conns /\ Keeps(conn[e], r)
  BY <1>1, ResumedIs
<1> HIDE DEF r
<1>5. Good(r, task[e]) /\ r.state \in Late
  BY <1>1, <1>3, <1>4, KeepsGood DEF Keeps, SameWho
<1> QED
  BY <1>1, <1>2, <1>3, <1>4, <1>5, CloseLoopKeeps

LEMMA CloseTimeoutKeeps ==
  ASSUME Sane, NEW e \in Ends, CloseTimeout(e)
  PROVE  Sane'
<1> DEFINE r == Resumed(e)
           c == [r EXCEPT !.retries = @ + 1]
           g == c.retries > MaxRetx
<1>1. conn[e] \in Conns /\ op[e] \in Ops /\ Fine(e, conn[e], task[e], op[e], opens[e])
  BY TxSane
<1>2. task[e].tx.pc = "close" /\ faults' \in 0 .. MaxFaults /\ UNCHANGED <<net, got, acked, opens, fails>> /\ CloseLoop(e, c, op[e], g)
  BY WaitFaults DEF CloseTimeout, Stay
<1>3. conn[e].state \in Late /\ opens[e] >= 1
  BY <1>2, LateIs
<1>4. r \in Conns /\ Keeps(conn[e], r)
  BY <1>1, ResumedIs
<1> HIDE DEF r
<1>5. c \in Conns /\ Keeps(r, c)
  BY <1>4 DEF Conns, Keeps, SameWho, SameRcv
<1>6. g \in BOOLEAN
  OBVIOUS
<1> HIDE DEF c, g
<1>7. Keeps(conn[e], c)
  BY <1>4, <1>5, KeepsKeeps
<1>8. Good(c, task[e]) /\ c.state \in Late
  BY <1>1, <1>3, <1>7, KeepsGood DEF Keeps, SameWho
<1> QED
  BY <1>1, <1>2, <1>3, <1>5, <1>6, <1>8, CloseLoopKeeps

LEMMA FinWaitOverKeeps ==
  ASSUME Sane, NEW e \in Ends, FinWaitOver(e)
  PROVE  Sane'
<1> DEFINE r == Resumed(e)
           t == IF conn[e].state = "FinWait2" THEN At("abort", "run") ELSE At("done", "idle")
<1>1. conn[e] \in Conns /\ op[e] \in Ops /\ Fine(e, conn[e], task[e], op[e], opens[e])
  BY TxSane
<1>2. task[e].tx.pc = "finwait" /\ faults' \in 0 .. MaxFaults /\ UNCHANGED <<net, got, acked, opens, fails>> /\ Set(e, r, t, op[e])
  BY WaitFaults DEF FinWaitOver, Stay
<1>3. conn[e].state \in Late /\ opens[e] >= 1
  BY <1>2, LateIs
<1>4. r \in Conns /\ Keeps(conn[e], r)
  BY <1>1, ResumedIs
<1>5. t \in Txs /\ t.call = NoCall /\ ((t.pc = "abort" /\ t.phase = "run") \/ (t.pc = "done" /\ t.phase = "idle"))
  BY AtIs DEF TxPcs
<1> HIDE DEF r, t
<1>6. Good(r, task[e]) /\ r.state \in Late
  BY <1>1, <1>3, <1>4, KeepsGood DEF Keeps, SameWho
<1> QED
  BY <1>1, <1>2, <1>3, <1>4, <1>5, <1>6, LateKeeps

LEMMA AbortKeeps ==
  ASSUME Sane, NEW e \in Ends, Abort(e)
  PROVE  Sane'
<1> DEFINE c == conn[e]
           r == ResetConn(c)
           q == Call({"R", "A"}, c.nxt, <<>>)
           s == Sending("abort", q)
           t == At("done", "idle")
<1>1. c \in Conns /\ op[e] \in Ops /\ Fine(e, c, task[e], op[e], opens[e])
  BY TxSane
<1>2. task[e].tx.pc = "abort" /\ UNCHANGED <<net, got, acked, opens, fails, faults>> /\ faults' \in 0 .. MaxFaults
  BY DEF Abort, Stay, Sane, Typed
<1>3. c.state \in Late /\ opens[e] >= 1
  BY <1>2, LateIs
<1>4. Set(e, r, t, op[e]) \/ Set(e, c, s, op[e])
  BY DEF Abort
<1>5. r \in Conns /\ r.state = "Closed" /\ Good(r, task[e])
  BY <1>1, ResetIs, ResetGood
<1>6. Good(c, task[e])
  BY <1>1, KeepsGood DEF Keeps, SameWho, SameRcv
<1>7. c.nxt \in SeqNums
  BY <1>1 DEF Conns
<1>8. q \in Calls /\ q # NoCall
  BY <1>7, ControlCalls
<1> HIDE DEF q
<1>9. s \in Txs /\ s.pc = "abort" /\ s.phase = "call" /\ s.call # NoCall
  BY <1>8, SendingIs DEF TxPcs
<1>10. t \in Txs /\ t.pc = "done" /\ t.phase = "idle" /\ t.call = NoCall
  BY AtIs DEF TxPcs
<1> HIDE DEF r, s, t
<1>11. r.state \in Late
  BY <1>5 DEF Late
<1> QED
  BY <1>1, <1>2, <1>3, <1>4, <1>5, <1>6, <1>9, <1>10, <1>11, LateKeeps

LEMMA AbortSentKeeps ==
  ASSUME Sane, NEW e \in Ends, AbortSent(e)
  PROVE  Sane'
<1> DEFINE c == conn[e]
           r == ResetConn(c)
           t == At("done", "idle")
<1>1. c \in Conns /\ op[e] \in Ops /\ Fine(e, c, task[e], op[e], opens[e])
  BY TxSane
<1>2. task[e].tx.pc = "abort" /\ UNCHANGED <<net, got, acked, opens, fails, faults>> /\ faults' \in 0 .. MaxFaults
      /\ Set(e, r, t, op[e])
  BY DEF AbortSent, Returned, Stay, Sane, Typed
<1>3. opens[e] >= 1
  BY <1>2, LateIs
<1>5. r \in Conns /\ r.state = "Closed" /\ Good(r, task[e])
  BY <1>1, ResetIs, ResetGood
<1>10. t \in Txs /\ t.pc = "done" /\ t.phase = "idle" /\ t.call = NoCall
  BY AtIs DEF TxPcs
<1> HIDE DEF r, t
<1>11. r.state \in Late
  BY <1>5 DEF Late
<1> QED
  BY <1>1, <1>2, <1>3, <1>5, <1>10, <1>11, LateKeeps

(* ---- The openings, and the ends of connect() and accept(). ---- *)
LEMMA OpenFrame ==
  ASSUME Sane, NEW e \in Ends, MayOpen(e), NEW d \in Conns, NEW t \in Txs, NEW o \in Ops, Set(e, d, t, o),
         opens' = [opens EXCEPT ![e] = @ + 1], got' = [got EXCEPT ![e] = <<>>], acked' = [acked EXCEPT ![e] = 0],
         UNCHANGED <<net, faults, fails>>, d.bound, ~d.fin, o.sends = 0,
         \/ d.state = "SynSent" /\ t.pc = "connect" /\ t.phase = "call" /\ t.call # NoCall
         \/ d.state = "Listen" /\ t.pc = "accept" /\ t.phase = "run" /\ t.call = NoCall
  PROVE  Sane'
<1> DEFINE n == opens[e]
<1>1. task[e] \in Teams /\ n \in Nat /\ n < MaxOpens /\ Fine(e, conn[e], task[e], op[e], n) /\ task[e].rx.pc \in {"off", "eof", "error"}
  BY TxSane, Constants DEF MayOpen
<1>2. /\ conn' \in [Ends -> Conns] /\ task' \in [Ends -> Teams] /\ conn'[e] = d
      /\ task'[e].tx = t /\ task'[e].in = task[e].in /\ task'[e].rx = task[e].rx
      /\ \A x \in Ends \ {e} : conn'[x] = conn[x] /\ task'[x] = task[x]
  BY TxSet DEF Sane, Set
<1>3. op' \in [Ends -> Ops] /\ op'[e] = o /\ \A x \in Ends \ {e} : op'[x] = op[x]
  BY DEF Sane, Typed, Set
<1>4. opens' \in [Ends -> 0 .. MaxOpens] /\ opens'[e] = n + 1 /\ \A x \in Ends \ {e} : opens'[x] = opens[x]
  BY <1>1, Constants DEF Sane, Typed
<1>5. got' \in [Ends -> Seq(Octets)] /\ acked' \in [Ends -> Nat]
  BY DEF Sane, Typed
<1>6. Typed'
  BY <1>2, <1>3, <1>4, <1>5 DEF Sane, Typed
<1>7. Elsewhere(e)
  BY <1>2, <1>3, <1>4 DEF Elsewhere
<1>8. task[e].rx.phase # "wait" /\ n + 1 >= 1
  BY <1>1 DEF Fine, Phases
<1>9. Good(d, task[e])
  BY <1>8 DEF Good, Known, Fins, PastFin, RxSleeps
<1>10. Fits(e, d, task[e], t, o, n + 1)
  BY <1>1, <1>8 DEF Fits, Reached
<1>11. Fine(e, d, task'[e], o, n + 1)
  BY <1>1, <1>2, <1>9, <1>10, FitsFine DEF Fine
<1> QED
  BY <1>2, <1>3, <1>4, <1>6, <1>7, <1>11, LocalStep

LEMMA ConnectKeeps ==
  ASSUME Sane, Connect
  PROVE  Sane'
<1> DEFINE e == "client"
           n == opens[e] + 1
           iss == Iss[e][n]
           r == Reinit(n)
           c == [r EXCEPT !.bound = TRUE, !.una = iss, !.nxt = Add(iss, 1), !.state = "SynSent"]
           k == Call({"S"}, iss, <<>>)
           t == Sending("connect", k)
           o == [op[e] EXCEPT !.base = iss, !.tries = 0, !.sends = 0]
<1>0. e \in Ends
  BY DEF Ends
<1>1. /\ MayOpen(e) /\ Set(e, c, t, o) /\ opens' = [opens EXCEPT ![e] = @ + 1]
      /\ got' = [got EXCEPT ![e] = <<>>] /\ acked' = [acked EXCEPT ![e] = 0] /\ UNCHANGED <<net, faults, fails>>
  BY DEF Connect
<1>2. op[e] \in Ops /\ opens[e] \in Nat /\ opens[e] < MaxOpens
  BY <1>0, <1>1, TxSane, Constants DEF MayOpen
<1>3. n \in 1 .. MaxOpens /\ n \in 0 .. MaxOpens
  BY <1>2, Constants
<1>4. iss \in SeqNums
  BY <1>0, <1>3, Constants
<1> HIDE DEF iss, n, e
<1>5. Add(iss, 1) \in SeqNums
  BY <1>4, AddNum
<1>6. r \in Conns /\ r.fin = FALSE
  <2>1. 0 \in SeqNums /\ 0 \in 0 .. RxBufferSize
    BY Space, Constants DEF SeqNums
  <2>2. <<>> \in Rings
    BY Constants DEF Rings
  <2> QED
    BY <1>3, <2>1, <2>2 DEF Reinit, Conns, States, Events
<1> HIDE DEF r
<1>7. c \in Conns /\ c.bound /\ ~c.fin /\ c.state = "SynSent"
  BY <1>4, <1>5, <1>6 DEF Conns, States
<1>8. k \in Calls /\ k # NoCall
  BY <1>4, ControlCalls
<1> HIDE DEF k
<1>9. t \in Txs /\ t.pc = "connect" /\ t.phase = "call" /\ t.call # NoCall
  BY <1>8, SendingIs DEF TxPcs
<1>10. o \in Ops /\ o.sends = 0
  BY <1>2, <1>4 DEF Ops
<1> HIDE DEF c, t, o
<1> QED
  BY <1>0, <1>1, <1>7, <1>9, <1>10, OpenFrame

LEMMA ListenKeeps ==
  ASSUME Sane, Listen
  PROVE  Sane'
<1> DEFINE e == "server"
           r == Reinit(0)
           c == [r EXCEPT !.bound = TRUE, !.state = "Listen"]
           t == At("accept", "run")
           o == [op[e] EXCEPT !.sends = 0]
<1>0. e \in Ends
  BY DEF Ends
<1>1. /\ MayOpen(e) /\ Set(e, c, t, o) /\ opens' = [opens EXCEPT ![e] = @ + 1]
      /\ got' = [got EXCEPT ![e] = <<>>] /\ acked' = [acked EXCEPT ![e] = 0] /\ UNCHANGED <<net, faults, fails>>
  BY DEF Listen
<1>2. op[e] \in Ops
  BY <1>0, TxSane
<1> HIDE DEF e
<1>6. r \in Conns /\ r.fin = FALSE
  <2>1. 0 \in SeqNums /\ 0 \in 0 .. RxBufferSize /\ 0 \in 0 .. MaxOpens
    BY Space, Constants DEF SeqNums
  <2>2. <<>> \in Rings
    BY Constants DEF Rings
  <2> QED
    BY <2>1, <2>2 DEF Reinit, Conns, States, Events
<1> HIDE DEF r
<1>7. c \in Conns /\ c.bound /\ ~c.fin /\ c.state = "Listen"
  BY <1>6 DEF Conns, States
<1>9. t \in Txs /\ t.pc = "accept" /\ t.phase = "run" /\ t.call = NoCall
  BY AtIs DEF TxPcs
<1>10. o \in Ops /\ o.sends = 0
  BY <1>2 DEF Ops
<1> HIDE DEF c, t, o
<1> QED
  BY <1>0, <1>1, <1>7, <1>9, <1>10, OpenFrame

\* The connection is open: recv() starts beside the application.
LEMMA ReadyKeeps ==
  ASSUME Sane, NEW e \in Ends, NEW c \in Conns, Keeps(conn[e], c), conn[e].state \in {"Established", "CloseWait"},
         task[e].tx.pc \in {"connect", "accept"}, conn' = [conn EXCEPT ![e] = c],
         task' = [task EXCEPT ![e].tx = At("ready", "run"), ![e].rx = At("recv", "run")],
         UNCHANGED <<op, net, got, acked, opens, fails>>, faults' \in 0 .. MaxFaults
  PROVE  Sane'
<1> DEFINE t == At("ready", "run")
           x == At("recv", "run")
           k == task[e]
<1>1. k \in Teams /\ Fine(e, conn[e], k, op[e], opens[e]) /\ opens[e] \in 0 .. MaxOpens
  BY TxSane
<1>2. t \in Txs /\ t.pc = "ready" /\ t.phase = "run" /\ t.call = NoCall
  BY AtIs DEF TxPcs
<1>3. x \in Rxs /\ x.pc = "recv" /\ x.phase = "run" /\ x.call = NoCall
  BY DEF At, Rxs, Calls
<1>4. task' = [task EXCEPT ![e].tx = t, ![e].rx = x]
  OBVIOUS
<1> HIDE DEF t, x
<1>5. /\ task' \in [Ends -> Teams] /\ task'[e].in = k.in /\ task'[e].tx = t /\ task'[e].rx = x
      /\ \A y \in Ends \ {e} : task'[y] = task[y]
  <2> DEFINE v == [k EXCEPT !.tx = t, !.rx = x]
  <2>1. v \in Teams /\ v.in = k.in /\ v.tx = t /\ v.rx = x
    BY <1>1, <1>2, <1>3 DEF Teams
  <2>2. task' = [task EXCEPT ![e] = v]
    BY <1>4 DEF Sane, Typed
  <2> HIDE DEF v
  <2> QED
    BY <2>1, <2>2 DEF Sane, Typed
<1>6. conn' \in [Ends -> Conns] /\ conn'[e] = c /\ \A y \in Ends \ {e} : conn'[y] = conn[y]
  BY DEF Sane, Typed
<1>7. Typed'
  BY <1>5, <1>6 DEF Sane, Typed
<1>8. Elsewhere(e)
  BY <1>5, <1>6 DEF Elsewhere
<1>9. opens[e] >= 1 /\ opens[e] \in 1 .. MaxOpens /\ op[e].sends = 0
  BY <1>1, Constants DEF Fine, Counts
<1>10. Len(Sends[e][opens[e]]) \in Nat
  BY <1>9, ScriptIs
<1>11. Phases(task'[e])
  BY <1>1, <1>2, <1>3, <1>5 DEF Fine, Phases
<1>12. Stages(c, task'[e]) /\ Fins(c)
  BY <1>1, <1>2, <1>5 DEF Fine, Stages, Fins, Keeps, SameWho, SameRcv, Known, Reached
<1>13. Sleeps(c, task'[e])
  BY <1>2, <1>3, <1>5 DEF Sleeps
<1>14. Counts(e, c, task'[e], op[e], opens[e])
  BY <1>2, <1>5, <1>9, <1>10 DEF Counts
<1> QED
  BY <1>5, <1>6, <1>7, <1>8, <1>11, <1>12, <1>13, <1>14, LocalStep DEF Fine

LEMMA ConnectWakeKeeps ==
  ASSUME Sane, ConnectWake
  PROVE  Sane'
<1> DEFINE e == "client"
           c == Resumed(e)
           k == task[e]
           q == Call({"S"}, op[e].base, <<>>)
           o == [op[e] EXCEPT !.tries = @ + 1]
           closed == At("closed", "run")
<1>0. e \in Ends
  BY DEF Ends
<1>1. /\ conn[e] \in Conns /\ k \in Teams /\ op[e] \in Ops /\ Fine(e, conn[e], k, op[e], opens[e])
      /\ opens[e] \in 0 .. MaxOpens
  BY <1>0, TxSane
<1>2. k.tx.pc = "connect" /\ faults' \in 0 .. MaxFaults /\ UNCHANGED <<net, got, acked, opens, fails>>
  <2>1. Woken(e, "connect") \/ TimedOut(e, "connect")
    BY DEF ConnectWake
  <2>2. UNCHANGED <<net, got, acked, opens, fails>>
    BY DEF ConnectWake, Stay
  <2> QED
    BY <1>0, <2>1, <2>2, WaitFaults
<1>3. k.rx.pc # "recv" /\ opens[e] >= 1 /\ op[e].sends = 0
      /\ conn[e].state \in {"SynSent", "Established", "CloseWait", "Closed"}
  BY <1>1, <1>2 DEF Fine, Stages, Counts, Reached
<1>4. c \in Conns /\ Keeps(conn[e], c) /\ c.state = conn[e].state
  BY <1>1, ResumedIs DEF Keeps, SameWho
<1>5. Good(c, k) /\ acked' \in [Ends -> Nat]
  BY <1>1, <1>2, <1>4, KeepsGood DEF Sane, Typed
<1>6. closed \in Txs /\ closed.pc = "closed" /\ closed.phase = "run" /\ closed.call = NoCall
  BY AtIs DEF TxPcs
<1>7. \/ /\ c.state = "Established"
         /\ task' = [task EXCEPT ![e].tx = At("ready", "run"), ![e].rx = At("recv", "run")]
         /\ conn' = [conn EXCEPT ![e] = c]
         /\ UNCHANGED op
      \/ c.state = "Closed" /\ Set(e, c, closed, op[e])
      \/ c.state \notin {"Established", "Closed"} /\ Set(e, c, Sending("connect", q), o)
      \/ Set(e, Unbind(c), closed, op[e])
  BY DEF ConnectWake
<1> HIDE DEF c, e, closed
<1>8. CASE /\ c.state = "Established"
           /\ task' = [task EXCEPT ![e].tx = At("ready", "run"), ![e].rx = At("recv", "run")]
           /\ conn' = [conn EXCEPT ![e] = c]
           /\ UNCHANGED op
  BY <1>0, <1>2, <1>4, <1>8, ReadyKeeps
<1>9. CASE c.state = "Closed" /\ Set(e, c, closed, op[e])
  <2>1. Fits(e, c, k, closed, op[e], opens[e])
    BY <1>3, <1>6, <1>9 DEF Fits, Reached
  <2> QED
    BY <1>0, <1>1, <1>2, <1>4, <1>5, <1>6, <1>9, <2>1, TxFrame
<1>10. CASE c.state \notin {"Established", "Closed"} /\ Set(e, c, Sending("connect", q), o)
  <2>1. op[e].base \in SeqNums /\ o \in Ops /\ o.sends = 0
    BY <1>1, <1>3 DEF Ops
  <2>2. q \in Calls /\ q # NoCall
    BY <2>1, ControlCalls
  <2> HIDE DEF q, o
  <2>3. LET t == Sending("connect", q) IN t \in Txs /\ t.pc = "connect" /\ t.phase = "call" /\ t.call # NoCall
    BY <2>2, SendingIs DEF TxPcs
  <2>4. Fits(e, c, k, Sending("connect", q), o, opens[e])
    BY <1>3, <1>4, <2>1, <2>3 DEF Fits, Reached
  <2> QED
    BY <1>0, <1>2, <1>4, <1>5, <1>10, <2>1, <2>3, <2>4, TxFrame
<1>11. CASE Set(e, Unbind(c), closed, op[e])
  <2>1. Unbind(c) \in Conns /\ Unbind(c).state = "Closed" /\ ~Unbind(c).bound
    BY <1>4, UnbindIs
  <2>2. k.rx.phase # "wait"
    BY <1>1, <1>3 DEF Fine, Phases
  <2>3. Good(Unbind(c), k)
    BY <2>1, <2>2 DEF Good, Known, Fins, PastFin, RxSleeps
  <2>4. Fits(e, Unbind(c), k, closed, op[e], opens[e])
    BY <1>3, <1>6, <2>1 DEF Fits, Reached
  <2> QED
    BY <1>0, <1>1, <1>2, <1>5, <1>6, <1>11, <2>1, <2>3, <2>4, TxFrame
<1> QED
  BY <1>7, <1>8, <1>9, <1>10, <1>11

LEMMA AcceptKeeps ==
  ASSUME Sane, Accept
  PROVE  Sane'
<1> DEFINE e == "server"
           c == Resumed(e)
           k == task[e]
           w == [c EXCEPT !.tx = Await(@)]
           wait == At("accept", "wait")
           ended == At("ended", "idle")
<1>0. e \in Ends
  BY DEF Ends
<1>1. /\ conn[e] \in Conns /\ k \in Teams /\ op[e] \in Ops /\ Fine(e, conn[e], k, op[e], opens[e])
      /\ opens[e] \in 0 .. MaxOpens
  BY <1>0, TxSane
<1>2. k.tx.pc = "accept" /\ faults' \in 0 .. MaxFaults /\ UNCHANGED <<net, got, acked, opens, fails>>
  <2>1. k.tx.pc = "accept" /\ UNCHANGED <<net, got, acked, opens, fails>> /\ (UNCHANGED faults \/ Woken(e, "accept"))
    BY DEF Accept, Stay
  <2> QED
    BY <1>0, <2>1 DEF Woken, Sane, Typed
<1>3. k.rx.pc # "recv" /\ opens[e] >= 1 /\ op[e].sends = 0 /\ conn[e].state \in Reached("accept")
  BY <1>1, <1>2 DEF Fine, Stages, Counts
<1>4. c \in Conns /\ Keeps(conn[e], c) /\ c.state = conn[e].state
  BY <1>1, ResumedIs DEF Keeps, SameWho
<1>5. Good(c, k) /\ acked' \in [Ends -> Nat]
  BY <1>1, <1>2, <1>4, KeepsGood DEF Sane, Typed
<1>6. /\ wait \in Txs /\ wait.pc = "accept" /\ wait.phase = "wait" /\ wait.call = NoCall
      /\ ended \in Txs /\ ended.pc = "ended" /\ ended.phase = "idle" /\ ended.call = NoCall
  BY AtIs DEF TxPcs
<1>7. \/ c.state \in {"Listen", "SynReceived"} /\ Set(e, w, wait, op[e])
      \/ c.state = "Closed" /\ Set(e, c, ended, op[e])
      \/ /\ c.state \notin {"Listen", "SynReceived", "Closed"}
         /\ task' = [task EXCEPT ![e].tx = At("ready", "run"), ![e].rx = At("recv", "run")]
         /\ conn' = [conn EXCEPT ![e] = c]
         /\ UNCHANGED op
  BY DEF Accept, WaitTx
<1> HIDE DEF c, e, wait, ended
<1>8. CASE c.state \in {"Listen", "SynReceived"} /\ Set(e, w, wait, op[e])
  <2>1. w \in Conns /\ Keeps(c, w) /\ w.tx \in {"waiting", "woken"}
    BY <1>4, AwaitIs
  <2> HIDE DEF w
  <2>2. Good(w, k) /\ w.state = c.state
    BY <1>5, <2>1 DEF Good, Known, Fins, RxSleeps, Keeps, SameWho, SameRcv
  <2>3. Fits(e, w, k, wait, op[e], opens[e])
    BY <1>3, <1>4, <1>6, <1>8, <2>1, <2>2 DEF Fits
  <2> QED
    BY <1>0, <1>1, <1>2, <1>5, <1>6, <1>8, <2>1, <2>2, <2>3, TxFrame
<1>9. CASE c.state = "Closed" /\ Set(e, c, ended, op[e])
  <2>1. Fits(e, c, k, ended, op[e], opens[e])
    BY <1>3, <1>6, <1>9 DEF Fits, Reached
  <2> QED
    BY <1>0, <1>1, <1>2, <1>4, <1>5, <1>6, <1>9, <2>1, TxFrame
<1>10. CASE /\ c.state \notin {"Listen", "SynReceived", "Closed"}
            /\ task' = [task EXCEPT ![e].tx = At("ready", "run"), ![e].rx = At("recv", "run")]
            /\ conn' = [conn EXCEPT ![e] = c]
            /\ UNCHANGED op
  <2>1. conn[e].state \in {"Established", "CloseWait"}
    BY <1>3, <1>4, <1>10 DEF Reached
  <2> QED
    BY <1>0, <1>2, <1>4, <1>10, <2>1, ReadyKeeps
<1> QED
  BY <1>7, <1>8, <1>9, <1>10

(***************************************************************************)
(* The invariant, and what it says.                                        *)
(***************************************************************************)
LEMMA SaneNext ==
  ASSUME Sane, [Next]_vars
  PROVE  Sane'
<1>1. ASSUME NEW e \in Ends, InTask(e)
      PROVE  Sane'
  BY <1>1, InputKeeps, InputReturnKeeps, EmitKeeps DEF InTask, Tasks
<1>2. ASSUME NEW e \in Ends, TxTask(e)
      PROVE  Sane'
  BY <1>2, ConnectKeeps, ConnectSentKeeps, ConnectWakeKeeps, ListenKeeps, AcceptKeeps, SendKeeps, SendSentKeeps,
     SendWakeKeeps, SendTimeoutKeeps, CloseKeeps, CloseSentKeeps, CloseWakeKeeps, CloseTimeoutKeeps,
     FinWaitOverKeeps, AbortKeeps, AbortSentKeeps, EmitKeeps DEF TxTask, Tasks
<1>3. ASSUME NEW e \in Ends, RxTask(e)
      PROVE  Sane'
  BY <1>3, RecvKeeps, EmitKeeps DEF RxTask, Tasks
<1>4. ASSUME UNCHANGED vars
      PROVE  Sane'
  BY <1>4 DEF vars, Sane, Typed
<1> QED
  BY <1>1, <1>2, <1>3, <1>4, TickKeeps, LoseKeeps DEF Next

LEMMA SaneAlways == Spec => []Sane
<1>1. Init => Sane
  BY SaneInit
<1>2. Sane /\ [Next]_vars => Sane'
  BY SaneNext
<1> QED
  BY <1>1, <1>2, PTL DEF Spec

THEOREM TypeCorrect == Spec => []TypeOK
<1>1. Sane => TypeOK
  <2> SUFFICES ASSUME Sane PROVE TypeOK
    OBVIOUS
  <2>1. ASSUME NEW e \in Ends
        PROVE  /\ conn[e] \in Conns /\ Known(conn[e]) /\ task[e] \in Teams /\ net[e] \in Nets /\ got[e] \in Seq(Octets)
               /\ acked[e] \in Nat /\ opens[e] \in 0 .. MaxOpens
    BY DEF Sane, Typed, Fine, Stages
  <2>2. ASSUME NEW e \in Ends, NEW t \in Tasks
        PROVE  task[e][t].call \in Calls /\ task[e][t].ok \in BOOLEAN
    BY <2>1, <2>2 DEF Tasks, Teams, Ins, Txs, Rxs
  <2>3. faults \in 0 .. MaxFaults /\ fails \in 0 .. MaxFail
    BY DEF Sane, Typed
  <2>4. ASSUME NEW e \in Ends
        PROVE  /\ conn[e].state \in States /\ (conn[e].bound <=> conn[e].state # "Closed")
               /\ {conn[e].una, conn[e].nxt, conn[e].rcv} \subseteq SeqNums
               /\ conn[e].wnd \in 0..RxBufferSize /\ conn[e].port \in 0..MaxOpens
               /\ conn[e].ring \in Seq(Octets) /\ Len(conn[e].ring) <= RxBufferSize
               /\ {conn[e].fin, conn[e].wnd_closed} \subseteq BOOLEAN
               /\ {conn[e].tx, conn[e].rx} \subseteq Events
    BY <2>1 DEF Conns, Rings, Known
  <2> QED
    BY <2>1, <2>2, <2>3, <2>4 DEF TypeOK, Nets
<1> QED
  BY <1>1, SaneAlways, PTL

THEOREM WakeupsKept == Spec => []NoLostWakeup
<1>1. Sane => NoLostWakeup
  BY DEF Sane, Fine, Sleeps, NoLostWakeup
<1> QED
  BY <1>1, SaneAlways, PTL
==============================================================================
