--------------------------------- MODULE Uart ---------------------------------
(***************************************************************************)
(* The serial console: the interrupt handler fills a ring that the console *)
(* task empties byte by byte, echoing each as the transmitter has room     *)
(* (hal/uart.cpp of both boards, uart.cpp, console.cpp).  Interrupts come  *)
(* between any two steps of the task and of the runner that resumes it.    *)
(***************************************************************************)
EXTENDS Integers, Sequences, SequencesExt

CONSTANTS
  RingSize,     \* rx_buf_size
  Fifo,         \* bytes the receiver holds: 1, or the depth of its fifo
  Keys,         \* characters typed, besides "enter" and "backspace"
  MaxTyped      \* bound: bytes typed

VARIABLES
  hw,        \* the UART: bytes received, overrun, transmitter ready, its interrupt armed
  ring,      \* rx_buf, rx_head, rx_tail
  console,   \* the console task: pc, event it is after, line, byte read, bytes left to write
  runner,    \* the runner's phase, and any_ext_event_available
  typed,     \* history: bytes that reached a ring with room for them
  got        \* history: bytes read
uartVars == <<hw, ring, console, runner, typed, got>>

UartSizes == RingSize \in Nat \ {0}

After(i)  == (i + 1) % RingSize
Used(r)   == (r.head - r.tail) % RingSize
Held      == [i \in 1 .. Used(ring) |-> ring.buf[(ring.tail + i - 1) % RingSize]]

(***************************************************************************)
(* The interrupt handler                                                   *)
(***************************************************************************)
\* faulty: a full ring takes the byte
PutAnyway(r, c) == [r EXCEPT !.buf[r.head] = c, !.head = After(r.head)]
\* A byte that finds the ring full is dropped.
Put(r, c) == IF After(r.head) # r.tail THEN [r EXCEPT !.buf[r.head] = c, !.head = After(r.head)] ELSE r

\* notify() has the runner look again only when somebody waits.
Waiting(event) == console.pc = "waiting" /\ console.event = event

Handler ==
  LET sent == hw.ready /\ hw.armed
      room == RingSize - 1 - Used(ring)
  IN /\ hw.rx # <<>> \/ hw.overrun \/ sent
     /\ ring' = FoldLeft(Put, ring, hw.rx)
     /\ typed' = typed \o SubSeq(hw.rx, 1, IF Len(hw.rx) < room THEN Len(hw.rx) ELSE room)
     /\ hw' = [hw EXCEPT !.rx = <<>>, !.overrun = FALSE, !.armed = @ /\ ~sent]
     /\ runner' = [runner EXCEPT !.flag = @ \/ (hw.rx # <<>> /\ Waiting("read")) \/ (sent /\ Waiting("write"))]
     /\ UNCHANGED <<console, got>>

(***************************************************************************)
(* The console task                                                        *)
(***************************************************************************)
\* read_available(), write_available(): the latter arms the interrupt while it is masked.
Available(event) == IF event = "read" THEN ring.head # ring.tail ELSE hw.ready
Armed(event)     == IF event = "write" /\ ~hw.ready THEN [hw EXCEPT !.armed = TRUE] ELSE hw

Await(c, event) == [c EXCEPT !.pc = "await", !.event = event]

\* wait_for_event(): no suspension when the event is there already.
WaitForEvent ==
  /\ runner.phase = "run" /\ console.pc = "await"
  /\ hw' = Armed(console.event)
  /\ IF Available(console.event)
     THEN console' = [console EXCEPT !.pc = "go"] /\ UNCHANGED runner
     ELSE console' = [console EXCEPT !.pc = "waiting"] /\ runner' = [runner EXCEPT !.phase = "round"]
  /\ UNCHANGED <<ring, typed, got>>

\* read(), and what read_line() does with the byte: it is echoed before it counts.
Read ==
  /\ console.pc = "go" /\ console.event = "read"
  /\ IF ring.head = ring.tail
     THEN console' = [console EXCEPT !.pc = "over"] /\ UNCHANGED <<ring, got>>
     ELSE LET c == ring.buf[ring.tail]
              echo == IF c = "backspace" THEN <<c, "space", c>> ELSE <<c>>
          IN /\ ring' = [ring EXCEPT !.tail = After(@)]
             /\ got' = Append(got, c)
             /\ console' = IF c = "backspace" /\ console.line = <<>> THEN Await(console, "read")
                           ELSE Await([console EXCEPT !.byte = c, !.out = echo], "write")
  /\ UNCHANGED <<hw, runner, typed>>

\* Once its echo is out, a byte ends the line, takes its last character off, or joins it.
Edit(line, c) ==
  CASE c = "enter" -> <<>>
    [] c = "backspace" -> IF line = <<>> THEN line ELSE Front(line)
    [] OTHER -> Append(line, c)

\* write(): as many bytes as the transmitter takes, none if another task has filled it.
Write ==
  /\ console.pc = "go" /\ console.event = "write"
  /\ IF ~hw.ready THEN UNCHANGED hw /\ console' = Await(console, "write")
     ELSE /\ \E ready \in BOOLEAN : hw' = [hw EXCEPT !.ready = ready]
          /\ console' = LET left == Tail(console.out)
                        IN IF left # <<>>
                           THEN [console EXCEPT !.out = left, !.pc = IF hw'.ready THEN "go" ELSE "await"]
                           ELSE Await([console EXCEPT !.out = left, !.line = Edit(@, console.byte)], "read")
  /\ UNCHANGED <<ring, runner, typed, got>>

\* print_blocking() of another task, between two steps of this one.
OthersPrint ==
  /\ runner.phase = "others" /\ hw.ready
  /\ hw' = [hw EXCEPT !.ready = FALSE] /\ UNCHANGED <<ring, console, runner, typed, got>>

(***************************************************************************)
(* The runner                                                              *)
(***************************************************************************)
\* A round clears the flag, then polls; what it finds ready runs, maybe after other tasks.
Round ==
  /\ runner.phase \in {"round", "others"}
  /\ runner' = [phase |-> "poll", flag |-> FALSE] /\ UNCHANGED <<hw, ring, console, typed, got>>

Poll ==
  /\ runner.phase = "poll"
  /\ hw' = Armed(console.event)
  /\ IF Available(console.event)
     THEN /\ console' = [console EXCEPT !.pc = "go"]
          /\ runner' = [runner EXCEPT !.phase = "run"]
     ELSE /\ UNCHANGED console
          /\ \E phase \in {"idle", "others"} : runner' = [runner EXCEPT !.phase = phase]
  /\ UNCHANGED <<ring, typed, got>>

\* The busy wait ends with an event or another task's timer.
IdleEnds ==
  /\ runner.phase = "idle"
  /\ \/ runner.flag /\ runner' = [runner EXCEPT !.phase = "round"]
     \/ runner' = [runner EXCEPT !.phase = "others"]
  /\ UNCHANGED <<hw, ring, console, typed, got>>

(***************************************************************************)
(* The line                                                                *)
(***************************************************************************)
KeyTyped ==
  /\ Len(typed) < MaxTyped
  /\ \E c \in Keys \cup {"enter", "backspace"} :
       hw' = IF Len(hw.rx) < Fifo THEN [hw EXCEPT !.rx = Append(@, c)] ELSE [hw EXCEPT !.overrun = TRUE]
  /\ UNCHANGED <<ring, console, runner, typed, got>>

ByteSent == ~hw.ready /\ hw' = [hw EXCEPT !.ready = TRUE] /\ UNCHANGED <<ring, console, runner, typed, got>>

UartInit ==
  /\ hw = [rx |-> <<>>, overrun |-> FALSE, ready |-> TRUE, armed |-> FALSE]
  /\ ring = [buf |-> [i \in 0 .. RingSize - 1 |-> "none"], head |-> 0, tail |-> 0]
  /\ console = [pc |-> "await", event |-> "read", line |-> <<>>, byte |-> "none", out |-> <<>>]
  /\ runner = [phase |-> "run", flag |-> FALSE]
  /\ typed = <<>> /\ got = <<>>

UartNext ==
  \/ Handler \/ WaitForEvent \/ Read \/ Write \/ OthersPrint \/ Round \/ Poll \/ IdleEnds
  \/ KeyTyped \/ ByteSent

UartSpec == UartInit /\ [][UartNext]_uartVars

\* What was typed arrives, in order, with nothing lost but what found the ring full, and the line
\* is what those keys make of it (lpuart1_handler(), read(), read_line()); a task told that a
\* byte is there finds one; and the busy wait is never entered, nor stayed in, with the task's event
\* there or its interrupt not armed.
ConsoleServed ==
  /\ typed = got \o Held
  /\ console.pc # "over"
  /\ console.event = "read" => console.line = FoldLeft(Edit, <<>>, got)
  /\ runner.phase = "idle" /\ ~runner.flag =>
       IF console.event = "read" THEN ~Available("read") ELSE hw.armed
=============================================================================
