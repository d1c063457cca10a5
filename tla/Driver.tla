-------------------------------- MODULE Driver --------------------------------
(***************************************************************************)
(* The host side of the radio: yaps.cpp (frames to and from the chip, the  *)
(* received backlog) and command.cpp (the command slot, the event ring and *)
(* rx_task), with the tasks that use them and the chip at the other end.   *)
(*                                                                         *)
(* A round of the runner is Gather, then one step of every task it found   *)
(* runnable; a step runs to the next co_await.  rx_task drains the stream  *)
(* within one step, during which the chip goes on.  Time is abstract: a    *)
(* timer or timeout may be found expired at any round.                     *)
(***************************************************************************)
EXTENDS Integers, Sequences, FiniteSets

CONSTANTS
  Users,         \* tasks that send commands and data and wait for frames
  PoolSize,      \* packet_pool_size
  QueueSize,     \* tc_cmd_q_size and tc_tx_q_size, in packets
  BacklogMax,    \* rx_backlog_max
  EventRing,     \* event_ring_size
  SeqMax,        \* the sequence number runs from 1 to SeqMax (0xfff)
  ErrorLimit,    \* rx_error_limit
  Loads          \* bounds, one chosen per behaviour: commands and data frames sent, frames of
                 \* which kinds from the chip, and whether tasks call wait_rx()

Rx      == "rx_task"
Nobody  == "nobody"

DriverSizes ==
  /\ IsFiniteSet(Users) /\ Users # {} /\ Nobody \notin Users
  /\ {PoolSize, QueueSize, BacklogMax, EventRing, SeqMax, ErrorLimit} \subseteq Nat \ {0}
  /\ \A l \in Loads :
       /\ {l.commands, l.data, l.frames} \subseteq Nat
       /\ l.kinds \subseteq {"event", "data", "beacon", "garbage"} /\ l.waits \in BOOLEAN
       /\ l.commands <= SeqMax      \* the sequence number does not wrap into a call in progress


VARIABLES
  user,     \* per user task: pc, what it sends, its copy of the status block, packets it holds;
            \* what the calls return is not told apart
  rx,       \* rx_task: pc and rx_errors
  due,      \* tasks gathered for this round and not yet resumed
  slot,     \* pending_response
  busy, seq,
  events,   \* the event ring, oldest first
  backlog,  \* frames received and not consumed
  free,     \* free packets of the pool
  freed,    \* tx_space_freed
  waiter,   \* ExtEvent::waiter of tx_space_event and rx_pending_event
  load,     \* the load of this behaviour
  chip      \* queues to the chip, stream from it, raised interrupts, frames left to send

vars == <<user, rx, due, slot, busy, seq, events, backlog, free, freed, waiter, load, chip>>
host == <<rx, slot, busy, seq, events, backlog, free, freed, waiter, load>>

Slot(u, call, number)    == [owner |-> u, call |-> call, seq |-> number, done |-> FALSE, got |-> 0]
Doing(p, op, held, call) == [pc |-> p, op |-> op, room |-> FALSE, held |-> held, call |-> call]
NoSlot == Slot(Nobody, 0, 0)
Idle   == Doing("free", "none", 0, 0)

(***************************************************************************)
(* Rounds.                                                                 *)
(***************************************************************************)
Line == chip.sts # {}     \* the level of the interrupt line

\* Suspended on an event or a timer: what makes the task runnable, and whether it may time out.
Available(u) ==
  CASE user[u].pc = "space"   -> freed
    [] user[u].pc = "pending" -> backlog # <<>>
    [] user[u].pc = "resp"    -> slot.done
    [] OTHER                  -> TRUE
Timed   == {"space", "pending", "resp", "spacebusy", "pendingbusy", "locked"}
Certain(u) == user[u].pc \notin {"free", "spacebusy", "pendingbusy", "locked"} /\ Available(u)

Gather ==
  /\ due = {} /\ rx.pc # "drain"
  /\ \E expired \in SUBSET {u \in Users : user[u].pc \in Timed}, woken \in BOOLEAN :
       due' = {u \in Users : Certain(u)} \cup expired
              \cup IF (rx.pc = "irq" /\ Line) \/ (rx.pc = "backoff" /\ woken) THEN {Rx} ELSE {}
  /\ due' # {}
  \* gathering a task clears the waiter of its event
  /\ waiter' = [e \in DOMAIN waiter |->
                  IF \E u \in due' \cap Users : user[u].pc = e THEN Nobody ELSE waiter[e]]
  /\ UNCHANGED <<user, rx, slot, busy, seq, events, backlog, free, freed, chip, load>>

Step(u, pcs) == u \in due /\ rx.pc # "drain" /\ user[u].pc \in pcs /\ due' = due \ {u}
Goes(u, r)   == user' = [user EXCEPT ![u] = r]
To(u, p)     == [user[u] EXCEPT !.pc = p]

(***************************************************************************)
(* yaps_tx().                                                              *)
(***************************************************************************)
\* to-chip queue of what u sends
QueueOf(u) == IF user[u].op = "command" THEN "cmd" ELSE "tx"
HasRoom(q) == Len(chip[q]) < QueueSize

\* The head of the loop: re-arm, then co_await read_status().
TxArm(u) ==
  /\ Step(u, {"tx", "space", "spacebusy"})
  \* await_resume() of the space event clears its waiter
  /\ waiter' = IF user[u].pc = "space" THEN [waiter EXCEPT !.space = Nobody] ELSE waiter
  /\ freed' = FALSE
  /\ Goes(u, To(u, "read"))
  /\ UNCHANGED <<rx, slot, busy, seq, events, backlog, free, chip, load>>

\* faulty: a status block that could not be read counts as room
ReadStatusUnlocked(u) ==
  /\ Step(u, {"read", "locked"})
  /\ \E p \in {"decide", "locked"} : Goes(u, [To(u, p) EXCEPT !.room = TRUE])
  /\ UNCHANGED <<host, chip>>

\* read_status(): the lock word is polled every millisecond, and given up after a while.
ReadStatus(u) ==
  /\ Step(u, {"read", "locked"})
  /\ \E p \in {"decide", "locked", "txfailed"} :
       Goes(u, [To(u, p) EXCEPT !.room = p = "decide" /\ HasRoom(QueueOf(u))])
  /\ UNCHANGED <<host, chip>>

Frame(u) == IF user[u].op = "command" THEN [call |-> user[u].call, seq |-> slot.seq] ELSE [call |-> 0, seq |-> 0]

\* faulty: re-armed after the status was read
WaitSpaceArmed(u) ==
  /\ freed' = FALSE
  /\ waiter' = [waiter EXCEPT !.space = u] /\ Goes(u, To(u, "space"))

\* Wait for tx_space_event, or sleep because another task holds it.
WaitSpace(u) ==
  /\ UNCHANGED freed
  /\ IF waiter.space # Nobody
     THEN waiter' = [waiter EXCEPT !.space = Nobody] /\ Goes(u, To(u, "spacebusy"))
     ELSE IF freed
          THEN UNCHANGED waiter /\ Goes(u, To(u, "tx"))
          ELSE waiter' = [waiter EXCEPT !.space = u] /\ Goes(u, To(u, "space"))

\* Back in yaps_tx() with the copy of the status: write the frame, give up, or wait for space.
TxDecide(u) ==
  /\ Step(u, {"decide"})
  /\ IF user[u].room
     THEN /\ chip' = [chip EXCEPT ![QueueOf(u)] = Append(@, Frame(u))]
          /\ Goes(u, To(u, "sent")) /\ UNCHANGED <<waiter, freed>>
     ELSE /\ UNCHANGED chip
          /\ \/ Goes(u, To(u, "txfailed")) /\ UNCHANGED <<waiter, freed>>
             \/ WaitSpace(u)
  /\ UNCHANGED <<rx, slot, busy, seq, events, backlog, free, load>>

(***************************************************************************)
(* send_command() and eth_tx().                                            *)
(***************************************************************************)
\* What the end of send_command() releases, whichever way it ends (the two defers, the packet).
Return(u) ==
  /\ Goes(u, Idle)
  /\ free' = free + user[u].held
  /\ IF user[u].op = "command" THEN busy' = FALSE /\ slot' = NoSlot ELSE UNCHANGED <<busy, slot>>

NextSeq == (seq % SeqMax) + 1

\* The call up to co_await yaps_tx(): refused, no packet, or the slot is armed.
SendCommand(u) ==
  /\ user[u].pc = "free" /\ rx.pc # "drain" /\ chip.calls < load.commands
  /\ IF busy
     THEN Goes(u, Idle) /\ UNCHANGED <<busy, seq, slot, free, chip>>
     ELSE /\ seq' = NextSeq /\ chip' = [chip EXCEPT !.calls = @ + 1]
          /\ IF free = 0
             THEN Goes(u, Idle) /\ UNCHANGED <<busy, slot, free>>
             ELSE /\ busy' = TRUE /\ free' = free - 1
                  /\ slot' = Slot(u, chip.calls + 1, NextSeq)
                  /\ Goes(u, Doing("tx", "command", 1, chip.calls + 1))
  /\ UNCHANGED <<rx, due, events, backlog, freed, waiter, load>>

\* yaps_tx() returned: wait for the response.
CommandSent(u) ==
  /\ Step(u, {"sent"}) /\ user[u].op = "command"
  /\ Goes(u, To(u, "resp"))
  /\ UNCHANGED <<host, chip>>

CommandEnds(u) ==
  /\ Step(u, {"resp"})
  /\ Return(u)
  /\ UNCHANGED <<rx, seq, events, backlog, freed, waiter, chip, load>>

\* netif.cpp hands over a packet of the stack; eth_tx() builds the frame in a second one.
SendData(u) ==
  /\ user[u].pc = "free" /\ rx.pc # "drain" /\ chip.data < load.data /\ free > 0
  /\ IF free < 2
     THEN Goes(u, Idle) /\ UNCHANGED <<free, chip>>
     ELSE /\ free' = free - 2 /\ chip' = [chip EXCEPT !.data = @ + 1]
          /\ Goes(u, Doing("tx", "data", 2, 0))
  /\ UNCHANGED <<rx, due, slot, busy, seq, events, backlog, freed, waiter, load>>

TxEnds(u) ==
  /\ Step(u, {"sent", "txfailed"})
  /\ user[u].pc = "sent" => user[u].op = "data"
  /\ Return(u)
  /\ UNCHANGED <<rx, seq, events, backlog, freed, waiter, chip, load>>

(***************************************************************************)
(* wait_rx() and pop_event().                                              *)
(***************************************************************************)
\* The loop of wait_rx(): a frame, the timeout, or (again) the event, which another may hold.
\* A task that waited comes from await_resume(), which cleared the waiter.
WaitRxLoop(u) ==
  LET holder == IF user[u].pc = "pending" THEN Nobody ELSE waiter.pending
      Holder(t) == waiter' = [waiter EXCEPT !.pending = t]
  IN  IF backlog # <<>>
      THEN /\ Goes(u, Doing("frame", "wait", 1, 0))
           /\ backlog' = Tail(backlog) /\ Holder(holder)
      ELSE /\ UNCHANGED backlog
           /\ \/ Goes(u, Idle) /\ Holder(holder)
              \/ IF holder # Nobody
                 THEN Goes(u, Doing("pendingbusy", "wait", 0, 0)) /\ Holder(Nobody)
                 ELSE Goes(u, Doing("pending", "wait", 0, 0)) /\ Holder(u)

WaitRx(u) ==
  /\ load.waits /\ user[u].pc = "free" /\ rx.pc # "drain"
  /\ WaitRxLoop(u)
  /\ UNCHANGED <<rx, due, slot, busy, seq, events, free, freed, chip, load>>

WaitRxWakes(u) ==
  /\ Step(u, {"pending", "pendingbusy"})
  /\ WaitRxLoop(u)
  /\ UNCHANGED <<rx, slot, busy, seq, events, free, freed, chip, load>>

\* The caller of wait_rx() is done with the frame.
FrameDone(u) ==
  /\ Step(u, {"frame"})
  /\ Return(u)
  /\ UNCHANGED <<rx, seq, events, backlog, freed, waiter, chip, load>>

PopEvent ==
  /\ events # <<>> /\ rx.pc # "drain"
  /\ events' = Tail(events)
  /\ UNCHANGED <<user, rx, due, slot, busy, seq, backlog, free, freed, waiter, chip, load>>

\* disconnect() cancels the task that runs link_task: its frames are destroyed where they are.
Cancel(u) ==
  /\ user[u].pc # "free" /\ rx.pc # "drain"
  /\ Return(u)
  /\ due' = due \ {u}
  /\ waiter' = [space   |-> IF user[u].pc = "space" /\ u \notin due THEN Nobody ELSE waiter.space,
                pending |-> IF user[u].pc = "pending" /\ u \notin due THEN Nobody ELSE waiter.pending]
  /\ UNCHANGED <<rx, seq, events, backlog, freed, chip, load>>
-----------------------------------------------------------------------------
(***************************************************************************)
(* rx_task().                                                              *)
(***************************************************************************)
\* Resumed: read and acknowledge the interrupt status before draining.
RxIrq ==
  /\ Rx \in due /\ rx.pc = "irq" /\ due' = due \ {Rx}
  /\ \/ rx' = [rx EXCEPT !.pc = "backoff"] /\ UNCHANGED <<chip, freed>>      \* status access failed
     \/ /\ rx' = [rx EXCEPT !.pc = "drain"]
        /\ freed' = (freed \/ "page" \in chip.sts)
        /\ chip' = [chip EXCEPT !.sts = {}]
  /\ UNCHANGED <<user, slot, busy, seq, events, backlog, free, waiter, load>>

\* yaps_rx() failed: garbage, or a good frame when the pool is exhausted (it is drained).
RxError ==
  rx' = [pc |-> IF rx.errors + 1 >= ErrorLimit THEN "desynced" ELSE "backoff", errors |-> rx.errors + 1]

\* faulty: any response fills the slot
MatchesAny(f) == f.kind = "response" /\ slot.owner # Nobody

\* The response to the command in progress, by its sequence number.
Matches(f) == f.kind = "response" /\ slot.owner # Nobody /\ f.seq = slot.seq
\* faulty: a frame that finds the backlog full is not freed
DispatchLeaks(f) ==
  /\ IF Matches(f)
     THEN slot' = [slot EXCEPT !.done = TRUE, !.got = f.call]
     ELSE UNCHANGED slot
  /\ events' = IF f.kind = "event" /\ Len(events) < EventRing THEN Append(events, f.kind) ELSE events
  /\ IF f.kind = "data"
     THEN free' = free - 1 /\ backlog' = IF Len(backlog) < BacklogMax THEN Append(backlog, f.kind) ELSE backlog
     ELSE UNCHANGED <<backlog, free>>

\* dispatch_rx(): the awaited response fills the slot, events go to the ring, a tx status or a
\* beacon to nobody, everything else to the backlog, which frees what it has no room for.
Dispatch(f) ==
  /\ IF Matches(f)
     THEN slot' = [slot EXCEPT !.done = TRUE, !.got = f.call]
     ELSE UNCHANGED slot
  /\ events' = IF f.kind = "event" /\ Len(events) < EventRing THEN Append(events, f.kind) ELSE events
  /\ IF f.kind = "data" /\ Len(backlog) < BacklogMax
     THEN backlog' = Append(backlog, f.kind) /\ free' = free - 1
     ELSE UNCHANGED <<backlog, free>>

RxDrain ==
  /\ rx.pc = "drain"
  /\ IF chip.stream = <<>>
     THEN rx' = [rx EXCEPT !.pc = "irq"] /\ UNCHANGED <<slot, events, backlog, free, chip>>
     ELSE LET f == Head(chip.stream) IN
          /\ chip' = [chip EXCEPT !.stream = Tail(@)]
          /\ IF f.kind = "garbage" \/ free = 0
             THEN RxError /\ UNCHANGED <<slot, events, backlog, free>>
             ELSE rx' = [rx EXCEPT !.errors = 0] /\ Dispatch(f)
  /\ UNCHANGED <<user, due, busy, seq, freed, waiter, load>>

RxBackoff ==
  /\ Rx \in due /\ rx.pc = "backoff" /\ due' = due \ {Rx}
  /\ rx' = [rx EXCEPT !.pc = "irq"]
  /\ UNCHANGED <<user, slot, busy, seq, events, backlog, free, freed, waiter, chip, load>>

(***************************************************************************)
(* The chip (external).                                                    *)
(***************************************************************************)
Emit(c, f) == [c EXCEPT !.stream = Append(@, f), !.sts = @ \cup {"packet"}, !.frames = @ + 1]

\* It takes a frame from a queue, frees its pages, and answers a command once.
ChipTakes ==
  \E q \in {"cmd", "tx"} :
    /\ chip[q] # <<>>
    /\ LET f == Head(chip[q])
           c == [chip EXCEPT ![q] = Tail(@), !.sts = @ \cup {"page"}]
       IN  chip' = IF q = "cmd" THEN [c EXCEPT !.answers = @ \cup {f}] ELSE c
    /\ UNCHANGED <<user, due, host>>

ChipAnswers ==
  \E f \in chip.answers :
    /\ chip' = [Emit(chip, [kind |-> "response", call |-> f.call, seq |-> f.seq])
                  EXCEPT !.answers = @ \ {f}, !.frames = @ - 1]
    /\ UNCHANGED <<user, due, host>>

ChipSends ==
  /\ chip.frames < load.frames
  /\ \E k \in load.kinds :
       chip' = Emit(chip, [kind |-> k, call |-> 0, seq |-> 0])
  /\ UNCHANGED <<user, due, host>>

\* The packet bit follows the level of the stream: cleared while frames are left, it comes back.
ChipRaises ==
  /\ chip.stream # <<>> /\ "packet" \notin chip.sts /\ rx.pc # "drain"
  /\ chip' = [chip EXCEPT !.sts = @ \cup {"packet"}]
  /\ UNCHANGED <<user, due, host>>

Init ==
  /\ user = [u \in Users |-> Idle]
  /\ rx = [pc |-> "irq", errors |-> 0]
  /\ due = {} /\ slot = NoSlot /\ busy = FALSE /\ seq = 0
  /\ events = <<>> /\ backlog = <<>> /\ free = PoolSize /\ freed = FALSE
  /\ waiter = [space |-> Nobody, pending |-> Nobody]
  /\ chip = [cmd |-> <<>>, tx |-> <<>>, stream |-> <<>>, sts |-> {}, answers |-> {},
             frames |-> 0, calls |-> 0, data |-> 0]
  /\ load \in Loads

UserStep(u) ==
  \/ TxArm(u) \/ ReadStatus(u) \/ TxDecide(u) \/ SendCommand(u) \/ CommandSent(u) \/ CommandEnds(u)
  \/ SendData(u) \/ TxEnds(u) \/ WaitRx(u) \/ WaitRxWakes(u) \/ FrameDone(u) \/ Cancel(u)
RxStep == RxIrq \/ RxDrain \/ RxBackoff
Chip   == ChipTakes \/ ChipAnswers \/ ChipSends \/ ChipRaises

Next == Gather \/ PopEvent \/ RxStep \/ Chip \/ \E u \in Users : UserStep(u)
Spec == Init /\ [][Next]_vars

(***************************************************************************)
(* Properties.                                                             *)
(***************************************************************************)
\* A packet for each the records in f hold.
PacketsOf(f) == {p \in Users \X {1, 2} : p[2] <= f[p[1]].held}
Held == Cardinality(PacketsOf(user))
Commanding == {u \in Users : user[u].pc # "free" /\ user[u].op = "command"}

Conserved == free + Len(backlog) + Held = PoolSize /\ Len(backlog) <= BacklogMax
SlotOwned ==
  IF busy THEN Commanding = {slot.owner} ELSE Commanding = {} /\ slot = NoSlot

\* Packets are conserved: each is free, in the backlog, or held by exactly one call, however
\* calls end (a refusal, a timeout, an error, a cancelled task) and however full the backlog is;
\* `busy` and the pending slot belong to the one command call in progress (send_command(),
\* dispatch_rx(), push_rx_backlog()).
PacketsAccounted == Conserved /\ SlotOwned

\* A command is answered by its own response: one that comes after its caller gave up, or was
\* cancelled, is never taken for the answer to a later command (handle_command_frame()).
ResponseIsOwn == slot.done => slot.got = slot.call

AboutToWrite == {u \in Users : user[u].pc = "decide" /\ user[u].op = "data" /\ user[u].room}

\* "waiting for chip queue space" (yaps.hpp): the command queue, which `busy` gives to one
\* task at a time, is never overrun; the data queue is overrun by at most one frame for each
\* further transmitter, whose copy of the status block is a round old when it writes.
QueuesFit ==
  /\ Len(chip.cmd) <= QueueSize
  /\ Len(chip.tx) + Cardinality(AboutToWrite) <= QueueSize + Cardinality(Users) - 1

\* "re-arm before the status read so a page free in between is not lost" (yaps_tx()): while
\* commands alone are sent, one that waits for space although the queue has room is about to be
\* woken by a page-freed interrupt, latched or still raised.
SpaceWakePending ==
  chip.data = 0 =>
    \A u \in Users : (user[u].pc = "space" /\ u \notin due /\ HasRoom("cmd")) =>
                        (freed \/ "page" \in chip.sts)
=============================================================================
