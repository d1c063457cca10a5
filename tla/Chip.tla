--------------------------------- MODULE Chip ---------------------------------
(***************************************************************************)
(* Bringing up the radio chip: `halow init` of the console, init() and the *)
(* bus of halow.cpp, load_firmware() of firmware.cpp, parse_host_table()   *)
(* of host-table.cpp.  The bus is a window of the chip's address space,    *)
(* pointed by two registers, through which CMD53 moves blocks and words;   *)
(* any command may fail, and a data phase may fail after some of its       *)
(* blocks.  One word stands for four bytes.                                *)
(***************************************************************************)
EXTENDS Integers, Sequences, SequencesExt, FiniteSetsExt

CONSTANTS
  Window,        \* words behind the access window (64KB)
  Block,         \* words in a block of function 1 and of function 2
  MaxBlocks,     \* max_blocks
  Top,           \* the last word of the memory ranges
  Segments,      \* firmware and bcf segments: address and length in words, in order
  TableMax,      \* ext_max_len, in words
  Tries,         \* startup attempts of init(), 3
  MaxPolls,      \* polls of the host table pointer, 300
  MaxInits,      \* bound: times the console runs `halow init`
  MaxFaults      \* bound: commands that fail

ChipSizes ==
  /\ {Window, Block[1], Block[2], MaxBlocks, Tries, MaxPolls, TableMax} \subseteq Nat \ {0} /\ Top \in Nat
  /\ Window % Block[1] = 0 /\ Window % Block[2] = 0     \* no block crosses a window
  /\ Window > 4                                         \* the registers below have a window of their own
  /\ Segments \in Seq([addr : Nat, len : Nat \ {0}])
  /\ \A s \in ToSet(Segments) : Window <= s.addr /\ s.addr + s.len - 1 <= Top

VARIABLES
  host,    \* where `halow init` is, and the transfer in progress
  chip,    \* window registers, memory, and what the chip runs
  faults   \* commands that failed so far
chipVars == <<host, chip, faults>>

\* Registers, in the first window (function 1); the memory ranges are everything above.
ManifestPtr == 0
Aon         == 1
AonLatch    == 3
Msi         == 4
Memory      == Window
Image       == UNION {s.addr .. s.addr + s.len - 1 : s \in ToSet(Segments)}

IsMemory(a) == a >= Memory
BlockOf(a)  == Block[IF IsMemory(a) THEN 2 ELSE 1]

Write(a, n, word) == [dir |-> "write", addr |-> a, len |-> n, word |-> word]
Read(a)           == [dir |-> "read", addr |-> a, len |-> 1, word |-> 0]

\* faulty: the pointer the previous firmware left is not cleared
ScriptUncleared ==
  [i \in DOMAIN Segments |-> Write(Segments[i].addr, Segments[i].len, Segments[i].addr)]
    \o <<Write(Aon, 1, 0), Write(Aon + 1, 1, 0), Read(AonLatch)>>
    \o [i \in 1 .. 3 |-> Write(AonLatch, 1, i % 2)] \o <<Write(Msi, 1, 1)>>

\* load_firmware() up to the polling: clear the pointer, upload the segments, clear the always-on
\* words and toggle their latch, and trigger the firmware.  The data word of an image address is
\* the address itself.
Script ==
  <<Write(ManifestPtr, 1, 0)>>
    \o [i \in DOMAIN Segments |-> Write(Segments[i].addr, Segments[i].len, Segments[i].addr)]
    \o <<Write(Aon, 1, 0), Write(Aon + 1, 1, 0), Read(AonLatch)>>
    \o [i \in 1 .. 3 |-> Write(AonLatch, 1, i % 2)] \o <<Write(Msi, 1, 1)>>

NoTable == [head |-> 0, len |-> 0, found |-> 0]
Stopped == [pc |-> "console", init |-> 0, step |-> 0, tries |-> 0, polls |-> 0, table |-> NoTable,
            dir |-> "read", addr |-> 0, left |-> 0, word |-> 0, chunk |-> 0]
Goes(pc) == host' = [host EXCEPT !.pc = pc]
Fails    == host' = [Stopped EXCEPT !.init = host.init]      \* the coroutine returns an error
Fault    == faults < MaxFaults /\ faults' = faults + 1

(***************************************************************************)
(* init().                                                                 *)
(***************************************************************************)
\* `halow init`, possibly again: pins, then the hard reset, which stops the firmware.
HalowInit ==
  /\ host.pc \in {"console", "ready"} /\ host.init < MaxInits
  /\ host' = [Stopped EXCEPT !.pc = "startup", !.init = host.init + 1]
  /\ chip' = [chip EXCEPT !.runs = 0, !.triggered = FALSE]
  /\ UNCHANGED faults

\* MorseStartup is tried again after GoIdle; interrupts are then routed with three more commands.
Startup ==
  /\ host.pc = "startup"
  /\ \/ Goes("load") /\ UNCHANGED faults
     \/ Fault /\ IF host.tries + 1 < Tries THEN host' = [host EXCEPT !.tries = @ + 1] ELSE Fails
     \/ Fault /\ Fails
  /\ UNCHANGED chip

(***************************************************************************)
(* read_multi() and write_multi().                                         *)
(***************************************************************************)
\* A transfer is complete: the next access of load_firmware(), or what follows the polls.
Begin(op, r) ==
  [r EXCEPT !.pc = "window", !.dir = op.dir, !.addr = op.addr, !.left = op.len, !.word = op.word, !.chunk = 0]
NextStep(r) ==
  IF r.step < Len(Script)
  THEN Begin(Script[r.step + 1], [r EXCEPT !.step = @ + 1])
  ELSE Begin(Read(ManifestPtr), [r EXCEPT !.polls = 1])

Load ==
  /\ host.pc = "load"
  /\ host' = NextStep(host)
  /\ UNCHANGED <<chip, faults>>

\* What the next loop moves: at most what CMD53 can count, and never across the window.
ToMove(addr, left) ==
  LET most == BlockOf(addr) * MaxBlocks
      n    == IF left < most THEN left ELSE most
      edge == ((addr \div Window) + 1) * Window
  IN  IF addr + n > edge THEN edge - addr ELSE n

\* set_window(): two registers say where the window is.
SetWindow ==
  /\ host.pc = "window"
  /\ LET w == host.addr \div Window IN
     \/ /\ chip' = [chip EXCEPT !.low = w % 2, !.high = w \div 2]
        /\ host' = [host EXCEPT !.pc = "move", !.chunk = ToMove(host.addr, host.left)]
        /\ UNCHANGED faults
     \/ /\ Fault /\ Fails
        /\ chip' \in {chip, [chip EXCEPT !.low = w % 2]}

\* The chip counts up within its window.
Behind(i) == ((2 * chip.high + chip.low) * Window) + ((host.addr + i) % Window)

\* n words of the transfer reach the chip, and start the firmware when they are the trigger.
Stored(n) ==
  LET at == {Behind(i) : i \in 0 .. n - 1} IN
  [chip EXCEPT
     !.mem = [a \in DOMAIN chip.mem |->
                IF a \in at THEN [init |-> host.init, word |-> host.word + Min({i \in 0 .. n - 1 : Behind(i) = a})]
                ELSE chip.mem[a]],
     !.triggered = @ \/ Msi \in at]

\* One CMD53: the whole blocks of the chunk first, then its last words.
Count == LET whole == host.chunk \div BlockOf(host.addr)
         IN IF whole > 0 THEN whole * BlockOf(host.addr) ELSE host.chunk
After(n) == [host EXCEPT !.addr = @ + n, !.word = @ + n, !.left = @ - n, !.chunk = @ - n]

\* n words of the transfer pass; a read leaves the chip as it is.
Passed(n) == IF host.dir = "write" THEN Stored(n) ELSE chip

\* The loop goes on with the chunk, with the next chunk, or is over.
Onward(r) == IF r.chunk > 0 THEN r ELSE IF r.left > 0 THEN [r EXCEPT !.pc = "window"] ELSE NextStep(r)

Polling == host.polls > 0
Move ==
  /\ host.pc = "move" /\ ~Polling
  /\ \/ host' = Onward(After(Count)) /\ chip' = Passed(Count) /\ UNCHANGED faults
     \/ Fault /\ Fails /\ \E n \in 0 .. Count : chip' = Passed(n)

\* The poll reads the pointer: go on with the table, wait and read again, or give up.
Poll ==
  /\ host.pc = "move" /\ Polling
  /\ \/ /\ UNCHANGED faults
        /\ LET ptr == chip.mem[Behind(0)].word IN
           CASE ptr # 0 -> Goes("table")
             [] ptr = 0 /\ host.polls < MaxPolls ->
                  host' = Begin(Read(ManifestPtr), [host EXCEPT !.polls = @ + 1])
             [] OTHER -> Fails
     \/ Fault /\ Fails
  /\ UNCHANGED chip

(***************************************************************************)
(* parse_host_table().                                                     *)
(***************************************************************************)
ExtHeader == 1    \* words of the header of the extended table
TlvHeader == 1    \* and of a tlv
YapsSize  == 2    \* words of a yaps table
Tlvs == [tag : {"yaps", "other"}, len : 0 .. TableMax]

\* The table is read once its length is one it may have.
ReadTable ==
  /\ host.pc = "table"
  /\ \/ /\ \E len \in 0 .. TableMax + 1 :
             IF len < ExtHeader \/ len > TableMax THEN Fails
             ELSE host' = [host EXCEPT !.pc = "walk", !.table = [NoTable EXCEPT !.head = ExtHeader, !.len = len]]
        /\ UNCHANGED faults
     \/ Fault /\ Fails
  /\ UNCHANGED chip

\* A turn of the loop over its tlvs, or what follows the loop.
Walk ==
  /\ host.pc = "walk"
  /\ LET w == host.table IN
     IF w.head + TlvHeader <= w.len
     THEN \E t \in Tlvs :
            IF t.len < TlvHeader \/ w.head + t.len > w.len THEN Fails
            ELSE host' = [host EXCEPT !.table =
                            [w EXCEPT !.head = @ + t.len,
                                      !.found = IF t.tag = "yaps" /\ t.len >= TlvHeader + YapsSize THEN w.head ELSE @]]
     ELSE IF w.found = 0 THEN Fails ELSE Goes("ready")
  /\ UNCHANGED <<chip, faults>>
-----------------------------------------------------------------------------
(***************************************************************************)
(* The chip (external): a triggered firmware may publish its host table.   *)
(***************************************************************************)
Publish ==
  /\ chip.triggered /\ chip.runs = 0
  /\ chip' = [chip EXCEPT !.runs = host.init, !.mem[ManifestPtr] = [init |-> 0, word |-> 1],
                          !.image = [a \in Image |-> chip.mem[a]]]
  /\ UNCHANGED <<host, faults>>

ChipInit ==
  /\ host = Stopped /\ faults = 0
  /\ chip = [low |-> 0, high |-> 0, runs |-> 0, triggered |-> FALSE, image |-> <<>>,
             mem |-> [a \in 0 .. Top |-> [init |-> 0, word |-> 0]]]

ChipNext == HalowInit \/ Startup \/ Load \/ SetWindow \/ Move \/ Poll \/ ReadTable \/ Walk \/ Publish
ChipSpec == ChipInit /\ [][ChipNext]_chipVars

(***************************************************************************)
(* Properties.                                                             *)
(***************************************************************************)
\* "let get_host_table_ptr detect the firmware republishing the pointer" (load_firmware()): when
\* `halow init` has a host table, the firmware that published it was started by this very init
\* and saw an image all of whose words this init had written, each at its own address, however
\* often earlier inits failed half-way and whatever pointer and window they left behind; and the
\* yaps table it takes lies within the extended table.
ReadyRunsOwnImage ==
  /\ host.pc = "ready" => host.table.found > 0 /\ host.table.found + TlvHeader + YapsSize <= host.table.len
  /\ host.pc \in {"table", "walk", "ready"} =>
       /\ chip.runs = host.init
       /\ \A a \in Image : chip.image[a] = [init |-> host.init, word |-> a]
=============================================================================
