-------------------------------- MODULE Clock ---------------------------------
(***************************************************************************)
(* The ekh05's time (ekh05/hal/time.cpp): milliseconds counted by the      *)
(* SysTick handler, and a cycle counter that goes on while now() reads the *)
(* two, half a word at a time.                                             *)
(***************************************************************************)
EXTENDS Integers, Sequences

CONSTANTS
  Reload,       \* reload: the counter's highest value
  CyclesPerUs,  \* cycles_per_us
  Half,         \* values of one half of uptime_ms: 2^32
  MaxCall,      \* bound: cycles a call takes; too few for the low half to go round
  MaxTime       \* bound: cycles counted

VARIABLES
  systick,   \* the counter, and PendSTSet
  uptime,    \* uptime_ms, in halves
  reader,    \* now(): pc, what it has read, the time of the call, and the result
  time       \* history: cycles since the start
clockVars == <<systick, uptime, reader, time>>

Period   == Reload + 1

ClockSizes ==
  /\ {Reload, CyclesPerUs, Half, MaxCall} \subseteq Nat \ {0}
  /\ Period % CyclesPerUs = 0 /\ MaxCall <= (Half - 2) * Period

Unread   == [low |-> -1, high |-> -1]
Whole(w) == w.high * Half + w.low

Bounded == time < MaxTime /\ (reader.pc # "idle" => time - reader.since < MaxCall)

\* One cycle.  The handler is never a whole period late.
Tick(s) == [count |-> IF s.count = 0 THEN Reload ELSE s.count - 1, pending |-> s.pending \/ s.count = 1]
Elapse ==
  /\ Bounded /\ ~(systick.pending /\ systick.count = 1)
  /\ systick' = Tick(systick) /\ time' = time + 1

\* systick_handler(): entering it takes a cycle or more and clears the flag.
SystickHandler ==
  /\ systick.pending /\ Bounded
  /\ systick' = Tick([systick EXCEPT !.pending = FALSE]) /\ time' = time + 1
  /\ uptime' = IF uptime.low = Half - 1 THEN [low |-> 0, high |-> uptime.high + 1]
               ELSE [uptime EXCEPT !.low = @ + 1]
  /\ UNCHANGED reader

\* Something else runs: the caller between two calls, or another interrupt.
Pass == Elapse /\ UNCHANGED <<uptime, reader>>

Now ==
  /\ reader.pc = "idle" /\ Elapse
  /\ reader' = [pc |-> "ms", ms |-> Unread, again |-> Unread, pending |-> <<>>, cycles |-> 0, since |-> time, us |-> 0]
  /\ UNCHANGED uptime

\* The halves of a volatile u64 are read one by one, in an order the compiler chooses.
ReadHalf(half) ==
  LET word == reader.pc
      read == [reader[word] EXCEPT ![half] = uptime[half]]
  IN /\ word \in {"ms", "again"} /\ reader[word][half] = -1 /\ Elapse
     /\ reader' = [reader EXCEPT ![word] = read,
                     !.pc = IF -1 \in {read.low, read.high} THEN word
                            ELSE IF word = "ms" THEN "pending" ELSE "compare"]
     /\ UNCHANGED uptime

ReadPending ==
  /\ reader.pc = "pending" /\ Elapse
  /\ reader' = [reader EXCEPT !.pending = Append(@, systick.pending),
                              !.pc = IF reader.pending = <<>> THEN "cycles" ELSE "again"]
  /\ UNCHANGED uptime

ReadCycles ==
  /\ reader.pc = "cycles" /\ Elapse
  /\ reader' = [reader EXCEPT !.cycles = systick.count, !.pc = "pending"]
  /\ UNCHANGED uptime

\* faulty: a wrap between the reads of the flag is not noticed
MsStable(r) == r.ms = r.again
Stable(r)   == r.ms = r.again /\ r.pending[1] = r.pending[2]

Us(r) ==
  (Whole(r.ms) + (IF r.pending[1] THEN 1 ELSE 0)) * (Period \div CyclesPerUs) + ((Reload - r.cycles) \div CyclesPerUs)

Compare ==
  /\ reader.pc = "compare" /\ Elapse
  /\ reader' = IF Stable(reader) THEN [reader EXCEPT !.pc = "idle", !.us = Us(reader)]
               ELSE [reader EXCEPT !.pc = "ms", !.ms = Unread, !.again = Unread, !.pending = <<>>]
  /\ UNCHANGED uptime

\* start_systick() long ago: a period before the low half goes round.
ClockInit ==
  /\ systick = [count |-> Reload, pending |-> FALSE]
  /\ uptime = [low |-> Half - 1, high |-> 0] /\ time = (Half - 1) * Period
  /\ reader = [pc |-> "idle", ms |-> Unread, again |-> Unread, pending |-> <<>>, cycles |-> 0, since |-> 0, us |-> 0]

ClockNext ==
  \/ SystickHandler \/ Pass \/ Now \/ ReadPending \/ ReadCycles \/ Compare
  \/ \E half \in {"low", "high"} : ReadHalf(half)

ClockSpec == ClockInit /\ [][ClockNext]_clockVars

\* What now() returns was the time at some moment of the call, however the counter wraps and the
\* handler runs between its reads: it is never torn, a period short or a period ahead.
TimeOfTheCall ==
  reader.pc = "idle" => /\ reader.since \div CyclesPerUs <= reader.us
                        /\ reader.us <= time \div CyclesPerUs
=============================================================================
