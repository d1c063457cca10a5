--------------------------------- MODULE Link ---------------------------------
(***************************************************************************)
(* The link: connect.cpp and scan.cpp, with the console task that calls    *)
(* them one command at a time, the link_task that every connection leaves  *)
(* behind, and the chip and the access point at the other end.             *)
(*                                                                         *)
(* The console's work is a plan, the steps still to take: a command to the *)
(* chip, or an exchange of frames with the access point.  A step that      *)
(* fails replaces the plan by what the code does on that path.  The        *)
(* command channel is Driver's, seen from above: one command at a time, a  *)
(* second one is refused, and a command the host gave up may still have    *)
(* been performed.  As in Driver, a round gathers the runnable tasks and    *)
(* each of them takes one step.                                            *)
(***************************************************************************)
EXTENDS Integers, Sequences, SequencesExt, FiniteSets, FiniteSetsExt

CONSTANTS
  MaxVif,        \* interfaces the chip has room for
  MaxTasks,      \* bound: link_task instances
  Loads,         \* bounds, one chosen per behaviour: console commands; frames and events nobody
                 \* asked for (noise); failed commands and transmissions and timeouts (trouble)
  BacklogMax,    \* rx_backlog_max
  EventRing,     \* event_ring_size
  AuthTries      \* auth_tries

LinkSizes ==
  /\ {MaxVif, BacklogMax, EventRing, AuthTries} \subseteq Nat \ {0}
  /\ \A l \in Loads : {l.commands, l.noise, l.trouble} \subseteq Nat

VARIABLES
  secure,     \* whether the access point wants encryption; the password given agrees
  console,    \* what the console task does: its plan and where it is in the first step of it
  tasks,       \* the link_task instances
  handle,     \* link_handle
  link,       \* the global link status
  cmd,        \* the command in flight: busy is cmd # NoCmd
  events,     \* the event ring
  air,        \* the received backlog
  ap,         \* replies the access point may still send
  chip,       \* the chip's interfaces, and whether it scans
  due,        \* tasks gathered for this round and not yet resumed
  count       \* what is left of each bound

linkVars == <<secure, console, tasks, handle, link, cmd, events, air, ap, chip, due, count>>

Vifs    == 0 .. MaxVif - 1
NoVif   == MaxVif                          \* vif_invalid
Console == 0                               \* owner of a command; link tasks are 1 .. MaxTasks
LinkIds == 1 .. MaxTasks
NoLink  == [up |-> FALSE, encrypted |-> FALSE, vif |-> 0, aid |-> FALSE]     \* LinkStatus()
NoCmd   == [owner |-> -1, do |-> "none", vif |-> NoVif, answer |-> "none"]

Step(part, do) == [part |-> part, do |-> do]
Steps(part, s) == [i \in DOMAIN s |-> Step(part, s[i])]

\* scan().  It builds its request when it has the interface already, and returns with that when
\* the name of the network makes the request too long; connect() limits the name, `halow scan' not.
ScanPlan     == Steps("scan", <<"AddInterface", "HwScan", "collect", "RemoveInterface">>)
LongScanPlan == Steps("scan", <<"AddInterface">>)

\* configure_channel(), configure_qos(): one command per setting; install_key() for both keys.
ChannelPlan == <<"SetChannel", "SetTxPower">>
QosPlan     == [aci \in 1 .. 4 |-> "SetQosParams"]
KeysPlan    == <<"InstallPtk", "InstallGtk">>

\* authenticate() of an open network, sae_authenticate() of a protected one.
AuthPlan == IF secure THEN <<"commit", "confirm">> ELSE <<"auth">>

\* faulty: the port is authorized before the keys are installed
AssociatePlanEarly ==
  <<"Authenticated", "assoc">> \o (IF secure THEN <<"Authorized", "m1", "m3">> \o KeysPlan ELSE <<"Authorized">>)

\* From the authentication to the authorized port.
AssociatePlan ==
  <<"Authenticated", "assoc">> \o (IF secure THEN <<"m1", "m3">> \o KeysPlan ELSE <<>>) \o <<"Authorized">>

ConnectPlan ==
  Steps("connect", <<"AddInterface">> \o ChannelPlan \o <<"BssConfig", "ConfigPs">> \o QosPlan
                     \o AuthPlan \o AssociatePlan \o <<"up">>)

Cleanup        == Steps("cleanup", <<"RemoveInterface", "reset">>)
DisconnectPlan == Steps("cleanup", <<"deauth", "None", "RemoveInterface", "reset">>)

Exchanges == {"auth", "commit", "confirm", "assoc", "m1", "m3", "deauth"}
Local     == {"collect", "up", "reset"}
Todo      == Head(console.plan)
At(do, phase) == console.plan # <<>> /\ Todo.do = do /\ console.phase = phase

Idle == [plan |-> <<>>, phase |-> "ready", tries |-> 0, vif |-> NoVif, found |-> FALSE]

(***************************************************************************)
(* Going on after a step.                                                  *)
(***************************************************************************)
Continues(plan) ==
  IF plan = <<>> THEN Idle ELSE [console EXCEPT !.plan = plan, !.phase = "ready", !.tries = 0]
Advance         == Continues(Tail(console.plan))

\* faulty: a failure on the way up returns without the cleanup
FailedLazily ==
  IF Todo.part = "cleanup" THEN Advance
  ELSE IF Todo = Step("scan", "HwScan") THEN Continues(Steps("lost", <<"RemoveInterface">>))
  ELSE IF Todo.part \in {"lost", "scan"} /\ Todo.do # "AddInterface" THEN Advance
  ELSE Idle

\* What follows a step that failed: the teardown ignores it; a scan without an interface, or a
\* connect() without one, returns; a scan that did not start removes its interface and fails;
\* anything later in connect() breaks out to the cleanup.
Failed ==
  IF Todo.part = "cleanup" THEN Advance
  ELSE IF Todo.do = "AddInterface" THEN Idle
  ELSE IF Todo = Step("scan", "HwScan") THEN Continues(Steps("lost", <<"RemoveInterface">>))
  ELSE IF Todo.part \in {"lost", "scan"} THEN Advance
  ELSE Continues(Cleanup)

Resumed(t) == t \in due /\ due' = due \ {t}

Trouble == count.trouble > 0 /\ count' = [count EXCEPT !.trouble = @ - 1]

\* Tasks a round finds runnable, and those whose timer or transmission may be over.
CmdAnswered(t) == cmd.owner = t /\ cmd.answer # "none"
Certain ==
  {t \in LinkIds : \/ tasks[t] \in {"loop", "remove", "reset"}
                   \/ tasks[t] = "waiting" /\ air # <<>>
                   \/ tasks[t] = "removing" /\ CmdAnswered(t)}
    \cup IF /\ console.plan # <<>>
           /\ IF console.phase = "sent" THEN CmdAnswered(Console)
              ELSE (console.phase = "wait" \/ Todo.do \in {"m1", "m3", "collect"}) => air # <<>>
        THEN {Console} ELSE {}
Possible ==
  {t \in LinkIds : tasks[t] \in {"waiting", "sending", "delivering"}}
    \cup IF console.plan # <<>> /\ console.phase # "sent" THEN {Console} ELSE {}

Gather ==
  /\ due = {}
  /\ \E late \in SUBSET (Possible \ Certain) : due' = Certain \cup late
  /\ due' # {}
  /\ UNCHANGED <<secure, console, tasks, handle, link, cmd, events, air, ap, chip, count>>

(***************************************************************************)
(* The console starts a command.                                           *)
(***************************************************************************)
MayStart == console.plan = <<>> /\ count.commands > 0
            /\ count' = [count EXCEPT !.commands = @ - 1]

\* faulty: connect() does not ask whether the link is up
StartConnectAnyway ==
  /\ MayStart
  /\ console' = [Idle EXCEPT !.plan = ScanPlan \o Steps("connect", <<"found">>) \o ConnectPlan]
  /\ UNCHANGED <<due, secure, tasks, handle, link, cmd, events, air, ap, chip>>

StartConnect ==
  /\ MayStart /\ ~link.up
  /\ console' = [Idle EXCEPT !.plan = ScanPlan \o Steps("connect", <<"found">>) \o ConnectPlan]
  /\ UNCHANGED <<due, secure, tasks, handle, link, cmd, events, air, ap, chip>>

\* `halow scan`, which does not ask about the link, and a command such as `halow ver`.
StartScan ==
  /\ MayStart
  /\ \E plan \in {ScanPlan, LongScanPlan, Steps("scan", <<"GetVersion">>)} : console' = [Idle EXCEPT !.plan = plan]
  /\ UNCHANGED <<due, secure, tasks, handle, link, cmd, events, air, ap, chip>>

\* disconnect(): the task is cancelled where it is, before the teardown.
StartDisconnect ==
  /\ MayStart /\ link.up
  /\ tasks' = IF handle \in LinkIds THEN [tasks EXCEPT ![handle] = "over"] ELSE tasks
  /\ link' = [link EXCEPT !.up = FALSE]
  /\ console' = [Idle EXCEPT !.plan = DisconnectPlan]
  /\ UNCHANGED <<due, secure, handle, cmd, events, air, ap, chip>>

(***************************************************************************)
(* send_command(), from whichever task.                                    *)
(***************************************************************************)
Sends(owner, do, vif) == cmd' = [NoCmd EXCEPT !.owner = owner, !.do = do, !.vif = vif]
\* Refused: an interface that was to be removed stays.
Refused(do, vif) ==
  chip' = IF do = "RemoveInterface" THEN [chip EXCEPT !.stray = @ \cup ({vif} \cap DOMAIN chip.ifaces)] ELSE chip
VifOf(step) == IF step.part \in {"scan", "lost"} THEN console.vif ELSE link.vif

ConsoleSends ==
  /\ Resumed(Console)
  /\ console.plan # <<>> /\ console.phase = "ready"
  /\ Todo.do \notin Exchanges \cup Local \cup {"found"}
  /\ IF cmd # NoCmd
     THEN console' = Failed /\ Refused(Todo.do, VifOf(Todo)) /\ UNCHANGED cmd
     ELSE /\ Sends(Console, Todo.do, VifOf(Todo)) /\ console' = [console EXCEPT !.phase = "sent"]
          /\ UNCHANGED chip
  /\ UNCHANGED <<secure, tasks, handle, link, events, air, ap, count>>

\* The call returns.  scan() drops stale events and, with a request that is too long, leaves the
\* interface behind; connect() keeps the interface it added; the last key marks the link encrypted.
ConsoleAnswered ==
  /\ Resumed(Console)
  /\ console.phase = "sent" /\ cmd.owner = Console /\ cmd.answer # "none"
  /\ cmd' = NoCmd
  /\ LET ok     == cmd.answer = "ok"
         added  == ok /\ Todo.do = "AddInterface"
         inScan == Todo.part = "scan"
     IN  /\ console' = IF ~ok THEN Failed
                       ELSE [Advance EXCEPT !.vif = IF added /\ inScan THEN cmd.vif ELSE @]
         /\ link' = CASE added /\ ~inScan                -> [link EXCEPT !.vif = cmd.vif]
                      [] ok /\ Todo.do = "InstallGtk"    -> [link EXCEPT !.encrypted = TRUE]
                      [] OTHER                           -> link
         /\ events' = IF added /\ inScan THEN <<>> ELSE events
         /\ chip' = IF added /\ inScan /\ Tail(console.plan) = <<>>
                    THEN [chip EXCEPT !.stray = @ \cup {cmd.vif}] ELSE chip
  /\ UNCHANGED <<secure, tasks, handle, air, ap, count>>

(***************************************************************************)
(* scan() collects until the done event, and connect() looks at the result. *)
(***************************************************************************)
Collect ==
  /\ Resumed(Console)
  /\ At("collect", "ready")
  /\ LET frame == air # <<>>
         done  == Contains(events, "scandone")
     IN  /\ air' = IF frame THEN Tail(air) ELSE air
         /\ events' = <<>>
         /\ console' = [(IF done THEN Advance ELSE console)
                          EXCEPT !.found = @ \/ (frame /\ Head(air) = "probe")]
  /\ UNCHANGED <<secure, tasks, handle, link, cmd, ap, chip, count>>

CollectTimeout ==
  /\ Resumed(Console)
  /\ At("collect", "ready") /\ Trouble
  /\ console' = Continues(Steps("lost", <<"Abort", "RemoveInterface">>))
  /\ UNCHANGED <<secure, tasks, handle, link, cmd, events, air, ap, chip>>

\* connect() after the scan: no such access point, or go on with it.
Found ==
  /\ Resumed(Console)
  /\ At("found", "ready")
  /\ IF console.found
     THEN console' = Advance /\ link' = [link EXCEPT !.encrypted = FALSE]
     ELSE console' = Idle /\ UNCHANGED link
  /\ UNCHANGED <<secure, tasks, handle, cmd, events, air, ap, chip, count>>

(***************************************************************************)
(* Exchanges with the access point.                                        *)
(***************************************************************************)
\* What it may answer to a frame of ours.
Reply == [auth |-> {"auth"}, commit |-> {"commit", "token"}, confirm |-> {"confirm"},
          assoc |-> IF secure THEN {"assoc", "m1"} ELSE {"assoc"}, m1 |-> {"m3"}, m3 |-> {}, deauth |-> {}]
Mgmt  == {"auth", "commit", "token", "confirm"}     \* the frames wait_mgmt(Fc::Auth) returns

\* tx_mgmt(): the handshake starts with the other side.
Transmit ==
  /\ Resumed(Console)
  /\ console.plan # <<>> /\ Todo.do \in Exchanges \ {"m1", "m3"} /\ console.phase = "ready"
  /\ \/ /\ ap' = ap \cup Reply[Todo.do]
        /\ console' = IF Todo.do = "deauth" THEN Advance ELSE [console EXCEPT !.phase = "wait"]
        /\ UNCHANGED count
     \/ Trouble /\ console' = Failed /\ UNCHANGED ap
  /\ UNCHANGED <<secure, tasks, handle, link, cmd, events, air, chip>>

\* authenticate() and the commit exchange try again, everything else gives up.
Again ==
  IF Todo.do \in {"auth", "commit"} /\ console.tries + 1 < AuthTries
  THEN [console EXCEPT !.phase = "ready", !.tries = @ + 1]
  ELSE Failed

WaitTimeout ==
  /\ Resumed(Console)
  /\ console.plan # <<>> /\ Todo.do \in Exchanges
  /\ console.phase = IF Todo.do \in {"m1", "m3"} THEN "ready" ELSE "wait"
  /\ Trouble
  /\ console' = Again
  /\ UNCHANGED <<secure, tasks, handle, link, cmd, events, air, ap, chip>>

\* wait_mgmt() and wait_sae_auth(): the awaited frame is accepted or refused; another frame of
\* the same type ends the wait, any other frame is skipped.
ReceiveMgmt ==
  /\ Resumed(Console)
  /\ console.plan # <<>> /\ Todo.do \in Exchanges \ {"m1", "m3"} /\ console.phase = "wait"
  /\ air' = IF air = <<>> THEN air ELSE Tail(air)
  /\ LET f == IF air = <<>> THEN "nothing" ELSE Head(air) IN
     CASE f = Todo.do ->
            \/ /\ console' = Advance
               /\ link' = [link EXCEPT !.aid = @ \/ f = "assoc"] /\ UNCHANGED count
            \/ Trouble /\ console' = Failed /\ UNCHANGED link
       [] f # Todo.do /\ f \in Mgmt /\ Todo.do \in Mgmt -> console' = Again /\ UNCHANGED <<link, count>>
       [] OTHER                                          -> UNCHANGED <<console, link, count>>
  /\ UNCHANGED <<secure, tasks, handle, cmd, events, ap, chip>>

\* four_way_handshake(): a message is answered, whatever else arrives is dropped.
Handshake ==
  /\ Resumed(Console)
  /\ console.plan # <<>> /\ Todo.do \in {"m1", "m3"}
  /\ air' = IF air = <<>> THEN air ELSE Tail(air)
  /\ IF air # <<>> /\ Head(air) = Todo.do
     THEN \/ console' = Advance /\ ap' = ap \cup Reply[Todo.do] /\ UNCHANGED count
          \/ Trouble /\ console' = Failed /\ UNCHANGED ap
     ELSE UNCHANGED <<console, ap, count>>
  /\ UNCHANGED <<secure, tasks, handle, link, cmd, events, chip>>

(***************************************************************************)
(* The ends of connect() and disconnect().                                 *)
(***************************************************************************)
\* The link is up before its task is pushed, which fails when the heap is exhausted.
Up ==
  /\ Resumed(Console)
  /\ At("up", "ready")
  /\ link' = [link EXCEPT !.up = TRUE]
  /\ \/ Trouble /\ console' = Failed /\ UNCHANGED <<tasks, handle>>
     \/ /\ console' = Idle /\ UNCHANGED count
        /\ \E t \in LinkIds :
             /\ tasks[t] = "none" /\ \A s \in LinkIds : s < t => tasks[s] # "none"
             /\ tasks' = [tasks EXCEPT ![t] = "loop"] /\ handle' = t
  /\ UNCHANGED <<secure, cmd, events, air, ap, chip>>

Reset ==
  /\ Resumed(Console)
  /\ At("reset", "ready")
  /\ link' = NoLink /\ console' = Idle
  /\ UNCHANGED <<secure, tasks, handle, cmd, events, air, ap, chip, count>>
-----------------------------------------------------------------------------
(***************************************************************************)
(* link_task().                                                            *)
(***************************************************************************)
Goes(t, pc) == tasks' = [tasks EXCEPT ![t] = pc]

\* The head of the loop: events, then a keepalive or the wait for a frame.
LinkLoop(t) ==
  /\ Resumed(t)
  /\ tasks[t] = "loop"
  /\ events' = IF link.up THEN <<>> ELSE events
  /\ LET up == link.up /\ ~Contains(events, "loss") IN
       /\ link' = [link EXCEPT !.up = up]
       /\ \E pc \in IF up THEN {"waiting", "sending"} ELSE {"remove"} : Goes(t, pc)
  /\ UNCHANGED <<secure, console, handle, cmd, air, ap, chip, count>>

\* The keepalive is on its way, or the stack is done with a frame.
LinkSent(t) ==
  /\ Resumed(t)
  /\ tasks[t] \in {"sending", "delivering"}
  /\ Goes(t, IF tasks[t] = "sending" THEN "waiting" ELSE "loop")
  /\ UNCHANGED <<secure, console, handle, link, cmd, events, air, ap, chip, count>>

\* wait_rx() and handle_air_frame().
LinkReceives(t) ==
  /\ Resumed(t)
  /\ tasks[t] = "waiting"
  /\ IF air = <<>>
     THEN Goes(t, "loop") /\ UNCHANGED <<link, air>>
     ELSE /\ air' = Tail(air)
          /\ link' = [link EXCEPT !.up = @ /\ Head(air) # "deauth"]
          /\ Goes(t, IF Head(air) = "data" THEN "delivering" ELSE "loop")
  /\ UNCHANGED <<secure, console, handle, cmd, events, ap, chip, count>>

\* The involuntary teardown: a command in flight refuses it, and its result is ignored.
LinkRemoves(t) ==
  /\ Resumed(t)
  /\ tasks[t] = "remove"
  /\ IF cmd # NoCmd
     THEN Goes(t, "reset") /\ Refused("RemoveInterface", link.vif) /\ UNCHANGED cmd
     ELSE Sends(t, "RemoveInterface", link.vif) /\ Goes(t, "removing") /\ UNCHANGED chip
  /\ UNCHANGED <<secure, console, handle, link, events, air, ap, count>>

LinkRemoved(t) ==
  /\ Resumed(t)
  /\ tasks[t] = "removing" /\ cmd.owner = t /\ cmd.answer # "none"
  /\ cmd' = NoCmd /\ Goes(t, "reset")
  /\ UNCHANGED <<secure, console, handle, link, events, air, ap, chip, count>>

LinkEnds(t) ==
  /\ Resumed(t)
  /\ tasks[t] = "reset"
  /\ link' = NoLink /\ Goes(t, "over")
  /\ UNCHANGED <<secure, console, handle, cmd, events, air, ap, chip, count>>
-----------------------------------------------------------------------------
(***************************************************************************)
(* The chip and the access point (external).                               *)
(***************************************************************************)
NewVif == Min({v \in Vifs : v \notin DOMAIN chip.ifaces} \cup {NoVif})

\* A command the chip accepts, and its interfaces after it.
Accepts ==
  CASE cmd.do = "AddInterface" -> NewVif # NoVif
    [] cmd.do \in {"RemoveInterface", "None", "Authenticated", "Authorized", "InstallPtk", "InstallGtk"}
                               -> cmd.vif \in DOMAIN chip.ifaces
    [] OTHER                   -> TRUE
Performed ==
  LET i == chip.ifaces IN
  CASE cmd.do = "AddInterface"    -> [v \in DOMAIN i \cup {NewVif} |->
                                        IF v = NewVif THEN [sta |-> "None", keys |-> {}] ELSE i[v]]
    [] cmd.do = "RemoveInterface" -> [v \in DOMAIN i \ {cmd.vif} |-> i[v]]
    [] cmd.do \in {"None", "Authenticated", "Authorized"} -> [i EXCEPT ![cmd.vif].sta = cmd.do]
    [] cmd.do \in {"InstallPtk", "InstallGtk"}            -> [i EXCEPT ![cmd.vif].keys = @ \cup {cmd.do}]
    [] OTHER                      -> i

\* Performed and answered in time.
ChipPerforms ==
  /\ cmd # NoCmd /\ cmd.answer = "none" /\ Accepts
  /\ chip' = [chip EXCEPT !.ifaces = Performed, !.scans = (@ \/ cmd.do = "HwScan") /\ cmd.do # "Abort",
                          !.stray = @ \cap DOMAIN Performed]
  /\ cmd' = [cmd EXCEPT !.answer = "ok", !.vif = IF cmd.do = "AddInterface" THEN NewVif ELSE @]
  /\ UNCHANGED <<secure, console, tasks, handle, link, events, air, ap, count, due>>

\* Refused, lost on the way, or performed with the answer lost or too late.  The chip remembers
\* the interfaces nobody will ask it to remove: chip.stray.
ChipFails ==
  /\ cmd # NoCmd /\ cmd.answer = "none" /\ (Trouble \/ (~Accepts /\ UNCHANGED count))
  /\ cmd' = [cmd EXCEPT !.answer = "failed"]
  /\ \E performed \in {Accepts, FALSE} :
       LET after == IF performed THEN Performed ELSE chip.ifaces
           new   == DOMAIN after \ DOMAIN chip.ifaces
           kept  == IF cmd.do = "RemoveInterface" THEN {cmd.vif} \cap DOMAIN after ELSE {}
       IN chip' = [chip EXCEPT !.ifaces = after, !.stray = (@ \cup new \cup kept) \cap DOMAIN after]
  /\ UNCHANGED <<secure, console, tasks, handle, link, events, air, ap, due>>

Post(e)    == events' = IF Len(events) < EventRing THEN Append(events, e) ELSE events
Deliver(f) == air' = IF Len(air) < BacklogMax THEN Append(air, f) ELSE air
Noise      == count.noise > 0 /\ count' = [count EXCEPT !.noise = @ - 1]

ScanResult ==
  /\ chip.scans /\ ~Contains(air, "probe") /\ Deliver("probe")
  /\ UNCHANGED <<secure, console, tasks, handle, link, cmd, events, ap, chip, count, due>>

ScanDone ==
  /\ chip.scans /\ Post("scandone")
  /\ chip' = [chip EXCEPT !.scans = FALSE]
  /\ UNCHANGED <<secure, console, tasks, handle, link, cmd, air, ap, count, due>>

BeaconLoss ==
  /\ Noise /\ link.vif \in DOMAIN chip.ifaces /\ chip.ifaces[link.vif].sta = "Authorized"
  /\ Post("loss")
  /\ UNCHANGED <<secure, console, tasks, handle, link, cmd, air, ap, chip, due>>

ApReplies ==
  /\ \E f \in ap : Deliver(f) /\ ap' = ap \ {f}
  /\ UNCHANGED <<secure, console, tasks, handle, link, cmd, events, chip, count, due>>

ApSends ==
  /\ Noise /\ \E f \in {"deauth", "data"} : Deliver(f)
  /\ UNCHANGED <<secure, console, tasks, handle, link, cmd, events, ap, chip, due>>

LinkInit ==
  /\ due = {}
  /\ secure \in BOOLEAN
  /\ console = Idle /\ tasks = [t \in LinkIds |-> "none"] /\ handle = 0
  /\ link = NoLink /\ cmd = NoCmd /\ events = <<>> /\ air = <<>> /\ ap = {}
  /\ chip = [ifaces |-> <<>>, scans |-> FALSE, stray |-> {}]
  /\ count \in Loads

ConsoleStep ==
  \/ StartConnect \/ StartScan \/ StartDisconnect \/ ConsoleSends \/ ConsoleAnswered \/ Collect
  \/ CollectTimeout \/ Found \/ Transmit \/ WaitTimeout \/ ReceiveMgmt \/ Handshake \/ Up \/ Reset
LinkStep(t) ==
  LinkLoop(t) \/ LinkSent(t) \/ LinkReceives(t) \/ LinkRemoves(t) \/ LinkRemoved(t) \/ LinkEnds(t)
Outside ==
  ChipPerforms \/ ChipFails \/ ScanResult \/ ScanDone \/ BeaconLoss \/ ApReplies \/ ApSends

LinkNext == Gather \/ ConsoleStep \/ Outside \/ \E t \in LinkIds : LinkStep(t)
LinkSpec == LinkInit /\ [][LinkNext]_linkVars

(***************************************************************************)
(* Properties.                                                             *)
(***************************************************************************)
Alive == {t \in LinkIds : tasks[t] \notin {"none", "over"}}

\* "link.up is true here, so the task is still alive and the handle is valid" (disconnect()):
\* whenever the console may start a command, a link that is up has exactly one link_task, the one
\* link_handle names, which has not begun its teardown, and an interface of its own that the chip
\* has authorized.
UpIsSupervised ==
  (link.up /\ console.plan = <<>>) =>
             /\ Alive = {handle} /\ tasks[handle] \in {"loop", "waiting", "sending", "delivering"}
             /\ link.vif \in DOMAIN chip.ifaces /\ chip.ifaces[link.vif].sta = "Authorized"

\* "installs the ccmp keys before the port is authorized" (connect()): no interface is ever
\* authorized with a protected access point before both of its keys are in the chip.
KeysBeforePort ==
  secure => \A v \in DOMAIN chip.ifaces :
              chip.ifaces[v].sta = "Authorized" => chip.ifaces[v].keys = {"InstallPtk", "InstallGtk"}

\* Every path out of connect(), disconnect() and link_task(), and every path out of scan() but one,
\* gives the interface back: when nobody is at work the chip has no interface but that of a link
\* that is up, the ones a command left there that failed or that its caller took for failed, those
\* whose removal was refused because another command was in flight, and those of scans whose
\* request was too long to build, which return without a removal (scan.cpp:267).
InterfacesReturned ==
  (console.plan = <<>> /\ Alive = {}) => DOMAIN chip.ifaces \subseteq chip.stray
=============================================================================
