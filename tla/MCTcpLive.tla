----------------------------- MODULE MCTcpLive -----------------------------
(***************************************************************************)
(* Two instances for the liveness of Tcp; a behaviour is one of either.    *)
(* "flow" is the instance of the constants: octets through a ring smaller  *)
(* than their number, a network with faults, and nobody closes.  "closes"  *)
(* adds close() and leaves the rest out: with all of it in one instance,   *)
(* repeated fins cross the acknowledgements of repeated octets in more     *)
(* states than TLC can check liveness over.                                *)
(***************************************************************************)
EXTENDS MCTcp

VARIABLE instance

liveVars == <<vars, instance>>

(* One octet, a network without faults, and both ends close: the client at *)
(* once, the server when it has received all there is.                     *)
Closes == INSTANCE Tcp WITH Sends <- SendsOne, CloseAfterEof <- ServerWaits, MaxFaults <- 0

LiveInit == Init /\ instance \in {"flow", "closes"}

Within(flows, closes) ==
  /\ \/ instance = "flow" /\ flows
     \/ instance = "closes" /\ closes
  /\ UNCHANGED instance

LiveIn(e) == Within(InTask(e), Closes!InTask(e))
LiveTx(e) == Within(TxTask(e), Closes!TxTask(e))
LiveRx(e) == Within(RxTask(e), Closes!RxTask(e))

LiveNext ==
  \/ \E e \in Ends : LiveIn(e) \/ LiveTx(e) \/ LiveRx(e)
  \/ Within(\E e \in Ends : Tick(e) \/ Lose(e), \E e \in Ends : Closes!Tick(e) \/ Closes!Lose(e))

(* The fairness of Tcp, of the instance at hand.                           *)
LiveSpec ==
  /\ LiveInit /\ [][LiveNext]_liveVars
  /\ \A e \in Ends : WF_liveVars(LiveIn(e)) /\ WF_liveVars(LiveTx(e)) /\ WF_liveVars(LiveRx(e))
=============================================================================
