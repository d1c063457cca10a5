------------------------------- MODULE MCTcp -------------------------------
(***************************************************************************)
(* Constants for model checking Tcp: scripts of send() calls, who closes   *)
(* when, and initial sequence numbers next to the end of the sequence      *)
(* space, so that every transfer wraps around it.                          *)
(***************************************************************************)
EXTENDS Tcp

(* What the client sends on its first connection; nobody sends on another. *)
ClientSends(lengths) ==
  [e \in Ends |-> [n \in 1..MaxOpens |-> IF e = "client" /\ n = 1 THEN lengths ELSE <<>>]]

SendsNothing == ClientSends(<<>>)
SendsOne == ClientSends(<<1>>)
SendsTwo == ClientSends(<<2>>)
SendsThree == ClientSends(<<1, 2>>)

NearWrap == [e \in Ends |-> [n \in 1..MaxOpens |-> IF e = "client" THEN SeqSpace - 2 ELSE 0]]

NobodyWaits == {}
ServerWaits == {"server"}
NobodyCloses == Ends

(* What the theorems about the stream suppose holds wherever an end opens   *)
(* its Conn once.                                                          *)
ASSUME MCStreamSizes == MaxOpens = 1 => StreamSizes
=============================================================================
