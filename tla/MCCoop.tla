-------------------------------- MODULE MCCoop --------------------------------
(* Instances of Coop for TLC: one kit of calls per behaviour, so that the state
   spaces add up instead of multiplying. *)
EXTENDS Coop

MCKits ==
  { [start |-> 2, fuel |-> 4, calls |-> {"single", "notify", "cancel"}],
    [start |-> 3, fuel |-> 4, calls |-> {"lock", "yield", "cancel"}],
    [start |-> 3, fuel |-> 2, calls |-> {"multi", "cancel"}],
    [start |-> 2, fuel |-> 4, calls |-> {"ext", "cancel"}],
    [start |-> 2, fuel |-> 3, calls |-> {"nested", "cancel", "child"}],
    [start |-> 1, fuel |-> 3, calls |-> {"select", "sleep"}],
    [start |-> 1, fuel |-> 2, calls |-> {"select", "child", "sleep"}],
    [start |-> 1, fuel |-> 2, calls |-> {"select", "child", "yield"}],
    [start |-> 1, fuel |-> 1, calls |-> {"select", "spawn", "sleep"}],
    [start |-> 2, fuel |-> 1, calls |-> {"join", "spawn", "sleep"}],
    [start |-> 2, fuel |-> 3, calls |-> {"join", "yield", "cancel"}] }

\* Two tasks wait for the same external event, as two frames under transmission do.
CrowdKits == { [start |-> 3, fuel |-> 3, calls |-> {"ext", "cancel", "crowd"}] }
=============================================================================
