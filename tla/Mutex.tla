--------------------------------- MODULE Mutex ---------------------------------
(***************************************************************************)
(* What coop::Mutex promises: one owner at a time, granted in the order of *)
(* the calls of lock().  unlock() hands the mutex to the longest waiting   *)
(* task, which learns of it when it is resumed; if it is cancelled before  *)
(* that, nobody is left to unlock and the mutex is lost.                   *)
(***************************************************************************)
EXTENDS Integers, Sequences, SequencesExt

CONSTANT Tasks   \* positive numbers

VARIABLES owner, told, queue

Free == 0
Lost == -1

Init == owner = Free /\ told = FALSE /\ queue = <<>>

Acquire(t) == owner = Free /\ owner' = t /\ told' = TRUE /\ UNCHANGED queue

Enqueue(t) ==
  /\ owner \notin {Free, t} /\ t \notin ToSet(queue)
  /\ queue' = Append(queue, t) /\ UNCHANGED <<owner, told>>

Release ==
  /\ told
  /\ owner' = IF queue = <<>> THEN Free ELSE Head(queue)
  /\ told' = FALSE
  /\ queue' = IF queue = <<>> THEN queue ELSE Tail(queue)

Learn == owner \in Tasks /\ told' = TRUE /\ UNCHANGED <<owner, queue>>

Withdraw(t) ==
  /\ t \in ToSet(queue)
  /\ queue' = RemoveFirst(queue, t)
  /\ UNCHANGED <<owner, told>>

Abandon == owner \in Tasks /\ ~told /\ owner' = Lost /\ UNCHANGED <<told, queue>>

Next == Release \/ Learn \/ Abandon \/ \E t \in Tasks : Acquire(t) \/ Enqueue(t) \/ Withdraw(t)

Spec == Init /\ [][Next]_<<owner, told, queue>>
=============================================================================
