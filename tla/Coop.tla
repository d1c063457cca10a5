--------------------------------- MODULE Coop ---------------------------------
(***************************************************************************)
(* The cooperative runner of submodules/coop: the task tree, the rounds of *)
(* run(), timers, the three kinds of events, the mutex with its guard,     *)
(* select(), join(), cancellation and the nested run() of await().         *)
(*                                                                         *)
(* A task body is any sequence of calls into the library, one action per   *)
(* call; `kit' says which calls the bodies of this behaviour use and how   *)
(* many.  Interrupts (Raise) come between any two steps.                   *)
(* Operators take and return a "world", the record of all runner state, so *)
(* that destroy_task() can be written as a fold over a subtree.            *)
(***************************************************************************)
EXTENDS Integers, Sequences, FiniteSets, SequencesExt

CONSTANTS
  N,        \* bound: tasks ever created
  MaxTime,  \* bound: the clock
  Kits      \* set of [start: initial tasks, fuel: bound on the calls of a body, calls: their names]

ASSUME BoundsAssumption == N \in Nat \ {0} /\ MaxTime \in Nat

\* What select() runs lives in the frame of its caller, yet its branches are tasks of the root.
\* They would go on without that frame if the caller were cancelled, or if a branch could not be
\* destroyed for a nested run() below it; and a branch that joined the caller would wait for
\* itself.  No body is given these calls together, and no branch calls select() (Select).
ASSUME KitsAssumption ==
  \A k \in Kits : k.start \in 0 .. N /\ ("select" \in k.calls => k.calls \cap {"join", "cancel", "nested"} = {})

VARIABLES
  task,     \* [Ids -> Task]; 0 is Runner::root
  running,  \* Runner::running_tasks, Null where the slot was taken
  loops,    \* the run() calls on the stack, the innermost last
  single,   \* SingleEvent::waiter; event 0 is shared, event t is select's `done' in task t
  multi,    \* MultiEvent::waiters of the mutex or of a plain event
  held,     \* Mutex::held
  ext,      \* an ExtEvent: waiter, the owner of awaiter, available()
  flag,     \* any_ext_event_available
  now, kit

vars == <<task, running, loops, single, multi, held, ext, flag, now, kit>>

Root     == 0
Null     == -1
Notified == -2
Ids      == 0 .. N
Infinite == MaxTime + 1

Ready         == [by |-> "none", on |-> 0, till |-> Infinite]
By(b, e, t)   == [by |-> b, on |-> e, till |-> t]
Blank == [life |-> "unborn", parent |-> Root, children |-> <<>>, reason |-> Ready,
          owned |-> TRUE, zombie |-> FALSE, objective |-> 1, result |-> "none",
          guard |-> FALSE, pc |-> "free", branches |-> <<>>, complete |-> 0, used |-> 0]

World == [task |-> task, running |-> running, loops |-> loops, single |-> single,
          multi |-> multi, held |-> held, ext |-> ext, flag |-> flag]

Becomes(w) ==
  /\ task' = w.task /\ running' = w.running /\ loops' = w.loops /\ single' = w.single
  /\ multi' = w.multi /\ held' = w.held /\ ext' = w.ext /\ flag' = w.flag

Live(w)  == {t \in Ids \ {Root} : w.task[t].life = "live"}
Top      == loops[Len(loops)]
Cur      == Top.cur                                   \* Runner::current_task
Unborn   == {t \in Ids : task[t].life = "unborn"}
Newest(k) == CHOOSE t \in Unborn : Cardinality({u \in Unborn : u < t}) = k - 1

Phase(w, p)    == [w EXCEPT !.loops[Len(w.loops)].phase = p]
Suspend(w, t, r) == [w EXCEPT !.task[t].reason = r]

\* The tasks below t and t itself, children before parents, as destroy_task() visits them.
PostOrder(w, t) ==
  LET PO[d \in 0 .. N + 1] ==
        [u \in Ids |-> IF d = 0 THEN <<>>
                       ELSE FlattenSeq([i \in 1 .. Len(w.task[u].children) |->
                                           PO[d - 1][w.task[u].children[i]]]) \o <<u>>]
  IN  PO[N + 1][t]

\* The task and those above it: the least set that has the parent of each of its members.
Ancestors(w, t) ==
  {u \in Ids : \A S \in SUBSET Ids : t \in S /\ (\A x \in S : w.task[x].parent \in S) => u \in S}

(***************************************************************************)
(* Events and the mutex.                                                   *)
(***************************************************************************)
\* event_notify(SingleEvent), or the sentinel when nobody waits.
NotifySingle(w, e) ==
  IF w.single[e] \in {Null, Notified}
  THEN [w EXCEPT !.single[e] = Notified]
  ELSE [w EXCEPT !.single[e] = Null,
                 !.task[w.single[e]].reason = Ready, !.task[w.single[e]].result = "ok"]

\* event_notify(MultiEvent, n), n = 0 for all.
NotifyMulti(w, n) ==
  LET k     == IF n = 0 \/ n > Len(w.multi) THEN Len(w.multi) ELSE n
      woken == {w.multi[i] : i \in 1 .. k}
  IN  [w EXCEPT !.multi = SubSeq(@, k + 1, Len(@)),
                !.task = [t \in Ids |-> IF t \in woken
                                        THEN [@[t] EXCEPT !.reason = Ready, !.result = "ok"]
                                        ELSE @[t]]]

\* A definition marked faulty is the next one of its name with a plausible mistake in it; no
\* behaviour of Spec uses it (the mutants of PROJECT.json do).
UnlockAndFree(w) == [NotifyMulti(w, 1) EXCEPT !.held = FALSE]   \* faulty
UnlockMutex(w) ==
  IF w.multi = <<>> THEN [w EXCEPT !.held = FALSE] ELSE NotifyMulti(w, 1)

ReleaseExtLate(w) == w   \* faulty
\* The waiter of the external event is forgotten, its awaiter is not.
ReleaseExt(w) == [w EXCEPT !.ext.waiter = Null]

\* event_notify(ExtEvent), from the interrupt handler.
NotifyExt(w) ==
  IF w.ext.waiter = Null THEN w
  ELSE [w EXCEPT !.task[w.ext.awaiter].result = "ok", !.flag = TRUE]

(***************************************************************************)
(* Destruction.                                                            *)
(***************************************************************************)
DequeueNot(w, t) == w   \* faulty
UnlinkNot(w, t) == w   \* faulty
\* The two places a task leaves: the round being run, and its parent's children.
Dequeue(w, t) == [w EXCEPT !.running = [i \in 1 .. Len(@) |-> IF @[i] = t THEN Null ELSE @[i]]]
Unlink(w, t)  == [w EXCEPT !.task[w.task[t].parent].children = RemoveFirst(@, t)]

\* What destroy_task() undoes of the reason task t is suspended for.
Detach(w, t) ==
  LET r == w.task[t].reason IN
  IF r.by = "none" THEN Dequeue(w, t)
  ELSE IF r.by = "ext" THEN ReleaseExt(w)
  ELSE IF r.by = "single" THEN [w EXCEPT !.single[r.on] = Null]
  ELSE IF r.by = "multi" THEN [w EXCEPT !.multi = RemoveFirst(@, t)]
  ELSE w

\* The destructors of the frame: a LockGuard in it unlocks.
FrameDestroyed(w, t) ==
  IF w.task[t].guard THEN UnlockMutex([w EXCEPT !.task[t].guard = FALSE]) ELSE w

\* objective_task_finished, once per task
ReportDestroyed(w, t) ==   \* faulty: a task that cannot be destroyed yet is not reported
  IF w.task[t].reason.by = "awaiting" THEN w ELSE [w EXCEPT !.loops[w.task[t].objective].done = TRUE]
ReportEnd(w, t) ==
  IF w.task[t].zombie THEN w ELSE [w EXCEPT !.loops[w.task[t].objective].done = TRUE]

DestroyOne(w, t) ==
  LET w1 == ReportEnd(w, t)
  IN  IF w1.task[t].reason.by = "awaiting" \/ w1.task[t].children # <<>>
      THEN [w1 EXCEPT !.task[t].zombie = TRUE]
      ELSE [FrameDestroyed(Unlink(Detach(w1, t), t), t) EXCEPT !.task[t] = [Blank EXCEPT !.life = "dead"]]

\* remove_task(): the whole subtree, as far as nothing in it is inside a nested run().
RemoveTask(w, t) == FoldLeft(DestroyOne, w, PostOrder(w, t))

CancelAlone(w, t) == IF w.task[t].life = "live" THEN DestroyOne(w, t) ELSE w   \* faulty

\* cancel_task()
CancelTask(w, t) == IF w.task[t].life = "live" THEN RemoveTask(w, t) ELSE w

(***************************************************************************)
(* run(): gather, round, idle.                                             *)
(***************************************************************************)
\* gather_resumable_tasks() for one leaf.
Due(w, t) ==
  LET r == w.task[t].reason IN
  \/ r.by = "none"
  \/ r.by = "ext" /\ w.ext.avail
  \/ r.by # "awaiting" /\ r.till <= now

Expire(w, t) ==
  LET r  == w.task[t].reason
      w1 == [w EXCEPT !.task[t].reason = Ready, !.running = Append(@, t)]
  IN  IF r.by = "ext"
      THEN [ReleaseExt(w1) EXCEPT !.task[w.ext.awaiter].result = IF w.ext.avail THEN "ok" ELSE "timeout"]
      ELSE IF r.by = "single" THEN [w1 EXCEPT !.single[r.on] = Null, !.task[t].result = "timeout"]
      ELSE IF r.by = "multi" THEN [w1 EXCEPT !.multi = RemoveFirst(@, t), !.task[t].result = "timeout"]
      ELSE w1

GatherOne(w, t) == IF w.task[t].children = <<>> /\ Due(w, t) THEN Expire(w, t) ELSE w
Gathered(w) == FoldLeft(GatherOne, w, PostOrder(w, Root))

Leaves(w)    == {t \in ToSet(PostOrder(w, Root)) : w.task[t].children = <<>>}
Deadlines(w) == {w.task[t].reason.till : t \in Leaves(w)}
Wake(w)      == CHOOSE d \in Deadlines(w) : \A e \in Deadlines(w) : d <= e
PollIo(w)    == \E t \in Leaves(w) : w.task[t].reason.by = "ext"

StartRound(w) ==
  [w EXCEPT !.loops[Len(w.loops)] = [@ EXCEPT !.phase = "round", !.pos = 1, !.obsolete = FALSE]]

\* The label `loop', up to the clearing of the flag before the gathering.
LoopTop ==
  /\ Top.phase = "top"
  /\ IF Len(loops) = 1 /\ task[Root].children = <<>>
     THEN Becomes(Phase(World, "over"))
     ELSE IF Len(loops) > 1 /\ Top.done
          THEN \* run() returns into await(), whose task goes on
               LET k == Len(loops) - 1
                   w == [World EXCEPT !.loops = SubSeq(@, 1, k)]
               IN  Becomes([w EXCEPT !.task[loops[k].cur].reason = Ready])
          ELSE IF running # <<>>
               THEN Becomes(StartRound(World))
               ELSE Becomes([Phase(World, "gather") EXCEPT !.flag = FALSE])
  /\ UNCHANGED <<now, kit>>

\* GatheringResult: when to wake, whether to watch for interrupts.
Gather ==
  /\ Top.phase = "gather"
  /\ LET w == Gathered(World)
     IN  Becomes([w EXCEPT !.loops[Len(loops)] =
                             [@ EXCEPT !.phase = "gathered", !.wake = Wake(w), !.poll = PollIo(w)]])
  /\ UNCHANGED <<now, kit>>

\* What follows: a round, the busy wait, a sleep, or the end ("deadlock, no resumable task").
IdleAfterClearing(w) ==   \* faulty: the flag is cleared when the idling begins
  [Phase(w, IF Top.poll THEN "idle" ELSE IF Top.wake = Infinite THEN "over" ELSE "sleep") EXCEPT !.flag = FALSE]
IdleAfter(w) ==
  Phase(w, IF Top.poll THEN "idle" ELSE IF Top.wake = Infinite THEN "over" ELSE "sleep")
Settle ==
  /\ Top.phase = "gathered"
  /\ Becomes(IF running # <<>> THEN StartRound(World) ELSE IdleAfter(World))
  /\ UNCHANGED <<now, kit>>

\* The busy wait for an interrupt or the next timer; sleep_until().
IdleOver(w) == now >= Top.wake \/ (Top.phase = "idle" /\ flag)
EndIdle ==
  /\ Top.phase \in {"idle", "sleep"}
  /\ IdleOver(World)
  /\ Becomes(Phase(World, "top"))
  /\ UNCHANGED <<now, kit>>

Slots(w) == {i \in Top.pos .. Len(w.running) : w.running[i] # Null}

\* run_tasks(): resume the next task; ExtAWaiter::await_resume() clears the waiter.
Resume ==
  /\ Top.phase = "round"
  /\ IF Slots(World) = {}
     THEN Becomes([Phase(World, "top") EXCEPT !.running = <<>>])
     ELSE LET i == CHOOSE j \in Slots(World) : \A k \in Slots(World) : j <= k
              t == running[i]
              w == [World EXCEPT !.running[i] = Null,
                                 !.loops[Len(loops)] = [@ EXCEPT !.phase = "body", !.pos = i + 1, !.cur = t]]
          IN  Becomes(IF task[t].pc = "ext"
                      THEN [ReleaseExt(w) EXCEPT !.task[t].pc = "free"] ELSE w)
  /\ UNCHANGED <<now, kit>>

\* Back in run_tasks() after resume() of the current task returned.
Leave(w, finished) ==
  LET w1 == IF finished \/ w.task[Cur].zombie THEN RemoveTask(w, Cur) ELSE w
  IN  IF Top.obsolete
      THEN [Phase(w1, "top") EXCEPT !.running = <<>>]
      ELSE Phase(w1, "round")

(***************************************************************************)
(* The calls a task body makes.                                            *)
(***************************************************************************)
Me == task[Cur]
May(call) ==
  /\ Top.phase = "body" /\ Me.pc = "free" /\ Me.used < kit.fuel /\ call \in kit.calls
Spent == [World EXCEPT !.task[Cur].used = @ + 1]

\* wait timeouts: finite within the bound of the clock, or none
Tills == {Infinite} \cup {t \in {now + 1, now + 2} : t <= MaxTime}

Yield ==
  /\ May("yield")
  /\ Becomes(Leave(Spent, FALSE))
  /\ UNCHANGED <<now, kit>>

\* sleep_ms(): delay()
Sleep ==
  /\ May("sleep")
  /\ \E t \in Tills \ {Infinite} : Becomes(Leave(Suspend(Spent, Cur, By("timer", 0, t)), FALSE))
  /\ UNCHANGED <<now, kit>>

\* SingleAWaiter; a SingleEvent is awaited by one task at a time.
WaitSingle ==
  /\ May("single")
  /\ single[0] \in {Null, Notified}
  /\ \E till \in Tills :
       LET w == [Spent EXCEPT !.single[0] = Null, !.task[Cur].result = "timeout"]
       IN  Becomes(IF single[0] = Notified
                   THEN [w EXCEPT !.task[Cur].result = "ok"]
                   ELSE Leave(Suspend([w EXCEPT !.single[0] = Cur], Cur, By("single", 0, till)), FALSE))
  /\ UNCHANGED <<now, kit>>

SignalSingle ==
  /\ May("notify")
  /\ Becomes(NotifySingle(Spent, 0))
  /\ UNCHANGED <<now, kit>>

WaitMulti ==
  /\ May("multi")
  /\ \E till \in Tills :
       LET w == [Spent EXCEPT !.multi = Append(@, Cur), !.task[Cur].result = "timeout"]
       IN  Becomes(Leave(Suspend(w, Cur, By("multi", 0, till)), FALSE))
  /\ UNCHANGED <<now, kit>>

SignalMulti ==
  /\ May("multi")
  /\ \E n \in 0 .. 2 : Becomes(NotifyMulti(Spent, n))
  /\ UNCHANGED <<now, kit>>

\* co_await mutex.lock(), then a LockGuard of this mutex
Lock ==
  /\ May("lock") /\ ~Me.guard
  /\ Becomes(IF held
             THEN LET w == [Spent EXCEPT !.multi = Append(@, Cur), !.task[Cur].pc = "lock",
                                         !.task[Cur].result = "timeout"]
                  IN  Leave(Suspend(w, Cur, By("multi", 0, Infinite)), FALSE)
             ELSE [Spent EXCEPT !.held = TRUE, !.task[Cur].guard = TRUE])
  /\ UNCHANGED <<now, kit>>

\* MutexAwaiter resumed: ownership was handed over by unlock().
Locked ==
  /\ Top.phase = "body" /\ Me.pc = "lock"
  /\ Becomes([World EXCEPT !.task[Cur].pc = "free", !.task[Cur].guard = TRUE])
  /\ UNCHANGED <<now, kit>>

Unlock ==
  /\ May("lock") /\ Me.guard
  /\ Becomes(FrameDestroyed(Spent, Cur))
  /\ UNCHANGED <<now, kit>>

\* ExtAWaiter; an event held by another task refuses, and await_resume() clears its waiter.
WaitExt ==
  /\ May("ext")
  /\ "crowd" \in kit.calls \/ \A t \in Live(World) : task[t].pc # "ext"
  /\ \E till \in Tills :
       Becomes(IF ext.waiter # Null
               THEN [ReleaseExt(Spent) EXCEPT !.task[Cur].result = "error"]
               ELSE IF ext.avail
                    THEN [Spent EXCEPT !.task[Cur].result = "ok"]
                    ELSE LET w == [Spent EXCEPT !.ext.waiter = Cur, !.ext.awaiter = Cur,
                                                !.task[Cur].pc = "ext", !.task[Cur].result = "ok"]
                         IN  Leave(Suspend(w, Cur, By("ext", 0, till)), FALSE))
  /\ UNCHANGED <<now, kit>>

\* The awaited condition is used up, as reading a ring or clearing a latch does.
Consume ==
  /\ May("ext") /\ ext.avail
  /\ Becomes([Spent EXCEPT !.ext.avail = FALSE])
  /\ UNCHANGED <<now, kit>>

\* push_task() with task id t below p
Push(w, t, p, owned, objective, pc) ==
  [w EXCEPT !.task[t] = [Blank EXCEPT !.life = "live", !.parent = p, !.owned = owned,
                                      !.objective = objective, !.pc = pc],
            !.task[p].children = Append(@, t)]

Spawn ==
  /\ May("spawn") /\ Unborn # {}
  /\ \E p \in {Root, Cur} : Becomes(Push(Spent, Newest(1), p, TRUE, 1, "free"))
  /\ UNCHANGED <<now, kit>>

\* co_await of a coroutine: a child that is not owned; its parent waits by having it.
CoAwait ==
  /\ May("child") /\ Unborn # {}
  /\ Becomes(Leave(Push(Spent, Newest(1), Cur, FALSE, 1, "free"), FALSE))
  /\ UNCHANGED <<now, kit>>

\* Runner::await(): a nested run() until the child is finished.
Await ==
  /\ May("nested") /\ Unborn # {}
  /\ LET k == Len(loops) + 1
         w == Push(Suspend(Spent, Cur, By("awaiting", 0, Infinite)), Newest(1), Cur, FALSE, k, "free")
     IN  Becomes([w EXCEPT !.loops =
           Append([i \in 1 .. k - 1 |-> [@[i] EXCEPT !.obsolete = TRUE]],
                  [phase |-> "top", pos |-> 1, cur |-> Cur, wake |-> 0, poll |-> FALSE, obsolete |-> FALSE, done |-> FALSE])])
  /\ UNCHANGED <<now, kit>>

\* TaskHandle::cancel(); a task does not cancel what it runs in.
Cancel ==
  /\ May("cancel")
  /\ \E t \in Live(World) :
       /\ t \notin Ancestors(World, Cur)
       /\ Becomes(CancelTask(Spent, t))
  /\ UNCHANGED <<now, kit>>
\* TaskHandle::join(): the task becomes a child of this one.
Join ==
  /\ May("join")
  /\ \E t \in Live(World) :
       /\ t \notin Ancestors(World, Cur)
       /\ Becomes(Leave(IF task[t].parent # Root THEN Spent
                        ELSE [Unlink(Spent, t) EXCEPT !.task[Cur].children = Append(@, t),
                                                      !.task[t].parent = Cur], FALSE))
  /\ UNCHANGED <<now, kit>>

\* A body ends when it likes: its locals are destroyed, then run_tasks() removes the task.
Finish ==
  /\ Top.phase = "body" /\ Me.pc = "free"
  /\ Becomes(Leave(FrameDestroyed(World, Cur), TRUE))
  /\ UNCHANGED <<now, kit>>

(***************************************************************************)
(* select() of two branches.                                               *)
(***************************************************************************)
\* reveal_runner suspends for a round
Select ==
  /\ May("select")
  /\ \A u \in Ancestors(World, Cur) : task[u].pc # "branched"
  /\ Becomes(Leave([Spent EXCEPT !.task[Cur].pc = "select"], FALSE))
  /\ UNCHANGED <<now, kit>>

SelectPush ==
  /\ Top.phase = "body" /\ Me.pc = "select" /\ Cardinality(Unborn) >= 2
  /\ LET b == [i \in 1 .. 2 |-> Newest(i)]
         w == [World EXCEPT !.task[Cur].pc = "selecting", !.task[Cur].branches = b,
                           !.task[Cur].complete = 0, !.single[Cur] = Cur]
         p == Push(Push(w, b[1], Root, TRUE, 1, "branch"), b[2], Root, TRUE, 1, "branch")
     IN  Becomes(Leave(Suspend(p, Cur, By("single", Cur, Infinite)), FALSE))
  /\ UNCHANGED <<now, kit>>

\* task_template: co_await tasks[index]
BranchStart ==
  /\ Top.phase = "body" /\ Me.pc = "branch" /\ Unborn # {}
  /\ Becomes(Leave([Push(World, Newest(1), Cur, FALSE, 1, "free") EXCEPT !.task[Cur].pc = "branched"], FALSE))
  /\ UNCHANGED <<now, kit>>

\* task_template: complete_task = index; done.notify()
BranchDone ==
  /\ Top.phase = "body" /\ Me.pc = "branched"
  /\ \E s \in Ids : \E i \in DOMAIN task[s].branches :
       /\ task[s].branches[i] = Cur
       /\ Becomes(Leave(NotifySingle([World EXCEPT !.task[s].complete = i], s), TRUE))
  /\ UNCHANGED <<now, kit>>
SelectEndShort ==   \* faulty: the last branch is left out
  /\ Top.phase = "body" /\ Me.pc = "selecting"
  /\ Becomes([CancelTask(World, Me.branches[1]) EXCEPT !.task[Cur].pc = "free"])
  /\ UNCHANGED <<now, kit>>
\* The first completion woke select(): cancel all branches, return complete_task.
SelectEnd ==
  /\ Top.phase = "body" /\ Me.pc = "selecting"
  /\ Becomes([CancelTask(CancelTask(World, Me.branches[1]), Me.branches[2]) EXCEPT !.task[Cur].pc = "free"])
  /\ UNCHANGED <<now, kit>>

(***************************************************************************)
(* The environment.                                                        *)
(***************************************************************************)
\* An interrupt makes the condition true and calls notify().
Raise ==
  /\ "ext" \in kit.calls /\ Top.phase # "over"
  /\ ~ext.avail \/ (ext.waiter # Null /\ ~flag)
  /\ Becomes(NotifyExt([World EXCEPT !.ext.avail = TRUE]))
  /\ UNCHANGED <<now, kit>>

Tick ==
  /\ now < MaxTime /\ Top.phase # "over"
  /\ now' = now + 1
  /\ UNCHANGED <<task, running, loops, single, multi, held, ext, flag, kit>>

Init ==
  /\ kit \in Kits
  /\ task = [t \in Ids |->
       IF t = Root THEN [Blank EXCEPT !.life = "live", !.children = [i \in 1 .. kit.start |-> i]]
       ELSE IF t <= kit.start THEN [Blank EXCEPT !.life = "live"] ELSE Blank]
  /\ running = <<>> /\ multi = <<>> /\ held = FALSE /\ flag = FALSE /\ now = 0
  /\ loops = <<[phase |-> "top", pos |-> 1, cur |-> Root, wake |-> 0, poll |-> FALSE, obsolete |-> FALSE, done |-> FALSE]>>
  /\ single = [t \in Ids |-> Null]
  /\ ext = [waiter |-> Null, awaiter |-> Null, avail |-> FALSE]

Runner == LoopTop \/ Gather \/ Settle \/ EndIdle \/ Resume
Body   == \/ Yield \/ Sleep \/ WaitSingle \/ SignalSingle \/ WaitMulti \/ SignalMulti
          \/ Lock \/ Locked \/ Unlock \/ WaitExt \/ Consume \/ Spawn \/ CoAwait \/ Await
          \/ Cancel \/ Join \/ Finish \/ Select \/ SelectPush \/ BranchStart \/ BranchDone \/ SelectEnd

Next == Runner \/ Body \/ Raise \/ Tick

Spec == Init /\ [][Next]_vars

(***************************************************************************)
(* Properties.                                                             *)
(***************************************************************************)
Reasons == [by : {"none", "timer", "ext", "single", "multi", "awaiting"}, on : Ids, till : 0 .. Infinite]

\* Type correctness; children and parent are each other's inverse, so the tasks form a tree.
TypeOK ==
  /\ now \in 0 .. MaxTime /\ held \in BOOLEAN /\ flag \in BOOLEAN
  /\ \A t \in Ids :
       /\ task[t].life \in {"unborn", "live", "dead"} /\ task[t].reason \in Reasons
       /\ task[t].result \in {"none", "ok", "error", "timeout"} /\ task[t].complete \in 0 .. 2
       /\ single[t] \in Ids \cup {Null, Notified}
       /\ IsInjective(task[t].children)
       /\ t # Root => (task[t].life = "live" <=> t \in ToSet(task[task[t].parent].children))
       /\ \A c \in ToSet(task[t].children) : task[c].parent = t

\* Every pointer the runner follows leads to a task that is alive and suspended for that reason,
\* and every suspended task is where its event looks for it: a cancelled or timed-out task is
\* neither resumed nor woken, and none is forgotten.
PointersLive ==
  LET Waits(t, by, e) == t \in Live(World) /\ task[t].reason.by = by /\ task[t].reason.on = e
  IN  /\ \A i, j \in 1 .. Len(running) : running[i] # Null =>
           /\ Waits(running[i], "none", 0)
           /\ task[running[i]].children = <<>>
           /\ running[i] = running[j] => i = j
      /\ \A t, e \in Ids : Waits(t, "single", e) <=> t # Root /\ single[e] = t
      /\ IsInjective(multi) /\ \A t \in Ids : Waits(t, "multi", 0) <=> t \in ToSet(multi)
      /\ "crowd" \in kit.calls \/ \A t \in Ids \ {Root} :
           Waits(t, "ext", 0) <=> ext.waiter = t /\ ext.awaiter = t

\* A nested run() knows exactly when the task it was started for has finished or was cancelled,
\* whatever is left of an earlier one at the same depth; and when it returns, the round that it
\* interrupted has been run to its end.
NestedKnows ==
  /\ \A k \in 2 .. Len(loops) :
       loops[k].done <=> ~\E t \in Live(World) : task[t].objective = k /\ ~task[t].zombie
  /\ Top.phase = "body" /\ Top.obsolete => running = <<>>

\* While run() idles it misses neither an interrupt that made an awaited condition true, at
\* whatever point of the round it came, nor the deadline of any wait or timer.
IdleMissesNothing ==
  /\ Top.phase = "idle" /\ ext.avail /\ "crowd" \notin kit.calls
       => flag \/ \A t \in Live(World) : task[t].reason.by # "ext"
  /\ Top.phase \in {"idle", "sleep"}
       => \A t \in Live(World) : task[t].children = <<>> => Top.wake <= task[t].reason.till

\* select() sleeps only while no branch of it has finished, and while it sleeps there is one that
\* can.  When it has returned, neither the branches nor anything below them is left in the task
\* tree, however deep they were and although some may have been about to run in this round.
\* (That it returns "the index of the task that finished first", select.hpp:14, is not so: a branch
\* that finishes before select() is resumed, in the same round, puts its own in the place.)
SelectLeavesNothing ==
  \A s \in Live(World) :
    /\ task[s].pc = "selecting" /\ task[s].reason.by = "single" =>
         task[s].complete = 0 /\ ToSet(task[s].branches) \cap Live(World) # {}
    /\ task[s].pc = "free" /\ task[s].branches # <<>> =>
         /\ task[s].complete # 0
         /\ \A t \in Live(World) : ToSet(task[s].branches) \cap ({t} \cup Ancestors(World, t)) = {}

\* The result of a wait is written only into the awaiter of a task that is in that wait: never
\* into the frame of a task that was cancelled or has gone on.
ResultsReachTheirWait ==
  [][\A t \in Ids : task'[t].result \in {"ok", "timeout"} /\ task'[t].result # task[t].result
       => task[t].reason.by \in {"ext", "single", "multi"} \/ (Top.phase = "body" /\ t = Cur)]_vars

(***************************************************************************)
(* The mutex implements Mutex: a task owns it that holds the guard, or was  *)
(* handed the mutex by unlock() and has not been resumed yet.               *)
(***************************************************************************)
Owners == {t \in Live(World) : task[t].guard \/ (task[t].pc = "lock" /\ task[t].reason.by # "multi")}
Fair   == INSTANCE Mutex WITH
            Tasks <- Ids \ {Root},
            owner <- IF Owners # {} THEN CHOOSE t \in Owners : TRUE ELSE IF held THEN -1 ELSE 0,
            told  <- \E t \in Owners : task[t].guard,
            queue <- IF "lock" \in kit.calls THEN multi ELSE <<>>

\* lock() and unlock() grant the mutex to one task at a time and in the order of the calls; it is
\* lost only when a task is cancelled between being handed the mutex and being resumed.
MutexImplemented == Fair!Spec
=============================================================================
