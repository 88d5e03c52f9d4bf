---------------------------- MODULE MCAccountStore ----------------------------
(***************************************************************************)
(* AccountStore on a small account: two devices, five operations chosen so *)
(* that every verdict occurs, and a timer reducer with one deadline.       *)
(***************************************************************************)
EXTENDS AccountStore, TLC

\* Timer commands start a timer; due is the instant it completes by itself.
Start(i, q, t, c, d) ==
    [dom |-> "timer", id |-> i, seq |-> q, timer |-> t, clock |-> c, due |-> d]

startA == Start(1, 1, "a", 1, 1)
startB == Start(2, 1, "b", 2, 3)       \* startA's sequence number, another id
startC == Start(1, 2, "a", 3, 3)       \* startA's id, another payload
autoOn == [dom |-> "autoStart", id |-> 1, seq |-> 0]
task == [dom |-> "task", id |-> 1, seq |-> 0]

MCOperation == {startA, startB, startC, autoOn, task}
MCBatch == {<<>>, <<startA, startB>>, <<startB, autoOn>>, <<startC>>, <<autoOn>>, <<task, task>>}

MCSubmission ==
    {[device |-> "d1", batch |-> <<startA, startB>>], [device |-> "d2", batch |-> <<startB, autoOn>>],
     [device |-> "d1", batch |-> <<task, task>>]}

Propose(d, g, b, auto) ==
    [device |-> d, strategy |-> g, batch |-> b,
     autoStartPresent |-> auto, selectedTaskPresent |-> FALSE]

MCProposal ==
    {Propose("d1", "keep_remote", <<>>, FALSE),
     Propose("d2", "merge", <<startC>>, FALSE),
     Propose("d1", "replace_remote", <<startA, startB>>, FALSE),
     Propose("d2", "replace_remote", <<autoOn>>, TRUE),
     Propose("d1", "keep_remote", <<autoOn>>, TRUE)}

MCNoProjection == [current |-> "none", sessions |-> {}]

\* The order of the reducer: clock, then device, then operation id.
Before(e, f) ==
    \/ e.op.clock < f.op.clock
    \/ e.op.clock = f.op.clock /\ e.device = "d1" /\ f.device = "d2"

\* The newest start is the current timer; it completes at its deadline, and a
\* timer that was still running when a newer one started is superseded.
MCReduce(S, t) ==
    LET Newest(T) == CHOOSE e \in T : \A f \in T : f = e \/ Before(f, e)
        Of(k) == {e \in S : e.op.timer = k}
        timers == {e.op.timer : e \in S}
        Status(k) == IF Newest(Of(k)) # Newest(S) THEN "superseded"
                     ELSE IF t >= Newest(S).op.due THEN "completed" ELSE "running"
    IN IF S = {} THEN MCNoProjection
       ELSE [current |-> Newest(S).op.timer,
             sessions |-> {[timer |-> k, status |-> Status(k), last |-> Newest(Of(k)).op.id] :
                              k \in timers}]

Symmetry == Permutations(Slot)
=============================================================================
