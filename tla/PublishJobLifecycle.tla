------------------------ MODULE PublishJobLifecycle ------------------------
(***************************************************************************)
(* What a publish job promises: the state machine SM2 of the PublishJob    *)
(* entity (src/src/core/entities.py), with the number of attempts that     *)
(* takes a running job back to waiting or to its end.                      *)
(***************************************************************************)
EXTENDS Naturals

CONSTANTS Jobs, MaxAttempts

VARIABLES
  state,   \* where every job is in its life
  tries    \* attempts recorded for every job

lifeVars == <<state, tries>>

LifeInit ==
  /\ state = [j \in Jobs |-> "absent"]
  /\ tries = [j \in Jobs |-> 0]

Move(j, from, to) ==
  /\ state[j] \in from
  /\ state' = [state EXCEPT ![j] = to]

Create(j) == Move(j, {"absent"}, "queued") /\ UNCHANGED tries

Start(j) == Move(j, {"queued", "retry_wait"}, "running") /\ UNCHANGED tries

\* Every end of a run records one more attempt.
Finish(j, to) ==
  /\ Move(j, {"running"}, to)
  /\ tries' = [tries EXCEPT ![j] = @ + 1]

Succeed(j) == Finish(j, "succeeded")
WaitForRetry(j) == tries[j] + 1 < MaxAttempts /\ Finish(j, "retry_wait")
GiveUp(j) == tries[j] + 1 >= MaxAttempts /\ Finish(j, "failed")

LifeNext ==
  \E j \in Jobs : Create(j) \/ Start(j) \/ Succeed(j) \/ WaitForRetry(j) \/ GiveUp(j)

LifeSpec == LifeInit /\ [][LifeNext]_lifeVars

=============================================================================
