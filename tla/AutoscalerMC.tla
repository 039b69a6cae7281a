---------------------------- MODULE AutoscalerMC ----------------------------
(***************************************************************************)
(* Small instances of Autoscaler: three machines of size 2, pods of size 1 *)
(* and 2, pool a, and a pool b that may overlap it.                        *)
(***************************************************************************)
EXTENDS Autoscaler, TLC

CONSTANTS MinOnline, MaxOnline, UpStep, DownStep, Hold, Unneeded

ThreeMachines == <<"m1", "m2", "m3">>
TwoMachines   == <<"m1", "m2">>

AllMembers == [p \in Pools |-> Fleet]

\* Pool b selects the last machine only.
SharedLast == [p \in Pools |-> IF p = "b" THEN {Last(Machines)} ELSE Fleet]

\* Pool b ranks the machines the other way round.
TwoSpecs ==
  [p \in Pools |->
    [ order |-> IF p = "b" THEN Reverse(Machines) ELSE Machines,
      min_online |-> MinOnline, max_online |-> MaxOnline,
      up_enabled |-> TRUE, down_enabled |-> TRUE,
      up_step |-> UpStep, down_step |-> DownStep,
      pending_grace |-> 0, require_explicit |-> FALSE,
      threshold |-> 60, unneeded |-> Unneeded, hold |-> Hold, drain_backoff |-> 2 ]]

SizeTwo == [n \in Fleet |-> 2]

OneOfEach  == {"x1", "y"}
SmallPods  == {"x1", "x2"}
Requests   == [x \in Pods |-> IF x = "y" THEN 2 ELSE 1]
AnyMachine == [x \in Pods |-> Fleet]
=============================================================================
