---------------------------- MODULE MachineStatus ----------------------------
(***************************************************************************)
(* The status of one NodePowerManagementConfig and the pure functions the  *)
(* controllers decide with (src/controller/node_power_management_config.rs *)
(* and the member classification of src/controller/node_scaling_pool.rs).  *)
(*                                                                         *)
(* Times are natural numbers read off one clock; None stands for Rust's    *)
(* Option::None.  Every duration the code compares a time with is a        *)
(* CONSTANT.  Conditions, messages, events and metrics are left out: no    *)
(* code path reads them back, but for the PowerStateConsistent condition,  *)
(* which is the field `consistent`.  The result of the sleep probe is a    *)
(* parameter s3 (TRUE, FALSE or None) of the operators that read it.       *)
(***************************************************************************)
EXTENDS Integers, FiniteSets

CONSTANTS
  None,                    \* Option::None
  Pools,                   \* names of the NodeScalingPools
  BootTimeout,             \* effective bootTimeoutSeconds
  ShutdownTimeout,         \* lifecycle.shutdownTimeoutSeconds
  DrainTimeout,            \* lifecycle.drainTimeoutSeconds
  ForceAfterDrainTimeout,  \* lifecycle.forceAfterDrainTimeout
  PowerOffMode,            \* lifecycle.powerOffMode
  ManualPolicy,            \* effective manualPowerOnPolicy
  PowerOnFailure,          \* the deciding pool's powerOnFailurePolicy
  PowerOnTimeout,          \* the deciding pool's power-on timeout
  BootFailureBackoff,      \* scaleUp.bootFailureBackoffSeconds
  ManualOffCooldown,       \* manualPowerOffCooldownSeconds
  DrainFailureBackoff,     \* scaleDown.drainFailureBackoffSeconds
  RetryAfter,              \* RETRY_ACTION_AFTER
  StandbySettle,           \* STANDBY_SETTLE_SECS
  StandbyBackoff,          \* STANDBY_BACKOFF_SECS
  ProbeWait,               \* PROBE_WAIT_SECS
  SpontaneousWake,         \* SPONTANEOUS_WAKE_SECS
  OffGrace,                \* OFF_GRACE_SECS
  OwnOffMargin,            \* the 300 s detect_manual_change adds to the shutdown timeout
  OwnOnSlack               \* the 120 s boot_failure_leaves_on allows

ASSUME DurationAssumption ==
  /\ {BootTimeout, ShutdownTimeout, DrainTimeout, PowerOnTimeout,
      BootFailureBackoff, ManualOffCooldown, DrainFailureBackoff, RetryAfter,
      StandbySettle, StandbyBackoff, ProbeWait, SpontaneousWake, OffGrace,
      OwnOffMargin, OwnOnSlack} \subseteq Nat

ASSUME SettingAssumption ==
  /\ ForceAfterDrainTimeout \in BOOLEAN
  /\ PowerOffMode \in {"Shutdown", "Standby", "Auto"}
  /\ ManualPolicy \in {"LeaveOn", "Adopt", "PowerOff"}
  /\ PowerOnFailure \in {"Release", "Retry"}

ASSUME NoneAssumption ==
  /\ None \notin Nat
  /\ None \notin {"On", "Off", "Online", "Offline"}
  /\ None \notin {"PowerOn", "PowerOff", "ForceOff", "Standby"}
  /\ None \notin [pool : Pools, target : {"On", "Off"}, time : Nat]

-----------------------------------------------------------------------------
(* The status record (crd.rs).                                             *)

Phases == {"Unknown", "PoweringOn", "On", "Draining", "PoweringOff", "Off",
           "Standby", "Error", "BootFailed"}
PowerStates == {"On", "Off", "Unknown"}
Targets     == {"On", "Off"}
Policies    == {"Auto", "AlwaysOn", "AlwaysOff"}
OffActions  == {"PowerOff", "ForceOff", "Standby"}
Actions     == OffActions \cup {"PowerOn"}

OptTime       == Nat \cup {None}
Decisions     == [pool : Pools, target : Targets, time : Nat]
ActionRecords == [action : Actions, time : Nat, succeeded : BOOLEAN]
BootFailures  == [time : Nat, left_on : BOOLEAN]

Status ==
  [ phase : Phases, phase_since : OptTime,
    power_state : PowerStates, node_ready : BOOLEAN, consistent : BOOLEAN,
    pools : SUBSET Pools, scaling_decision : Decisions \cup {None},
    last_power_action : ActionRecords \cup {None},
    standby_since : OptTime, standby_failed_at : OptTime,
    forced_off_at : OptTime, drain_failed_at : OptTime,
    boot_failure : BootFailures \cup {None},
    powered_on_not_ready_since : OptTime,
    manual_power_on : OptTime, manual_power_off : OptTime ]

\* A NodePowerManagementConfig that was never reconciled: Default::default().
DefaultStatus ==
  [ phase |-> "Unknown", phase_since |-> None,
    power_state |-> "Unknown", node_ready |-> FALSE, consistent |-> TRUE,
    pools |-> {}, scaling_decision |-> None,
    last_power_action |-> None,
    standby_since |-> None, standby_failed_at |-> None,
    forced_off_at |-> None, drain_failed_at |-> None,
    boot_failure |-> None, powered_on_not_ready_since |-> None,
    manual_power_on |-> None, manual_power_off |-> None ]

-----------------------------------------------------------------------------
(* Optional times: is_some_and, is_none_or and the i64::MAX of a missing   *)
(* phase_since.                                                            *)

Within(t, d, n)   == t # None /\ n - t <= d     \* is_some_and(|s| s <= d)
Past(t, d, n)     == t = None \/ n - t > d      \* is_none_or(|s| s > d)
MinOf(a, b)       == IF a < b THEN a ELSE b

TimeOfLast(s, actions) ==
  IF s.last_power_action # None /\ s.last_power_action.action \in actions
  THEN s.last_power_action.time ELSE None

in_phase_longer(s, d, n) == Past(s.phase_since, d, n)

since_last_action_over(s, a, d, n) == Past(TimeOfLast(s, {a}), d, n)

set_phase(s, p, n) ==
  IF s.phase = p THEN s ELSE [s EXCEPT !.phase = p, !.phase_since = n]

-----------------------------------------------------------------------------
(* What to drive towards.                                                  *)

desired_target(policy, s) ==
  CASE policy = "AlwaysOn"  -> "On"
    [] policy = "AlwaysOff" -> "Off"
    [] OTHER -> IF s.scaling_decision # None /\ s.scaling_decision.pool \in s.pools
                THEN s.scaling_decision.target ELSE None

managed_target(policy, s) ==
  IF policy = "Auto" /\ s.manual_power_on # None /\ ManualPolicy = "LeaveOn"
  THEN None ELSE desired_target(policy, s)

\* Mutant: believes the interface, which may report a suspended machine as on.
in_standby_by_power(s) ==
  /\ s.standby_since # None
  /\ s.phase \in {"PoweringOff", "Standby"}
  /\ s.power_state = "Off"

\* Node gone quiet after a suspend we asked for.
in_standby(s) ==
  /\ s.standby_since # None
  /\ s.phase \in {"PoweringOff", "Standby"}
  /\ ~s.node_ready

standby_broken(s, n) ==
  s.standby_failed_at # None /\ n - s.standby_failed_at < StandbyBackoff

\* s3 is TRUE, FALSE, or None while the current boot was not probed.
off_action(s, s3, n) ==
  IF /\ ~standby_broken(s, n)
     /\ PowerOffMode = "Standby" \/ (PowerOffMode = "Auto" /\ s3 = TRUE)
  THEN "Standby" ELSE "PowerOff"

\* Mutant: the reading is always believed.
power_state_believed(s, lease_fresh, n) == TRUE

power_state_consistent(s, lease_fresh, n) ==
  ~ /\ s.power_state = "Off"
    /\ s.node_ready /\ lease_fresh
    /\ ~Within(TimeOfLast(s, OffActions), OffGrace, n)

-----------------------------------------------------------------------------
(* Power changes made by someone else.                                     *)

our_on(s, n)  == Within(TimeOfLast(s, {"PowerOn"}), BootTimeout, n)
our_off(s, n) == Within(TimeOfLast(s, OffActions), ShutdownTimeout + OwnOffMargin, n)

detect_manual_change(old, s, n) ==
  CASE /\ old.phase = "Off"
       /\ s.power_state = "On" \/ s.node_ready
       /\ ~our_on(s, n)                                        -> "PoweredOn"
    [] /\ old.phase = "Standby"
       /\ s.node_ready /\ ~our_on(s, n)
       /\ Past(old.standby_since, SpontaneousWake, n)          -> "PoweredOn"
    [] /\ old.phase \in {"On", "PoweringOn", "BootFailed"}
       /\ old.power_state = "On"
       /\ s.power_state = "Off" /\ ~s.node_ready
       /\ ~our_off(s, n)                                       -> "PoweredOff"
    [] OTHER                                                   -> "None"

manual_change(s, change, n) ==
  CASE change = "PoweredOn" ->
         [s EXCEPT !.manual_power_on = n, !.scaling_decision = None,
                   !.standby_since = None, !.boot_failure = None]
    [] change = "PoweredOff" ->
         [s EXCEPT !.manual_power_on = None, !.manual_power_off = n,
                   !.scaling_decision = None,
                   !.boot_failure = IF @ # None /\ @.left_on THEN None ELSE @]
    [] OTHER -> s

-----------------------------------------------------------------------------
(* Boots that never make the Node Ready.                                   *)

booting(s) ==
  /\ s.power_state = "On"
  /\ s.standby_since = None
  /\ s.phase \notin {"PoweringOff", "Draining", "Standby"}

boot_start(s, n) ==
  IF s.powered_on_not_ready_since # None THEN s.powered_on_not_ready_since
  ELSE IF s.phase \in {"PoweringOn", "BootFailed"} /\ s.phase_since # None
       THEN MinOf(s.phase_since, n)
  ELSE n

\* Mutant: a machine that reads Off keeps the start of its last boot.
track_boot_across_outage(s, n) ==
  LET since    == boot_start(s, n)
      tracked  == [s EXCEPT !.powered_on_not_ready_since = since]
      new_boot == s.boot_failure = None \/ since > s.boot_failure.time
  IN CASE s.node_ready ->
            [ st |-> [s EXCEPT !.powered_on_not_ready_since = None, !.boot_failure = None],
              event |-> IF s.boot_failure # None THEN "Recovered" ELSE "None" ]
       [] ~s.node_ready /\ ~booting(s) -> [ st |-> s, event |-> "None" ]
       [] OTHER ->
            IF new_boot /\ n - since > BootTimeout
            THEN [ st |-> [tracked EXCEPT !.boot_failure = [time |-> n, left_on |-> FALSE]],
                   event |-> "Failed" ]
            ELSE [ st |-> tracked, event |-> "None" ]

\* The status and the BootEvent track_boot leaves.
track_boot(s, n) ==
  LET since    == boot_start(s, n)
      tracked  == [s EXCEPT !.powered_on_not_ready_since = since]
      new_boot == s.boot_failure = None \/ since > s.boot_failure.time
  IN CASE s.node_ready ->
            [ st |-> [s EXCEPT !.powered_on_not_ready_since = None, !.boot_failure = None],
              event |-> IF s.boot_failure # None THEN "Recovered" ELSE "None" ]
       [] ~s.node_ready /\ ~booting(s) ->
            [ st |-> IF s.power_state = "Off"
                     THEN [s EXCEPT !.powered_on_not_ready_since = None] ELSE s,
              event |-> "None" ]
       [] OTHER ->
            IF new_boot /\ n - since > BootTimeout
            THEN [ st |-> [tracked EXCEPT !.boot_failure = [time |-> n, left_on |-> FALSE]],
                   event |-> "Failed" ]
            ELSE [ st |-> tracked, event |-> "None" ]

failure_is_current(s) ==
  /\ s.boot_failure # None
  /\ s.powered_on_not_ready_since # None
  /\ s.powered_on_not_ready_since <= s.boot_failure.time

\* Whether a PowerOn of ours started the boot in progress.
boot_is_ours(s) ==
  /\ TimeOfLast(s, {"PowerOn"}) # None
  /\ \/ s.powered_on_not_ready_since = None
     \/ s.last_power_action.time >= s.powered_on_not_ready_since - OwnOnSlack

\* Mutant: a failed boot is powered off whoever started it.
boot_failure_leaves_on_pinned(s, policy) == policy # "Auto"

boot_failure_leaves_on(s, policy) ==
  policy # "Auto" \/ (~boot_is_ours(s) /\ ManualPolicy = "LeaveOn")

\* power_on_attempt = Expired: the machine did not even turn on in time.
power_on_expired(s, n) ==
  /\ PowerOnFailure = "Release"
  /\ ~s.node_ready
  /\ s.scaling_decision # None /\ s.scaling_decision.target = "On"
  /\ s.power_state # "On" \/ s.standby_since # None
  /\ n - s.scaling_decision.time > PowerOnTimeout

-----------------------------------------------------------------------------
(* How a pool sees the machine.                                            *)

member_state(policy, s, member) ==
  LET decision == IF s.scaling_decision # None /\ s.scaling_decision.pool \in member
                  THEN s.scaling_decision.target ELSE None
      ready_on == s.phase = "On" /\ s.node_ready
  IN CASE ~s.consistent        -> "Unavailable"
       [] s.consistent /\ policy # "Auto" ->
            IF policy = "AlwaysOn" /\ ready_on THEN "Online" ELSE "Unavailable"
       [] OTHER ->
          CASE ready_on /\ decision # "Off" -> "Online"
            [] s.phase \in {"Off", "Standby"} /\ decision # "On" -> "Offline"
            [] decision = "Off" /\ s.phase \notin {"Off", "Standby"} -> "Leaving"
            [] decision = "On" /\ ~ready_on ->
                 IF s.phase \in {"Error", "BootFailed"} THEN "Unavailable" ELSE "Booting"
            [] OTHER ->
                 CASE s.phase \in {"On", "PoweringOn"} -> "Booting"
                   [] s.phase \in {"Draining", "PoweringOff"} -> "Leaving"
                   [] OTHER -> "Unavailable"

\* Mutant: no backoff after a failed power-on.
classify_without_backoff(policy, s, member, n) ==
  IF s.phase = "BootFailed" /\ s.boot_failure # None THEN "Unavailable"
  ELSE member_state(policy, s, member)

classify(policy, s, member, n) ==
  LET base == member_state(policy, s, member)
  IN CASE s.phase = "BootFailed" /\ s.boot_failure # None -> "Unavailable"
       [] base = "Offline" /\ s.phase # "BootFailed" ->
            IF \/ /\ s.boot_failure # None /\ ~s.boot_failure.left_on
                  /\ n < s.boot_failure.time + BootFailureBackoff
               \/ /\ s.manual_power_off # None
                  /\ n < s.manual_power_off + ManualOffCooldown
            THEN "Unavailable" ELSE "Offline"
       [] OTHER ->
            IF s.manual_power_on # None /\ ManualPolicy = "LeaveOn"
            THEN IF s.node_ready THEN "Manual" ELSE "Unavailable"
            ELSE base
=============================================================================
