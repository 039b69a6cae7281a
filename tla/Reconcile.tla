------------------------------ MODULE Reconcile ------------------------------
(***************************************************************************)
(* What one reconcile of a NodePowerManagementConfig decides, as a         *)
(* function of what it has read (src/controller/                           *)
(* node_power_management_config.rs, with the Node helpers and the status   *)
(* patch of src/controller/mod.rs).                                        *)
(*                                                                         *)
(* r is what the reconcile read at its start: the stored status r.old, the *)
(* time r.now, spec.powerPolicy r.policy, the cached Node r.node and the   *)
(* pools r.member that select it.  ok says whether the power command, if   *)
(* one is sent, is accepted by some interface.                             *)
(***************************************************************************)
EXTENDS MachineStatus

Nodes == [exists : BOOLEAN, ready : BOOLEAN, cordoned : BOOLEAN,
          ours : BOOLEAN,             \* the cordoned-by annotation
          marked : BOOLEAN]           \* the powered-off annotation

PodClasses == {"running", "terminating", "blocking"}

-----------------------------------------------------------------------------
(* What a reconcile does: its new status, the power command it sends and   *)
(* its changes to the Node, the pods and the suspend pod.                  *)

Cordons == {"keep", "cordon", "uncordon"}
Marks   == {"keep", "mark", "clear"}
Outcomes == [st : Status, cmd : Actions \cup {None}, cordon : Cordons,
             mark : Marks, cancel : BOOLEAN, evict : BOOLEAN]

Only(s) == [st |-> s, cmd |-> None, cordon |-> "keep", mark |-> "keep",
            cancel |-> FALSE, evict |-> FALSE]

\* act(): the status after command a was sent (ok: some interface took it).
act(s, a, ok, n) ==
  [s EXCEPT !.last_power_action = [action |-> a, time |-> n, succeeded |-> ok],
            !.standby_since = CASE a = "Standby"  -> n
                                [] a = "PowerOff" -> None
                                [] OTHER          -> @]

Send(s, a, ok, n) == [Only(act(s, a, ok, n)) EXCEPT !.cmd = a]

\* Mutant: the drain starts without cordoning.
cordon_forgotten(out, r) == out

\* cordon, uncordon_if_ours and clear_powered_off look at the cached Node r.node.
cordon(out, r) ==
  IF r.node.cordoned THEN out ELSE [out EXCEPT !.cordon = "cordon"]
uncordon_if_ours(out, r) ==
  IF r.node.ours THEN [out EXCEPT !.cordon = "uncordon"] ELSE out
clear_powered_off(out, r) ==
  IF r.node.marked THEN [out EXCEPT !.mark = "clear"] ELSE out

-----------------------------------------------------------------------------
(* Reconciler::ensure_on and what it calls.                                *)

release_failed_power_on(s, r, ok) ==
  LET released ==
        [s EXCEPT !.standby_failed_at = IF s.standby_since # None THEN r.now ELSE @,
                  !.boot_failure = [time |-> r.now, left_on |-> FALSE],
                  !.scaling_decision = None,
                  !.standby_since = None]
      forced == [act([released EXCEPT !.powered_on_not_ready_since = r.now],
                     "ForceOff", ok, r.now) EXCEPT !.forced_off_at = r.now]
  IN IF s.power_state = "On"
     THEN [Only(set_phase(forced, "BootFailed", r.now)) EXCEPT !.cmd = "ForceOff", !.mark = "mark"]
     ELSE Only(set_phase(released, "Off", r.now))

power_on(s, r, ok) ==
  LET out == Send(s, "PowerOn", ok, r.now)
  IN [out EXCEPT !.st = set_phase(@, IF ok THEN "PoweringOn" ELSE "Error", r.now)]

online(s, r) ==
  clear_powered_off(
    uncordon_if_ours(
      Only([set_phase(s, "On", r.now) EXCEPT !.forced_off_at = None, !.standby_since = None]), r), r)

\* Mutant: repeats PowerOn on every reconcile.
still_powering_on_unspaced(s, r, ok) ==
  IF s.power_state = "Off" \/ s.standby_since # None
  THEN Send(s, "PowerOn", ok, r.now) ELSE Only(s)

still_powering_on(s, r, ok) ==
  CASE in_phase_longer(s, BootTimeout, r.now) /\ s.standby_since # None ->
         LET out == Send([s EXCEPT !.standby_failed_at = r.now], "ForceOff", ok, r.now)
         IN [out EXCEPT !.st = set_phase(@, "Error", r.now)]
    [] /\ ~(in_phase_longer(s, BootTimeout, r.now) /\ s.standby_since # None)
       /\ s.power_state = "Off" \/ s.standby_since # None
       /\ since_last_action_over(s, "PowerOn", RetryAfter, r.now) ->
         Send(s, "PowerOn", ok, r.now)
    [] OTHER -> Only(s)

ensure_on(s, r, ok) ==
  IF s.power_state = "On" /\ s.node_ready THEN online(s, r)
  ELSE IF power_on_expired(s, r.now) THEN release_failed_power_on(s, r, ok)
  ELSE IF s.phase = "PoweringOn" THEN still_powering_on(s, r, ok)
  ELSE IF s.phase \in {"PoweringOff", "Standby"} /\ s.standby_since # None
       THEN [power_on(s, r, ok) EXCEPT !.cancel = TRUE]
  ELSE IF /\ s.phase = "PoweringOff" /\ s.power_state = "On"
          /\ ~in_phase_longer(s, ShutdownTimeout, r.now)
       THEN Only(s)
  ELSE IF s.power_state = "On" /\ s.standby_since = None
       THEN uncordon_if_ours(Only(set_phase(s, "PoweringOn", r.now)), r)
  ELSE IF /\ s.phase = "Error"
          /\ TimeOfLast(s, {"PowerOn"}) # None
          /\ r.now - s.last_power_action.time < RetryAfter
       THEN Only(s)
  ELSE power_on(s, r, ok)

-----------------------------------------------------------------------------
(* Reconciler::ensure_off and what it calls.                               *)

\* Mutant: powers off without telling node fencing.
power_off_unmarked(s, s3, r, ok) ==
  LET a == off_action(s, s3, r.now)
  IN [Send(s, a, ok, r.now) EXCEPT !.st = set_phase(@, "PoweringOff", r.now)]

power_off(s, s3, r, ok) ==
  LET a == off_action(s, s3, r.now)
  IN [Send(s, a, ok, r.now) EXCEPT !.st = set_phase(@, "PoweringOff", r.now), !.mark = "mark"]

drain_failed(s, r) ==
  LET failed == [s EXCEPT !.drain_failed_at = r.now]
  IN IF r.policy = "Auto"
     THEN uncordon_if_ours(Only(set_phase(
            [failed EXCEPT !.scaling_decision =
               [pool |-> IF @ # None THEN @.pool ELSE CHOOSE p \in s.pools : TRUE,
                target |-> "On", time |-> r.now]], "On", r.now)), r)
     ELSE Only([failed EXCEPT !.phase_since = r.now])

\* ps: the classes of the pods on the Node.
drain(s, s3, ps, r, ok) ==
  LET out == CASE ps = {} ->
                    IF PowerOffMode = "Auto" /\ s3 = None /\ ~in_phase_longer(s, ProbeWait, r.now)
                    THEN Only(s) ELSE power_off(s, s3, r, ok)
               [] ps # {} /\ ~in_phase_longer(s, DrainTimeout, r.now) -> Only(s)
               [] OTHER -> IF ForceAfterDrainTimeout THEN power_off(s, s3, r, ok)
                           ELSE drain_failed(s, r)
  IN [out EXCEPT !.evict = TRUE]

still_powering_off(s, s3, r, ok) ==
  CASE s.standby_since # None /\ in_phase_longer(s, MinOf(ShutdownTimeout, StandbySettle), r.now) ->
         LET out == Send([s EXCEPT !.standby_failed_at = r.now], "PowerOff", ok, r.now)
         IN [out EXCEPT !.st.phase_since = r.now]
    [] /\ ~(s.standby_since # None /\ in_phase_longer(s, MinOf(ShutdownTimeout, StandbySettle), r.now))
       /\ in_phase_longer(s, ShutdownTimeout, r.now) ->
         IF Past(s.forced_off_at, RetryAfter, r.now)
         THEN LET out == Send(s, "ForceOff", ok, r.now)
              IN [out EXCEPT !.st.forced_off_at = r.now, !.st.standby_since = None]
         ELSE Only(s)
    [] OTHER ->
         IF /\ s.last_power_action # None /\ ~s.last_power_action.succeeded
            /\ since_last_action_over(s, off_action(s, s3, r.now), RetryAfter \div 3, r.now)
         THEN Send(s, off_action(s, s3, r.now), ok, r.now)
         ELSE Only(s)

\* A suspended machine that woke by itself is shut down instead.
woke_by_itself(s, n) ==
  IF s.phase = "Standby" /\ s.standby_since # None /\ s.node_ready /\ s.power_state # "Off"
  THEN [s EXCEPT !.standby_failed_at = n, !.standby_since = None] ELSE s

ensure_off(s0, s3, ps, r, ok) ==
  LET s == woke_by_itself(s0, r.now)
  IN IF s.power_state = "Off" \/ in_standby(s)
     THEN Only([set_phase(s, IF s.standby_since # None THEN "Standby" ELSE "Off", r.now)
                  EXCEPT !.forced_off_at = None])
     ELSE CASE s.phase = "PoweringOff" -> still_powering_off(s, s3, r, ok)
            [] s.phase = "Draining"    -> drain(s, s3, ps, r, ok)
            [] OTHER -> cordon(Only(set_phase(s, "Draining", r.now)), r)

-----------------------------------------------------------------------------
(* Boot failures, and a machine without a desired state.                   *)

boot_failed(s, r, ok) ==
  LET leave  == boot_failure_leaves_on(s, r.policy)
      failed == set_phase([s EXCEPT !.boot_failure = IF @ = None THEN None ELSE [@ EXCEPT !.left_on = leave],
                                    !.scaling_decision = None], "BootFailed", r.now)
  IN IF leave THEN Only(failed)
     ELSE [Send(failed, "PowerOff", ok, r.now) EXCEPT !.mark = "mark"]

boot_still_failed(s, r, ok) ==
  LET failed == set_phase(s, "BootFailed", r.now)
  IN IF /\ ~s.boot_failure.left_on
        /\ r.now - s.boot_failure.time > MinOf(ShutdownTimeout, StandbySettle)
        /\ Past(s.forced_off_at, RetryAfter, r.now)
     THEN LET out == Send(failed, "ForceOff", ok, r.now)
          IN [out EXCEPT !.st.forced_off_at = r.now]
     ELSE Only(failed)

observe(s, n) ==
  IF in_standby(s) THEN s
  ELSE set_phase(s, CASE s.power_state = "On"  -> IF s.node_ready THEN "On" ELSE "PoweringOn"
                      [] s.power_state = "Off" -> "Off"
                      [] OTHER                 -> "Unknown", n)

-----------------------------------------------------------------------------
(* reconcile(): the gates, then the handlers in order.                     *)

\* Gates 1 and 2: the Node, and the pools that select it.
resolved(r) ==
  [r.old EXCEPT !.node_ready = r.node.exists /\ r.node.ready,
                !.pools = r.member,
                !.scaling_decision = IF @ # None /\ @.pool \notin r.member THEN None ELSE @]

\* Gate 4: the power reading, and whether it contradicts a live Node.
sensed(r, reading, fresh) ==
  LET s == [resolved(r) EXCEPT !.power_state = reading]
  IN [s EXCEPT !.consistent = power_state_consistent(s, fresh, r.now)]

change_in(r, s) == detect_manual_change(r.old, s, r.now)

seen_off(r, s) ==
  IF s.power_state = "Off" /\ ~s.node_ready /\ change_in(r, s) # "PoweredOn"
  THEN [s EXCEPT !.manual_power_on = None] ELSE s

handle(r, reading, fresh, s3, ps, ok) ==
  LET s0      == sensed(r, reading, fresh)
      tracked == track_boot(seen_off(r, s0), r.now)
      s       == manual_change(tracked.st, change_in(r, s0), r.now)
      target  == managed_target(r.policy, s)
  IN IF tracked.event = "Failed" THEN boot_failed(s, r, ok)
     ELSE IF /\ tracked.event = "None"
             /\ ~s.node_ready /\ s.power_state = "On" /\ failure_is_current(s)
          THEN boot_still_failed(s, r, ok)
     ELSE IF ~r.node.exists \/ ~s0.consistent \/ target = None THEN Only(observe(s, r.now))
     ELSE IF target = "On" THEN ensure_on(s, r, ok)
     ELSE ensure_off(s, s3, ps, r, ok)

\* merge_diff / patch_status_diff: only the fields this reconcile changed.
merge_diff(live, old, new) ==
  [f \in DOMAIN live |-> IF new[f] # old[f] THEN new[f] ELSE live[f]]
=============================================================================
