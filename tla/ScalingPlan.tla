----------------------------- MODULE ScalingPlan -----------------------------
(***************************************************************************)
(* The plan of one NodeScalingPool (src/scaling.rs): which members to      *)
(* power on, which to power off, and which it would let other pools power  *)
(* off.                                                                    *)
(*                                                                         *)
(* One number stands for the CPU, memory and pod-count amounts of a        *)
(* machine or a pod; p.on is the set of nodes that a pod's selectors,      *)
(* affinity and tolerations admit.  A snapshot s has                       *)
(*   spec            the pool's settings, with spec.order, the members in  *)
(*                   power_on_order (total, so a sequence)                 *)
(*   members         name -> what the pool sees of the machine             *)
(*   listing         the order in which the cache lists the members        *)
(*   pending         the unschedulable pods, in the order of the cache     *)
(*   external        name -> free room, for nodes outside every pool       *)
(*   unneeded_since, last_scale_up, now                                    *)
(*   kept_by_others  members some other pool does not list as releasable   *)
(* Reasons, notes and the decision log are left out.                       *)
(***************************************************************************)
EXTENDS Integers, FiniteSets, SequencesExt

CONSTANTS
  NoTime,       \* Option::None, for times
  LargestPod    \* the largest request of a pod

ASSUME SizeAssumption == LargestPod \in Nat \ {0} /\ NoTime \notin Nat

MemberStates == {"Online", "Booting", "Offline", "Leaving", "Unavailable", "Manual"}

in_state(s, states) == {n \in DOMAIN s.members : s.members[n].state \in states}

\* The elements of seq that are in S, in their order.
among(seq, S) ==
  FoldLeft(LAMBDA kept, x : IF x \in S THEN Append(kept, x) ELSE kept, <<>>, seq)

\* Members of S, in the order they are powered on; scale-down takes the reverse.
ranked(s, S) == among(s.spec.order, S)

\* Members on or booting, whichever pool woke them.
online_now(s) == Cardinality(in_state(s, {"Online", "Booting"}))

\* First-fit decreasing: largest request first, ties in listing order.
decreasing(ps) ==
  FlattenSeq([k \in 1..LargestPod |->
                among(ps, {p \in Range(ps) : p.size = LargestPod + 1 - k})])

pod_fits(p, n, free) == p.size <= free /\ n \in p.on

room(m) == m.size - m.used

-----------------------------------------------------------------------------
(* Scale up.                                                               *)

\* The pods this pool cares about: past the grace period, and targeting it
\* where that is required.
selected(s) ==
  among(s.pending, {p \in Range(s.pending) :
                      /\ s.now - p.created >= s.spec.pending_grace
                      /\ s.spec.require_explicit => p.selects})

wakeable(s) == {n \in in_state(s, {"Offline"}) : s.members[n].auto}

relevant(s) ==
  among(selected(s), {p \in Range(selected(s)) :
    \E n \in in_state(s, {"Booting"}) \cup wakeable(s) : pod_fits(p, n, s.members[n].size)})

\* Mutant: counts the machines that are on, and not the ones just opened.
can_open_uncounted(s, opened) ==
  online_now(s) < s.spec.max_online /\ Len(opened) < s.spec.up_step

\* Mutant: one machine fewer than maxOnline.
can_open_one_less(s, opened) ==
  /\ online_now(s) + Len(opened) + 1 < s.spec.max_online
  /\ Len(opened) < s.spec.up_step

can_open(s, opened) ==
  /\ online_now(s) + Len(opened) < s.spec.max_online
  /\ Len(opened) < s.spec.up_step

\* One pod: into a machine that is booting or was opened for an earlier pod,
\* else into the first machine off that it fits.  up is [bins, free, offline,
\* opened].
place(s, up, p) ==
  LET bins == among(up.bins, {n \in Range(up.bins) : pod_fits(p, n, up.free[n])})
      off  == among(up.offline, {n \in Range(up.offline) : pod_fits(p, n, s.members[n].size)})
  IN CASE ~s.spec.up_enabled -> up
       [] s.spec.up_enabled /\ bins # <<>> ->
            [up EXCEPT !.free[Head(bins)] = @ - p.size]
       [] s.spec.up_enabled /\ bins = <<>> /\ can_open(s, up.opened) /\ off # <<>> ->
            [ bins    |-> Append(up.bins, Head(off)),
              free    |-> [up.free EXCEPT ![Head(off)] = s.members[Head(off)].size - p.size],
              offline |-> among(up.offline, Range(up.offline) \ {Head(off)}),
              opened  |-> Append(up.opened, Head(off)) ]
       [] OTHER -> up

for_pending(s) ==
  FoldLeft(LAMBDA up, p : place(s, up, p),
           [ bins    |-> among(s.listing, in_state(s, {"Booting"})),
             free    |-> [n \in DOMAIN s.members |-> room(s.members[n])],
             offline |-> ranked(s, wakeable(s)),
             opened  |-> <<>> ],
           decreasing(relevant(s)))

AtMost(a, b) == IF a < b THEN a ELSE b

\* minOnline is enforced even when scale-up is disabled.
power_on(s) ==
  LET up      == for_pending(s)
      missing == AtMost(s.spec.min_online, s.spec.max_online) - online_now(s) - Len(up.opened)
      extra   == IF missing > 0 THEN AtMost(missing, Len(up.offline)) ELSE 0
  IN up.opened \o SubSeq(up.offline, 1, extra)

-----------------------------------------------------------------------------
(* Scale down.                                                             *)

candidates(s) == {n \in in_state(s, {"Online"}) : s.members[n].auto}

\* A pending pod of this pool waits for a device of m to register.
waiting_for_registration(s, n) ==
  /\ s.members[n].registering
  /\ \E p \in Range(selected(s)) : p.extended /\ pod_fits(p, n, room(s.members[n]))

\* Since when each candidate is continuously unneeded.
unneeded_since(s) ==
  [n \in DOMAIN s.members |->
     LET m == s.members[n]
     IN IF \/ n \notin candidates(s)
           \/ waiting_for_registration(s, n)
           \/ m.blocking
           \/ m.drain_failed_at # NoTime /\ s.now - m.drain_failed_at < s.spec.drain_backoff
           \/ 100 * m.counted >= s.spec.threshold * m.size
        THEN NoTime
        ELSE IF s.unneeded_since[n] = NoTime THEN s.now ELSE s.unneeded_since[n]]

\* Unneeded for long enough, given since when.
expired(s, since) ==
  {n \in candidates(s) : since[n] # NoTime /\ s.now - since[n] >= s.spec.unneeded}

\* manualPowerOnPolicy PowerOff, past its grace.
released(s) ==
  {n \in candidates(s) : LET m == s.members[n]
                         IN m.release_after # NoTime /\ s.now >= m.release_after /\ ~m.blocking}

over_max(s) == IF online_now(s) > s.spec.max_online THEN online_now(s) - s.spec.max_online ELSE 0

\* holdAfterPowerOnSeconds, from this pool's last power-on or an adopted one.
holding(s) ==
  \E t \in {s.last_scale_up} \cup {s.members[n].adopted_at : n \in DOMAIN s.members} :
    t # NoTime /\ s.now < t + s.spec.hold

\* blocked_reason.is_some(), when the machines in on are being powered on.
blocked(s, on) ==
  \/ on # <<>>
  \/ /\ over_max(s) = 0
     /\ \/ ~s.spec.down_enabled
        \/ relevant(s) # <<>>
        \/ in_state(s, {"Booting"}) # {}
        \/ holding(s)

\* Whom to consider, when the machines in idle are expired or released.
eligible(s, idle) ==
  idle \cup {n \in candidates(s) : over_max(s) > 0 /\ ~s.members[n].blocking}

leaving(s) == Cardinality(in_state(s, {"Leaving"}))

budget(s) ==
  LET spare == IF leaving(s) < s.spec.down_step THEN s.spec.down_step - leaving(s) ELSE 0
  IN IF over_max(s) > spare THEN over_max(s) ELSE spare

\* Where the pods of n could go: members that stay, then nodes outside.
targets(s, n, removed) ==
  among(s.listing, in_state(s, {"Online", "Manual"}) \ ({n} \cup Range(removed)))
    \o SetToSeq(DOMAIN s.external)

\* Mutant: a pod that fits nowhere is skipped.
move_if_it_fits(to, fit, p) ==
  LET slots == among(to, {o \in Range(to) : pod_fits(p, o, fit.free[o])})
  IN IF slots = <<>> THEN fit
     ELSE [fit EXCEPT !.free[Head(slots)] = @ - p.size]

\* One pod of the machine to go, first fit.  fit is [ok, free].
move(to, fit, p) ==
  LET slots == among(to, {o \in Range(to) : pod_fits(p, o, fit.free[o])})
  IN IF ~fit.ok \/ slots = <<>> THEN [fit EXCEPT !.ok = FALSE]
     ELSE [fit EXCEPT !.free[Head(slots)] = @ - p.size]

\* Mutant: minOnline is not looked at on the way down.
try_remove_below_min(s, down, n) ==
  LET fit == FoldLeft(LAMBDA f, p : move(targets(s, n, down.removed), f, p),
                      [ok |-> TRUE, free |-> down.free], decreasing(s.members[n].pods))
  IN IF n \in s.kept_by_others \/ Len(down.removed) >= budget(s) \/ ~fit.ok
     THEN down
     ELSE [removed |-> Append(down.removed, n), free |-> fit.free]

\* One eligible machine.  down is [removed, free].
try_remove(s, down, n) ==
  LET fit == FoldLeft(LAMBDA f, p : move(targets(s, n, down.removed), f, p),
                      [ok |-> TRUE, free |-> down.free], decreasing(s.members[n].pods))
  IN IF \/ n \in s.kept_by_others
        \/ Len(down.removed) >= budget(s)
        \/ online_now(s) - Len(down.removed) <= s.spec.min_online
        \/ ~fit.ok
     THEN down
     ELSE [removed |-> Append(down.removed, n), free |-> fit.free]

power_off(s, on, idle) ==
  IF blocked(s, on) \/ (leaving(s) >= s.spec.down_step /\ over_max(s) = 0) THEN <<>>
  ELSE FoldLeft(LAMBDA down, n : try_remove(s, down, n),
                [ removed |-> <<>>,
                  free    |-> [o \in DOMAIN s.members \cup DOMAIN s.external |->
                                 IF o \in DOMAIN s.members THEN room(s.members[o])
                                 ELSE s.external[o]] ],
                Reverse(ranked(s, eligible(s, idle)))).removed

\* What this pool agrees other pools may power off (status.releasable).
releasable(s, on, idle) ==
  IF blocked(s, on) \/ online_now(s) <= s.spec.min_online THEN {} ELSE idle

plan(s) ==
  LET on    == power_on(s)
      since == unneeded_since(s)
      idle  == expired(s, since) \cup released(s)
  IN [ power_on |-> on, power_off |-> power_off(s, on, idle),
       unneeded_since |-> since, releasable |-> releasable(s, on, idle) ]
=============================================================================
