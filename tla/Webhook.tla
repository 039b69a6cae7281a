------------------------------- MODULE Webhook -------------------------------
(***************************************************************************)
(* The operator process and its admission webhook for NodeScalingPool      *)
(* (src/webhook.rs, run and shutdown_signal of src/main.rs): its start     *)
(* from the caches over the certificate, the server and the registration   *)
(* to the controllers, its end by SIGTERM, by an error or by a crash, and  *)
(* what the API server does with a pool change meanwhile.                  *)
(*                                                                         *)
(* One process runs at a time (the chart's strategy is Recreate), and the  *)
(* kubelet or the Deployment starts the next.                              *)
(***************************************************************************)
EXTENDS Integers, FiniteSets

CONSTANTS
  None,
  Names,      \* names a pool may prefer
  Tries,      \* attempts to store the certificate
  Events,     \* kinds of faults and interventions a run allows
  MaxEvents   \* bound on how many of them happen

EventKinds == {"crash", "term", "api_error", "secret", "age", "delete_config", "node"}

ASSUME WebhookAssumption ==
  /\ Tries \in Nat \ {0} /\ MaxEvents \in Nat
  /\ Events \subseteq EventKinds

VARIABLES
  proc,    \* the operator process
  secret,  \* the Secret with the CA and the serving certificate, or None
  config,  \* the CA that the ValidatingWebhookConfiguration trusts, or None
  nodes,   \* the Nodes that exist
  pool,    \* the preferred nodes of the stored pool
  serial,  \* certificates and Secret versions so far
  events,  \* faults and interventions so far
  left     \* history: how the last process ended, until the next registers

vars == <<proc, secret, config, nodes, pool, serial, events, left>>

\* The states of the process between two awaits of run(): the API server serves
\* from "register" on, and the SIGTERM handler is installed in "running".
Stages == {"down", "sync", "read", "store", "serve", "register", "install",
           "running", "unregister", "exit"}

\* A certificate set, with its validity; "foreign" is one for other DNS names, or
\* one that cannot be read.
Ages == {"fresh", "ending", "expired", "foreign"}
Certs == [id : Nat, age : Ages]
Secrets == [id : Nat, age : Ages, version : Nat]

\* None is no value that it stands beside.
ASSUME NoneAssumption ==
  /\ None \notin Certs \cup Secrets
  /\ None \notin {"shutdown", "error", "signal", "crash"}

Down == [pc |-> "down", tls |-> None, found |-> None, tries |-> 0, doomed |-> FALSE, seen |-> {}]

TypeOK ==
  /\ proc \in [pc : Stages, tls : Certs \cup {None}, found : Secrets \cup {None},
               tries : 0..(Tries - 1), doomed : BOOLEAN, seen : SUBSET Names]
  /\ secret \in Secrets \cup {None}
  /\ config \in Nat \cup {None}
  /\ nodes \subseteq Names /\ pool \subseteq Names
  /\ serial \in Nat /\ events \in Nat
  /\ left \in {None, "shutdown", "error", "signal", "crash"}

Spend(kind) == /\ kind \in Events /\ events < MaxEvents
               /\ events' = events + 1

-----------------------------------------------------------------------------
(* The process.                                                            *)

cluster == <<nodes, pool>>

Goto(stage) == proc' = [proc EXCEPT !.pc = stage]

\* The process is gone; how is remembered for the properties.
Gone(how) == proc' = Down /\ left' = how

\* A call to the API server fails: run() returns the error.
Fails == /\ Spend("api_error") /\ Gone("error")
         /\ UNCHANGED <<secret, config, serial>>

Start ==
  /\ proc.pc = "down"
  /\ Goto("sync")
  /\ UNCHANGED <<secret, config, cluster, serial, events, left>>

\* The caches are full before anything else happens.
Sync ==
  /\ proc.pc = "sync"
  /\ proc' = [proc EXCEPT !.pc = "read", !.seen = nodes]
  /\ UNCHANGED <<secret, config, cluster, serial, events, left>>

\* Mutant: a certificate is used for as long as it lasts.
tls_from_secret_late(s) == s # None /\ s.age \in {"fresh", "ending", "expired"}

\* A stored certificate is used until its last 30 days.
tls_from_secret(s) == s # None /\ s.age = "fresh"

\* ensure_tls, the first half of a try: the Secret is read; without a valid
\* certificate in it one is issued.
Read ==
  /\ proc.pc = "read"
  /\ \/ /\ IF tls_from_secret(secret)
           THEN /\ proc' = [proc EXCEPT !.pc = "serve", !.tls = [id |-> secret.id, age |-> secret.age]]
                /\ UNCHANGED serial
           ELSE /\ proc' = [proc EXCEPT !.pc = "store", !.found = secret,
                                        !.tls = [id |-> serial, age |-> "fresh"]]
                /\ serial' = serial + 1
        /\ UNCHANGED <<secret, config, events, left>>
     \/ Fails
  /\ UNCHANGED cluster

\* Mutant: one try too many.
retries_one_more == proc.tries < Tries

\* A conflict is not the last try's.
retries == proc.tries + 1 < Tries

\* The second half: it is stored, unless the Secret has been written since; then it
\* is read again, a bounded number of times.  A Secret that is gone cannot be
\* replaced, which is an error.
Store ==
  /\ proc.pc = "store"
  /\ \/ /\ secret = proc.found
        /\ secret' = [id |-> proc.tls.id, age |-> "fresh", version |-> serial]
        /\ serial' = serial + 1
        /\ Goto("serve")
        /\ UNCHANGED <<config, events, left>>
     \/ /\ secret # proc.found
        /\ IF secret # None /\ retries
           THEN /\ proc' = [proc EXCEPT !.pc = "read", !.tries = @ + 1, !.found = None, !.tls = None]
                /\ left' = left
           ELSE Gone("error")
        /\ UNCHANGED <<secret, config, serial, events>>
     \/ Fails
  /\ UNCHANGED cluster

\* The server listens; a port in use, or a broken certificate, is an error.
Serve ==
  /\ proc.pc = "serve"
  /\ \/ Goto("register") /\ UNCHANGED <<secret, config, serial, events, left>>
     \/ Fails
  /\ UNCHANGED cluster

\* Mutant: a configuration that is there is left as it is.
applied_if_absent == IF config = None THEN proc.tls.id ELSE config

\* The configuration is applied by force, with the CA of this process.
applied == proc.tls.id

register ==
  /\ proc.pc = "register"
  /\ \/ /\ config' = applied /\ left' = None
        /\ Goto("install")
        /\ UNCHANGED <<secret, serial, events>>
     \/ Fails
  /\ UNCHANGED cluster

\* The task that waits for SIGTERM is running, and so are the controllers.
Install ==
  /\ proc.pc = "install"
  /\ Goto("running")
  /\ UNCHANGED <<secret, config, cluster, serial, events, left>>

\* SIGTERM reaches the handler.  Before it is installed nothing takes the signal
\* (the operator is the container's PID 1), and the process is killed at the end
\* of its grace period.
Term ==
  /\ proc.pc \notin {"down", "unregister", "exit"} /\ ~proc.doomed
  /\ Spend("term")
  /\ IF proc.pc = "running" THEN Goto("unregister") ELSE proc' = [proc EXCEPT !.doomed = TRUE]
  /\ UNCHANGED <<secret, config, cluster, serial, left>>

\* Mutant: the process does not wait for the configuration to be deleted.
unregistered_unawaited == config

\* What the deletion leaves, also of a configuration that is gone already.
unregistered == None

\* The configuration is deleted; a failure, or 10 s without an answer, is only
\* logged.
unregister ==
  /\ proc.pc = "unregister"
  /\ \/ config' = unregistered /\ UNCHANGED <<events, left>>
     \/ Spend("api_error") /\ left' = "error" /\ UNCHANGED config
  /\ Goto("exit")
  /\ UNCHANGED <<secret, cluster, serial>>

Exit ==
  /\ proc.pc = "exit"
  /\ Gone(IF left = None THEN "shutdown" ELSE left)
  /\ UNCHANGED <<secret, config, cluster, serial, events>>

Process == Start \/ Sync \/ Read \/ Store \/ Serve \/ register \/ Install \/ unregister \/ Exit

-----------------------------------------------------------------------------
(* The cluster.                                                            *)

Kill ==
  /\ proc.doomed
  /\ Gone("signal")
  /\ UNCHANGED <<secret, config, cluster, serial, events>>

Crash ==
  /\ proc.pc # "down"
  /\ Spend("crash") /\ Gone("crash")
  /\ UNCHANGED <<secret, config, cluster, serial>>

\* Somebody deletes the Secret or writes another.
SecretChanges ==
  /\ Spend("secret")
  /\ \/ secret # None /\ secret' = None /\ UNCHANGED serial
     \/ \E age \in {"fresh", "foreign"} :
          /\ secret' = [id |-> serial, age |-> age, version |-> serial]
          /\ serial' = serial + 1
  /\ UNCHANGED <<proc, config, cluster, left>>

Older(c) == IF c = None THEN None
            ELSE [c EXCEPT !.age = CASE @ = "fresh" -> "ending" [] @ = "ending" -> "expired" [] OTHER -> @]

\* Years pass, while no process runs or while one runs on.
Age ==
  /\ proc.pc \in {"down", "running"}
  /\ Spend("age")
  /\ secret' = Older(secret)
  /\ proc' = [proc EXCEPT !.tls = Older(@)]
  /\ UNCHANGED <<config, cluster, serial, left>>

DeleteConfig ==
  /\ Spend("delete_config") /\ config # None
  /\ config' = None
  /\ UNCHANGED <<proc, secret, cluster, serial, left>>

NodeChanges ==
  /\ Spend("node")
  /\ \E n \in Names : nodes' = IF n \in nodes THEN nodes \ {n} ELSE nodes \cup {n}
  /\ UNCHANGED <<proc, secret, config, pool, serial, left>>

\* The Node cache of the process catches up.
Watch ==
  /\ proc.pc \notin {"down", "sync"} /\ proc.seen # nodes
  /\ proc' = [proc EXCEPT !.seen = nodes]
  /\ UNCHANGED <<secret, config, cluster, serial, events, left>>

\* The API server reaches the process and accepts its certificate.
Listening == proc.pc \in {"register", "install", "running", "unregister", "exit"}
Reviewed == Listening /\ config = proc.tls.id /\ proc.tls.age \in {"fresh", "ending"}

\* The names that the Node cache of the process knows no Node by.
preferred_node_problems(new) == new \ proc.seen

\* Mutant: names that were listed before are refused as well.
review_pool_all(new, old) == preferred_node_problems(new) = {}

\* A new name must be that of a Node; one that was listed already is kept.
review_pool(new, old) == preferred_node_problems(new) \subseteq old

\* failurePolicy is Fail: registered and not reviewed is refused.
Admitted(new) ==
  \/ config = None
  \/ Reviewed /\ review_pool(new, pool)

Edit(new) ==
  /\ new # pool /\ Admitted(new)
  /\ pool' = new
  /\ UNCHANGED <<proc, secret, config, nodes, serial, events, left>>

Init ==
  /\ proc = Down
  /\ secret = None /\ config = None
  /\ nodes \in SUBSET Names /\ pool = {}
  /\ serial = 0 /\ events = 0 /\ left = None

Next ==
  \/ Process
  \/ Term
  \/ Kill
  \/ Crash
  \/ SecretChanges
  \/ Age
  \/ DeleteConfig
  \/ NodeChanges
  \/ Watch
  \/ \E new \in SUBSET Names : Edit(new)

Spec == Init /\ [][Next]_vars

\* The process goes on by itself, the kubelet starts it again and kills it at the
\* end of its grace period, and the watch delivers.
FairSpec == Spec /\ WF_vars(Process) /\ WF_vars(Kill) /\ WF_vars(Watch)

-----------------------------------------------------------------------------
(* Properties.                                                             *)

\* A pool change is refused for a reason: it adds a name that the operator knows
\* no Node by, or nobody reviews it because the process ended without its
\* shutdown, or the certificate expired under a process that ran on.  In
\* particular a registered process serves the certificate that its CA verifies,
\* and a Node that disappears does not block the later edits of a pool that lists
\* it (webhook.rs review_pool, register, unregister).
RefusedForCause ==
  \A new \in SUBSET Names : ~Admitted(new) =>
    \/ Reviewed /\ \E n \in new \ pool : n \notin proc.seen
    \/ ~Reviewed /\ \/ left \in {"crash", "error", "signal"}
                    \/ proc.tls # None /\ proc.tls.age = "expired"

\* An operator that is down comes back, whatever Secret and configuration it
\* finds: once the faults have ceased, pool changes are reviewed again
\* (webhook.rs ensure_tls, register).
Unblocked == proc.pc = "down" ~> (Reviewed \/ config = None)
=============================================================================
