---------------------------- MODULE WebhookProofs ----------------------------
(***************************************************************************)
(* The type invariant of Webhook and RefusedForCause, for every set of     *)
(* names, number of tries and mix of faults.                               *)
(***************************************************************************)
EXTENDS Webhook, TLAPS

\* The values the process may have.
Procs == [pc : Stages, tls : Certs \cup {None}, found : Secrets \cup {None},
          tries : 0..(Tries - 1), doomed : BOOLEAN, seen : SUBSET Names]

\* A process is well typed when it is gone, and wherever it goes next.
LEMMA ProcTypes ==
  /\ Down \in Procs
  /\ \A p \in Procs, stage \in Stages : [p EXCEPT !.pc = stage] \in Procs
BY WebhookAssumption DEF Down, Procs, Stages

\* A certificate that ages is a certificate of the same kind.
LEMMA OlderTypes ==
  /\ \A c \in Certs \cup {None} : Older(c) \in Certs \cup {None}
  /\ \A c \in Secrets \cup {None} : Older(c) \in Secrets \cup {None}
BY DEF Older, Certs, Secrets, Ages

\* It stays a certificate for the same names.
LEMMA OlderKind ==
  ASSUME NEW c \in Certs, c.age # "foreign"
  PROVE  Older(c) \in Certs /\ Older(c) # None /\ Older(c).age # "foreign"
BY NoneAssumption DEF Older, Certs, Ages

\* From the second half of ensure_tls on the process has a certificate, and it is
\* never a foreign one.
HasCertificate ==
  /\ proc.pc \notin {"down", "sync", "read"} => proc.tls # None
  /\ proc.tls # None => proc.tls.age # "foreign"

TypeInv == TypeOK /\ HasCertificate

\* The initial states are well typed.
LEMMA InitType == Init => TypeInv
BY ProcTypes DEF Init, TypeInv, TypeOK, HasCertificate, Procs, Down

\* The end of the process leaves it well typed, and without a certificate.
LEMMA GoneType ==
  ASSUME NEW how, Gone(how)
  PROVE  proc' \in Procs /\ HasCertificate'
BY ProcTypes DEF Gone, HasCertificate, Down

\* An error of a call to the API server leaves everything well typed.
LEMMA FailsType ==
  ASSUME TypeInv, Fails, UNCHANGED cluster
  PROVE  TypeInv'
<1>1. proc' \in Procs /\ HasCertificate' /\ left' = "error" /\ events' \in Nat
  BY GoneType DEF Fails, Gone, Spend, TypeInv, TypeOK
<1> QED
  BY <1>1 DEF Fails, TypeInv, TypeOK, Procs, cluster

\* So does a stage that is followed by the next.
LEMMA GotoType ==
  ASSUME TypeInv, NEW stage \in Stages, Goto(stage),
         stage \in {"down", "sync", "read"} \/ proc.pc \notin {"down", "sync", "read"}
  PROVE  proc' \in Procs /\ HasCertificate'
<1>1. proc \in Procs
  BY DEF TypeInv, TypeOK, Procs
<1>2. proc' \in Procs /\ proc'.pc = stage /\ proc'.tls = proc.tls
  BY <1>1, ProcTypes DEF Goto, Procs
<1> QED
  BY <1>2 DEF TypeInv, HasCertificate

\* Every step preserves the types.
LEMMA NextType == TypeInv /\ [Next]_vars => TypeInv'
<1> SUFFICES ASSUME TypeInv, [Next]_vars PROVE TypeInv'
  OBVIOUS
<1>0. proc \in Procs
  BY DEF TypeInv, TypeOK, Procs
<1>a. ASSUME proc' \in Procs, HasCertificate', UNCHANGED <<secret, config, nodes, pool, serial>>,
             events' \in Nat, left' \in {left, None, "shutdown", "error", "signal", "crash"}
      PROVE  TypeInv'
  BY <1>a DEF TypeInv, TypeOK, Procs
<1>b. ASSUME UNCHANGED proc PROVE proc' \in Procs /\ HasCertificate'
  BY <1>0, <1>b DEF TypeInv, HasCertificate
<1>1. CASE Start \/ Install
  <2>1. proc' \in Procs /\ HasCertificate'
    BY <1>1, GotoType DEF Start, Install, Stages
  <2> QED BY <1>1, <1>a, <2>1 DEF Start, Install, cluster, TypeInv, TypeOK
<1>2. CASE Kill \/ Crash \/ Exit
  <2>1. proc' \in Procs /\ HasCertificate'
    BY <1>2, GoneType DEF Kill, Crash, Exit
  <2> QED BY <1>2, <1>a, <2>1 DEF Kill, Crash, Exit, Gone, Spend, cluster, TypeInv, TypeOK
<1>3. CASE Sync \/ Watch
  <2>1. proc' \in Procs
    BY <1>0, <1>3 DEF Sync, Watch, Procs, Stages, TypeInv, TypeOK
  <2>2. HasCertificate'
    BY <1>0, <1>3 DEF Sync, Watch, Procs, TypeInv, HasCertificate
  <2> QED BY <1>3, <1>a, <2>1, <2>2 DEF Sync, Watch, cluster, TypeInv, TypeOK
<1>4. CASE Read
  <2>1. CASE Fails /\ UNCHANGED cluster
    BY <2>1, FailsType
  <2>2. CASE ~Fails /\ tls_from_secret(secret)
    <3> DEFINE c == [id |-> secret.id, age |-> secret.age]
    <3>1. secret \in Secrets /\ secret.age = "fresh"
      BY <2>2 DEF tls_from_secret, TypeInv, TypeOK
    <3>2. c \in Certs /\ c # None /\ c.age = "fresh"
      BY <3>1, NoneAssumption DEF Certs, Secrets
    <3>3. /\ proc' = [proc EXCEPT !.pc = "serve", !.tls = c]
          /\ UNCHANGED <<secret, config, nodes, pool, serial, events, left>>
      BY <1>4, <2>2 DEF Read, cluster
    <3> HIDE DEF c
    <3>4. proc' \in Procs /\ HasCertificate'
      <4>1. proc'.pc = "serve" /\ proc'.tls = c
        BY <1>0, <3>3 DEF Procs
      <4>2. proc' \in Procs
        BY <1>0, <3>2, <3>3, Zenon DEF Procs, Stages
      <4> QED BY <3>2, <4>1, <4>2 DEF HasCertificate
    <3> QED BY <1>a, <3>3, <3>4 DEF TypeInv, TypeOK
  <2>3. CASE ~Fails /\ ~tls_from_secret(secret)
    <3> DEFINE c == [id |-> serial, age |-> "fresh"]
    <3>1. /\ c \in Certs /\ c # None /\ c.age = "fresh"
          /\ secret \in Secrets \cup {None}
      BY NoneAssumption DEF TypeInv, TypeOK, Certs, Ages
    <3>2. /\ proc' = [proc EXCEPT !.pc = "store", !.found = secret, !.tls = c]
          /\ serial' = serial + 1
          /\ UNCHANGED <<secret, config, nodes, pool, events, left>>
      BY <1>4, <2>3 DEF Read, cluster
    <3> HIDE DEF c
    <3>3. proc' \in Procs /\ HasCertificate'
      <4>1. proc'.pc = "store" /\ proc'.tls = c
        BY <1>0, <3>2 DEF Procs
      <4>2. proc' \in Procs
        BY <1>0, <3>1, <3>2, Zenon DEF Procs, Stages
      <4> QED BY <3>1, <4>1, <4>2 DEF HasCertificate
    <3> QED BY <3>2, <3>3 DEF TypeInv, TypeOK, Procs
  <2> QED BY <1>4, <2>1, <2>2, <2>3 DEF Read
<1>5. CASE Store
  <2>1. CASE Fails /\ UNCHANGED cluster
    BY <2>1, FailsType
  <2>2. CASE ~Fails /\ secret = proc.found
    <3>1. /\ secret' = [id |-> proc.tls.id, age |-> "fresh", version |-> serial]
          /\ serial' = serial + 1 /\ Goto("serve") /\ proc.pc = "store"
          /\ UNCHANGED <<config, nodes, pool, events, left>>
      BY <1>5, <2>2 DEF Store, cluster
    <3>2. proc' \in Procs /\ HasCertificate'
      BY <3>1, GotoType DEF Stages
    <3>3. secret' \in Secrets
      BY <1>0, <3>1 DEF TypeInv, TypeOK, HasCertificate, Procs, Secrets, Certs, Ages
    <3> QED BY <3>1, <3>2, <3>3 DEF TypeInv, TypeOK, Procs
  <2>3. CASE ~Fails /\ secret # proc.found
    <3>1. /\ \/ /\ proc' = [proc EXCEPT !.pc = "read", !.tries = @ + 1, !.found = None, !.tls = None]
                /\ retries /\ left' = left
             \/ Gone("error")
          /\ UNCHANGED <<secret, config, nodes, pool, serial, events>>
      BY <1>5, <2>3 DEF Store, cluster
    <3>2. CASE Gone("error")
      BY <3>1, <3>2, <1>a, GoneType DEF Gone, TypeInv, TypeOK
    <3>3. CASE ~Gone("error")
      <4>1. proc' \in Procs /\ HasCertificate'
        <5>1. proc.tries + 1 \in 0..(Tries - 1)
          BY <1>0, <3>1, <3>3, WebhookAssumption DEF Procs, retries
        <5>2. proc' = [proc EXCEPT !.pc = "read", !.tries = @ + 1, !.found = None, !.tls = None]
          BY <3>1, <3>3
        <5>3. proc'.pc = "read" /\ proc'.tls = None
          BY <1>0, <5>2 DEF Procs
        <5>4. proc' \in Procs
          BY <1>0, <5>1, <5>2, Zenon DEF Procs, Stages
        <5> QED BY <5>3, <5>4 DEF HasCertificate
      <4> QED BY <3>1, <3>3, <4>1, <1>a DEF TypeInv, TypeOK
    <3> QED BY <3>2, <3>3
  <2> QED BY <1>5, <2>1, <2>2, <2>3 DEF Store
<1>6. CASE Serve
  <2>1. CASE Fails /\ UNCHANGED cluster
    BY <2>1, FailsType
  <2>2. CASE ~Fails
    <3>1. proc' \in Procs /\ HasCertificate'
      BY <1>6, <2>2, GotoType DEF Serve, Stages
    <3> QED BY <1>6, <2>2, <3>1, <1>a DEF Serve, cluster, TypeInv, TypeOK
  <2> QED BY <1>6, <2>1, <2>2 DEF Serve
<1>7. CASE register
  <2>1. CASE Fails /\ UNCHANGED cluster
    BY <2>1, FailsType
  <2>2. CASE ~Fails
    <3>1. /\ Goto("install") /\ proc.pc = "register" /\ config' = proc.tls.id /\ left' = None
          /\ UNCHANGED <<secret, nodes, pool, serial, events>>
      BY <1>7, <2>2 DEF register, applied, cluster
    <3>2. proc' \in Procs /\ HasCertificate'
      BY <3>1, GotoType DEF Stages
    <3>3. config' \in Nat
      BY <1>0, <3>1 DEF TypeInv, HasCertificate, Procs, Certs
    <3> QED BY <3>1, <3>2, <3>3 DEF TypeInv, TypeOK, Procs
  <2> QED BY <1>7, <2>1, <2>2 DEF register
<1>8. CASE Term
  <2>1. proc' \in Procs
    BY <1>0, <1>8 DEF Term, Goto, Procs, Stages
  <2>2. HasCertificate'
    BY <1>0, <1>8 DEF Term, Goto, Procs, TypeInv, HasCertificate
  <2> QED BY <1>8, <1>a, <2>1, <2>2 DEF Term, Spend, cluster, TypeInv, TypeOK
<1>9. CASE unregister
  <2>1. proc' \in Procs /\ HasCertificate'
    BY <1>9, GotoType DEF unregister, Stages
  <2> QED BY <1>9, <2>1 DEF unregister, unregistered, Spend, cluster, TypeInv, TypeOK, Procs
<1>10. CASE SecretChanges
  <2>1. secret' \in Secrets \cup {None} /\ serial' \in Nat
    BY <1>10 DEF SecretChanges, Secrets, Ages, TypeInv, TypeOK
  <2> QED BY <1>10, <1>b, <2>1 DEF SecretChanges, Spend, cluster, TypeInv, TypeOK, Procs
<1>11. CASE Age
  <2>1. secret' \in Secrets \cup {None} /\ Older(proc.tls) \in Certs \cup {None}
    BY <1>0, <1>11, OlderTypes DEF Age, Procs, TypeInv, TypeOK
  <2>2. proc' \in Procs /\ proc'.tls = Older(proc.tls) /\ proc'.pc = proc.pc
    BY <1>0, <1>11, <2>1, Zenon DEF Age, Procs
  <2>3. HasCertificate'
    <3>1. proc.tls \in Certs \cup {None}
      BY <1>0 DEF Procs
    <3>2. proc.tls # None /\ proc.tls.age # "foreign" =>
            Older(proc.tls) # None /\ Older(proc.tls).age # "foreign"
      BY <3>1, OlderKind, Zenon
    <3> QED BY <2>2, <3>1, <3>2 DEF TypeInv, HasCertificate, Older
  <2> QED BY <1>11, <2>1, <2>2, <2>3 DEF Age, Spend, cluster, TypeInv, TypeOK, Procs
<1>12. CASE DeleteConfig
  BY <1>12, <1>b DEF DeleteConfig, Spend, cluster, TypeInv, TypeOK, Procs
<1>13. CASE NodeChanges
  BY <1>13, <1>b DEF NodeChanges, Spend, TypeInv, TypeOK, Procs
<1>14. CASE \E new \in SUBSET Names : Edit(new)
  BY <1>14, <1>b DEF Edit, TypeInv, TypeOK, Procs
<1>15. CASE UNCHANGED vars
  BY <1>15, <1>a, <1>b DEF vars, TypeInv, TypeOK
<1> QED
  BY <1>1, <1>2, <1>3, <1>4, <1>5, <1>6, <1>7, <1>8, <1>9, <1>10, <1>11, <1>12, <1>13,
     <1>14, <1>15 DEF Next, Process

\* Type correctness: the process, the Secret, the configuration and the pool keep
\* their types through every start, error, signal, crash and change by others.
THEOREM TypeCorrect == Spec => []TypeOK
<1>1. Init => TypeInv
  BY InitType
<1>2. TypeInv /\ [Next]_vars => TypeInv'
  BY NextType
<1>3. TypeInv => TypeOK
  BY DEF TypeInv
<1> QED
  BY <1>1, <1>2, <1>3, PTL DEF Spec

-----------------------------------------------------------------------------
(* RefusedForCause.  What the API server does depends on the configuration *)
(* it has and on the process that should answer; the invariant relates the *)
(* two: from registering to the end of its shutdown this process is the    *)
(* one that the configuration points to, and at any other time a           *)
(* configuration is what a process left that ended without its shutdown.   *)

\* The stages in which the process has registered its own CA.
Registered == proc.pc \in {"install", "running", "unregister"}

Accounted ==
  config # None =>
    IF Registered THEN config = proc.tls.id ELSE left \in {"crash", "error", "signal"}

RefusalInv == TypeInv /\ Accounted

\* The strengthened invariant explains every refusal.
LEMMA RefusalExplained == RefusalInv => RefusedForCause
<1> SUFFICES ASSUME RefusalInv, NEW new \in SUBSET Names, ~Admitted(new)
             PROVE  \/ Reviewed /\ \E n \in new \ pool : n \notin proc.seen
                    \/ ~Reviewed /\ \/ left \in {"crash", "error", "signal"}
                                    \/ proc.tls # None /\ proc.tls.age = "expired"
  BY DEF RefusedForCause
<1>1. config # None
  BY DEF Admitted
<1>2. CASE Reviewed
  <2>1. \E n \in new \ proc.seen : n \notin pool
    BY <1>2 DEF Admitted, review_pool, preferred_node_problems
  <2> QED BY <1>2, <2>1
<1>3. CASE ~Reviewed /\ ~Registered
  BY <1>1, <1>3 DEF RefusalInv, Accounted
<1>4. CASE ~Reviewed /\ Registered
  <2>1. config = proc.tls.id /\ Listening /\ proc.tls # None /\ proc.tls.age # "foreign"
    BY <1>1, <1>4 DEF RefusalInv, Accounted, Registered, Listening, TypeInv, HasCertificate
  <2>2. proc.tls.age \in Ages
    BY <2>1 DEF RefusalInv, TypeInv, TypeOK, Certs
  <2> QED BY <1>4, <2>1, <2>2 DEF Reviewed, Ages
<1> QED BY <1>2, <1>3, <1>4

\* Every step leaves the configuration accounted for.
LEMMA NextAccounted == RefusalInv /\ [Next]_vars => Accounted'
<1> SUFFICES ASSUME RefusalInv, [Next]_vars PROVE Accounted'
  OBVIOUS
<1>0. proc \in Procs
  BY DEF RefusalInv, TypeInv, TypeOK, Procs
<1>a. ASSUME NEW how \in {"crash", "error", "signal"}, Gone(how) PROVE Accounted'
  BY <1>a DEF Gone, Down, Accounted, Registered
<1>b. ASSUME UNCHANGED <<config, left>>, proc'.pc \notin {"install", "running", "unregister"},
             ~Registered
      PROVE  Accounted'
  BY <1>b DEF RefusalInv, Accounted, Registered
<1>c. ASSUME config' \in {config, None}, UNCHANGED left, proc'.tls = proc.tls,
             Registered' <=> Registered
      PROVE  Accounted'
  BY <1>c DEF RefusalInv, Accounted, Registered
<1>1. CASE Fails
  BY <1>1, <1>a DEF Fails
<1>2. CASE Start \/ Sync
  <2>1. proc'.pc \in {"sync", "read"} /\ proc.pc \in {"down", "sync"} /\ UNCHANGED <<config, left>>
    BY <1>0, <1>2 DEF Start, Sync, Goto, Procs
  <2> QED BY <2>1, <1>b DEF Registered
<1>3. CASE Read /\ ~Fails
  <2>1. proc'.pc \in {"serve", "store"} /\ proc.pc = "read" /\ UNCHANGED <<config, left>>
    BY <1>0, <1>3 DEF Read, Procs
  <2> QED BY <2>1, <1>b DEF Registered
<1>4. CASE Store /\ ~Fails
  <2>1. CASE Gone("error")
    BY <2>1, <1>a
  <2>2. CASE ~Gone("error")
    <3>1. proc'.pc \in {"serve", "read"} /\ proc.pc = "store" /\ UNCHANGED <<config, left>>
      BY <1>0, <1>4, <2>2 DEF Store, Goto, Procs
    <3> QED BY <3>1, <1>b DEF Registered
  <2> QED BY <2>1, <2>2
<1>5. CASE Serve /\ ~Fails
  <2>1. proc'.pc = "register" /\ proc.pc = "serve" /\ UNCHANGED <<config, left>>
    BY <1>0, <1>5 DEF Serve, Goto, Procs
  <2> QED BY <2>1, <1>b DEF Registered
<1>6. CASE register /\ ~Fails
  <2>1. proc'.pc = "install" /\ proc'.tls = proc.tls /\ config' = proc.tls.id
    BY <1>0, <1>6 DEF register, applied, Goto, Procs
  <2> QED BY <2>1 DEF Accounted, Registered
<1>7. CASE Install
  <2>1. /\ proc'.pc = "running" /\ proc.pc = "install" /\ proc'.tls = proc.tls
        /\ UNCHANGED <<config, left>>
    BY <1>0, <1>7 DEF Install, Goto, Procs
  <2> QED BY <2>1, <1>c DEF Registered
<1>8. CASE Term
  <2>1. /\ proc'.pc = proc.pc \/ (proc.pc = "running" /\ proc'.pc = "unregister")
        /\ proc'.tls = proc.tls /\ UNCHANGED <<config, left>>
    BY <1>0, <1>8 DEF Term, Goto, Procs
  <2> QED BY <2>1, <1>c DEF Registered
<1>9. CASE unregister
  <2>1. config' = None \/ left' = "error"
    BY <1>9 DEF unregister, unregistered
  <2>2. proc'.pc = "exit"
    BY <1>0, <1>9 DEF unregister, Goto, Procs
  <2> QED BY <2>1, <2>2 DEF Accounted, Registered
<1>10. CASE Exit
  <2>1. proc'.pc = "down" /\ proc.pc = "exit" /\ UNCHANGED config
    BY <1>10 DEF Exit, Gone, Down
  <2>2. left # None => left' = left
    BY <1>10 DEF Exit, Gone
  <2>3. config # None => left \in {"crash", "error", "signal"}
    BY <2>1 DEF RefusalInv, Accounted, Registered
  <2> QED BY <2>1, <2>2, <2>3, NoneAssumption DEF Accounted, Registered
<1>11. CASE Kill \/ Crash
  BY <1>11, <1>a DEF Kill, Crash
<1>12. CASE SecretChanges \/ NodeChanges \/ \E new \in SUBSET Names : Edit(new)
  BY <1>12, <1>c DEF SecretChanges, NodeChanges, Edit, Registered
<1>13. CASE DeleteConfig
  BY <1>13, <1>c DEF DeleteConfig, Registered
<1>14. CASE Watch
  <2>1. proc'.pc = proc.pc /\ proc'.tls = proc.tls /\ UNCHANGED <<config, left>>
    BY <1>0, <1>14 DEF Watch, Procs
  <2> QED BY <2>1, <1>c DEF Registered
<1>15. CASE Age
  <2>1. proc'.pc = proc.pc /\ proc'.tls = Older(proc.tls) /\ UNCHANGED <<config, left>>
    BY <1>0, <1>15 DEF Age, Procs
  <2>2. Registered => Older(proc.tls).id = proc.tls.id
    BY <1>0 DEF RefusalInv, TypeInv, HasCertificate, Registered, Older, Procs, Certs
  <2> QED BY <2>1, <2>2 DEF RefusalInv, Accounted, Registered
<1>16. CASE UNCHANGED vars
  BY <1>16, <1>c DEF vars, Registered
<1> QED
  BY <1>1, <1>2, <1>3, <1>4, <1>5, <1>6, <1>7, <1>8, <1>9, <1>10, <1>11, <1>12, <1>13,
     <1>14, <1>15, <1>16 DEF Next, Process

\* However the operator starts, fails, is signalled or killed, and whatever others
\* do to its Secret and configuration: a pool change is refused only because it
\* adds a name that the operator knows no Node by, because the process ended
\* without its shutdown, or because its certificate expired under it.
THEOREM RefusesForCause == Spec => []RefusedForCause
<1>1. Init => RefusalInv
  BY InitType DEF RefusalInv, Accounted, Init
<1>2. RefusalInv /\ [Next]_vars => RefusalInv'
  BY NextType, NextAccounted DEF RefusalInv
<1>3. RefusalInv => RefusedForCause
  BY RefusalExplained
<1> QED
  BY <1>1, <1>2, <1>3, PTL DEF Spec
=============================================================================
