------------------------------ MODULE PowerPort ------------------------------
(***************************************************************************)
(* What the controller may rely on when it gives a power command to a      *)
(* machine's interfaces (the trait PowerDriver of src/drivers/mod.rs and   *)
(* the chain behind it), whatever they are and however they fail:          *)
(*                                                                         *)
(*   - the machine only moves the way a command asked for, and only while  *)
(*     that command may still act: during its call, or after it when the   *)
(*     call ended without a certain answer;                                *)
(*   - a command that is given is answered.                                *)
(*                                                                         *)
(* It is the abstract specification that PowerChain implements.            *)
(***************************************************************************)
CONSTANTS Actors, None

VARIABLES
  power,     \* "off", "booting" or "up"
  stopping,  \* the OS is carrying out a shutdown
  order,     \* the command each actor is giving, or None
  asked      \* commands that may still act

vars == <<power, stopping, order, asked>>

Commands == {"PowerOn", "PowerOff", "ForceOff"}

TypeOK ==
  /\ power \in {"off", "booting", "up"}
  /\ stopping \in BOOLEAN
  /\ order \in [Actors -> Commands \cup {None}]
  /\ asked \subseteq Commands

Init ==
  /\ power \in {"off", "up"} /\ stopping = FALSE
  /\ order = [a \in Actors |-> None]
  /\ asked = {}

\* A command that is given may act; one that was given before may not any more.
Give(a, c) ==
  /\ order[a] = None
  /\ order' = [order EXCEPT ![a] = c]
  /\ asked' \subseteq asked \cup {c}
  /\ UNCHANGED <<power, stopping>>

\* The machine moves the way a command asked for; only a forced power-off takes
\* the power away from a running OS.
Moves(c) ==
  \/ /\ c = "PowerOn" /\ power = "off"
     /\ power' = "booting" /\ stopping' = FALSE
  \/ /\ c \in {"PowerOff", "ForceOff"} /\ power = "up"
     /\ stopping' = TRUE /\ power' = power
  \/ /\ c = "ForceOff" /\ power # "off"
     /\ power' = "off" /\ stopping' = FALSE
  \/ UNCHANGED <<power, stopping>>

\* A command acts, within its call or late.
Act(c) ==
  /\ c \in asked
  /\ Moves(c)
  /\ asked' \subseteq asked
  /\ order' \in {[order EXCEPT ![a] = None] : a \in Actors} \cup {order}

\* A call ends, with success or with an error, without moving the machine.
Answer(a) ==
  /\ order[a] # None
  /\ order' = [order EXCEPT ![a] = None]
  /\ asked' \subseteq asked
  /\ UNCHANGED <<power, stopping>>

\* What may still act is used up or lost.
Fade ==
  /\ asked' \subseteq asked
  /\ UNCHANGED <<power, stopping, order>>

\* What the machine does by itself: it finishes booting, it finishes its
\* shutdown, its OS reboots.
Machine ==
  /\ \/ power = "booting" /\ power' = "up" /\ UNCHANGED stopping
     \/ stopping /\ power' = "off" /\ stopping' = FALSE
     \/ power = "up" /\ ~stopping /\ power' = "booting" /\ UNCHANGED stopping
  /\ UNCHANGED <<order, asked>>

Next ==
  \/ \E a \in Actors, c \in Commands : Give(a, c)
  \/ \E c \in Commands : Act(c)
  \/ \E a \in Actors : Answer(a)
  \/ Fade
  \/ Machine

Spec == Init /\ [][Next]_vars

\* Every command is answered: the call of one actor never waits for ever.
Answered == \A a \in Actors : []<>(order[a] = None)
=============================================================================
