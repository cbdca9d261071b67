----------------------------- MODULE CommandSlot -----------------------------
(***************************************************************************)
(* What the downlink promises: a letter box per node that holds one        *)
(* command.  A command is handed over at most once and to its own node, it *)
(* may get lost on the way, the node executes at most what it was handed,  *)
(* and only what it executed is confirmed.                                 *)
(***************************************************************************)
EXTENDS Sequences

CONSTANTS Nodes, Commands

VARIABLES
  offered,    \* <<node, command>>: every command ever accepted
  waiting,    \* the letter box of each node: no command, or one
  moving,     \* <<node, command>>: handed over and neither lost nor executed
  executed,   \* what each node has executed, in order
  confirmed   \* <<node, command>>: acknowledgements the router recorded

vars == <<offered, waiting, moving, executed, confirmed>>

Init ==
  /\ offered = {} /\ moving = {} /\ confirmed = {}
  /\ waiting = [n \in Nodes |-> {}]
  /\ executed = [n \in Nodes |-> <<>>]

\* The latest command replaces one that is still waiting.
Offer(n, c) ==
  /\ \A m \in Nodes : <<m, c>> \notin offered
  /\ offered' = offered \cup {<<n, c>>}
  /\ waiting' = [waiting EXCEPT ![n] = {c}]
  /\ UNCHANGED <<moving, executed, confirmed>>

\* The box is emptied and nobody gets the command.
Withdraw(n) ==
  /\ waiting' = [waiting EXCEPT ![n] = {}]
  /\ UNCHANGED <<offered, moving, executed, confirmed>>

HandOver(n, c) ==
  /\ c \in waiting[n]
  /\ waiting' = [waiting EXCEPT ![n] = {}]
  /\ moving' = moving \cup {<<n, c>>}
  /\ UNCHANGED <<offered, executed, confirmed>>

Lose ==
  /\ moving' \subseteq moving
  /\ UNCHANGED <<offered, waiting, executed, confirmed>>

\* The node turns to one command; others it was handed may be lost with it.
Execute(n, c) ==
  /\ <<n, c>> \in moving
  /\ moving' \subseteq moving \ {<<n, c>>}
  /\ executed' = [executed EXCEPT ![n] = Append(@, c)]
  /\ UNCHANGED <<offered, waiting, confirmed>>

Confirm(n, c) ==
  /\ \E i \in DOMAIN executed[n] : executed[n][i] = c
  /\ confirmed' = confirmed \cup {<<n, c>>}
  /\ UNCHANGED <<offered, waiting, moving, executed>>

Next ==
  \/ Lose
  \/ \E n \in Nodes :
       \/ Withdraw(n)
       \/ \E c \in Commands : Offer(n, c) \/ HandOver(n, c) \/ Execute(n, c) \/ Confirm(n, c)

Spec == Init /\ [][Next]_vars

\* No command is executed twice, or by a node it was not sent to, and what is
\* confirmed was executed.
AtMostOnce ==
  /\ \A n \in Nodes : \A i \in DOMAIN executed[n] :
       /\ \A m \in Nodes : <<m, executed[n][i]>> \in offered <=> m = n
       /\ \A j \in DOMAIN executed[n] : executed[n][j] = executed[n][i] => j = i
  /\ \A n \in Nodes, c \in Commands :
       <<n, c>> \in confirmed => \E i \in DOMAIN executed[n] : executed[n][i] = c
=============================================================================
