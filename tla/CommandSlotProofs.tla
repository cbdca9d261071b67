-------------------------- MODULE CommandSlotProofs --------------------------
(***************************************************************************)
(* What the letter box promises: whatever is offered, withdrawn and lost,  *)
(* no command is executed twice.                                           *)
(***************************************************************************)
EXTENDS CommandSlot, Integers, TLAPS

Types ==
  /\ offered \subseteq Nodes \X Commands /\ moving \subseteq Nodes \X Commands
  /\ waiting \in [Nodes -> SUBSET Commands]
  /\ executed \in [Nodes -> Seq(Commands)]

HasExecuted(n, c) == \E i \in DOMAIN executed[n] : executed[n][i] = c

\* AtMostOnce alone does not say where a command still is.  It is sent to one
\* node, and from there it is in one place: its letter box, on its way or executed.
Inv ==
  /\ Types
  /\ \A n, m \in Nodes, c \in Commands : <<n, c>> \in offered /\ <<m, c>> \in offered => n = m
  /\ \A n \in Nodes, c \in Commands :
       /\ c \in waiting[n] => <<n, c>> \in offered /\ <<n, c>> \notin moving /\ ~HasExecuted(n, c)
       /\ <<n, c>> \in moving => <<n, c>> \in offered /\ ~HasExecuted(n, c)
       /\ HasExecuted(n, c) => <<n, c>> \in offered
       /\ <<n, c>> \in confirmed => HasExecuted(n, c)
  /\ \A n \in Nodes : \A i, j \in DOMAIN executed[n] : executed[n][i] = executed[n][j] => i = j

LEMMA TypesInit == Init => Types
  BY DEF Init, Types

LEMMA TypesStep == ASSUME Types, [Next]_vars PROVE Types'
<1>1. ASSUME NEW n \in Nodes, NEW c \in Commands, Execute(n, c) PROVE Types'
  <2>1. executed' \in [Nodes -> Seq(Commands)]
    BY <1>1 DEF Execute, Types
  <2> QED
    BY <1>1, <2>1 DEF Execute, Types
<1>2. CASE Lose
  BY <1>2 DEF Lose, Types
<1>3. ASSUME NEW n \in Nodes, Withdraw(n) PROVE Types'
  BY <1>3 DEF Withdraw, Types
<1>4. ASSUME NEW n \in Nodes, NEW c \in Commands, Offer(n, c) \/ HandOver(n, c) \/ Confirm(n, c)
      PROVE  Types'
  BY <1>4 DEF Offer, HandOver, Confirm, Types
<1>5. CASE UNCHANGED vars
  BY <1>5 DEF vars, Types
<1> QED
  BY <1>1, <1>2, <1>3, <1>4, <1>5 DEF Next

\* What one more execution adds.
LEMMA OneMore ==
  ASSUME Types, NEW n \in Nodes, NEW c \in Commands,
         executed' = [executed EXCEPT ![n] = Append(@, c)]
  PROVE  /\ \A m \in Nodes, d \in Commands :
              HasExecuted(m, d)' <=> HasExecuted(m, d) \/ (m = n /\ d = c)
         /\ \A m \in Nodes \ {n} : executed'[m] = executed[m]
         /\ DOMAIN executed'[n] = DOMAIN executed[n] \cup {Len(executed[n]) + 1}
         /\ \A i \in DOMAIN executed[n] : executed'[n][i] = executed[n][i]
         /\ executed'[n][Len(executed[n]) + 1] = c
<1>1. executed[n] \in Seq(Commands) /\ executed'[n] = Append(executed[n], c)
        /\ \A m \in Nodes \ {n} : executed'[m] = executed[m]
  BY DEF Types
<1>2. /\ DOMAIN executed'[n] = DOMAIN executed[n] \cup {Len(executed[n]) + 1}
      /\ \A i \in DOMAIN executed[n] : executed'[n][i] = executed[n][i]
      /\ executed'[n][Len(executed[n]) + 1] = c
  BY <1>1
<1>3. \A d \in Commands : HasExecuted(n, d)' <=> HasExecuted(n, d) \/ d = c
  BY <1>2 DEF HasExecuted
<1>4. \A m \in Nodes \ {n}, d \in Commands : HasExecuted(m, d)' <=> HasExecuted(m, d)
  BY <1>1 DEF HasExecuted
<1> QED
  BY <1>1, <1>2, <1>3, <1>4

LEMMA InvInit == Init => Inv
  BY TypesInit DEF Init, Inv, HasExecuted

LEMMA InvStep == ASSUME Inv, [Next]_vars PROVE Inv'
<1>1. Types /\ Types'
  BY TypesStep DEF Inv
<1>2. ASSUME UNCHANGED executed PROVE \A n \in Nodes, c \in Commands : HasExecuted(n, c)' <=> HasExecuted(n, c)
  BY <1>2 DEF HasExecuted
<1>3. CASE Lose
  BY <1>1, <1>2, <1>3 DEF Lose, Inv
<1>4. ASSUME NEW n \in Nodes, Withdraw(n) PROVE Inv'
  BY <1>1, <1>2, <1>4 DEF Withdraw, Inv, Types
<1>5. ASSUME NEW n \in Nodes, NEW c \in Commands, Offer(n, c) PROVE Inv'
  BY <1>1, <1>2, <1>5 DEF Offer, Inv, Types
<1>6. ASSUME NEW n \in Nodes, NEW c \in Commands, HandOver(n, c) PROVE Inv'
  BY <1>1, <1>2, <1>6 DEF HandOver, Inv, Types
<1>7. ASSUME NEW n \in Nodes, NEW c \in Commands, Execute(n, c) PROVE Inv'
  <2>1. ~HasExecuted(n, c) /\ <<n, c>> \in offered
    BY <1>7 DEF Execute, Inv
  <2>2. \A m \in Nodes : \A i, j \in DOMAIN executed'[m] : executed'[m][i] = executed'[m][j] => i = j
    BY <1>1, <1>7, <2>1, OneMore DEF Execute, Inv, HasExecuted
  <2>3. \A m \in Nodes, d \in Commands :
          HasExecuted(m, d)' <=> HasExecuted(m, d) \/ (m = n /\ d = c)
    BY <1>1, <1>7, OneMore DEF Execute
  <2>4. moving' \subseteq moving \ {<<n, c>>} /\ UNCHANGED <<offered, waiting, confirmed>>
    BY <1>7 DEF Execute
  <2>5. c \notin waiting[n]
    BY <1>7 DEF Execute, Inv
  <2> QED
    BY <1>1, <2>1, <2>2, <2>3, <2>4, <2>5 DEF Inv
<1>8. ASSUME NEW n \in Nodes, NEW c \in Commands, Confirm(n, c) PROVE Inv'
  BY <1>1, <1>2, <1>8 DEF Confirm, Inv, HasExecuted
<1>9. CASE UNCHANGED vars
  BY <1>1, <1>2, <1>9 DEF vars, Inv
<1> QED
  BY <1>3, <1>4, <1>5, <1>6, <1>7, <1>8, <1>9 DEF Next

\* A letter box delivers at most once: what CommandPipeline implements is worth
\* implementing.
THEOREM DeliversAtMostOnce == Spec => []AtMostOnce
<1>1. Inv => AtMostOnce
  <2> SUFFICES ASSUME Inv PROVE AtMostOnce
    OBVIOUS
  <2>1. ASSUME NEW n \in Nodes, NEW i \in DOMAIN executed[n] PROVE executed[n][i] \in Commands
    BY <2>1 DEF Inv, Types
  <2> QED
    BY <2>1 DEF Inv, Types, AtMostOnce, HasExecuted
<1> QED
  BY InvInit, InvStep, <1>1, PTL DEF Spec
==============================================================================
