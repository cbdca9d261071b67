------------------------ MODULE CommandPipelineProofs ------------------------
(***************************************************************************)
(* The way of a command, proved for any nodes and commands and any number  *)
(* of mishaps: it implements the letter box of CommandSlot, a command that *)
(* comes with MQTT arrives as it was sent, and neither a command nor a     *)
(* registration gets lost between two parts of the system.                 *)
(***************************************************************************)
EXTENDS CommandPipeline, TLAPS

LEMMA TypeInit == Init => TypeOK
<1> SUFFICES ASSUME Init PROVE TypeOK
  OBVIOUS
<1>1. table \in [Nodes -> Entry]
  BY NamesAssumption, SMT DEF Init, Entry, Payloads
<1>2. current \in [Nodes -> Item] /\ executed \in [Nodes -> Seq(Item)]
  BY DEF Init, Item, Nothing, Payloads
<1> QED
  BY <1>1, <1>2, NamesAssumption DEF Init, TypeOK, Labels

LEMMA TypeMishap ==
  ASSUME TypeOK, NEW kind \in {"timeout", "reset", "duplicate", "move", "blank"}, NEW bound,
         Mishap(kind, bound)
  PROVE  mishaps' \in [{"timeout", "reset", "duplicate", "move", "blank"} -> Nat]
  BY DEF TypeOK, Mishap

\* A request that is sent, and one that is closed, is a request.
LEMMA TypePosted ==
  ASSUME TypeOK, NEW n \in Nodes, NEW kind \in {"register", "data", "get", "ack"}, NEW c \in Payloads
  PROVE  Posted(n, kind, c) \in Request
  BY DEF TypeOK, Posted, Request

LEMMA TypeClosed ==
  ASSUME NEW n \in Nodes, NEW r \in Request
  PROVE  Closed(r, n) \in Request
  BY DEF Closed, Request

LEMMA TypeClose ==
  ASSUME TypeOK, NEW n \in Nodes, Close(n)
  PROVE  requests' \subseteq Request /\ answers' \subseteq Answer
  BY TypeClosed DEF TypeOK, Close, network, Mail

LEMMA TypeInHand ==
  ASSUME TypeOK, NEW n \in Nodes
  PROVE  InHand(n) \subseteq Payloads /\ Unread(n) \subseteq Payloads
  BY DEF TypeOK, InHand, Unread, Mail, Answer, Item

LEMMA TypeNode == ASSUME TypeOK, NEW n \in Nodes, NodeStep(n) PROVE TypeOK'
<1> USE DEF Goto, history, network
<1>1. ASSUME NEW l \in Labels, Goto(n, l) PROVE pc' \in [Nodes -> Labels]
  BY <1>1 DEF TypeOK
<1>2. CmdNone \in Payloads /\ Junk \in Payloads
  BY DEF Payloads
<1>3. CASE Boot(n)
  <2>1. requests' \subseteq Request
    BY <1>2, <1>3, TypePosted DEF Boot, Send, TypeOK
  <2> QED
    BY <1>1, <1>3, <2>1 DEF Boot, TypeOK, Labels
<1>4. CASE Registered(n)
  BY <1>1, <1>4, TypeClose DEF Registered, TypeOK, Labels
<1>5. CASE Report(n)
  <2>1. requests' \subseteq Request
    BY <1>2, <1>5, TypePosted DEF Report, Send, TypeOK
  <2> QED
    BY <1>1, <1>5, <2>1 DEF Report, TypeOK, Labels
<1>6. CASE Poll(n)
  <2>1. requests' \subseteq Request
    BY <1>2, <1>6, TypePosted DEF Poll, Send, TypeOK
  <2> QED
    BY <1>1, <1>6, <2>1 DEF Poll, TypeOK, Labels
<1>7. CASE Receive(n)
  <2>1. PICK a \in Mail(n) : /\ answers' = answers \ {a}
                             /\ \E i \in Copied(a) : current' = [current EXCEPT ![n] = i]
    BY <1>7 DEF Receive
  <2>2. Copied(a) \subseteq Item
    BY <1>2, <2>1 DEF TypeOK, Mail, Answer, Copied, Item, Nothing
  <2>3. current' \in [Nodes -> Item] /\ answers' \subseteq Answer
    BY <2>1, <2>2 DEF TypeOK
  <2>4. excused' \subseteq Payloads
    BY <1>7 DEF Receive, TypeOK, Item
  <2> QED
    BY <1>1, <1>7, <2>3, <2>4 DEF Receive, TypeOK, Labels
<1>8. CASE Idle(n)
  BY <1>1, <1>8, TypeClose, TypeInHand DEF Idle, TypeOK, Labels
<1>9. CASE Handle(n)
  <2>1. current[n] \in Item /\ current[n].cmd \in Payloads
    BY DEF TypeOK, Item
  <2>2. executed' \in [Nodes -> Seq(Item)]
    BY <1>9, <2>1 DEF Handle, TypeOK
  <2>3. requests' \subseteq Request
    BY <1>9, <2>1, TypeClosed, TypePosted DEF Handle, TypeOK
  <2>4. answers' \subseteq Answer
    BY <1>9 DEF Handle, TypeOK
  <2>5. excused' \subseteq Payloads
    BY <1>9, TypeInHand DEF Handle, TypeOK
  <2> QED
    BY <1>1, <1>9, <2>2, <2>3, <2>4, <2>5 DEF Handle, TypeOK, Labels
<1>10. CASE Acknowledged(n)
  BY <1>1, <1>10, TypeClose DEF Acknowledged, AfterAck, TypeOK, Labels
<1> QED
  BY <1>3, <1>4, <1>5, <1>6, <1>7, <1>8, <1>9, <1>10 DEF NodeStep

LEMMA TypeTrouble ==
  ASSUME TypeOK, NEW n \in Nodes, TimesOut(n) \/ Reset(n) \/ \E a \in Addrs : Move(n, a)
  PROVE  TypeOK'
<1> USE TypeMishap DEF Goto, history, network
<1>1. CASE TimesOut(n)
  <2>1. pc' \in [Nodes -> Labels]
    BY <1>1 DEF TimesOut, AfterAck, TypeOK, Labels
  <2> QED
    BY <1>1, <2>1, TypeClose, TypeInHand DEF TimesOut, TypeOK
<1>2. CASE Reset(n)
  <2>1. requests' \subseteq Request
    BY <1>2, TypeClosed DEF Reset, TypeOK
  <2> QED
    BY <1>2, <2>1, TypeInHand DEF Reset, TypeOK, Labels
<1>3. ASSUME NEW a \in Addrs, Move(n, a) PROVE TypeOK'
  BY <1>3 DEF Move, TypeOK
<1> QED
  BY <1>1, <1>2, <1>3

LEMMA TypeDone ==
  ASSUME TypeOK, NEW r \in requests, NEW answer \in Answer, Done(r, answer)
  PROVE  /\ requests' \subseteq Request /\ answers' \subseteq Answer
         /\ mishaps' \in [{"timeout", "reset", "duplicate", "move", "blank"} -> Nat]
  BY TypeMishap DEF TypeOK, Done

LEMMA TypeWaiting == ASSUME TypeOK, NEW m, m \in Nodes \cup {Nobody} PROVE Waiting(m) \in Item
  BY NamesAssumption DEF TypeOK, Waiting, Entry, Item, Payloads, Nothing

LEMMA TypeEntry ==
  ASSUME NEW e \in Entry, NEW k \in BOOLEAN, NEW l \in {"none", "auto", "given"}, NEW a \in Addrs
  PROVE  [e EXCEPT !.known = k, !.label = l, !.addr = a] \in Entry
  BY DEF Entry

LEMMA TypeHeard ==
  ASSUME TypeOK, NEW r \in Request, NEW l \in {"none", "auto", "given"}, Heard(r, l)
  PROVE  table' \in [Nodes -> Entry]
<1>1. [table[r.node] EXCEPT !.known = TRUE, !.label = l, !.addr = r.addr] \in Entry
  BY TypeEntry DEF TypeOK, Request
<1> QED
  BY <1>1 DEF Heard, TypeOK, Request

LEMMA TypeServe == ASSUME TypeOK, NEW r \in requests, Serve(r) PROVE TypeOK'
<1> USE DEF history, network
<1>1. r \in Request /\ Plain(r) \in Answer
  BY DEF TypeOK, Plain, Answer, Request, Nothing, Item, Payloads
<1>2. CASE ServeRegister(r)
  <2>1. table' \in [Nodes -> Entry]
    BY <1>1, <1>2, TypeHeard DEF ServeRegister
  <2> QED
    BY <1>1, <1>2, <2>1, TypeDone DEF ServeRegister, TypeOK
<1>3. CASE ServeData(r)
  <2>1. table' \in [Nodes -> Entry]
    <3>1. Labelled(r.node) \in {"none", "auto", "given"}
      BY <1>1 DEF Labelled, TypeOK, Entry, Request
    <3> QED
      BY <1>1, <1>3, <3>1, TypeHeard DEF ServeData
  <2> QED
    BY <1>1, <1>3, <2>1, TypeDone DEF ServeData, TypeOK
<1>4. CASE ServeGet(r)
  <2>1. PICK m \in Asked(r) :
          /\ Pop(m)
          /\ Done(r, [kind |-> IF m = Nobody THEN "plain" ELSE "cmd", node |-> r.node, item |-> Waiting(m)])
          /\ excused' = IF r.open THEN excused ELSE excused \cup {Waiting(m).cmd}
    BY <1>4 DEF ServeGet
  <2>2. m \in Nodes \cup {Nobody}
    BY <1>1, <2>1 DEF Asked, Request
  <2>3. Waiting(m) \in Item
    BY <2>2, TypeWaiting
  <2>4. [kind |-> IF m = Nobody THEN "plain" ELSE "cmd", node |-> r.node, item |-> Waiting(m)] \in Answer
    BY <1>1, <2>3 DEF Answer, Request
  <2>5. table' \in [Nodes -> Entry]
    BY <2>1 DEF Pop, TypeOK, Entry
  <2>6. excused' \subseteq Payloads
    BY <2>1, <2>3 DEF TypeOK, Item
  <2>7. /\ requests' \subseteq Request /\ answers' \subseteq Answer
        /\ mishaps' \in [{"timeout", "reset", "duplicate", "move", "blank"} -> Nat]
    BY <2>1, <2>4, TypeDone
  <2> QED
    BY <1>4, <2>5, <2>6, <2>7 DEF ServeGet, TypeOK
<1>5. CASE ServeAck(r)
  <2>1. confirmed' \subseteq Nodes \X Payloads
    BY <1>1, <1>5 DEF ServeAck, TypeOK, Request
  <2> QED
    BY <1>1, <1>5, <2>1, TypeDone DEF ServeAck, TypeOK
<1> QED
  BY <1>2, <1>3, <1>4, <1>5 DEF Serve

LEMMA TypeOperator ==
  ASSUME TypeOK, NEW n \in Nodes,
         PostBlank(n) \/ \E c \in Commands : PostCmd(n, c) \/ Downlink(n, c)
  PROVE  TypeOK'
<1> USE DEF history, network
<1>1. ASSUME NEW c \in Commands \cup {CmdNone}, NEW d \in Payloads
      PROVE  [table EXCEPT ![n] = Queued(@, c, d)] \in [Nodes -> Entry]
  BY DEF TypeOK, Entry, Queued
<1>2. table[n].cmd \in Payloads
  BY DEF TypeOK, Entry, Payloads
<1>3. ASSUME NEW c \in Commands, NEW d \in Payloads, Accept(n, c, d), spoiled' \subseteq WithData
      PROVE  TypeOK'
  BY <1>1, <1>2, <1>3 DEF Accept, TypeOK
<1>4. ASSUME NEW c \in Commands, PostCmd(n, c) PROVE TypeOK'
  BY <1>3, <1>4 DEF PostCmd, Own, Payloads, TypeOK
<1>5. ASSUME NEW c \in Commands, Downlink(n, c) PROVE TypeOK'
  BY <1>3, <1>5 DEF Downlink, Own, Payloads, TypeOK
<1>6. CASE PostBlank(n)
  <2>1. table' \in [Nodes -> Entry]
    BY <1>1, <1>6 DEF PostBlank, Payloads
  <2>2. excused' \subseteq Payloads
    BY <1>2, <1>6 DEF PostBlank, TypeOK
  <2> QED
    BY <1>6, <2>1, <2>2, TypeMishap DEF PostBlank, TypeOK
<1> QED
  BY <1>4, <1>5, <1>6

LEMMA TypeStep == ASSUME TypeOK, [Next]_vars PROVE TypeOK'
<1>1. CASE UNCHANGED vars
  BY <1>1 DEF vars, history, network, TypeOK
<1> QED
  BY <1>1, TypeNode, TypeTrouble, TypeServe, TypeOperator DEF Next

\* Tables, requests and answers are of the kinds the model has for them, lost,
\* late and repeated ones included.
THEOREM PipelineTypes == Spec => []TypeOK
  BY TypeInit, TypeStep, PTL DEF Spec

------------------------------------------------------------------------------
(* The letter box.                                                         *)

\* What is open, and what is answered, is what the node waits for.
OpenFits(r) ==
  r.open => \/ r.kind = "register" /\ pc[r.node] = "registering"
            \/ r.kind = "get" /\ pc[r.node] \in {"polling", "polled"}
            \/ r.kind = "ack" /\ pc[r.node] = "acking"
AnswerFits(a) ==
  \/ a.kind = "plain" /\ a.item = Nothing /\ pc[a.node] \in {"registering", "acking"}
  \/ a.kind = "cmd" /\ a.item.cmd \in Commands \cup {CmdNone} /\ pc[a.node] \in {"polling", "polled"}

HasBegun(n, c) == \E i \in DOMAIN executed[n] : executed[n][i].cmd = c

\* An acknowledgement comes after the execution, however late it arrives.
AckFits(r) == r.kind = "ack" => r.cmd \in Commands /\ HasBegun(r.node, r.cmd)

\* That a step implements one of the letter box depends on who reads an answer:
\* an answer to a poll is only ever read by the poll, so that memory that nobody
\* wrote is never taken for a command.
Fit ==
  /\ TypeOK
  /\ \A r \in requests : OpenFits(r) /\ AckFits(r)
  /\ \A a \in answers : AnswerFits(a)
  /\ \A n \in Nodes : pc[n] = "polled" => current[n].cmd \in Commands \cup {CmdNone}

\* What the code must be like for it: every node names itself in its polls, and
\* a released session delivers nothing any more.
Named == ByQuery = Nodes /\ ~SessionsLinger

LEMMA FitInit == Init => Fit
  BY TypeInit DEF Init, Fit

\* r is a request that was there before, perhaps closed since.
Before(r) ==
  \E q \in requests :
    r.node = q.node /\ r.kind = q.kind /\ r.cmd = q.cmd /\ (r.open => q.open)

LEMMA ClosedBefore ==
  ASSUME Fit, NEW n \in Nodes, NEW r \in requests
  PROVE  Before(Closed(r, n)) /\ (Closed(r, n).node = n => ~Closed(r, n).open)
<1>1. r \in Request
  BY DEF Fit, TypeOK
<1>2. CASE r.node = n
  <2>1. Closed(r, n) = [r EXCEPT !.open = FALSE]
    BY <1>2 DEF Closed
  <2>2. /\ Closed(r, n).node = r.node /\ Closed(r, n).kind = r.kind /\ Closed(r, n).cmd = r.cmd
        /\ ~Closed(r, n).open
    BY <1>1, <2>1 DEF Request
  <2> QED
    BY <2>2 DEF Before
<1>3. CASE r.node # n
  BY <1>3 DEF Closed, Before
<1> QED
  BY <1>2, <1>3

\* A session that is closed leaves nothing open, and nothing unread.
LEMMA Closing ==
  ASSUME Fit, NEW n \in Nodes, Close(n), ~SessionsLinger
  PROVE  /\ \A r \in requests' : Before(r) /\ (r.node = n => ~r.open)
         /\ \A a \in answers' : a \in answers /\ a.node # n
<1>1. requests' = {Closed(r, n) : r \in requests} /\ answers' = answers \ Mail(n)
  BY DEF Close
<1>2. \A r \in requests' : Before(r) /\ (r.node = n => ~r.open)
  BY <1>1, ClosedBefore
<1> QED
  BY <1>1, <1>2 DEF Mail

\* Node n goes to l, where nothing it sent before is open and nothing unread;
\* the others stay where they are.
LEMMA FitGoes ==
  ASSUME Fit, TypeOK', NEW n \in Nodes, NEW l, Goto(n, l),
         UNCHANGED <<current, executed>>,
         \A r \in requests' :
           \/ Before(r) /\ (r.node = n => ~r.open)
           \/ r.node = n /\ OpenFits(r)' /\ AckFits(r)',
         \A a \in answers' : a \in answers /\ a.node # n,
         l # "polled"
  PROVE  Fit'
<1>1. pc' = [pc EXCEPT ![n] = l] /\ pc'[n] = l /\ \A m \in Nodes \ {n} : pc'[m] = pc[m]
  BY DEF Goto, Fit, TypeOK
<1>2. \A r \in requests : r.node \in Nodes
  BY DEF Fit, TypeOK, Request
<1>3. ASSUME NEW r \in requests', Before(r), r.node = n => ~r.open PROVE OpenFits(r)' /\ AckFits(r)'
  BY <1>1, <1>2, <1>3 DEF Before, Fit, OpenFits, AckFits, HasBegun
<1>4. \A a \in answers' : AnswerFits(a)'
  <2>1. \A a \in answers' : a.node \in Nodes
    BY DEF TypeOK, Answer
  <2> QED
    BY <1>1, <2>1 DEF Fit, AnswerFits
<1>5. \A m \in Nodes : pc'[m] = "polled" => current'[m].cmd \in Commands \cup {CmdNone}
  BY <1>1 DEF Fit
<1> QED
  BY <1>3, <1>4, <1>5 DEF Fit

\* No node moves: what is served was a request, and its answer fits.
LEMMA FitStays ==
  ASSUME Fit, TypeOK', UNCHANGED <<pc, current, executed>>,
         requests' \subseteq requests, \A a \in answers' : a \in answers \/ AnswerFits(a)
  PROVE  Fit'
<1>1. \A r \in requests' : OpenFits(r)' /\ AckFits(r)'
  BY DEF Fit, OpenFits, AckFits, HasBegun
<1>2. \A a \in answers' : AnswerFits(a)'
  BY DEF Fit, AnswerFits
<1> QED
  BY <1>1, <1>2 DEF Fit

LEMMA Unmoved == ASSUME NEW r \in requests PROVE Before(r)
  BY DEF Before

\* A node that waits for nothing has nothing open and nothing unread.
LEMMA Still ==
  ASSUME Fit, NEW n \in Nodes, pc[n] \in {"boot", "report", "poll"}
  PROVE  /\ \A r \in requests : r.node = n => ~r.open
         /\ \A a \in answers : a.node # n
  BY DEF Fit, OpenFits, AnswerFits

LEMMA FitSends ==
  ASSUME Fit, TypeOK', NEW n \in Nodes, pc[n] \in {"boot", "report", "poll"},
         NEW kind, NEW l, Send(n, kind, CmdNone), Goto(n, l),
         \/ kind = "register" /\ l = "registering"
         \/ kind = "data" /\ l = "poll"
         \/ kind = "get" /\ l = "polling",
         UNCHANGED <<current, executed, answers>>
  PROVE  Fit'
<1>1. PICK p : requests' = requests \cup {p} /\ p = Posted(n, kind, CmdNone)
  BY DEF Send
<1>2. p.node = n /\ p.kind = kind /\ (p.open => kind # "data")
  BY <1>1 DEF Posted
<1>3. pc'[n] = l
  BY DEF Goto, Fit, TypeOK
<1>4. OpenFits(p)' /\ AckFits(p)'
  BY <1>2, <1>3 DEF OpenFits, AckFits
<1>5. \A r \in requests' :
        \/ Before(r) /\ (r.node = n => ~r.open)
        \/ r.node = n /\ OpenFits(r)' /\ AckFits(r)'
  BY <1>1, <1>2, <1>4, Still, Unmoved
<1>6. \A a \in answers' : a \in answers /\ a.node # n
  BY Still
<1>7. l # "polled"
  OBVIOUS
<1> QED
  BY <1>5, <1>6, <1>7, FitGoes

LEMMA FitReceive ==
  ASSUME Fit, Named, TypeOK', NEW n \in Nodes, Receive(n)
  PROVE  Fit'
<1>1. PICK a \in Mail(n) : /\ answers' = answers \ {a}
                           /\ \E i \in Copied(a) : current' = [current EXCEPT ![n] = i]
  BY DEF Receive
<1>2. pc' = [pc EXCEPT ![n] = "polled"] /\ pc[n] \in {"polling", "polled"}
  BY DEF Receive, Goto
<1>3. a \in answers /\ a.node = n /\ a.kind = "cmd" /\ a.item.cmd \in Commands \cup {CmdNone}
  BY <1>1, <1>2 DEF Mail, Fit, AnswerFits
<1>4. current' = [current EXCEPT ![n] = a.item]
  BY <1>1, <1>3 DEF Copied
<1>5. \A m \in Nodes : m # n => pc'[m] = pc[m] /\ current'[m] = current[m]
  BY <1>2, <1>4 DEF Fit, TypeOK
<1>6. pc'[n] = "polled" /\ current'[n] = a.item
  BY <1>2, <1>4 DEF Fit, TypeOK
<1>7. UNCHANGED <<requests, executed>>
  BY DEF Receive
<1>8. \A r \in requests' : OpenFits(r)' /\ AckFits(r)'
  <2>1. \A r \in requests : r.node \in Nodes
    BY DEF Fit, TypeOK, Request
  <2> QED
    BY <1>2, <1>5, <1>6, <1>7, <2>1 DEF Fit, OpenFits, AckFits, HasBegun
<1>9. \A b \in answers' : AnswerFits(b)'
  <2>1. \A b \in answers : b.node \in Nodes
    BY DEF Fit, TypeOK, Answer
  <2> QED
    BY <1>1, <1>2, <1>5, <1>6, <2>1 DEF Fit, AnswerFits
<1> QED
  BY <1>3, <1>5, <1>6, <1>8, <1>9 DEF Fit

\* One more execution: what was begun stays begun.
LEMMA Begins ==
  ASSUME TypeOK, NEW n \in Nodes, executed' = [executed EXCEPT ![n] = Append(@, current[n])],
         NEW c, c = current[n].cmd
  PROVE  /\ \A m \in Nodes : \A d : HasBegun(m, d) => HasBegun(m, d)'
         /\ HasBegun(n, c)'
         /\ Begun' = [Begun EXCEPT ![n] = Append(@, c)]
<1>1. executed[n] \in Seq(Item) /\ current[n] \in Item
  BY DEF TypeOK
<1>2. /\ executed'[n] = Append(executed[n], current[n])
      /\ \A m \in Nodes : m # n => executed'[m] = executed[m]
  BY DEF TypeOK
<1>3. /\ Len(executed'[n]) = Len(executed[n]) + 1
      /\ DOMAIN executed'[n] = 1..(Len(executed[n]) + 1) /\ DOMAIN executed[n] = 1..Len(executed[n])
      /\ \A i \in DOMAIN executed[n] : executed'[n][i] = executed[n][i]
      /\ executed'[n][Len(executed[n]) + 1] = current[n]
      /\ Len(executed[n]) \in Nat
  BY <1>1, <1>2
<1>4. \A m \in Nodes : \A d : HasBegun(m, d) => HasBegun(m, d)'
  <2>1. \A d : HasBegun(n, d) => HasBegun(n, d)'
    BY <1>3 DEF HasBegun
  <2>2. \A m \in Nodes : m # n => \A d : HasBegun(m, d) => HasBegun(m, d)'
    BY <1>2 DEF HasBegun
  <2> QED
    BY <2>1, <2>2
<1>5. HasBegun(n, c)'
  <2>1. executed'[n][Len(executed[n]) + 1].cmd = c
    BY <1>3
  <2>2. Len(executed[n]) + 1 \in DOMAIN executed'[n]
    BY <1>3
  <2> QED
    BY <2>1, <2>2 DEF HasBegun
<1>6. Begun' = [Begun EXCEPT ![n] = Append(@, c)]
  <2>1. Begun'[n] = Append(Begun[n], c)
    <3>1. Begun[n] = [i \in 1..Len(executed[n]) |-> executed[n][i].cmd]
            /\ Begun'[n] = [i \in 1..(Len(executed[n]) + 1) |-> executed'[n][i].cmd]
      BY <1>3 DEF Begun
    <3>2. Begun[n] \in Seq(Payloads) /\ Len(Begun[n]) = Len(executed[n])
      <4>1. \A i \in 1..Len(executed[n]) : executed[n][i] \in Item
        BY <1>1, <1>3
      <4>2. \A i \in 1..Len(executed[n]) : executed[n][i].cmd \in Payloads
        BY <4>1 DEF Item
      <4> QED
        BY <1>3, <3>1, <4>2
    <3>3. c \in Payloads
      BY <1>1 DEF Item
    <3> QED
      BY <1>3, <3>1, <3>2, <3>3
  <2>2. \A m \in Nodes : m # n => Begun'[m] = Begun[m]
    BY <1>2 DEF Begun
  <2>3. Begun' = [m \in Nodes |-> Begun'[m]] /\ Begun = [m \in Nodes |-> Begun[m]]
    BY DEF Begun
  <2> HIDE DEF Begun
  <2> QED
    BY <2>1, <2>2, <2>3
<1> QED
  BY <1>4, <1>5, <1>6

LEMMA FitHandle ==
  ASSUME Fit, Named, TypeOK', NEW n \in Nodes, Handle(n)
  PROVE  Fit'
<1>1. PICK p : requests' = {Closed(r, n) : r \in requests} \cup {p}
                 /\ p = Posted(n, "ack", current[n].cmd)
  BY DEF Handle, Named
<1>2. answers' = answers \ Mail(n)
  BY DEF Handle, Named
<1>3. current[n].cmd \in Commands
  BY DEF Handle, Fit
<1>4. PICK c : c = current[n].cmd
  OBVIOUS
<1>5. p.node = n /\ p.kind = "ack" /\ p.cmd = c
  BY <1>1, <1>4 DEF Posted
<1>6. /\ \A m \in Nodes : \A d : HasBegun(m, d) => HasBegun(m, d)'
      /\ HasBegun(n, c)'
  BY <1>4, Begins DEF Handle, Fit
<1>7. pc'[n] = "acking" /\ \A m \in Nodes : m # n => pc'[m] = pc[m]
  BY DEF Handle, Goto, Fit, TypeOK
<1>8. OpenFits(p)' /\ AckFits(p)'
  BY <1>3, <1>4, <1>5, <1>6, <1>7 DEF OpenFits, AckFits
<1>9. ASSUME NEW r \in requests', r # p PROVE OpenFits(r)' /\ AckFits(r)'
  <2>1. Before(r) /\ (r.node = n => ~r.open)
    BY <1>1, <1>9, ClosedBefore
  <2>2. r.node \in Nodes
    BY DEF TypeOK, Request
  <2> QED
    BY <1>6, <1>7, <2>1, <2>2 DEF Before, Fit, OpenFits, AckFits
<1>10. \A a \in answers' : AnswerFits(a)'
  <2>1. \A a \in answers' : a \in answers /\ a.node # n /\ a.node \in Nodes
    BY <1>2 DEF Mail, TypeOK, Answer
  <2> QED
    BY <1>7, <2>1 DEF Fit, AnswerFits
<1>11. \A m \in Nodes : pc'[m] = "polled" => current'[m].cmd \in Commands \cup {CmdNone}
  BY <1>7 DEF Fit, Handle
<1> QED
  BY <1>8, <1>9, <1>10, <1>11 DEF Fit

LEMMA FitNode == ASSUME Fit, Named, TypeOK', NEW n \in Nodes, NodeStep(n) PROVE Fit'
<1> USE DEF history
<1>1. CASE Boot(n)
  BY <1>1, FitSends DEF Boot
<1>2. CASE Report(n)
  BY <1>2, FitSends DEF Report
<1>3. CASE Poll(n)
  BY <1>3, FitSends DEF Poll
<1>4. ASSUME NEW l, l # "polled", Close(n), Goto(n, l), UNCHANGED <<current, executed>> PROVE Fit'
  BY <1>4, Closing, FitGoes DEF Named
<1>5. CASE Registered(n)
  BY <1>4, <1>5 DEF Registered
<1>6. CASE Receive(n)
  BY <1>6, FitReceive
<1>7. CASE Idle(n)
  BY <1>4, <1>7 DEF Idle
<1>8. CASE Handle(n)
  BY <1>8, FitHandle
<1>9. CASE Acknowledged(n)
  BY <1>4, <1>9 DEF Acknowledged, AfterAck
<1> QED
  BY <1>1, <1>2, <1>3, <1>5, <1>6, <1>7, <1>8, <1>9 DEF NodeStep

LEMMA FitTrouble ==
  ASSUME Fit, Named, TypeOK', NEW n \in Nodes, TimesOut(n) \/ Reset(n) \/ \E a \in Addrs : Move(n, a)
  PROVE  Fit'
<1>1. CASE TimesOut(n)
  <2>1. PICK l : Goto(n, l) /\ l # "polled"
    BY <1>1 DEF TimesOut, AfterAck
  <2> QED
    BY <1>1, <2>1, Closing, FitGoes DEF TimesOut, Named
<1>2. CASE Reset(n)
  <2>1. \A r \in requests' : Before(r) /\ (r.node = n => ~r.open)
    BY <1>2, ClosedBefore DEF Reset
  <2>2. \A a \in answers' : a \in answers /\ a.node # n
    BY <1>2 DEF Reset, Mail
  <2> QED
    BY <1>2, <2>1, <2>2, FitGoes DEF Reset
<1>3. ASSUME NEW a \in Addrs, Move(n, a) PROVE Fit'
  BY <1>3, FitStays DEF Move, network, history
<1> QED
  BY <1>1, <1>2, <1>3

\* Named requests are served for the node that sent them.
LEMMA AskedBySender == ASSUME TypeOK, Named, NEW r \in requests PROVE Asked(r) = {r.node} /\ r.node \in Nodes
  BY DEF Asked, Named, TypeOK, Request

LEMMA FitServe == ASSUME Fit, Named, TypeOK', NEW r \in requests, Serve(r) PROVE Fit'
<1>1. ASSUME NEW answer, Done(r, answer), r.open => AnswerFits(answer), UNCHANGED <<pc, current, executed>>
      PROVE  Fit'
  BY <1>1, FitStays DEF Done
<1>2. OpenFits(r)
  BY DEF Fit
<1>3. CASE r.kind # "get"
  <2>1. r.open => AnswerFits(Plain(r))
    BY <1>2, <1>3 DEF OpenFits, AnswerFits, Plain
  <2> QED
    BY <1>1, <1>3, <2>1 DEF Serve, ServeRegister, ServeData, ServeGet, ServeAck, history
<1>4. CASE r.kind = "get"
  <2>1. ServeGet(r)
    BY <1>4 DEF Serve, ServeRegister, ServeData, ServeAck
  <2>2. PICK m \in Asked(r) :
          Done(r, [kind |-> IF m = Nobody THEN "plain" ELSE "cmd", node |-> r.node, item |-> Waiting(m)])
    BY <2>1 DEF ServeGet
  <2>3. m = r.node /\ m \in Nodes /\ m # Nobody
    BY <2>2, AskedBySender, NamesAssumption DEF Fit
  <2>4. Waiting(m).cmd \in Commands \cup {CmdNone}
    BY <2>3 DEF Fit, TypeOK, Entry, Waiting, Nothing
  <2>5. r.open => AnswerFits([kind |-> IF m = Nobody THEN "plain" ELSE "cmd", node |-> r.node, item |-> Waiting(m)])
    BY <1>2, <1>4, <2>3, <2>4 DEF OpenFits, AnswerFits
  <2> QED
    BY <1>1, <2>1, <2>2, <2>5 DEF ServeGet
<1> QED
  BY <1>3, <1>4

LEMMA FitStep == ASSUME Fit, Named, [Next]_vars PROVE Fit'
<1>1. TypeOK'
  BY TypeStep DEF Fit
<1>2. CASE UNCHANGED vars
  BY <1>1, <1>2, FitStays DEF vars, network, history
<1>3. ASSUME NEW n \in Nodes, PostBlank(n) \/ \E c \in Commands : PostCmd(n, c) \/ Downlink(n, c)
      PROVE  Fit'
  BY <1>1, <1>3, FitStays DEF PostBlank, PostCmd, Downlink, Accept, network
<1> QED
  BY <1>1, <1>2, <1>3, FitNode, FitTrouble, FitServe DEF Next

\* The letter boxes, as CommandSlot sees them.
Boxes == [n \in Nodes |-> Waits(n)]

LEMMA BoxesKept ==
  ASSUME \A n \in Nodes : table'[n].cmd = table[n].cmd
  PROVE  Boxes' = Boxes
  BY DEF Boxes, Waits

LEMMA BoxChanged ==
  ASSUME NEW m \in Nodes, \A n \in Nodes : n # m => table'[n].cmd = table[n].cmd
  PROVE  Boxes' = [Boxes EXCEPT ![m] = {table'[m].cmd} \ {CmdNone}]
  BY DEF Boxes, Waits

\* c has been handed over to n, which has not begun it.
InTransit(n, c) ==
  \/ \E a \in answers : a.node = n /\ a.item.cmd = c
  \/ pc[n] = "polled" /\ current[n].cmd = c

LEMMA MovingIs ==
  \A n \in Nodes, c \in Payloads : <<n, c>> \in Moving <=> c # CmdNone /\ InTransit(n, c)
  BY DEF Moving, Mail, InTransit

LEMMA Lessens ==
  ASSUME \A n \in Nodes, c \in Payloads : c # CmdNone /\ InTransit(n, c)' => InTransit(n, c)
  PROVE  Moving' \subseteq Moving
  BY DEF Moving, Mail, InTransit

\* Nothing is handed over: at most something is lost.
LEMMA Loses ==
  ASSUME Moving' \subseteq Moving, UNCHANGED <<offered, executed, confirmed>>,
         \A n \in Nodes : table'[n].cmd = table[n].cmd
  PROVE  Slot!Next
<1>1. Boxes' = Boxes /\ Begun' = Begun
  BY BoxesKept DEF Begun
<1> QED
  BY <1>1 DEF Slot!Next, Slot!Lose, Boxes

LEMMA LosesGoing ==
  ASSUME Fit, NEW n \in Nodes, NEW l, l # "polled", Goto(n, l), answers' \subseteq answers,
         UNCHANGED <<current, table, offered, executed, confirmed>>
  PROVE  Slot!Next
<1>1. \A m \in Nodes : pc'[m] = "polled" => pc[m] = "polled"
  BY DEF Goto, Fit, TypeOK
<1>2. Moving' \subseteq Moving
  BY <1>1, Lessens DEF InTransit
<1> QED
  BY <1>2, Loses

LEMMA LosesStaying ==
  ASSUME UNCHANGED <<pc, current, offered, executed, confirmed>>,
         \A a \in answers' : a \in answers \/ a.item.cmd = CmdNone,
         \A n \in Nodes : table'[n].cmd = table[n].cmd
  PROVE  Slot!Next
<1>1. Moving' \subseteq Moving
  BY Lessens DEF InTransit
<1> QED
  BY <1>1, Loses

LEMMA ReceiveLoses == ASSUME Fit, Named, NEW n \in Nodes, Receive(n) PROVE Slot!Next
<1>1. PICK a \in Mail(n) : /\ answers' = answers \ {a}
                           /\ \E i \in Copied(a) : current' = [current EXCEPT ![n] = i]
  BY DEF Receive
<1>2. pc' = [pc EXCEPT ![n] = "polled"] /\ pc[n] \in {"polling", "polled"}
  BY DEF Receive, Goto
<1>3. a \in answers /\ a.node = n /\ a.kind = "cmd"
  BY <1>1, <1>2 DEF Mail, Fit, AnswerFits
<1>4. current' = [current EXCEPT ![n] = a.item]
  BY <1>1, <1>3 DEF Copied
<1>5. /\ \A m \in Nodes : m # n => pc'[m] = pc[m] /\ current'[m] = current[m]
      /\ current'[n] = a.item
  BY <1>2, <1>4 DEF Fit, TypeOK
<1>6. Moving' \subseteq Moving
  BY <1>1, <1>3, <1>5, Lessens DEF InTransit
<1> QED
  BY <1>6, Loses DEF Receive

LEMMA HandleExecutes == ASSUME Fit, Named, NEW n \in Nodes, Handle(n) PROVE Slot!Next
<1>1. PICK c : c = current[n].cmd
  OBVIOUS
<1>2. c \in Commands /\ c \in Payloads /\ c # CmdNone /\ pc[n] = "polled"
  BY <1>1 DEF Handle, Fit, Payloads
<1>3. <<n, c>> \in Moving
  BY <1>1, <1>2, MovingIs DEF InTransit
<1>4. pc'[n] = "acking" /\ \A m \in Nodes : pc'[m] = "polled" => pc[m] = "polled"
  BY DEF Handle, Goto, Fit, TypeOK
<1>5. \A a \in answers' : a \in answers /\ a.node # n
  BY DEF Handle, Named, Mail
<1>6. Moving' \subseteq Moving
  BY <1>4, <1>5, Lessens DEF Handle, InTransit
<1>7. ~InTransit(n, c)'
  BY <1>4, <1>5 DEF InTransit
<1>8. <<n, c>> \notin Moving'
  BY <1>2, <1>5, <1>4 DEF Moving, Mail
<1>9. Begun' = [Begun EXCEPT ![n] = Append(@, c)]
  BY <1>1, Begins DEF Handle, Fit
<1>10. Boxes' = Boxes /\ UNCHANGED <<offered, confirmed>>
  BY BoxesKept DEF Handle
<1>11. Slot!Execute(n, c)
  BY <1>3, <1>6, <1>8, <1>9, <1>10 DEF Slot!Execute, Boxes
<1> QED
  BY <1>2, <1>11 DEF Slot!Next

LEMMA GetImplements == ASSUME Fit, Named, NEW r \in requests, ServeGet(r) PROVE Slot!Next
<1>1. PICK m \in Asked(r) :
        /\ Pop(m)
        /\ Done(r, [kind |-> IF m = Nobody THEN "plain" ELSE "cmd", node |-> r.node, item |-> Waiting(m)])
  BY DEF ServeGet
<1>2. m = r.node /\ m \in Nodes /\ m # Nobody
  BY <1>1, AskedBySender, NamesAssumption DEF Fit
<1>3. /\ \A n \in Nodes : n # m => table'[n].cmd = table[n].cmd
      /\ table'[m].cmd = CmdNone
  BY <1>1, <1>2 DEF Pop, Fit, TypeOK, Entry
<1>4. UNCHANGED <<pc, current, offered, executed, confirmed>>
  BY DEF ServeGet
<1>5. PICK a : /\ a = [kind |-> IF m = Nobody THEN "plain" ELSE "cmd", node |-> r.node, item |-> Waiting(m)]
               /\ answers' = IF r.open THEN answers \cup {a} ELSE answers
  BY <1>1 DEF Done
<1>6. CASE table[m].cmd = CmdNone
  <2>1. a.item.cmd = CmdNone
    BY <1>2, <1>5, <1>6 DEF Waiting, Nothing
  <2> QED
    BY <1>3, <1>4, <1>5, <1>6, <2>1, LosesStaying
<1>7. CASE table[m].cmd # CmdNone
  <2>1. PICK c : c = table[m].cmd
    OBVIOUS
  <2>2. c \in Commands /\ c \in Payloads /\ c \in Boxes[m]
    BY <1>2, <1>7, <2>1 DEF Fit, TypeOK, Entry, Payloads, Boxes, Waits
  <2>3. Boxes' = [Boxes EXCEPT ![m] = {}]
    BY <1>2, <1>3, BoxChanged
  <2>4. Begun' = Begun
    BY <1>4 DEF Begun
  <2>5. CASE r.open
    <3>1. a.node = m /\ a.item.cmd = c
      BY <1>2, <1>5, <1>7, <2>1 DEF Waiting
    <3>2. \A n \in Nodes, d \in Payloads : InTransit(n, d)' <=> InTransit(n, d) \/ (n = m /\ d = c)
      BY <1>4, <1>5, <2>5, <3>1 DEF InTransit
    <3>3. Moving' = Moving \cup {<<m, c>>}
      BY <1>2, <1>7, <2>1, <2>2, <3>2 DEF Moving, Mail, InTransit
    <3>4. Slot!HandOver(m, c)
      BY <1>4, <2>2, <2>3, <2>4, <3>3 DEF Slot!HandOver, Boxes
    <3> QED
      BY <1>2, <2>2, <3>4 DEF Slot!Next
  <2>6. CASE ~r.open
    <3>1. Moving' = Moving
      BY <1>4, <1>5, <2>6 DEF Moving, Mail
    <3>2. Slot!Withdraw(m)
      BY <1>4, <2>3, <2>4, <3>1 DEF Slot!Withdraw, Boxes
    <3> QED
      BY <1>2, <3>2 DEF Slot!Next
  <2> QED
    BY <2>5, <2>6
<1> QED
  BY <1>6, <1>7

LEMMA AckImplements == ASSUME Fit, NEW r \in requests, ServeAck(r) PROVE Slot!Next
<1>1. r.kind = "ack" /\ r.node \in Nodes /\ r.cmd \in Commands /\ HasBegun(r.node, r.cmd)
  BY DEF ServeAck, Fit, AckFits, TypeOK, Request
<1>2. /\ UNCHANGED <<table, pc, current, offered, executed>>
      /\ \A a \in answers' : a \in answers \/ a = Plain(r)
  BY DEF ServeAck, Done
<1>3. \A a \in answers' : a \in answers \/ a.item.cmd = CmdNone
  BY <1>2 DEF Plain, Nothing
<1>4. CASE UNCHANGED confirmed
  BY <1>2, <1>3, <1>4, LosesStaying
<1>5. CASE confirmed' = confirmed \cup {<<r.node, r.cmd>>}
  <2>1. Moving' = Moving
    <3>1. \A n \in Nodes, c \in Payloads : c # CmdNone => (InTransit(n, c)' <=> InTransit(n, c))
      BY <1>2, <1>3 DEF InTransit, ServeAck, Done
    <3> QED
      BY <3>1 DEF Moving, Mail, InTransit
  <2>2. Boxes' = Boxes /\ Begun' = Begun
    BY <1>2, BoxesKept DEF Begun
  <2>3. \E i \in DOMAIN Begun[r.node] : Begun[r.node][i] = r.cmd
    BY <1>1 DEF Begun, HasBegun
  <2>4. Slot!Confirm(r.node, r.cmd)
    BY <1>2, <1>5, <2>1, <2>2, <2>3 DEF Slot!Confirm, Boxes
  <2> QED
    BY <1>1, <2>4 DEF Slot!Next
<1> QED
  BY <1>4, <1>5 DEF ServeAck

LEMMA OperatorImplements ==
  ASSUME Fit, NEW n \in Nodes, PostBlank(n) \/ \E c \in Commands : PostCmd(n, c) \/ Downlink(n, c)
  PROVE  Slot!Next
<1>1. ASSUME UNCHANGED <<network, pc, current, executed, confirmed>>
      PROVE  Moving' = Moving /\ Begun' = Begun
  BY <1>1 DEF Moving, Mail, Begun, network
<1>2. ASSUME NEW c, NEW d, table' = [table EXCEPT ![n] = Queued(@, c, d)]
      PROVE  Boxes' = [Boxes EXCEPT ![n] = {c} \ {CmdNone}]
  <2>1. table'[n] = Queued(table[n], c, d) /\ \A m \in Nodes : m # n => table'[m] = table[m]
    BY <1>2 DEF Fit, TypeOK
  <2>2. table'[n].cmd = c
    BY <2>1 DEF Queued, Fit, TypeOK, Entry
  <2> QED
    BY <2>1, <2>2, BoxChanged
<1>3. CASE PostBlank(n)
  <2>1. Boxes' = [Boxes EXCEPT ![n] = {}]
    BY <1>2, <1>3 DEF PostBlank
  <2>2. Slot!Withdraw(n)
    BY <1>1, <1>3, <2>1 DEF PostBlank, Slot!Withdraw, Boxes
  <2> QED
    BY <2>2 DEF Slot!Next
<1>4. ASSUME NEW c \in Commands, NEW d, Accept(n, c, d) PROVE Slot!Next
  <2>1. Boxes' = [Boxes EXCEPT ![n] = {c}]
    BY <1>2, <1>4, NamesAssumption DEF Accept
  <2>2. Slot!Offer(n, c)
    BY <1>1, <1>4, <2>1 DEF Accept, Slot!Offer, Boxes
  <2> QED
    BY <2>2 DEF Slot!Next
<1> QED
  BY <1>3, <1>4 DEF PostCmd, Downlink

LEMMA StepImplements == ASSUME Fit, Named, [Next]_vars PROVE [Slot!Next]_Slot!vars
<1> USE DEF history, network
<1>1. ASSUME NEW n \in Nodes, NodeStep(n) PROVE Slot!Next
  <2>1. CASE Boot(n) \/ Report(n) \/ Poll(n)
    BY <2>1, LosesGoing DEF Boot, Report, Poll
  <2>2. CASE Registered(n) \/ Idle(n) \/ Acknowledged(n)
    <3>1. Close(n) => answers' \subseteq answers
      BY DEF Close
    <3> QED
      BY <2>2, <3>1, LosesGoing DEF Registered, Idle, Acknowledged, AfterAck
  <2> QED
    BY <1>1, <2>1, <2>2, ReceiveLoses, HandleExecutes DEF NodeStep
<1>2. ASSUME NEW n \in Nodes, TimesOut(n) PROVE Slot!Next
  <2>1. PICK l : Goto(n, l) /\ l # "polled"
    BY <1>2 DEF TimesOut, AfterAck
  <2>2. answers' \subseteq answers
    BY <1>2 DEF TimesOut, Close
  <2> QED
    BY <1>2, <2>1, <2>2, LosesGoing DEF TimesOut
<1>3. ASSUME NEW n \in Nodes, Reset(n) PROVE Slot!Next
  BY <1>3, LosesGoing DEF Reset
<1>4. ASSUME NEW n \in Nodes, NEW a \in Addrs, Move(n, a) PROVE Slot!Next
  BY <1>4, LosesStaying DEF Move
<1>5. ASSUME NEW r \in requests, NEW l, Heard(r, l), Done(r, Plain(r)),
             UNCHANGED <<addr, pc, current, history>>
      PROVE  Slot!Next
  <2>1. \A n \in Nodes : table'[n].cmd = table[n].cmd
    BY <1>5 DEF Heard, Fit, TypeOK, Entry
  <2>2. \A a \in answers' : a \in answers \/ a.item.cmd = CmdNone
    BY <1>5 DEF Done, Plain, Nothing
  <2> QED
    BY <1>5, <2>1, <2>2, LosesStaying
<1>6. ASSUME NEW r \in requests, Serve(r) PROVE Slot!Next
  BY <1>5, <1>6, GetImplements, AckImplements DEF Serve, ServeRegister, ServeData
<1>7. CASE UNCHANGED vars
  BY <1>7 DEF vars, Slot!vars, Moving, Mail, Waits, Begun
<1> QED
  BY <1>1, <1>2, <1>3, <1>4, <1>6, <1>7, OperatorImplements DEF Next

\* When every node names itself in its polls and a released session delivers no
\* more, the downlink is a letter box whatever is lost, late, repeated or reset:
\* no command twice, none to another node, none confirmed that was not begun
\* (README.md:380).
THEOREM PipelineImplementsSlot == ASSUME Named PROVE Spec => ImplementsSlot
<1>1. Init => Slot!Init
  BY DEF Init, Slot!Init, Moving, Mail, Waits, Begun
<1> QED
  BY <1>1, FitInit, FitStep, StepImplements, PTL DEF Spec, ImplementsSlot, Slot!Spec

------------------------------------------------------------------------------
(* Payloads.                                                               *)

ItemFits(i) == i.cmd = CmdNone \/ i.data \in Given(i.cmd)

\* PayloadStays holds of what was executed because it holds of every place a
\* command comes through: its slot, its answer and the caller's buffer.
Sent ==
  /\ \A n \in Nodes : ItemFits(table[n])
  /\ \A a \in answers : ItemFits(a.item)
  /\ \A n \in Nodes : pc[n] = "polled" => ItemFits(current[n])
  /\ PayloadStays

LEMMA SentInit == Init => Sent
  BY DEF Init, Sent, ItemFits, PayloadStays

\* What was given as a payload was given: spoiled only grows.
LEMMA GivenStays ==
  ASSUME spoiled \subseteq spoiled'
  PROVE  /\ \A c : Given(c) \subseteq Given(c)'
         /\ \A i : ItemFits(i) => ItemFits(i)'
BY DEF Given, ItemFits, Own

\* Payloads stay where they are.
LEMMA SentStays ==
  ASSUME Fit, Sent, spoiled \subseteq spoiled',
         \A n \in Nodes : table'[n].cmd = CmdNone \/ (table'[n].cmd = table[n].cmd /\ table'[n].data = table[n].data),
         \A a \in answers' : a \in answers \/ ItemFits(a.item),
         \A n \in Nodes : pc'[n] = "polled" => pc[n] = "polled",
         UNCHANGED <<current, executed>>
  PROVE  Sent'
<1>1. \A n \in Nodes : ItemFits(table[n])'
  BY GivenStays DEF Sent, ItemFits, Given, Own
<1>2. \A a \in answers' : ItemFits(a.item)'
  BY GivenStays DEF Sent
<1>3. \A n \in Nodes : pc'[n] = "polled" => ItemFits(current[n])'
  BY GivenStays DEF Sent, ItemFits
<1>4. PayloadStays'
  BY GivenStays DEF Sent, PayloadStays
<1> QED
  BY <1>1, <1>2, <1>3, <1>4 DEF Sent

LEMMA SentNode == ASSUME Fit, Sent, Named, NEW n \in Nodes, NodeStep(n) PROVE Sent'
<1> USE DEF history, network
<1>1. ASSUME NEW l, l # "polled", Goto(n, l) PROVE \A m \in Nodes : pc'[m] = "polled" => pc[m] = "polled"
  BY <1>1 DEF Goto, Fit, TypeOK
<1>2. CASE Boot(n) \/ Report(n) \/ Poll(n)
  BY <1>1, <1>2, SentStays DEF Boot, Report, Poll
<1>3. CASE Registered(n) \/ Idle(n) \/ Acknowledged(n)
  <2>1. Close(n) => answers' \subseteq answers
    BY DEF Close
  <2> QED
    BY <1>1, <1>3, <2>1, SentStays DEF Registered, Idle, Acknowledged, AfterAck
<1>4. CASE Receive(n)
  <2>1. PICK a \in Mail(n) : /\ answers' = answers \ {a}
                             /\ \E i \in Copied(a) : current' = [current EXCEPT ![n] = i]
    BY <1>4 DEF Receive
  <2>2. a \in answers /\ a.kind = "cmd"
    BY <1>4, <2>1 DEF Receive, Mail, Fit, AnswerFits
  <2>3. current' = [current EXCEPT ![n] = a.item]
    BY <2>1, <2>2 DEF Copied
  <2>4. \A m \in Nodes : m # n => pc'[m] = pc[m] /\ current'[m] = current[m]
    BY <1>4, <2>3 DEF Receive, Goto, Fit, TypeOK
  <2>5. current'[n] = a.item
    BY <2>3 DEF Fit, TypeOK
  <2>6. \A m \in Nodes : pc'[m] = "polled" => ItemFits(current[m])'
    BY <1>4, <2>2, <2>4, <2>5, GivenStays DEF Receive, Sent
  <2>7. UNCHANGED <<table, executed, spoiled>>
    BY <1>4 DEF Receive
  <2>8. (\A m \in Nodes : ItemFits(table[m])') /\ PayloadStays'
    BY <2>7 DEF Sent, ItemFits, PayloadStays, Given, Own
  <2>9. \A b \in answers' : ItemFits(b.item)'
    BY <2>1, <2>7, GivenStays DEF Sent
  <2> QED
    BY <2>6, <2>8, <2>9 DEF Sent
<1>5. CASE Handle(n)
  <2>1. current[n].data \in Given(current[n].cmd)
    BY <1>5 DEF Handle, Sent, ItemFits
  <2>2. executed[n] \in Seq(Item) /\ current[n] \in Item
    BY DEF Fit, TypeOK
  <2>3. /\ executed'[n] = Append(executed[n], current[n])
        /\ \A m \in Nodes : m # n => executed'[m] = executed[m]
    BY <1>5 DEF Handle, Fit, TypeOK
  <2>4. \A i \in DOMAIN executed'[n] : executed'[n][i].data \in Given(executed'[n][i].cmd)
    <3>1. ASSUME NEW i \in DOMAIN executed'[n], i \in DOMAIN executed[n]
          PROVE  executed'[n][i].data \in Given(executed'[n][i].cmd)
      <4>1. executed'[n][i] = executed[n][i]
        BY <2>2, <2>3, <3>1
      <4> QED
        BY <3>1, <4>1 DEF Sent, PayloadStays
    <3>2. ASSUME NEW i \in DOMAIN executed'[n], i \notin DOMAIN executed[n]
          PROVE  executed'[n][i] = current[n]
      BY <2>2, <2>3, <3>2
    <3> QED
      BY <2>1, <3>1, <3>2
  <2>5. PayloadStays'
    BY <1>5, <2>3, <2>4 DEF Handle, Sent, PayloadStays, Given, Own
  <2>6. \A m \in Nodes : pc'[m] = "polled" => pc[m] = "polled"
    BY <1>1, <1>5 DEF Handle
  <2>7. \A b \in answers' : ItemFits(b.item)'
    BY <1>5, GivenStays DEF Handle, Sent
  <2> QED
    BY <1>5, <2>5, <2>6, <2>7, GivenStays DEF Handle, Sent, ItemFits
<1> QED
  BY <1>2, <1>3, <1>4, <1>5 DEF NodeStep

LEMMA SentServe == ASSUME Fit, Sent, Named, NEW r \in requests, Serve(r) PROVE Sent'
<1> USE DEF history
<1>1. ItemFits(Plain(r).item)
  BY DEF ItemFits, Plain, Nothing
<1>2. CASE \E l : Heard(r, l) /\ Done(r, Plain(r)) /\ UNCHANGED <<addr, pc, current, history>>
  <2>1. \A n \in Nodes : table'[n].cmd = table[n].cmd /\ table'[n].data = table[n].data
    BY <1>2 DEF Heard, Fit, TypeOK, Entry
  <2>2. \A a \in answers' : a \in answers \/ ItemFits(a.item)
    BY <1>1, <1>2 DEF Done
  <2> QED
    BY <1>2, <2>1, <2>2, SentStays
<1>3. CASE ServeAck(r)
  <2>1. \A a \in answers' : a \in answers \/ ItemFits(a.item)
    BY <1>1, <1>3 DEF ServeAck, Done
  <2> QED
    BY <1>3, <2>1, SentStays DEF ServeAck
<1>4. CASE ServeGet(r)
  <2>1. PICK m \in Asked(r) :
          /\ Pop(m)
          /\ Done(r, [kind |-> IF m = Nobody THEN "plain" ELSE "cmd", node |-> r.node, item |-> Waiting(m)])
    BY <1>4 DEF ServeGet
  <2>2. m = r.node /\ m \in Nodes /\ m # Nobody
    BY <2>1, AskedBySender, NamesAssumption DEF Fit
  <2>3. ItemFits(Waiting(m))
    BY <2>2 DEF Sent, ItemFits, Waiting, Nothing
  <2>4. \A a \in answers' : a \in answers \/ ItemFits(a.item)
    BY <2>1, <2>3 DEF Done
  <2>5. \A n \in Nodes :
          \/ table'[n].cmd = CmdNone
          \/ table'[n].cmd = table[n].cmd /\ table'[n].data = table[n].data
    BY <2>1 DEF Pop, Fit, TypeOK, Entry
  <2> QED
    BY <1>4, <2>4, <2>5, SentStays DEF ServeGet
<1> QED
  BY <1>2, <1>3, <1>4 DEF Serve, ServeRegister, ServeData

LEMMA SentStep ==
  ASSUME Fit, Sent, Named, [Next]_vars
  PROVE  Sent'
<1> USE DEF history, network
<1>1. ASSUME NEW n \in Nodes, TimesOut(n) PROVE Sent'
  <2>1. PICK l : Goto(n, l) /\ l # "polled"
    BY <1>1 DEF TimesOut, AfterAck
  <2>2. \A m \in Nodes : pc'[m] = "polled" => pc[m] = "polled"
    BY <2>1 DEF Goto, Fit, TypeOK
  <2>3. answers' \subseteq answers
    BY <1>1 DEF TimesOut, Close
  <2> QED
    BY <1>1, <2>2, <2>3, SentStays DEF TimesOut
<1>2. ASSUME NEW n \in Nodes, Reset(n) PROVE Sent'
  <2>1. \A m \in Nodes : pc'[m] = "polled" => pc[m] = "polled"
    BY <1>2 DEF Reset, Goto, Fit, TypeOK
  <2> QED
    BY <1>2, <2>1, SentStays DEF Reset
<1>3. ASSUME NEW n \in Nodes, NEW a \in Addrs, Move(n, a) PROVE Sent'
  BY <1>3, SentStays DEF Move
<1>4. ASSUME NEW n \in Nodes, NEW c, NEW d, table' = [table EXCEPT ![n] = Queued(@, c, d)],
             c = CmdNone \/ d \in Given(c)', spoiled \subseteq spoiled',
             UNCHANGED <<answers, pc, current, executed>>
      PROVE  Sent'
  <2>1. table'[n] = Queued(table[n], c, d) /\ \A m \in Nodes : m # n => table'[m] = table[m]
    BY <1>4 DEF Fit, TypeOK
  <2>2. table'[n].cmd = c /\ table'[n].data = d
    BY <2>1 DEF Queued, Fit, TypeOK, Entry
  <2>3. \A m \in Nodes : ItemFits(table[m])'
    <3>1. ItemFits(table[n])'
      BY <1>4, <2>2 DEF ItemFits, Given, Own
    <3>2. ASSUME NEW m \in Nodes, m # n PROVE ItemFits(table[m])'
      BY <1>4, <2>1, <3>2, GivenStays DEF Sent, ItemFits, Given, Own
    <3> QED
      BY <3>1, <3>2
  <2>4. PayloadStays'
    BY <1>4, GivenStays DEF Sent, PayloadStays
  <2>5. /\ \A a \in answers' : ItemFits(a.item)'
        /\ \A m \in Nodes : pc'[m] = "polled" => ItemFits(current[m])'
    BY <1>4, GivenStays DEF Sent, ItemFits
  <2> QED
    BY <2>3, <2>4, <2>5 DEF Sent
<1>5. ASSUME NEW n \in Nodes, NEW c \in Commands, PostCmd(n, c) \/ Downlink(n, c) PROVE Sent'
  <2>1. PICK d \in Given(c)' : Accept(n, c, d) /\ spoiled \subseteq spoiled'
    <3>1. CASE Accept(n, c, Own(c)) /\ UNCHANGED spoiled
      BY <3>1 DEF Given, Own
    <3>2. CASE Accept(n, c, Junk) /\ spoiled' = spoiled \cup {c}
      BY <3>2 DEF Given
    <3> QED
      BY <1>5, <3>1, <3>2 DEF PostCmd, Downlink
  <2> QED
    BY <1>4, <2>1 DEF Accept
<1>6. ASSUME NEW n \in Nodes, PostBlank(n) PROVE Sent'
  BY <1>4, <1>6 DEF PostBlank
<1>7. CASE UNCHANGED vars
  BY <1>7, SentStays DEF vars
<1> QED
  BY <1>1, <1>2, <1>3, <1>5, <1>6, <1>7, SentNode, SentServe DEF Next

\* Whatever is queued before or after it, and whichever way it came, a command is
\* executed with the payload queue_cmd was given with it: queue_cmd and pop_cmd never
\* mix two commands (app_device_registry.c:163-194).
THEOREM PayloadsKept == ASSUME Named PROVE Spec => []PayloadStays
<1>1. Sent => PayloadStays
  BY DEF Sent
<1> QED
  BY <1>1, FitInit, FitStep, SentInit, SentStep, PTL DEF Spec

------------------------------------------------------------------------------
(* Registrations.                                                          *)

\* RegistrationKept holds of a node that goes on because the answer that let it
\* go on was given by the handler that labels the entry.
Labelling ==
  /\ RegistrationKept
  /\ \A a \in answers : pc[a.node] = "registering" => table[a.node].label = "given"

LEMMA LabelsInit == Init => Labelling
  BY DEF Init, Labelling, RegistrationKept

\* Labels are never taken back, and nobody comes out of a registration but with
\* one.
LEMMA LabelsKept ==
  ASSUME Labelling,
         \A n \in Nodes : table[n].label = "given" => table'[n].label = "given",
         \A n \in Nodes \ missed' : pc'[n] \notin {"boot", "registering"} =>
            \/ n \notin missed /\ pc[n] \notin {"boot", "registering"}
            \/ table'[n].label = "given",
         \A a \in answers' : /\ a.node \in Nodes
                             /\ pc'[a.node] = "registering" =>
                                  \/ a \in answers /\ pc[a.node] = "registering"
                                  \/ table'[a.node].label = "given"
  PROVE  Labelling'
<1>1. RegistrationKept'
  BY DEF Labelling, RegistrationKept
<1>2. \A a \in answers' : pc'[a.node] = "registering" => table'[a.node].label = "given"
  BY DEF Labelling
<1> QED
  BY <1>1, <1>2 DEF Labelling

LEMMA LabelsGoing ==
  ASSUME Fit, Labelling, NEW n \in Nodes, NEW l, Goto(n, l), l # "registering", answers' \subseteq answers,
         UNCHANGED table,
         \/ pc[n] = "registering" /\ Mail(n) # {} /\ UNCHANGED missed
         \/ pc[n] \notin {"boot", "registering"} /\ UNCHANGED missed
         \/ missed' = missed \cup {n}
  PROVE  Labelling'
<1>1. pc'[n] = l /\ \A m \in Nodes : m # n => pc'[m] = pc[m]
  BY DEF Goto, Fit, TypeOK
<1>2. \A a \in answers : a.node \in Nodes
  BY DEF Fit, TypeOK, Answer
<1>3. pc[n] = "registering" /\ Mail(n) # {} => table[n].label = "given"
  BY DEF Mail, Labelling
<1> QED
  BY <1>1, <1>2, <1>3, LabelsKept

LEMMA LabelsStay ==
  ASSUME Fit, Labelling, TypeOK', UNCHANGED <<pc, missed>>,
         \A n \in Nodes : table[n].label = "given" => table'[n].label = "given",
         \A a \in answers' : a \in answers \/ pc[a.node] # "registering" \/ table'[a.node].label = "given"
  PROVE  Labelling'
<1>1. \A a \in answers' : a.node \in Nodes
  BY DEF TypeOK, Answer
<1> QED
  BY <1>1, LabelsKept

LEMMA LabelsNode == ASSUME Fit, Named, Labelling, TypeOK', NEW n \in Nodes, NodeStep(n) PROVE Labelling'
<1> USE DEF history, network
<1>1. Close(n) => answers' \subseteq answers
  BY DEF Close
<1>2. CASE Boot(n)
  <2>1. pc[n] = "boot" /\ pc'[n] = "registering" /\ \A m \in Nodes : m # n => pc'[m] = pc[m]
    BY <1>2 DEF Boot, Goto, Fit, TypeOK
  <2>2. \A a \in answers : a.node # n /\ a.node \in Nodes
    BY <2>1, Still DEF Fit, TypeOK, Answer
  <2>3. UNCHANGED <<answers, table>> /\ missed' = missed \ {n}
    BY <1>2 DEF Boot
  <2> QED
    BY <2>1, <2>2, <2>3, LabelsKept
<1>3. CASE Registered(n)
  BY <1>1, <1>3, LabelsGoing DEF Registered
<1>4. CASE Report(n) \/ Poll(n)
  BY <1>4, LabelsGoing DEF Report, Poll
<1>5. CASE Receive(n)
  <2>1. answers' \subseteq answers
    BY <1>5 DEF Receive
  <2> QED
    BY <1>5, <2>1, LabelsGoing DEF Receive
<1>6. CASE Idle(n)
  BY <1>1, <1>6, LabelsGoing DEF Idle
<1>7. CASE Handle(n)
  <2>1. answers' \subseteq answers
    BY <1>7 DEF Handle
  <2> QED
    BY <1>7, <2>1, LabelsGoing DEF Handle
<1>8. CASE Acknowledged(n)
  <2>1. PICK l : Goto(n, l) /\ l # "registering"
    BY <1>8 DEF Acknowledged, AfterAck
  <2> QED
    BY <1>1, <1>8, <2>1, LabelsGoing DEF Acknowledged
<1> QED
  BY <1>2, <1>3, <1>4, <1>5, <1>6, <1>7, <1>8 DEF NodeStep

LEMMA LabelsServe == ASSUME Fit, Named, Labelling, TypeOK', NEW r \in requests, Serve(r) PROVE Labelling'
<1> USE DEF history
<1>1. r.node \in Nodes /\ OpenFits(r)
  BY DEF Fit, TypeOK, Request
<1>2. \A n \in Nodes : table[n] = [known |-> table[n].known, label |-> table[n].label, addr |-> table[n].addr,
                                   cmd |-> table[n].cmd, data |-> table[n].data]
  BY DEF Fit, TypeOK, Entry
<1>3. ASSUME NEW l, Heard(r, l)
      PROVE  table'[r.node].label = l /\ \A n \in Nodes : n # r.node => table'[n] = table[n]
  BY <1>1, <1>2, <1>3 DEF Heard, Fit, TypeOK, Entry
<1>4. CASE ServeRegister(r)
  <2>1. \A a \in answers' : a \in answers \/ a.node = r.node
    BY <1>4 DEF ServeRegister, Done, Plain
  <2> QED
    BY <1>3, <1>4, <2>1, LabelsStay DEF ServeRegister
<1>5. CASE ServeData(r)
  <2>1. \A n \in Nodes : table[n].label = "given" => table'[n].label = "given"
    BY <1>3, <1>5 DEF ServeData, Labelled
  <2>2. answers' = answers
    BY <1>1, <1>5 DEF ServeData, Done, OpenFits
  <2> QED
    BY <1>5, <2>1, <2>2, LabelsStay DEF ServeData
<1>6. ASSUME r.kind # "register", NEW answer, answer.node = r.node, Done(r, answer), UNCHANGED <<pc, missed>>,
             \A n \in Nodes : table'[n].label = table[n].label
      PROVE  Labelling'
  <2>1. \A a \in answers' : a \in answers \/ pc[a.node] # "registering"
    BY <1>1, <1>6 DEF Done, OpenFits
  <2> QED
    BY <1>6, <2>1, LabelsStay
<1>7. CASE ServeAck(r)
  BY <1>6, <1>7 DEF ServeAck, Plain
<1>8. CASE ServeGet(r)
  <2>1. PICK m \in Asked(r) :
          /\ Pop(m)
          /\ Done(r, [kind |-> IF m = Nobody THEN "plain" ELSE "cmd", node |-> r.node, item |-> Waiting(m)])
    BY <1>8 DEF ServeGet
  <2>2. \A n \in Nodes : table'[n].label = table[n].label
    BY <1>2, <2>1 DEF Pop
  <2> QED
    BY <1>6, <1>8, <2>1, <2>2 DEF ServeGet
<1> QED
  BY <1>4, <1>5, <1>7, <1>8 DEF Serve

LEMMA LabelsStep == ASSUME Fit, Named, Labelling, [Next]_vars PROVE Labelling'
<1> USE DEF history, network
<1>1. TypeOK'
  BY TypeStep DEF Fit
<1>2. ASSUME NEW n \in Nodes, TimesOut(n) PROVE Labelling'
  <2>1. PICK l : Goto(n, l) /\ l # "registering"
    BY <1>2 DEF TimesOut, AfterAck
  <2>2. answers' \subseteq answers
    BY <1>2 DEF TimesOut, Close
  <2>3. pc[n] # "boot" /\ missed' = IF pc[n] = "registering" THEN missed \cup {n} ELSE missed
    BY <1>2 DEF TimesOut
  <2> QED
    BY <1>2, <2>1, <2>2, <2>3, LabelsGoing DEF TimesOut
<1>3. ASSUME NEW n \in Nodes, Reset(n) PROVE Labelling'
  <2>1. answers' \subseteq answers
    BY <1>3 DEF Reset
  <2> QED
    BY <1>3, <2>1, LabelsGoing DEF Reset
<1>4. ASSUME NEW n \in Nodes, NEW a \in Addrs, Move(n, a) PROVE Labelling'
  BY <1>1, <1>4, LabelsStay DEF Move
<1>5. ASSUME NEW n \in Nodes, PostBlank(n) \/ \E c \in Commands : PostCmd(n, c) \/ Downlink(n, c)
      PROVE  Labelling'
  <2>1. PICK c, d : table' = [table EXCEPT ![n] = Queued(@, c, d)]
    BY <1>5 DEF PostBlank, PostCmd, Downlink, Accept
  <2>2. \A m \in Nodes : table'[m].label = table[m].label
    BY <2>1 DEF Queued, Fit, TypeOK, Entry
  <2> QED
    BY <1>1, <1>5, <2>2, LabelsStay DEF PostBlank, PostCmd, Downlink, Accept
<1>6. CASE UNCHANGED vars
  BY <1>1, <1>6, LabelsStay DEF vars
<1> QED
  BY <1>1, <1>2, <1>3, <1>4, <1>5, <1>6, LabelsNode, LabelsServe DEF Next

\* When every node names itself and a released session delivers no more, a node
\* that goes on after its registration has its own label in the table for good,
\* whatever reports overtake or repeat (app_device_registry.c:81,102).
THEOREM RegistrationsKept == ASSUME Named PROVE Spec => []RegistrationKept
<1>1. Labelling => RegistrationKept
  BY DEF Labelling
<1> QED
  BY <1>1, FitInit, FitStep, LabelsInit, LabelsStep, PTL DEF Spec

------------------------------------------------------------------------------
(* No command disappears.                                                  *)

\* Where n's command is that waits, is on its way or in n's hands.
Held(n) == Waits(n) \cup InHand(n)

\* NothingVanishes holds because what a node has or gets was offered to it, and
\* because the only answer a node that acknowledges may get is the one to its
\* acknowledgement, which the router has recorded.
Traced ==
  /\ NothingVanishes
  /\ \A n \in Nodes, c \in Commands :
       /\ c \in Held(n) => <<n, c>> \in offered
       /\ <<n, c>> \in offered => table[n].known
  /\ \A n \in Nodes : pc[n] = "acking" =>
       /\ current[n].cmd \in Commands
       /\ Mail(n) # {} => <<n, current[n].cmd>> \in confirmed
  /\ \A r \in requests : r.open /\ r.kind = "ack" => r.cmd = current[r.node].cmd

LEMMA TracedInit == Init => Traced
<1> SUFFICES ASSUME Init PROVE Traced
  OBVIOUS
<1>1. \A n \in Nodes : Waits(n) = {} /\ InHand(n) = {}
  BY DEF Init, Waits, InHand, Unread, Mail
<1> QED
  BY <1>1 DEF Init, Traced, Held, NothingVanishes

\* Nothing is offered: what was held still is, or is accounted for.
LEMMA TracedKept ==
  ASSUME Traced, UNCHANGED offered, confirmed \subseteq confirmed', excused \subseteq excused',
         \A n \in Nodes : table[n].known => table'[n].known,
         \A n \in Nodes, c \in Commands :
           /\ c \in Held(n)' => c \in Held(n)
           /\ c \in Held(n) => c \in Held(n)' \cup excused' \/ <<n, c>> \in confirmed',
         \A n \in Nodes : pc'[n] = "acking" =>
           /\ current'[n].cmd \in Commands
           /\ Mail(n)' # {} => <<n, current'[n].cmd>> \in confirmed',
         \A r \in requests' : r.open /\ r.kind = "ack" => r.cmd = current'[r.node].cmd
  PROVE  Traced'
<1>1. NothingVanishes'
  BY DEF Traced, NothingVanishes, Held
<1>2. \A n \in Nodes, c \in Commands :
       /\ c \in Held(n)' => <<n, c>> \in offered'
       /\ <<n, c>> \in offered' => table'[n].known
  BY DEF Traced
<1> QED
  BY <1>1, <1>2 DEF Traced

\* Only node n does something.
LEMMA TracedOne ==
  ASSUME Fit, Traced, TypeOK', NEW n \in Nodes, UNCHANGED <<table, offered, confirmed>>, excused \subseteq excused',
         \A m \in Nodes : m # n => pc'[m] = pc[m] /\ current'[m] = current[m],
         \A a \in answers' : a \in answers, \A a \in answers : a \in answers' \/ a.node = n,
         \A c \in Commands : /\ c \in InHand(n)' => c \in InHand(n)
                             /\ c \in InHand(n) => c \in InHand(n)' \cup excused \cup excused' \/ <<n, c>> \in confirmed,
         pc'[n] = "acking" => current'[n].cmd \in Commands /\ Mail(n)' = {},
         \A r \in requests' :
           \/ Before(r) /\ (r.open => r.node # n)
           \/ Before(r) /\ r.kind = "get"
           \/ r.node = n /\ (r.kind = "ack" => r.cmd = current'[n].cmd)
  PROVE  Traced'
<1>1. \A m \in Nodes : m # n => Mail(m)' = Mail(m)
  BY DEF Mail
<1>2. \A m \in Nodes : m # n => InHand(m)' = InHand(m)
  BY <1>1 DEF InHand, Unread
<1>3. \A m \in Nodes : Waits(m)' = Waits(m)
  BY DEF Waits
<1>4. \A m \in Nodes, c \in Commands :
           /\ c \in Held(m)' => c \in Held(m)
           /\ c \in Held(m) => c \in Held(m)' \cup excused' \/ <<m, c>> \in confirmed'
  BY <1>2, <1>3 DEF Held
<1>5. \A m \in Nodes : pc'[m] = "acking" =>
           /\ current'[m].cmd \in Commands
           /\ Mail(m)' # {} => <<m, current'[m].cmd>> \in confirmed'
  BY <1>1 DEF Traced
<1>6. \A r \in requests' : r.open /\ r.kind = "ack" => r.cmd = current'[r.node].cmd
  <2>1. \A r \in requests' : r.node \in Nodes
    BY DEF TypeOK, Request
  <2> QED
    BY <2>1 DEF Traced, Before
<1> QED
  BY <1>4, <1>5, <1>6, TracedKept

\* In particular n goes to l, and leaves nothing open.
LEMMA TracedGoes ==
  ASSUME Fit, Named, Traced, TypeOK', NEW n \in Nodes, NEW l, Goto(n, l), l \notin {"polled", "acking"}, Close(n),
         UNCHANGED <<table, offered, confirmed, current>>, excused \subseteq excused',
         \A c \in Commands : c \in InHand(n) => c \in excused' \/ <<n, c>> \in confirmed
  PROVE  Traced'
<1>1. /\ \A r \in requests' : Before(r) /\ (r.node = n => ~r.open)
      /\ \A a \in answers' : a \in answers /\ a.node # n
  BY Closing DEF Named
<1>2. pc'[n] = l /\ \A m \in Nodes : m # n => pc'[m] = pc[m]
  BY DEF Goto, Fit, TypeOK
<1>3. InHand(n)' = {}
  BY <1>1, <1>2 DEF InHand, Unread, Mail
<1>4. \A a \in answers : a \in answers' \/ a.node = n
  BY DEF Close, Named, Mail
<1> QED
  BY <1>1, <1>2, <1>3, <1>4, TracedOne

\* A node that waits for nothing sends a request.
LEMMA TracedSends ==
  ASSUME Fit, Traced, TypeOK', NEW n \in Nodes, pc[n] \in {"boot", "report", "poll"},
         NEW kind, NEW l, Send(n, kind, CmdNone), Goto(n, l), kind # "ack", l \notin {"polled", "acking"},
         UNCHANGED <<table, answers, current, offered, confirmed, excused>>
  PROVE  Traced'
<1>1. PICK p : requests' = requests \cup {p} /\ p = Posted(n, kind, CmdNone)
  BY DEF Send
<1>2. p.node = n /\ p.kind = kind
  BY <1>1 DEF Posted
<1>3. \A r \in requests' : (Before(r) /\ (r.open => r.node # n)) \/ (r.node = n /\ r.kind # "ack")
  BY <1>1, <1>2, Still, Unmoved
<1>4. pc'[n] = l /\ \A m \in Nodes : m # n => pc'[m] = pc[m]
  BY DEF Goto, Fit, TypeOK
<1>5. InHand(n)' = InHand(n)
  BY <1>4 DEF InHand, Unread, Mail
<1> QED
  BY <1>3, <1>4, <1>5, TracedOne

LEMMA TracedNode == ASSUME Fit, Named, Traced, TypeOK', NEW n \in Nodes, NodeStep(n) PROVE Traced'
<1> USE DEF history
<1>1. CASE Boot(n) \/ Report(n) \/ Poll(n)
  BY <1>1, TracedSends DEF Boot, Report, Poll
<1>2. \A c \in Commands : c # CmdNone
  BY NamesAssumption
<1>3. CASE Registered(n)
  <2>1. \A a \in Mail(n) : a.item.cmd = CmdNone
    BY <1>3 DEF Registered, Fit, AnswerFits, Mail, Nothing
  <2>2. \A c \in Commands : c \notin InHand(n)
    BY <1>2, <1>3, <2>1 DEF Registered, InHand, Unread
  <2> QED
    BY <1>3, <2>2, TracedGoes DEF Registered
<1>4. CASE Receive(n)
  <2>1. PICK a \in Mail(n) : /\ answers' = answers \ {a}
                             /\ \E i \in Copied(a) : current' = [current EXCEPT ![n] = i]
    BY <1>4 DEF Receive
  <2>2. pc' = [pc EXCEPT ![n] = "polled"] /\ pc[n] \in {"polling", "polled"}
    BY <1>4 DEF Receive, Goto
  <2>3. a \in answers /\ a.node = n /\ a.kind = "cmd"
    BY <2>1, <2>2 DEF Mail, Fit, AnswerFits
  <2>4. current' = [current EXCEPT ![n] = a.item]
    BY <2>1, <2>3 DEF Copied
  <2>5. /\ \A m \in Nodes : m # n => pc'[m] = pc[m] /\ current'[m] = current[m]
        /\ current'[n] = a.item /\ pc'[n] = "polled"
    BY <2>2, <2>4 DEF Fit, TypeOK
  <2>6. Mail(n)' = Mail(n) \ {a}
    BY <2>1 DEF Mail
  <2>7. Unread(n) = Unread(n)' \cup {a.item.cmd}
    BY <2>1, <2>6 DEF Unread
  <2>8. InHand(n)' = Unread(n)
    BY <2>5, <2>7 DEF InHand
  <2>9. InHand(n) = Unread(n) \cup IF pc[n] = "polled" THEN {current[n].cmd} ELSE {}
    BY <2>2 DEF InHand
  <2>10. excused' = excused \cup IF pc[n] = "polled" THEN {current[n].cmd} ELSE {}
    BY <1>4 DEF Receive
  <2>11. \A r \in requests' : Before(r) /\ ((r.open => r.node # n) \/ r.kind = "get")
    BY <1>4, <2>2, Unmoved DEF Receive, Fit, OpenFits
  <2> QED
    BY <1>4, <2>1, <2>5, <2>3, <2>8, <2>9, <2>10, <2>11, TracedOne DEF Receive
<1>5. CASE Idle(n)
  <2>1. \A c \in Commands : c \in InHand(n) => c \in Unread(n)
    BY <1>2, <1>5 DEF Idle, InHand
  <2> QED
    BY <1>5, <2>1, TracedGoes DEF Idle
<1>6. CASE Handle(n)
  <2>1. PICK p : requests' = {Closed(r, n) : r \in requests} \cup {p} /\ p = Posted(n, "ack", current[n].cmd)
    BY <1>6 DEF Handle, Named
  <2>2. p.node = n /\ p.cmd = current[n].cmd
    BY <2>1 DEF Posted
  <2>3. answers' = answers \ Mail(n) /\ UNCHANGED current
    BY <1>6 DEF Handle, Named
  <2>4. \A r \in requests' : (Before(r) /\ (r.open => r.node # n)) \/ (r.node = n /\ r.cmd = current'[n].cmd)
    BY <2>1, <2>2, <2>3, ClosedBefore
  <2>5. pc'[n] = "acking" /\ \A m \in Nodes : m # n => pc'[m] = pc[m]
    BY <1>6 DEF Handle, Goto, Fit, TypeOK
  <2>6. Mail(n)' = {}
    BY <2>3 DEF Mail
  <2>7. InHand(n)' = {current[n].cmd} /\ InHand(n) = Unread(n) \cup {current[n].cmd}
    BY <1>6, <2>3, <2>5, <2>6 DEF Handle, InHand, Unread
  <2>8. current[n].cmd \in Commands /\ excused' = excused \cup Unread(n)
    BY <1>6 DEF Handle, Fit
  <2>9. \A a \in answers : a \in answers' \/ a.node = n
    BY <2>3 DEF Mail
  <2> QED
    BY <1>6, <2>3, <2>4, <2>5, <2>6, <2>7, <2>8, <2>9, TracedOne DEF Handle
<1>7. CASE Acknowledged(n)
  <2>1. PICK l : Goto(n, l) /\ l \notin {"polled", "acking"}
    BY <1>7 DEF Acknowledged, AfterAck
  <2>2. \A a \in Mail(n) : a.item.cmd = CmdNone
    BY <1>7 DEF Acknowledged, Fit, AnswerFits, Mail, Nothing
  <2>3. \A c \in Commands : c \in InHand(n) => c = current[n].cmd
    BY <1>2, <1>7, <2>2 DEF Acknowledged, InHand, Unread
  <2>4. <<n, current[n].cmd>> \in confirmed
    BY <1>7 DEF Acknowledged, Traced
  <2> QED
    BY <1>7, <2>1, <2>3, <2>4, TracedGoes DEF Acknowledged
<1> QED
  BY <1>1, <1>3, <1>4, <1>5, <1>6, <1>7 DEF NodeStep

LEMMA TracedTrouble ==
  ASSUME Fit, Named, Traced, TypeOK', NEW n \in Nodes, TimesOut(n) \/ Reset(n)
  PROVE  Traced'
<1>1. CASE TimesOut(n)
  <2>1. PICK l : Goto(n, l) /\ l \notin {"polled", "acking"}
    BY <1>1 DEF TimesOut, AfterAck
  <2> QED
    BY <1>1, <2>1, TracedGoes DEF TimesOut
<1>2. CASE Reset(n)
  <2>1. Close(n)
    BY <1>2 DEF Reset, Close, Named
  <2> QED
    BY <1>2, <2>1, TracedGoes DEF Reset
<1> QED
  BY <1>1, <1>2

\* A request is served, and the table's commands stay.
LEMMA TracedServed ==
  ASSUME Fit, Traced, TypeOK', NEW r \in requests, Done(r, Plain(r)),
         UNCHANGED <<pc, current, offered, excused>>, confirmed \subseteq confirmed',
         \A n \in Nodes : table'[n].cmd = table[n].cmd /\ (table[n].known => table'[n].known),
         r.kind = "ack" /\ r.open => <<r.node, current[r.node].cmd>> \in confirmed'
  PROVE  Traced'
<1>1. Plain(r).node = r.node /\ Plain(r).item.cmd = CmdNone
  BY DEF Plain, Nothing
<1>2. \A n \in Nodes : Unread(n) \subseteq Unread(n)' /\ Unread(n)' \subseteq Unread(n) \cup {CmdNone}
  BY <1>1 DEF Done, Unread, Mail
<1>3. \A n \in Nodes, c \in Commands : c \in Held(n)' <=> c \in Held(n)
  BY <1>2, NamesAssumption DEF Held, Waits, InHand
<1>4. OpenFits(r)
  BY DEF Fit
<1>5. ASSUME NEW n \in Nodes, pc'[n] = "acking"
      PROVE  current'[n].cmd \in Commands /\ (Mail(n)' # {} => <<n, current'[n].cmd>> \in confirmed')
  <2>1. Mail(n)' = Mail(n) \/ (r.open /\ n = r.node)
    BY <1>1 DEF Done, Mail
  <2> QED
    BY <1>4, <1>5, <2>1 DEF OpenFits, Traced
<1>6. requests' \subseteq requests
  BY DEF Done
<1> QED
  BY <1>3, <1>5, <1>6, TracedKept DEF Traced

LEMMA TracedGet == ASSUME Fit, Named, Traced, TypeOK', NEW r \in requests, ServeGet(r) PROVE Traced'
<1>1. PICK m \in Asked(r) :
        /\ Pop(m)
        /\ Done(r, [kind |-> IF m = Nobody THEN "plain" ELSE "cmd", node |-> r.node, item |-> Waiting(m)])
        /\ excused' = IF r.open THEN excused ELSE excused \cup {Waiting(m).cmd}
  BY DEF ServeGet
<1>2. m = r.node /\ m \in Nodes /\ m # Nobody
  BY <1>1, AskedBySender, NamesAssumption DEF Fit
<1>3. PICK c : c = table[m].cmd
  OBVIOUS
<1>4. PICK a : /\ a.node = m /\ a.item.cmd = c
               /\ answers' = IF r.open THEN answers \cup {a} ELSE answers
  <2> DEFINE b == [kind |-> IF m = Nobody THEN "plain" ELSE "cmd", node |-> r.node, item |-> Waiting(m)]
  <2>1. Waiting(m).cmd = c
    BY <1>2, <1>3 DEF Waiting, Nothing
  <2>2. b.node = m /\ b.item.cmd = c
    BY <1>2, <2>1
  <2>3. answers' = IF r.open THEN answers \cup {b} ELSE answers
    BY <1>1 DEF Done
  <2> HIDE DEF b
  <2> QED
    BY <2>2, <2>3
<1>5. /\ \A n \in Nodes : n # m => table'[n].cmd = table[n].cmd
      /\ \A n \in Nodes : table'[n].known = table[n].known
      /\ table'[m].cmd = CmdNone
  BY <1>1, <1>2 DEF Pop, Fit, TypeOK, Entry
<1>6. UNCHANGED <<pc, current, offered, confirmed>>
  BY DEF ServeGet
<1>7. excused' = IF r.open THEN excused ELSE excused \cup {c}
  BY <1>1, <1>2, <1>3 DEF Waiting, Nothing
<1>8. \A n \in Nodes : n # m => Mail(n)' = Mail(n)
  BY <1>4 DEF Mail
<1>9. Mail(m)' = Mail(m) \cup IF r.open THEN {a} ELSE {}
  BY <1>4 DEF Mail
<1>10. \A n \in Nodes : n # m => Held(n)' = Held(n)
  BY <1>5, <1>6, <1>8 DEF Held, Waits, InHand, Unread
<1>11. InHand(m)' = InHand(m) \cup IF r.open THEN {c} ELSE {}
  BY <1>4, <1>6, <1>9 DEF InHand, Unread
<1>12. Waits(m) = {c} \ {CmdNone} /\ Waits(m)' = {}
  BY <1>2, <1>3, <1>5 DEF Waits
<1>13. \A n \in Nodes, d \in Commands :
           /\ d \in Held(n)' => d \in Held(n)
           /\ d \in Held(n) => d \in Held(n)' \cup excused' \/ <<n, d>> \in confirmed'
  BY <1>7, <1>10, <1>11, <1>12, NamesAssumption DEF Held
<1>14. r.open => pc[m] # "acking"
  BY <1>2 DEF Fit, OpenFits, ServeGet
<1>15. \A n \in Nodes : pc'[n] = "acking" =>
           /\ current'[n].cmd \in Commands
           /\ Mail(n)' # {} => <<n, current'[n].cmd>> \in confirmed'
  BY <1>6, <1>8, <1>9, <1>14 DEF Traced
<1>16. requests' \subseteq requests /\ excused \subseteq excused'
  BY <1>1, <1>7 DEF Done
<1> QED
  BY <1>5, <1>6, <1>13, <1>15, <1>16, TracedKept DEF Traced

LEMMA TracedServe == ASSUME Fit, Named, Traced, TypeOK', NEW r \in requests, Serve(r) PROVE Traced'
<1> USE DEF history
<1>1. r.node \in Nodes
  BY DEF Fit, TypeOK, Request
<1>2. CASE \E l : r.kind # "ack" /\ Heard(r, l) /\ Done(r, Plain(r)) /\ UNCHANGED <<addr, pc, current, history>>
  <2>1. \A n \in Nodes : table'[n].cmd = table[n].cmd /\ (table[n].known => table'[n].known)
    BY <1>1, <1>2 DEF Heard, Fit, TypeOK, Entry
  <2> QED
    BY <1>2, <2>1, TracedServed
<1>3. CASE ServeAck(r)
  <2>1. confirmed \subseteq confirmed'
    BY <1>3 DEF ServeAck
  <2>2. ASSUME r.open PROVE <<r.node, current[r.node].cmd>> \in confirmed'
    <3>1. pc[r.node] = "acking" /\ r.cmd = current[r.node].cmd
      BY <1>3, <2>2 DEF ServeAck, Fit, OpenFits, Traced
    <3>2. r.cmd \in Commands /\ r.cmd \in Held(r.node)
      BY <1>1, <3>1 DEF Traced, Held, InHand
    <3>3. table[r.node].known
      BY <1>1, <3>2 DEF Traced
    <3> QED
      BY <1>3, <3>1, <3>3 DEF ServeAck
  <2> QED
    BY <1>3, <2>1, <2>2, TracedServed DEF ServeAck
<1> QED
  BY <1>2, <1>3, TracedGet DEF Serve, ServeRegister, ServeData

LEMMA TracedOperator ==
  ASSUME Fit, Traced, TypeOK', NEW n \in Nodes,
         PostBlank(n) \/ \E c \in Commands : PostCmd(n, c) \/ Downlink(n, c)
  PROVE  Traced'
<1>1. ASSUME NEW c \in Commands \cup {CmdNone}, NEW d, table' = [table EXCEPT ![n] = Queued(@, c, d)], table[n].known,
             UNCHANGED <<network, pc, current, confirmed>>, excused' = excused \cup {table[n].cmd},
             offered' = offered \cup {x \in {<<n, c>>} : c # CmdNone}
      PROVE  Traced'
  <2>1. table'[n] = Queued(table[n], c, d) /\ \A m \in Nodes : m # n => table'[m] = table[m]
    BY <1>1 DEF Fit, TypeOK
  <2>2. table'[n].cmd = c /\ table'[n].known = table[n].known
    BY <2>1 DEF Queued, Fit, TypeOK, Entry
  <2>3. \A m \in Nodes : Mail(m)' = Mail(m) /\ InHand(m)' = InHand(m)
    BY <1>1 DEF Mail, InHand, Unread, network
  <2>4. \A m \in Nodes : m # n => Held(m)' = Held(m)
    BY <2>1, <2>3 DEF Held, Waits
  <2>5. Held(n)' = InHand(n) \cup ({c} \ {CmdNone}) /\ Held(n) = InHand(n) \cup ({table[n].cmd} \ {CmdNone})
    BY <2>2, <2>3 DEF Held, Waits
  <2>6. NothingVanishes'
    <3> SUFFICES ASSUME NEW m \in Nodes, NEW x \in Commands, <<m, x>> \in offered'
                 PROVE  x \in Held(m)' \cup excused' \/ <<m, x>> \in confirmed'
      BY DEF NothingVanishes, Held
    <3>1. CASE <<m, x>> \in offered
      <4>1. x \in Held(m) \cup excused \/ <<m, x>> \in confirmed
        BY <3>1 DEF Traced, NothingVanishes, Held
      <4> QED
        BY <1>1, <2>4, <2>5, <4>1
    <3>2. CASE <<m, x>> = <<n, c>> /\ c # CmdNone
      BY <2>5, <3>2
    <3> QED
      BY <1>1, <3>1, <3>2
  <2>7. \A m \in Nodes, x \in Commands :
       /\ x \in Held(m)' => <<m, x>> \in offered'
       /\ <<m, x>> \in offered' => table'[m].known
    BY <1>1, <2>1, <2>2, <2>4, <2>5 DEF Traced
  <2>8. \A m \in Nodes : pc'[m] = "acking" =>
       /\ current'[m].cmd \in Commands
       /\ Mail(m)' # {} => <<m, current'[m].cmd>> \in confirmed'
    BY <1>1, <2>3 DEF Traced
  <2>9. \A r \in requests' : r.open /\ r.kind = "ack" => r.cmd = current'[r.node].cmd
    BY <1>1 DEF Traced, network
  <2> QED
    BY <2>6, <2>7, <2>8, <2>9 DEF Traced
<1>2. ASSUME NEW c \in Commands, NEW d, Accept(n, c, d) PROVE Traced'
  <2>1. offered' = offered \cup {x \in {<<n, c>>} : c # CmdNone}
    BY <1>2, NamesAssumption DEF Accept
  <2> QED
    BY <1>1, <1>2, <2>1 DEF Accept, network
<1>3. CASE PostBlank(n)
  <2>1. offered' = offered \cup {x \in {<<n, CmdNone>>} : CmdNone # CmdNone}
    BY <1>3 DEF PostBlank
  <2> QED
    BY <1>1, <1>3, <2>1 DEF PostBlank, network
<1> QED
  BY <1>2, <1>3 DEF PostCmd, Downlink

LEMMA TracedStep == ASSUME Fit, Named, Traced, [Next]_vars PROVE Traced'
<1> USE DEF history, network
<1>1. TypeOK'
  BY TypeStep DEF Fit
<1>2. ASSUME UNCHANGED <<table, requests, answers, pc, current, offered, confirmed, excused>> PROVE Traced'
  BY <1>2 DEF Traced, NothingVanishes, Held, Waits, InHand, Unread, Mail
<1>3. ASSUME NEW n \in Nodes, NEW a \in Addrs, Move(n, a) PROVE Traced'
  BY <1>2, <1>3 DEF Move
<1>4. CASE UNCHANGED vars
  BY <1>2, <1>4 DEF vars
<1> QED
  BY <1>1, <1>3, <1>4, TracedNode, TracedTrouble, TracedServe, TracedOperator DEF Next

\* Under the same assumption an accepted command is at every moment waiting, on
\* its way, in its node's hands or acknowledged, or a mishap is on record for it:
\* no interleaving of the server, the node and the operators loses one by itself.
THEOREM NothingLost == ASSUME Named PROVE Spec => []NothingVanishes
<1>1. Traced => NothingVanishes
  BY DEF Traced
<1> QED
  BY <1>1, FitInit, FitStep, TracedInit, TracedStep, PTL DEF Spec

------------------------------------------------------------------------------
(* What the letter box promises, promised by the downlink.                 *)

Letters == INSTANCE CommandSlotProofs
  WITH waiting <- [n \in Nodes |-> Waits(n)], moving <- Moving, executed <- Begun

\* Under the same assumption no command is executed twice or by another node
\* than the one it was sent to, and none is confirmed that was not executed.
THEOREM ExecutedAtMostOnce == ASSUME Named PROVE Spec => []Slot!AtMostOnce
<1>1. Letters!Spec => []Letters!AtMostOnce
  BY Letters!DeliversAtMostOnce
<1>2. Slot!Init => Letters!Init
  BY DEF Slot!Init, Letters!Init
<1>3. [Slot!Next]_Slot!vars => [Letters!Next]_Letters!vars
  BY DEF Slot!Next, Slot!vars, Slot!Lose, Slot!Withdraw, Slot!Offer, Slot!HandOver, Slot!Execute,
     Slot!Confirm, Letters!Next, Letters!vars, Letters!Lose, Letters!Withdraw, Letters!Offer,
     Letters!HandOver, Letters!Execute, Letters!Confirm
<1>4. Letters!AtMostOnce => Slot!AtMostOnce
  BY DEF Slot!AtMostOnce, Letters!AtMostOnce
<1> QED
  BY PipelineImplementsSlot, <1>1, <1>2, <1>3, <1>4, PTL DEF ImplementsSlot, Slot!Spec, Letters!Spec
==============================================================================
