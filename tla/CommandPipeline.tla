--------------------------- MODULE CommandPipeline ---------------------------
(***************************************************************************)
(* The way of a command: from the HTTP and MQTT tasks into the node's      *)
(* entry of the registry (app_rest_api.c, app_mqtt_bridge.c), out of it    *)
(* with GET /cmd (app_coap_server.c), over the network to the node that    *)
(* polls (app_coap_client.c, app_node_main.c), and its acknowledgement     *)
(* back.  Registrations and reports travel the same way: they create the   *)
(* entry that commands wait in.                                            *)
(*                                                                         *)
(* The network delays, reorders, loses and duplicates requests.  A request *)
(* is made in a session of its own, and is open while its sender waits in  *)
(* coap_send_request; one that has timed out may still be served.  The     *)
(* registry's table is large enough and its router stays powered: full     *)
(* tables and power cuts are the subject of DeviceRegistry.                *)
(***************************************************************************)
EXTENDS Naturals, Sequences, FiniteSetsExt

CONSTANTS
  Nodes, Addrs,      \* sensor nodes (EUI-64s); IPv6 addresses
  Home,              \* the address each node starts with
  Commands,          \* requests for a command; no two are the same
  WithData,          \* commands with a payload: the URL of an update
  Reboots,           \* CMD_REBOOT commands
  CmdNone,           \* CMD_NONE, and an empty payload
  Nobody,            \* no EUI-64
  Junk,              \* contents of memory that nobody has written
  ByQuery,           \* nodes that name themselves in the query of a poll
  Movable,           \* nodes that may get another address
  SessionsLinger,    \* libcoap keeps a released session while it retransmits
  MaxTimeouts, MaxResets, MaxDuplicates, MaxMoves, MaxBlanks, \* bounds: of each,
  MaxMishaps         \* and of all together

ASSUME NamesAssumption ==
  /\ CmdNone \notin Commands /\ Junk \notin Commands /\ CmdNone # Junk
  /\ WithData \cup Reboots \subseteq Commands
  /\ ByQuery \cup Movable \subseteq Nodes /\ Nobody \notin Nodes
  /\ SessionsLinger \in BOOLEAN
  /\ Home \in [Nodes -> Addrs]
ASSUME BoundAssumption ==
  {MaxTimeouts, MaxResets, MaxDuplicates, MaxMoves, MaxBlanks, MaxMishaps} \subseteq Nat

VARIABLES
  table,     \* registry: the entry of each node
  requests,  \* network: requests on their way, or that may come once more
  answers,   \* network: answers to open requests
  addr,      \* the address of each node
  pc,        \* where the sensor task of each node is
  current,   \* cmd of app_coap_client_poll_cmd and handle_command
  offered,   \* history: <<node, command>> accepted
  spoiled,   \* history: commands whose payload was overwritten before it was copied
  executed,  \* history: commands each node began to execute, with their payload
  confirmed, \* history: <<node, command>> acknowledged to the router
  excused,   \* history: commands hit by a timeout, a reset or another request
  missed,    \* history: nodes whose latest registration was hit by one
  mishaps    \* how often each kind of them has happened

network == <<requests, answers>>
history == <<offered, spoiled, executed, confirmed, excused, missed>>
vars    == <<table, network, addr, pc, current, history, mishaps>>

Payloads == Commands \cup {CmdNone, Junk}
Entry    == [known : BOOLEAN, label : {"none", "auto", "given"}, addr : Addrs,
             cmd : Commands \cup {CmdNone}, data : Payloads]
Item     == [cmd : Payloads, data : Payloads]
Request  == [kind : {"register", "data", "get", "ack"}, node : Nodes, addr : Addrs,
             cmd : Payloads, open : BOOLEAN]
Answer   == [kind : {"plain", "cmd"}, node : Nodes, item : Item]
Labels   == {"boot", "registering", "report", "poll", "polling", "polled", "acking"}
Nothing  == [cmd |-> CmdNone, data |-> CmdNone]

\* The payload that belongs to c.
Own(c) == IF c \in WithData THEN c ELSE CmdNone

TypeOK ==
  /\ table \in [Nodes -> Entry] /\ addr \in [Nodes -> Addrs]
  /\ requests \subseteq Request /\ answers \subseteq Answer
  /\ pc \in [Nodes -> Labels] /\ current \in [Nodes -> Item]
  /\ offered \subseteq Nodes \X Commands /\ spoiled \subseteq WithData
  /\ executed \in [Nodes -> Seq(Item)]
  /\ confirmed \subseteq Nodes \X Payloads
  /\ excused \subseteq Payloads /\ missed \subseteq Nodes
  /\ mishaps \in [{"timeout", "reset", "duplicate", "move", "blank"} -> Nat]

Init ==
  /\ table = [n \in Nodes |-> [known |-> FALSE, label |-> "none", addr |-> Home[n],
                               cmd |-> CmdNone, data |-> CmdNone]]
  /\ requests = {} /\ answers = {}
  /\ addr = Home
  /\ pc = [n \in Nodes |-> "boot"] /\ current = [n \in Nodes |-> Nothing]
  /\ offered = {} /\ spoiled = {} /\ executed = [n \in Nodes |-> <<>>] /\ confirmed = {}
  /\ excused = {} /\ missed = {}
  /\ mishaps = [m \in {"timeout", "reset", "duplicate", "move", "blank"} |-> 0]

AllMishaps == MapThenSumSet(LAMBDA k : mishaps[k], DOMAIN mishaps)

Mishap(kind, bound) ==
  /\ mishaps[kind] < bound /\ AllMishaps < MaxMishaps
  /\ mishaps' = [mishaps EXCEPT ![kind] = @ + 1]

------------------------------------------------------------------------------
(* Sessions.                                                               *)

Goto(n, l) == pc' = [pc EXCEPT ![n] = l]

Posted(n, kind, c) ==
  [kind |-> kind, node |-> n, addr |-> addr[n], cmd |-> c, open |-> kind # "data"]

Send(n, kind, c) == requests' = requests \cup {Posted(n, kind, c)}

\* Answers on their way to n.
Mail(n)   == {a \in answers : a.node = n}
Unread(n) == {a.item.cmd : a \in Mail(n)}

Closed(r, n) == IF r.node = n THEN [r EXCEPT !.open = FALSE] ELSE r

\* coap_session_release: what was sent in the session may still arrive, but
\* no answer reaches the response handler any more.
Close(n) ==
  IF SessionsLinger THEN UNCHANGED network
  ELSE /\ requests' = {Closed(r, n) : r \in requests}
       /\ answers' = answers \ Mail(n)

\* Commands on their way to n, or that n has and has not acknowledged.
InHand(n) ==
  Unread(n) \cup IF pc[n] \in {"polled", "acking"} THEN {current[n].cmd} ELSE {}

------------------------------------------------------------------------------
(* The sensor task of a node.                                              *)

\* A cold boot: the node is attached and registers.
Boot(n) ==
  /\ pc[n] = "boot"
  /\ Goto(n, "registering")
  /\ Send(n, "register", CmdNone)
  /\ missed' = missed \ {n}
  /\ UNCHANGED <<table, answers, addr, current, offered, spoiled, executed, confirmed, excused, mishaps>>

\* Any answer ends the request: its response code is not looked at.
Registered(n) ==
  /\ pc[n] = "registering"
  /\ Mail(n) # {}
  /\ Goto(n, "report")
  /\ Close(n)
  /\ UNCHANGED <<table, addr, current, history, mishaps>>

\* Mutant of Report: the loop starts again without a poll.
ReportOnly(n) ==
  /\ pc[n] = "report"
  /\ Goto(n, "report")
  /\ Send(n, "data", CmdNone)
  /\ UNCHANGED <<table, answers, addr, current, history, mishaps>>

\* The telemetry is not confirmable: nobody waits for its answer.
Report(n) ==
  /\ pc[n] = "report"
  /\ Goto(n, "poll")
  /\ Send(n, "data", CmdNone)
  /\ UNCHANGED <<table, answers, addr, current, history, mishaps>>

Poll(n) ==
  /\ pc[n] = "poll"
  /\ Goto(n, "polling")
  /\ Send(n, "get", CmdNone)
  /\ UNCHANGED <<table, answers, addr, current, history, mishaps>>

\* What coap_response_handler leaves in the caller's buffer: an answer without
\* data leaves what was there, and nobody had written it.
Copied(a) ==
  IF a.kind = "cmd" THEN {a.item} ELSE {Nothing, [cmd |-> Junk, data |-> Junk]}

\* The loop around coap_io_process may see more than one answer before it
\* looks at done; the later one wins.
Receive(n) ==
  /\ pc[n] \in {"polling", "polled"}
  /\ \E a \in Mail(n) :
       /\ answers' = answers \ {a}
       /\ \E i \in Copied(a) : current' = [current EXCEPT ![n] = i]
  /\ excused' = excused \cup IF pc[n] = "polled" THEN {current[n].cmd} ELSE {}
  /\ Goto(n, "polled")
  /\ UNCHANGED <<table, requests, addr, offered, spoiled, executed, confirmed, missed, mishaps>>

\* No command: the node sleeps and starts again.
Idle(n) ==
  /\ pc[n] = "polled" /\ current[n].cmd = CmdNone
  /\ excused' = excused \cup Unread(n)
  /\ Goto(n, "report")
  /\ Close(n)
  /\ UNCHANGED <<table, addr, current, offered, spoiled, executed, confirmed, missed, mishaps>>

\* handle_command does what the command says and acknowledges it; a reboot is
\* acknowledged first, but nothing comes in between.
Handle(n) ==
  /\ pc[n] = "polled" /\ current[n].cmd # CmdNone
  /\ executed' = [executed EXCEPT ![n] = Append(@, current[n])]
  /\ excused' = excused \cup Unread(n)
  /\ Goto(n, "acking")
  /\ IF SessionsLinger THEN UNCHANGED answers ELSE answers' = answers \ Mail(n)
  /\ requests' = {IF SessionsLinger THEN r ELSE Closed(r, n) : r \in requests}
                   \cup {Posted(n, "ack", current[n].cmd)}
  /\ UNCHANGED <<table, addr, current, offered, spoiled, confirmed, missed, mishaps>>

\* esp_restart after a reboot's acknowledgement, the next cycle otherwise.
AfterAck(n) == Goto(n, IF current[n].cmd \in Reboots THEN "boot" ELSE "report")

Acknowledged(n) ==
  /\ pc[n] = "acking"
  /\ Mail(n) # {}
  /\ AfterAck(n)
  /\ Close(n)
  /\ UNCHANGED <<table, addr, current, history, mishaps>>

\* Six seconds have passed.  Nothing is repeated: a registration is given up
\* until the next cold boot, an acknowledgement for good.
TimesOut(n) ==
  /\ Mishap("timeout", MaxTimeouts)
  /\ \/ /\ pc[n] \in {"registering", "polling"}
        /\ Goto(n, "report")
     \/ /\ pc[n] = "acking"
        /\ AfterAck(n)
  /\ excused' = excused \cup InHand(n)
  /\ missed' = IF pc[n] = "registering" THEN missed \cup {n} ELSE missed
  /\ Close(n)
  /\ UNCHANGED <<table, addr, current, offered, spoiled, executed, confirmed>>

\* The power fails, a watchdog bites, or the worker of an update restarts the
\* node while its sensor task is at something else.
Reset(n) ==
  /\ Mishap("reset", MaxResets)
  /\ pc[n] # "boot"
  /\ Goto(n, "boot")
  /\ excused' = excused \cup InHand(n)
  /\ missed' = missed \cup {n}
  /\ requests' = {Closed(r, n) : r \in requests}
  /\ answers' = answers \ Mail(n)
  /\ UNCHANGED <<table, addr, current, offered, spoiled, executed, confirmed>>

\* The node gets another address, one that no node has.
Move(n, a) ==
  /\ Mishap("move", MaxMoves)
  /\ n \in Movable /\ \A m \in Nodes : addr[m] # a
  /\ addr' = [addr EXCEPT ![n] = a]
  /\ UNCHANGED <<table, network, pc, current, history>>

------------------------------------------------------------------------------
(* The CoAP server.                                                        *)

\* Afterwards the request is gone, unless it was duplicated on its way; its
\* answer is lost when nobody waits for it.
Done(r, answer) ==
  /\ \/ requests' = requests \ {r} /\ UNCHANGED mishaps
     \/ Mishap("duplicate", MaxDuplicates) /\ UNCHANGED requests
  /\ answers' = IF r.open THEN answers \cup {answer} ELSE answers

Plain(r) == [kind |-> "plain", node |-> r.node, item |-> Nothing]

\* The node's entry, with a label, after it was heard from.
Heard(r, label) ==
  table' = [table EXCEPT ![r.node] = [@ EXCEPT !.known = TRUE, !.label = label, !.addr = r.addr]]

\* Mutant of Labelled: a report labels the entry again.
LabelledAgain(n) == "auto"

\* The label of an entry, or one of its own for a new one.
Labelled(n) == IF table[n].label = "none" THEN "auto" ELSE table[n].label

\* Mutant of ServeRegister: the entry that a report made keeps its label.
ServeRegisterNewOnly(r) ==
  /\ r.kind = "register"
  /\ Heard(r, IF table[r.node].label = "none" THEN "given" ELSE table[r.node].label)
  /\ Done(r, Plain(r))
  /\ UNCHANGED <<addr, pc, current, history>>

\* A registration gives the entry its label, new or not.
ServeRegister(r) ==
  /\ r.kind = "register"
  /\ Heard(r, "given")
  /\ Done(r, Plain(r))
  /\ UNCHANGED <<addr, pc, current, history>>

\* A report of an unknown node makes an entry with a label of its own.
ServeData(r) ==
  /\ r.kind = "data"
  /\ Heard(r, Labelled(r.node))
  /\ Done(r, Plain(r))
  /\ UNCHANGED <<addr, pc, current, history>>

\* Whose command a poll asks for: by its query, else by the address it came
\* from.  The node's requests have no payload to fall back on.
Asked(r) ==
  LET here == {m \in Nodes : table[m].known /\ table[m].addr = r.addr}
  IN  IF r.node \in ByQuery THEN {r.node} ELSE IF here # {} THEN here ELSE {Nobody}

Waiting(m) ==
  IF m = Nobody \/ table[m].cmd = CmdNone THEN Nothing
  ELSE [cmd |-> table[m].cmd, data |-> table[m].data]

\* Mutant of Pop: the command is left in its slot.
PopKept(m) == UNCHANGED table

\* pop_cmd empties the slot; the payload stays where it is.
Pop(m) ==
  table' = [n \in Nodes |-> IF n = m THEN [table[n] EXCEPT !.cmd = CmdNone] ELSE table[n]]

\* The command leaves its slot before anybody knows that the answer arrives.
\* An empty slot is answered CMD_NONE; 4.00, when nobody knows who asks, has
\* no data.
ServeGet(r) ==
  /\ r.kind = "get"
  /\ \E m \in Asked(r) :
       /\ Pop(m)
       /\ Done(r, [kind |-> IF m = Nobody THEN "plain" ELSE "cmd", node |-> r.node, item |-> Waiting(m)])
       /\ excused' = IF r.open THEN excused ELSE excused \cup {Waiting(m).cmd}
  /\ UNCHANGED <<addr, pc, current, offered, spoiled, executed, confirmed, missed>>

\* Mutant of ServeAck: node and command are swapped.
ServeAckSwapped(r) ==
  /\ r.kind = "ack"
  /\ confirmed' = IF table[r.node].known THEN confirmed \cup {<<r.cmd, r.node>>} ELSE confirmed
  /\ Done(r, Plain(r))
  /\ UNCHANGED <<table, addr, pc, current, offered, spoiled, executed, excused, missed>>

\* record_cmd_ack publishes what it records; 4.04 for an unknown node.
ServeAck(r) ==
  /\ r.kind = "ack"
  /\ confirmed' = IF table[r.node].known THEN confirmed \cup {<<r.node, r.cmd>>} ELSE confirmed
  /\ Done(r, Plain(r))
  /\ UNCHANGED <<table, addr, pc, current, offered, spoiled, executed, excused, missed>>

------------------------------------------------------------------------------
(* Operators.                                                              *)

\* Mutant of Queued: a command without a payload keeps the one before it.
QueuedStale(e, c, d) == [e EXCEPT !.cmd = c, !.data = IF d = CmdNone THEN @ ELSE d]

\* Mutant of Queued: the slot is taken, and the request is answered all the same.
QueuedIfFree(e, c, d) == IF e.cmd = CmdNone THEN [e EXCEPT !.cmd = c, !.data = d] ELSE e

\* queue_cmd overwrites the command that waits; no payload clears the old one.
Queued(e, c, d) == [e EXCEPT !.cmd = c, !.data = d]

\* An unknown node is answered 404 over HTTP, and nothing over MQTT.
Accept(n, c, d) ==
  /\ \A m \in Nodes : <<m, c>> \notin offered
  /\ table[n].known
  /\ table' = [table EXCEPT ![n] = Queued(@, c, d)]
  /\ offered' = offered \cup {<<n, c>>}
  /\ excused' = excused \cup {table[n].cmd}
  /\ UNCHANGED <<network, addr, pc, current, executed, confirmed, missed, mishaps>>

\* handler_post_cmd deletes the parsed body before queue_cmd copies the payload
\* out of it: what was there may still be, or anything else.
PostCmd(n, c) ==
  \/ /\ Accept(n, c, Own(c))
     /\ UNCHANGED spoiled
  \/ /\ c \in WithData
     /\ Accept(n, c, Junk)
     /\ spoiled' = spoiled \cup {c}

\* handle_downlink deletes it afterwards.
Downlink(n, c) == Accept(n, c, Own(c)) /\ UNCHANGED spoiled

\* A body without a number for "cmd" queues CMD_NONE, and is answered
\* "queued"; handle_downlink ignores such a message.
PostBlank(n) ==
  /\ Mishap("blank", MaxBlanks)
  /\ table[n].known
  /\ table' = [table EXCEPT ![n] = Queued(@, CmdNone, CmdNone)]
  /\ excused' = excused \cup {table[n].cmd}
  /\ UNCHANGED <<network, addr, pc, current, offered, spoiled, executed, confirmed, missed>>

------------------------------------------------------------------------------
NodeStep(n) ==
  \/ Boot(n) \/ Registered(n) \/ Report(n) \/ Poll(n) \/ Receive(n)
  \/ Idle(n) \/ Handle(n) \/ Acknowledged(n)

Serve(r) ==
  \/ ServeRegister(r) \/ ServeData(r) \/ ServeGet(r) \/ ServeAck(r)

Next ==
  \/ \E n \in Nodes :
       \/ NodeStep(n) \/ TimesOut(n) \/ Reset(n) \/ PostBlank(n)
       \/ \E a \in Addrs : Move(n, a)
       \/ \E c \in Commands : PostCmd(n, c) \/ Downlink(n, c)
  \/ \E r \in requests : Serve(r)

Spec == Init /\ [][Next]_vars

\* A request that somebody waits for.
ServeOpen(n) == \E r \in requests : r.node = n /\ r.open /\ Serve(r)

\* The node's task goes on, and a request that is not given up gets through.
FairSpec == Spec /\ \A n \in Nodes : WF_vars(NodeStep(n)) /\ WF_vars(ServeOpen(n))


------------------------------------------------------------------------------
(* Properties.                                                             *)

Waits(n) == {table[n].cmd} \ {CmdNone}
Moving ==
  {x \in Nodes \X Payloads :
     /\ x[2] # CmdNone
     /\ \/ \E a \in Mail(x[1]) : a.item.cmd = x[2]
        \/ pc[x[1]] = "polled" /\ current[x[1]].cmd = x[2]}
Begun == [n \in Nodes |-> [i \in DOMAIN executed[n] |-> executed[n][i].cmd]]

Slot == INSTANCE CommandSlot
  WITH waiting <- [n \in Nodes |-> Waits(n)], moving <- Moving, executed <- Begun

\* The downlink is a letter box: lost and repeated requests, late answers and
\* restarts may lose a command, but no node executes a command twice, another
\* node's or one that was replaced, and none is confirmed that was not
\* executed (README.md:380 "End-to-end execution confirmation").
ImplementsSlot == Slot!Spec

\* What queue_cmd was given as the payload of c.
Given(c) == {Own(c)} \cup IF c \in spoiled THEN {Junk} ELSE {}

\* A command is never executed with the payload of another one, neither of one that
\* was in its slot before nor of one that replaced it (app_device_registry.c:163-168),
\* and one with a payload never without: what is executed is what queue_cmd was given.
\* Over MQTT that is what was sent; over HTTP the body has been freed by then
\* (app_rest_api.c:174-178), and the payload may be anything.
PayloadStays ==
  \A n \in Nodes : \A i \in DOMAIN executed[n] :
    executed[n][i].data \in Given(executed[n][i].cmd)

\* Between the slot that is emptied first (app_coap_server.c:151) and the
\* acknowledgement that is recorded last no accepted command disappears without
\* one of the mishaps below: it waits, or it is on its way to its node or in
\* that node's hands, or the router has its acknowledgement.
NothingVanishes ==
  \A n \in Nodes, c \in Commands :
    <<n, c>> \in offered =>
      c \in Waits(n) \cup InHand(n) \cup excused \/ <<n, c>> \in confirmed

\* A command that was accepted is executed and confirmed, unless another one
\* or a blank one replaced it, or a timeout, a reset or a repeated poll hit it
\* on its way.  The node asks again in each cycle (app_node_main.c:236-241),
\* so it need not have been awake when the command came.
CommandsConfirmed ==
  \A n \in Nodes, c \in Commands :
    <<n, c>> \in offered ~> <<n, c>> \in confirmed \/ c \in excused

\* A node that goes on because its registration was answered has its own label
\* in the table from then on, also when a report overtook the registration or
\* one that was sent earlier comes once more (app_device_registry.c:81,102): it
\* will not register again before its next cold boot.
RegistrationKept ==
  \A n \in Nodes \ missed :
    pc[n] \notin {"boot", "registering"} => table[n].label = "given"

\* A node that registers is known by its own label in the end, whatever made
\* its entry before, unless its request times out or the node restarts:
\* "BR idempotent" (app_coap_client.h:37).
RegistrationLands ==
  \A n \in Nodes : pc[n] = "registering" ~> table[n].label = "given" \/ n \in missed
=============================================================================
