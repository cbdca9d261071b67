------------------------------ MODULE Dashboard ------------------------------
(***************************************************************************)
(* The page (ThreadMonitorDashboard.jsx) over the router's REST API: every *)
(* five seconds, and when the address in its input field changes, it       *)
(* fetches the nodes without waiting for the fetches before.  An answer is *)
(* shown as live hardware; a failure turns what is shown into a simulation.*)
(*                                                                         *)
(* A call of a state setter is a step of its own, since the page may be    *)
(* drawn between any two, but other callbacks wait for the one that runs.  *)
(* Composed with Telemetry, whose entry is what the router answers.  One   *)
(* node, and online: the page leaves offline nodes as they are.  Elsewhere *)
(* another router may answer, with nodes of its own, or nothing.           *)
(***************************************************************************)
EXTENDS Telemetry

CONSTANTS
  Router, Elsewhere,  \* what the input field may hold: the router's address, another
  Fetches,            \* names for the fetches in flight
  Idle,               \* no callback runs
  MaxFetchFailures, MaxUrlChanges \* bounds

ASSUME DashboardAssumption ==
  /\ Router # Elsewhere /\ {Router, Elsewhere} \cap {"none", "simulation"} = {}
  /\ Idle \notin Fetches
  /\ {MaxFetchFailures, MaxUrlChanges} \subseteq Nat

VARIABLES
  apiUrl,   \* the input field
  nodes,    \* what is drawn, and which router it comes from, if any
  isLive,   \* "Live Hardware Connected" or "Demo / Offline Simulation"
  fetches,  \* where each fetch is, and what it brings
  running,  \* the fetch whose callback runs
  failures, urlChanges

pageVars == <<apiUrl, nodes, isLive, fetches, running, failures, urlChanges>>
vars     == <<pathVars, pageVars>>

\* device_to_json, of which the page sees the reading without
\* NODE_FLAG_SENSOR_ERROR; there is one even when no report has come.
Json == [t |-> entry.last.t, number |-> entry.last.number]
None == [t |-> 0, number |-> -1]

\* What GET /api/v1/nodes brings from an address.  Of the other router's
\* nodes it only matters whose they are.
Known(url) == IF url = Router THEN Json ELSE None

Free == [stage |-> "free", url |-> Router, data |-> None]

PageInit ==
  /\ apiUrl = Router
  /\ nodes = [origin |-> "none", data |-> None] /\ isLive = FALSE
  /\ fetches = [f \in Fetches |-> Free] /\ running = Idle
  /\ failures = 0 /\ urlChanges = 0

At(f, s) == fetches[f].stage = s
To(f, s) == fetches' = [fetches EXCEPT ![f].stage = s]

Begin(f) ==
  /\ At(f, "free")
  /\ fetches' = [fetches EXCEPT ![f] = [stage |-> "sent", url |-> apiUrl', data |-> None]]

------------------------------------------------------------------------------
(* useEffect.                                                              *)

\* setInterval(fetchData, 5000).
Refresh(f) ==
  /\ running = Idle /\ UNCHANGED apiUrl
  /\ Begin(f)
  /\ UNCHANGED <<nodes, isLive, running, failures, urlChanges>>

\* Another address: a new timer and a fetch at once; those under way go on.
ChangeUrl(f) ==
  /\ running = Idle /\ urlChanges < MaxUrlChanges /\ urlChanges' = urlChanges + 1
  /\ apiUrl' \in {Router, Elsewhere} \ {apiUrl}
  /\ Begin(f)
  /\ UNCHANGED <<nodes, isLive, running, failures>>

------------------------------------------------------------------------------
(* fetchData.                                                              *)

\* GET /api/v1/nodes: the registry as it is when the handler walks it.  The
\* three seconds end with the headers; the body may take any time.
Answered(f) ==
  /\ At(f, "sent")
  /\ fetches' = [fetches EXCEPT ![f] = [stage |-> "body", url |-> fetches[f].url,
                                        data |-> Known(fetches[f].url)]]
  /\ UNCHANGED <<apiUrl, nodes, isLive, running, failures, urlChanges>>

\* Aborted, refused, not ok, or a body that does not parse.
Failing(f) ==
  /\ At(f, "sent") \/ At(f, "body")
  /\ IF fetches[f].url = Router
     THEN failures < MaxFetchFailures /\ failures' = failures + 1
     ELSE UNCHANGED failures
  /\ To(f, "failed")
  /\ UNCHANGED <<apiUrl, nodes, isLive, running, urlChanges>>

\* Mutant of ShowNodes: nodes that are drawn already stay as they are.
ShowNodesOnce(f) ==
  /\ running = Idle /\ At(f, "body")
  /\ running' = f /\ To(f, "shown")
  /\ nodes' = IF nodes.origin \in {Router, Elsewhere} THEN nodes
              ELSE [origin |-> fetches[f].url, data |-> fetches[f].data]
  /\ UNCHANGED <<apiUrl, isLive, failures, urlChanges>>

ShowNodes(f) ==
  /\ running = Idle /\ At(f, "body")
  /\ running' = f /\ To(f, "shown")
  /\ nodes' = [origin |-> fetches[f].url, data |-> fetches[f].data]
  /\ UNCHANGED <<apiUrl, isLive, failures, urlChanges>>

GoLive(f) ==
  /\ running = f /\ At(f, "shown")
  /\ isLive' = TRUE
  /\ running' = Idle /\ To(f, "status")
  /\ UNCHANGED <<apiUrl, nodes, failures, urlChanges>>

\* The status, which may have failed on its own, ends the fetch; one that
\* came but does not parse lands in the same catch as a failed fetch.
Finish(f) ==
  /\ running = Idle /\ At(f, "status")
  /\ fetches' = [fetches EXCEPT ![f] = Free]
  /\ UNCHANGED <<apiUrl, nodes, isLive, running, failures, urlChanges>>

StatusUnreadable(f) ==
  /\ running = Idle /\ At(f, "status")
  /\ failures < MaxFetchFailures /\ failures' = failures + 1
  /\ To(f, "failed")
  /\ UNCHANGED <<apiUrl, nodes, isLive, running, urlChanges>>

\* Mutant of GoDemo: the label is left as it was.
GoDemoUnlabelled(f) ==
  /\ running = Idle /\ At(f, "failed")
  /\ running' = f /\ To(f, "demo")
  /\ UNCHANGED <<apiUrl, nodes, isLive, failures, urlChanges>>

GoDemo(f) ==
  /\ running = Idle /\ At(f, "failed")
  /\ running' = f /\ To(f, "demo")
  /\ isLive' = FALSE
  /\ UNCHANGED <<apiUrl, nodes, failures, urlChanges>>

\* The example nodes when there was nothing, else what was shown with noise.
Simulate(f) ==
  /\ running = f /\ At(f, "demo")
  /\ nodes' = [nodes EXCEPT !.origin = "simulation"]
  /\ running' = Idle
  /\ fetches' = [fetches EXCEPT ![f] = Free]
  /\ UNCHANGED <<apiUrl, isLive, failures, urlChanges>>

FetchStep(f) ==
  \/ Answered(f) \/ Failing(f) \/ ShowNodes(f) \/ GoLive(f)
  \/ Finish(f) \/ StatusUnreadable(f) \/ GoDemo(f) \/ Simulate(f)

PageNext == \E f \in Fetches : Refresh(f) \/ ChangeUrl(f) \/ FetchStep(f)

------------------------------------------------------------------------------
Init == PathInit /\ PageInit
Next == \/ PathNext /\ UNCHANGED pageVars
        \/ PageNext /\ UNCHANGED pathVars
Spec == Init /\ [][Next]_vars

\* The timer fires, and a fetch ends: its headers within three seconds, its
\* body when the connection does, its callbacks when the page is idle.
FairSpec ==
  /\ Spec
  /\ WF_vars((\E f \in Fetches : Refresh(f)) /\ UNCHANGED pathVars)
  /\ \A f \in Fetches : WF_vars(FetchStep(f) /\ UNCHANGED pathVars)

------------------------------------------------------------------------------
(* Properties.                                                             *)

\* What is drawn as live hardware came from a router, whatever fetches
\* overlap and however the page is drawn between two setters
\* (ThreadMonitorDashboard.jsx:96-99, 123-125; README.md:350 "simulated
\* fallback when disconnected").
LiveIsReal == isLive => nodes.origin \in {Router, Elsewhere}

\* The page shows what the router in its input field knows as live data in
\* the end, however many fetches failed or overlapped before, and although
\* those to an address that is no longer in the field still show what they
\* bring (ThreadMonitorDashboard.jsx:150).
CatchesUp ==
  []<>(apiUrl = Elsewhere \/ (isLive /\ nodes = [origin |-> Router, data |-> Json]))
==============================================================================
