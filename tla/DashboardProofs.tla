--------------------------- MODULE DashboardProofs ---------------------------
(***************************************************************************)
(* The invariants of the way of a reading, proved for any samples, fetches *)
(* and bounds: what is not marked was measured, and the page never draws   *)
(* simulated nodes as live.                                                *)
(***************************************************************************)
EXTENDS Dashboard, SensorHalProofs

------------------------------------------------------------------------------
(* The page.                                                               *)

Routers == {Router, Elsewhere}

IsFetch(x) == x = [stage |-> x.stage, url |-> x.url, data |-> x.data] /\ x.url \in Routers

\* LiveIsReal is not inductive: GoLive relies on ShowNodes of the same
\* callback, Simulate on GoDemo, and both on no other callback in between.
PageInv ==
  /\ fetches = [f \in Fetches |-> fetches[f]] /\ \A f \in Fetches : IsFetch(fetches[f])
  /\ apiUrl \in Routers
  /\ LiveIsReal
  /\ \A f \in Fetches : running = f /\ At(f, "shown") => nodes.origin \in Routers
  /\ \A f \in Fetches : running = f /\ At(f, "demo") => ~isLive

LEMMA PageInitially == Init => PageInv
<1> SUFFICES ASSUME Init PROVE PageInv
  OBVIOUS
<1>1. \A f \in Fetches : fetches[f] = Free
  BY DEF Init, PageInit
<1>2. \A f \in Fetches : IsFetch(fetches[f])
  BY <1>1 DEF Free, IsFetch, Routers
<1> QED
  BY <1>1, <1>2, DashboardAssumption DEF Init, PageInit, PageInv, LiveIsReal, At, Routers

\* A fetch that goes on is a fetch, and the others stay where they are.
LEMMA Moved ==
  ASSUME PageInv, NEW f \in Fetches, NEW s, NEW x,
         fetches' = [fetches EXCEPT ![f] = x], x.stage = s, IsFetch(x)
  PROVE  /\ fetches' = [g \in Fetches |-> fetches'[g]] /\ \A g \in Fetches : IsFetch(fetches'[g])
         /\ \A g \in Fetches : fetches'[g].stage = IF g = f THEN s ELSE fetches[g].stage
<1>1. fetches = [g \in Fetches |-> fetches[g]] /\ \A g \in Fetches : IsFetch(fetches[g])
  BY DEF PageInv
<1>2. \A g \in Fetches : fetches'[g] = IF g = f THEN x ELSE fetches[g]
  BY <1>1
<1>3. fetches' = [g \in Fetches |-> fetches'[g]]
  BY <1>1
<1> QED
  BY <1>1, <1>2, <1>3

LEMMA MovedTo ==
  ASSUME PageInv, NEW f \in Fetches, NEW s, To(f, s)
  PROVE  /\ fetches' = [g \in Fetches |-> fetches'[g]] /\ \A g \in Fetches : IsFetch(fetches'[g])
         /\ \A g \in Fetches : fetches'[g].stage = IF g = f THEN s ELSE fetches[g].stage
<1> DEFINE x == [fetches[f] EXCEPT !.stage = s]
<1>1. fetches' = [fetches EXCEPT ![f] = x]
  BY DEF To
<1>2. fetches[f] = [stage |-> fetches[f].stage, url |-> fetches[f].url, data |-> fetches[f].data]
  BY DEF PageInv, IsFetch
<1>3. x = [stage |-> s, url |-> fetches[f].url, data |-> fetches[f].data]
  BY <1>2
<1>4. x.stage = s /\ IsFetch(x)
  BY <1>3 DEF IsFetch, PageInv
<1> HIDE DEF x
<1> QED
  BY <1>1, <1>4, Moved

\* Neither a new fetch nor an answer touches what is drawn, and neither can
\* happen to the fetch whose callback runs.
LEMMA BegunKeeps == ASSUME PageInv, NEW f \in Fetches, Refresh(f) \/ ChangeUrl(f) PROVE PageInv'
<1> DEFINE x == [stage |-> "sent", url |-> apiUrl', data |-> None]
<1>1. fetches' = [fetches EXCEPT ![f] = x]
  BY DEF Refresh, ChangeUrl, Begin
<1>2. apiUrl' \in Routers
  BY DEF Refresh, ChangeUrl, PageInv, Routers
<1>3. x.stage = "sent" /\ IsFetch(x)
  BY <1>2 DEF IsFetch
<1>4. UNCHANGED <<nodes, isLive, running>>
  BY DEF Refresh, ChangeUrl
<1> HIDE DEF x
<1> QED
  BY <1>1, <1>2, <1>3, <1>4, Moved DEF PageInv, LiveIsReal, At

LEMMA FetchKeeps == ASSUME PageInv, NEW f \in Fetches, FetchStep(f) PROVE PageInv'
<1>1. CASE Answered(f)
  <2> DEFINE x == [stage |-> "body", url |-> fetches[f].url, data |-> Known(fetches[f].url)]
  <2>1. fetches' = [fetches EXCEPT ![f] = x]
    BY <1>1 DEF Answered
  <2>2. x.stage = "body" /\ IsFetch(x)
    BY DEF IsFetch, PageInv
  <2>3. UNCHANGED <<apiUrl, nodes, isLive, running>>
    BY <1>1 DEF Answered
  <2> HIDE DEF x
  <2> QED
    BY <2>1, <2>2, <2>3, Moved DEF PageInv, LiveIsReal, At
<1>2. CASE Failing(f)
  BY <1>2, MovedTo DEF Failing, PageInv, LiveIsReal, At
<1>3. CASE ShowNodes(f)
  <2>1. nodes'.origin \in Routers
    BY <1>3 DEF ShowNodes, PageInv, IsFetch
  <2> QED
    BY <1>3, <2>1, MovedTo DEF ShowNodes, PageInv, LiveIsReal, At, Routers
<1>4. CASE GoLive(f)
  <2>1. nodes.origin \in Routers /\ nodes' = nodes /\ running' \notin Fetches
    BY <1>4, DashboardAssumption DEF GoLive, PageInv
  <2> QED
    BY <1>4, <2>1, MovedTo DEF GoLive, PageInv, LiveIsReal, Routers
<1>5. CASE Finish(f)
  <2>1. Free.stage = "free" /\ IsFetch(Free)
    BY DEF Free, IsFetch, Routers
  <2> QED
    BY <1>5, <2>1, Moved DEF Finish, PageInv, LiveIsReal, At
<1>6. CASE StatusUnreadable(f)
  BY <1>6, MovedTo DEF StatusUnreadable, PageInv, LiveIsReal, At
<1>7. CASE GoDemo(f)
  BY <1>7, MovedTo DEF GoDemo, PageInv, LiveIsReal, At
<1>8. CASE Simulate(f)
  <2>1. Free.stage = "free" /\ IsFetch(Free)
    BY DEF Free, IsFetch, Routers
  <2>2. ~isLive /\ ~isLive' /\ running' \notin Fetches
    BY <1>8, DashboardAssumption DEF Simulate, PageInv
  <2> QED
    BY <1>8, <2>1, <2>2, Moved DEF Simulate, PageInv, LiveIsReal
<1> QED
  BY <1>1, <1>2, <1>3, <1>4, <1>5, <1>6, <1>7, <1>8 DEF FetchStep

\* What is drawn as live hardware came from a router, however many fetches
\* overlap (ThreadMonitorDashboard.jsx:85-144).
THEOREM LiveNeverSimulated == Spec => []LiveIsReal
<1>1. PageInv /\ [Next]_vars => PageInv'
  <2> SUFFICES ASSUME PageInv, [Next]_vars PROVE PageInv'
    OBVIOUS
  <2>1. CASE UNCHANGED pageVars
    BY <2>1 DEF pageVars, PageInv, LiveIsReal, At
  <2>2. CASE PageNext
    BY <2>2, BegunKeeps, FetchKeeps DEF PageNext
  <2> QED
    BY <2>1, <2>2 DEF Next, vars
<1>2. PageInv => LiveIsReal
  BY DEF PageInv
<1> QED
  BY <1>1, <1>2, PageInitially, PTL DEF Spec

------------------------------------------------------------------------------
(* From the sensor to the registry.                                        *)

\* A reading that is kept or sent: in range, and near what it stands for
\* unless it is marked.
Kept(r) ==
  /\ r = [t |-> r.t, h |-> r.h, valid |-> r.valid, truth |-> r.truth, number |-> r.number]
  /\ r.t \in Int /\ -13000 <= r.t /\ r.t <= 13000
  /\ r.h \in Int /\ 0 <= r.h /\ r.h <= 10000
  /\ r.valid => Near(r)

Sound(p) == p.err \/ Near(p)

\* UnmarkedIsMeasured speaks of the registry's entry, which says nothing of
\* the report that arrives next.
MeasuredInv ==
  /\ driver \in Drivers /\ phase \in {"read", "send", "sleep"}
  /\ attempt \in 0 .. CoapMaxRetries /\ (phase = "send" => attempt < CoapMaxRetries)
  /\ entry.reports \in Nat
  /\ Kept(s_last) /\ Kept(reading)
  /\ \A p \in network : Sound(p)
  /\ entry.reports > 0 => Sound(entry.last)

LEMMA AbsOne == ASSUME NEW z \in Int PROVE Abs(z) <= 1 <=> -1 <= z /\ z <= 1
  BY DEF Abs

LEMMA EmptyKept == Kept(Empty)
  BY DEF Kept, Empty

LEMMA MeasuredInitially == Init => MeasuredInv
  BY EmptyKept, TelemetryAssumption DEF Init, PathInit, MeasuredInv

LEMMA TakenIsKept ==
  ASSUME Dht22Flips <= 1, Sht31Flips <= 3, MeasuredInv, TakeReading
  PROVE  Kept(s_last') /\ Kept(reading')
<1>0. PICK m \in Measurements[driver] : \E r \in m.reads :
        /\ reading' = IF r.ok THEN [t |-> r.t, h |-> r.h, valid |-> TRUE, truth |-> m.truth, number |-> readings + 1]
                              ELSE [s_last EXCEPT !.valid = FALSE, !.number = readings + 1]
        /\ s_last' = IF r.ok THEN reading' ELSE s_last
  BY DEF TakeReading
<1>1. PICK r \in m.reads :
        /\ reading' = IF r.ok THEN [t |-> r.t, h |-> r.h, valid |-> TRUE, truth |-> m.truth, number |-> readings + 1]
                              ELSE [s_last EXCEPT !.valid = FALSE, !.number = readings + 1]
        /\ s_last' = IF r.ok THEN reading' ELSE s_last
  BY <1>0
<1>2. CASE r.ok
  <2>1. driver \in {"dht22", "sht31"}
    BY TelemetryAssumption DEF MeasuredInv
  <2>2. Good(r, m.truth) /\ m.truth \in [t : Int, h : Int]
    BY <1>2, <2>1, ReadsGood
  <2>3. /\ reading' = [t |-> r.t, h |-> r.h, valid |-> TRUE, truth |-> m.truth, number |-> readings + 1]
        /\ s_last' = reading'
    BY <1>1, <1>2
  <2>4. m.truth # NoTruth /\ m.truth.t \in Int /\ m.truth.h \in Int
    BY <2>2, TelemetryAssumption
  <2>5. Abs(r.t - m.truth.t) <= 1 /\ Abs(r.h - m.truth.h) <= 1
    <3>1. r.t - m.truth.t \in Int /\ r.h - m.truth.h \in Int
      BY <2>2, <2>4 DEF Good
    <3> QED
      BY <2>2, <3>1, AbsOne DEF Good
  <2>6. Near(reading')
    BY <2>3, <2>4, <2>5 DEF Near
  <2>7. /\ reading'.t = r.t /\ reading'.h = r.h
        /\ reading' = [t |-> reading'.t, h |-> reading'.h, valid |-> reading'.valid,
                       truth |-> reading'.truth, number |-> reading'.number]
    BY <2>3
  <2>8. Kept(reading')
    BY <2>2, <2>6, <2>7 DEF Kept, Good
  <2> QED
    BY <2>3, <2>8
<1>3. CASE ~r.ok
  <2>1. s_last = [t |-> s_last.t, h |-> s_last.h, valid |-> s_last.valid,
                  truth |-> s_last.truth, number |-> s_last.number]
    BY DEF MeasuredInv, Kept
  <2>2. reading' = [t |-> s_last.t, h |-> s_last.h, valid |-> FALSE,
                    truth |-> s_last.truth, number |-> readings + 1]
    BY <1>1, <1>3, <2>1
  <2>3. Kept(reading')
    BY <2>2 DEF MeasuredInv, Kept
  <2> QED
    BY <1>1, <1>3, <2>3 DEF MeasuredInv
<1> QED
  BY <1>2, <1>3

LEMMA SentIsSound == ASSUME Kept(reading) PROVE Sound(Payload(reading))
<1> DEFINE p == Payload(reading)
<1>1. p.t = reading.t /\ p.h = reading.h /\ p.truth = reading.truth /\ p.err = ~reading.valid
  BY DEF Payload
<1> HIDE DEF p
<1>2. CASE reading.valid
  BY <1>1, <1>2 DEF Kept, Sound, Near, p
<1>3. CASE ~reading.valid
  BY <1>1, <1>3 DEF Sound, p
<1> QED
  BY <1>2, <1>3

LEMMA MeasuredKept ==
  ASSUME Dht22Flips <= 1, Sht31Flips <= 3, MeasuredInv, PathNext
  PROVE  MeasuredInv'
<1>1. CASE TakeReading
  <2>1. (Kept(s_last) /\ Kept(reading))'
    BY <1>1, TakenIsKept DEF Kept, Near
  <2>2. attempt' = 0 /\ 0 < CoapMaxRetries
    BY <1>1, TelemetryAssumption DEF TakeReading
  <2> QED
    BY <1>1, <2>1, <2>2, TelemetryAssumption DEF TakeReading, MeasuredInv, Sound, Near
<1>2. CASE SendReading
  <2>1. Sound(Payload(reading))
    BY SentIsSound DEF MeasuredInv
  <2>2. \A p \in network' : Sound(p)
    BY <1>2, <2>1 DEF SendReading, MeasuredInv
  <2> QED
    BY <1>2, <2>2 DEF SendReading, MeasuredInv, Kept, Near, Sound
<1>3. CASE SendFails
  <2>1. attempt' \in 0 .. CoapMaxRetries /\ (phase' = "send" => attempt' < CoapMaxRetries)
    BY <1>3, TelemetryAssumption DEF SendFails, MeasuredInv
  <2> QED
    BY <1>3, <2>1 DEF SendFails, MeasuredInv, Kept, Near, Sound
<1>4. CASE Sleep
  <2>1. (Kept(s_last) /\ Kept(reading))'
    BY <1>4, EmptyKept DEF Sleep, Cleared, MeasuredInv, Kept, Near
  <2>2. phase' = "read" /\ attempt' \in 0 .. CoapMaxRetries
    BY <1>4, TelemetryAssumption DEF Sleep, Cleared, MeasuredInv
  <2> QED
    BY <1>4, <2>1, <2>2 DEF Sleep, MeasuredInv, Sound, Near
<1>5. CASE Restart
  <2>1. (Kept(s_last) /\ Kept(reading))'
    BY <1>5, EmptyKept DEF Restart, Cleared, Kept, Near
  <2>2. phase' = "read" /\ attempt' \in 0 .. CoapMaxRetries
    BY <1>5, TelemetryAssumption DEF Restart, Cleared
  <2> QED
    BY <1>5, <2>1, <2>2 DEF Restart, MeasuredInv, Sound, Near
<1>6. ASSUME NEW p \in network, Arrive(p) PROVE MeasuredInv'
  <2>1. entry'.reports = entry.reports + 1 /\ entry'.last = p /\ network' \subseteq network
    BY <1>6 DEF Arrive
  <2>2. Sound(p) /\ \A q \in network' : Sound(q)
    BY <2>1 DEF MeasuredInv
  <2> QED
    BY <1>6, <2>1, <2>2 DEF Arrive, nodeVars, MeasuredInv, Kept, Near, Sound
<1>7. ASSUME NEW p \in network, Lose(p) PROVE MeasuredInv'
  BY <1>7 DEF Lose, nodeVars, MeasuredInv, Kept, Near, Sound
<1> QED
  BY <1>1, <1>2, <1>3, <1>4, <1>5, <1>6, <1>7 DEF PathNext

LEMMA MeasuredInductive ==
  ASSUME Dht22Flips <= 1, Sht31Flips <= 3
  PROVE  MeasuredInv /\ [Next]_vars => MeasuredInv'
<1> SUFFICES ASSUME MeasuredInv, [Next]_vars PROVE MeasuredInv'
  OBVIOUS
<1>1. CASE UNCHANGED pathVars
  BY <1>1 DEF pathVars, nodeVars, MeasuredInv, Kept, Near, Sound
<1>2. CASE PathNext
  BY <1>2, MeasuredKept
<1> QED
  BY <1>1, <1>2 DEF Next, vars

LEMMA Between ==
  ASSUME NEW z \in Int, NEW a \in Int, NEW b \in Int, a <= z, z <= b PROVE z \in a .. b
  OBVIOUS

LEMMA InInt16 == ASSUME NEW z \in Int, -13000 <= z, z <= 13000 PROVE z \in Int16
<1> DEFINE a == -32768
           b == 32767
<1>1. a \in Int /\ b \in Int /\ a <= z /\ z <= b
  BY SMT
<1> HIDE DEF a, b
<1>2. z \in a .. b
  BY <1>1, Between
<1> QED
  BY <1>2 DEF a, b, Int16

LEMMA InPercent == ASSUME NEW z \in Int, 0 <= z, z <= 10000 PROVE z \in 0 .. 10000
  BY SMT

\* The types of the path, in particular that what the drivers return fits
\* the payload's int16_t and 0 to 100 per cent (app_protocol.h:147), while a
\* DHT22's frame loses one bit at most and an SHT31's three.
THEOREM PathTypes ==
  ASSUME Dht22Flips <= 1, Sht31Flips <= 3
  PROVE  Spec => []PathTypeOK
<1>1. MeasuredInv => PathTypeOK
  <2> SUFFICES ASSUME MeasuredInv PROVE PathTypeOK
    OBVIOUS
  <2>1. ASSUME NEW r, Kept(r) PROVE r.t \in Int16 /\ r.h \in 0 .. 10000
    BY <2>1, InInt16, InPercent DEF Kept
  <2>2. \A r \in {s_last, reading} : r.t \in Int16 /\ r.h \in 0 .. 10000
    BY <2>1 DEF MeasuredInv
  <2> QED
    BY <2>2 DEF MeasuredInv, PathTypeOK
<1> QED
  BY <1>1, MeasuredInitially, MeasuredInductive, PTL DEF Spec

\* A report without the sensor error flag carries what was measured, to a
\* hundredth, for every sample, every such noise, every loss, duplicate and
\* reordering of reports, every restart and either way to sleep
\* (app_protocol.h:41).
THEOREM UnmarkedMeasured ==
  ASSUME Dht22Flips <= 1, Sht31Flips <= 3
  PROVE  Spec => []UnmarkedIsMeasured
<1>1. MeasuredInv => UnmarkedIsMeasured
  BY DEF MeasuredInv, UnmarkedIsMeasured, Sound
<1> QED
  BY <1>1, MeasuredInitially, MeasuredInductive, PTL DEF Spec
==============================================================================
