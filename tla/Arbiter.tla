------------------------------ MODULE Arbiter ------------------------------
(***************************************************************************)
(* memHierarchy.RoundRobinArbiter (roundRobinArbiter.cc): three CPU-side  *)
(* ports and one directory/NIC port.  Each link handler records the       *)
(* event's id in startTimes_, buffers the event and, for a data request,  *)
(* remembers its port in addrPortMap_.  The clock handler first drains    *)
(* the twelve outgoing queues (sendOutgoingEvents), then routes every     *)
(* buffered event by address (forwardByAddress) into an outgoing queue.   *)
(* Responses find their way back through addrPortMap_ and addrDestMap_.   *)
(*                                                                         *)
(* Events are records; the sender's component name (getSrc) is abstracted *)
(* to the port it arrived on, the payload and sizes are left out.         *)
(***************************************************************************)
EXTENDS Integers, Sequences, FiniteSets, FiniteSetsExt

CONSTANTS
    Addrs,               \* routing addresses the endpoints use
    OtherAddrs,          \* addresses of writebacks and unmatched FetchResps
    PortMinAddr,         \* [UpPorts -> Nat]: port1minAddr .. port3minAddr
    PortMaxAddr,         \* [UpPorts -> Nat]: port1maxAddr .. port3maxAddr
    MaxRequestsPerCycle, \* max_requests_per_cycle (default -1)
    MaxEvents,           \* bound on events the endpoints create
    Serial               \* TRUE: endpoints send only while the arbiter holds nothing

\* PortNum: PORT1, PORT2, PORT3, OUTPORT.
UpPorts == {"P1", "P2", "P3"}
OUTPORT == "Out"
Ports   == UpPorts \cup {OUTPORT}

ASSUME /\ OtherAddrs \subseteq Addrs
       /\ MaxEvents \in Nat \ {0}
       /\ MaxRequestsPerCycle \in Int
       /\ Serial \in BOOLEAN

\* Data requests (isDataRequest), responses (isResponse), FetchResp/FetchXResp
\* and everything else (writebacks and the like).
Kinds == {"Req", "Resp", "FetchResp", "Other"}
Ids   == 1..MaxEvents
Event == [id : Ids, kind : Kinds, addr : Addrs, respTo : 0..MaxEvents, src : Ports]

\* The twelve outgoing queues: outgoingEventQueueDownPortK_ is <<Out, PK>>,
\* outgoingEventQueueUpPortKFromX_ is <<PK, X>>.
QKeys == {q \in Ports \X Ports : q[1] # q[2]}

\* Order in which sendOutgoingEvents visits the groups and, inside a group,
\* the queues (note the PORT3 group visits FromPort2 before FromPort1).
GroupOrder == <<OUTPORT, "P1", "P2", "P3">>
DrainOrder == [d \in Ports |->
                 CASE d = OUTPORT -> <<"P1", "P2", "P3">>
                   [] d = "P1"    -> <<OUTPORT, "P2", "P3">>
                   [] d = "P2"    -> <<OUTPORT, "P1", "P3">>
                   [] d = "P3"    -> <<OUTPORT, "P2", "P1">>]

VARIABLES
    inBuf,        \* eventBufferFromLinkUpPortK_ / eventBufferFromLinkDown_
    startTimes,   \* keys (event ids) of startTimes_
    addrPortMap,  \* addrPortMap_: set of [addr, id, port]
    addrDestMap,  \* addrDestMap_: set of [addr, id, dst]
    outQ,         \* the outgoing queues, [QKeys -> Seq(Event)]
    status,       \* "running", or how the simulation stopped: fatal, ud2, hung
    \* endpoints and links
    nextId,       \* ids handed out so far
    issued,       \* every event an endpoint has sent to the arbiter
    sent          \* [Ports -> Seq(Event)]: what the arbiter sent on each link

vars == <<inBuf, startTimes, addrPortMap, addrDestMap, outQ, status,
          nextId, issued, sent>>

St == [inBuf |-> inBuf, startTimes |-> startTimes, addrPortMap |-> addrPortMap,
       addrDestMap |-> addrDestMap, outQ |-> outQ, status |-> status,
       sent |-> sent]

Apply(t) ==
    /\ inBuf' = t.inBuf
    /\ startTimes' = t.startTimes
    /\ addrPortMap' = t.addrPortMap
    /\ addrDestMap' = t.addrDestMap
    /\ outQ' = t.outQ
    /\ status' = t.status
    /\ sent' = t.sent

Running(s) == s.status = "running"

\* out_->fatal(...) aborts the simulation.
fatal(s) == [s EXCEPT !.status = "fatal"]

Keys(m) == {<<x.addr, x.id>> : x \in m}

\* Slip: upper bounds exclusive, as in the commented-out PutAck code of processEvent.
Region_lt(a) ==
    CASE PortMinAddr["P1"] <= a /\ a < PortMaxAddr["P1"] -> "P1"
      [] PortMinAddr["P2"] <= a /\ a < PortMaxAddr["P2"] -> "P2"
      [] PortMinAddr["P3"] <= a /\ a < PortMaxAddr["P3"] -> "P3"
      [] OTHER -> OUTPORT

\* The address-range checks of forwardByAddress, in their order, bounds inclusive.
Region(a) ==
    CASE PortMinAddr["P1"] <= a /\ a <= PortMaxAddr["P1"] -> "P1"
      [] PortMinAddr["P2"] <= a /\ a <= PortMaxAddr["P2"] -> "P2"
      [] PortMinAddr["P3"] <= a /\ a <= PortMaxAddr["P3"] -> "P3"
      [] OTHER -> OUTPORT

(***************************************************************************)
(* Link handlers.                                                          *)
(***************************************************************************)

\* Slip: the commented-out guard of the handlers, recording data requests only.
handleEvent_reqonly(s, p, e) ==
    LET s1 == [s EXCEPT !.startTimes = IF e.kind = "Req" THEN @ \cup {e.id} ELSE @,
                        !.inBuf[p] = Append(@, e)]
    IN  IF e.kind # "Req" THEN s1
        ELSE IF <<e.addr, e.id>> \in Keys(s.addrPortMap) THEN fatal(s1)
        ELSE [s1 EXCEPT !.addrPortMap = @ \cup {[addr |-> e.addr, id |-> e.id, port |-> p]}]

\* Slip: handleEventUpPort3 copied from handleEventUpPort2 with PORT2 left in.
handleEvent_port3(s, p, e) ==
    LET s1 == [s EXCEPT !.startTimes = @ \cup {e.id},
                        !.inBuf[p] = Append(@, e)]
    IN  IF e.kind # "Req" THEN s1
        ELSE IF <<e.addr, e.id>> \in Keys(s.addrPortMap) THEN fatal(s1)
        ELSE [s1 EXCEPT !.addrPortMap = @ \cup {[addr |-> e.addr, id |-> e.id,
                                                   port |-> IF p = "P3" THEN "P2" ELSE p]}]

\* handleEventUpPort1/2/3 and handleEventDown: recordIncomingRequest (a map
\* insert, so a present id is kept), push onto the port's buffer and, for a
\* data request, insert (addr, id) -> port, fatal if the key is present.
handleEvent(s, p, e) ==
    LET s1 == [s EXCEPT !.startTimes = @ \cup {e.id},
                        !.inBuf[p] = Append(@, e)]
    IN  IF e.kind # "Req" THEN s1
        ELSE IF <<e.addr, e.id>> \in Keys(s.addrPortMap) THEN fatal(s1)
        ELSE [s1 EXCEPT !.addrPortMap = @ \cup {[addr |-> e.addr, id |-> e.id, port |-> p]}]

(***************************************************************************)
(* Queueing.  The reverse-iterator loops of addToOutgoingQueueUp/Down have *)
(* empty bodies, so rit reaches rend() and insert(rit.base(), resp) puts   *)
(* the event at the FRONT of the queue.                                    *)
(***************************************************************************)

\* Slip: the queue of the swapped (source, destination) pair.
addToOutgoingQueueUp_swapped(s, e, src, dst) ==
    IF src = dst THEN fatal(s)
    ELSE [s EXCEPT !.outQ[<<src, dst>>] = <<e>> \o @]

\* addToOutgoingQueueUp: no queue exists from a port to itself ("Invalid Port").
addToOutgoingQueueUp(s, e, src, dst) ==
    IF src = dst THEN fatal(s)
    ELSE [s EXCEPT !.outQ[<<dst, src>>] = <<e>> \o @]

\* addToOutgoingQueueDown: only the three CPU-side ports have a down queue.
addToOutgoingQueueDown(s, e, src) ==
    IF src = OUTPORT THEN fatal(s)
    ELSE [s EXCEPT !.outQ[<<OUTPORT, src>>] = <<e>> \o @]

\* Slip: the addrPortMap_ entry is not erased.
routeResponse_keep(s, e, src) ==
    LET hit == {m \in s.addrPortMap : m.addr = e.addr /\ m.id = e.respTo}
        dh  == {m \in s.addrDestMap : m.addr = e.addr /\ m.id = e.respTo}
    IN  IF hit = {} THEN
            IF e.kind = "FetchResp" THEN addToOutgoingQueueUp(s, e, OUTPORT, "P1")
            ELSE fatal(s)
        ELSE LET m == CHOOSE x \in hit : TRUE
             IN  IF m.port # OUTPORT THEN addToOutgoingQueueUp(s, e, src, m.port)
                 ELSE IF dh = {} THEN fatal(s)
                 ELSE addToOutgoingQueueDown([s EXCEPT !.addrDestMap = @ \ dh], e, src)

\* forwardByAddress for a response: the port of the request it answers, then
\* for OUTPORT the original sender from addrDestMap_.  An unmatched FetchResp
\* goes to port 1 as if it came from OUTPORT; any other unmatched one is fatal.
routeResponse(s, e, src) ==
    LET hit == {m \in s.addrPortMap : m.addr = e.addr /\ m.id = e.respTo}
        dh  == {m \in s.addrDestMap : m.addr = e.addr /\ m.id = e.respTo}
    IN  IF hit = {} THEN
            IF e.kind = "FetchResp" THEN addToOutgoingQueueUp(s, e, OUTPORT, "P1")
            ELSE fatal(s)
        ELSE LET m  == CHOOSE x \in hit : TRUE
                 s1 == [s EXCEPT !.addrPortMap = @ \ {m}]
             IN  IF m.port # OUTPORT THEN addToOutgoingQueueUp(s1, e, src, m.port)
                 ELSE IF dh = {} THEN fatal(s1)
                 ELSE addToOutgoingQueueDown([s1 EXCEPT !.addrDestMap = @ \ dh], e, src)

\* forwardByAddress: requests by address range, responses by the maps,
\* everything else down.
forwardByAddress(s, e, src) ==
    CASE e.kind = "Req" ->
            IF Region(e.addr) = OUTPORT THEN addToOutgoingQueueDown(s, e, src)
            ELSE addToOutgoingQueueUp(s, e, src, Region(e.addr))
      [] e.kind \in {"Resp", "FetchResp"} -> routeResponse(s, e, src)
      [] OTHER -> addToOutgoingQueueDown(s, e, src)

\* handleCMD -> forwardMessage: a data request's sender is remembered under
\* (routing address, id) before forwarding (std::map insert keeps an old key).
forwardMessage(s, e, src) ==
    LET s1 == IF e.kind = "Req" /\ <<e.addr, e.id>> \notin Keys(s.addrDestMap)
              THEN [s EXCEPT !.addrDestMap = @ \cup {[addr |-> e.addr, id |-> e.id, dst |-> e.src]}]
              ELSE s
    IN  forwardByAddress(s1, e, src)

(***************************************************************************)
(* sendOutgoingEvents.  Only the front event whose id is firstEventID, the *)
(* smallest key of startTimes_, may leave; each group is drained by a      *)
(* while loop that runs until all its queues are empty.                    *)
(***************************************************************************)

\* One pass over a group's queues: send a front whose id is fid.
RECURSIVE drainPass(_, _, _, _)
drainPass(s, d, fid, qs) ==
    IF qs = <<>> THEN s
    ELSE LET k  == <<d, Head(qs)>>
             s1 == IF s.outQ[k] # <<>> /\ Head(s.outQ[k]).id = fid
                   THEN [s EXCEPT !.startTimes = @ \ {fid},
                                  !.sent[d] = Append(@, Head(s.outQ[k])),
                                  !.outQ[k] = Tail(@)]
                   ELSE s
         IN  drainPass(s1, d, fid, Tail(qs))

GroupEmpty(s, d) == \A q \in Ports \ {d} : s.outQ[<<d, q>>] = <<>>

\* while (!(all empty)) { ... }: a pass that sends nothing repeats forever.
RECURSIVE drainGroup(_, _, _)
drainGroup(s, d, fid) ==
    IF GroupEmpty(s, d) THEN s
    ELSE LET s1 == drainPass(s, d, fid, DrainOrder[d])
         IN  IF s1 = s THEN [s EXCEPT !.status = "hung"]
             ELSE drainGroup(s1, d, fid)

RECURSIVE drainGroups(_, _, _)
drainGroups(s, gs, fid) ==
    IF gs = <<>> \/ ~Running(s) THEN s
    ELSE drainGroups(drainGroup(s, Head(gs), fid), Tail(gs), fid)

\* if(startTimes_.size() >= 2) asm("ud2"): an illegal instruction.
sendOutgoingEvents(s, fid) ==
    IF Cardinality(s.startTimes) >= 2 THEN [s EXCEPT !.status = "ud2"]
    ELSE drainGroups(s, GroupOrder, fid)

\* startTimes_.begin()->first; on an empty map it reads the header node, an
\* unspecified value.
FirstIdChoices(s) == IF s.startTimes = {} THEN 0..MaxEvents ELSE {Min(s.startTimes)}

(***************************************************************************)
(* clockTick: drain the outgoing queues, then every buffered event in the *)
(* order port 1, 2, 3, down, up to maxRequestsPerCycle_ in all.  processEvent *)
(* -> handleCMD always accepts, so the event is erased from its buffer.    *)
(***************************************************************************)
BufferOrder == <<"P1", "P2", "P3", OUTPORT>>

\* processEvent -> handleCMD: dispatch on the port (all four call handleCMD)
\* and report the event accepted, which it always is.
handleCMD(s, e, src) == forwardMessage(s, e, src)
processEvent(s, e, src) == handleCMD(s, e, src)

\* Slip: accepted >= maxRequestsPerCycle_, which the default -1 always meets.
processBuffers_ge(s, ps, accepted) == s

RECURSIVE processBuffers(_, _, _)
processBuffers(s, ps, accepted) ==
    IF ps = <<>> \/ ~Running(s) THEN s
    ELSE LET p == Head(ps) IN
         IF s.inBuf[p] = <<>> \/ accepted = MaxRequestsPerCycle
         THEN processBuffers(s, Tail(ps), accepted)
         ELSE processBuffers(processEvent([s EXCEPT !.inBuf[p] = Tail(@)],
                                            Head(s.inBuf[p]), p),
                             ps, accepted + 1)

clockTick(s, fid) == processBuffers(sendOutgoingEvents(s, fid), BufferOrder, 0)

\* The clock is never turned off (turnClockOff is commented out), so it
\* ticks for as long as the simulation runs.
Tick ==
    /\ Running(St)
    /\ \E fid \in FirstIdChoices(St) : Apply(clockTick(St, fid))
    /\ UNCHANGED <<nextId, issued>>

(***************************************************************************)
(* Endpoints.  Each port's neighbour sends data requests for addresses it  *)
(* does not serve itself, answers each data request delivered to it once, *)
(* and (CPU side) sends writebacks; the directory side may send a FetchResp *)
(* the maps do not know (respTo 0).  With Serial, a neighbour sends only   *)
(* while the arbiter holds no event.                                       *)
(***************************************************************************)
\* The neighbour that owns address a: the port whose configured range holds
\* it, else the directory side.
Home(a) ==
    IF \E p \in UpPorts : PortMinAddr[p] <= a /\ a <= PortMaxAddr[p]
    THEN CHOOSE p \in UpPorts : PortMinAddr[p] <= a /\ a <= PortMaxAddr[p]
    ELSE OUTPORT

CanSend ==
    /\ Running(St)
    /\ nextId < MaxEvents
    /\ Serial => startTimes = {}

SendEvent(p, e) ==
    /\ Apply(handleEvent(St, p, e))
    /\ nextId' = nextId + 1
    /\ issued' = issued \cup {e}

NewEvent(k, a, r, p) == [id |-> nextId + 1, kind |-> k, addr |-> a, respTo |-> r, src |-> p]

SentTo(p) == {sent[p][i] : i \in DOMAIN sent[p]}

Answered(r) == \E e \in issued : e.kind = "Resp" /\ e.respTo = r.id

Request(p, a) ==
    /\ CanSend
    /\ Home(a) # p
    /\ SendEvent(p, NewEvent("Req", a, 0, p))

Respond(p) ==
    /\ CanSend
    /\ \E r \in SentTo(p) :
          /\ r.kind = "Req"
          /\ ~Answered(r)
          /\ SendEvent(p, NewEvent("Resp", r.addr, r.id, p))

Writeback(p, a) ==
    /\ CanSend
    /\ p \in UpPorts
    /\ SendEvent(p, NewEvent("Other", a, 0, p))

FetchResponse(a) ==
    /\ CanSend
    /\ SendEvent(OUTPORT, NewEvent("FetchResp", a, 0, OUTPORT))

Init ==
    /\ inBuf = [p \in Ports |-> <<>>]
    /\ startTimes = {}
    /\ addrPortMap = {}
    /\ addrDestMap = {}
    /\ outQ = [q \in QKeys |-> <<>>]
    /\ status = "running"
    /\ nextId = 0
    /\ issued = {}
    /\ sent = [p \in Ports |-> <<>>]

Next ==
    \/ Tick
    \/ \E p \in Ports, a \in Addrs : Request(p, a)
    \/ \E p \in Ports : Respond(p)
    \/ \E p \in UpPorts, a \in OtherAddrs : Writeback(p, a)
    \/ \E a \in OtherAddrs : FetchResponse(a)

\* ENABLED <<Tick>>_vars: some clock tick changes the arbiter's state.
TickPending == Running(St) /\ \E fid \in FirstIdChoices(St) : clockTick(St, fid) # St

\* WF_vars(Tick), written out: every step that changes vars but not nextId
\* is a Tick step.  The clock handler is called every cycle; the endpoints
\* may stop sending.
Fairness == []<>~TickPending \/ []<><<nextId' = nextId>>_vars

Spec == Init /\ [][Next]_vars /\ Fairness


(***************************************************************************)
(* Properties.                                                             *)
(***************************************************************************)

\* Events held by the arbiter: buffered on arrival or queued to go out.
HeldEvents ==
    UNION {{inBuf[p][i] : i \in DOMAIN inBuf[p]} : p \in Ports}
    \cup UNION {{outQ[q][i] : i \in DOMAIN outQ[q]} : q \in QKeys}

Delivered == UNION {SentTo(p) : p \in Ports}

\* Types; outgoing queue <<d, s>> only holds events that arrived on port s.
TypeOK ==
    /\ inBuf \in [Ports -> Seq(Event)]
    /\ startTimes \subseteq Ids
    /\ addrPortMap \subseteq [addr : Addrs, id : Ids, port : Ports]
    /\ addrDestMap \subseteq [addr : Addrs, id : Ids, dst : Ports]
    /\ outQ \in [QKeys -> Seq(Event)]
    /\ \A q \in QKeys : \A i \in DOMAIN outQ[q] : outQ[q][i].src = q[2]
    /\ status \in {"running", "fatal", "ud2", "hung"}
    /\ nextId \in 0..MaxEvents
    /\ issued \subseteq Event
    /\ sent \in [Ports -> Seq(Event)]

\* The simulation never stops in the arbiter: no out_->fatal (unknown
\* response, a port routed to itself, duplicate map key), no ud2 in
\* sendOutgoingEvents and no endless drain loop.
ArbiterRuns == status = "running"

\* startTimes_ holds exactly the ids of the events inside the arbiter: the ud2
\* guard and the firstEventID gate of sendOutgoingEvents both count on it
\* (recordIncomingRequest on every arrival, erase on every send).
StartTimesTrackHeld == startTimes = {e.id : e \in HeldEvents}

\* A response leaves the arbiter only on the port its request came in on
\* (addrPortMap_ filled by the link handlers, read by forwardByAddress).
ResponseReturnsToRequester ==
    \A p \in Ports : \A e \in SentTo(p) :
        e.kind = "Resp" => \E r \in issued : r.kind = "Req" /\ r.id = e.respTo /\ r.src = p

\* addrPortMap_ holds exactly the data requests whose response has not yet
\* been routed: inserted by the link handler, erased by forwardByAddress.
RoutedResponse(r) ==
    \E e \in issued : /\ e.kind = "Resp"
                      /\ e.respTo = r.id
                      /\ \A p \in Ports : \A i \in DOMAIN inBuf[p] : inBuf[p][i] # e
MapsTrackOutstanding ==
    Keys(addrPortMap) = {<<r.addr, r.id>> : r \in {x \in issued : x.kind = "Req" /\ ~RoutedResponse(x)}}

\* sendOutgoingEvents never executes its ud2 trap.
NoIllegalInstruction == status # "ud2"


\* Refinement: with the events the endpoints sent mapped to the arrivals
\* and the links' received sequences to the sends, the arbiter implements
\* ArbiterAbstract: each event leaves exactly once, on the port the
\* routing rule names (the owner of a request's address, a response's
\* requester, the directory side for a writeback), and every event leaves.
Fn == INSTANCE Functions

Abstract == INSTANCE ArbiterAbstract WITH
    arrived <- issued,
    dlv <- UNION {{<<sent[p][i], p>> : i \in DOMAIN sent[p]} : p \in Ports},
    ndlv <- Fn!FoldFunction(+, 0, [p \in Ports |-> Len(sent[p])])

ArbiterRefines == Abstract!Spec

====
