-------------------------------- MODULE Tlb --------------------------------
(***************************************************************************)
(* The firefly SimpleMemoryModel TLB unit (firefly/memoryModel/tlbUnit.h, *)
(* class Tlb) together with the three collaborators it talks to:          *)
(*   - the requester that calls load()/storeCB() and is told "blocked";   *)
(*   - the downstream load and store units it forwards requests to;       *)
(*   - the event scheduler that fires walk completions and resumes.       *)
(*                                                                         *)
(* The unit is single-threaded and event driven: every action below is   *)
(* one handler run to completion (a call into the unit or a scheduled     *)
(* callback).  The loops inside a handler (replaying a walk's queue,      *)
(* draining a ready queue, re-admitting blocked misses) are folded into   *)
(* the handler's action, in the order the code runs them.                 *)
(*                                                                         *)
(* To write the loops as operators, the handlers work on a record St      *)
(* holding every variable; Apply(t) makes t the next state.               *)
(***************************************************************************)
EXTENDS Integers, SequencesExt, Functions

CONSTANTS
    Addrs,            \* virtual addresses requests may carry
    PageSize,         \* pageSize (a power of two)
    CacheSize,        \* tlbSize: number of TLB entries, 0 = TLB disabled
    NumWalkers,       \* numWalkers: concurrent page walks
    MaxPendingLoads,  \* maxLoads
    MaxPendingStores, \* maxStores
    DownCap,          \* requests a downstream unit takes before it blocks
    Pids,             \* process ids requests may carry
    MaxReqs           \* bound on the number of requests the requester issues

ASSUME /\ PageSize \in Nat \ {0}
       /\ CacheSize \in Nat /\ NumWalkers \in Nat \ {0}
       /\ MaxPendingLoads \in Nat \ {0} /\ MaxPendingStores \in Nat \ {0}
       /\ DownCap \in Nat \ {0} /\ MaxReqs \in Nat

Lanes == {"Load", "Store"}
MaxPending == [l \in Lanes |-> IF l = "Load" THEN MaxPendingLoads ELSE MaxPendingStores]

VARIABLES
    \* --- Tlb members ---
    cache,            \* m_cache, most recently used first
    pendingWalkList,  \* m_pendingWalkList: page -> queue of waiting entries
    pendingWalks,     \* m_pendingWalks
    blockedByTLB,     \* m_blockedByTLB: misses refused for lack of a walker
    ready,            \* m_readyLoads / m_readyStores
    laneBlocked,      \* m_loadBlocked / m_storeBlocked
    numPending,       \* m_numPendingLoads / m_numPendingStores
    blockedSrc,       \* m_blockedLoadSrc / m_blockedStoreSrc # NULL
    \* --- scheduler ---
    walkQ,            \* walk completions scheduled, in firing order
    srcResume,        \* schedResume(0, src) calls not yet delivered, per lane
    downResume,       \* resume(m_load / m_store) scheduled by a downstream unit
    \* --- requester ---
    srcBlocked,       \* the requester was told "blocked" and awaits resume
    nextId,           \* requests issued so far
    \* --- downstream units ---
    inflight,         \* requests held by the downstream unit of each lane
    downBlocked,      \* the downstream unit told the Tlb "blocked"
    forwarded         \* history: requests handed downstream, in order

vars == <<cache, pendingWalkList, pendingWalks, blockedByTLB, ready, laneBlocked,
          numPending, blockedSrc, walkQ, srcResume, downResume, srcBlocked,
          nextId, inflight, downBlocked, forwarded>>

Req == [id : 1..MaxReqs, lane : Lanes, addr : Addrs, pid : Pids, missed : BOOLEAN]

St == [cache |-> cache, pendingWalkList |-> pendingWalkList,
       pendingWalks |-> pendingWalks, blockedByTLB |-> blockedByTLB,
       ready |-> ready, laneBlocked |-> laneBlocked, numPending |-> numPending,
       blockedSrc |-> blockedSrc, walkQ |-> walkQ, srcResume |-> srcResume,
       downResume |-> downResume, srcBlocked |-> srcBlocked, nextId |-> nextId,
       inflight |-> inflight, downBlocked |-> downBlocked, forwarded |-> forwarded]

Apply(t) ==
    /\ cache' = t.cache /\ pendingWalkList' = t.pendingWalkList
    /\ pendingWalks' = t.pendingWalks /\ blockedByTLB' = t.blockedByTLB
    /\ ready' = t.ready /\ laneBlocked' = t.laneBlocked
    /\ numPending' = t.numPending /\ blockedSrc' = t.blockedSrc
    /\ walkQ' = t.walkQ /\ srcResume' = t.srcResume /\ downResume' = t.downResume
    /\ srcBlocked' = t.srcBlocked /\ nextId' = t.nextId
    /\ inflight' = t.inflight /\ downBlocked' = t.downBlocked
    /\ forwarded' = t.forwarded

-----------------------------------------------------------------------------
(* Address translation and the TLB cache.                                 *)

\* Tlb::getPageAddr: addr & ~(pageSize - 1)
getPageAddr(a) == a - (a % PageSize)

\* m_curPid is initialised to -1 and never assigned.
curPid == -1

\* The constructor fills the cache with 1..size so it starts full.
InitCache == [i \in 1..CacheSize |-> i]

\* Cache::updateAge (LRU): the page becomes the most recently used.
updateAge(c, p) == Cons(p, Remove(c, p))

\* Cache::evict drops the least recently used entry.
evict(c) == Front(c)

\* Cache::insert adds the page as the most recently used.
insert(c, p) == Cons(p, c)

-----------------------------------------------------------------------------
(* The downstream units and the requester's view of backpressure.         *)

\* m_load->load / m_store->storeCB: the unit takes the request and answers
\* whether it is now full; the Tlb stores the answer in the lane's flag.
DownAccept(s, r) ==
    LET l == r.lane
        full == s.inflight[l] + 1 = DownCap
    IN [s EXCEPT !.inflight[l] = @ + 1, !.downBlocked[l] = full,
                 !.laneBlocked[l] = full, !.forwarded = Append(@, r)]

\* Slip: pre-decrement compare (--m_numPendingLoads == max).
passUp_predec(s, r) ==
    LET l == r.lane
        t == DownAccept(s, r)
    IN IF s.numPending[l] - 1 = MaxPending[l]
       THEN [t EXCEPT !.numPending[l] = @ - 1, !.blockedSrc[l] = FALSE,
                      !.srcResume[l] = @ + 1]
       ELSE [t EXCEPT !.numPending[l] = @ - 1]

\* Tlb::passUpLoad / passUpStore: forward, then release the requester
\* when the pending count leaves its maximum (post-decrement compare).
passUp(s, r) ==
    LET l == r.lane
        t == DownAccept(s, r)
    IN IF s.numPending[l] = MaxPending[l]
       THEN [t EXCEPT !.numPending[l] = @ - 1, !.blockedSrc[l] = FALSE,
                      !.srcResume[l] = @ + 1]
       ELSE [t EXCEPT !.numPending[l] = @ - 1]

-----------------------------------------------------------------------------
(* Misses and walks.                                                      *)

\* Slip: m_pendingWalks <= m_numWalkers.
tlbMiss2Fails_le(s, r) ==
    /\ getPageAddr(r.addr) \notin DOMAIN s.pendingWalkList
    /\ ~(s.pendingWalks <= NumWalkers)

\* the else-branch of tlbMiss2: no walk for the page and no free walker
tlbMiss2Fails(s, r) ==
    /\ getPageAddr(r.addr) \notin DOMAIN s.pendingWalkList
    /\ ~(s.pendingWalks < NumWalkers)

\* Tlb::walk: evict a TLB entry now, and schedule the insert of p and
\* processMissComplete(p) after tlbMissLat_ns.
walk(s, p) == [s EXCEPT !.cache = evict(@), !.walkQ = Append(@, p)]

\* Tlb::tlbMiss2 when it succeeds: join the page's walk, or start one.
tlbMiss2(s, r) ==
    LET p == getPageAddr(r.addr) IN
    IF p \in DOMAIN s.pendingWalkList
    THEN [s EXCEPT !.pendingWalkList[p] = Append(@, r)]
    ELSE [walk(s, p) EXCEPT !.pendingWalkList = @ @@ (p :> <<r>>),
                            !.pendingWalks = @ + 1]

\* Tlb::tlbMiss
tlbMiss(s, r) ==
    IF tlbMiss2Fails(s, r)
    THEN [s EXCEPT !.blockedByTLB = Append(@, r)]
    ELSE tlbMiss2(s, r)

\* Tlb::processBlockedByTLB: admit blocked misses in order until one fails.
RECURSIVE processBlockedByTLB(_)
processBlockedByTLB(s) ==
    IF s.blockedByTLB = <<>> \/ tlbMiss2Fails(s, Head(s.blockedByTLB))
    THEN s
    ELSE processBlockedByTLB(
           [tlbMiss2(s, Head(s.blockedByTLB)) EXCEPT !.blockedByTLB = Tail(@)])

\* Slip: the blocked branch parks the entry and falls through to passUp.
replay_noelse(s, r) ==
    LET t == IF s.laneBlocked[r.lane]
             THEN [s EXCEPT !.ready[r.lane] = Append(@, r)] ELSE s
    IN passUp(t, r)

\* one iteration of processMissComplete's loop: park or pass up the entry
replay(s, r) ==
    IF s.laneBlocked[r.lane]
    THEN [s EXCEPT !.ready[r.lane] = Append(@, r)]
    ELSE passUp(s, r)

\* the while loop of processMissComplete over the page's queue q, in order
RECURSIVE replayAll(_, _)
replayAll(s, q) == IF q = <<>> THEN s ELSE replayAll(replay(s, Head(q)), Tail(q))

\* Slip: processMissComplete without the final processBlockedByTLB().
processMissComplete_noretry(s, p) ==
    LET s1 == replayAll([s EXCEPT !.pendingWalks = @ - 1], s.pendingWalkList[p])
    IN [s1 EXCEPT !.pendingWalkList = Restrict(@, DOMAIN @ \ {p})]

\* Tlb::processMissComplete for page p (after the lambda's cache insert)
processMissComplete(s, p) ==
    LET s1 == replayAll([s EXCEPT !.pendingWalks = @ - 1], s.pendingWalkList[p])
        s2 == [s1 EXCEPT !.pendingWalkList =
                           Restrict(@, DOMAIN @ \ {p})]
    IN processBlockedByTLB(s2)

-----------------------------------------------------------------------------
(* Calls into the unit.                                                   *)

\* Tlb::lookup: a disabled TLB (size 0) always hits
lookup(s, p) == CacheSize = 0 \/ p \in ToSet(s.cache)

\* Slip: the hit path parks the entry without ++m_numPendingX.
accept_nocount(s, r) ==
    LET l == r.lane IN
    IF ~r.missed
    THEN IF s.laneBlocked[l]
         THEN [s EXCEPT !.ready[l] = Append(@, r)]
         ELSE DownAccept(s, r)
    ELSE [tlbMiss(s, r) EXCEPT !.numPending[l] = @ + 1]

\* Tlb::load / Tlb::storeCB after the lookup: the hit and the miss path
accept(s, r) ==
    LET l == r.lane IN
    IF ~r.missed
    THEN IF s.laneBlocked[l]
         THEN [s EXCEPT !.ready[l] = Append(@, r), !.numPending[l] = @ + 1]
         ELSE DownAccept(s, r)
    ELSE [tlbMiss(s, r) EXCEPT !.numPending[l] = @ + 1]

\* Slip: the caller is blocked one request too late.
blocksSource_late(s, l) == s.numPending[l] = MaxPending[l] + 1

\* the value load / storeCB return: TRUE tells the caller it is blocked
blocksSource(s, l) == s.numPending[l] = MaxPending[l]

\* The requester issues a load or store of address a for process pid.
Submit(l, a, pid) ==
    /\ ~srcBlocked[l]
    /\ nextId < MaxReqs
    /\ curPid = -1 \/ pid = curPid     \* the assertion in lookup
    /\ LET p   == getPageAddr(a)
           hit == lookup(St, p)
           r   == [id |-> nextId + 1, lane |-> l, addr |-> a, pid |-> pid,
                   missed |-> ~hit]
           s0  == [St EXCEPT !.nextId = @ + 1,
                   !.cache = IF CacheSize # 0 /\ hit THEN updateAge(@, p) ELSE @]
           s1  == accept(s0, r)
       IN Apply([s1 EXCEPT !.blockedSrc[l] = @ \/ blocksSource(s1, l),
                           !.srcBlocked[l] = blocksSource(s1, l)])

-----------------------------------------------------------------------------
(* Scheduled callbacks.                                                   *)

\* The lambda scheduled by Tlb::walk fires: all walks take tlbMissLat_ns,
\* so they complete in the order they started.
WalkComplete ==
    /\ walkQ # <<>>
    /\ LET p == Head(walkQ)
       IN Apply(processMissComplete(
                  [St EXCEPT !.walkQ = Tail(@), !.cache = insert(@, p)], p))

\* the while loop of Tlb::resume: pass up ready entries until blocked again
RECURSIVE drainReady(_, _)
drainReady(s, l) ==
    IF s.laneBlocked[l] \/ s.ready[l] = <<>>
    THEN s
    ELSE drainReady([passUp(s, Head(s.ready[l])) EXCEPT !.ready[l] = Tail(@)], l)

\* Slip: `if` instead of `while`: resume passes up one ready entry.
resume_once(s, l) ==
    LET t == [s EXCEPT !.laneBlocked[l] = FALSE] IN
    IF t.ready[l] = <<>> THEN t
    ELSE [passUp(t, Head(t.ready[l])) EXCEPT !.ready[l] = Tail(@)]

\* Slip: resume clears the flag but never drains the ready queue.
resume_nodrain(s, l) == [s EXCEPT !.laneBlocked[l] = FALSE]

\* Tlb::resume(unit) for the lane of that unit
resume(s, l) == drainReady([s EXCEPT !.laneBlocked[l] = FALSE], l)

\* A downstream unit's resume of the Tlb is delivered.
Resume(l) ==
    /\ downResume[l]
    /\ Apply(resume([St EXCEPT !.downResume[l] = FALSE], l))

\* A downstream unit retires a request; if it had blocked the Tlb it
\* schedules the Tlb's resume.
DownRetire(l) ==
    /\ inflight[l] > 0
    /\ inflight' = [inflight EXCEPT ![l] = @ - 1]
    /\ downBlocked' = [downBlocked EXCEPT ![l] = FALSE]
    /\ downResume' = [downResume EXCEPT ![l] = @ \/ downBlocked[l]]
    /\ UNCHANGED <<cache, pendingWalkList, pendingWalks, blockedByTLB, ready,
                   laneBlocked, numPending, blockedSrc, walkQ, srcResume,
                   srcBlocked, nextId, forwarded>>

\* The resume the Tlb scheduled with schedResume(0, src) reaches the requester.
SrcResume(l) ==
    /\ srcResume[l] > 0
    /\ srcResume' = [srcResume EXCEPT ![l] = @ - 1]
    /\ srcBlocked' = [srcBlocked EXCEPT ![l] = FALSE]
    /\ UNCHANGED <<cache, pendingWalkList, pendingWalks, blockedByTLB, ready,
                   laneBlocked, numPending, blockedSrc, walkQ, downResume,
                   nextId, inflight, downBlocked, forwarded>>

\* The requester has issued all its requests and every one has drained:
\* the simulation ends here.
Finished ==
    /\ nextId = MaxReqs
    /\ walkQ = <<>> /\ blockedByTLB = <<>>
    /\ \A l \in Lanes : /\ ready[l] = <<>> /\ inflight[l] = 0
                        /\ srcResume[l] = 0 /\ ~downResume[l]
    /\ UNCHANGED vars

-----------------------------------------------------------------------------

Init ==
    /\ cache = InitCache
    /\ pendingWalkList = [p \in {} |-> <<>>]
    /\ pendingWalks = 0
    /\ blockedByTLB = <<>>
    /\ ready = [l \in Lanes |-> <<>>]
    /\ laneBlocked = [l \in Lanes |-> FALSE]
    /\ numPending = [l \in Lanes |-> 0]
    /\ blockedSrc = [l \in Lanes |-> FALSE]
    /\ walkQ = <<>>
    /\ srcResume = [l \in Lanes |-> 0]
    /\ downResume = [l \in Lanes |-> FALSE]
    /\ srcBlocked = [l \in Lanes |-> FALSE]
    /\ nextId = 0
    /\ inflight = [l \in Lanes |-> 0]
    /\ downBlocked = [l \in Lanes |-> FALSE]
    /\ forwarded = <<>>

Next ==
    \/ \E l \in Lanes, a \in Addrs, pid \in Pids : Submit(l, a, pid)
    \/ WalkComplete
    \/ \E l \in Lanes : Resume(l) \/ DownRetire(l) \/ SrcResume(l)
    \/ Finished

\* Every scheduled callback is eventually fired and the downstream units
\* retire what they hold; the requester is under no obligation to issue.
\* Each such step shrinks a finite backlog, so weak fairness of their
\* disjunction already makes every one of them happen.
SchedulerStep ==
    \/ WalkComplete
    \/ \E l \in Lanes : Resume(l) \/ DownRetire(l) \/ SrcResume(l)

\* ENABLED <<SchedulerStep>>_vars, read off the guards of its disjuncts
\* (each of them changes the variable its guard tests).
SchedulerPending ==
    \/ walkQ # <<>>
    \/ \E l \in Lanes : downResume[l] \/ inflight[l] > 0 \/ srcResume[l] > 0

\* WF_vars(SchedulerStep), written out: of the steps of Next, the
\* non-stuttering ones that issue no request (leave nextId alone) are
\* exactly the SchedulerStep steps.  Stated this way TLC need not
\* re-evaluate the handlers' recursive operators on every edge.
Fairness ==
    []<>~SchedulerPending \/ []<><<nextId' = nextId>>_vars

Spec == Init /\ [][Next]_vars /\ Fairness

-----------------------------------------------------------------------------
(* Properties.                                                            *)

\* every entry the Tlb holds: waiting for a walker, for a walk, or for the
\* downstream unit to resume
Queued ==
    ToSet(blockedByTLB)
      \cup UNION {ToSet(ready[l]) : l \in Lanes}
      \cup UNION {ToSet(pendingWalkList[p]) : p \in DOMAIN pendingWalkList}

TypeOK ==
    /\ cache \in Seq(Nat)
    /\ DOMAIN pendingWalkList \subseteq {getPageAddr(a) : a \in Addrs}
    /\ \A p \in DOMAIN pendingWalkList : pendingWalkList[p] \in Seq(Req)
    /\ pendingWalks \in 0..NumWalkers
    /\ blockedByTLB \in Seq(Req)
    /\ ready \in [Lanes -> Seq(Req)]
    /\ laneBlocked \in [Lanes -> BOOLEAN]
    /\ \A l \in Lanes : numPending[l] \in 0..MaxPending[l]
    /\ blockedSrc \in [Lanes -> BOOLEAN]
    /\ walkQ \in Seq(Nat)
    /\ srcResume \in [Lanes -> Nat]
    /\ downResume \in [Lanes -> BOOLEAN]
    /\ srcBlocked \in [Lanes -> BOOLEAN]
    /\ nextId \in 0..MaxReqs
    /\ inflight \in [Lanes -> Nat]
    /\ downBlocked \in [Lanes -> BOOLEAN]
    /\ forwarded \in Seq(Req)

\* Walker pool (tlbMiss2, processMissComplete, processBlockedByTLB): every
\* scheduled walk has exactly one pending-walk record with a non-empty
\* queue, m_pendingWalks counts them and never exceeds numWalkers, and a
\* miss waits in m_blockedByTLB only while every walker is busy (otherwise
\* it would wait for a completion that may never come).
WalkerAccounting ==
    /\ pendingWalks = Len(walkQ)
    /\ ToSet(walkQ) = DOMAIN pendingWalkList
    /\ Cardinality(DOMAIN pendingWalkList) = Len(walkQ)
    /\ pendingWalks <= NumWalkers
    /\ \A p \in DOMAIN pendingWalkList : pendingWalkList[p] # <<>>
    /\ blockedByTLB # <<>> => pendingWalks = NumWalkers

\* Pending counters (load/storeCB increment, passUp decrements): the
\* count of a lane is exactly the number of that lane's entries the Tlb
\* still holds, across the ready queue, the walk queues and the
\* blocked-by-TLB list.
PendingAccounting ==
    \A l \in Lanes : numPending[l] = Cardinality({r \in Queued : r.lane = l})

\* Upstream backpressure (load/storeCB return value, passUp's schedResume):
\* the requester is blocked exactly while m_blockedXSrc is set or a resume
\* is on its way, m_blockedXSrc is set exactly while the lane's count is at
\* its maximum, and at most one block/resume notification is outstanding.
UpstreamHandshake ==
    \A l \in Lanes :
        /\ blockedSrc[l] <=> numPending[l] = MaxPending[l]
        /\ srcBlocked[l] <=> (blockedSrc[l] \/ srcResume[l] > 0)
        /\ srcResume[l] + (IF blockedSrc[l] THEN 1 ELSE 0) <= 1

\* Downstream backpressure (m_loadBlocked/m_storeBlocked, resume): the Tlb
\* never sends to a unit that said it is full, it believes a lane blocked
\* exactly while the unit is full or its resume is in flight (so the
\* assert in resume holds), and an entry waits in a ready queue only while
\* its lane is blocked, so a resume always has work to drain.
DownstreamHandshake ==
    \A l \in Lanes :
        /\ inflight[l] <= DownCap
        /\ downBlocked[l] => inflight[l] = DownCap
        /\ laneBlocked[l] <=> (downBlocked[l] \/ downResume[l])
        /\ ~(downBlocked[l] /\ downResume[l])
        /\ ready[l] # <<>> => laneBlocked[l]

\* A requester told "blocked" by load/storeCB is eventually resumed.
RequesterResumed ==
    \A l \in Lanes : srcBlocked[l] ~> ~srcBlocked[l]

\* No request is lost: every request the requester issued is eventually
\* handed to the downstream unit of its lane (spec section 4.2).
NoRequestLost ==
    \A i \in 1..MaxReqs :
        nextId >= i ~> \E k \in 1..Len(forwarded) : forwarded[k].id = i

\* Spec 4.2: requests of one lane that missed on the same page are
\* replayed to the downstream unit in the order they arrived.
MissReplayFifo ==
    \A i, j \in 1..Len(forwarded) :
        LET a == forwarded[i]  b == forwarded[j] IN
        (/\ i < j /\ a.lane = b.lane /\ a.missed /\ b.missed
         /\ getPageAddr(a.addr) = getPageAddr(b.addr)) => a.id < b.id

\* tlbMiss2 starts a page walk only for a page the TLB does not hold:
\* no walk is ever in flight for a cached page.
NoWalkForCachedPage ==
    \A p \in DOMAIN pendingWalkList : p \notin ToSet(cache)

\* Spec 4.1: all live requests belong to one address space (the lookup
\* assertion on m_curPid).
SingleAddressSpace ==
    \A r1, r2 \in Queued : r1.pid = r2.pid

\* Spec 3: the TLB never holds more than tlbSize translations.
CacheWithinCapacity ==
    Len(cache) <= CacheSize

\* Refinement: with the requests it has issued and the sequence it has
\* forwarded mapped to TlbAbstract's accepted count and hand-downs, the
\* Tlb implements TlbAbstract: no handler forwards a request twice or one
\* never issued, and every issued request is eventually forwarded.
Abstract == INSTANCE TlbAbstract WITH
    issued <- nextId,
    fwd <- {forwarded[k].id : k \in 1..Len(forwarded)},
    nfwd <- Len(forwarded)

TlbRefines == Abstract!Spec
====
