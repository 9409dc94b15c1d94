# TLA+ models of sst-elements components

This directory holds TLA+ models of the components in this repository and the
TLC configurations that check them:

- the TLB unit of the firefly memory model, in full, with an abstract
  specification it is shown to refine;
- the RoundRobinArbiter of memHierarchy, on its timed path, with an
  abstract router it is shown to refine;
- the BalarMMIO bridge between CPU cores and GPGPU-Sim;
- the DRAMSimC wrapper around DRAMSim, with an abstract memory it is shown
  to refine;
- Miranda's CustomRandomGenerator.

The remaining components are listed below with the reason they are not
modelled.

## 1. Inventory

### 1.1 Components

| Component | Source | State | Operations | Status |
|---|---|---|---|---|
| TLB unit `Tlb` | `src/src/sst/elements/firefly/memoryModel/tlbUnit.h` | the translation cache; `m_pendingWalkList` (page → waiting requests); `m_pendingWalks`; `m_blockedByTLB`; the ready queues `m_readyLoads`/`m_readyStores`; `m_blockedLoad`/`m_blockedStore`; the pending counters `m_numPendingLoads`/`m_numPendingStores`; the blocked sources | `load`, `storeCB`, `resume`, walk completion (the lambda in `walk`); internally `lookup`, `tlbMiss`, `tlbMiss2`, `walk`, `processMissComplete`, `processBlockedByTLB`, `passUpLoad`/`passUpStore` | modelled (`Tlb`) |
| Cache class (used by `Tlb`) | not in this repository | LRU set of page addresses | `isValid`, `updateAge`, `evict`, `insert` | modelled from the spec (LRU sequence) |
| Load/store units, requester, scheduler | not in this repository | accept/block/resume of each unit; `schedResume` | — | modelled from the spec as collaborators |
| RoundRobinArbiter | `memHierarchy/roundRobinArbiter.{cc,h}` | 4 input buffers (3 up ports, 1 down); 12 outgoing queues; `addrPortMap_`, `addrDestMap_`, `startTimes_` | `handleEventUpPort1..3`, `handleEventDown`, `clockTick`, `forwardByAddress`, `addToOutgoingQueueUp/Down`, `sendOutgoingEvents` | modelled except init phase and link setup (`Arbiter`) |
| Miranda CustomRandomGenerator | `miranda/generators/custom_randomgen.cc` | `issueCount`, the request queue, the option | `generate` (address rejection loop, options 1-5, fences), `isFinished` | modelled (`Miranda`) |
| BalarMMIO | `balar/balarMMIO.cc` | `cuda_ret`, `blocked_response`, `gpuCachePendingTransactions`, `numPendingCacheTransPerCore` | `handle(Write)`, `handle(Read)`, the memcpy-done callbacks, `is_SST_buffer_full`, `send_*_request_SST`, `handleGPUCache` | modelled (`Balar`) |
| Savannah | `src/sst/elements/savannah/savcomp.cc` | pending request map, arbiter queue | `tick`, event handlers | not modelled (see section 4) |
| DRAMSimC | `src/sst/elements/DRAMSimC/DRAMSimC.cpp` | `m_transQ`; DRAMSim's channel queues (from its contract) | `clock`, `readData`/`writeData` callbacks | modelled (`DRAMSimC`) |
| Portals4 runtime | `portals4/usr_lib/runtime/runtime.c` | none | environment reads | not modelled: pure I/O |
| Llyr types, SHMEM barrier | `llyr/llyrTypes.h`, `firefly/shmem/barrier.h` | — | — | not modelled: declarations only |

### 1.2 How the TLB unit interacts with its collaborators

A requester (a NIC thread's memory unit) calls `load`/`storeCB` on the TLB.
The TLB answers `true` ("blocked") when its pending counter for that lane
reaches `maxLoads`/`maxStores`. It remembers the requester in
`m_blockedLoadSrc`/`m_blockedStoreSrc`. When a request later leaves the TLB,
`passUp*` decrements the counter. If the counter was at the maximum it calls
`schedResume(0, src)`, which reaches the requester later.

Downstream, the TLB hands a translated request to the load or store unit.
When that unit answers "blocked", the lane is marked blocked. Translated
requests then wait in the ready queue until the unit calls `resume(unit)`,
which drains the queue until the unit blocks again.

A miss either joins a walk already under way for its page, starts a walk if a
walker is free, or waits in `m_blockedByTLB`. A walk evicts an entry at once.
It completes after a fixed latency by inserting the page. It then replays the
page's waiting requests and retries the blocked misses.

### 1.3 Hard behaviours

- Walk completions, downstream resumes and requester resumes are callbacks.
  They interleave with new requests in any order.
- `processBlockedByTLB` re-admits misses on the decision taken when they arrived.
- The counters are compared with `==` against the maximum.
- The blocked requester's pointer is kept across callbacks.
- See `PROJECT.json` "hazards" for each hazard at its line.

### 1.4 What makes the TLB correct

- The walker count equals the walks in flight and never exceeds `numWalkers`.
  Misses wait in `m_blockedByTLB` only while all walkers are busy.
- The pending counter equals the requests held in the TLB.
- The requester is blocked exactly while the counter is at the maximum, and
  it is always resumed.
- The TLB never hands a request to a blocked downstream unit.
- Every request eventually goes downstream.
- Requests that missed the same page keep their order.
- The cache holds at most `tlbSize` pages and never walks a cached page.

## 2. Modules

### `Tlb.tla`

This module models the TLB unit together with its collaborators.

**State.** The variables correspond to the C++ members:

| Model | Code |
|---|---|
| `cache` | `m_cache`, most recently used first |
| `pendingWalkList` | `m_pendingWalkList` |
| `pendingWalks` | `m_pendingWalks` |
| `blockedByTLB` | `m_blockedByTLB` |
| `ready[l]` | `m_readyLoads` / `m_readyStores` |
| `laneBlocked[l]` | `m_blockedLoad` / `m_blockedStore` |
| `numPending[l]` | `m_numPendingLoads` / `m_numPendingStores` |
| `blockedSrc[l]` | a non-null `m_blocked*Src` |

The remaining variables belong to the collaborators:

- `walkQ` holds the walks in flight. They complete in start order because
  every walk has the same latency, `m_tlbMissLat_ns`.
- `srcResume` counts scheduled requester resumes.
- `srcBlocked` is the requester's view of itself.
- `inflight` and `downBlocked` are the downstream units' state, and
  `downResume` their scheduled resumes.
- `forwarded` is a history of the requests handed downstream, in order.

**Actions.** Every handler is one action, including every call it makes:

| Action | Code |
|---|---|
| `Submit(l, a, pid)` | `load` / `storeCB`, covering lookup, the hit and miss paths and the blocking check |
| `WalkComplete` | the walk lambda: insert, then `processMissComplete`, which includes the replay and `processBlockedByTLB` |
| `Resume(l)` | `resume`, including the drain loop |
| `DownRetire(l)` | the downstream unit finishes a request (from the spec) |
| `SrcResume(l)` | delivery of `schedResume` to the requester (from the spec) |
| `Finished` | the terminal stutter once all requests are done |

The helper functions are operators over a state record. Loops are RECURSIVE
operators.

**Constants.**

- `Addrs` and `PageSize` (`m_pageMask`).
- `CacheSize` (`tlbSize`).
- `NumWalkers`.
- `MaxPendingLoads` and `MaxPendingStores`.
- `DownCap`: how many requests a downstream unit takes before it blocks.
- `Pids`.
- `MaxReqs`: the bound on requests issued.

`MC_Tlb.tla` instantiates the module for TLC.

### `Arbiter.tla`

This module models `memHierarchy.RoundRobinArbiter`: three CPU-side ports
(`P1`..`P3`) and the directory/NIC port (`Out`).

**State.**

| Model | Code |
|---|---|
| `inBuf[p]` | `eventBufferFromLinkUpPortK_`, `eventBufferFromLinkDown_` |
| `startTimes` | the keys of `startTimes_` |
| `addrPortMap`, `addrDestMap` | `addrPortMap_`, `addrDestMap_` |
| `outQ[<<d, s>>]` | the twelve `outgoingEventQueue...` lists, to `d` from `s` |
| `status` | whether the simulation is still running, or how it stopped: `out_->fatal`, the `ud2` trap, or an endless drain loop |

The endpoints' state is `nextId`, `issued` (what they sent) and `sent` (what
the arbiter put on each link).

**Actions.**

- `SendEvent` runs a link handler (`handleEvent`).
- `Tick` is `clockTick`:
  - first `sendOutgoingEvents`: the `ud2` guard, `firstEventID`, then the
    four drain loops in code order;
  - then every buffer, in port order, through
    `processEvent`/`handleCMD`/`forwardMessage`/`forwardByAddress` and the
    queue inserts.
- Insertion is at the front of a queue. The reverse-iterator loop has an
  empty body.
- Reading `startTimes_.begin()` on an empty map is undefined. It is
  modelled as any id.

**The endpoints.**

- A neighbour requests addresses it does not own.
- It answers each data request delivered to it, once.
- CPU ports send writebacks.
- The directory side may send a FetchResp that matches no map entry.

**Fairness.** `Tick` is weakly fair, because the clock is never turned off:
`turnClockOff` is commented out.

### `TlbAbstract.tla` and the refinement

`TlbAbstract` states what the TLB unit promises, with translation, walks and
backpressure left out:

- requests are accepted one at a time, numbered in order;
- each accepted request is handed downstream exactly once;
- no request is handed down that was not accepted;
- every accepted request is eventually handed down.

One step may hand down several requests. A walk completion replays a whole
queue, and a resume drains a ready queue.

`Tlb` defines `Abstract == INSTANCE TlbAbstract WITH` this mapping:

- `issued <- nextId`;
- `fwd <-` the set of ids in `forwarded`;
- `nfwd <- Len(forwarded)`.

`TlbRefines == Abstract!Spec` is checked as a PROPERTY of tlb_core. The count
`nfwd` makes a request forwarded twice visible, even though the set `fwd`
would hide it. The abstract liveness is stated as a leads-to, not as a
fairness condition on the abstract actions.

### `ArbiterAbstract.tla` and the refinement

`ArbiterAbstract` is a router with no buffers, queues, maps or clock. Each
event that arrives leaves exactly once, and every event that arrives
eventually leaves. The port it leaves on is set by a routing rule:

- a data request goes to the port that owns its address (`Home`);
- a response goes to the port its request came in on;
- a writeback goes to the directory side;
- a FetchResp goes to any port other than its own.

`Arbiter` maps onto it as follows:

- `arrived <- issued`;
- `dlv <-` the pairs (event, port) of the links' received sequences `sent`;
- `ndlv <-` the total length of `sent`, so a repeated send is visible.

`ArbiterRefines` replaces the earlier liveness property of arbiter_serial,
whose liveness half it contains. Checking it adds about ten seconds to the
two-minute run.

### `DRAMSimCAbstract.tla` and the refinement

`DRAMSimCAbstract` is a memory with this contract:

- requests enter it in send order;
- it answers a request only after the request entered, at most once, with
  the request's own type and address;
- every request is eventually answered, and the CPU takes the answer.

`DRAMSimC` maps onto it as follows:

- `reqs <- sent`;
- `entered <- Len(admitted)`;
- `answers <-` the responses on the channel;
- `taken <- answered`.

`m_transQ`, DRAMSim's channel queues and the done flags are hidden.
`DRAMSimCRefines` replaces two earlier properties of dramsimc_core, which it
contains: one that each response matches its request, and one that every
request is answered.

### `Balar.tla`

This module models `balarMMIO.cc`.

**State.**

| Model | Code |
|---|---|
| `cudaRet` | `cuda_ret`, the return packet of the last call handled |
| `blockedResp` | `blocked_response` |
| `pendingTrans` | `gpuCachePendingTransactions`, as a set of `<<id, core>>` |
| `numPending[g]` | `numPendingCacheTransPerCore[g]` |
| `status` | running, or stopped by an `assert` or by sending a null response |

The links are `toMMIO[c]` and `toCpu[c]`, in order. `atCache` holds the
requests the GPU caches hold. GPGPU-Sim is represented by `memcpyBusy` and
`nextReq`. The CPU cores are represented by `cpu[c]`: the program counter,
the current call, the value read back and the number of calls made.
`replied` is a history of the cache responses handed back.

**Actions.**

| Action | Code |
|---|---|
| `handleWrite(c)` | `handle(Write)`: run the call, set `cuda_ret`, and acknowledge at once or park the memcpy acknowledgement |
| `handleRead(c)` | `handle(Read)`: answer with `cuda_ret` |
| `memcpyDone` | `SST_callback_memcpy_H2D_done`/`_D2H_done`: send `blocked_response` |
| `GpuSend(g)` | GPGPU-Sim checks `is_SST_buffer_full(g)`, then calls `send_*_request_SST` |
| `handleGPUCache(id)` | match the cache response by id, erase it, decrement the count |
| `CpuCall`, `CpuReceive` | a CPU program writes a call and reads its return packet back |

A call is a record naming its core, its sequence number and whether it is a
GPU_MEMCPY. The payload bytes are left out.

### `DRAMSimC.tla`

This module models `DRAMSimC.cpp`. DRAMSim itself is not in this
repository. It is modelled by its contract:

- `addTransaction` accepts a transaction while the queue of the address's
  channel has room (`MemCap`);
- each accepted transaction finishes some time later (`DramFinish`);
- its callback runs in the next `update()`.

`clock` is the whole `clock` handler, in code order:

1. `update()` sends a `readData`/`writeData` response for each finished
   transaction;
2. the receive loop moves every waiting request into `m_transQ`
   through `convertType`;
3. the retry loop, a RECURSIVE `retry`, offers the front until refused.

The request ids are ghost state, used only by the properties. The code
knows a transaction by its type and address.

### `Miranda.tla`

This module models `CustomRandomGenerator::generate`.

- The random draw is a nondeterministic choice over the whole range.
- The `do ... while` rejection loop becomes the set `Draws` of accepted
  draws.
- `op_decide * 100` is only compared with an integer, so it is modelled by
  its integer part, 0..99.
- `pushed` is the CASE over options 1-5: the requests made at lines 102-103,
  option 3's dependency, and option 5's mixed request.
- `generate` also covers the fence and the decrement of `issueCount`. It
  models two failures: `max_address = 0` divides by zero, and a fully
  avoided range makes the loop spin.
- The factor 1024 is the constant `KB`, which is 4 in the runs.

## 3. Runs

| Run | cfg | Expect | What it shows |
|---|---|---|---|
| tlb_core | `MC_Tlb.cfg` | pass | Checks the walker pool, the pending counters and both handshakes. Every blocked requester is resumed (`RequesterResumed`) and every request reaches downstream (`NoRequestLost`). The unit refines `TlbAbstract` (`TlbRefines`). |
| tlb_miss_fifo | `MC_Tlb_fifo.cfg` | violation | A miss parked behind a miss on another page is overtaken by a later miss on its own page (`tlbUnit.h:144`, `:128`). |
| tlb_rewalk | `MC_Tlb_rewalk.cfg` | violation | A blocked miss re-admitted after its page was cached starts a second walk of that page, evicting a live entry. |
| tlb_pid | `MC_Tlb_pid.cfg` | violation | Requests of two processes are accepted. `m_curPid` is never set, so the assert at `:223` is vacuous. |
| tlb_evict | `MC_Tlb_evict.cfg` | violation | With `numWalkers > tlbSize`, walks evict from an empty cache and completions overfill it. |
| arbiter_serial | `MC_Arbiter.cfg` | pass | With one event in the arbiter at a time, nothing is fatal and responses return to their requester. `startTimes_` and `addrPortMap_` stay exact. The arbiter refines `ArbiterAbstract` (`ArbiterRefines`): every event leaves exactly once, on the port its routing rule names. |
| arbiter_ud2 | `MC_Arbiter_ud2.cfg` | violation | Two events arriving between clock edges hit `asm("ud2")` at `roundRobinArbiter.cc:718`. |
| balar_core | `MC_Balar.cfg` | pass | With one CPU core and two GPU cores, no assert fires. Every call reads back its own return packet. The pending counters match the transactions the caches hold. Every call returns, the memcpy waiting on GPGPU-Sim's done callback included (`EveryCallReturns`). |
| balar_two_cores | `MC_Balar_two.cfg` | violation | With two CPU cores, one core reads back the other's return packet: `cuda_ret` is shared (`balarMMIO.cc:262`). |
| dramsimc_core | `MC_DRAMSimC.cfg` | pass | No transaction is lost or duplicated when DRAMSim refuses the front of `m_transQ`. Admission stays in send order. The component refines `DRAMSimCAbstract` (`DRAMSimCRefines`): each request is answered once, after DRAMSim accepted it, with its own type and address, and every request is answered. |
| miranda_core | `MC_Miranda.cfg` | pass | For every option, no address falls in an avoided range. Each dependency points back to an earlier request, and the generator finishes. |
| miranda_write_share | `MC_Miranda_mix.cfg` | violation | With `write_percentage` 30, option 5 makes 70 of the 100 `op_decide` values writes (`custom_randomgen.cc:126`). |

**Bounds.**

- Pages 0 and 4 are used in every run. The core run also uses page 8.
- The core run has one TLB entry, two walkers and three pages. This reaches
  every miss path: coalescing, starting a walk, waiting for a walker, and
  retrying. Two walks are in flight at once, so a completion hands its
  walker to a blocked miss while the other walk is still running, and a
  blocked miss of the page still being walked joins that walk. Eviction of
  a live page is also reached. With one walker no two walks would ever
  overlap.
- `MaxPendingStores = 1` makes the store lane block its requester on the
  first request. `MaxPendingLoads = 2` lets the load lane hold a hit and a
  miss.
- `DownCap = 2` lets a unit take one request before it blocks, so a resume
  has to drain more than one ready entry.
- Four requests are enough for a miss to be blocked behind a walk while
  another lane is blocked downstream.
- The violation runs use the smallest bounds that reach their trace. The
  rewalk run needs three entries, because with fewer the redundant walk
  evicts the page itself.

**Arbiter bounds.**

- The addresses are 9, 10, 29 and 30. They sit at both ends of the
  inclusive port ranges 0-9, 10-19 and 20-29, plus one address behind the
  directory.
- Routing ignores the address of writebacks and of unmatched FetchResps, so
  `OtherAddrs = {30}`.
- Four events cover two request/response round trips, one from a CPU port
  and one from the directory side, which uses `addrDestMap_`.
- The serial run admits one event at a time, the only regime in which the
  code runs. The ud2 run lifts that restriction.

**Fairness.**

- Walk completions, downstream retirements and resumes are events that
  SST's scheduler delivers after a finite latency. They are weakly fair,
  written as one `SchedulerStep`.
- The requester is not fair: it may stop issuing requests.
- Deadlock is checked. Once every request has been issued and everything has
  drained, the model takes the `Finished` stutter step.

**Mutants.** Every property of tlb_core is broken by a plausible slip in the
code it is about. Each slip is an operator beside the definition it replaces:

- a pre-decrement compare in `passUp`;
- `<=` in the walker check;
- a missing count on the blocked-hit path;
- blocking one request late;
- `resume` passing up only one entry;
- `resume` never draining;
- no retry of the blocked misses.

**Balar, DRAMSimC and Miranda bounds.**

- balar_core has one CPU core making three calls, memcpy or not. That is
  enough for a memcpy acknowledgement to be parked while a later call is
  handled. It has two GPU cores with room for two transactions each, and
  four cache requests, so each buffer fills and drains.
- balar_two_cores needs only two cores with one call each.
- dramsimc_core has two addresses on two channels with one slot each, and
  four requests. A refused front then has an acceptable transaction behind
  it, which is the case the in-order retry loop is about.
- miranda_core runs all five options, three calls each, with fences.
  `KB = 4` and `max_address = 3`, with `[1, 2)` avoided: the avoided range
  cuts the 12 draws in the middle.

**Fairness of the new modules.** These modules state `WF_vars` directly,
because their actions are cheap to evaluate.

- Balar: the MMIO handlers, `handleGPUCache` and the memcpy completion are
  weakly fair. SST delivers each event on a link, and GPGPU-Sim finishes a
  started copy. The CPU core taking its response is also weakly fair. The
  CPU is not obliged to make calls, and GPGPU-Sim is not obliged to send
  cache requests.
- DRAMSimC: `clock` is weakly fair, because it returns false, so SST keeps
  calling it. Each `DramFinish(i)` is weakly fair, because DRAMSim finishes
  every transaction it accepted. The CPU taking a response is weakly fair.
  Sending requests is not fair.
- Miranda: `generate` is weakly fair, because the Miranda CPU calls it
  while `isFinished()` is false.

**Mutants of the new modules.** Each slip sits beside the definition it
replaces.

- Balar:
  - `>` instead of `==` in `is_SST_buffer_full`;
  - a request id that is not unique;
  - a response that is not erased;
  - `cuda_ret` not set;
  - the memcpy acknowledgement never sent.
- DRAMSimC:
  - `writeData` copied from `readData`;
  - a missing `convertType`;
  - `pop_front` run on a refusal;
  - a refused front skipped.
- Miranda:
  - the range test written with `\/`;
  - the range compared in bytes;
  - option 3's write pushed before its read;
  - `generate` without its `isFinished` guard.
- Arbiter: the refinement is broken by an outgoing queue chosen with source
  and destination swapped, and by `clockTick` leaving its buffers
  unprocessed.
- Tlb: the refinement is broken by `replay` parking an entry and still
  passing it up, which forwards it twice.

**Run limit.** The project keeps at most twelve runs. Hazards that would
need a further violation run carry a note in `PROJECT.json` instead.

## 4. Not modelled

- **The Cache class and the downstream units.** Their code is not in this
  repository. They are modelled from the spec.
- **Latencies.** Only the completion order of walks, which is FIFO, matters
  to the properties. Only the completion order matters for DRAMSim too.
- **Request payloads.** The callback is identified by a request id, and
  addresses by their page. Balar calls are records, not packets.
- **Requester identity.** `src` identity is reduced to one requester per
  lane.
- **One unit serving both lanes.** `resume` would then run both branches
  (`tlbUnit.h:43`). The spec (section 6) and the code allow one unit for
  both lanes; the model gives each lane its own unit, so this case is left
  out.
- **Savannah.** `tick` tests its polled event the wrong way round. It drops
  every real event and dereferences a null one, so no response path is
  reachable in a passing run. `processBackendResponse` never erases its
  map entries. A model would show only that first failure, and the run
  limit leaves no slot for it. Both are listed in one hazard.
- **GPGPU-Sim and DRAMSim internals.** They are not in this repository, and
  are modelled only through the contracts the wrappers rely on.
- **The arbiter's `init()`** (`roundRobinArbiter.cc:438`). Its loops
  forward every non-NULLCMD untimed event from a CPU-side port down, with
  the source renamed. They delete everything that comes from the directory
  side. A property of it would only restate the loops.
  - The slip `init3 = 0` (line 513, where `init3 = 1` is meant) changes
    only in which phase the dropped directory events are deleted.
  - Folding the init phases into the `Arbiter` run would multiply a state
    space that already takes two minutes to check.
- **Portals4 runtime, Llyr types, SHMEM barrier.** These are pure I/O or
  declarations only.

## 5. Plan

1. Savannah's `tick` and `processBackendResponse`, once a run slot is free.
2. `Arbiter`:
   - the `init()` untimed forwarding (see section 4);
   - a run with `max_requests_per_cycle` set.
3. Further `Tlb` runs:
   - bypass mode (`tlbSize = 0`);
   - a zero maximum;
   - filler entries that collide with a page address.
4. An abstract specification for Balar (an RPC channel per core). It would
   hold only for one CPU core, because of the shared `cuda_ret`.
