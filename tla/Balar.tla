------------------------------- MODULE Balar -------------------------------
(***************************************************************************)
(* BalarMMIO (balar/balarMMIO.cc): the memory-mapped bridge between CPU    *)
(* cores and the GPGPU-Sim GPU model.                                      *)
(*                                                                         *)
(* CPU side.  A CPU core makes a CUDA call by writing a call packet to    *)
(* the MMIO region and then reading the call's return packet back.        *)
(* mmioHandlers::handle(Write) runs the call, stores its return value in   *)
(* the single member cuda_ret, and acknowledges a non-posted write at      *)
(* once, except a GPU_MEMCPY, whose acknowledgement is parked in the       *)
(* single member blocked_response until GPGPU-Sim reports the copy done    *)
(* (SST_callback_memcpy_H2D_done / _D2H_done).  handle(Read) answers with  *)
(* whatever cuda_ret holds.                                                *)
(*                                                                         *)
(* GPU side.  On each clockTic GPGPU-Sim may ask to send a read or write   *)
(* to the GPU cache of core g, after checking is_SST_buffer_full(g); the   *)
(* request is recorded in gpuCachePendingTransactions and counted in       *)
(* numPendingCacheTransPerCore[g]; handleGPUCache matches the cache's      *)
(* response by id, uncounts it and hands it back to GPGPU-Sim.             *)
(*                                                                         *)
(* Data are abstracted: a CUDA call is a record naming the core, its       *)
(* sequence number and whether it is a GPU_MEMCPY ("memcpy") or one of the *)
(* non-blocking calls ("other"); a return packet is the call it answers.   *)
(***************************************************************************)
EXTENDS Integers, Sequences, FiniteSets

CONSTANTS
    CpuCores,             \* CPU cores issuing CUDA calls through the MMIO region
    GpuCores,             \* 0..gpu_core_count-1
    MaxCalls,             \* bound on the CUDA calls each CPU core makes
    MaxPendingCacheTrans, \* maxcachetrans
    MaxCacheReqs,         \* bound on the GPU cache requests GPGPU-Sim makes
    Posted                \* whether a CPU core may post (not await) its call write

ASSUME /\ MaxCalls \in Nat /\ MaxPendingCacheTrans \in Nat
       /\ MaxCacheReqs \in Nat /\ Posted \in BOOLEAN

Kinds == {"memcpy", "other"}
Call == [core : CpuCores, seq : 1..MaxCalls, kind : Kinds]
NoCall == [core |-> "none"]
\* A response carries the request it answers (makeResponse keeps its id).
Resp == [to : CpuCores, type : {"WriteResp", "ReadResp"}, call : Call \cup {NoCall}]
NoResp == [to |-> "none"]
Req == [type : {"Write"}, call : Call, posted : BOOLEAN] \cup [type : {"Read"}]
ReqIds == 0..MaxCacheReqs - 1

VARIABLES
    \* --- BalarMMIO members ---
    cudaRet,       \* cuda_ret: return packet of the last call handled
    blockedResp,   \* blocked_response
    pendingTrans,  \* gpuCachePendingTransactions: id -> core, as a set of pairs
    numPending,    \* numPendingCacheTransPerCore
    status,        \* "running", or how the component stopped
    \* --- links ---
    toMMIO,        \* toMMIO[c]: requests of CPU core c not yet handled, in order
    toCpu,         \* toCpu[c]: responses sent to CPU core c not yet taken, in order
    atCache,       \* ids of requests the GPU caches hold
    \* --- GPGPU-Sim ---
    memcpyBusy,    \* copies started by cudaMemcpy and not yet reported done
    nextReq,       \* cache requests made so far (request ids)
    replied,       \* history: ids handed back by SST_receive_mem_reply
    \* --- CPU cores ---
    cpu            \* cpu[c] = [pc, n, call, ret] of the calling program

vars == <<cudaRet, blockedResp, pendingTrans, numPending, status, toMMIO,
          toCpu, atCache, memcpyBusy, nextReq, replied, cpu>>

Running == status = "running"

-----------------------------------------------------------------------------
(* The GPU cache path *)

\* Mutant: the fullness test written with > instead of ==.
is_SST_buffer_full_gt(g) == numPending[g] > MaxPendingCacheTrans

is_SST_buffer_full(g) == numPending[g] = MaxPendingCacheTrans

\* send_read_request_SST and send_write_request_SST differ only in the
\* request they build; both assert the buffer has room, record and count
\* the request and send it to the core's cache link.
\* Mutant: the request recorded under the id of the next request.
send_request_SST_nextid(g) ==
    IF ~(numPending[g] < MaxPendingCacheTrans)
    THEN /\ status' = "assert"
         /\ UNCHANGED <<pendingTrans, numPending, atCache>>
    ELSE /\ pendingTrans' = pendingTrans \cup {<<nextReq + 1, g>>}
         /\ numPending' = [numPending EXCEPT ![g] = @ + 1]
         /\ atCache' = atCache \cup {nextReq}
         /\ UNCHANGED status

send_request_SST(g) ==
    IF ~(numPending[g] < MaxPendingCacheTrans)
    THEN /\ status' = "assert"
         /\ UNCHANGED <<pendingTrans, numPending, atCache>>
    ELSE /\ pendingTrans' = pendingTrans \cup {<<nextReq, g>>}
         /\ numPending' = [numPending EXCEPT ![g] = @ + 1]
         /\ atCache' = atCache \cup {nextReq}
         /\ UNCHANGED status

\* One clockTic of GPGPU-Sim (SST_gpu_core_cycle) in which core g issues a
\* cache read or write, having found is_SST_buffer_full(g) false.
GpuSend(g) ==
    /\ Running
    /\ ~is_SST_buffer_full(g)
    /\ nextReq < MaxCacheReqs
    /\ send_request_SST(g)
    /\ nextReq' = nextReq + 1
    /\ UNCHANGED <<cudaRet, blockedResp, toMMIO, toCpu, memcpyBusy, replied, cpu>>

\* handleGPUCache: the cache answers request id.
\* Mutant: the matched entry is not erased from the pending table.
handleGPUCache_noerase(id) ==
    /\ Running
    /\ id \in atCache
    /\ atCache' = atCache \ {id}
    /\ IF \E g \in GpuCores : <<id, g>> \in pendingTrans
       THEN LET g == CHOOSE x \in GpuCores : <<id, x>> \in pendingTrans IN
            /\ numPending' = [numPending EXCEPT ![g] = @ - 1]
            /\ replied' = replied \cup {id}
            /\ UNCHANGED <<pendingTrans, status>>
       ELSE /\ status' = "assert"
            /\ UNCHANGED <<pendingTrans, numPending, replied>>
    /\ UNCHANGED <<cudaRet, blockedResp, toMMIO, toCpu, memcpyBusy, nextReq, cpu>>

handleGPUCache(id) ==
    /\ Running
    /\ id \in atCache
    /\ atCache' = atCache \ {id}
    /\ IF \E g \in GpuCores : <<id, g>> \in pendingTrans
       THEN LET g == CHOOSE x \in GpuCores : <<id, x>> \in pendingTrans IN
            IF numPending[g] > 0
            THEN /\ pendingTrans' = pendingTrans \ {<<id, g>>}
                 /\ numPending' = [numPending EXCEPT ![g] = @ - 1]
                 /\ replied' = replied \cup {id}
                 /\ UNCHANGED status
            ELSE /\ status' = "assert"
                 /\ UNCHANGED <<pendingTrans, numPending, replied>>
       ELSE /\ status' = "assert"
            /\ UNCHANGED <<pendingTrans, numPending, replied>>
    /\ UNCHANGED <<cudaRet, blockedResp, toMMIO, toCpu, memcpyBusy, nextReq, cpu>>

-----------------------------------------------------------------------------
(* The CPU (MMIO) path *)

Ack(w) == [to |-> w.call.core, type |-> "WriteResp", call |-> w.call]

\* handleEvent -> mmioHandlers::handle(Write) for the head of core c's link.
\* Mutant: the call's return value is not saved in cuda_ret.
handleWrite_noret(c) ==
    /\ Running
    /\ toMMIO[c] # <<>>
    /\ Head(toMMIO[c]).type = "Write"
    /\ LET w == Head(toMMIO[c])
           is_blocked == w.call.kind = "memcpy"
       IN /\ toMMIO' = [toMMIO EXCEPT ![c] = Tail(@)]
          /\ memcpyBusy' = IF is_blocked THEN memcpyBusy + 1 ELSE memcpyBusy
          /\ blockedResp' = IF ~w.posted /\ is_blocked THEN Ack(w) ELSE blockedResp
          /\ toCpu' = IF ~w.posted /\ ~is_blocked
                      THEN [toCpu EXCEPT ![c] = Append(@, Ack(w))]
                      ELSE toCpu
    /\ UNCHANGED <<cudaRet, pendingTrans, numPending, status, atCache, nextReq,
                   replied, cpu>>

handleWrite(c) ==
    /\ Running
    /\ toMMIO[c] # <<>>
    /\ Head(toMMIO[c]).type = "Write"
    /\ LET w == Head(toMMIO[c])
           is_blocked == w.call.kind = "memcpy"
       IN /\ toMMIO' = [toMMIO EXCEPT ![c] = Tail(@)]
          /\ cudaRet' = w.call
          /\ memcpyBusy' = IF is_blocked THEN memcpyBusy + 1 ELSE memcpyBusy
          /\ blockedResp' = IF ~w.posted /\ is_blocked THEN Ack(w) ELSE blockedResp
          /\ toCpu' = IF ~w.posted /\ ~is_blocked
                      THEN [toCpu EXCEPT ![c] = Append(@, Ack(w))]
                      ELSE toCpu
    /\ UNCHANGED <<pendingTrans, numPending, status, atCache, nextReq, replied, cpu>>

\* handleEvent -> mmioHandlers::handle(Read): answer with cuda_ret.
handleRead(c) ==
    /\ Running
    /\ toMMIO[c] # <<>>
    /\ Head(toMMIO[c]).type = "Read"
    /\ toMMIO' = [toMMIO EXCEPT ![c] = Tail(@)]
    /\ toCpu' = [toCpu EXCEPT ![c] = Append(@, [to |-> c, type |-> "ReadResp",
                                                  call |-> cudaRet])]
    /\ UNCHANGED <<cudaRet, blockedResp, pendingTrans, numPending, status,
                   atCache, memcpyBusy, nextReq, replied, cpu>>

\* GPGPU-Sim finishes a copy and calls SST_callback_memcpy_H2D_done or
\* SST_callback_memcpy_D2H_done; both send blocked_response, which they
\* neither check nor clear.  Sending a response never stored is sending
\* an unset pointer: the run crashes.
\* Mutant: the copy completes without sending the parked response.
memcpyDone_nosend ==
    /\ Running
    /\ memcpyBusy > 0
    /\ memcpyBusy' = memcpyBusy - 1
    /\ UNCHANGED <<cudaRet, blockedResp, pendingTrans, numPending, status,
                   toMMIO, toCpu, atCache, nextReq, replied, cpu>>

memcpyDone ==
    /\ Running
    /\ memcpyBusy > 0
    /\ memcpyBusy' = memcpyBusy - 1
    /\ IF blockedResp = NoResp
       THEN /\ status' = "crash"
            /\ UNCHANGED toCpu
       ELSE /\ toCpu' = [toCpu EXCEPT ![blockedResp.to] = Append(@, blockedResp)]
            /\ UNCHANGED status
    /\ UNCHANGED <<cudaRet, blockedResp, pendingTrans, numPending, toMMIO,
                   atCache, nextReq, replied, cpu>>

-----------------------------------------------------------------------------
(* The calling program on each CPU core (environment).  It writes a call  *)
(* packet, waits for the write's acknowledgement unless it posted the     *)
(* write, then reads the return packet.  A response it was not waiting   *)
(* for leaves it "confused".                                               *)

CpuCall(c, k) ==
    /\ Running
    /\ cpu[c].pc = "idle"
    /\ cpu[c].n < MaxCalls
    /\ \E posted \in IF Posted THEN BOOLEAN ELSE {FALSE} :
         LET call == [core |-> c, seq |-> cpu[c].n + 1, kind |-> k]
             w == [type |-> "Write", call |-> call, posted |-> posted]
         IN /\ toMMIO' = [toMMIO EXCEPT ![c] =
                            IF posted THEN @ \o <<w, [type |-> "Read"]>>
                                      ELSE Append(@, w)]
            /\ cpu' = [cpu EXCEPT ![c] = [@ EXCEPT !.pc = IF posted THEN "wRead"
                                                                  ELSE "wAck",
                                                   !.call = call]]
    /\ UNCHANGED <<cudaRet, blockedResp, pendingTrans, numPending, status,
                   toCpu, atCache, memcpyBusy, nextReq, replied>>

CpuReceive(c) ==
    /\ Running
    /\ toCpu[c] # <<>>
    /\ LET r == Head(toCpu[c]) IN
       CASE cpu[c].pc = "wAck" /\ r.type = "WriteResp" /\ r.call = cpu[c].call ->
              /\ toMMIO' = [toMMIO EXCEPT ![c] = Append(@, [type |-> "Read"])]
              /\ cpu' = [cpu EXCEPT ![c].pc = "wRead"]
         [] cpu[c].pc = "wRead" /\ r.type = "ReadResp" ->
              /\ cpu' = [cpu EXCEPT ![c] = [@ EXCEPT !.pc = "idle", !.n = @ + 1,
                                                     !.ret = r.call]]
              /\ UNCHANGED toMMIO
         [] OTHER ->
              /\ cpu' = [cpu EXCEPT ![c].pc = "confused"]
              /\ UNCHANGED toMMIO
    /\ toCpu' = [toCpu EXCEPT ![c] = Tail(@)]
    /\ UNCHANGED <<cudaRet, blockedResp, pendingTrans, numPending, status,
                   atCache, memcpyBusy, nextReq, replied>>

\* Every program has made its calls and every request has been answered,
\* or the component has stopped: the simulation ends here.
Finished ==
    /\ \/ ~Running
       \/ /\ \A c \in CpuCores : cpu[c].pc = "idle" /\ cpu[c].n = MaxCalls
          /\ nextReq = MaxCacheReqs /\ atCache = {} /\ memcpyBusy = 0
    /\ UNCHANGED vars

-----------------------------------------------------------------------------

Init ==
    /\ cudaRet = NoCall
    /\ blockedResp = NoResp
    /\ pendingTrans = {}
    /\ numPending = [g \in GpuCores |-> 0]
    /\ status = "running"
    /\ toMMIO = [c \in CpuCores |-> <<>>]
    /\ toCpu = [c \in CpuCores |-> <<>>]
    /\ atCache = {}
    /\ memcpyBusy = 0
    /\ nextReq = 0
    /\ replied = {}
    /\ cpu = [c \in CpuCores |-> [pc |-> "idle", n |-> 0, call |-> NoCall,
                                  ret |-> NoCall]]

Next ==
    \/ \E c \in CpuCores : \/ \E k \in Kinds : CpuCall(c, k)
                           \/ handleWrite(c) \/ handleRead(c) \/ CpuReceive(c)
    \/ memcpyDone
    \/ \E g \in GpuCores : GpuSend(g)
    \/ \E id \in ReqIds : handleGPUCache(id)
    \/ Finished

\* SST delivers every event sent on a link, so each handler whose event is
\* waiting eventually runs and each waiting program takes its response;
\* GPGPU-Sim finishes every copy it started.  Neither the programs nor the
\* GPU model are obliged to issue more work.
Fairness ==
    /\ \A c \in CpuCores : /\ WF_vars(handleWrite(c))
                           /\ WF_vars(handleRead(c))
                           /\ WF_vars(CpuReceive(c))
    /\ WF_vars(memcpyDone)
    /\ \A id \in ReqIds : WF_vars(handleGPUCache(id))

Spec == Init /\ [][Next]_vars /\ Fairness

-----------------------------------------------------------------------------
(* Properties *)

TypeOK ==
    /\ cudaRet \in Call \cup {NoCall}
    /\ blockedResp \in Resp \cup {NoResp}
    /\ pendingTrans \subseteq ReqIds \X GpuCores
    /\ numPending \in [GpuCores -> 0..MaxPendingCacheTrans]
    /\ status \in {"running", "assert", "crash"}
    /\ \A c \in CpuCores : /\ toMMIO[c] \in Seq(Req)
                           /\ toCpu[c] \in Seq(Resp)
    /\ atCache \subseteq ReqIds /\ replied \subseteq ReqIds
    /\ memcpyBusy \in Nat /\ nextReq \in 0..MaxCacheReqs

\* Neither an assert of send_*_request_SST / handleGPUCache fires nor an
\* unset blocked_response is sent.
ComponentRuns == status = "running"

\* Every response a program receives is the one it waits for, and the
\* return packet it reads back belongs to the call it made: the single
\* cuda_ret and blocked_response members are never clobbered between a
\* program's write and its read.
CallsAnswered ==
    \A c \in CpuCores :
        /\ cpu[c].pc # "confused"
        /\ cpu[c].pc = "idle" /\ cpu[c].n > 0 => cpu[c].ret = cpu[c].call

\* numPendingCacheTransPerCore[g] counts exactly the transactions of core
\* g recorded in gpuCachePendingTransactions, and those are exactly the
\* requests the GPU caches still hold, so a late or repeated cache
\* response can neither be lost nor unbalance the counter.
PendingMatchesCache ==
    /\ \A g \in GpuCores :
         numPending[g] = Cardinality({t \in pendingTrans : t[2] = g})
    /\ {t[1] : t \in pendingTrans} = atCache

\* A program waiting on a call (its acknowledgement or its return packet)
\* eventually gets it, the blocked memcpy included.
EveryCallReturns ==
    \A c \in CpuCores :
        cpu[c].pc \in {"wAck", "wRead"} ~> (cpu[c].pc = "idle" \/ ~Running)

====
