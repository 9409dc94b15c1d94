------------------------------ MODULE DRAMSimC ------------------------------
(***************************************************************************)
(* The DRAMSimC component (DRAMSimC/DRAMSimC.cpp): an SST wrapper around  *)
(* the DRAMSim memory system.  A CPU sends read and write requests on the  *)
(* memory channel m_memChan.  Every clock the component                    *)
(*   1. calls m_memorySystem->update(), during which DRAMSim calls        *)
(*      readData / writeData for each transaction it has finished; these  *)
(*      send a response on m_memChan (and _abort if the send fails);      *)
(*   2. receives every waiting request into the FIFO m_transQ, converting *)
(*      its type with convertType;                                        *)
(*   3. offers m_transQ's front to addTransaction until DRAMSim refuses   *)
(*      one or the queue is empty.                                         *)
(*                                                                         *)
(* DRAMSim (MultiChannelMemorySystem) is not in this repository.  It is   *)
(* modelled by what the wrapper relies on: addTransaction accepts a       *)
(* transaction when the queue of the channel its address maps to has room *)
(* and refuses it otherwise, and each accepted transaction is finished    *)
(* some time later, its callback running in the next update().           *)
(*                                                                         *)
(* Requests carry a ghost identity (their issue number) so properties can *)
(* follow them; the code itself knows a transaction by type and address.  *)
(***************************************************************************)
EXTENDS Integers, Sequences, FiniteSets

CONSTANTS
    Addrs,     \* addresses requests may carry
    Channel,   \* Channel[a]: the DRAMSim channel address a maps to
    MemCap,    \* transactions a DRAMSim channel queue holds
    MaxReqs    \* bound on the requests the CPU sends

ASSUME MemCap \in Nat \ {0} /\ MaxReqs \in Nat

Ids == 1..MaxReqs
ReqTypes == {"READ", "WRITE"}                      \* memChan_t::event_t::reqType
TransTypes == {"DATA_READ", "DATA_WRITE"}          \* DRAMSim's TransactionType
Txn == [id : Ids, type : TransTypes, addr : Addrs]

VARIABLES
    reqChan,    \* requests on m_memChan not yet received, in order
    transQ,     \* m_transQ
    memSys,     \* transactions DRAMSim holds: [txn, done]
    respChan,   \* responses sent on m_memChan and not yet taken by the CPU
    sent,       \* history: sent[i] is the CPU's request i
    admitted,   \* history: ids accepted by addTransaction, in order
    answered    \* history: ids whose response the CPU has taken

vars == <<reqChan, transQ, memSys, respChan, sent, admitted, answered>>

\* convertType (DRAMSimC.h)
convertType(t) == IF t = "READ" THEN "DATA_READ" ELSE "DATA_WRITE"

\* MultiChannelMemorySystem::addTransaction's answer for txn t
Accepts(mem, t) ==
    Cardinality({m \in mem : Channel[m.txn.addr] = Channel[t.addr]}) < MemCap

-----------------------------------------------------------------------------
(* DRAMSimC::clock *)

\* readData / writeData: the response for a finished transaction.
readData(t) == [id |-> t.id, addr |-> t.addr, reqType |-> "READ", msgType |-> "RESPONSE"]
\* Mutant: writeData copied from readData without changing the type.
writeData_copy(t) == [id |-> t.id, addr |-> t.addr, reqType |-> "READ", msgType |-> "RESPONSE"]
writeData(t) == [id |-> t.id, addr |-> t.addr, reqType |-> "WRITE", msgType |-> "RESPONSE"]

\* m_memorySystem->update(): the callback of every finished transaction.
update(mem) ==
    {IF m.txn.type = "DATA_READ" THEN readData(m.txn) ELSE writeData(m.txn)
        : m \in {x \in mem : x.done}}

\* The while (m_memChan->recv(&event)) loop.
\* Mutant: the event's type queued without convertType.
recvAll_noconv(q, chan) ==
    q \o [i \in 1..Len(chan) |-> [id |-> chan[i].id, type |-> chan[i].reqType,
                                  addr |-> chan[i].addr]]

recvAll(q, chan) ==
    q \o [i \in 1..Len(chan) |-> [id |-> chan[i].id,
                                  type |-> convertType(chan[i].reqType),
                                  addr |-> chan[i].addr]]

\* The while (!m_transQ.empty() && ret) loop: offer the front until refused.
\* Mutant: pop_front runs whether or not addTransaction succeeded.
retry_popfail(q, mem, adm) ==
    IF q = <<>> THEN <<q, mem, adm>>
    ELSE IF Accepts(mem, Head(q))
         THEN <<Tail(q), mem \cup {[txn |-> Head(q), done |-> FALSE]},
                Append(adm, Head(q).id)>>
         ELSE <<Tail(q), mem, adm>>

\* Mutant: a refused front is kept and the transactions behind it offered.
RECURSIVE retry_skip(_, _, _)
retry_skip(q, mem, adm) ==
    IF q = <<>> THEN <<q, mem, adm>>
    ELSE IF Accepts(mem, Head(q))
         THEN retry_skip(Tail(q), mem \cup {[txn |-> Head(q), done |-> FALSE]},
                         Append(adm, Head(q).id))
         ELSE LET r == retry_skip(Tail(q), mem, adm)
              IN <<<<Head(q)>> \o r[1], r[2], r[3]>>

RECURSIVE retry(_, _, _)
retry(q, mem, adm) ==
    IF q # <<>> /\ Accepts(mem, Head(q))
    THEN retry(Tail(q), mem \cup {[txn |-> Head(q), done |-> FALSE]},
               Append(adm, Head(q).id))
    ELSE <<q, mem, adm>>

clock ==
    LET mem1 == {m \in memSys : ~m.done}
        r == retry(recvAll(transQ, reqChan), mem1, admitted)
    IN /\ respChan' = respChan \cup update(memSys)
       /\ reqChan' = <<>>
       /\ transQ' = r[1]
       /\ memSys' = r[2]
       /\ admitted' = r[3]
       /\ UNCHANGED <<sent, answered>>

-----------------------------------------------------------------------------
(* Environment: DRAMSim's timing and the CPU *)

\* DRAMSim finishes transaction i (its latency has elapsed).
DramFinish(i) ==
    /\ \E m \in memSys : m.txn.id = i /\ ~m.done
    /\ memSys' = {IF m.txn.id = i THEN [m EXCEPT !.done = TRUE] ELSE m : m \in memSys}
    /\ UNCHANGED <<reqChan, transQ, respChan, sent, admitted, answered>>

CpuSend(ty, a) ==
    /\ Len(sent) < MaxReqs
    /\ LET ev == [id |-> Len(sent) + 1, addr |-> a, reqType |-> ty,
                  msgType |-> "REQUEST"]
       IN /\ reqChan' = Append(reqChan, ev)
          /\ sent' = Append(sent, ev)
    /\ UNCHANGED <<transQ, memSys, respChan, admitted, answered>>

CpuRecv(r) ==
    /\ r \in respChan
    /\ respChan' = respChan \ {r}
    /\ answered' = answered \cup {r.id}
    /\ UNCHANGED <<reqChan, transQ, memSys, sent, admitted>>

-----------------------------------------------------------------------------

Init ==
    /\ reqChan = <<>>
    /\ transQ = <<>>
    /\ memSys = {}
    /\ respChan = {}
    /\ sent = <<>>
    /\ admitted = <<>>
    /\ answered = {}

Next ==
    \/ clock
    \/ \E i \in Ids : DramFinish(i)
    \/ \E ty \in ReqTypes, a \in Addrs : CpuSend(ty, a)
    \/ \E r \in respChan : CpuRecv(r)

\* The clock handler returns false, so SST keeps calling it; DRAMSim
\* finishes every transaction it accepted; the CPU takes every response
\* sent to it.  The CPU is not obliged to send.
Fairness ==
    /\ WF_vars(clock)
    /\ \A i \in Ids : WF_vars(DramFinish(i))
    /\ WF_vars(\E r \in respChan : CpuRecv(r))

Spec == Init /\ [][Next]_vars /\ Fairness

-----------------------------------------------------------------------------
(* Properties *)

Resp == [id : Ids, addr : Addrs, reqType : ReqTypes, msgType : {"RESPONSE"}]

TypeOK ==
    /\ \A i \in 1..Len(reqChan) : reqChan[i].id \in Ids
    /\ \A i \in 1..Len(transQ) : transQ[i] \in Txn
    /\ \A m \in memSys : m.txn \in Txn /\ m.done \in BOOLEAN
    /\ respChan \subseteq Resp
    /\ Len(sent) \in 0..MaxReqs
    /\ answered \subseteq Ids

IdsOf(s) == {s[i].id : i \in 1..Len(s)}

\* Every request the CPU sent is in exactly one place: on the channel, in
\* m_transQ, in DRAMSim, answered on the channel, or taken by the CPU; a
\* refused addTransaction never drops or duplicates the front of m_transQ,
\* and no DRAMSim channel queue holds more than it accepts.
NoTransactionLost ==
    LET parts == <<IdsOf(reqChan), IdsOf(transQ), {m.txn.id : m \in memSys},
                   {r.id : r \in respChan}, answered>>
    IN /\ UNION {parts[k] : k \in 1..5} = 1..Len(sent)
       /\ \A j, k \in 1..5 : j < k => parts[j] \cap parts[k] = {}
       /\ Len(reqChan) + Len(transQ) + Cardinality(memSys)
            + Cardinality(respChan) + Cardinality(answered) = Len(sent)
       /\ \A m \in memSys : Accepts(memSys \ {m}, m.txn)

\* DRAMSim receives the transactions in the order the CPU sent them: the
\* retry loop stops at the first refusal instead of passing a refused
\* front to offer the ones behind it.
InOrderAdmission ==
    \A i, j \in 1..Len(admitted) : i < j => admitted[i] < admitted[j]

\* Refinement: with the requests sent, the transactions DRAMSim has
\* accepted, the responses on the channel and those taken mapped to
\* DRAMSimCAbstract, the component implements it: transactions enter
\* DRAMSim in send order, each is answered once, after it entered, with
\* its own type and address, and every request is answered.
Abstract == INSTANCE DRAMSimCAbstract WITH
    reqs <- [i \in 1..Len(sent) |-> [addr |-> sent[i].addr, reqType |-> sent[i].reqType]],
    entered <- Len(admitted),
    answers <- {[id |-> r.id, addr |-> r.addr, reqType |-> r.reqType] : r \in respChan},
    taken <- answered

DRAMSimCRefines == Abstract!Spec

====
