-------------------------- MODULE DRAMSimCAbstract --------------------------
(***************************************************************************)
(* What the DRAMSimC component promises the CPU on its memory channel,    *)
(* with m_transQ, DRAMSim's channel queues and its timing abstracted away: *)
(* requests enter the memory in the order they were sent; a request is     *)
(* answered only after it entered, at most once, with its own type and    *)
(* address; and every request sent is eventually answered and taken.      *)
(***************************************************************************)
EXTENDS Naturals, Sequences

CONSTANTS Addrs, MaxReqs

VARIABLES
    reqs,      \* the requests sent, in order: [addr, reqType]
    entered,   \* requests 1..entered have entered the memory
    answers,   \* answers on the channel: [id, addr, reqType]
    taken      \* ids whose answer the CPU has taken

avars == <<reqs, entered, answers, taken>>

Answer(i) == [id |-> i, addr |-> reqs[i].addr, reqType |-> reqs[i].reqType]

\* ids already answered, on the channel or taken
AnsweredIds == {a.id : a \in answers} \cup taken

Send(ty, a) ==
    /\ Len(reqs) < MaxReqs
    /\ reqs' = Append(reqs, [addr |-> a, reqType |-> ty])
    /\ UNCHANGED <<entered, answers, taken>>

\* One memory step: answer some requests that had already entered, then
\* let a further prefix of the sent requests enter.
Step ==
    /\ \E S \in SUBSET ((1..entered) \ AnsweredIds) :
          answers' = answers \cup {Answer(i) : i \in S}
    /\ entered' \in entered..Len(reqs)
    /\ UNCHANGED <<reqs, taken>>

Take(a) ==
    /\ a \in answers
    /\ answers' = answers \ {a}
    /\ taken' = taken \cup {a.id}
    /\ UNCHANGED <<reqs, entered>>

Init == reqs = <<>> /\ entered = 0 /\ answers = {} /\ taken = {}

Next ==
    \/ \E ty \in {"READ", "WRITE"}, a \in Addrs : Send(ty, a)
    \/ Step
    \/ \E a \in answers : Take(a)

\* Every request sent is eventually answered and its answer taken.
EverySentTaken == \A i \in 1..MaxReqs : Len(reqs) >= i ~> i \in taken

Spec == Init /\ [][Next]_avars /\ EverySentTaken

====
