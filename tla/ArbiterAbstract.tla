-------------------------- MODULE ArbiterAbstract ---------------------------
(***************************************************************************)
(* What memHierarchy.RoundRobinArbiter promises the units on its ports,   *)
(* with buffers, outgoing queues, the address maps and the clock           *)
(* abstracted away: each event that arrives leaves exactly once, on the   *)
(* port its routing rule names, and every event that arrives eventually   *)
(* leaves.  The routing rule:                                              *)
(*   - a data request goes to the unit that owns its address;             *)
(*   - a response goes back to the port its request came in on;          *)
(*   - any other event (a writeback) goes down to the directory side;    *)
(*   - a FetchResp leaves on some port other than the one it came in on. *)
(* A clock tick may send several events at once.                          *)
(***************************************************************************)
EXTENDS Naturals, FiniteSets

CONSTANTS
    Ports,       \* the arbiter's ports
    OUTPORT,     \* the directory / NIC port
    MaxEvents,   \* bound on the events that arrive
    Home(_)      \* Home(a): the port of the unit that owns address a

VARIABLES
    arrived,     \* the events that arrived on a port
    dlv,         \* <<event, port>>: the event left on that port
    ndlv         \* the number of sends made (equals |dlv| when none repeats)

avars == <<arrived, dlv, ndlv>>

Left == {d[1] : d \in dlv}
Held == arrived \ Left

Dest(e) ==
    CASE e.kind = "Req"  -> {Home(e.addr)}
      [] e.kind = "Resp" -> {r.src : r \in {x \in arrived : x.kind = "Req" /\ x.id = e.respTo}}
      [] e.kind = "FetchResp" -> Ports \ {e.src}
      [] OTHER -> {OUTPORT}

Arrive(e) ==
    /\ e.id \notin {x.id : x \in arrived}
    /\ arrived' = arrived \cup {e}
    /\ UNCHANGED <<dlv, ndlv>>

\* A tick sends some held events, each once, each on a port of its rule.
Send ==
    /\ \E S \in SUBSET {<<e, p>> : e \in Held, p \in Ports} :
          /\ S # {}
          /\ \A d \in S : d[2] \in Dest(d[1])
          /\ \A d1, d2 \in S : d1[1] = d2[1] => d1 = d2
          /\ dlv' = dlv \cup S
          /\ ndlv' = ndlv + Cardinality(S)
    /\ UNCHANGED arrived

Init == arrived = {} /\ dlv = {} /\ ndlv = 0

Next == (\E e \in arrived' : Arrive(e)) \/ Send

\* Every event that arrives eventually leaves.
EveryArrivedLeaves ==
    \A i \in 1..MaxEvents :
        (\E e \in arrived : e.id = i) ~> (\E e \in Left : e.id = i)

Spec == Init /\ [][Next]_avars /\ EveryArrivedLeaves

====
