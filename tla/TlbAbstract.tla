---------------------------- MODULE TlbAbstract ----------------------------
(***************************************************************************)
(* What the TLB unit promises its requester and its downstream units      *)
(* (spec sections 2, 4.2 and 5), with translation, walks and backpressure *)
(* abstracted away: requests are accepted one at a time, each accepted     *)
(* request is handed downstream exactly once, no request is handed down    *)
(* that was not accepted, and every accepted request is eventually handed  *)
(* down.  A handler may hand down several requests at once (a walk         *)
(* completion replays its whole queue, a resume drains a ready queue).     *)
(***************************************************************************)
EXTENDS Naturals, FiniteSets

CONSTANT MaxReqs     \* bound on the requests accepted

VARIABLES
    issued,   \* requests accepted so far; request i is the i-th accepted
    fwd,      \* the requests handed downstream
    nfwd      \* the number of hand-downs made (equals |fwd| when none repeats)

avars == <<issued, fwd, nfwd>>

Held == (1..issued) \ fwd

\* Hand the requests S down, each once.
HandDown(S) == fwd' = fwd \cup S /\ nfwd' = nfwd + Cardinality(S)

\* A request is accepted; the same handler may hand it (or others) down.
Accept ==
    /\ issued < MaxReqs
    /\ issued' = issued + 1
    /\ \E S \in SUBSET (Held \cup {issued + 1}) : HandDown(S)

\* A handler other than acceptance hands held requests down.
Deliver ==
    /\ \E S \in SUBSET Held : S # {} /\ HandDown(S)
    /\ UNCHANGED issued

Init == issued = 0 /\ fwd = {} /\ nfwd = 0

Next == Accept \/ Deliver

\* Every accepted request is eventually handed down.
EveryAcceptedHandedDown ==
    \A i \in 1..MaxReqs : i <= issued ~> i \in fwd

Spec == Init /\ [][Next]_avars /\ EveryAcceptedHandedDown

====
