------------------------------ MODULE Miranda ------------------------------
(***************************************************************************)
(* Miranda's CustomRandomGenerator (miranda/generators/custom_randomgen.cc). *)
(* The Miranda CPU calls generate() while isFinished() is false; each call *)
(* draws a random address in KB steps, redrawing while it falls in one of  *)
(* the four avoided ranges, then pushes the requests of the configured     *)
(* option (read, write, write after read, read after write, or one mixed  *)
(* by write_percentage), a fence if issue_op_fences, and decrements        *)
(* issueCount.                                                             *)
(*                                                                         *)
(* The random number generator is a nondeterministic choice: the address   *)
(* draw over its whole range, op_decide over 0..99 (op_decide*100 is only  *)
(* compared with the integer writePercentage, so its integer part decides). *)
(* The KB factor 1024 is the constant KB, kept small for checking.         *)
(***************************************************************************)
EXTENDS Integers, Sequences, FiniteSets

CONSTANTS
    KB,               \* the factor 1024 of generate
    MaxAddr,          \* max_address
    AvoidMin,         \* avoid_addr_range_min_value[1-3], as a function on 0..3
    AvoidMax,         \* avoid_addr_range_max_value[1-3], as a function on 0..3
    IssueCount,       \* count
    WritePercentage,  \* write_percentage
    IssueOpFences,    \* issue_op_fences = "yes"
    Options           \* values the option parameter may be given

ASSUME /\ KB \in Nat \ {0} /\ MaxAddr \in Nat /\ IssueCount \in Nat
       /\ AvoidMin \in [0..3 -> Nat] /\ AvoidMax \in [0..3 -> Nat]
       /\ WritePercentage \in 0..100 /\ IssueOpFences \in BOOLEAN
       /\ Options \subseteq Nat

Decides == 0..99          \* the integer part of op_decide * 100

VARIABLES
    option,       \* option, read once by build()
    issueCount,   \* issueCount
    q,            \* the MirandaRequestQueue generate pushes to
    nextId,       \* the next GeneratorRequest id (every request made takes one)
    status        \* "running", or how generate failed to return

vars == <<option, issueCount, q, nextId, status>>

-----------------------------------------------------------------------------
(* CustomRandomGenerator::generate *)

\* The condition of the do-while loop: rand_addr lies in an avoided range.
\* Mutant: the conjunction of a range test written as a disjunction.
Avoided_or(r) == \E i \in 0..3 : r >= AvoidMin[i] * KB \/ r < AvoidMax[i] * KB

\* Mutant: the byte address, not the KB draw, compared with the limits * KB.
Avoided_bytes(r) == \E i \in 0..3 : r * KB >= AvoidMin[i] * KB /\ r * KB < AvoidMax[i] * KB

Avoided(r) == \E i \in 0..3 : r >= AvoidMin[i] * KB /\ r < AvoidMax[i] * KB

\* The draws the loop accepts.
Draws == {r \in 0..MaxAddr * KB - 1 : ~Avoided(r)}

\* The type of option 5's request for op_decide * 100 in [d, d+1).
mixedOp(d) == IF d < WritePercentage THEN "READ" ELSE "WRITE"

Req(id, a, op, deps) == [id |-> id, addr |-> a, op |-> op, deps |-> deps]

\* The requests pushed for option opt at address a, the reads and writes
\* made at lines 102-103 having ids n and n+1; the mixed request of option
\* 5 is made after them.
\* Mutant: option 3 pushes the write before the read it depends on.
pushed_swapped(opt, a, n, d) ==
    LET rd == Req(n, a, "READ", {})
        wr == Req(n + 1, a, "WRITE", {})
    IN CASE opt = 1 -> <<rd>>
         [] opt = 2 -> <<wr>>
         [] opt = 3 -> <<[wr EXCEPT !.deps = {n}], rd>>
         [] opt = 4 -> <<wr, rd>>
         [] opt = 5 -> <<Req(n + 2, a, mixedOp(d), {})>>
         [] OTHER -> <<>>

pushed(opt, a, n, d) ==
    LET rd == Req(n, a, "READ", {})
        wr == Req(n + 1, a, "WRITE", {})
    IN CASE opt = 1 -> <<rd>>
         [] opt = 2 -> <<wr>>
         [] opt = 3 -> <<rd, [wr EXCEPT !.deps = {n}]>>
         [] opt = 4 -> <<wr, rd>>
         [] opt = 5 -> <<Req(n + 2, a, mixedOp(d), {})>>
         [] OTHER -> <<>>

\* Requests made by one call: both at lines 102-103, the mixed one, the fence.
made(opt) == 2 + (IF opt = 5 THEN 1 ELSE 0) + (IF IssueOpFences THEN 1 ELSE 0)

\* Mutant: generate also runs once isFinished (uint64 issueCount wraps; the
\* model shows it going below 0).
generate_noguard ==
    /\ status = "running"
    /\ \E r \in Draws, d \in Decides :
         LET ops == pushed(option, r * KB, nextId, d)
             fence == Req(nextId + made(option) - 1, 0, "FENCE", {})
         IN /\ q' = q \o ops \o (IF IssueOpFences THEN <<fence>> ELSE <<>>)
            /\ nextId' = nextId + made(option)
            /\ issueCount' = issueCount - 1
            /\ UNCHANGED status
    /\ UNCHANGED option

generate ==
    /\ status = "running"
    /\ issueCount # 0
    /\ IF MaxAddr = 0
       THEN status' = "div_by_zero" /\ UNCHANGED <<issueCount, q, nextId>>
       ELSE IF Draws = {}
       THEN status' = "spins" /\ UNCHANGED <<issueCount, q, nextId>>
       ELSE \E r \in Draws, d \in Decides :
              LET ops == pushed(option, r * KB, nextId, d)
                  fence == Req(nextId + made(option) - 1, 0, "FENCE", {})
              IN /\ q' = q \o ops \o (IF IssueOpFences THEN <<fence>> ELSE <<>>)
                 /\ nextId' = nextId + made(option)
                 /\ issueCount' = issueCount - 1
                 /\ UNCHANGED status
    /\ UNCHANGED option

\* isFinished: the CPU stops calling generate.
isFinished == issueCount = 0

Done ==
    /\ isFinished \/ status # "running"
    /\ UNCHANGED vars

Init ==
    /\ option \in Options
    /\ issueCount = IssueCount
    /\ q = <<>>
    /\ nextId = 0
    /\ status = "running"

Next == generate \/ Done

\* The Miranda CPU calls generate whenever isFinished() is false.
Spec == Init /\ [][Next]_vars /\ WF_vars(generate)

-----------------------------------------------------------------------------
(* Properties *)

Ops == {"READ", "WRITE", "FENCE"}

TypeOK ==
    /\ issueCount \in 0..IssueCount
    /\ \A i \in 1..Len(q) : /\ q[i].op \in Ops /\ q[i].addr \in Nat
                            /\ q[i].id \in 0..nextId - 1 /\ q[i].deps \subseteq Nat
    /\ status \in {"running", "div_by_zero", "spins"}

\* Reference: the byte addresses a generator may issue, reading max_address
\* and every avoid_addr_range_* value in the same unit (KB * KB bytes):
\* KB-aligned, below max_address and outside each avoided range.
AllowedAddrs ==
    {a \in 0..MaxAddr * KB * KB - 1 :
        /\ a % KB = 0
        /\ \A i \in 0..3 : ~(AvoidMin[i] * KB * KB <= a /\ a < AvoidMax[i] * KB * KB)}

\* Every memory request generate pushes has an allowed address: the
\* rejection loop compares the KB-granular draw with the range limits in
\* the units the address is then scaled to.
AddressesAllowed ==
    \A i \in 1..Len(q) : q[i].op # "FENCE" => q[i].addr \in AllowedAddrs

\* Every dependency a request carries names a request pushed before it to
\* the same address, so the CPU can always issue the oldest request and
\* never waits on one that comes later or never comes.
DependenciesPointBack ==
    \A i \in 1..Len(q) : \A dep \in q[i].deps :
        \E j \in 1..i - 1 : q[j].id = dep /\ q[j].addr = q[i].addr

\* With option 5, write_percentage percent of the op_decide values give a
\* write (the parameter is documented "Percentage of write operations").
WriteShare ==
    option = 5 =>
        Cardinality({d \in Decides : mixedOp(d) = "WRITE"}) = WritePercentage

\* The generator eventually finishes: each generate call returns (its
\* rejection loop finds an address outside the avoided ranges) and counts
\* one issue down.
EventuallyFinished == <>isFinished

====
