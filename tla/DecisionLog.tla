------------------------------ MODULE DecisionLog ------------------------------
(***************************************************************************)
(* What the "decide once" endpoints of the backend promise when they are   *)
(* seen from outside: a mentoring match is approved or rejected, a shipping *)
(* recommendation is accepted or rejected.                                 *)
(*                                                                         *)
(* Each of them reads the row, refuses unless it is still open, and writes *)
(* the decision in a later step, without a lock or a version column.  A    *)
(* request that has seen an open item therefore holds a claim on it, and   *)
(* several requests may hold claims on one item.  The last of them to      *)
(* write decides; once no claim is left the decision is settled.           *)
(***************************************************************************)

CONSTANTS Requests, Items, Decisions, Absent, Open, NoClaim

Claims == [item : Items, decision : Decisions]

VARIABLES
    status,    \* of every item: Absent, Open or a decision
    claim      \* the decision each request is about to write

vars == <<status, claim>>

Claimed(r, x) == claim[r] # NoClaim /\ claim[r].item = x

Init ==
    /\ status \in [Items -> {Absent, Open}]
    /\ claim = [r \in Requests |-> NoClaim]

\* The item comes into being, undecided.
Create(x) ==
    /\ status[x] = Absent
    /\ status' = [status EXCEPT ![x] = Open]
    /\ UNCHANGED claim

\* A request sees the item open and will decide d.
Claim(r, x, d) ==
    /\ claim[r] = NoClaim
    /\ status[x] = Open
    /\ claim' = [claim EXCEPT ![r] = [item |-> x, decision |-> d]]
    /\ UNCHANGED status

\* The decision is written, over whatever was decided meanwhile.
Decide(r) ==
    LET x == claim[r].item IN
    /\ claim[r] # NoClaim
    /\ status' = [status EXCEPT ![x] = claim[r].decision]
    /\ claim' = [claim EXCEPT ![r] = NoClaim]

\* The request fails before it writes.
Abandon(r) ==
    /\ claim[r] # NoClaim
    /\ claim' = [claim EXCEPT ![r] = NoClaim]
    /\ UNCHANGED status

Next ==
    \/ \E x \in Items : Create(x)
    \/ \E r \in Requests :
          \/ \E x \in Items, d \in Decisions : Claim(r, x, d)
          \/ Decide(r)
          \/ Abandon(r)

Spec == Init /\ [][Next]_vars

----------------------------------------------------------------------------

\* Every item has a status and every claim names an item and a decision.
TypeOK ==
    /\ status \in [Items -> Decisions \union {Absent, Open}]
    /\ claim \in [Requests -> Claims \union {NoClaim}]

\* The item is decided and no request is left that saw it open.
Settled(x) == status[x] \in Decisions /\ \A r \in Requests : ~Claimed(r, x)

\* A settled decision is final.
SettledIsFinal ==
    [][\A x \in Items : Settled(x) => status'[x] = status[x] /\ Settled(x)']_vars
=============================================================================
