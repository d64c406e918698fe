---------------------------- MODULE ShippingProofs ----------------------------
(***************************************************************************)
(* Decisions on shipping recommendations implement DecisionLog and never   *)
(* leave a pending recommendation half decided, for every number of        *)
(* requests and recommendations.                                           *)
(***************************************************************************)
EXTENDS Shipping, TLAPS

\* An UPDATE takes a row to a row, and its status is decided by the request
\* when the request changed it.
LEMMA FlushedRow ==
    ASSUME NEW l \in Rows, NEW w \in Rows, NEW n \in Rows
    PROVE  /\ Flush(l, w, n) \in Rows
           /\ \A f \in {"status", "date", "memo"} :
                 Flush(l, w, n)[f] = IF w[f] # l[f] THEN w[f] ELSE n[f]
<1>1. DOMAIN n = {"status", "date", "memo"}
  BY DEF Rows
<1>2. Flush(l, w, n) = [f \in {"status", "date", "memo"} |-> IF w[f] # l[f] THEN w[f] ELSE n[f]]
  BY <1>1 DEF Flush
<1>3. Flush(l, w, n) = [status |-> IF w.status # l.status THEN w.status ELSE n.status,
                        date   |-> IF w.date # l.date THEN w.date ELSE n.date,
                        memo   |-> IF w.memo # l.memo THEN w.memo ELSE n.memo]
  BY <1>2
<1>4. QED BY <1>2, <1>3 DEF Rows

\* Every request in progress loaded a pending row and wants a decided one, and
\* it is typed: the inductive part of what follows.
Inv ==
    /\ TypeOK
    /\ \A r \in Requests : req[r].op = "decide" =>
          req[r].loaded.status = "PENDING" /\ req[r].wanted.status \in Decisions
    /\ PendingIsBlank

\* Pending recommendations are blank and requests in progress want a decision:
\* the invariant holds at first and every step keeps it.
LEMMA InvHolds == Spec => []Inv
<1>1. Init => Inv
  BY DEF Init, Inv, TypeOK, PendingIsBlank, Rows, Idle, Deciding
<1>2. Inv /\ [Next]_vars => Inv'
  <2> SUFFICES ASSUME Inv, [Next]_vars PROVE Inv'
    OBVIOUS
  <2> USE DEF Inv, TypeOK, Deciding, Idle
  <2>1. ASSUME NEW r \in Requests, NEW x \in Recommendations, NEW d \in Decisions,
               NEW date \in Dates \union {Null}, NEW memo \in Memos \union {Null},
               ReadForDecision(r, x, d, date, memo)
        PROVE  Inv'
    BY <2>1 DEF ReadForDecision, Rows, PendingIsBlank
  <2>2. ASSUME NEW r \in Requests, CommitDecision(r) PROVE Inv'
    <3> DEFINE x == req[r].item
               new == Flush(req[r].loaded, req[r].wanted, row[x])
    <3>1. req[r] \in Deciding
      BY <2>2 DEF CommitDecision
    <3>2. x \in Recommendations /\ req[r].loaded \in Rows /\ req[r].wanted \in Rows /\ row[x] \in Rows
      BY <3>1
    <3>3. new \in Rows /\ new["status"] = req[r].wanted.status
      <4>1. req[r].loaded.status = "PENDING" /\ req[r].wanted.status \in Decisions
        BY <2>2 DEF CommitDecision
      <4>2. req[r].wanted.status # req[r].loaded.status
        BY <4>1 DEF Decisions
      <4>3. QED BY <3>2, <4>2, FlushedRow
    <3>4. row' = [row EXCEPT ![x] = new] /\ req' = [req EXCEPT ![r] = Idle]
      BY <2>2 DEF CommitDecision
    <3>5. TypeOK'
      BY <3>2, <3>3, <3>4
    <3>6. new.status # "PENDING"
      BY <2>2, <3>3 DEF CommitDecision, Decisions
    <3>7. PendingIsBlank'
      BY <3>2, <3>4, <3>6 DEF PendingIsBlank
    <3>8. QED BY <3>4, <3>5, <3>7
  <2>3. ASSUME NEW r \in Requests, Rollback(r) PROVE Inv'
    BY <2>3 DEF Rollback, PendingIsBlank
  <2>4. CASE UNCHANGED vars
    BY <2>4 DEF vars, PendingIsBlank
  <2>5. QED BY <2>1, <2>2, <2>3, <2>4 DEF Next
<1>3. QED BY <1>1, <1>2, PTL DEF Spec

\* Recommendations and requests in progress keep their types.
THEOREM ShippingTypeCorrect == Spec => []TypeOK
BY InvHolds, PTL DEF Inv

\* A pending recommendation has neither date nor memo, whatever decisions on it
\* failed half way.
THEOREM PendingStaysBlank == Spec => []PendingIsBlank
BY InvHolds, PTL DEF Inv

\* decide_recommendation refines DecisionLog: a load is a claim, a commit the
\* decision, a rollback abandons the claim.
THEOREM ShippingImplementsDecisionLog == Spec => ImplementsDecisionLog
<1>1. Init => Log!Init
  BY DEF Init, Log!Init, Idle
<1>2. Inv /\ [Next]_vars => [Log!Next]_(Log!vars)
  <2> SUFFICES ASSUME Inv, [Next]_vars PROVE [Log!Next]_(Log!vars)
    OBVIOUS
  <2> DEFINE st == [y \in Recommendations |-> row[y].status]
             cl == [q \in Requests |-> IF req[q].op = "decide"
                                       THEN [item |-> req[q].item, decision |-> req[q].wanted.status]
                                       ELSE NoClaim]
  <2> USE DEF Inv, TypeOK, Deciding, Idle
  <2>1. ASSUME NEW r \in Requests, NEW x \in Recommendations, NEW d \in Decisions,
               NEW date \in Dates \union {Null}, NEW memo \in Memos \union {Null},
               ReadForDecision(r, x, d, date, memo)
        PROVE  Log!Next
    <3>1. cl[r] = NoClaim /\ st[x] = "PENDING" /\ st' = st
      BY <2>1 DEF ReadForDecision
    <3>2. cl' = [cl EXCEPT ![r] = [item |-> x, decision |-> d]]
      BY <2>1 DEF ReadForDecision
    <3>3. Log!Claim(r, x, d)
      BY <3>1, <3>2 DEF Log!Claim
    <3>4. QED BY <3>3 DEF Log!Next
  <2>2. ASSUME NEW r \in Requests, CommitDecision(r) PROVE Log!Next
    <3> DEFINE x == req[r].item
               new == Flush(req[r].loaded, req[r].wanted, row[x])
    <3>1. /\ req[r] \in Deciding
          /\ req[r].loaded.status = "PENDING" /\ req[r].wanted.status \in Decisions
      BY <2>2 DEF CommitDecision
    <3>2. x \in Recommendations /\ req[r].loaded \in Rows /\ req[r].wanted \in Rows /\ row[x] \in Rows
      BY <3>1
    <3>3. new["status"] = req[r].wanted.status
      <4>1. req[r].wanted.status # req[r].loaded.status
        BY <3>1 DEF Decisions
      <4>2. QED BY <3>2, <4>1, FlushedRow
    <3>4. row' = [row EXCEPT ![x] = new] /\ req' = [req EXCEPT ![r] = Idle]
      BY <2>2 DEF CommitDecision
    <3>5. st' = [st EXCEPT ![x] = req[r].wanted.status]
      BY <3>2, <3>3, <3>4
    <3>6. cl[r] = [item |-> x, decision |-> req[r].wanted.status]
      BY <2>2 DEF CommitDecision
    <3>7. cl[r] # NoClaim
      BY <3>1, <3>2, <3>6, ShippingAssumption DEF Decisions
    <3>8. cl' = [cl EXCEPT ![r] = NoClaim]
      BY <3>4
    <3>9. Log!Decide(r)
      BY <3>5, <3>6, <3>7, <3>8 DEF Log!Decide
    <3>10. QED BY <3>9 DEF Log!Next
  <2>3. ASSUME NEW r \in Requests, Rollback(r) PROVE Log!Next
    <3>1. req[r] \in Deciding /\ req[r].wanted.status \in Decisions
      BY <2>3 DEF Rollback
    <3>2. cl[r] # NoClaim
      BY <3>1, ShippingAssumption DEF Decisions
    <3>3. cl' = [cl EXCEPT ![r] = NoClaim] /\ st' = st
      BY <2>3 DEF Rollback
    <3>4. Log!Abandon(r)
      BY <3>2, <3>3 DEF Log!Abandon
    <3>5. QED BY <3>4 DEF Log!Next
  <2>4. CASE UNCHANGED vars
    BY <2>4 DEF vars, Log!vars
  <2>5. QED BY <2>1, <2>2, <2>3, <2>4 DEF Next
<1>3. QED BY <1>1, <1>2, InvHolds, PTL DEF Spec, ImplementsDecisionLog, Log!Spec

----------------------------------------------------------------------------
(* DecisionLog, as Shipping instantiates it *)

LogStatus == [x \in Recommendations |-> row[x].status]
LogClaim  == [r \in Requests |-> IF req[r].op = "decide"
                                 THEN [item |-> req[r].item, decision |-> req[r].wanted.status]
                                 ELSE NoClaim]

\* The steps of the log, in terms of its two variables.
LEMMA LogSteps ==
    ASSUME [Log!Next]_(Log!vars)
    PROVE  \/ \E x \in Recommendations :
                 /\ LogStatus[x] = "ABSENT"
                 /\ LogStatus' = [LogStatus EXCEPT ![x] = "PENDING"]
                 /\ LogClaim' = LogClaim
           \/ \E r \in Requests, x \in Recommendations, d \in Decisions :
                 /\ LogClaim[r] = NoClaim /\ LogStatus[x] = "PENDING"
                 /\ LogStatus' = LogStatus
                 /\ LogClaim' = [LogClaim EXCEPT ![r] = [item |-> x, decision |-> d]]
           \/ \E r \in Requests :
                 /\ LogClaim[r] # NoClaim
                 /\ LogStatus' \in {LogStatus, [LogStatus EXCEPT ![LogClaim[r].item] =
                                                                      LogClaim[r].decision]}
                 /\ LogClaim' = [LogClaim EXCEPT ![r] = NoClaim]
           \/ LogStatus' = LogStatus /\ LogClaim' = LogClaim
<1>1. CASE Log!Next
  BY <1>1 DEF Log!Next, Log!Create, Log!Claim, Log!Decide, Log!Abandon, LogStatus, LogClaim
<1>2. CASE UNCHANGED Log!vars
  BY <1>2 DEF Log!vars, LogStatus, LogClaim
<1>3. QED BY <1>1, <1>2

\* The log's statuses and claims keep their types.
THEOREM DecisionTypeCorrect == Log!Spec => []Log!TypeOK
<1>1. Log!Init => Log!TypeOK
  BY DEF Log!Init, Log!TypeOK
<1>2. Log!TypeOK /\ [Log!Next]_(Log!vars) => Log!TypeOK'
  <2> SUFFICES ASSUME Log!TypeOK, [Log!Next]_(Log!vars) PROVE Log!TypeOK'
    OBVIOUS
  <2>1. /\ LogStatus \in [Recommendations -> Decisions \union {"ABSENT", "PENDING"}]
        /\ LogClaim \in [Requests -> [item : Recommendations, decision : Decisions] \union {NoClaim}]
    BY DEF Log!TypeOK, Log!Claims, LogStatus, LogClaim
  <2>2. /\ LogStatus' \in [Recommendations -> Decisions \union {"ABSENT", "PENDING"}]
        /\ LogClaim' \in [Requests -> [item : Recommendations, decision : Decisions] \union {NoClaim}]
    BY <2>1, LogSteps
  <2>3. QED BY <2>2 DEF Log!TypeOK, Log!Claims, LogStatus, LogClaim
<1>3. QED BY <1>1, <1>2, PTL DEF Log!Spec

\* No step of any request changes or reopens a settled item: new requests are
\* refused because the item is no longer open, and no old claim is left.
THEOREM SettledDecisionsAreFinal == Log!Spec => Log!SettledIsFinal
<1> DEFINE Over(x) == /\ LogStatus[x] \in Decisions
                      /\ \A r \in Requests : ~(LogClaim[r] # NoClaim /\ LogClaim[r].item = x)
<1>1. Log!TypeOK /\ [Log!Next]_(Log!vars) =>
        [\A x \in Recommendations : Log!Settled(x) =>
            LogStatus'[x] = LogStatus[x] /\ Log!Settled(x)']_(Log!vars)
  <2> SUFFICES ASSUME Log!TypeOK, [Log!Next]_(Log!vars),
                      NEW x \in Recommendations, Log!Settled(x)
               PROVE  LogStatus'[x] = LogStatus[x] /\ Log!Settled(x)'
    OBVIOUS
  <2>1. /\ LogStatus \in [Recommendations -> Decisions \union {"ABSENT", "PENDING"}]
        /\ LogClaim \in [Requests -> [item : Recommendations, decision : Decisions] \union {NoClaim}]
    BY DEF Log!TypeOK, Log!Claims, LogStatus, LogClaim
  <2>2. Over(x)
    BY DEF Log!Settled, Log!Claimed, LogStatus, LogClaim
  <2>3. LogStatus'[x] = LogStatus[x] /\ Over(x)'
    BY <2>1, <2>2, LogSteps DEF Decisions
  <2>4. QED BY <2>3 DEF Log!Settled, Log!Claimed, LogStatus, LogClaim
<1>2. QED BY <1>1, DecisionTypeCorrect, PTL DEF Log!Spec, Log!SettledIsFinal, LogStatus

\* A decision on a recommendation that no unfinished request could overwrite is
\* final, by the theorem about DecisionLog and the refinement.
THEOREM ShippingDecisionsSettle == Spec => DecisionsSettle
BY ShippingImplementsDecisionLog, SettledDecisionsAreFinal, PTL
   DEF DecisionsSettle, ImplementsDecisionLog
=============================================================================
