------------------------- MODULE ScenarioServiceProofs -------------------------
(***************************************************************************)
(* The safety properties of ScenarioService for every number of requests,  *)
(* uploads, connections, scenarios and unions.                             *)
(*                                                                         *)
(* A step gives one request r a new phase x.  Good says of x all that the  *)
(* properties need, and Follows what the table may do under the phases of  *)
(* the others; EveryStep shows it of each action, StepKeepsInv concludes.  *)
(***************************************************************************)
EXTENDS ScenarioService, FiniteSetTheorems, TLAPS

All == Requests \union Uploads

Phases == {Idle} \union NewRequest \union RowRequest \union LoadedRequest
          \union UploadRequest \union AdviceRequest \union AnsweredNew \union Answered

\* Row i of table s is the scenario of that union, or deleted.
OfUnion(s, i, u) == s[i] = Deleted \/ (s[i] \in Rows /\ s[i].union = u)

\* What a request in phase x knows of table s: the row it loaded is of its
\* union, the row it answered is stored.
Good(x, s) ==
    /\ x \in Phases
    /\ x \in RowRequest \union LoadedRequest /\ x.op = "save" => x.name \in Names
    /\ x \in LoadedRequest => OfUnion(s, x.id, x.union)
    /\ x \in AnsweredNew =>
          /\ OfUnion(s, x.id, x.union)
          /\ s[x.id] = Deleted \/ s[x.id].advice = x.advice

\* From table s to table t rows are added, renamed and deleted.
Follows(s, t) ==
    \A i \in Ids : s[i] # Unused =>
        \/ t[i] = Deleted
        \/ /\ s[i] \in Rows /\ t[i] \in Rows
           /\ t[i].union = s[i].union /\ t[i].advice = s[i].advice

Busy(x) == x.pc \in {"load", "body", "commit"}

Inv ==
    /\ scn \in [Ids -> Rows \union {Unused, Deleted}]
    /\ DOMAIN req = All
    /\ req = [r \in All |-> req[r]]
    /\ \A r \in All : Good(req[r], scn)
    /\ conn = {r \in All : Busy(req[r])}
    /\ Cardinality(conn) <= PoolSize

\* Request r goes to phase x.
StepOf(r, x) ==
    /\ req' = [req EXCEPT ![r] = x]
    /\ Good(x, scn')
    /\ Follows(scn, scn')
    /\ scn' \in [Ids -> Rows \union {Unused, Deleted}]
    /\ \/ conn' = conn /\ (Busy(x) <=> Busy(req[r]))
       \/ conn' = conn \ {r} /\ ~Busy(x)
       \/ conn' = conn \union {r} /\ Busy(x) /\ ~Full

Codes == {200, 201, 204, 404, 500, 503}

\* Request r is answered with status c.
Ends(r, c) ==
    /\ req' = [req EXCEPT ![r] = Done(c)]
    /\ Follows(scn, scn')
    /\ scn' \in [Ids -> Rows \union {Unused, Deleted}]
    /\ conn' = conn \ {r} \/ (conn' = conn /\ ~Busy(req[r]))

\* What a request knows stays true while rows are added, renamed and deleted.
LEMMA GoodStays ==
    ASSUME NEW s, NEW t, NEW x, Good(x, s), Follows(s, t)
    PROVE  Good(x, t)
<1>1. ASSUME NEW i \in Ids, NEW u, OfUnion(s, i, u)
      PROVE  /\ OfUnion(t, i, u)
             /\ t[i] = Deleted \/ (s[i] # Deleted /\ t[i].advice = s[i].advice)
  BY <1>1, ScenarioAssumption DEF OfUnion, Follows
<1>2. x \in LoadedRequest => OfUnion(t, x.id, x.union)
  BY <1>1 DEF Good, LoadedRequest
<1>3. x \in AnsweredNew => /\ OfUnion(t, x.id, x.union)
                           /\ t[x.id] = Deleted \/ t[x.id].advice = x.advice
  BY <1>1 DEF Good, AnsweredNew
<1>4. QED BY <1>2, <1>3 DEF Good

\* A table that does not change follows itself.
LEMMA FollowsItself ==
    ASSUME Inv
    PROVE  Follows(scn, scn)
BY DEF Inv, Follows

\* An answer without a scenario promises nothing.
LEMMA DoneIsGood ==
    ASSUME NEW c \in Codes, NEW s
    PROVE  Good(Done(c), s) /\ ~Busy(Done(c))
<1>1. Done(c) \in Answered
  BY DEF Done, Answered, Codes
<1>2. Done(c) \notin RowRequest \union LoadedRequest
  BY DEF Done, RowRequest, LoadedRequest
<1>3. ASSUME Done(c) \in AnsweredNew PROVE FALSE
  <2>1. DOMAIN Done(c) = {"pc", "status"}
    BY DEF Done
  <2>2. DOMAIN Done(c) = {"pc", "id", "union", "advice"}
    BY <1>3 DEF AnsweredNew
  <2>3. "status" \in {"pc", "id", "union", "advice"}
    BY <2>1, <2>2
  <2>4. QED BY <2>3
<1>4. QED BY <1>1, <1>2, <1>3 DEF Good, Phases, Busy, Done

\* The data a request has in each phase.
LEMMA PhaseData ==
    ASSUME Inv, NEW r \in All
    PROVE  /\ req[r].pc = "ask" => req[r] \in NewRequest \union AdviceRequest
           /\ req[r].pc = "connect" => req[r] \in NewRequest \union RowRequest \union UploadRequest
           /\ req[r].pc = "load" => req[r] \in RowRequest \union UploadRequest
           /\ req[r].pc = "body" => req[r] \in UploadRequest
           /\ req[r].pc = "commit" => req[r] \in NewRequest \union LoadedRequest \union UploadRequest
<1>1. req[r] \in Phases
  BY DEF Inv, Good
<1>2. QED
  BY <1>1 DEF Phases, Idle, NewRequest, RowRequest, LoadedRequest, UploadRequest, AdviceRequest,
     AnsweredNew, Answered

\* Phases of new scenarios, of uploads and of advice know nothing of the table.
LEMMA NewIsGood ==
    ASSUME NEW x \in NewRequest \union UploadRequest \union AdviceRequest, NEW s
    PROVE  Good(x, s)
<1>1. x \in Phases
  BY DEF Phases
<1>2. x \notin RowRequest \union LoadedRequest \union AnsweredNew
  BY DEF NewRequest, UploadRequest, AdviceRequest, RowRequest, LoadedRequest, AnsweredNew
<1>3. QED BY <1>1, <1>2 DEF Good

\* One step per action: each takes one request to a phase that is good.
LEMMA EveryStep ==
    ASSUME Inv, Next
    PROVE  \E r \in All : \E x : StepOf(r, x)
<1>0. /\ scn \in [Ids -> Rows \union {Unused, Deleted}]
      /\ DOMAIN req = All /\ Follows(scn, scn)
      /\ \A r \in All : Good(req[r], scn)
      /\ conn = {r \in All : Busy(req[r])}
  BY FollowsItself DEF Inv
<1>1. ASSUME NEW r \in All, NEW x, req' = [req EXCEPT ![r] = x], Good(x, scn),
             UNCHANGED <<scn, conn>>, Busy(x) <=> Busy(req[r])
      PROVE  StepOf(r, x)
  BY <1>0, <1>1 DEF StepOf
<1>2. ASSUME NEW r \in All, NEW u \in Unions, NEW n \in Names, ArriveNew(r, u, n)
      PROVE  \E x : StepOf(r, x)
  <2> DEFINE x == [pc |-> IF Configured THEN "ask" ELSE "connect", op |-> "new",
                   union |-> u, name |-> n, advice |-> Null]
  <2>1. x \in NewRequest /\ ~Busy(x)
    BY DEF NewRequest, Busy
  <2>2. ~Busy(req[r]) /\ req' = [req EXCEPT ![r] = x] /\ UNCHANGED <<scn, conn>>
    BY <1>2 DEF ArriveNew, Free, Busy
  <2> HIDE DEF x
  <2>3. QED BY <1>1, <2>1, <2>2, NewIsGood
<1>3. ASSUME NEW r \in All, ArriveForAdvice(r) PROVE \E x : StepOf(r, x)
  <2> DEFINE x == [pc |-> "ask", op |-> "advice"]
  <2>1. x \in AdviceRequest /\ ~Busy(x)
    BY DEF AdviceRequest, Busy
  <2>2. ~Busy(req[r]) /\ req' = [req EXCEPT ![r] = x] /\ UNCHANGED <<scn, conn>>
    BY <1>3 DEF ArriveForAdvice, Free, Busy
  <2> HIDE DEF x
  <2>3. QED BY <1>1, <2>1, <2>2, NewIsGood
<1>4. ASSUME NEW r \in All, NEW op \in {"save", "delete"}, NEW u \in Unions, NEW i \in Ids,
             NEW n \in Names \union {Null}, op = "save" => n \in Names, ArriveForRow(r, op, u, i, n)
      PROVE  \E x : StepOf(r, x)
  <2> DEFINE x == [pc |-> "connect", op |-> op, union |-> u, id |-> i, name |-> n]
  <2>1. x \in RowRequest /\ ~Busy(x) /\ x.op = op /\ x.name = n
    BY DEF RowRequest, Busy
  <2>2. ~Busy(req[r]) /\ req' = [req EXCEPT ![r] = x] /\ UNCHANGED <<scn, conn>>
    BY <1>4 DEF ArriveForRow, Free, Busy
  <2> HIDE DEF x
  <2>3. x \notin LoadedRequest \union AnsweredNew
    BY <2>1 DEF RowRequest, LoadedRequest, AnsweredNew
  <2>4. Good(x, scn)
    BY <1>4, <2>1, <2>3 DEF Good, Phases
  <2>5. QED BY <1>1, <2>1, <2>2, <2>4
<1>5. ASSUME NEW r \in All, ArriveUpload(r) PROVE \E x : StepOf(r, x)
  <2> DEFINE x == [pc |-> "connect", op |-> "upload"]
  <2>1. x \in UploadRequest /\ ~Busy(x)
    BY DEF UploadRequest, Busy
  <2>2. ~Busy(req[r]) /\ req' = [req EXCEPT ![r] = x] /\ UNCHANGED <<scn, conn>>
    BY <1>5 DEF ArriveUpload, Free, Busy
  <2> HIDE DEF x
  <2>3. QED BY <1>1, <2>1, <2>2, NewIsGood
<1>6. ASSUME NEW r \in All, NEW c \in Codes, Ends(r, c) PROVE \E x : StepOf(r, x)
  <2>1. Good(Done(c), scn') /\ ~Busy(Done(c))
    BY DoneIsGood
  <2>2. StepOf(r, Done(c))
    BY <1>6, <2>1 DEF StepOf, Ends
  <2>3. QED BY <2>2
<1>7. ASSUME NEW r \in All, GeminiFails(r) PROVE \E x : StepOf(r, x)
  <2>1. ~Busy(req[r]) /\ UNCHANGED <<scn, conn>>
    BY <1>7 DEF GeminiFails, Busy
  <2>2. CASE req[r].op = "new"
    <3> DEFINE x == [req[r] EXCEPT !.pc = "connect"]
    <3>1. x \in NewRequest /\ ~Busy(x)
      BY <1>7, <2>2, PhaseData DEF GeminiFails, NewRequest, AdviceRequest, Busy
    <3>2. req' = [req EXCEPT ![r] = x]
      BY <1>0, <1>7, <2>2 DEF GeminiFails
    <3> HIDE DEF x
    <3>3. QED BY <1>1, <2>1, <3>1, <3>2, NewIsGood
  <2>3. CASE req[r].op # "new"
    <3>1. req' = [req EXCEPT ![r] = Done(503)]
      BY <1>0, <1>7, <2>3 DEF GeminiFails
    <3>2. Ends(r, 503) /\ 503 \in Codes
      BY <1>0, <2>1, <3>1 DEF Ends, Codes
    <3>3. QED BY <1>6, <3>2
  <2>4. QED BY <2>2, <2>3
<1>8. ASSUME NEW r \in All, NEW a \in Advice, GeminiAnswers(r, a) PROVE \E x : StepOf(r, x)
  <2>1. ~Busy(req[r]) /\ UNCHANGED <<scn, conn>>
    BY <1>8 DEF GeminiAnswers, Busy
  <2>2. CASE req[r].op = "new"
    <3> DEFINE x == [req[r] EXCEPT !.pc = "connect", !.advice = a]
    <3>1. x \in NewRequest /\ ~Busy(x)
      BY <1>8, <2>2, PhaseData DEF GeminiAnswers, NewRequest, AdviceRequest, Busy
    <3>2. req' = [req EXCEPT ![r] = x]
      BY <1>0, <1>8, <2>2 DEF GeminiAnswers
    <3> HIDE DEF x
    <3>3. QED BY <1>1, <2>1, <3>1, <3>2, NewIsGood
  <2>3. CASE req[r].op # "new"
    <3>1. req' = [req EXCEPT ![r] = Done(200)]
      BY <1>0, <1>8, <2>3 DEF GeminiAnswers
    <3>2. Ends(r, 200) /\ 200 \in Codes
      BY <1>0, <2>1, <3>1 DEF Ends, Codes
    <3>3. QED BY <1>6, <3>2
  <2>4. QED BY <2>2, <2>3
<1>9. ASSUME NEW r \in All, Connect(r) PROVE \E x : StepOf(r, x)
  <2> DEFINE x == [req[r] EXCEPT !.pc = IF req[r].op = "new" THEN "commit" ELSE "load"]
  <2>1. /\ req' = [req EXCEPT ![r] = x] /\ scn' = scn /\ conn' = conn \union {r} /\ ~Full
    BY <1>0, <1>9 DEF Connect
  <2>2. req[r] \in NewRequest \union RowRequest \union UploadRequest
    BY <1>9, PhaseData DEF Connect
  <2>3. Busy(x)
    BY <2>2 DEF Busy, NewRequest, RowRequest, UploadRequest
  <2>4. Good(x, scn)
    <3>1. CASE req[r] \in NewRequest \union UploadRequest
      <4>1. x \in NewRequest \union UploadRequest
        BY <3>1 DEF NewRequest, UploadRequest
      <4> HIDE DEF x
      <4>2. QED BY <4>1, NewIsGood
    <3>2. CASE req[r] \in RowRequest
      <4>1. x \in RowRequest /\ x.op = req[r].op /\ x.name = req[r].name
        BY <3>2 DEF RowRequest
      <4>2. req[r].op = "save" => req[r].name \in Names
        BY <1>0, <3>2 DEF Good
      <4> HIDE DEF x
      <4>3. x \notin LoadedRequest \union AnsweredNew
        BY <4>1 DEF RowRequest, LoadedRequest, AnsweredNew
      <4>4. QED BY <4>1, <4>2, <4>3 DEF Good, Phases
    <3>3. QED BY <2>2, <3>1, <3>2
  <2> HIDE DEF x
  <2>5. QED BY <1>0, <2>1, <2>3, <2>4 DEF StepOf
<1>10. ASSUME NEW r \in All, ConnectTimeout(r) PROVE \E x : StepOf(r, x)
  <2>1. /\ req' = [req EXCEPT ![r] = Done(500)] /\ scn' = scn /\ conn' = conn /\ ~Busy(req[r])
    BY <1>10 DEF ConnectTimeout, Busy
  <2>2. Ends(r, 500) /\ 500 \in Codes
    BY <1>0, <2>1 DEF Ends, Codes
  <2>3. QED BY <1>6, <2>2
<1>11. ASSUME NEW r \in All, Load(r) PROVE \E x : StepOf(r, x)
  <2> DEFINE i == req[r].id
             x == [pc |-> "commit", op |-> req[r].op, union |-> req[r].union,
                   id |-> i, name |-> req[r].name, loaded |-> scn[i]]
  <2>1. CASE Stored(i) /\ scn[i].union = req[r].union
    <3>1. /\ req' = [req EXCEPT ![r] = x] /\ scn' = scn /\ conn' = conn /\ Busy(req[r])
      BY <1>0, <1>11, <2>1 DEF Load, Busy
    <3>2. req[r] \in RowRequest
      BY <1>11, PhaseData DEF Load, UploadRequest
    <3>3. scn[i] \in Rows /\ i \in Ids
      BY <1>0, <2>1, <3>2 DEF RowRequest, Stored
    <3>4. /\ x \in LoadedRequest /\ Busy(x) /\ x.id = i /\ x.union = req[r].union
          /\ x.op = req[r].op /\ x.name = req[r].name
      BY <3>2, <3>3 DEF LoadedRequest, RowRequest, Busy
    <3>5. req[r].op = "save" => req[r].name \in Names
      BY <1>0, <3>2 DEF Good
    <3> HIDE DEF x
    <3>6. x \notin AnsweredNew
      BY <3>4 DEF LoadedRequest, AnsweredNew
    <3>7. Good(x, scn)
      BY <2>1, <3>3, <3>4, <3>5, <3>6 DEF Good, Phases, OfUnion
    <3>8. QED BY <1>1, <3>1, <3>4, <3>7
  <2>2. CASE ~(Stored(i) /\ scn[i].union = req[r].union)
    <3>1. req' = [req EXCEPT ![r] = Done(404)] /\ scn' = scn /\ conn' = conn \ {r}
      BY <1>11, <2>2 DEF Load, Answer
    <3>2. Ends(r, 404) /\ 404 \in Codes
      BY <1>0, <3>1 DEF Ends, Codes
    <3>3. QED BY <1>6, <3>2
  <2>3. QED BY <2>1, <2>2
<1>12. ASSUME NEW r \in All, LoadUpload(r) \/ ReceiveBody(r) PROVE \E x : StepOf(r, x)
  <2>1. PICK pc \in {"body", "commit"} :
          req' = [req EXCEPT ![r] = [req[r] EXCEPT !.pc = pc]]
    BY <1>0, <1>12 DEF LoadUpload, ReceiveBody
  <2>2. UNCHANGED <<scn, conn>> /\ Busy(req[r]) /\ req[r] \in UploadRequest
    BY <1>12, PhaseData DEF LoadUpload, ReceiveBody, Busy, RowRequest
  <2> DEFINE x == [req[r] EXCEPT !.pc = pc]
  <2>3. x \in UploadRequest /\ Busy(x)
    BY <2>2 DEF UploadRequest, Busy
  <2> HIDE DEF x
  <2>4. Good(x, scn)
    BY <2>3, NewIsGood
  <2>5. QED BY <1>1, <2>1, <2>2, <2>3, <2>4 DEF x
<1>13. ASSUME NEW r \in All, CommitUpload(r) \/ Fail(r) PROVE \E x : StepOf(r, x)
  <2>1. PICK c \in {200, 500} : req' = [req EXCEPT ![r] = Done(c)]
    BY <1>13 DEF CommitUpload, Fail, Answer
  <2>2. scn' = scn /\ conn' = conn \ {r}
    BY <1>13 DEF CommitUpload, Fail, Answer
  <2>3. Ends(r, c) /\ c \in Codes
    BY <1>0, <2>1, <2>2 DEF Ends, Codes
  <2>4. QED BY <1>6, <2>3
<1>14. ASSUME NEW r \in All, NEW i \in Ids, CommitNew(r, i) PROVE \E x : StepOf(r, x)
  <2> DEFINE x == Created(r, i)
             row == [union |-> req[r].union, name |-> req[r].name, advice |-> req[r].advice]
  <2>1. req[r] \in NewRequest
    BY <1>14, PhaseData DEF CommitNew, LoadedRequest, UploadRequest
  <2>2. row \in Rows /\ row.union = req[r].union /\ row.advice = req[r].advice
    BY <2>1 DEF NewRequest, Rows
  <2>3. /\ x \in AnsweredNew /\ ~Busy(x) /\ x.id = i /\ x.union = req[r].union
        /\ x.advice = req[r].advice
    BY <2>1 DEF Created, AnsweredNew, NewRequest, Busy
  <2>4. /\ scn' = [scn EXCEPT ![i] = row] /\ scn[i] = Unused
        /\ req' = [req EXCEPT ![r] = x] /\ conn' = conn \ {r}
    BY <1>14 DEF CommitNew, Answer
  <2> HIDE DEF x, row
  <2>5. scn' \in [Ids -> Rows \union {Unused, Deleted}] /\ scn'[i] = row
    BY <1>0, <2>2, <2>4
  <2>6. Follows(scn, scn')
    BY <1>0, <2>4 DEF Follows
  <2>7. x \notin RowRequest \union LoadedRequest
    BY <2>3 DEF AnsweredNew, RowRequest, LoadedRequest
  <2>8. Good(x, scn')
    BY <2>2, <2>3, <2>5, <2>7 DEF Good, Phases, OfUnion
  <2>9. QED BY <2>3, <2>4, <2>5, <2>6, <2>8 DEF StepOf
<1>15. ASSUME NEW r \in All, CommitSave(r) PROVE \E x : StepOf(r, x)
  <2> DEFINE i == req[r].id
             new == [scn[i] EXCEPT !.name = req[r].name]
  <2>1. req[r] \in LoadedRequest
    BY <1>15, PhaseData DEF CommitSave, NewRequest, UploadRequest
  <2>2. i \in Ids /\ req[r].name \in Names
    BY <1>0, <1>15, <2>1 DEF Good, LoadedRequest, CommitSave
  <2>3. PICK c \in Codes : req' = [req EXCEPT ![r] = Done(c)] /\ conn' = conn \ {r}
    BY <1>15 DEF CommitSave, Answer, Codes
  <2>4. scn' = scn \/ (Stored(i) /\ scn' = [scn EXCEPT ![i] = new])
    BY <1>0, <1>15, <2>2 DEF CommitSave
  <2>5. CASE scn' = scn
    <3>1. Ends(r, c)
      BY <1>0, <2>3, <2>5 DEF Ends
    <3>2. QED BY <1>6, <3>1
  <2>6. CASE Stored(i) /\ scn' = [scn EXCEPT ![i] = new]
    <3>1. scn[i] \in Rows
      BY <1>0, <2>2, <2>6 DEF Stored
    <3>2. new \in Rows /\ new.union = scn[i].union /\ new.advice = scn[i].advice
      BY <2>2, <3>1 DEF Rows
    <3> HIDE DEF new
    <3>3. scn' \in [Ids -> Rows \union {Unused, Deleted}]
      BY <1>0, <2>2, <2>6, <3>2
    <3>4. Follows(scn, scn')
      BY <1>0, <2>2, <2>6, <3>1, <3>2 DEF Follows
    <3>5. Ends(r, c)
      BY <2>3, <3>3, <3>4 DEF Ends
    <3>6. QED BY <1>6, <3>5
  <2>7. QED BY <2>4, <2>5, <2>6
<1>16. ASSUME NEW r \in All, CommitDelete(r) PROVE \E x : StepOf(r, x)
  <2>1. req[r] \in LoadedRequest
    BY <1>16, PhaseData DEF CommitDelete, NewRequest, UploadRequest
  <2>2. req[r].id \in Ids
    BY <2>1 DEF LoadedRequest
  <2>3. /\ req' = [req EXCEPT ![r] = Done(204)] /\ conn' = conn \ {r}
        /\ scn' = [scn EXCEPT ![req[r].id] = Deleted]
    BY <1>16 DEF CommitDelete, Answer
  <2>4. scn' \in [Ids -> Rows \union {Unused, Deleted}]
    BY <1>0, <2>2, <2>3
  <2>5. Follows(scn, scn')
    BY <1>0, <2>2, <2>3 DEF Follows
  <2>6. Ends(r, 204) /\ 204 \in Codes
    BY <2>3, <2>4, <2>5 DEF Ends, Codes
  <2>7. QED BY <1>6, <2>6
<1>17. ASSUME NEW r \in All, Scenario(r) PROVE \E x : StepOf(r, x)
  BY <1>17, <1>7, <1>8, <1>9, <1>10, <1>11, <1>13, <1>14, <1>15, <1>16 DEF Scenario
<1>18. ASSUME NEW r \in All, Upload(r) PROVE \E x : StepOf(r, x)
  BY <1>18, <1>9, <1>10, <1>12, <1>13 DEF Upload
<1>19. QED
  <2>1. CASE \E r \in Requests :
               \/ Scenario(r)
               \/ \E u \in Unions, n \in Names : ArriveNew(r, u, n)
               \/ ArriveForAdvice(r)
               \/ \E u \in Unions, i \in Ids, n \in Names : ArriveForRow(r, "save", u, i, n)
               \/ \E u \in Unions, i \in Ids : ArriveForRow(r, "delete", u, i, Null)
    BY <2>1, <1>2, <1>3, <1>4, <1>17 DEF All
  <2>2. CASE \E r \in Uploads :
               \/ Upload(r)
               \/ ArriveUpload(r)
               \/ ReceiveBody(r)
               \/ req[r].pc = "body" /\ Fail(r)
    BY <2>2, <1>5, <1>12, <1>13, <1>18 DEF All
  <2>3. QED BY <2>1, <2>2 DEF Next

\* The inductive invariant, after any step.
LEMMA StepKeepsInv ==
    ASSUME Inv, NEW r \in All, NEW x, StepOf(r, x)
    PROVE  Inv'
<1>0. /\ DOMAIN req = All
      /\ \A q \in All : Good(req[q], scn)
      /\ conn = {q \in All : Busy(req[q])}
      /\ Cardinality(conn) <= PoolSize
  BY DEF Inv
<1>1. /\ req' = [req EXCEPT ![r] = x] /\ Good(x, scn') /\ Follows(scn, scn')
      /\ scn' \in [Ids -> Rows \union {Unused, Deleted}]
  BY DEF StepOf
<1>2. DOMAIN req' = All /\ req' = [q \in All |-> req'[q]] /\ req'[r] = x
  BY <1>0, <1>1
<1>3. \A q \in All \ {r} : req'[q] = req[q]
  BY <1>0, <1>1
<1>4. \A q \in All : Good(req'[q], scn')
  BY <1>0, <1>1, <1>2, <1>3, GoodStays
<1>5. \A q \in All : q \in conn <=> Busy(req[q])
  BY <1>0
<1>6. conn' = {q \in All : Busy(req'[q])}
  <2>1. conn' \subseteq All
    BY <1>0 DEF StepOf
  <2>2. \A q \in All : q \in conn' <=> Busy(req'[q])
    BY <1>2, <1>3, <1>5 DEF StepOf
  <2>3. QED BY <2>1, <2>2
<1>7. IsFiniteSet(All)
  BY ScenarioAssumption, FS_Union DEF All
<1>8. IsFiniteSet(conn)
  BY <1>0, <1>7, FS_Subset
<1>9. Cardinality(conn') <= PoolSize
  <2>0. PoolSize \in Nat /\ Cardinality(conn) \in Nat
    BY <1>8, FS_CardinalityType, ScenarioAssumption
  <2>1. CASE conn' = conn
    BY <1>0, <2>1
  <2>2. CASE conn' = conn \ {r}
    <3>1. IsFiniteSet(conn') /\ Cardinality(conn') <= Cardinality(conn)
      BY <1>8, <2>2, FS_Subset
    <3>2. Cardinality(conn') \in Nat
      BY <3>1, FS_CardinalityType
    <3>3. QED BY <1>0, <2>0, <3>1, <3>2
  <2>3. CASE conn' = conn \union {r} /\ ~Full
    <3>1. Cardinality(conn') \in {Cardinality(conn), Cardinality(conn) + 1}
      BY <1>8, <2>3, FS_AddElement
    <3>2. QED BY <2>0, <2>3, <3>1 DEF Full
  <2>4. QED BY <2>1, <2>2, <2>3 DEF StepOf
<1>10. QED BY <1>1, <1>2, <1>4, <1>6, <1>9 DEF Inv

\* Whatever the requests do, their phases stay good.
LEMMA InvHolds == Spec => []Inv
<1>1. Init => Inv
  <2> SUFFICES ASSUME Init PROVE Inv
    OBVIOUS
  <2>1. Good(Idle, scn) /\ ~Busy(Idle)
    BY DEF Good, Phases, Idle, RowRequest, LoadedRequest, AnsweredNew, Busy
  <2>2. req = [r \in All |-> Idle] /\ conn = {}
    BY DEF Init, All
  <2>3. \A r \in All : req[r] = Idle
    BY <2>2
  <2>4. Cardinality(conn) <= PoolSize
    BY <2>2, FS_EmptySet, ScenarioAssumption
  <2>5. QED BY <2>1, <2>2, <2>3, <2>4 DEF Inv, Init
<1>2. Inv /\ [Next]_vars => Inv'
  <2>1. Inv /\ Next => Inv'
    BY EveryStep, StepKeepsInv
  <2>2. Inv /\ UNCHANGED vars => Inv'
    BY DEF Inv, vars
  <2>3. QED BY <2>1, <2>2
<1>3. QED BY <1>1, <1>2, PTL DEF Spec

\* Rows and requests keep the shapes of their phases.
THEOREM ScenarioTypeCorrect == Spec => []TypeOK
<1>1. Inv => TypeOK
  BY DEF Inv, TypeOK, Good, Phases, All
<1>2. QED BY <1>1, InvHolds, PTL

\* Every connection out of the pool is one of a request at its statements, and
\* the pool is never overdrawn, however large it is.
THEOREM ConnectionsReturn == Spec => []ConnectionsAccountedFor
<1>1. Inv => ConnectionsAccountedFor
  BY DEF Inv, ConnectionsAccountedFor, Busy, All
<1>2. QED BY <1>1, InvHolds, PTL

\* A new scenario stays under the id that was answered until it is deleted.
THEOREM AnswersAreStored == Spec => []AnsweredIsStored
<1>1. Inv => AnsweredIsStored
  <2> SUFFICES ASSUME Inv, NEW r \in Requests, req[r] \in AnsweredNew
               PROVE  \/ scn[req[r].id] = Deleted
                      \/ /\ scn[req[r].id] \in Rows
                         /\ scn[req[r].id].union = req[r].union
                         /\ scn[req[r].id].advice = req[r].advice
    BY DEF AnsweredIsStored
  <2>1. Good(req[r], scn)
    BY DEF Inv, All
  <2>2. QED BY <2>1 DEF Good, OfUnion
<1>2. QED BY <1>1, InvHolds, PTL

\* What a step does to a row that is stored or deleted.
LEMMA StepsFollow ==
    ASSUME Inv, [Next]_vars
    PROVE  Follows(scn, scn')
<1>1. CASE Next
  BY <1>1, EveryStep DEF StepOf
<1>2. CASE UNCHANGED vars
  BY <1>2, FollowsItself DEF vars
<1>3. QED BY <1>1, <1>2

\* No commit brings a deleted scenario back, also one of a request that loaded it
\* before.
THEOREM DeletionsAreFinal == Spec => DeletedStaysDeleted
<1>1. Inv /\ [Next]_vars => [\A i \in Ids : scn[i] = Deleted => scn'[i] = Deleted]_vars
  BY StepsFollow, ScenarioAssumption DEF Follows
<1>2. QED BY <1>1, InvHolds, PTL DEF Spec, DeletedStaysDeleted

\* SAVED is answered to a rename only when the row bears the new name.
THEOREM RenamesAreStored == Spec => RenameAnsweredIsStored
<1>1. Inv /\ [Next]_vars =>
        [\A r \in Requests :
           req[r].pc = "commit" /\ req[r].op = "save" /\ req'[r].pc = "done" /\ req'[r].status = 201
             => \/ req[r].name = req[r].loaded.name
                \/ scn'[req[r].id] \in Rows /\ scn'[req[r].id].name = req[r].name]_vars
  <2> SUFFICES ASSUME Inv, Next, NEW r \in Requests, req[r].pc = "commit", req[r].op = "save",
                      req'[r].pc = "done", req'[r].status = 201,
                      req[r].name # req[r].loaded.name
               PROVE  scn'[req[r].id] \in Rows /\ scn'[req[r].id].name = req[r].name
    OBVIOUS
  <2>0. DOMAIN req = All /\ r \in All /\ req[r].pc = "commit" /\ req'[r].pc # "commit"
    BY DEF Inv, All
  <2>1. ASSUME NEW q, q # r, NEW x, req' = [req EXCEPT ![q] = x] PROVE FALSE
    BY <2>0, <2>1
  <2>2. ASSUME NEW q, ConnectTimeout(q) \/ Connect(q) \/ LoadUpload(q) \/ ReceiveBody(q)
        PROVE  FALSE
    <3>1. q # r
      BY <2>0, <2>2 DEF ConnectTimeout, Connect, LoadUpload, ReceiveBody
    <3>2. \E x : req' = [req EXCEPT ![q] = x]
      BY <2>2 DEF ConnectTimeout, Connect, LoadUpload, ReceiveBody
    <3>3. QED BY <2>1, <3>1, <3>2
  <2>3. ASSUME NEW q, NEW a, GeminiFails(q) \/ GeminiAnswers(q, a) PROVE FALSE
    <3>1. q # r
      BY <2>0, <2>3 DEF GeminiFails, GeminiAnswers
    <3>2. \E x : req' = [req EXCEPT ![q] = x]
      BY <2>3 DEF GeminiFails, GeminiAnswers
    <3>3. QED BY <2>1, <3>1, <3>2
  <2>4. ASSUME NEW q, Load(q) PROVE FALSE
    <3>1. q # r
      BY <2>0, <2>4 DEF Load
    <3>2. \E x : req' = [req EXCEPT ![q] = x]
      BY <2>4 DEF Load, Answer
    <3>3. QED BY <2>1, <3>1, <3>2
  <2>5. ASSUME NEW q, NEW u, NEW n, NEW i, NEW op,
               ArriveNew(q, u, n) \/ ArriveForAdvice(q) \/ ArriveForRow(q, op, u, i, n)
               \/ ArriveUpload(q)
        PROVE  FALSE
    <3>1. q # r
      BY <2>0, <2>5 DEF ArriveNew, ArriveForAdvice, ArriveForRow, ArriveUpload, Free
    <3>2. \E x : req' = [req EXCEPT ![q] = x]
      BY <2>5 DEF ArriveNew, ArriveForAdvice, ArriveForRow, ArriveUpload
    <3>3. QED BY <2>1, <3>1, <3>2
  <2>6. ASSUME NEW q, NEW i, CommitNew(q, i) \/ CommitUpload(q) \/ CommitDelete(q) PROVE FALSE
    <3>1. q # r
      BY <2>6 DEF CommitNew, CommitUpload, CommitDelete
    <3>2. \E x : req' = [req EXCEPT ![q] = x]
      BY <2>6 DEF CommitNew, CommitUpload, CommitDelete, Answer
    <3>3. QED BY <2>1, <3>1, <3>2
  <2>7. ASSUME NEW q, Fail(q) PROVE FALSE
    <3>1. req' = [req EXCEPT ![q] = Done(500)]
      BY <2>7 DEF Fail, Answer
    <3>2. q = r
      BY <2>1, <3>1
    <3>3. QED BY <2>0, <3>1, <3>2 DEF Done
  <2>8. PICK q \in Requests : CommitSave(q)
    BY <2>2, <2>3, <2>4, <2>5, <2>6, <2>7 DEF Next, Scenario, Upload
  <2>9. q = r
    <3>1. \E x : req' = [req EXCEPT ![q] = x]
      BY <2>8 DEF CommitSave, Answer
    <3>2. QED BY <2>1, <3>1
  <2>10. \/ Stored(req[r].id) /\ scn' = [scn EXCEPT ![req[r].id].name = req[r].name]
         \/ req'[r] = Done(500)
    BY <2>0, <2>8, <2>9 DEF CommitSave, Answer
  <2>11. Stored(req[r].id) /\ scn' = [scn EXCEPT ![req[r].id].name = req[r].name]
    BY <2>10 DEF Done
  <2>12. req[r] \in LoadedRequest /\ Good(req[r], scn)
    BY <2>0, PhaseData DEF Inv, NewRequest, UploadRequest
  <2>13. req[r].id \in Ids /\ req[r].name \in Names
    BY <2>12 DEF Good, LoadedRequest
  <2>14. scn \in [Ids -> Rows \union {Unused, Deleted}] /\ scn[req[r].id] \in Rows
    BY <2>11, <2>13 DEF Inv, Stored
  <2>15. QED BY <2>11, <2>13, <2>14 DEF Rows
<1>2. QED BY <1>1, InvHolds, PTL DEF Spec, RenameAnsweredIsStored

\* Only requests of a scenario's own union rename or delete it.
THEOREM OwnUnionChanges == Spec => ChangedByOwnUnion
<1>1. Inv /\ [Next]_vars =>
        [\A i \in Ids : scn[i] \in Rows /\ scn'[i] # scn[i] =>
           \E r \in Requests : /\ req[r].pc = "commit" /\ req[r].op \in {"save", "delete"}
                               /\ req[r].id = i /\ req[r].union = scn[i].union
                               /\ req'[r].pc = "done"]_vars
  <2> SUFFICES ASSUME Inv, Next, NEW i \in Ids, scn[i] \in Rows, scn'[i] # scn[i]
               PROVE  \E r \in Requests : /\ req[r].pc = "commit" /\ req[r].op \in {"save", "delete"}
                                          /\ req[r].id = i /\ req[r].union = scn[i].union
                                          /\ req'[r].pc = "done"
    OBVIOUS
  <2>1. /\ scn \in [Ids -> Rows \union {Unused, Deleted}] /\ DOMAIN req = All
        /\ \A r \in All : Good(req[r], scn)
    BY DEF Inv
  <2>2. PICK r \in Requests : (\E j \in Ids : CommitNew(r, j)) \/ CommitSave(r) \/ CommitDelete(r)
    BY DEF Next, Scenario, Upload, ArriveNew, ArriveForAdvice, ArriveForRow, ArriveUpload,
       GeminiFails, GeminiAnswers, Connect, ConnectTimeout, Load, LoadUpload, ReceiveBody,
       CommitUpload, Fail
  <2>3. ASSUME NEW j \in Ids, CommitNew(r, j) PROVE FALSE
    <3>1. i # j /\ scn[j] = Unused
      BY <2>3, ScenarioAssumption DEF CommitNew
    <3>2. QED BY <2>1, <2>3, <3>1 DEF CommitNew
  <2>4. /\ req[r].pc = "commit" /\ req[r].op \in {"save", "delete"}
        /\ req'[r].pc = "done"
    BY <2>1, <2>2, <2>3 DEF CommitSave, CommitDelete, Answer, Done, All
  <2>5. req[r].id = i
    BY <2>1, <2>2, <2>3 DEF CommitSave, CommitDelete
  <2>6. req[r] \in LoadedRequest
    BY <2>4, PhaseData DEF All, NewRequest, UploadRequest
  <2>7. OfUnion(scn, i, req[r].union)
    BY <2>1, <2>5, <2>6 DEF Good, All
  <2>8. req[r].union = scn[i].union
    BY <2>7, ScenarioAssumption DEF OfUnion
  <2>9. QED BY <2>4, <2>5, <2>8
<1>2. QED BY <1>1, InvHolds, PTL DEF Spec, ChangedByOwnUnion
=============================================================================
