-------------------------- MODULE ApprovalsProofs --------------------------
(***************************************************************************)
(* Proofs about the approval queue and the mailed tokens.                   *)
(*                                                                          *)
(* The types need that a token that is about to be marked or deleted was    *)
(* sent (Sent).  What the sweeps change late rests on what they found when  *)
(* they looked (Late), which holds of a client that applies "lt".  How often *)
(* a token serves rests on the filter "is": once it is used no listener     *)
(* validates it again, and each of those that had is about to mark it once  *)
(* (OncePerListener).  For the client that drops these filters both fail.   *)
(***************************************************************************)
EXTENDS Approvals, FiniteSetTheorems, TLAPS

SentRows == [state : {"unsent", "fresh", "used", "gone"}, due : Nat, about : Requests]

(* What a call or the clean-up holds was sent. *)
Sent ==
    /\ \A c \in Callers :
         call[c].step = "mark" => token[call[c].token].state # "unsent"
    /\ \A t \in cleaning : token[t].state # "unsent"

TypeInv == ApprovalsTypeOK /\ Sent

(* What a sweep has found is overdue and stays so, and the watchdog deals   *)
(* with agents that have been silent.                                       *)
Late ==
    /\ \A r \in expiring : request[r].status # "none" /\ request[r].due < now
    /\ silent \subseteq lapsed /\ stale \subseteq lapsed
    /\ \A r \in dropping : AgentOf[r] \in lapsed
    /\ \A t \in cleaning : token[t].due < now
    /\ SweptLate

(* The listeners that have validated the token and not yet marked it. *)
Answering(t) == {l \in Listeners : call[l].step = "mark" /\ call[l].token = t}

(* A token that was acted on is used or deleted, so that nobody else begins *)
(* to answer with it; those who had begun are one reply per listener.       *)
OncePerListener ==
    \A t \in Tokens :
       /\ acted[t] = 0 \/ token[t].state \in {"used", "gone"}
       /\ acted[t] + Cardinality(Answering(t)) <= Cardinality(Listeners)

-----------------------------------------------------------------------------
(* A step of a call leaves a call, whatever its step is. *)
LEMMA CallTypes ==
    ASSUME NEW x \in Calls
    PROVE  /\ x.step \in {"idle", "mark", "look", "write"}
           /\ x.step = "idle" <=> x = Idle
           /\ x.step = "mark" => x.token \in Tokens /\ x.verdict \in Commands
           /\ x.step \in {"look", "write"} =>
                x.request \in Requests /\ x.verdict \in Decisions
BY DEF Calls, Idle

(* The token table: a token that was sent has a row with an entity. *)
LEMMA TokenTypes ==
    ASSUME NEW x \in TokenRows
    PROVE  /\ x.state \in {"unsent", "fresh", "used", "gone"}
           /\ x.due \in Nat
           /\ x.state # "unsent" => x \in SentRows /\ x.about \in Requests
BY DEF TokenRows, SentRows

(* Marking and deleting keep a token's row a row. *)
LEMMA TokenUpdates ==
    ASSUME NEW x \in SentRows, NEW s \in {"used", "gone"}
    PROVE  /\ [x EXCEPT !.state = s] \in TokenRows
           /\ [x EXCEPT !.state = s].state = s
           /\ [x EXCEPT !.state = s].due = x.due
BY DEF TokenRows, SentRows

(* Settling keeps a request's row a row. *)
LEMMA RowUpdates ==
    ASSUME NEW x \in Rows, NEW s \in {"expired"} \cup Decisions
    PROVE  /\ [x EXCEPT !.status = s] \in Rows
           /\ [x EXCEPT !.status = s].status = s
           /\ [x EXCEPT !.status = s].due = x.due
BY DEF Rows

(* The types and Sent are inductive. *)
THEOREM ApprovalsInductive == Spec => []TypeInv
<1>1. Init => TypeInv
  BY ApprovalsAssumption DEF ApprovalsAssumption, Init, TypeInv, ApprovalsTypeOK,
     Sent, Rows, NoRequest, TokenRows, Unsent, Calls, Idle, Callers
<1>2. TypeInv /\ [Next]_vars => TypeInv'
  <2> SUFFICES ASSUME TypeInv, [Next]_vars PROVE TypeInv'
    OBVIOUS
  <2> USE ApprovalsAssumption DEF ApprovalsAssumption, agentVars
  <2>0. ApprovalsTypeOK /\ Sent
    BY DEF TypeInv
  <2>t. /\ now \in 0 .. MaxTime /\ now \in Nat
        /\ request \in [Requests -> Rows] /\ token \in [Tokens -> TokenRows]
        /\ call \in [Callers -> Calls]
        /\ expiring \subseteq Requests /\ cleaning \subseteq Tokens
        /\ dropping \subseteq Requests
        /\ silent \subseteq Agents /\ stale \subseteq Agents /\ lapsed \subseteq Agents
        /\ acted \in [Tokens -> Nat]
    BY <2>0 DEF ApprovalsTypeOK
  <2>c. \A c \in Callers : call[c] \in Calls
    BY <2>t
  <2>k. \A t \in Tokens : token[t] \in TokenRows
    BY <2>t
  <2>1. CASE Tick
    BY <2>1, <2>0, <2>t DEF Tick, TypeInv, ApprovalsTypeOK, Sent
  <2>2. CASE ExpireLook
    BY <2>2, <2>0, <2>t DEF ExpireLook, TypeInv, ApprovalsTypeOK, Sent
  <2>3. CASE CleanLook
    <3>1. /\ cleaning' \subseteq Tokens
          /\ \A t \in cleaning' : token[t].state # "unsent"
      BY <2>3 DEF CleanLook
    <3> QED
      BY <3>1, <2>3, <2>0, <2>t DEF CleanLook, TypeInv, ApprovalsTypeOK, Sent
  <2>4. CASE AbortSweeps
    BY <2>4, <2>0, <2>t DEF AbortSweeps, TypeInv, ApprovalsTypeOK, Sent
  <2>5. ASSUME NEW r \in Requests, Submit(r) PROVE TypeInv'
    <3>1. Row("pending", now + Timeout) \in Rows
      BY <2>t DEF Row, Rows
    <3>2. request' \in [Requests -> Rows]
      BY <3>1, <2>5, <2>t DEF Submit
    <3> QED
      BY <3>2, <2>5, <2>0, <2>t DEF Submit, TypeInv, ApprovalsTypeOK, Sent
  <2>6. ASSUME NEW r \in Requests, ExpireWrite(r) PROVE TypeInv'
    <3>1. [request[r] EXCEPT !.status = "expired"] \in Rows
      BY RowUpdates, <2>t
    <3>2. request' \in [Requests -> Rows]
      BY <3>1, <2>6, <2>t DEF ExpireWrite
    <3> QED
      BY <3>2, <2>6, <2>0, <2>t DEF ExpireWrite, TypeInv, ApprovalsTypeOK, Sent
  <2>7. ASSUME NEW c \in Callers, NEW x \in Calls, x.step # "mark",
               call' = [call EXCEPT ![c] = x],
               UNCHANGED <<now, expiring, cleaning, acted, token, agentVars>>,
               request' \in [Requests -> Rows]
        PROVE  TypeInv'
    BY <2>7, <2>0, <2>t DEF TypeInv, ApprovalsTypeOK, Sent
  <2>8. ASSUME NEW c \in Callers, NEW r \in Requests, NEW v \in Decisions
        PROVE  LET x == [step |-> "write", request |-> r, verdict |-> v]
               IN  x \in Calls /\ x.step # "mark"
    BY DEF Calls
  <2>9. Idle \in Calls /\ Idle.step # "mark"
    BY DEF Calls, Idle
  <2>10. ASSUME NEW c \in Reviewers, NEW r \in Requests, NEW v \in Decisions,
                DecideLook(c, r, v)
         PROVE  TypeInv'
    <3>1. c \in Callers
      BY DEF Callers
    <3> QED
      BY <3>1, <2>10, <2>8, <2>7, <2>t DEF DecideLook, Found
  <2>11. ASSUME NEW c \in Callers, DecideWrite(c) PROVE TypeInv'
    <3>1. call[c].request \in Requests /\ call[c].verdict \in Decisions
      BY <2>11, <2>c, CallTypes DEF DecideWrite
    <3>2. [request[call[c].request] EXCEPT !.status = call[c].verdict] \in Rows
      BY <3>1, RowUpdates, <2>t
    <3>3. request' \in [Requests -> Rows]
      BY <3>1, <3>2, <2>11, <2>t DEF DecideWrite
    <3> QED
      BY <3>3, <2>11, <2>7, <2>9 DEF DecideWrite
  <2>12. ASSUME NEW c \in Callers, Abort(c) PROVE TypeInv'
    BY <2>12, <2>7, <2>9, <2>t DEF Abort
  <2>13. ASSUME NEW t \in Tokens, NEW r \in Requests, Send(t, r) PROVE TypeInv'
    <3>1. [state |-> "fresh", due |-> now + TokenTTL, about |-> r] \in TokenRows
      BY <2>t DEF TokenRows
    <3>2. token' \in [Tokens -> TokenRows]
      BY <3>1, <2>13, <2>t DEF Send
    <3>3. \A u \in Tokens : token[u].state # "unsent" => token'[u].state # "unsent"
      BY <2>13, <2>t DEF Send
    <3>4. \A c \in Callers : call[c].step = "mark" => call[c].token \in Tokens
      BY <2>c, CallTypes
    <3> QED
      BY <3>2, <3>3, <3>4, <2>13, <2>0, <2>t DEF Send, TypeInv, ApprovalsTypeOK, Sent
  <2>14. ASSUME NEW l \in Listeners, NEW t \in Tokens, NEW v \in Commands,
                ReplyLook(l, t, v)
         PROVE  TypeInv'
    <3>1. /\ [step |-> "mark", token |-> t, verdict |-> v] \in Calls
          /\ l \in Callers
      BY DEF Calls, Callers
    <3>2. token[t].state # "unsent"
      BY <2>14 DEF ReplyLook, Valid
    <3>3. \A c \in Callers :
            call'[c].step = "mark" => token[call'[c].token].state # "unsent"
      BY <3>1, <3>2, <2>14, <2>0, <2>t DEF ReplyLook, Sent
    <3> QED
      BY <3>1, <3>3, <2>14, <2>0, <2>t DEF ReplyLook, TypeInv, ApprovalsTypeOK, Sent
  <2>15. ASSUME NEW l \in Listeners, ReplyMark(l) PROVE TypeInv'
    <3>1. l \in Callers
      BY DEF Callers
    <3> DEFINE t == call[l].token
               there == token[t].state # "gone"
    <3>2. t \in Tokens /\ call[l].verdict \in Commands /\ token[t].state # "unsent"
      BY <3>1, <2>15, <2>0, <2>c, CallTypes DEF ReplyMark, Sent
    <3>3. token[t] \in SentRows /\ token[t].about \in Requests
      BY <3>2, <2>k, TokenTypes
    <3>4. [token[t] EXCEPT !.state = "used"] \in TokenRows
      BY <3>3, TokenUpdates
    <3>5. token' \in [Tokens -> TokenRows]
      BY <3>2, <3>4, <2>15, <2>t DEF ReplyMark
    <3>6. \A u \in Tokens : token[u].state # "unsent" => token'[u].state # "unsent"
      BY <3>2, <3>3, TokenUpdates, <2>15, <2>t DEF ReplyMark
    <3>7. acted' \in [Tokens -> Nat]
      BY <3>2, <2>15, <2>t DEF ReplyMark
    <3>8. PICK x \in Calls : x.step # "mark" /\ call' = [call EXCEPT ![l] = x]
      <4>1. ASSUME there /\ call[l].verdict \in Decisions
            PROVE  LET x == [step |-> "look", request |-> token[t].about,
                             verdict |-> call[l].verdict]
                   IN  x \in Calls /\ x.step # "mark"
        BY <4>1, <3>3 DEF Calls
      <4> QED
        BY <4>1, <2>9, <2>15 DEF ReplyMark
    <3>9. \A c \in Callers : call[c].step = "mark" => call[c].token \in Tokens
      BY <2>c, CallTypes
    <3>10. call' \in [Callers -> Calls]
      BY <3>8, <2>t
    <3>11. Sent'
      BY <3>6, <3>8, <3>9, <2>15, <2>0, <2>t DEF ReplyMark, Sent
    <3> QED
      BY <3>5, <3>7, <3>10, <3>11, <2>15, <2>t DEF ReplyMark, TypeInv, ApprovalsTypeOK
  <2>16. ASSUME NEW l \in Listeners, ReplyDecide(l) PROVE TypeInv'
    <3>1. l \in Callers
      BY DEF Callers
    <3>2. call[l].request \in Requests /\ call[l].verdict \in Decisions
      BY <3>1, <2>16, <2>c, CallTypes DEF ReplyDecide
    <3> QED
      BY <3>1, <3>2, <2>16, <2>7, <2>8, <2>9, <2>t DEF ReplyDecide, Found
  <2>17. ASSUME NEW t \in Tokens, CleanDelete(t) PROVE TypeInv'
    <3>1. token[t] \in SentRows
      BY <2>17, <2>0, <2>k, TokenTypes DEF CleanDelete, Sent
    <3>2. /\ token' \in [Tokens -> TokenRows]
          /\ \A u \in Tokens : token[u].state # "unsent" => token'[u].state # "unsent"
      BY <3>1, TokenUpdates, <2>17, <2>t DEF CleanDelete
    <3>3. \A c \in Callers : call[c].step = "mark" => call[c].token \in Tokens
      BY <2>c, CallTypes
    <3> QED
      BY <3>2, <3>3, <2>17, <2>0, <2>t DEF CleanDelete, TypeInv, ApprovalsTypeOK, Sent
  <2>18. CASE UNCHANGED vars
    BY <2>18, <2>0 DEF vars, TypeInv, ApprovalsTypeOK, Sent
  <2>19. CASE \/ StaleLook
              \/ \E a \in Agents : FallSilent(a) \/ Return(a) \/ StalePending(a)
    BY <2>19, <2>0, <2>t DEF StaleLook, FallSilent, Return, StalePending,
       TypeInv, ApprovalsTypeOK, Sent
  <2>20. ASSUME NEW r \in Requests, StaleWrite(r) PROVE TypeInv'
    <3>1. [request[r] EXCEPT !.status = "expired"] \in Rows
      BY RowUpdates, <2>t
    <3>2. request' \in [Requests -> Rows]
      BY <3>1, <2>20, <2>t DEF StaleWrite
    <3> QED
      BY <3>2, <2>20, <2>0, <2>t DEF StaleWrite, TypeInv, ApprovalsTypeOK, Sent
  <2> QED
    BY <2>19, <2>20, <2>1, <2>2, <2>3, <2>4, <2>5, <2>6, <2>10, <2>11, <2>12, <2>13, <2>14,
       <2>15, <2>16, <2>17, <2>18 DEF Next
<1> QED
  BY <1>1, <1>2, PTL DEF Spec

(* The types of the queue, the tokens and the calls, for any number of      *)
(* reviewers and listeners and either client.                               *)
THEOREM ApprovalsTyped == Spec => []ApprovalsTypeOK
<1>1. TypeInv => ApprovalsTypeOK
  BY DEF TypeInv
<1> QED
  BY <1>1, ApprovalsInductive, PTL

-----------------------------------------------------------------------------
(* A call that found nothing pending does not get hold of a settled request, *)
(* so that an outcome no call is about to overwrite is final: decide_request *)
(* and expire_stale_requests, for any number of callers and either client.   *)
THEOREM OutcomesFinal == Spec => OutcomeFinal
<1> USE DEF agentVars
<1>1. ASSUME TypeInv, [Next]_vars, NEW r \in Requests, Final(r)
      PROVE  Final(r)' /\ request'[r] = request[r]
  <2> SUFFICES /\ request'[r] = request[r]
               /\ r \notin expiring' /\ r \notin dropping'
               /\ \A c \in Callers :
                    ~(call'[c].step = "write" /\ call'[c].request = r)
    BY <1>1 DEF Final, Settled, Underway
  <2>t. /\ request \in [Requests -> Rows] /\ call \in [Callers -> Calls]
    BY <1>1 DEF TypeInv, ApprovalsTypeOK
  <2>f. /\ ~Pending(r) /\ request[r] # NoRequest
        /\ r \notin expiring /\ r \notin dropping
        /\ \A c \in Callers : ~(call[c].step = "write" /\ call[c].request = r)
    BY <1>1 DEF Final, Settled, Underway, Pending, NoRequest
  <2>1. CASE \/ Tick \/ CleanLook \/ AbortSweeps \/ UNCHANGED vars
             \/ \E t \in Tokens, q \in Requests : Send(t, q)
             \/ \E t \in Tokens : CleanDelete(t)
    BY <2>1, <2>f DEF Tick, CleanLook, AbortSweeps, vars, Send, CleanDelete
  <2>2. CASE \/ ExpireLook \/ StaleLook
             \/ \E a \in Agents : FallSilent(a) \/ Return(a) \/ StalePending(a)
    BY <2>2, <2>f DEF ExpireLook, StaleLook, FallSilent, Return, StalePending
  <2>3. ASSUME NEW q \in Requests, Submit(q) PROVE q # r /\ UNCHANGED <<call, expiring, dropping>>
    BY <2>3, <2>f DEF Submit
  <2>4. ASSUME NEW q \in Requests, Submit(q) \/ ExpireWrite(q) \/ StaleWrite(q)
        PROVE  /\ request'[r] = request[r] /\ call' = call
               /\ r \notin expiring' /\ r \notin dropping'
    BY <2>3, <2>4, <2>f, <2>t DEF Submit, ExpireWrite, StaleWrite
  <2>5. ASSUME NEW c \in Callers, NEW q \in Requests, NEW v \in Decisions,
               Found(c, q, v), UNCHANGED <<request, expiring, dropping>>
        PROVE  /\ request'[r] = request[r] /\ r \notin expiring' /\ r \notin dropping'
               /\ \A d \in Callers :
                    ~(call'[d].step = "write" /\ call'[d].request = r)
    BY <2>5, <2>f, <2>t DEF Found
  <2>6. ASSUME NEW c \in Callers, DecideWrite(c)
        PROVE  /\ request'[r] = request[r] /\ r \notin expiring' /\ r \notin dropping'
               /\ \A d \in Callers :
                    ~(call'[d].step = "write" /\ call'[d].request = r)
    BY <2>6, <2>f, <2>t DEF DecideWrite, Idle
  <2>7. ASSUME NEW c \in Callers, call'[c].step # "write",
               \A d \in Callers \ {c} : call'[d] = call[d],
               UNCHANGED <<request, expiring, dropping>>
        PROVE  /\ request'[r] = request[r] /\ r \notin expiring' /\ r \notin dropping'
               /\ \A d \in Callers :
                    ~(call'[d].step = "write" /\ call'[d].request = r)
    BY <2>7, <2>f, <2>t
  <2>8. Idle.step = "idle"
    BY DEF Idle
  <2>9. CASE \E c \in Reviewers, q \in Requests, v \in Decisions : DecideLook(c, q, v)
    BY <2>9, <2>5 DEF DecideLook, Callers
  <2>10. CASE \E c \in Callers : Abort(c)
    BY <2>10, <2>7, <2>8, <2>t DEF Abort
  <2>11. CASE \E l \in Listeners, t \in Tokens, v \in Commands : ReplyLook(l, t, v)
    BY <2>11, <2>7, <2>t DEF ReplyLook, Callers
  <2>12. ASSUME NEW l \in Listeners, ReplyMark(l)
         PROVE  call'[l].step # "write" /\ \A d \in Callers \ {l} : call'[d] = call[d]
    BY <2>12, <2>8, <2>t DEF ReplyMark, Callers
  <2>13. CASE \E l \in Listeners : ReplyMark(l)
    BY <2>13, <2>12, <2>7 DEF ReplyMark, Callers
  <2>14. ASSUME NEW l \in Listeners, ReplyDecide(l)
         PROVE  /\ request'[r] = request[r] /\ r \notin expiring' /\ r \notin dropping'
                /\ \A d \in Callers :
                     ~(call'[d].step = "write" /\ call'[d].request = r)
    <3>1. l \in Callers
      BY DEF Callers
    <3>2. call[l].request \in Requests /\ call[l].verdict \in Decisions
      BY <3>1, <2>14, <2>t, CallTypes DEF ReplyDecide
    <3> QED
      BY <3>1, <3>2, <2>14, <2>5, <2>7, <2>8, <2>t DEF ReplyDecide
  <2> QED
    BY <1>1, <2>1, <2>2, <2>4, <2>6, <2>9, <2>10, <2>11, <2>13, <2>14, <2>f DEF Next
<1>2. TypeInv /\ [Next]_vars =>
        [\A r \in Requests : Final(r) => Final(r)' /\ request'[r] = request[r]]_vars
  BY <1>1
<1> QED
  BY <1>2, ApprovalsInductive, PTL DEF Spec, OutcomeFinal

-----------------------------------------------------------------------------
(* With a client that applies the filter "lt", a token is deleted and a      *)
(* request expires not before its time, save for one whose agent the         *)
(* watchdog found silent: expire_stale_requests, cleanup_expired_tokens and  *)
(* _check_stale_agents.                                                      *)
THEOREM SweepsLate == "lt" \in Filters /\ Spec => []SweptLate
<1> SUFFICES ASSUME "lt" \in Filters PROVE Spec => []SweptLate
  OBVIOUS
<1>1. Init => Late
  BY DEF Init, Late, SweptLate, NoRequest, Unsent
<1>2. TypeInv /\ Late /\ [Next]_vars => Late'
  <2> SUFFICES ASSUME TypeInv, Late, [Next]_vars PROVE Late'
    OBVIOUS
  <2> USE DEF agentVars
  <2>t. /\ now \in Nat
        /\ request \in [Requests -> Rows] /\ token \in [Tokens -> TokenRows]
        /\ call \in [Callers -> Calls]
        /\ expiring \subseteq Requests /\ cleaning \subseteq Tokens
    BY ApprovalsAssumption DEF ApprovalsAssumption, TypeInv, ApprovalsTypeOK
  <2>d. /\ \A r \in Requests : request[r].due \in Nat
        /\ \A t \in Tokens : token[t].due \in Nat
    <3>1. \A x \in Rows : x.due \in Nat
      BY DEF Rows
    <3> QED
      BY <3>1, <2>t, TokenTypes
  <2>l. /\ \A r \in expiring : request[r].status # "none" /\ request[r].due < now
        /\ \A t \in cleaning : token[t].due < now
        /\ \A t \in cleaning : token[t].state # "unsent"
        /\ \A r \in Requests : request[r].status = "expired" =>
              request[r].due < now \/ AgentOf[r] \in lapsed
        /\ \A t \in Tokens : token[t].state = "gone" => token[t].due < now
        /\ silent \subseteq lapsed /\ stale \subseteq lapsed
        /\ \A r \in dropping : AgentOf[r] \in lapsed
    BY DEF Late, SweptLate, TypeInv, Sent
  <2>1. ASSUME UNCHANGED <<now, request, expiring, lapsed>>
        PROVE  /\ \A r \in expiring' : request'[r].status # "none" /\ request'[r].due < now'
               /\ \A r \in Requests : request'[r].status = "expired" =>
                                          request'[r].due < now' \/ AgentOf[r] \in lapsed'
    BY <2>1, <2>l
  <2>2. ASSUME UNCHANGED <<now, token, cleaning>>
        PROVE  /\ \A t \in cleaning' : token'[t].due < now'
               /\ \A t \in Tokens : token'[t].state = "gone" => token'[t].due < now'
    BY <2>2, <2>l
  <2> DEFINE LateRequests ==
               /\ \A r \in expiring' : request'[r].status # "none" /\ request'[r].due < now'
               /\ \A r \in Requests : request'[r].status = "expired" =>
                                          request'[r].due < now' \/ AgentOf[r] \in lapsed'
             LateTokens ==
               /\ \A t \in cleaning' : token'[t].due < now'
               /\ \A t \in Tokens : token'[t].state = "gone" => token'[t].due < now'
  <2>a. /\ silent' \subseteq lapsed' /\ stale' \subseteq lapsed' /\ lapsed \subseteq lapsed'
        /\ \A r \in dropping' : AgentOf[r] \in lapsed'
    <3>1. CASE UNCHANGED agentVars
      BY <3>1, <2>l
    <3>2. CASE \/ StaleLook \/ AbortSweeps \/ \E r \in Requests : StaleWrite(r)
               \/ \E a \in Agents : FallSilent(a) \/ Return(a) \/ StalePending(a)
      BY <3>2, <2>l DEF StaleLook, AbortSweeps, StaleWrite, FallSilent, Return, StalePending
    <3>3. CASE \/ Tick \/ ExpireLook \/ CleanLook \/ UNCHANGED vars
               \/ \E r \in Requests : Submit(r) \/ ExpireWrite(r)
               \/ \E t \in Tokens, r \in Requests : Send(t, r)
               \/ \E t \in Tokens : CleanDelete(t)
      BY <3>3, <3>1 DEF Tick, ExpireLook, CleanLook, vars, Submit, ExpireWrite, Send, CleanDelete
    <3>4. CASE \/ \E c \in Reviewers, r \in Requests, v \in Decisions : DecideLook(c, r, v)
               \/ \E c \in Callers : DecideWrite(c) \/ Abort(c)
               \/ \E l \in Listeners, t \in Tokens, v \in Commands : ReplyLook(l, t, v)
               \/ \E l \in Listeners : ReplyMark(l) \/ ReplyDecide(l)
      BY <3>4, <3>1 DEF DecideLook, DecideWrite, Abort, ReplyLook, ReplyMark, ReplyDecide
    <3> QED
      BY <3>2, <3>3, <3>4 DEF Next
  <2> SUFFICES LateRequests /\ LateTokens
    BY <2>a DEF Late, SweptLate
  <2>3. CASE Tick
    BY <2>3, <2>l, <2>t, <2>d DEF Tick
  <2>4. CASE AbortSweeps
    BY <2>4, <2>l DEF AbortSweeps
  <2>5. CASE ExpireLook
    BY <2>5, <2>l, <2>2 DEF ExpireLook, Overdue, Pending
  <2>6. CASE CleanLook
    BY <2>6, <2>l, <2>1 DEF CleanLook, Overdue
  <2>7. CASE UNCHANGED vars
    BY <2>7, <2>1, <2>2 DEF vars
  <2>8. ASSUME NEW r \in Requests, Submit(r) PROVE LateRequests /\ LateTokens
    <3>1. Row("pending", now + Timeout).status = "pending" /\ r \notin expiring
      BY <2>8, <2>l DEF Row, Submit, NoRequest
    <3> QED
      BY <3>1, <2>8, <2>2, <2>l, <2>t DEF Submit
  <2>9. ASSUME NEW r \in Requests, NEW s \in {"expired"} \cup Decisions,
               request' = [request EXCEPT ![r].status = s],
               s = "expired" => r \in expiring \/ r \in dropping,
               expiring' \subseteq expiring, now' = now
        PROVE  LateRequests
    <3>1. /\ [request[r] EXCEPT !.status = s].status = s
          /\ [request[r] EXCEPT !.status = s].due = request[r].due
      BY RowUpdates, <2>t
    <3>2. s # "none"
      BY DEF Decisions
    <3> QED
      BY <3>1, <3>2, <2>9, <2>a, <2>l, <2>t
  <2>10. ASSUME NEW r \in Requests, ExpireWrite(r) \/ StaleWrite(r)
         PROVE  LateRequests /\ LateTokens
    BY <2>10, <2>9, <2>2 DEF ExpireWrite, StaleWrite
  <2>11. ASSUME NEW c \in Callers, DecideWrite(c) PROVE LateRequests /\ LateTokens
    <3>1. call[c].request \in Requests /\ call[c].verdict \in Decisions
      BY <2>11, <2>t, CallTypes DEF DecideWrite
    <3>2. call[c].verdict # "expired"
      BY <3>1 DEF Decisions
    <3> QED
      BY <3>1, <3>2, <2>11, <2>9, <2>2 DEF DecideWrite
  <2>12. ASSUME NEW t \in Tokens, NEW r \in Requests, Send(t, r)
         PROVE  LateRequests /\ LateTokens
    <3>1. t \notin cleaning
      BY <2>12, <2>l DEF Send, Unsent
    <3>2. [state |-> "fresh", due |-> now + TokenTTL, about |-> r].state # "gone"
      OBVIOUS
    <3> QED
      BY <3>1, <3>2, <2>12, <2>1, <2>l, <2>t DEF Send
  <2>13. ASSUME NEW t \in Tokens, CleanDelete(t) PROVE LateRequests /\ LateTokens
    <3>1. token[t] \in SentRows
      BY <2>13, <2>l, <2>t, TokenTypes DEF CleanDelete
    <3>2. [token[t] EXCEPT !.state = "gone"].due = token[t].due
      BY <3>1, TokenUpdates
    <3> QED
      BY <3>2, <2>13, <2>1, <2>l, <2>t DEF CleanDelete
  <2>14. ASSUME NEW l \in Listeners, ReplyMark(l) PROVE LateRequests /\ LateTokens
    <3>1. call[l].token \in Tokens /\ token[call[l].token].state # "unsent"
      BY <2>14, <2>t, CallTypes DEF ReplyMark, TypeInv, Sent, Callers
    <3>2. token[call[l].token] \in SentRows
      BY <3>1, <2>t, TokenTypes
    <3>3. /\ [token[call[l].token] EXCEPT !.state = "used"].state = "used"
          /\ [token[call[l].token] EXCEPT !.state = "used"].due = token[call[l].token].due
      BY <3>2, TokenUpdates
    <3> QED
      BY <3>1, <3>3, <2>14, <2>1, <2>l, <2>t DEF ReplyMark
  <2>15. CASE \/ \E c \in Reviewers, q \in Requests, v \in Decisions : DecideLook(c, q, v)
              \/ \E c \in Callers : Abort(c)
              \/ \E l \in Listeners, t \in Tokens, v \in Commands : ReplyLook(l, t, v)
              \/ \E l \in Listeners : ReplyDecide(l)
    BY <2>15, <2>1, <2>2 DEF DecideLook, Abort, ReplyLook, ReplyDecide
  <2>16. CASE StaleLook \/ \E a \in Agents : Return(a) \/ StalePending(a)
    BY <2>16, <2>1, <2>2 DEF StaleLook, Return, StalePending
  <2>17. CASE \E a \in Agents : FallSilent(a)
    BY <2>17, <2>2, <2>l DEF FallSilent
  <2> QED
    BY <2>16, <2>17, <2>3, <2>4, <2>5, <2>6, <2>7, <2>8, <2>10, <2>11, <2>12, <2>13, <2>14, <2>15
       DEF Next
<1>3. Late => SweptLate
  BY DEF Late
<1> QED
  BY <1>1, <1>2, <1>3, ApprovalsInductive, PTL DEF Spec

-----------------------------------------------------------------------------
(* With a client that applies the filter "is", a token serves at most once  *)
(* for every process that listens, whatever its clean-up and broken-off     *)
(* replies do: validate_token and route_reply.  It is not once for all of   *)
(* them: validate_token asks and marks in two statements.                   *)
THEOREM TokensServePerListener ==
    "is" \in Filters /\ IsFiniteSet(Listeners) /\ Spec => []ServedPerListener
<1> SUFFICES ASSUME "is" \in Filters, IsFiniteSet(Listeners)
             PROVE  Spec => []ServedPerListener
  OBVIOUS
<1> USE DEF agentVars
<1>0. Cardinality(Listeners) \in Nat
  BY FS_CardinalityType
<1>c. \A S, T : S \subseteq T /\ T \subseteq Listeners =>
         /\ Cardinality(S) \in Nat /\ Cardinality(T) \in Nat
         /\ Cardinality(S) <= Cardinality(T)
  <2> SUFFICES ASSUME NEW S, NEW T, S \subseteq T, T \subseteq Listeners
               PROVE  /\ Cardinality(S) \in Nat /\ Cardinality(T) \in Nat
                      /\ Cardinality(S) <= Cardinality(T)
    OBVIOUS
  <2>1. IsFiniteSet(T) /\ IsFiniteSet(S)
    BY FS_Subset
  <2> QED
    BY <2>1, FS_Subset, FS_CardinalityType
<1>1. Init => OncePerListener
  <2> SUFFICES ASSUME Init, NEW t \in Tokens
               PROVE  acted[t] = 0 /\ Cardinality(Answering(t)) <= Cardinality(Listeners)
    BY <1>c DEF OncePerListener, Answering
  <2>1. Answering(t) \subseteq Listeners
    BY DEF Answering
  <2> QED
    BY <2>1, <1>c DEF Init
<1>2. TypeInv /\ OncePerListener /\ [Next]_vars => OncePerListener'
  <2> SUFFICES ASSUME TypeInv, OncePerListener, [Next]_vars PROVE OncePerListener'
    OBVIOUS
  <2>t. /\ token \in [Tokens -> TokenRows] /\ call \in [Callers -> Calls]
        /\ acted \in [Tokens -> Nat]
    BY DEF TypeInv, ApprovalsTypeOK
  <2>a. \A t : Answering(t) \subseteq Listeners /\ Answering(t)' \subseteq Listeners
    BY DEF Answering
  <2>o. \A t \in Tokens :
           /\ acted[t] = 0 \/ token[t].state \in {"used", "gone"}
           /\ acted[t] + Cardinality(Answering(t)) <= Cardinality(Listeners)
    BY DEF OncePerListener
  <2>s. ASSUME NEW t \in Tokens, acted'[t] = acted[t], Answering(t)' \subseteq Answering(t)
        PROVE  acted'[t] + Cardinality(Answering(t)') <= Cardinality(Listeners)
    <3>1. acted[t] + Cardinality(Answering(t)) <= Cardinality(Listeners)
      BY <2>o
    <3>2. /\ Cardinality(Answering(t)') \in Nat /\ Cardinality(Answering(t)) \in Nat
          /\ Cardinality(Answering(t)') <= Cardinality(Answering(t))
      BY <2>a, <2>s, <1>c
    <3> QED
      BY <3>1, <3>2, <2>t, <2>s, <1>0
  <2>1. ASSUME UNCHANGED <<token, acted>>, \A t \in Tokens : Answering(t)' \subseteq Answering(t)
        PROVE  OncePerListener'
    BY <2>1, <2>o, <2>s DEF OncePerListener
  <2>u. ASSUME UNCHANGED call PROVE \A t : Answering(t)' \subseteq Answering(t)
    BY <2>u DEF Answering
  <2>3. ASSUME NEW c \in Callers, NEW x, x.step # "mark", call' = [call EXCEPT ![c] = x]
        PROVE  \A t : Answering(t)' \subseteq Answering(t) /\ c \notin Answering(t)'
    BY <2>3, <2>t DEF Answering, Callers
  <2>4. /\ Idle.step # "mark"
        /\ \A s, q, v : s # "mark" =>
             [step |-> s, request |-> q, verdict |-> v].step # "mark"
    BY DEF Idle
  <2>2. CASE \/ Tick \/ ExpireLook \/ CleanLook \/ AbortSweeps \/ UNCHANGED vars
             \/ \E r \in Requests : Submit(r) \/ ExpireWrite(r) \/ StaleWrite(r)
             \/ StaleLook
             \/ \E a \in Agents : FallSilent(a) \/ Return(a) \/ StalePending(a)
    BY <2>2, <2>1, <2>u
       DEF Tick, ExpireLook, CleanLook, AbortSweeps, vars, Submit, ExpireWrite,
           StaleWrite, StaleLook, FallSilent, Return, StalePending
  <2>5. CASE \/ \E c \in Reviewers, q \in Requests, v \in Decisions : DecideLook(c, q, v)
             \/ \E c \in Callers : DecideWrite(c) \/ Abort(c)
             \/ \E l \in Listeners : ReplyDecide(l)
    <3>1. /\ UNCHANGED <<token, acted>>
          /\ \E c \in Callers : \E x : x.step # "mark" /\ call' = [call EXCEPT ![c] = x]
      BY <2>5, <2>4 DEF DecideLook, DecideWrite, Abort, ReplyDecide, Found, Callers
    <3> QED
      BY <3>1, <2>1, <2>3
  <2>6. ASSUME NEW t \in Tokens, NEW r \in Requests, Send(t, r) PROVE OncePerListener'
    <3>1. token[t].state = "unsent" /\ UNCHANGED <<call, acted>>
      BY <2>6 DEF Send, Unsent
    <3>2. acted[t] = 0
      BY <3>1, <2>o
    <3>3. \A u \in Tokens : acted'[u] = 0 \/ token'[u].state \in {"used", "gone"}
      BY <3>1, <3>2, <2>6, <2>o, <2>t DEF Send
    <3> QED
      BY <3>1, <3>3, <2>u, <2>s DEF OncePerListener
  <2>7. ASSUME NEW t \in Tokens, CleanDelete(t) PROVE OncePerListener'
    <3>1. token[t] \in SentRows
      BY <2>7, <2>t, TokenTypes DEF CleanDelete, TypeInv, Sent
    <3>2. [token[t] EXCEPT !.state = "gone"].state = "gone"
      BY <3>1, TokenUpdates
    <3>3. \A u \in Tokens : acted'[u] = 0 \/ token'[u].state \in {"used", "gone"}
      BY <3>2, <2>7, <2>o, <2>t DEF CleanDelete
    <3>4. UNCHANGED <<call, acted>>
      BY <2>7 DEF CleanDelete
    <3> QED
      BY <3>3, <3>4, <2>u, <2>s DEF OncePerListener
  <2>8. ASSUME NEW l \in Listeners, NEW t \in Tokens, NEW v \in Commands,
               ReplyLook(l, t, v)
        PROVE  OncePerListener'
    <3>1. acted[t] = 0 /\ UNCHANGED <<token, acted>>
      BY <2>8, <2>o DEF ReplyLook, Valid
    <3>2. acted'[t] + Cardinality(Answering(t)') <= Cardinality(Listeners)
      BY <3>1, <2>a, <1>c
    <3>3. ASSUME NEW u \in Tokens, u # t PROVE Answering(u)' \subseteq Answering(u)
      BY <3>3, <2>8, <2>t DEF ReplyLook, Answering, Callers
    <3> QED
      BY <3>1, <3>2, <3>3, <2>o, <2>s DEF OncePerListener
  <2>9. ASSUME NEW l \in Listeners, ReplyMark(l) PROVE OncePerListener'
    <3>1. l \in Callers
      BY DEF Callers
    <3>2. PICK t \in Tokens : t = call[l].token
      BY <3>1, <2>9, <2>t, CallTypes DEF ReplyMark
    <3>3. l \in Answering(t) /\ token[t].state # "unsent"
      BY <3>1, <3>2, <2>9 DEF ReplyMark, Answering, TypeInv, Sent
    <3>4. \A u : Answering(u)' \subseteq Answering(u) /\ l \notin Answering(u)'
      <4>1. \E x : x.step # "mark" /\ call' = [call EXCEPT ![l] = x]
        BY <2>9, <2>4 DEF ReplyMark
      <4> QED
        BY <4>1, <3>1, <2>3
    <3>5. CASE token[t].state = "gone"
      <4>1. UNCHANGED <<token, acted>>
        BY <3>2, <3>5, <2>9 DEF ReplyMark
      <4> QED
        BY <4>1, <3>4, <2>1
    <3>6. CASE token[t].state # "gone"
      <4>1. /\ token' = [token EXCEPT ![t].state = "used"]
            /\ acted' = [acted EXCEPT ![t] = @ + 1]
        BY <3>2, <3>6, <2>9 DEF ReplyMark
      <4>2. [token[t] EXCEPT !.state = "used"].state = "used"
        BY <3>3, <2>t, TokenTypes, TokenUpdates
      <4>3. \A u \in Tokens : acted'[u] = 0 \/ token'[u].state \in {"used", "gone"}
        BY <4>1, <4>2, <2>o, <2>t
      <4>4. acted'[t] + Cardinality(Answering(t)') <= Cardinality(Listeners)
        <5>1. Answering(t)' \subseteq Answering(t) \ {l}
          BY <3>4
        <5>2. Cardinality(Answering(t) \ {l}) = Cardinality(Answering(t)) - 1
          <6>1. IsFiniteSet(Answering(t))
            BY <2>a, FS_Subset
          <6> QED
            BY <6>1, <3>3, FS_RemoveElement
        <5>3. /\ Cardinality(Answering(t)') \in Nat /\ Cardinality(Answering(t)) \in Nat
              /\ Cardinality(Answering(t)') <= Cardinality(Answering(t) \ {l})
          <6>1. Answering(t) \ {l} \subseteq Listeners
            BY <2>a
          <6> QED
            BY <6>1, <5>1, <2>a, <1>c
        <5>4. acted'[t] = acted[t] + 1 /\ acted[t] \in Nat
          BY <4>1, <2>t
        <5>5. acted[t] + Cardinality(Answering(t)) <= Cardinality(Listeners)
          BY <2>o
        <5> QED
          BY <5>2, <5>3, <5>4, <5>5, <1>0
      <4>5. ASSUME NEW u \in Tokens, u # t
            PROVE  acted'[u] + Cardinality(Answering(u)') <= Cardinality(Listeners)
        BY <4>1, <4>5, <3>4, <2>s, <2>t
      <4> QED
        BY <4>3, <4>4, <4>5 DEF OncePerListener
    <3> QED
      BY <3>5, <3>6
  <2> QED
    BY <2>2, <2>5, <2>6, <2>7, <2>8, <2>9 DEF Next
<1>3. TypeInv /\ OncePerListener => ServedPerListener
  <2> SUFFICES ASSUME TypeInv, OncePerListener, NEW t \in Tokens
               PROVE  acted[t] <= Cardinality(Listeners)
    BY DEF ServedPerListener
  <2>1. Answering(t) \subseteq Listeners /\ acted[t] \in Nat
    BY DEF Answering, TypeInv, ApprovalsTypeOK
  <2>2. Cardinality(Answering(t)) \in Nat
    BY <2>1, <1>c
  <2> QED
    BY <2>1, <2>2, <1>0 DEF OncePerListener
<1> QED
  BY <1>1, <1>2, <1>3, ApprovalsInductive, PTL DEF Spec
=============================================================================
