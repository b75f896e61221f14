----------------------------- MODULE Approvals -----------------------------
(***************************************************************************)
(* The approval queue and the mailed tokens that answer it: approval.py,    *)
(* the token table of status.py, the mail listener of notifications/        *)
(* gmail.py with relay.py, and the watchdog's clean-up of tokens and of the *)
(* requests of silent agents.                                               *)
(*                                                                          *)
(* A decision is a query for the pending request and a later update by id;  *)
(* an expiry and the clean-up are a query and one statement per row found;  *)
(* a mailed reply is a query for the token, an update that marks it used,   *)
(* and then a decision.  Every one of these statements commits on its own.  *)
(*                                                                          *)
(* There are two database clients.  PostgREST applies every filter of a     *)
(* query; the asyncpg client of db_postgres.py knows eq, gt, gte, lte and   *)
(* in, and drops any other filter without a word.                           *)
(***************************************************************************)
EXTENDS Integers, FiniteSets

CONSTANTS
    Requests,   \* ids of rows of approval_queue
    Agents,     \* agents that ask for approval
    AgentOf,    \* the agent that a request is by
    Tokens,     \* tokens that generate_token may draw
    Reviewers,  \* calls of POST /approvals/{id}/decide that can be under way
    Listeners,  \* coordinator processes that listen for mailed replies
    Watched,    \* whether the database has agent_discovery, which the watchdog
                \* asks for its agents and which no migration creates
    Filters,    \* those of the filters "lt" and "is" that the client applies
    Timeout,    \* timeout_seconds of a request
    TokenTTL,   \* NOTIFICATION_TOKEN_TTL_SECONDS
    MaxTime     \* bound: the clock stops there

ASSUME ApprovalsAssumption ==
    /\ AgentOf \in [Requests -> Agents]
    /\ Watched \in BOOLEAN
    /\ Filters \subseteq {"lt", "is"}
    /\ Timeout \in Nat /\ TokenTTL \in Nat /\ MaxTime \in Nat

VARIABLES
    now,        \* the clock
    request,    \* approval_queue: the status and expires_at of every request
    token,      \* notification_tokens: what a token is about and its validity
    call,       \* where every decide_request and every mailed reply stands
    expiring,   \* rows expire_stale_requests has found and not yet updated
    cleaning,   \* tokens the clean-up has found and not yet deleted
    silent,     \* agents whose last heartbeat is older than the threshold
    stale,      \* agents the watchdog has found so and not yet dealt with
    dropping,   \* pending rows it has found of one of them and not yet updated
    acted,      \* history: how often a reply with the token was routed
    lapsed      \* history: agents that have been silent

agentVars == <<silent, stale, dropping, lapsed>>
vars == <<now, request, token, call, expiring, cleaning, acted, agentVars>>

Decisions == {"approved", "denied"}
Commands  == Decisions \cup {"other"}  \* gate_check, phase_skip and guidance
Callers   == Reviewers \cup Listeners

NoRequest == [status |-> "none", due |-> 0]
Row(status, due) == [status |-> status, due |-> due]
Rows      == [status : {"none", "pending", "expired"} \cup Decisions, due : Nat]

(* A token is unsent, valid, used or deleted. *)
Unsent    == [state |-> "unsent", due |-> 0]
TokenRows == [state : {"unsent", "fresh", "used", "gone"}, due : Nat, about : Requests]
             \cup [state : {"unsent"}, due : Nat]

(* A call that waits to mark its token, to look for the pending request, or *)
(* to write the decision.                                                   *)
Idle == [step |-> "idle"]
Calls == {Idle}
    \cup [step : {"mark"}, token : Tokens, verdict : Commands]
    \cup [step : {"look", "write"}, request : Requests, verdict : Decisions]

Init ==
    /\ now = 0
    /\ request = [r \in Requests |-> NoRequest]
    /\ token = [t \in Tokens |-> Unsent]
    /\ call = [c \in Callers |-> Idle]
    /\ expiring = {} /\ cleaning = {}
    /\ silent = {} /\ stale = {} /\ dropping = {} /\ lapsed = {}
    /\ acted = [t \in Tokens |-> 0]

Tick ==
    /\ now < MaxTime
    /\ now' = now + 1
    /\ UNCHANGED <<request, token, call, expiring, cleaning, acted, agentVars>>

-----------------------------------------------------------------------------
(* The queue *)

Pending(r) == request[r].status = "pending"

(* submit_request inserts a row under a new id. *)
Submit(r) ==
    /\ request[r] = NoRequest
    /\ request' = [request EXCEPT ![r] = Row("pending", now + Timeout)]
    /\ UNCHANGED <<now, token, call, expiring, cleaning, acted, agentVars>>

\* Mutant: the query does not ask for a pending request.
FoundAny(c, r, verdict) ==
    /\ request[r] # NoRequest
    /\ call' = [call EXCEPT ![c] =
                  [step |-> "write", request |-> r, verdict |-> verdict]]

(* The query of decide_request: nothing happens to a request that is not    *)
(* pending, and its expires_at is not looked at.                            *)
Found(c, r, verdict) ==
    /\ Pending(r)
    /\ call' = [call EXCEPT ![c] =
                  [step |-> "write", request |-> r, verdict |-> verdict]]

DecideLook(c, r, verdict) ==
    /\ call[c] = Idle
    /\ Found(c, r, verdict)
    /\ UNCHANGED <<now, request, token, expiring, cleaning, acted, agentVars>>

(* Its update goes by the id alone. *)
DecideWrite(c) ==
    /\ call[c].step = "write"
    /\ request' = [request EXCEPT ![call[c].request].status = call[c].verdict]
    /\ call' = [call EXCEPT ![c] = Idle]
    /\ UNCHANGED <<now, token, expiring, cleaning, acted, agentVars>>

\* Mutant: one that is due this instant is taken to be overdue.
OverdueNow(due) == due <= now

(* expire_stale_requests: one query, then an update by id for every row. *)
Overdue(due) == "lt" \in Filters => due < now

ExpireLook ==
    /\ expiring = {}
    /\ expiring' = {r \in Requests : Pending(r) /\ Overdue(request[r].due)}
    /\ UNCHANGED <<now, request, token, call, cleaning, acted, agentVars>>

ExpireWrite(r) ==
    /\ r \in expiring
    /\ request' = [request EXCEPT ![r].status = "expired"]
    /\ expiring' = expiring \ {r}
    /\ UNCHANGED <<now, token, call, cleaning, acted, agentVars>>

-----------------------------------------------------------------------------
(* The watchdog's _check_stale_agents *)

(* An agent is not heard for longer than the threshold, and is heard again. *)
FallSilent(a) ==
    /\ a \notin silent
    /\ silent' = silent \cup {a} /\ lapsed' = lapsed \cup {a}
    /\ UNCHANGED <<now, request, token, call, expiring, cleaning, acted, stale, dropping>>

Return(a) ==
    /\ a \in silent
    /\ silent' = silent \ {a}
    /\ UNCHANGED <<now, request, token, call, expiring, cleaning, acted, stale,
                   dropping, lapsed>>

(* One query for the agents: last_heartbeat=lt. ... *)
StaleLook ==
    /\ Watched
    /\ stale = {} /\ dropping = {}
    /\ stale' = IF "lt" \in Filters THEN silent ELSE Agents
    /\ UNCHANGED <<now, request, token, call, expiring, cleaning, acted, silent,
                   dropping, lapsed>>

(* ... then one for each agent's pending requests, whatever their time ... *)
StalePending(a) ==
    /\ a \in stale /\ dropping = {}
    /\ stale' = stale \ {a}
    /\ dropping' = {r \in Requests : Pending(r) /\ AgentOf[r] = a}
    /\ UNCHANGED <<now, request, token, call, expiring, cleaning, acted, silent, lapsed>>

(* ... and an update by id for each of them. *)
StaleWrite(r) ==
    /\ r \in dropping
    /\ request' = [request EXCEPT ![r].status = "expired"]
    /\ dropping' = dropping \ {r}
    /\ UNCHANGED <<now, token, call, expiring, cleaning, acted, silent, stale, lapsed>>

-----------------------------------------------------------------------------
(* Mailed notifications and the replies to them *)

(* GmailChannel.send stores the token of a notification about a request. *)
Send(t, r) ==
    /\ token[t] = Unsent
    /\ request[r] # NoRequest
    /\ token' = [token EXCEPT ![t] =
                   [state |-> "fresh", due |-> now + TokenTTL, about |-> r]]
    /\ UNCHANGED <<now, request, call, expiring, cleaning, acted, agentVars>>

\* Mutant: the query does not ask for an unused token.
ValidAgain(t) ==
    /\ token[t].state \in {"fresh", "used"}
    /\ token[t].due > now

(* The query of validate_token. *)
Valid(t) ==
    /\ token[t].state \in {"fresh", "used"}
    /\ "is" \in Filters => token[t].state = "fresh"
    /\ token[t].due > now

ReplyLook(l, t, command) ==
    /\ call[l] = Idle
    /\ Valid(t)
    /\ call' = [call EXCEPT ![l] =
                  [step |-> "mark", token |-> t, verdict |-> command]]
    /\ UNCHANGED <<now, request, token, expiring, cleaning, acted, agentVars>>

\* Mutant: every reply is taken for a decision.
ReplyMarkDecides(l) ==
    /\ call[l].step = "mark"
    /\ LET t == call[l].token
           there == token[t].state # "gone"
       IN /\ token' = IF there THEN [token EXCEPT ![t].state = "used"] ELSE token
          /\ acted' = IF there THEN [acted EXCEPT ![t] = @ + 1] ELSE acted
          /\ call' = [call EXCEPT ![l] =
                        IF there
                        THEN [step |-> "look", request |-> token[t].about,
                              verdict |-> call[l].verdict]
                        ELSE Idle]
    /\ UNCHANGED <<now, request, expiring, cleaning, agentVars>>

(* Its update by token, and the start of route_reply: a reply that does not *)
(* decide anything is a notification or a memory and ends there.            *)
ReplyMark(l) ==
    /\ call[l].step = "mark"
    /\ LET t == call[l].token
           there == token[t].state # "gone"
           decides == call[l].verdict \in Decisions
       IN /\ token' = IF there THEN [token EXCEPT ![t].state = "used"] ELSE token
          /\ acted' = IF there THEN [acted EXCEPT ![t] = @ + 1] ELSE acted
          /\ call' = [call EXCEPT ![l] =
                        IF there /\ decides
                        THEN [step |-> "look", request |-> token[t].about,
                              verdict |-> call[l].verdict]
                        ELSE Idle]
    /\ UNCHANGED <<now, request, expiring, cleaning, agentVars>>

(* route_reply calls decide_request; None is "not_found" and ends the reply. *)
ReplyDecide(l) ==
    /\ call[l].step = "look"
    /\ LET r == call[l].request IN
         \/ Found(l, r, call[l].verdict)
         \/ ~Pending(r) /\ call' = [call EXCEPT ![l] = Idle]
    /\ UNCHANGED <<now, request, token, expiring, cleaning, acted, agentVars>>

(* cleanup_expired_tokens and the watchdog's copy of it. *)
CleanLook ==
    /\ cleaning = {}
    /\ cleaning' = {t \in Tokens : /\ token[t].state \in {"fresh", "used"}
                                   /\ Overdue(token[t].due)}
    /\ UNCHANGED <<now, request, token, call, expiring, acted, agentVars>>

CleanDelete(t) ==
    /\ t \in cleaning
    /\ token' = [token EXCEPT ![t].state = "gone"]
    /\ cleaning' = cleaning \ {t}
    /\ UNCHANGED <<now, request, call, expiring, acted, agentVars>>

(* A statement that fails, or the death of the process, ends a call: the    *)
(* statements before it stand.  _process_imap_message logs and goes on.     *)
Abort(c) ==
    /\ call[c] # Idle
    /\ call' = [call EXCEPT ![c] = Idle]
    /\ UNCHANGED <<now, request, token, expiring, cleaning, acted, agentVars>>

AbortSweeps ==
    /\ expiring \cup cleaning \cup stale \cup dropping # {}
    /\ expiring' = {} /\ cleaning' = {} /\ stale' = {} /\ dropping' = {}
    /\ UNCHANGED <<now, request, token, call, acted, silent, lapsed>>

Next ==
    \/ Tick \/ ExpireLook \/ StaleLook \/ CleanLook \/ AbortSweeps
    \/ \E r \in Requests : Submit(r) \/ ExpireWrite(r) \/ StaleWrite(r)
    \/ \E a \in Agents : FallSilent(a) \/ Return(a) \/ StalePending(a)
    \/ \E c \in Reviewers, r \in Requests, v \in Decisions : DecideLook(c, r, v)
    \/ \E c \in Callers : DecideWrite(c) \/ Abort(c)
    \/ \E t \in Tokens, r \in Requests : Send(t, r)
    \/ \E l \in Listeners, t \in Tokens, v \in Commands : ReplyLook(l, t, v)
    \/ \E l \in Listeners : ReplyMark(l) \/ ReplyDecide(l)
    \/ \E t \in Tokens : CleanDelete(t)

Spec == Init /\ [][Next]_vars

-----------------------------------------------------------------------------
(* Properties *)

(* Every row has one of the statuses the table admits, a call waits for a   *)
(* statement that can follow the one before, and a token is used only after *)
(* it was sent.                                                             *)
ApprovalsTypeOK ==
    /\ now \in 0 .. MaxTime
    /\ request \in [Requests -> Rows]
    /\ token \in [Tokens -> TokenRows]
    /\ call \in [Callers -> Calls]
    /\ expiring \subseteq Requests /\ cleaning \subseteq Tokens
    /\ dropping \subseteq Requests
    /\ silent \subseteq Agents /\ stale \subseteq Agents /\ lapsed \subseteq Agents
    /\ acted \in [Tokens -> Nat]

(* A request that is settled, approved, denied or expired, may still be     *)
(* overwritten by a decision or an expiry that found it pending before, and *)
(* by nothing else: once no such call is left its outcome is final, and no  *)
(* call can come to change it.  It is what the query before each of the     *)
(* unconditional updates of approval.py is for.                             *)
Settled(r) == request[r].status \notin {"none", "pending"}

Underway(r) ==
    \/ r \in expiring \cup dropping
    \/ \E c \in Callers : call[c].step = "write" /\ call[c].request = r

Final(r) == Settled(r) /\ ~Underway(r)

OutcomeFinal ==
    [][\A r \in Requests :
         Final(r) => Final(r)' /\ request'[r] = request[r]]_vars

(* A token is deleted only when its time is over, and a request expires only *)
(* then or because its agent fell silent, whatever happens between the       *)
(* query of an expiry or of the clean-up and the statements for its rows.    *)
SweptLate ==
    /\ \A r \in Requests :
         request[r].status = "expired" => request[r].due < now \/ AgentOf[r] \in lapsed
    /\ \A t \in Tokens : token[t].state = "gone" => token[t].due < now

(* Every process that listens routes at most one reply with a token, also    *)
(* when a reply is broken off, when the clean-up deletes the token meanwhile, *)
(* and for the commands that decide nothing.                                 *)
ServedPerListener == \A t \in Tokens : acted[t] <= Cardinality(Listeners)
=============================================================================
