\* The default client, PostgREST, which applies every filter; a database that
\* has the relation the watchdog asks; two processes that listen for replies.
SPECIFICATION Spec
CONSTANTS
    r1 = r1
    r2 = r2
    a1 = a1
    t1 = t1
    v1 = v1
    l1 = l1
    l2 = l2
    Requests = {r1, r2}
    Agents = {a1}
    AgentOf <- MCOwner
    Tokens = {t1}
    Reviewers = {v1}
    Listeners = {l1, l2}
    Watched = TRUE
    Filters = {"lt", "is"}
    Timeout = 1
    TokenTTL = 1
    MaxTime = 2
    MaxReplies = 2
SYMMETRY Symmetry
CONSTRAINT FewReplies
INVARIANTS ApprovalsTypeOK SweptLate ServedPerListener
PROPERTY OutcomeFinal
CHECK_DEADLOCK FALSE
