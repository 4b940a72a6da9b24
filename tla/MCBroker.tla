------------------------------ MODULE MCBroker ------------------------------
(* Instances of Broker for TLC. *)
EXTENDS Broker

CONSTANTS human, agent, t1, t2

TwoTasks == {t1, t2}
OnePrincipal == [t \in {t1, t2} |-> agent]
NoPeers == <<>>

Op(op) == [op |-> op]
For(op, task) == [op |-> op, task |-> task]
NewSession(tasks, until) == [op |-> "issue", principal |-> agent, tasks |-> tasks, expires_at |-> until]
End(id) == [op |-> "revoke_session", session |-> id]

HumanRequests ==
    {NewSession({t1}, 1), NewSession({t1, t2}, 2), End(1), For("revoke_task", t2), For("mutate", t2),
     Op("query"), Op("shutdown")}

AgentRequests == {For("use", t1), For("mutate", t2), For("share_read", t1), Op("malformed"), Broken}

\* 200, 404, nothing and a line that is too long.
Statuses == {<<2, 0, 0>>, <<4, 0, 4>>, <<>>, <<2, 0, 0, 0>>}
=============================================================================
