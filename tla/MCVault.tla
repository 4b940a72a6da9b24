------------------------------ MODULE MCVault ------------------------------
(***************************************************************************)
(* Small vaults for TLC: an agent a that creates and shares, a recipient   *)
(* b, and the human h, one service and one destination.                    *)
(***************************************************************************)
EXTENDS Vault

Caller(principal, admin, deadline) == [principal |-> principal, admin |-> admin, deadline |-> deadline]

AgentA == Caller("a", FALSE, 9)
AgentB == Caller("b", FALSE, 9)
Human == Caller("h", TRUE, 9)

Approval(id, principal, fields, permissions, destinations, share, expiresAt) ==
    [id |-> id, task |-> [principal |-> principal, site |-> "site", fields |-> fields,
                          permissions |-> permissions, destinations |-> destinations,
                          share |-> share, expiresAt |-> expiresAt]]

Nothing == {}

RequestSymmetry == Permutations(Requests)

Login == {"username", "password"}

Bounds(expiresAt) ==
    [recipients |-> {"b"}, fields |-> {"password"}, permissions |-> {"secret_read"},
     destinations |-> {}, expiresAt |-> expiresAt, allowFollowActive |-> TRUE]

Spec1(recipient, follow, expiresAt) ==
    [recipient |-> recipient, fields |-> {"password"}, permissions |-> {"secret_read"},
     destinations |-> {}, expiresAt |-> expiresAt, followActive |-> follow]

-----------------------------------------------------------------------------
(* Sharing: who can read what, through patches, revocations and time.      *)

ShareContexts == {AgentA, AgentB, Human}
ShareApprovals ==
    {Approval("ta", "a", Login, Permission \ {"secret_use"}, {}, Bounds(3), 4),
     Approval("tb", "b", Login, {"secret_read"}, {}, None, 4)}
LoginCreation == {[op |-> "create", kind |-> "login", fields |-> Login]}
SharePatches == {{"password"}}
ShareSpecs == {Spec1("b", TRUE, 3), Spec1("b", FALSE, 3)}
ShareReads == {[permission |-> "secret_read", fields |-> {"password"}]}

-----------------------------------------------------------------------------
(* Retries: one agent, two identifiers, a short retry window. The human's  *)
(* task is for another service than the agent's.                           *)

RetryContexts == {AgentA, Human}
HumansTask ==
    LET approval == Approval("th", "h", Login, Permission \ {"secret_use"}, {}, None, 3)
    IN  [approval EXCEPT !.task.site = "other"]
RetryApprovals ==
    {Approval("ta", "a", Login \cup {"label"}, Permission \ {"secret_use"}, {}, Bounds(6), 7),
     HumansTask}
RetryPatches == {{"label"}, {"password"}}
RetrySpecs == {Spec1("b", TRUE, 3)}
RetryOutcomes == {"reported_success"}

-----------------------------------------------------------------------------
(* Delivery: registration and private use across crashes and restores.     *)

UseOf(action) == [action |-> action, fields |-> Login, destination |-> "dest"]

DeliveryContexts == {Human}
DeliveryApprovals ==
    {Approval("t1", "h", Login, {"secret_write", "secret_use", "secret_read"}, {"dest"}, None, 2),
     Approval("t2", "h", Login, {"secret_write", "secret_use", "secret_read"}, {"dest"}, None, 3)}
DeliverySpecs == {[recipient |-> "h", fields |-> Login, permissions |-> {"secret_use", "secret_read"},
                   destinations |-> {"dest"}, expiresAt |-> 3, followActive |-> FALSE]}
\* An agent whose session ends before its task.
SessionContexts == {Human, Caller("a", FALSE, 3)}
SessionApprovals ==
    {Approval("t1", "a", Login, {"secret_write", "secret_use"}, {"dest"}, None, 4)}
RegisterUses == {UseOf("register")}
PlainUses == {UseOf("use")}

=============================================================================
