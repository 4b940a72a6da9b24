----------------------------- MODULE RemoteCall -----------------------------
(***************************************************************************)
(* What an agent may rely on when it calls a tool of the MCP frontend: a   *)
(* call takes effect at most once, a request identifier does so once       *)
(* whoever repeats it, and a call that was answered takes no effect later. *)
(* Only two answers leave it open: unknown (the reply was lost) and        *)
(* recovery (the vault does not know yet).  One is final but does not say  *)
(* what happened: unavailable (a delivery failed, before or after it was   *)
(* recorded); every other tells whether the call took effect.              *)
(***************************************************************************)
EXTENDS Naturals, Sequences

CONSTANTS
    Requests,  \* request identifiers of calls that change the vault
    Reads,     \* calls that change nothing
    None

VARIABLES
    asked,    \* what each call asked, in the order they were made
    effects,  \* the calls that took effect
    answers   \* what the agent was told of each call, or None

vars == <<asked, effects, answers>>

Open == {None, "unknown", "recovery"}
Settled == {"ok", "refused", "capacity", "oversize", "invalid"}

Init == asked = <<>> /\ effects = {} /\ answers = <<>>

Ask(what) ==
    /\ asked' = Append(asked, what)
    /\ answers' = Append(answers, None)
    /\ UNCHANGED effects

Performed(request) == \E c \in effects : asked[c] = request

TakeEffect(c) ==
    /\ asked[c] \in Requests
    /\ ~Performed(asked[c])
    /\ answers[c] \in Open
    /\ effects' = effects \cup {c}
    /\ UNCHANGED <<asked, answers>>

Answer(c) ==
    /\ answers[c] = None
    /\ \E a \in Settled \cup {"unknown", "recovery", "unavailable"} :
        /\ answers' = [answers EXCEPT ![c] = a]
        /\ a = "ok" => asked[c] \in Reads \/ Performed(asked[c])
        /\ a \in Settled \ {"ok"} => c \notin effects
    /\ UNCHANGED <<asked, effects>>

Next ==
    \/ \E what \in Requests \cup Reads : Ask(what)
    \/ \E c \in DOMAIN asked : TakeEffect(c) \/ Answer(c)

Spec == Init /\ [][Next]_vars
=============================================================================
