------------------------------- MODULE Broker -------------------------------
(***************************************************************************)
(* The owner process of src/agent_broker.rs and the sessions of            *)
(* src/agent_bridge.rs.  One thread polls the human's administration       *)
(* channel, the configured peers, the attached sessions and the listener,  *)
(* and serves one request at a time; clients send, connect and disconnect, *)
(* and time passes, between any two of its steps.  A private use blocks    *)
(* the thread in the child process of HttpsChild.                          *)
(*                                                                         *)
(* The vault is reduced to what the loop asks of it (Authorized): its own  *)
(* modules are Policy, Snapshot and Vault.  A token is the number of the   *)
(* session it was issued for; only its digest is stored, and it is secret, *)
(* so a client presents a token it was given or one that matches nothing.  *)
(* Instant::now() and Utc::now() are one clock that starts at zero.        *)
(***************************************************************************)
EXTENDS HttpsChild, FiniteSets

CONSTANTS
    Admin,          \* admin_principal
    Tasks,          \* approved tasks
    TaskOf,         \* the principal each of them was approved for
    Configured,     \* principals of the peers of the supervisor's configuration
    Capacity,       \* CAPACITY, entries of the session table
    Lifetime,       \* max_lifetime_secs
    Idle,           \* idle_timeout_secs, or None
    AdminMessages,  \* requests the human may send
    AgentMessages,  \* requests any other peer may send
    MaxSessions     \* bound: sessions issued

\* lifetimes(): an idle limit never exceeds the lifetime.
ASSUME BrokerAssumption ==
    /\ Lifetime \in Nat \ {0}
    /\ Idle = None \/ Idle \in 1 .. Lifetime
    /\ Capacity \in Nat \ {0}
    /\ TaskOf \in [Tasks -> {TaskOf[t] : t \in Tasks}]
    /\ Configured \in Seq({Configured[i] : i \in DOMAIN Configured})
    /\ None \notin Nat
    /\ \A m \in AdminMessages \cup AgentMessages : m.op = "issue" => m.expires_at \in Nat

VARIABLES
    at,            \* where the loop of run() is
    peers,         \* peers, the administration channel first
    ready,         \* indices poll reported readable
    admission,     \* admission_ready
    cur,           \* index of the peer the loop is at
    msg,           \* the request being served
    stop,          \* the second half of admin()'s result
    last_request,  \* time of the last request
    entries,       \* Sessions.entries
    issued,        \* sessions issued so far, the source of fresh identifiers
    revoked,       \* tasks the human revoked
    ended,         \* history: sessions revoked, by the human or by the loop
    attached,      \* history: how often each session was attached
    effect         \* history: the last operation the vault carried out

loop    == <<at, ready, admission, cur, msg, stop, last_request>>
table   == <<entries, issued, revoked, ended, attached>>
child   == <<https, curl>>
vars    == <<now, loop, table, peers, child, effect>>

\* A connection: inbox holds the bytes of the next frame, open is FALSE once
\* the client has hung up; until is the session_deadline of its context.
Peer(principal, session, until) ==
    [principal |-> principal, session |-> session, until |-> until,
     admin |-> principal = Admin, active |-> TRUE, inbox |-> None, open |-> TRUE]

Init ==
    /\ now = 0 /\ HttpsInit
    /\ at = "top" /\ ready = {} /\ admission = FALSE /\ cur = 1 /\ msg = None /\ stop = FALSE
    /\ last_request = 0
    /\ peers = <<Peer(Admin, None, None)>>
               \o [i \in 1 .. Len(Configured) |-> Peer(Configured[i], None, None)]
    /\ entries = <<>> /\ issued = 0 /\ revoked = {}
    /\ ended = {} /\ attached = [id \in 1 .. MaxSessions |-> 0] /\ effect = None

-----------------------------------------------------------------------------
(* Sessions *)

Live(id) == id \in DOMAIN entries /\ entries[id].expires_at > now /\ ~entries[id].digest

Permits(id, task) == Live(id) /\ task \in entries[id].tasks

Without(sessions, ids) == [id \in DOMAIN sessions \ ids |-> sessions[id]]

Unexpired == Without(entries, {id \in DOMAIN entries : entries[id].expires_at <= now})

\* validate_session_tasks
TasksValid(principal, tasks) == \A t \in tasks : t \in Tasks \ revoked /\ TaskOf[t] = principal

Issuable(m) ==
    /\ m.principal # Admin
    /\ m.tasks # {}
    /\ m.expires_at > now /\ m.expires_at <= Lifetime
    /\ TasksValid(m.principal, m.tasks)

\* Mutant: only sessions that are not attached yet take a place.
RoomPending == Cardinality({id \in DOMAIN Unexpired : entries[id].digest}) < Capacity

Room == Cardinality(DOMAIN Unexpired) < Capacity

\* issue() drops expired entries first, whatever comes of the request.
Issue(m) ==
    IF Issuable(m) /\ Room
    THEN LET id == issued + 1 IN
         /\ entries' = [i \in DOMAIN Unexpired \cup {id} |->
                          IF i = id THEN [digest |-> TRUE, principal |-> m.principal,
                                          tasks |-> m.tasks, expires_at |-> m.expires_at]
                                    ELSE entries[i]]
         /\ issued' = id
    ELSE entries' = Unexpired /\ UNCHANGED issued

\* Mutant: an entry whose token was not used yet is left in the table.
RevokeAttached(ids) ==
    /\ entries' = Without(entries, {id \in ids \cap DOMAIN entries : ~entries[id].digest})
    /\ ended' = ended \cup (ids \cap 1 .. issued)

Revoke(ids) == entries' = Without(entries, ids) /\ ended' = ended \cup (ids \cap 1 .. issued)

\* Mutant: a consumed token still matches its entry.
AttachableAgain(token) == token \in DOMAIN entries /\ entries[token].expires_at > now

\* Mutant: the expiry of the entry is left to the sweep.
AttachableExpired(token) == token \in DOMAIN entries /\ entries[token].digest

\* attach(): the first unexpired entry that still has the digest of the token.
Attachable(token) ==
    token \in DOMAIN entries /\ entries[token].expires_at > now /\ entries[token].digest

Consumed(token) == [entries EXCEPT ![token].digest = FALSE]

-----------------------------------------------------------------------------
(* The loop *)

P == peers[cur]

Serving == now < Lifetime /\ (Idle = None \/ now - last_request < Idle)

Goto(where) == at' = where /\ UNCHANGED <<ready, admission, cur, msg, stop, last_request>>

NextPeer ==
    /\ at' = "serve" /\ cur' = cur + 1 /\ msg' = None
    /\ UNCHANGED <<ready, admission, stop, last_request>>

\* ready, admission and cur are locals of one pass.
NextPass ==
    /\ at' = "top" /\ ready' = {} /\ admission' = FALSE /\ cur' = 1
    /\ UNCHANGED <<msg, stop>>

Deactivate == peers' = [peers EXCEPT ![cur].active = FALSE]

\* Peers whose session is over are marked inactive, inactive ones are dropped
\* and their sessions revoked.
Kept == {i \in DOMAIN peers : peers[i].active /\ (peers[i].session = None \/ Live(peers[i].session))}

Swept ==
    LET prefix[n \in 0 .. Len(peers)] ==
            IF n = 0 THEN <<>>
            ELSE IF n \in Kept THEN Append(prefix[n - 1], peers[n]) ELSE prefix[n - 1]
    IN  prefix[Len(peers)]

SessionsOf(connections) == {connections[i].session : i \in DOMAIN connections} \ {None}

\* Mutant: the connection is dropped, its entry stays.
ReleasedNone == {}

Released == SessionsOf(peers) \ SessionsOf(Swept)

Sweep ==
    /\ at = "top"
    /\ IF ~Serving THEN Goto("stopped") /\ UNCHANGED <<peers, entries, ended>>
       ELSE Goto("poll") /\ peers' = Swept /\ Revoke(Released)
    /\ UNCHANGED <<now, issued, revoked, attached, child, effect>>

\* poll reports what is readable now, also nothing after its timeout, and
\* whether a connection waits in the listener.
Poll ==
    /\ at = "poll"
    /\ at' = "serve"
    /\ ready' = {i \in DOMAIN peers : peers[i].inbox # None \/ ~peers[i].open}
    /\ admission' \in BOOLEAN
    /\ cur' = 1
    /\ UNCHANGED <<msg, stop, last_request, now, table, peers, child, effect>>

PollFails == at = "poll" /\ Goto("stopped") /\ UNCHANGED <<now, table, peers, child, effect>>

\* A pass looks at the clock before every peer.
PassEnds ==
    /\ at = "serve" /\ cur <= Len(peers) /\ now >= Lifetime
    /\ Goto("stopped")
    /\ UNCHANGED <<now, table, peers, child, effect>>

\* A session that ended since poll reported its request is not read from.
Serve ==
    /\ at = "serve" /\ cur <= Len(peers) /\ now < Lifetime
    /\ \/ (~P.active \/ cur \notin ready) /\ NextPeer /\ UNCHANGED peers
       \/ /\ P.active /\ cur \in ready
          /\ IF P.session # None /\ ~Live(P.session) THEN Deactivate /\ NextPeer
             ELSE Goto("receive") /\ UNCHANGED peers
    /\ UNCHANGED <<now, table, child, effect>>

\* What a client wrote that FramedChannel.receive refuses.
Broken == [op |-> "broken"]

\* A frame that is broken, late or cut off closes the channel; the loss of
\* the administration channel ends the owner.
Receive ==
    /\ at = "receive"
    /\ IF P.inbox = None \/ P.inbox = Broken
       THEN Deactivate /\ IF P.admin THEN Goto("stopped") ELSE NextPeer
       ELSE /\ peers' = [peers EXCEPT ![cur].inbox = None]
            /\ at' = "handle" /\ msg' = P.inbox /\ last_request' = now
            /\ UNCHANGED <<ready, admission, cur, stop>>
    /\ UNCHANGED <<now, table, child, effect>>

Answer == Goto("reply")

\* The deadline is checked again after the blocking read.  A request that is
\* no WorkRequest is refused, so is one for a task outside the session.
Handle ==
    /\ at = "handle" /\ (now >= Lifetime \/ ~P.admin)
    /\ IF now >= Lifetime THEN Goto("stopped")
       ELSE IF msg.op = "malformed" \/ (P.session # None /\ ~Permits(P.session, msg.task))
       THEN Answer ELSE Goto("work")
    /\ UNCHANGED <<now, table, peers, child, effect>>

WorkOps == {"mutate", "share_read", "forbidden", "use"}

\* admin(): work goes the way of a peer's, the rest is control; a query stands
\* for status, listings and the calls that concern the vault alone.
AdminHandle ==
    /\ at = "handle" /\ now < Lifetime /\ P.admin
    /\ \/ msg.op \in WorkOps /\ Goto("work") /\ UNCHANGED <<entries, issued, ended, revoked>>
       \/ msg.op = "issue" /\ Issue(msg) /\ Answer /\ UNCHANGED <<ended, revoked>>
       \/ msg.op = "revoke_session" /\ Revoke({msg.session}) /\ Answer /\ UNCHANGED <<issued, revoked>>
       \/ msg.op = "revoke_task" /\ revoked' = revoked \cup {msg.task} /\ Answer
          /\ UNCHANGED <<entries, issued, ended>>
       \/ msg.op \in {"query", "malformed"} /\ Answer /\ UNCHANGED <<entries, issued, ended, revoked>>
       \/ /\ msg.op = "shutdown"
          /\ at' = "reply" /\ stop' = TRUE
          /\ UNCHANGED <<ready, admission, cur, msg, last_request, entries, issued, ended, revoked>>
    /\ UNCHANGED <<now, attached, peers, child, effect>>

\* Mutant: the vault leaves the session's expiry to the loop.
AuthorizedUnbounded == msg.task \in Tasks \ revoked /\ TaskOf[msg.task] = P.principal

\* The vault's own check, with its own reading of the clock.
Authorized ==
    /\ msg.task \in Tasks \ revoked
    /\ TaskOf[msg.task] = P.principal
    /\ P.until = None \/ now < P.until

\* validate_agent keeps plaintext and read grants from peers; the human may
\* share a read grant.
Allowed == msg.op \notin {"share_read", "forbidden"} \/ (P.admin /\ msg.op = "share_read")

Done == [session |-> P.session, admin |-> P.admin, op |-> msg.op, task |-> msg.task]

\* The vault may refuse for reasons of its own.
Work ==
    /\ at = "work" /\ msg.op # "use"
    /\ \/ Allowed /\ Authorized /\ effect' = Done
       \/ UNCHANGED effect
    /\ Answer
    /\ UNCHANGED <<now, table, peers, child>>

\* A private use: the destination and validate_consumer, then the child is
\* spawned; any of them may fail.
UsePrepare ==
    /\ at = "work" /\ msg.op = "use"
    /\ \/ Authorized /\ Prepare /\ Goto("use")
       \/ Answer /\ UNCHANGED child
    /\ UNCHANGED <<now, table, peers, effect>>

\* use_secret checks again after it published its intent; a refusal, or a
\* retry answered from the journal, drops the child unused.
UseHandoff ==
    /\ at = "use"
    /\ \/ Authorized /\ (StartDeliver \/ DeliverRefused) /\ effect' = Done
       \/ Drop(None) /\ UNCHANGED effect
    /\ Goto("deliver")
    /\ UNCHANGED <<now, table, peers>>

\* The thread is inside deliver, or in the Drop that follows it.
Deliver ==
    /\ at = "deliver"
    /\ \/ HttpsStep /\ UNCHANGED loop
       \/ https.stage = "idle" /\ Answer /\ https' = NoHttps /\ curl' = NoCurl
    /\ UNCHANGED <<now, table, peers, effect>>

\* The answer cannot be sent to a client that hung up.
Reply ==
    /\ at = "reply"
    /\ effect' = None
    /\ IF P.open THEN UNCHANGED peers ELSE Deactivate
    /\ IF stop \/ (P.admin /\ ~P.open) THEN Goto("stopped") ELSE NextPeer
    /\ UNCHANGED <<now, table, child>>

\* A token that attaches is used up even when the acknowledgement cannot be
\* sent, which revokes the session.
Attach(id) ==
    /\ attached' = [attached EXCEPT ![id] = @ + 1]
    /\ \/ /\ entries' = Consumed(id)
          /\ peers' = Append(peers, Peer(entries[id].principal, id, entries[id].expires_at))
          /\ last_request' = now /\ UNCHANGED ended
       \/ Revoke({id}) /\ UNCHANGED <<peers, last_request>>

\* At most one connection is accepted per pass; its client presents a token
\* it holds, or one that matches nothing.
Admit ==
    /\ at = "serve" /\ cur > Len(peers)
    /\ \/ /\ ~admission
          /\ NextPass /\ UNCHANGED <<entries, ended, attached, peers, last_request>>
       \/ /\ admission /\ now >= Lifetime
          /\ Goto("stopped") /\ UNCHANGED <<entries, ended, attached, peers>>
       \/ /\ admission /\ now < Lifetime
          /\ \E token \in 0 .. issued : ~Attachable(token)
          /\ NextPass /\ UNCHANGED <<entries, ended, attached, peers, last_request>>
       \/ /\ admission /\ now < Lifetime
          /\ \E id \in 1 .. issued : Attachable(id) /\ Attach(id)
          /\ NextPass
    /\ UNCHANGED <<now, issued, revoked, child, effect>>

OwnerStep ==
    \/ Sweep \/ Poll \/ PollFails \/ PassEnds \/ Serve \/ Receive \/ Handle \/ AdminHandle
    \/ Work \/ UsePrepare \/ UseHandoff \/ Deliver \/ Reply \/ Admit

-----------------------------------------------------------------------------
(* The clients and the clock (not part of the repository). *)

\* A frame takes effect at the next poll, whenever it was written, and a hang
\* up at the next poll or the next answer: these steps are taken then.
Send ==
    /\ at = "poll"
    /\ \E i \in DOMAIN peers :
          /\ peers[i].open /\ peers[i].inbox = None
          /\ \E m \in IF peers[i].admin THEN AdminMessages ELSE AgentMessages :
                /\ m.op = "issue" => issued < MaxSessions
                /\ peers' = [peers EXCEPT ![i].inbox = m]
    /\ UNCHANGED <<now, loop, table, child, effect>>

Close ==
    /\ at \in {"poll", "reply"}
    /\ \E i \in DOMAIN peers :
          /\ peers[i].open
          /\ peers' = [peers EXCEPT ![i].open = FALSE]
    /\ UNCHANGED <<now, loop, table, child, effect>>

\* Past its lifetime only a delivery still looks at the clock.
Tick ==
    /\ at # "stopped"
    /\ now < Lifetime \/ (https.stage \in {"write", "read", "reap"} /\ now < https.deadline)
    /\ now' = now + 1
    /\ UNCHANGED <<loop, table, peers, child, effect>>

Next == OwnerStep \/ Send \/ Close \/ Tick \/ (CurlStep /\ UNCHANGED <<loop, table, peers, effect>>)

\* The owner's thread keeps running, no wait of it is unbounded, and time
\* passes; clients, curl and servers owe nothing.
Spec == Init /\ [][Next]_vars /\ WF_vars(OwnerStep) /\ WF_vars(Tick)

-----------------------------------------------------------------------------
(* Properties *)

TypeOK ==
    /\ HttpsTypeOK
    /\ at \in {"top", "poll", "serve", "receive", "handle", "work", "use", "deliver", "reply", "stopped"}
    /\ ready \subseteq 1 .. Len(Configured) + Capacity + 1
    /\ DOMAIN entries \subseteq 1 .. issued
    /\ last_request \in 0 .. now
    /\ ended \subseteq 1 .. issued
    /\ \A i \in DOMAIN peers : peers[i].session = None \/ peers[i].session \in 1 .. issued

\* Whatever the vault does for a session it does while the session is in the
\* table, attached, not revoked, not expired, for a task of its list that is
\* approved and not revoked, and never a read grant: also when the human
\* revokes it in the same pass, or it expires between the checks (permits,
\* the sweep, the vault's session_deadline).
SessionsConfineWork ==
    [][effect' # effect /\ effect' # None /\ effect'.session # None =>
          /\ effect'.session \notin ended
          /\ effect'.session \in DOMAIN entries
          /\ LET session == entries[effect'.session] IN
             /\ ~session.digest /\ session.expires_at > now
             /\ effect'.task \in session.tasks \ revoked
             /\ TaskOf[effect'.task] = session.principal
          /\ effect'.op # "share_read"]_vars

\* A token attaches at most one connection, and only while its session is in
\* the table, neither revoked nor expired: also when the human revoked it
\* before its client came, the acknowledgement was lost, the sweep has not run
\* since it expired, or its place in the table was given to another session
\* (attach, issue, revoke).
TokenAttachesOnce ==
    [][\A id \in 1 .. MaxSessions : attached'[id] # attached[id] =>
          /\ attached[id] = 0 /\ attached'[id] = 1
          /\ id \notin ended
          /\ id \in DOMAIN entries /\ entries[id].expires_at > now]_vars

\* After the sweep the attached entries are exactly the connections kept: a
\* lost client leaves no entry behind to hold a place in the table, and no
\* connection outlives its entry (the sweep at the top of run's loop).
AttachedHasPeer ==
    at = "poll" => SessionsOf(peers) = {id \in DOMAIN entries : ~entries[id].digest}

\* The connections held at any moment are bounded by the table's capacity;
\* one more exists for a part of a pass when an entry expired, was replaced
\* and attached before the sweep dropped its connection.
PeersBounded == Cardinality(SessionsOf(peers)) <= Capacity + 1

\* The owner stops: no client, no child and no server can hold it beyond its
\* lifetime and the delivery it is in.
OwnerStops == <>(at = "stopped")
=============================================================================
