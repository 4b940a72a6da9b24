------------------------------ MODULE Frontend ------------------------------
(***************************************************************************)
(* The MCP frontends of src/agent_mcp.rs and the owner they call, over the *)
(* channels of src/agent_ipc.rs.  A frontend is a process of its own with  *)
(* one session; it reads a line, and for a tool call sends one frame and   *)
(* waits for one.  Every wait may time out, either side may hang up, and   *)
(* the owner may die, so that a reply can be lost after the vault has      *)
(* changed.                                                                *)
(*                                                                         *)
(* The owner is reduced to what a frontend can tell: it takes one frame at *)
(* a time, carries it out or refuses it, and answers.  An adapter that     *)
(* fails is answered as "unavailable" whether or not the vault has changed *)
(* by then.  Broker has its loop and its sessions, Vault its decisions,    *)
(* Publication its storage.                                                *)
(***************************************************************************)
EXTENDS Naturals, Sequences

CONSTANTS
    Frontends,    \* frontend processes, each with a session of its own
    Requests,     \* request identifiers of calls that change the vault
    Reads,        \* calls that change nothing (credman_metadata)
    None,
    MaxCalls,     \* bound: tool calls
    MaxBuffered,  \* bound: further lines read together with one
    MaxStops      \* bound: ends of an owner process

ASSUME FrontendAssumption ==
    /\ Requests \cap Reads = {}
    /\ None \notin Frontends \cup Requests \cup Reads
    /\ None \notin {"ok", "refused", "capacity", "invalid", "unknown", "recovery", "oversize",
                    "unavailable"}
    /\ {MaxCalls, MaxBuffered, MaxStops} \subseteq Nat

VARIABLES
    at,        \* place of each frontend in run()
    state,     \* State of dispatch()
    buffered,  \* complete lines in the frontend's BufReader
    expired,   \* frontends whose session has expired
    call,      \* the tool call a frontend is in, or None
    out,       \* the answer it is about to print
    poisoned,  \* frontends whose channel is poisoned
    toOwner,   \* frames in the socket, by frontend
    toFront,   \* replies in the socket, by frontend
    shut,      \* connections the frontend has shut down
    peer,      \* what the owner knows of each: "none", "attached" or "gone"
    up,        \* whether an owner runs
    serving,   \* the frame the owner is at: [front, call, verdict], or None
    journal,   \* durable: identifiers with a receipt or an attempt (one retry window)
    rejected,  \* durable: identifiers whose attempt was rejected at the handoff
    frozen,    \* durable: recovery is required
    doubt,     \* durable: the call whose publication is in doubt, or None
    stops,     \* ends of an owner so far
    asked,     \* history: what each call asked
    effects,   \* history: calls that took effect
    answers    \* history: what the agent read of each call, or None

channel == <<poisoned, toOwner, toFront, shut>>
front   == <<at, state, buffered, call, out>>
vault   == <<journal, rejected, frozen, doubt, effects>>
owner   == <<peer, up, serving, vault, stops>>
vars    == <<at, state, buffered, expired, call, out, poisoned, toOwner, toFront, shut,
             peer, up, serving, journal, rejected, frozen, doubt, stops, asked, effects, answers>>

\* A frame whose bytes are not all there.
Torn == None

Init ==
    /\ at = [f \in Frontends |-> "connect"]
    /\ state = [f \in Frontends |-> "initialize"]
    /\ buffered = [f \in Frontends |-> 0]
    /\ expired = {}
    /\ call = [f \in Frontends |-> None] /\ out = [f \in Frontends |-> None]
    /\ poisoned = {} /\ shut = {}
    /\ toOwner = [f \in Frontends |-> <<>>] /\ toFront = [f \in Frontends |-> <<>>]
    /\ peer = [f \in Frontends |-> "none"]
    /\ up = TRUE /\ serving = None
    /\ journal = {} /\ rejected = {} /\ frozen = FALSE /\ doubt = None /\ stops = 0
    /\ asked = <<>> /\ effects = {} /\ answers = <<>>

-----------------------------------------------------------------------------
(* FramedChannel, the frontend's side.                                     *)

\* Mutant: the channel stays in use after an error.
FailOpen(f) == UNCHANGED <<poisoned, shut>>

\* fail(): the channel refuses everything from now on, and is shut down.
Fail(f) == poisoned' = poisoned \cup {f} /\ shut' = shut \cup {f}

\* write_until: the whole frame, or none or a part of it and an error.
SendFrame(f) ==
    /\ f \notin poisoned /\ peer[f] = "attached"
    /\ toOwner' = [toOwner EXCEPT ![f] = Append(@, call[f])]
    /\ UNCHANGED <<poisoned, shut, toFront>>

SendFails(f) ==
    /\ f \notin poisoned
    /\ \/ UNCHANGED toOwner
       \/ peer[f] = "attached" /\ toOwner' = [toOwner EXCEPT ![f] = Append(@, Torn)]
    /\ Fail(f)
    /\ UNCHANGED toFront

ReceiveFrame(f) ==
    /\ f \notin poisoned /\ toFront[f] # <<>>
    /\ toFront' = [toFront EXCEPT ![f] = Tail(@)]
    /\ UNCHANGED <<poisoned, shut, toOwner>>

\* The deadline passed, or the owner is gone.
ReceiveFails(f) == f \notin poisoned /\ Fail(f) /\ UNCHANGED <<toOwner, toFront>>

-----------------------------------------------------------------------------
(* A frontend.                                                             *)

\* The process ends; dropping the channel shuts it down, and with it goes
\* what was not read.
Exit(f) ==
    /\ at' = [at EXCEPT ![f] = "ended"]
    /\ state' = [state EXCEPT ![f] = "initialize"]
    /\ buffered' = [buffered EXCEPT ![f] = 0]
    /\ call' = [call EXCEPT ![f] = None] /\ out' = [out EXCEPT ![f] = None]
    /\ shut' = shut \cup {f}
    /\ toFront' = [toFront EXCEPT ![f] = <<>>]
    /\ UNCHANGED <<poisoned, toOwner>>

\* connect(): an expired session, a token that does not attach or a lost
\* acknowledgement end the frontend; the last leaves the owner attached.
Connect(f) ==
    /\ at[f] = "connect"
    /\ \/ /\ up /\ peer[f] = "none" /\ f \notin expired
          /\ peer' = [peer EXCEPT ![f] = "attached"]
          /\ \/ /\ at' = [at EXCEPT ![f] = "line"]
                /\ UNCHANGED <<state, buffered, call, out, channel>>
             \/ Exit(f)
       \/ Exit(f) /\ UNCHANGED peer
    /\ UNCHANGED <<expired, up, serving, vault, stops, asked, answers>>

\* line(): a line that is buffered needs no wait; else the wait ends at the
\* session's expiry, and one read may bring several lines.
Line(f) ==
    /\ at[f] = "line"
    /\ \/ buffered[f] > 0 /\ buffered' = [buffered EXCEPT ![f] = @ - 1]
       \/ /\ buffered[f] = 0 /\ f \notin expired
          /\ \E n \in 0 .. MaxBuffered : buffered' = [buffered EXCEPT ![f] = n]

\* The end of the input, a line that is cut off, late or too long, and the
\* session's expiry.
InputEnds(f) ==
    /\ at[f] = "line" /\ buffered[f] = 0
    /\ Exit(f)
    /\ UNCHANGED <<expired, owner, asked, answers>>

\* Everything dispatch() answers by itself, and errors: the protocol state
\* and the channel are left alone.  A print that fails ends the frontend.
Local(f) ==
    /\ \/ Line(f) /\ UNCHANGED <<at, state, call, out, channel>>
       \/ at[f] = "line" /\ (buffered[f] > 0 \/ f \notin expired) /\ Exit(f)
    /\ UNCHANGED <<expired, owner, asked, answers>>

\* initialize once, then the client's notification.
Handshake(f) ==
    /\ Line(f)
    /\ \/ state[f] = "initialize" /\ state' = [state EXCEPT ![f] = "initialized"]
       \/ state[f] = "initialized" /\ state' = [state EXCEPT ![f] = "ready"]
    /\ UNCHANGED <<at, call, out, channel, expired, owner, asked, answers>>

\* The call the frontend is in is number c; it has this to print.
Respond(f, answer) == at' = [at EXCEPT ![f] = "output"] /\ out' = [out EXCEPT ![f] = answer]

Told(c, verdict) == [call |-> c, verdict |-> verdict]

\* tools/call with arguments work_request accepts: one that does not fit a
\* frame is answered here.
Call(f) ==
    /\ Line(f) /\ state[f] = "ready" /\ Len(asked) < MaxCalls
    /\ \E what \in Requests \cup Reads : asked' = Append(asked, what)
    /\ answers' = Append(answers, None)
    /\ call' = [call EXCEPT ![f] = Len(asked) + 1]
    /\ \/ at' = [at EXCEPT ![f] = "send"] /\ UNCHANGED out
       \/ Respond(f, Told(call'[f], "invalid"))
    /\ UNCHANGED <<state, channel, expired, owner, effects>>

\* Mutant: a call that failed is taken for refused.
LostRefused(f) == Told(call[f], "refused")

\* A lost reply may follow a committed mutation.
Lost(f) == Told(call[f], "unknown")

Send(f) ==
    /\ at[f] = "send"
    /\ \/ SendFrame(f) /\ at' = [at EXCEPT ![f] = "receive"] /\ UNCHANGED out
       \/ (SendFails(f) \/ (f \in poisoned /\ UNCHANGED channel)) /\ Respond(f, Lost(f))
    /\ UNCHANGED <<state, buffered, call, expired, owner, asked, answers>>

\* Mutant: only the owner ends the wait.
ReceiveForever(f) ==
    /\ at[f] = "receive"
    /\ \/ ReceiveFrame(f) /\ Respond(f, Head(toFront[f]))
       \/ peer[f] = "gone" /\ ReceiveFails(f) /\ Respond(f, Lost(f))
    /\ UNCHANGED <<state, buffered, call, expired, owner, asked, answers>>

Receive(f) ==
    /\ at[f] = "receive"
    /\ \/ ReceiveFrame(f) /\ Respond(f, Head(toFront[f]))
       \/ ReceiveFails(f) /\ Respond(f, Lost(f))
    /\ UNCHANGED <<state, buffered, call, expired, owner, asked, answers>>

\* output(): a value the owner could send may be too long to print, quoted
\* and repeated.  A client that does not read ends the frontend.
Output(f) ==
    /\ at[f] = "output"
    /\ \/ /\ \/ answers' = [answers EXCEPT ![call[f]] = out[f].verdict]
             \/ /\ out[f].verdict = "ok" /\ asked[call[f]] \in Reads
                /\ answers' = [answers EXCEPT ![call[f]] = "oversize"]
          /\ at' = [at EXCEPT ![f] = "line"]
          /\ call' = [call EXCEPT ![f] = None] /\ out' = [out EXCEPT ![f] = None]
          /\ UNCHANGED <<state, buffered, channel>>
       \/ Exit(f) /\ UNCHANGED answers
    /\ UNCHANGED <<expired, owner, asked>>

FrontStep(f) ==
    Connect(f) \/ InputEnds(f) \/ Local(f) \/ Handshake(f) \/ Call(f) \/ Send(f) \/ Receive(f) \/ Output(f)

-----------------------------------------------------------------------------
(* The owner.                                                              *)

Drops(f) == peer' = [peer EXCEPT ![f] = "gone"] /\ toOwner' = [toOwner EXCEPT ![f] = <<>>]

\* A session that ended (expired, or revoked by the human) is dropped without
\* reading; so is a connection that ends or shows a broken frame.
OwnerDrops(f) ==
    /\ up /\ serving = None /\ peer[f] = "attached"
    /\ Drops(f)
    /\ UNCHANGED <<front, poisoned, toFront, shut, expired, up, serving, vault, stops, asked, answers>>

\* What was written before the frontend hung up is still read.
OwnerTakes(f) ==
    /\ up /\ serving = None /\ peer[f] = "attached"
    /\ toOwner[f] # <<>> /\ Head(toOwner[f]) # Torn
    /\ serving' = [front |-> f, call |-> Head(toOwner[f]), verdict |-> None]
    /\ toOwner' = [toOwner EXCEPT ![f] = Tail(@)]
    /\ UNCHANGED <<front, poisoned, toFront, shut, expired, peer, up, vault, stops, asked, answers>>

\* An identifier without a receipt or an attempt; only such a call is carried
\* out.
New(what) == what \in Requests \ (journal \cup rejected)

Perform(c) == journal' = journal \cup {asked[c]} /\ effects' = effects \cup {c}

\* The handoff was no longer authorized: the attempt stays, as rejected, and
\* uses up the identifier.
Reject(c) == rejected' = rejected \cup {asked[c]} /\ UNCHANGED <<journal, effects>>

Verdict(v) == serving' = [serving EXCEPT !.verdict = v]

\* Mutant: a delivery that failed is answered as a refusal.
UndeliveredRefused(c) == Verdict("refused") /\ Perform(c) /\ UNCHANGED <<rejected, frozen, doubt>>

\* The delivery failed: its attempt is published as unknown all the same, and
\* only then is the failure answered.
Undelivered(c) == Verdict("unavailable") /\ Perform(c) /\ UNCHANGED <<rejected, frozen, doubt>>

\* The answer of work() to the call c.  Without an effect: a refusal; the
\* adapter that could not be set up; a vault that waits for recovery; a read;
\* an identifier that is known, answered from its receipt or attempt.
AnswersOnly(c) ==
    /\ \/ Verdict("refused")
       \/ ~frozen /\ asked[c] \in Requests /\ Verdict("unavailable")
       \/ frozen /\ Verdict("recovery")
       \/ ~frozen /\ asked[c] \in Reads /\ \E v \in {"ok", "capacity"} : Verdict(v)
       \/ ~frozen /\ asked[c] \in journal /\ Verdict("ok")
    /\ UNCHANGED vault

\* A new identifier: carried out, refused at the handoff, delivered in vain,
\* or its publication is left in doubt, with the secret of a private use
\* already handed over; the vault then answers nothing else.
CarriesOut(c) ==
    /\ ~frozen /\ New(asked[c])
    /\ \/ Verdict("ok") /\ Perform(c) /\ UNCHANGED <<rejected, frozen, doubt>>
       \/ Verdict("refused") /\ Reject(c) /\ UNCHANGED <<frozen, doubt>>
       \/ Undelivered(c)
       \/ /\ Verdict("recovery") /\ frozen' = TRUE /\ UNCHANGED rejected
          /\ \/ doubt' = c /\ UNCHANGED <<journal, effects>>
             \/ Perform(c) /\ UNCHANGED doubt

OwnerDecides ==
    /\ up /\ serving # None /\ serving.verdict = None
    /\ AnswersOnly(serving.call) \/ CarriesOut(serving.call)
    /\ UNCHANGED <<front, channel, expired, peer, up, stops, asked, answers>>

\* A reply that cannot be written drops the connection; a part of it is as
\* good as none to the frontend.
OwnerReplies ==
    /\ up /\ serving # None /\ serving.verdict # None
    /\ serving' = None
    /\ LET f == serving.front IN
        \/ /\ f \notin shut
           /\ toFront' = [toFront EXCEPT ![f] = Append(@, Told(serving.call, serving.verdict))]
           /\ UNCHANGED <<peer, toOwner>>
        \/ Drops(f) /\ UNCHANGED toFront
    /\ UNCHANGED <<front, poisoned, shut, expired, up, vault, stops, asked, answers>>

\* The owner ends, anywhere; a publication it was in may be in doubt.
OwnerStops ==
    /\ up /\ stops < MaxStops
    /\ up' = FALSE /\ serving' = None /\ stops' = stops + 1
    /\ peer' = [f \in Frontends |-> IF peer[f] = "attached" THEN "gone" ELSE peer[f]]
    /\ toOwner' = [f \in Frontends |-> <<>>]
    /\ \/ UNCHANGED <<frozen, doubt>>
       \/ /\ serving # None /\ serving.verdict = None /\ ~frozen /\ New(asked[serving.call])
          /\ frozen' = TRUE /\ doubt' = serving.call
    /\ UNCHANGED <<front, poisoned, toFront, shut, expired, journal, rejected, effects, asked, answers>>

\* A new owner knows none of the old sessions.  Recovery first decides what
\* was in doubt.
OwnerStarts ==
    /\ ~up /\ up' = TRUE
    /\ frozen' = FALSE /\ doubt' = None
    /\ \/ doubt # None /\ Perform(doubt) /\ UNCHANGED rejected
       \/ doubt # None /\ Reject(doubt)
       \/ UNCHANGED <<journal, rejected, effects>>
    /\ UNCHANGED <<front, channel, expired, peer, serving, stops, asked, answers>>

Expire(f) ==
    /\ f \notin expired /\ expired' = expired \cup {f}
    /\ UNCHANGED <<front, channel, owner, asked, answers>>

Next ==
    \/ \E f \in Frontends : FrontStep(f) \/ OwnerDrops(f) \/ OwnerTakes(f) \/ Expire(f)
    \/ OwnerDecides \/ OwnerReplies \/ OwnerStops \/ OwnerStarts

Spec == Init /\ [][Next]_vars

-----------------------------------------------------------------------------
(* Properties                                                              *)

\* What a frontend prints is about the call it is in: a reply that comes late,
\* after its call was given up, is never taken for the next call's
\* (FramedChannel::fail, dispatch).
AnswersTheCall == \A f \in Frontends : out[f] # None => out[f].call = call[f]

\* Both directions of a channel stay in step: a frame that was cut off is the
\* last one, and there is never more than one call under way, counting
\* frames, the owner's work and replies (send, receive, fail).
OneCallUnderWay ==
    \A f \in Frontends :
        /\ \A i \in DOMAIN toOwner[f] : toOwner[f][i] = Torn => i = Len(toOwner[f])
        /\ f \notin poisoned =>
            Len(toOwner[f]) + Len(toFront[f])
                + (IF serving # None /\ serving.front = f THEN 1 ELSE 0) <= 1

\* An agent can rely on its answers as RemoteCall says, whatever is lost,
\* late, cut off, repeated on another session or interrupted by the end of
\* the owner: in particular neither a failed channel nor a failed delivery,
\* whose attempt is in the vault by then, is ever reported as a refusal
\* (dispatch, use_secret).
RC == INSTANCE RemoteCall
AnswersAreSettled == RC!Spec

\* The steps a frontend may still take once its session has expired.
Remaining(f) ==
    5 * buffered[f] + (CASE at[f] = "ended" -> 0 [] at[f] = "line" -> 1 [] at[f] = "output" -> 2
                         [] at[f] = "receive" -> 3 [] at[f] = "send" -> 4 [] at[f] = "connect" -> 5)

\* A frontend winds down once its session has expired, also when its owner
\* hangs and with lines already read: it always has a step to take, because
\* every wait has a deadline, and each step brings it nearer to its end
\* (line, receive, output).
FrontendWindsDown ==
    [][\A f \in expired : at[f] # "ended" =>
        /\ ENABLED FrontStep(f)
        /\ UNCHANGED <<at[f], buffered[f]>> \/ Remaining(f)' < Remaining(f)]_vars
=============================================================================
