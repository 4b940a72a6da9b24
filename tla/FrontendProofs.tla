--------------------------- MODULE FrontendProofs ---------------------------
(***************************************************************************)
(* Proofs about the MCP frontends and the owner they call: the two         *)
(* directions of a channel stay in step, an answer is about the call that  *)
(* was made, and the answers are those RemoteCall promises, for any number *)
(* of frontends, requests and calls and any bound on the owner's ends.     *)
(***************************************************************************)
EXTENDS Frontend, TLAPS

Verdicts == {"ok", "refused", "capacity", "invalid", "unknown", "recovery", "unavailable"}
Answers == Verdicts \cup {"oversize"}

Message == [call: Nat, verdict: Verdicts]
Frame == [front: Frontends, call: Nat, verdict: Verdicts \cup {None}]

\* Places of run() inside a tool call.
Busy == {"send", "receive", "output"}

Shape ==
    /\ at \in [Frontends -> Busy \cup {"connect", "line", "ended"}]
    /\ call \in [Frontends -> Nat \cup {None}]
    /\ out \in [Frontends -> Message \cup {None}]
    /\ toOwner \in [Frontends -> Seq(Nat \cup {None})]
    /\ toFront \in [Frontends -> Seq(Message)]
    /\ serving \in Frame \cup {None}
    /\ doubt \in Nat \cup {None}
    /\ asked \in Seq(Requests \cup Reads)
    /\ answers \in Seq(Answers \cup {None})
    /\ Len(answers) = Len(asked)
    /\ \A f \in Frontends : at[f] \in Busy => call[f] \in 1 .. Len(asked)
    /\ \A f \in Frontends : IF at[f] = "output" THEN out[f] \in Message ELSE out[f] = None

\* The owner is at a frame of f.
Working(f) == serving # None /\ serving.front = f

\* The way from a frontend to the owner and back carries nothing.
Quiet(f) == toOwner[f] = <<>> /\ toFront[f] = <<>> /\ ~Working(f)

\* What is on the way is the call the frontend is in.
Carries(f) ==
    /\ \A i \in 1 .. Len(toOwner[f]) : toOwner[f][i] = call[f]
    /\ \A i \in 1 .. Len(toFront[f]) : toFront[f][i].call = call[f]
    /\ Working(f) => serving.call = call[f]

\* At most one thing is on the way.
Single(f) ==
    /\ toOwner[f] # <<>> => toFront[f] = <<>> /\ ~Working(f)
    /\ Len(toFront[f]) <= 1
    /\ toFront[f] # <<>> => ~Working(f)

Lane(f) ==
    /\ Len(toOwner[f]) <= 1
    /\ f \notin poisoned => Single(f)
    /\ f \notin poisoned /\ at[f] \notin {"receive", "ended"} => Quiet(f)
    /\ at[f] = "receive" => f \notin poisoned /\ Carries(f)
    /\ at[f] = "output" => out[f].call = call[f]

ChannelInv == Shape /\ \A f \in Frontends : Lane(f)

\* Call c may still take effect: it waits to be taken by the owner, is being
\* decided, or is in doubt.
Sending(f, c) == at[f] = "send" /\ call[f] = c
Queued(f, c) == \E i \in 1 .. Len(toOwner[f]) : toOwner[f][i] # Torn /\ toOwner[f][i] = c
Waits(f, c) == Sending(f, c) \/ Queued(f, c)
Deciding(c) == serving # None /\ serving.verdict = None /\ serving.call = c
Doubted(c) == doubt # None /\ doubt = c

Alive(c) == Deciding(c) \/ Doubted(c) \/ \E f \in Frontends : Waits(f, c)

\* v is a right answer to call c, now and from now on.
Fits(c, v) ==
    /\ c \in 1 .. Len(asked)
    /\ v \in RC!Settled \cup {"unavailable"} => ~Alive(c)
    /\ v = "ok" => asked[c] \in Reads \cup journal
    /\ v \in RC!Settled \ {"ok"} => c \notin effects

\* The journal and the effects agree, and no call is carried out twice.
Recorded ==
    /\ effects \subseteq 1 .. Len(asked)
    /\ journal = {asked[c] : c \in effects}
    /\ journal \subseteq Requests
    /\ \A c \in Nat : Alive(c) => c \in 1 .. Len(asked) /\ c \notin effects

\* A call is in one place at a time, and one in doubt blocks the vault.
OnePlace ==
    /\ \A f \in Frontends, c \in Nat :
        Waits(f, c) => /\ ~Deciding(c) /\ ~Doubted(c)
                       /\ ~(Sending(f, c) /\ Queued(f, c))
                       /\ \A g \in Frontends : Waits(g, c) => g = f
    /\ \A c \in Nat : Deciding(c) => ~Doubted(c)
    /\ \A c \in Nat : Doubted(c) => frozen /\ asked[c] \in Requests \ journal

\* A call belongs to one frontend, until it is answered.
Owned ==
    \A f \in Frontends : at[f] \in Busy =>
        /\ answers[call[f]] = None
        /\ \A g \in Frontends : at[g] \in Busy /\ call[g] = call[f] => g = f

\* Call c is answered by v, by the owner, in the socket, by the frontend or
\* already to the agent.
Decided(c, v) == serving # None /\ serving.call = c /\ serving.verdict = v
Replied(f, c, v) == \E i \in 1 .. Len(toFront[f]) : toFront[f][i] = Told(c, v)
Printing(f, c, v) == at[f] = "output" /\ out[f] = Told(c, v)
Given(c, v) == c \in 1 .. Len(asked) /\ answers[c] = v

Says(c, v) == Decided(c, v) \/ Given(c, v) \/ \E f \in Frontends : Replied(f, c, v) \/ Printing(f, c, v)

\* Every answer, on its way or given, is right.
Right == \A c \in Nat, v \in Answers : Says(c, v) => Fits(c, v)

CallInv == ChannelInv /\ Recorded /\ OnePlace /\ Owned /\ Right

-----------------------------------------------------------------------------
(* Sequences.                                                              *)

LEMMA FirstOf ==
    ASSUME NEW S, NEW s \in Seq(S), s # <<>>
    PROVE  /\ Head(s) \in S /\ Head(s) = s[1] /\ Len(s) \in Nat /\ Len(s) >= 1
           /\ Tail(s) \in Seq(S) /\ Len(Tail(s)) = Len(s) - 1
           /\ Len(s) <= 1 => Tail(s) = <<>>
OBVIOUS

LEMMA OnlyOne ==
    ASSUME NEW S, NEW x \in S
    PROVE  /\ Append(<<>>, x) \in Seq(S) /\ Append(<<>>, x) # <<>>
           /\ Len(Append(<<>>, x)) = 1 /\ Append(<<>>, x)[1] = x
           /\ \A i \in 1 .. Len(Append(<<>>, x)) : Append(<<>>, x)[i] = x
           /\ Len(Append(<<>>, x)) <= 1
OBVIOUS

LEMMA OneMore ==
    ASSUME NEW S, NEW s \in Seq(S), NEW x \in S
    PROVE  /\ Append(s, x) \in Seq(S)
           /\ Len(s) \in Nat /\ Len(Append(s, x)) = Len(s) + 1
           /\ \A i \in 1 .. Len(s) : Append(s, x)[i] = s[i]
           /\ Append(s, x)[Len(s) + 1] = x
OBVIOUS

LEMMA ReplaceOne ==
    ASSUME NEW S, NEW s \in Seq(S), NEW i \in 1 .. Len(s), NEW x \in S
    PROVE  LET t == [s EXCEPT ![i] = x]
           IN  /\ t \in Seq(S) /\ Len(t) = Len(s) /\ t[i] = x
               /\ \A j \in 1 .. Len(s) : j # i => t[j] = s[j]
OBVIOUS

LEMMA MessageFields ==
    ASSUME NEW c \in Nat, NEW v \in Verdicts
    PROVE  Told(c, v) \in Message /\ Told(c, v).call = c /\ Told(c, v).verdict = v
BY DEF Told, Message

-----------------------------------------------------------------------------
(* Steps that matter to a channel.                                         *)

\* Reading lines: nothing but the place of the frontend changes, or it ends.
LEMMA ReadingSteps ==
    ASSUME NEW f \in Frontends, Connect(f) \/ InputEnds(f) \/ Local(f) \/ Handshake(f)
    PROVE  /\ UNCHANGED <<serving, vault, asked, answers>>
           /\ \/ Exit(f)
              \/ UNCHANGED <<at, call, out, channel>>
              \/ /\ at[f] = "connect" /\ at' = [at EXCEPT ![f] = "line"]
                 /\ UNCHANGED <<call, out, channel>>
BY DEF Connect, InputEnds, Local, Handshake, Line, owner, vault, channel

\* What frontend g has to do with a channel is as before.
Same(g) ==
    /\ at'[g] = at[g] /\ call'[g] = call[g] /\ out'[g] = out[g]
    /\ toOwner'[g] = toOwner[g] /\ toFront'[g] = toFront[g]
    /\ g \in poisoned' <=> g \in poisoned

LEMMA LaneSame ==
    ASSUME NEW g \in Frontends, Lane(g), Same(g), Working(g)' => Working(g) /\ serving'.call = serving.call
    PROVE  Lane(g)'
BY DEF Lane, Same, Single, Quiet, Carries, Working

\* A frontend that ends leaves an empty way back.
LEMMA ExitChannel ==
    ASSUME ChannelInv, NEW f \in Frontends, Exit(f), UNCHANGED <<serving, doubt, asked, answers>>
    PROVE  ChannelInv'
<1> USE DEF ChannelInv
<1>1. Shape'
  <2>1. <<>> \in Seq(Message)
    OBVIOUS
  <2> QED BY <2>1 DEF Exit, Shape, Busy
<1>2. ASSUME NEW g \in Frontends, g # f PROVE Lane(g)'
  BY <1>2, LaneSame DEF Exit, Same, Shape, Working
<1>3. Lane(f)'
  BY DEF Exit, Lane, Single, Working, Shape
<1> QED BY <1>1, <1>2, <1>3

LEMMA ChannelAfterReading ==
    ASSUME ChannelInv, NEW f \in Frontends,
           Connect(f) \/ InputEnds(f) \/ Local(f) \/ Handshake(f)
    PROVE  ChannelInv'
<1> USE DEF ChannelInv
<1>1. UNCHANGED <<serving, doubt, asked, answers>>
  BY ReadingSteps DEF vault
<1>2. CASE Exit(f)
  BY <1>1, <1>2, ExitChannel
<1>3. CASE UNCHANGED <<at, call, out, channel>>
  BY <1>1, <1>3 DEF Shape, Lane, Single, Quiet, Carries, Working, channel
<1>4. CASE /\ at[f] = "connect" /\ at' = [at EXCEPT ![f] = "line"]
           /\ UNCHANGED <<call, out, channel>>
  <2>1. Shape'
    BY <1>1, <1>4 DEF Shape, Busy, channel
  <2>2. ASSUME NEW g \in Frontends PROVE Lane(g)'
    BY <1>1, <1>4, <2>2 DEF Shape, Lane, Single, Quiet, Carries, Working, channel
  <2> QED BY <2>1, <2>2
<1> QED BY <1>2, <1>3, <1>4, ReadingSteps

LEMMA ChannelAfterCall ==
    ASSUME ChannelInv, NEW f \in Frontends, Call(f)
    PROVE  ChannelInv'
<1> USE DEF ChannelInv
<1>0. PICK what \in Requests \cup Reads : asked' = Append(asked, what)
  BY DEF Call
<1> DEFINE c == Len(asked) + 1
<1>1. /\ asked' \in Seq(Requests \cup Reads) /\ Len(asked') = Len(asked) + 1
      /\ Len(asked) \in Nat /\ c \in Nat /\ c \in 1 .. Len(asked')
  BY <1>0, OneMore DEF Shape
<1>2. answers' \in Seq(Answers \cup {None}) /\ Len(answers') = Len(answers) + 1
  BY OneMore DEF Call, Shape
<1>3. /\ at[f] = "line" /\ call' = [call EXCEPT ![f] = c]
      /\ UNCHANGED <<poisoned, toOwner, toFront, serving, doubt>>
  BY DEF Call, Line, channel, owner, vault
<1>4. Told(c, "invalid") \in Message /\ Told(c, "invalid").call = c
  BY <1>1, MessageFields DEF Verdicts
<1>5. \/ at' = [at EXCEPT ![f] = "send"] /\ UNCHANGED out
      \/ at' = [at EXCEPT ![f] = "output"] /\ out' = [out EXCEPT ![f] = Told(c, "invalid")]
  BY <1>3 DEF Call, Respond, Shape
<1> HIDE DEF c
<1>6. Shape'
  <2>1. ASSUME NEW g \in Frontends, at'[g] \in Busy PROVE call'[g] \in 1 .. Len(asked')
    <3>1. CASE g = f
      BY <1>1, <1>3, <3>1 DEF Shape
    <3>2. CASE g # f
      BY <1>1, <1>3, <1>5, <2>1, <3>2 DEF Shape
    <3> QED BY <3>1, <3>2
  <2>2. at' \in [Frontends -> Busy \cup {"connect", "line", "ended"}]
    BY <1>5 DEF Shape, Busy
  <2>3. call' \in [Frontends -> Nat \cup {None}]
    BY <1>1, <1>3 DEF Shape
  <2>4. out' \in [Frontends -> Message \cup {None}]
    BY <1>4, <1>5 DEF Shape
  <2>5. \A g \in Frontends : IF at'[g] = "output" THEN out'[g] \in Message ELSE out'[g] = None
    BY <1>3, <1>4, <1>5 DEF Shape
  <2> QED BY <1>1, <1>2, <1>3, <2>1, <2>2, <2>3, <2>4, <2>5 DEF Shape
<1>7. ASSUME NEW g \in Frontends, g # f PROVE Lane(g)'
  BY <1>3, <1>5, <1>7, LaneSame DEF Same, Shape, Working
<1>8. Lane(f)'
  BY <1>3, <1>4, <1>5 DEF Lane, Single, Quiet, Working, Shape
<1> QED BY <1>6, <1>7, <1>8

\* A frontend with an answer to print, taken from or given up on its channel.
LEMMA RespondChannel ==
    ASSUME ChannelInv, NEW f \in Frontends, at[f] \in Busy, NEW m \in Message, m.call = call[f],
           at' = [at EXCEPT ![f] = "output"], out' = [out EXCEPT ![f] = m],
           UNCHANGED <<call, serving, doubt, asked, answers>>,
           toOwner' \in [Frontends -> Seq(Nat \cup {None})], toFront' \in [Frontends -> Seq(Message)],
           \A g \in Frontends \ {f} :
                /\ toOwner'[g] = toOwner[g] /\ toFront'[g] = toFront[g]
                /\ g \in poisoned' <=> g \in poisoned,
           Len(toOwner'[f]) <= 1, f \notin poisoned' => Quiet(f)'
    PROVE  ChannelInv'
<1> USE DEF ChannelInv
<1>1. Shape'
  BY DEF Shape, Busy
<1>2. ASSUME NEW g \in Frontends, g # f PROVE Lane(g)'
  BY <1>2, LaneSame DEF Same, Shape, Working
<1>3. Lane(f)'
  BY DEF Lane, Single, Quiet, Shape
<1> QED BY <1>1, <1>2, <1>3

LEMMA LostFits ==
    ASSUME Shape, NEW f \in Frontends, at[f] \in Busy
    PROVE  Lost(f) \in Message /\ Lost(f).call = call[f] /\ Lost(f).verdict = "unknown"
<1>1. call[f] \in Nat
  BY DEF Shape
<1> QED BY <1>1, MessageFields DEF Lost, Verdicts

LEMMA ChannelAfterSend ==
    ASSUME ChannelInv, NEW f \in Frontends, Send(f)
    PROVE  ChannelInv'
<1> USE DEF ChannelInv
<1>0. /\ at[f] = "send" /\ at[f] \in Busy /\ call[f] \in Nat
      /\ f \notin poisoned => Quiet(f)
      /\ Len(toOwner[f]) <= 1
      /\ UNCHANGED <<call, serving, doubt, asked, answers>>
  BY DEF Send, Busy, Shape, Lane, owner, vault
<1>a. Lost(f) \in Message /\ Lost(f).call = call[f]
  BY <1>0, LostFits
<1>1. CASE SendFrame(f) /\ at' = [at EXCEPT ![f] = "receive"] /\ UNCHANGED out
  <2>1. /\ toOwner' = [toOwner EXCEPT ![f] = Append(<<>>, call[f])]
        /\ f \notin poisoned /\ UNCHANGED <<poisoned, toFront>> /\ Quiet(f)
    BY <1>0, <1>1 DEF SendFrame, Quiet, Shape
  <2> DEFINE s == Append(<<>>, call[f])
  <2>2. /\ s \in Seq(Nat \cup {None}) /\ s # <<>> /\ Len(s) <= 1
        /\ \A i \in 1 .. Len(s) : s[i] = call[f]
    BY <1>0, OnlyOne
  <2> HIDE DEF s
  <2>3. Shape'
    BY <1>0, <1>1, <2>1, <2>2 DEF Shape, Busy, s
  <2>4. ASSUME NEW g \in Frontends, g # f PROVE Lane(g)'
    BY <1>0, <1>1, <2>1, <2>4, LaneSame DEF Same, Shape, Working
  <2>5. /\ toOwner'[f] = s /\ toFront'[f] = <<>> /\ ~Working(f)' /\ f \notin poisoned'
        /\ at'[f] = "receive" /\ call'[f] = call[f] /\ out'[f] = None
    BY <1>0, <1>1, <2>1 DEF Shape, Quiet, Working, s
  <2>6. Carries(f)'
    <3>1. \A i \in 1 .. Len(toOwner'[f]) : toOwner'[f][i] = call'[f]
      BY <2>2, <2>5
    <3>2. \A i \in 1 .. Len(toFront'[f]) : toFront'[f][i].call = call'[f]
      BY <2>5
    <3> QED BY <2>5, <3>1, <3>2 DEF Carries
  <2>7. Lane(f)'
    BY <2>2, <2>5, <2>6 DEF Lane, Single
  <2> QED BY <2>3, <2>4, <2>7
<1>2. CASE SendFails(f) /\ Respond(f, Lost(f))
  <2> DEFINE s == Append(<<>>, Torn)
  <2>1. s \in Seq(Nat \cup {None}) /\ Len(s) <= 1
    BY OnlyOne DEF Torn
  <2>2. \/ UNCHANGED toOwner
        \/ toOwner' = [toOwner EXCEPT ![f] = s]
    BY <1>0, <1>2 DEF SendFails, Quiet, Shape
  <2> HIDE DEF s
  <2>3. /\ toOwner' \in [Frontends -> Seq(Nat \cup {None})] /\ Len(toOwner'[f]) <= 1
        /\ \A g \in Frontends \ {f} : toOwner'[g] = toOwner[g]
    <3>1. CASE UNCHANGED toOwner
      BY <1>0, <3>1 DEF Shape
    <3>2. CASE toOwner' = [toOwner EXCEPT ![f] = s]
      <4>1. toOwner \in [Frontends -> Seq(Nat \cup {None})]
        BY DEF Shape
      <4>2. toOwner'[f] = s /\ \A g \in Frontends \ {f} : toOwner'[g] = toOwner[g]
        BY <3>2, <4>1
      <4>3. toOwner' \in [Frontends -> Seq(Nat \cup {None})]
        BY <2>1, <3>2, <4>1
      <4> QED BY <2>1, <4>2, <4>3
    <3> QED BY <2>2, <3>1, <3>2
  <2>4. /\ poisoned' = poisoned \cup {f} /\ UNCHANGED toFront
        /\ at' = [at EXCEPT ![f] = "output"] /\ out' = [out EXCEPT ![f] = Lost(f)]
    BY <1>2 DEF SendFails, Fail, Respond
  <2> QED BY <1>0, <1>a, <2>3, <2>4, RespondChannel DEF Shape
<1>3. CASE f \in poisoned /\ UNCHANGED channel /\ Respond(f, Lost(f))
  <2>1. /\ UNCHANGED <<poisoned, toOwner, toFront>> /\ f \in poisoned'
        /\ at' = [at EXCEPT ![f] = "output"] /\ out' = [out EXCEPT ![f] = Lost(f)]
    BY <1>3 DEF channel, Respond
  <2> QED BY <1>0, <1>a, <2>1, RespondChannel DEF Shape
<1> QED BY <1>1, <1>2, <1>3 DEF Send

LEMMA ChannelAfterReceive ==
    ASSUME ChannelInv, NEW f \in Frontends, Receive(f)
    PROVE  ChannelInv'
<1> USE DEF ChannelInv
<1>0. /\ at[f] = "receive" /\ at[f] \in Busy /\ f \notin poisoned /\ Carries(f) /\ Single(f)
      /\ Len(toOwner[f]) <= 1
      /\ UNCHANGED <<call, serving, doubt, asked, answers>>
  BY DEF Receive, Busy, Shape, Lane, owner, vault
<1>1. CASE ReceiveFrame(f) /\ Respond(f, Head(toFront[f]))
  <2> DEFINE m == Head(toFront[f])
  <2>1. toFront[f] # <<>> /\ toFront[f] \in Seq(Message)
    BY <1>1 DEF ReceiveFrame, Shape
  <2>2. /\ m \in Message /\ m = toFront[f][1] /\ Len(toFront[f]) \in Nat /\ Len(toFront[f]) >= 1
        /\ Tail(toFront[f]) \in Seq(Message) /\ Tail(toFront[f]) = <<>>
    BY <1>0, <2>1, FirstOf DEF Single
  <2> HIDE DEF m
  <2>3. m.call = call[f]
    BY <1>0, <2>2 DEF Carries
  <2>4. /\ toFront' = [toFront EXCEPT ![f] = <<>>] /\ UNCHANGED <<poisoned, toOwner>>
        /\ at' = [at EXCEPT ![f] = "output"] /\ out' = [out EXCEPT ![f] = m]
    BY <1>1, <2>2 DEF ReceiveFrame, Respond, m
  <2>5. toFront' \in [Frontends -> Seq(Message)] /\ \A g \in Frontends \ {f} : toFront'[g] = toFront[g]
    BY <2>2, <2>4 DEF Shape
  <2>6. Quiet(f)'
    BY <1>0, <2>1, <2>4 DEF Single, Quiet, Working, Shape
  <2> QED BY <1>0, <2>2, <2>3, <2>4, <2>5, <2>6, RespondChannel DEF Shape
<1>2. CASE ReceiveFails(f) /\ Respond(f, Lost(f))
  <2>1. Lost(f) \in Message /\ Lost(f).call = call[f]
    BY <1>0, LostFits
  <2>2. /\ poisoned' = poisoned \cup {f} /\ UNCHANGED <<toOwner, toFront>>
        /\ at' = [at EXCEPT ![f] = "output"] /\ out' = [out EXCEPT ![f] = Lost(f)]
    BY <1>2 DEF ReceiveFails, Fail, Respond
  <2> QED BY <1>0, <2>1, <2>2, RespondChannel DEF Shape
<1> QED BY <1>1, <1>2 DEF Receive

\* What Output records of the call: its verdict, or that it did not fit.
LEMMA OutputRecords ==
    ASSUME Shape, NEW f \in Frontends, Output(f), ~Exit(f)
    PROVE  /\ at[f] = "output" /\ call[f] \in 1 .. Len(asked) /\ out[f] \in Message
           /\ \E v \in Answers :
                /\ \/ v = out[f].verdict
                   \/ v = "oversize" /\ out[f].verdict = "ok" /\ asked[call[f]] \in Reads
                /\ answers' = [answers EXCEPT ![call[f]] = v]
           /\ at' = [at EXCEPT ![f] = "line"]
           /\ call' = [call EXCEPT ![f] = None] /\ out' = [out EXCEPT ![f] = None]
           /\ UNCHANGED <<channel, serving, vault, asked>>
<1>1. at[f] = "output" /\ call[f] \in 1 .. Len(asked) /\ out[f] \in Message
  BY DEF Output, Shape, Busy
<1>2. out[f].verdict \in Answers
  BY <1>1 DEF Message, Answers
<1> QED BY <1>1, <1>2 DEF Output, Answers, owner

LEMMA ChannelAfterOutput ==
    ASSUME ChannelInv, NEW f \in Frontends, Output(f)
    PROVE  ChannelInv'
<1> USE DEF ChannelInv
<1>1. CASE Exit(f)
  <2>1. CASE UNCHANGED answers
    BY <1>1, <2>1, ExitChannel DEF Output, owner, vault
  <2>2. CASE at' = [at EXCEPT ![f] = "line"]
    BY <1>1, <2>2 DEF Exit, Shape
  <2> QED BY <2>1, <2>2 DEF Output
<1>2. CASE ~Exit(f)
  <2>1. /\ at[f] = "output" /\ call[f] \in 1 .. Len(asked)
        /\ at' = [at EXCEPT ![f] = "line"]
        /\ call' = [call EXCEPT ![f] = None] /\ out' = [out EXCEPT ![f] = None]
        /\ UNCHANGED <<poisoned, toOwner, toFront, serving, doubt, asked>>
    BY <1>2, OutputRecords DEF channel, vault
  <2>2. PICK v \in Answers : answers' = [answers EXCEPT ![call[f]] = v]
    BY <1>2, OutputRecords
  <2>3. answers' \in Seq(Answers \cup {None}) /\ Len(answers') = Len(asked)
    BY <2>1, <2>2, ReplaceOne DEF Shape
  <2>4. Shape'
    BY <2>1, <2>3 DEF Shape, Busy
  <2>5. ASSUME NEW g \in Frontends, g # f PROVE Lane(g)'
    BY <2>1, <2>5, LaneSame DEF Same, Shape, Working
  <2>6. Lane(f)'
    BY <2>1 DEF Lane, Single, Quiet, Working, Shape
  <2> QED BY <2>4, <2>5, <2>6
<1> QED BY <1>1, <1>2

LEMMA ServedFrame ==
    ASSUME Shape, serving # None
    PROVE  /\ serving.front \in Frontends /\ serving.call \in Nat
           /\ serving.verdict \in Verdicts \cup {None}
BY DEF Shape, Frame

LEMMA ChannelAfterDrops ==
    ASSUME ChannelInv, NEW f \in Frontends, Drops(f),
           UNCHANGED <<at, call, out, poisoned, toFront, doubt, asked, answers>>,
           serving' = serving \/ serving' = None
    PROVE  ChannelInv'
<1> USE DEF ChannelInv
<1>1. toOwner' = [toOwner EXCEPT ![f] = <<>>] /\ <<>> \in Seq(Nat \cup {None})
  BY DEF Drops
<1>2. Shape'
  BY <1>1 DEF Shape
<1>3. ASSUME NEW g \in Frontends, g # f PROVE Lane(g)'
  BY <1>1, <1>3, LaneSame DEF Same, Shape, Working
<1>4. Lane(f)'
  <2>1. toOwner'[f] = <<>> /\ Len(toOwner'[f]) <= 1 /\ Lane(f)
    BY <1>1 DEF Shape
  <2> QED BY <2>1 DEF Lane, Single, Quiet, Carries, Working
<1> QED BY <1>2, <1>3, <1>4

LEMMA ChannelAfterTakes ==
    ASSUME ChannelInv, NEW f \in Frontends, OwnerTakes(f)
    PROVE  ChannelInv'
<1> USE DEF ChannelInv
<1>1. /\ serving = None /\ toOwner[f] # <<>> /\ toOwner[f] \in Seq(Nat \cup {None})
      /\ Head(toOwner[f]) # None /\ Lane(f)
      /\ UNCHANGED <<at, call, out, poisoned, toFront, doubt, asked, answers>>
  BY DEF OwnerTakes, Torn, front, vault, Shape
<1>2. /\ Head(toOwner[f]) \in Nat /\ Head(toOwner[f]) = toOwner[f][1]
      /\ Tail(toOwner[f]) = <<>> /\ 1 \in 1 .. Len(toOwner[f])
  <2>1. Len(toOwner[f]) <= 1
    BY <1>1 DEF Lane
  <2>2. /\ Head(toOwner[f]) \in Nat \cup {None} /\ Head(toOwner[f]) = toOwner[f][1]
        /\ Tail(toOwner[f]) = <<>> /\ Len(toOwner[f]) \in Nat /\ Len(toOwner[f]) >= 1
    BY <1>1, <2>1, FirstOf
  <2> QED BY <1>1, <2>2
<1>3. /\ serving' = [front |-> f, call |-> Head(toOwner[f]), verdict |-> None]
      /\ toOwner' = [toOwner EXCEPT ![f] = <<>>]
  BY <1>2 DEF OwnerTakes
<1>4. serving' \in Frame /\ serving'.front = f /\ serving'.call = toOwner[f][1]
  BY <1>2, <1>3 DEF Frame
<1>5. Shape'
  <2>1. <<>> \in Seq(Nat \cup {None})
    OBVIOUS
  <2>2. toOwner' \in [Frontends -> Seq(Nat \cup {None})]
    BY <1>3, <2>1 DEF Shape
  <2> QED BY <1>1, <1>4, <2>2 DEF Shape
<1>6. ASSUME NEW g \in Frontends, g # f PROVE Lane(g)'
  BY <1>1, <1>3, <1>4, <1>6, LaneSame DEF Same, Shape, Working
<1>7. Lane(f)'
  <2>1. toOwner'[f] = <<>> /\ Len(toOwner'[f]) <= 1 /\ toFront'[f] = toFront[f]
    BY <1>1, <1>3 DEF Shape
  <2>2. f \notin poisoned => toFront[f] = <<>> /\ at[f] \in {"receive", "ended"}
    BY <1>1 DEF Lane, Single, Quiet
  <2>3. at[f] = "receive" => serving'.call = call[f] /\ f \notin poisoned
    BY <1>1, <1>2, <1>4 DEF Lane, Carries
  <2> QED BY <1>1, <1>4, <2>1, <2>2, <2>3 DEF Lane, Single, Quiet, Carries, Working
<1> QED BY <1>5, <1>6, <1>7

\* What OwnerDecides does to the frame it is at.
LEMMA DecidesFrame ==
    ASSUME Shape, OwnerDecides
    PROVE  /\ serving # None /\ serving.verdict = None
           /\ serving' \in Frame /\ serving'.front = serving.front /\ serving'.call = serving.call
           /\ serving'.verdict \in {"ok", "capacity", "refused", "recovery", "unavailable"}
           /\ doubt' \in {doubt, serving.call}
           /\ UNCHANGED <<at, call, out, poisoned, toOwner, toFront, asked, answers>>
<1>1. PICK v \in {"ok", "capacity", "refused", "recovery", "unavailable"} :
        serving' = [serving EXCEPT !.verdict = v]
  BY DEF OwnerDecides, AnswersOnly, CarriesOut, Undelivered, Verdict
<1>2. serving # None /\ serving \in Frame /\ serving.verdict = None
  BY DEF OwnerDecides, Shape
<1>3. v \in Verdicts
  BY DEF Verdicts
<1>4. /\ serving' \in Frame /\ serving'.front = serving.front /\ serving'.call = serving.call
      /\ serving'.verdict = v
  BY <1>1, <1>2, <1>3 DEF Frame
<1>5. doubt' \in {doubt, serving.call}
  BY DEF OwnerDecides, AnswersOnly, CarriesOut, Undelivered, vault
<1>6. UNCHANGED <<at, call, out, poisoned, toOwner, toFront, asked, answers>>
  BY DEF OwnerDecides, front, channel
<1> QED BY <1>2, <1>4, <1>5, <1>6

LEMMA ChannelAfterDecides ==
    ASSUME ChannelInv, OwnerDecides
    PROVE  ChannelInv'
<1> USE DEF ChannelInv
<1>1. Shape'
  BY DecidesFrame, ServedFrame DEF Shape
<1>2. ASSUME NEW g \in Frontends PROVE Lane(g)'
  <2>1. serving # None /\ serving'.front = serving.front /\ serving'.call = serving.call
    BY DecidesFrame
  <2>2. Same(g)
    BY DecidesFrame DEF Same
  <2> QED BY <2>1, <2>2, LaneSame DEF Working
<1> QED BY <1>1, <1>2

LEMMA ChannelAfterReplies ==
    ASSUME ChannelInv, OwnerReplies
    PROVE  ChannelInv'
<1> USE DEF ChannelInv
<1>1. /\ serving # None /\ serving.verdict # None /\ serving' = None
      /\ UNCHANGED <<at, call, out, poisoned, doubt, asked, answers>>
  BY DEF OwnerReplies, front, vault
<1>2. PICK f \in Frontends, m \in Message :
        f = serving.front /\ m = Told(serving.call, serving.verdict) /\ m.call = serving.call
  BY <1>1, ServedFrame, MessageFields
<1>3. CASE toFront' = [toFront EXCEPT ![f] = Append(@, m)] /\ UNCHANGED toOwner
  <2>1. toFront[f] \in Seq(Message) /\ Working(f) /\ Lane(f)
    BY <1>1, <1>2 DEF Shape, Working
  <2>2. Append(toFront[f], m) \in Seq(Message)
    BY <1>2, <2>1, OneMore
  <2>3. toFront'[f] = Append(toFront[f], m) /\ toFront' \in [Frontends -> Seq(Message)]
    BY <1>2, <1>3, <2>2 DEF Shape
  <2>4. Shape'
    BY <1>1, <1>3, <2>3 DEF Shape
  <2>5. ASSUME NEW g \in Frontends, g # f PROVE Lane(g)'
    BY <1>1, <1>3, <2>5, LaneSame DEF Same, Shape, Working
  <2>6. ASSUME f \in poisoned PROVE Lane(f)'
    BY <1>1, <1>2, <1>3, <2>1, <2>6 DEF Lane
  <2>7. ASSUME f \notin poisoned PROVE Lane(f)'
    <3>1. toOwner[f] = <<>> /\ toFront[f] = <<>> /\ at[f] \in {"receive", "ended"}
      BY <2>1, <2>7 DEF Lane, Single, Quiet
    <3>2. toFront'[f] = Append(<<>>, m)
      BY <2>3, <3>1
    <3>3. Len(toFront'[f]) <= 1 /\ \A i \in 1 .. Len(toFront'[f]) : toFront'[f][i] = m
      BY <1>2, <3>2, OnlyOne
    <3>4. at[f] = "receive" => m.call = call[f]
      BY <1>2, <2>1 DEF Lane, Carries
    <3>5. toOwner'[f] = <<>> /\ Len(toOwner'[f]) <= 1
      BY <1>3, <3>1
    <3>6. at'[f] = "receive" => Carries(f)'
      <4> SUFFICES ASSUME at'[f] = "receive" PROVE Carries(f)'
        OBVIOUS
      <4>1. \A i \in 1 .. Len(toFront'[f]) : toFront'[f][i].call = call'[f]
        BY <1>1, <3>3, <3>4
      <4>2. \A i \in 1 .. Len(toOwner'[f]) : toOwner'[f][i] = call'[f]
        BY <3>5
      <4> QED BY <1>1, <4>1, <4>2 DEF Carries, Working
    <3>7. Single(f)' /\ ~Working(f)'
      BY <1>1, <3>3, <3>5 DEF Single, Working
    <3> QED BY <1>1, <2>1, <2>7, <3>1, <3>5, <3>6, <3>7 DEF Lane
  <2> QED BY <2>4, <2>5, <2>6, <2>7
<1>4. CASE Drops(f) /\ UNCHANGED toFront
  BY <1>1, <1>2, <1>4, ChannelAfterDrops
<1> QED BY <1>2, <1>3, <1>4 DEF OwnerReplies

LEMMA ChannelAfterStops ==
    ASSUME ChannelInv, OwnerStops
    PROVE  ChannelInv'
<1> USE DEF ChannelInv
<1>1. /\ serving' = None /\ toOwner' = [f \in Frontends |-> <<>>]
      /\ UNCHANGED <<at, call, out, poisoned, toFront, asked, answers>>
  BY DEF OwnerStops, front
<1>2. doubt' \in Nat \cup {None}
  BY ServedFrame DEF OwnerStops, Shape
<1>3. Shape'
  <2>1. <<>> \in Seq(Nat \cup {None})
    OBVIOUS
  <2>2. toOwner' \in [Frontends -> Seq(Nat \cup {None})]
    BY <1>1, <2>1
  <2> QED BY <1>1, <1>2, <2>2 DEF Shape
<1>4. ASSUME NEW g \in Frontends PROVE Lane(g)'
  <2>1. toOwner'[g] = <<>> /\ Len(toOwner'[g]) <= 1 /\ Lane(g)
    BY <1>1
  <2> QED BY <1>1, <2>1 DEF Lane, Single, Quiet, Carries, Working
<1> QED BY <1>3, <1>4

LEMMA ChannelUntouched ==
    ASSUME ChannelInv, doubt' \in {doubt, None},
           UNCHANGED <<at, call, out, poisoned, toOwner, toFront, serving, asked, answers>>
    PROVE  ChannelInv'
BY DEF ChannelInv, Shape, Lane, Single, Quiet, Carries, Working

LEMMA ChannelInitially ==
    ASSUME Init
    PROVE  ChannelInv
<1>1. <<>> \in Seq(Nat \cup {None}) /\ <<>> \in Seq(Message)
  OBVIOUS
<1>2. Shape
  BY <1>1 DEF Init, Shape, Busy
<1>3. ASSUME NEW f \in Frontends PROVE Lane(f)
  <2>1. /\ toOwner[f] = <<>> /\ toFront[f] = <<>> /\ serving = None /\ out[f] = None
        /\ at[f] = "connect" /\ Len(toOwner[f]) <= 1 /\ Len(toFront[f]) <= 1
    BY DEF Init
  <2> QED BY <2>1 DEF Lane, Single, Quiet, Working
<1> QED BY <1>2, <1>3 DEF ChannelInv

LEMMA ChannelPreserved ==
    ASSUME ChannelInv, [Next]_vars
    PROVE  ChannelInv'
<1>1. ASSUME NEW f \in Frontends, FrontStep(f) PROVE ChannelInv'
  BY <1>1, ChannelAfterReading, ChannelAfterCall, ChannelAfterSend, ChannelAfterReceive,
     ChannelAfterOutput DEF FrontStep
<1>2. ASSUME NEW f \in Frontends, OwnerDrops(f) PROVE ChannelInv'
  BY <1>2, ChannelAfterDrops DEF OwnerDrops, front, vault
<1>3. ASSUME NEW f \in Frontends, OwnerTakes(f) PROVE ChannelInv'
  BY <1>3, ChannelAfterTakes
<1>4. ASSUME NEW f \in Frontends, Expire(f) PROVE ChannelInv'
  BY <1>4, ChannelUntouched DEF Expire, front, channel, owner, vault
<1>5. CASE OwnerStarts
  BY <1>5, ChannelUntouched DEF OwnerStarts, front, channel
<1>6. CASE UNCHANGED vars
  BY <1>6, ChannelUntouched DEF vars
<1> QED BY <1>1, <1>2, <1>3, <1>4, <1>5, <1>6, ChannelAfterDecides, ChannelAfterReplies,
           ChannelAfterStops DEF Next

\* The answer a frontend prints is about the call it is in
\* (FramedChannel::fail, dispatch).
THEOREM AnswerIsToTheCall == Spec => []AnswersTheCall
<1>1. ChannelInv => AnswersTheCall
  BY DEF ChannelInv, Shape, Lane, AnswersTheCall
<1> QED BY <1>1, ChannelInitially, ChannelPreserved, PTL DEF Spec

\* A frame that was cut off is the last one, and a channel that has not
\* failed carries at most one call, counting both directions and the owner's
\* work (send, receive, fail).
THEOREM OneCallAtATime == Spec => []OneCallUnderWay
<1>1. ASSUME ChannelInv PROVE OneCallUnderWay
  <2> SUFFICES ASSUME NEW f \in Frontends
               PROVE  /\ \A i \in DOMAIN toOwner[f] : toOwner[f][i] = Torn => i = Len(toOwner[f])
                      /\ f \notin poisoned =>
                            Len(toOwner[f]) + Len(toFront[f]) + (IF Working(f) THEN 1 ELSE 0) <= 1
    BY DEF OneCallUnderWay, Working
  <2>1. /\ toOwner[f] \in Seq(Nat \cup {None}) /\ toFront[f] \in Seq(Message) /\ Lane(f)
    BY <1>1 DEF ChannelInv, Shape
  <2>2. /\ Len(toOwner[f]) \in Nat /\ Len(toFront[f]) \in Nat /\ Len(toOwner[f]) <= 1
        /\ DOMAIN toOwner[f] = 1 .. Len(toOwner[f])
        /\ toOwner[f] = <<>> => Len(toOwner[f]) = 0
        /\ toFront[f] = <<>> => Len(toFront[f]) = 0
    BY <2>1 DEF Lane
  <2>3. \A i \in DOMAIN toOwner[f] : i = Len(toOwner[f])
    BY <2>2
  <2>4. ASSUME f \notin poisoned
        PROVE  Len(toOwner[f]) + Len(toFront[f]) + (IF Working(f) THEN 1 ELSE 0) <= 1
    <3>1. Single(f)
      BY <2>1, <2>4 DEF Lane
    <3>2. CASE toOwner[f] # <<>>
      <4>1. Len(toFront[f]) = 0 /\ ~Working(f)
        BY <2>2, <3>1, <3>2 DEF Single
      <4> QED BY <2>2, <4>1
    <3>3. CASE toOwner[f] = <<>> /\ toFront[f] # <<>>
      <4>1. Len(toFront[f]) <= 1 /\ ~Working(f)
        BY <3>1, <3>3 DEF Single
      <4> QED BY <2>2, <3>3, <4>1
    <3>4. CASE toOwner[f] = <<>> /\ toFront[f] = <<>>
      BY <2>2, <3>4
    <3> QED BY <3>2, <3>3, <3>4
  <2> QED BY <2>3, <2>4
<1> QED BY <1>1, ChannelInitially, ChannelPreserved, PTL DEF Spec

-----------------------------------------------------------------------------
(* The life of a call.                                                     *)

\* No call comes to another place, and nothing takes effect.
Still ==
    /\ \A f \in Frontends, c \in Nat :
        (Sending(f, c)' => Sending(f, c)) /\ (Queued(f, c)' => Queued(f, c))
    /\ \A c \in Nat : (Deciding(c)' => Deciding(c)) /\ (Doubted(c)' => Doubted(c))
    /\ UNCHANGED <<asked, journal, effects, frozen, doubt>>

\* Call c takes effect, and is over.
TakesEffect(c) ==
    /\ Alive(c) /\ ~Alive(c)'
    /\ asked[c] \in Requests \ journal
    /\ Perform(c) /\ UNCHANGED asked

\* What every step leaves of the calls made before: no call comes back to
\* life, and only one that is alive takes effect.
Proceeds ==
    /\ \A c \in 1 .. Len(asked) : c \in 1 .. Len(asked') /\ asked'[c] = asked[c]
    /\ \A c \in Nat : Alive(c)' => Alive(c) \/ (c \notin 1 .. Len(asked) /\ c \in 1 .. Len(asked'))
    /\ UNCHANGED <<journal, effects>> \/ \E c \in 1 .. Len(asked) : TakesEffect(c)

LEMMA FitsKept ==
    ASSUME Proceeds, NEW c, NEW v, Fits(c, v)
    PROVE  Fits(c, v)'
<1>1. /\ c \in 1 .. Len(asked) /\ c \in 1 .. Len(asked') /\ asked'[c] = asked[c]
      /\ Alive(c)' => Alive(c)
  <2>1. c \in Nat
    BY DEF Fits
  <2> QED BY <2>1 DEF Proceeds, Fits
<1>2. journal \subseteq journal'
  BY DEF Proceeds, TakesEffect, Perform
<1>3. ~Alive(c) /\ c \notin effects => c \notin effects'
  BY DEF Proceeds, TakesEffect, Perform
<1> QED BY <1>1, <1>2, <1>3 DEF Fits, RC!Settled

LEMMA NowhereQueued ==
    ASSUME NEW f \in Frontends, NEW c, toOwner[f] = <<>>
    PROVE  ~Queued(f, c)
BY DEF Queued

LEMMA StillProceeds ==
    ASSUME ChannelInv, OnePlace, Still
    PROVE  Proceeds /\ OnePlace'
<1>1. Len(asked) \in Nat /\ asked' = asked
  BY DEF ChannelInv, Shape, Still
<1>2. \A c \in Nat : (Alive(c)' => Alive(c))
  BY DEF Alive, Waits, Still
<1>3. Proceeds
  BY <1>1, <1>2 DEF Proceeds, Still
<1>4. OnePlace'
  <2>1. \A f \in Frontends, c \in Nat : (Waits(f, c)' => Waits(f, c))
    BY DEF Waits, Still
  <2>2. UNCHANGED <<asked, frozen, journal>>
    BY DEF Still
  <2>3. ASSUME NEW f \in Frontends, NEW c \in Nat, Waits(f, c)'
        PROVE  /\ ~Deciding(c)' /\ ~Doubted(c)'
               /\ ~(Sending(f, c)' /\ Queued(f, c)')
               /\ \A g \in Frontends : Waits(g, c)' => g = f
    BY <2>1, <2>3 DEF Still, OnePlace
  <2>4. \A c \in Nat : Deciding(c)' => ~Doubted(c)'
    BY DEF Still, OnePlace
  <2>5. \A c \in Nat : Doubted(c)' => frozen' /\ asked'[c] \in Requests \ journal'
    BY <2>2 DEF Still, OnePlace
  <2> QED BY <2>3, <2>4, <2>5 DEF OnePlace
<1> QED BY <1>3, <1>4

\* Steps after which every call is where it was, or nowhere.
LEMMA StillSteps ==
    ASSUME UNCHANGED <<asked, vault>>,
           \A f \in Frontends : at'[f] = "send" => at[f] = "send" /\ call'[f] = call[f],
           \A f \in Frontends : toOwner'[f] = toOwner[f] \/ \A c \in Nat : ~Queued(f, c)',
           serving' = serving \/ serving' = None
    PROVE  Still
BY DEF Still, Sending, Queued, Deciding, Doubted, vault

LEMMA StillWhenReading ==
    ASSUME ChannelInv, NEW f \in Frontends, Connect(f) \/ InputEnds(f) \/ Local(f) \/ Handshake(f)
    PROVE  Still
<1> USE DEF ChannelInv
<1>1. UNCHANGED <<asked, vault, serving>>
  BY ReadingSteps
<1>2. UNCHANGED toOwner
  BY ReadingSteps DEF Exit, channel
<1>3. \A g \in Frontends : at'[g] = "send" => at[g] = "send" /\ call'[g] = call[g]
  BY ReadingSteps DEF Exit, Shape
<1> QED BY <1>1, <1>2, <1>3, StillSteps

LEMMA StillWhenAnswering ==
    ASSUME ChannelInv, NEW f \in Frontends, Receive(f) \/ Output(f)
    PROVE  Still
<1> USE DEF ChannelInv
<1>1. UNCHANGED <<asked, vault, serving>>
  BY DEF Receive, Output, owner
<1>2. UNCHANGED toOwner
  BY DEF Receive, ReceiveFrame, ReceiveFails, Output, Exit, channel
<1>3. \A g \in Frontends : at'[g] = "send" => at[g] = "send" /\ call'[g] = call[g]
  BY DEF Receive, Respond, Output, Exit, Shape
<1> QED BY <1>1, <1>2, <1>3, StillSteps

LEMMA StillWhenDropped ==
    ASSUME ChannelInv, NEW f \in Frontends, Drops(f), UNCHANGED <<at, call, asked, vault>>,
           serving' = serving \/ serving' = None
    PROVE  Still
<1>1. \A g \in Frontends : toOwner'[g] = toOwner[g] \/ toOwner'[g] = <<>>
  BY DEF Drops, ChannelInv, Shape
<1>2. \A g \in Frontends : toOwner'[g] = <<>> => \A c \in Nat : ~Queued(g, c)'
  BY DEF Queued
<1> QED BY <1>1, <1>2, StillSteps

LEMMA StillWhenReplied ==
    ASSUME ChannelInv, OwnerReplies
    PROVE  Still
<1>1. serving # None /\ serving' = None /\ UNCHANGED <<at, call, asked, vault>>
  BY DEF OwnerReplies, front
<1>2. PICK f \in Frontends : f = serving.front
  BY <1>1, ServedFrame DEF ChannelInv
<1>3. CASE UNCHANGED toOwner
  BY <1>1, <1>3, StillSteps
<1>4. CASE Drops(f)
  BY <1>1, <1>4, StillWhenDropped
<1> QED BY <1>2, <1>3, <1>4 DEF OwnerReplies

\* A frame that cannot be sent is lost, or cut off.
LEMMA StillWhenLost ==
    ASSUME ChannelInv, NEW f \in Frontends, Send(f), ~SendFrame(f)
    PROVE  Still
<1> USE DEF ChannelInv
<1>1. UNCHANGED <<asked, vault, serving, call>>
  BY DEF Send, owner
<1>2. \A g \in Frontends : at'[g] = "send" => at[g] = "send" /\ call'[g] = call[g]
  BY <1>1 DEF Send, Respond, Shape
<1>3. ASSUME NEW g \in Frontends PROVE toOwner'[g] = toOwner[g] \/ \A c \in Nat : ~Queued(g, c)'
  <2>1. CASE UNCHANGED toOwner
    BY <2>1
  <2>2. CASE SendFails(f) /\ toOwner' = [toOwner EXCEPT ![f] = Append(@, Torn)]
    <3>1. CASE g # f
      BY <2>2, <3>1 DEF Shape
    <3>2. CASE g = f
      <4>1. toOwner[f] = <<>>
        BY <2>2 DEF SendFails, Send, Lane, Quiet
      <4>2. toOwner'[f] = Append(<<>>, Torn)
        BY <2>2, <4>1 DEF Shape
      <4>3. \A i \in 1 .. Len(toOwner'[f]) : toOwner'[f][i] = Torn
        BY <4>2, OnlyOne
      <4> QED BY <3>2, <4>3 DEF Queued, Torn
    <3> QED BY <3>1, <3>2
  <2> QED BY <2>1, <2>2 DEF Send, SendFails, channel
<1> QED BY <1>1, <1>2, <1>3, StillSteps

\* A new call has a number of its own.
LEMMA CallProceeds ==
    ASSUME ChannelInv, Recorded, OnePlace, NEW f \in Frontends, Call(f)
    PROVE  Proceeds /\ OnePlace'
<1> USE DEF ChannelInv
<1>0. PICK what \in Requests \cup Reads : asked' = Append(asked, what)
  BY DEF Call
<1> DEFINE n == Len(asked) + 1
<1>1. /\ Len(asked) \in Nat /\ Len(asked') = n /\ n \in Nat /\ n \notin 1 .. Len(asked)
      /\ n \in 1 .. Len(asked')
      /\ \A c \in 1 .. Len(asked) : c \in 1 .. Len(asked') /\ asked'[c] = asked[c]
  BY <1>0, OneMore DEF Shape
<1>2. /\ at[f] = "line" /\ call' = [call EXCEPT ![f] = n]
      /\ UNCHANGED <<toOwner, serving, journal, frozen, doubt, effects>>
  BY DEF Call, Line, channel, owner, vault
<1>3. at' = [at EXCEPT ![f] = "send"] \/ at' = [at EXCEPT ![f] = "output"]
  BY DEF Call, Respond
<1> HIDE DEF n
<1>4. \A g \in Frontends, c \in Nat : Queued(g, c)' <=> Queued(g, c)
  BY <1>2 DEF Queued
<1>5. \A c \in Nat : (Deciding(c)' <=> Deciding(c)) /\ (Doubted(c)' <=> Doubted(c))
  BY <1>2 DEF Deciding, Doubted
<1>6. ASSUME NEW g \in Frontends, NEW c \in Nat, Sending(g, c)'
      PROVE  Sending(g, c) \/ (g = f /\ c = n)
  <2>1. CASE g = f
    <3>1. call'[f] = n
      BY <1>2 DEF Shape
    <3> QED BY <1>6, <2>1, <3>1 DEF Sending
  <2>2. CASE g # f
    BY <1>2, <1>3, <1>6, <2>2 DEF Sending, Shape
  <2> QED BY <2>1, <2>2
<1>7. \A c \in Nat : Alive(c) => c \in 1 .. Len(asked)
  BY DEF Recorded
<1>8. \A g \in Frontends : ~Waits(g, n)
  BY <1>1, <1>7 DEF Alive
<1>9. ~Deciding(n) /\ ~Doubted(n)
  BY <1>1, <1>7 DEF Alive
<1>10. Proceeds
  <2>1. \A c \in Nat : Alive(c)' => Alive(c) \/ c = n
    BY <1>4, <1>5, <1>6 DEF Alive, Waits
  <2> QED BY <1>1, <1>2, <2>1 DEF Proceeds
<1>11. OnePlace'
  <2>1. ASSUME NEW g \in Frontends, NEW c \in Nat, Waits(g, c)'
        PROVE  Waits(g, c) \/ (g = f /\ c = n)
    BY <1>4, <1>6, <2>1 DEF Waits
  <2>2. ASSUME NEW g \in Frontends, NEW c \in Nat, Waits(g, c)'
        PROVE  /\ ~Deciding(c)' /\ ~Doubted(c)'
               /\ ~(Sending(g, c)' /\ Queued(g, c)')
               /\ \A h \in Frontends : Waits(h, c)' => h = g
    <3>1. CASE c = n
      <4>1. ~Queued(g, c)
        BY <1>8, <3>1 DEF Waits
      <4>2. g = f /\ \A h \in Frontends : Waits(h, c)' => h = f
        BY <1>8, <2>1, <2>2, <3>1
      <4> QED BY <1>4, <1>5, <1>9, <3>1, <4>1, <4>2
    <3>2. CASE c # n
      BY <1>4, <1>5, <1>6, <2>1, <2>2, <3>2 DEF OnePlace
    <3> QED BY <3>1, <3>2
  <2>3. \A c \in Nat : Deciding(c)' => ~Doubted(c)'
    BY <1>5 DEF OnePlace
  <2>4. ASSUME NEW c \in Nat, Doubted(c)' PROVE frozen' /\ asked'[c] \in Requests \ journal'
    <3>1. Doubted(c) /\ c \in 1 .. Len(asked)
      BY <1>5, <1>7, <2>4 DEF Alive
    <3> QED BY <1>1, <1>2, <3>1 DEF OnePlace
  <2> QED BY <2>2, <2>3, <2>4 DEF OnePlace
<1> QED BY <1>10, <1>11

\* A call is sent: from the frontend into the socket.
LEMMA SendProceeds ==
    ASSUME ChannelInv, OnePlace, NEW f \in Frontends, Send(f), SendFrame(f)
    PROVE  Proceeds /\ OnePlace'
<1> USE DEF ChannelInv
<1>1. /\ at[f] = "send" /\ call[f] \in Nat /\ toOwner[f] = <<>>
      /\ UNCHANGED <<call, serving, journal, frozen, doubt, effects, asked>>
  <2>1. at[f] = "send" /\ f \notin poisoned /\ at[f] \in Busy
    BY DEF Send, SendFrame, Busy
  <2>2. call[f] \in Nat
    BY <2>1 DEF Shape
  <2>3. toOwner[f] = <<>>
    BY <2>1 DEF Lane, Quiet
  <2> QED BY <2>1, <2>2, <2>3 DEF Send, owner, vault
<1>2. toOwner' = [toOwner EXCEPT ![f] = Append(<<>>, call[f])]
  BY <1>1 DEF SendFrame
<1>3. at' = [at EXCEPT ![f] = "receive"] \/ at' = [at EXCEPT ![f] = "output"]
  BY DEF Send, Respond
<1>4. \A c \in Nat : (Deciding(c)' <=> Deciding(c)) /\ (Doubted(c)' <=> Doubted(c))
  BY <1>1 DEF Deciding, Doubted
<1>5. \A g \in Frontends, c \in Nat : Sending(g, c)' => Sending(g, c) /\ g # f
  BY <1>1, <1>3 DEF Sending, Shape
<1>6. ASSUME NEW g \in Frontends, NEW c \in Nat, Queued(g, c)'
      PROVE  IF g = f THEN Sending(f, c) ELSE Queued(g, c)
  <2>1. CASE g = f
    <3>1. toOwner'[f] = Append(<<>>, call[f])
      BY <1>2 DEF Shape
    <3>2. \A i \in 1 .. Len(toOwner'[f]) : toOwner'[f][i] = call[f]
      BY <1>1, <3>1, OnlyOne
    <3> QED BY <1>1, <1>6, <2>1, <3>2 DEF Queued, Sending
  <2>2. CASE g # f
    <3>1. toOwner'[g] = toOwner[g]
      BY <1>2, <2>2 DEF Shape
    <3> QED BY <1>6, <2>2, <3>1 DEF Queued
  <2> QED BY <2>1, <2>2
<1>7. \A g \in Frontends, c \in Nat : Waits(g, c)' => Waits(g, c)
  BY <1>5, <1>6 DEF Waits
<1>8. Proceeds
  <2>1. Len(asked) \in Nat
    BY DEF Shape
  <2>2. \A c \in Nat : Alive(c)' => Alive(c)
    BY <1>4, <1>7 DEF Alive
  <2> QED BY <1>1, <2>1, <2>2 DEF Proceeds
<1>9. OnePlace'
  <2>1. ASSUME NEW g \in Frontends, NEW c \in Nat, Waits(g, c)'
        PROVE  /\ ~Deciding(c)' /\ ~Doubted(c)'
               /\ \A h \in Frontends : Waits(h, c)' => h = g
    BY <1>4, <1>7, <2>1 DEF OnePlace
  <2>2. ASSUME NEW g \in Frontends, NEW c \in Nat, Sending(g, c)', Queued(g, c)' PROVE FALSE
    <3>1. Sending(g, c) /\ g # f /\ Queued(g, c)
      BY <1>5, <1>6, <2>2
    <3> QED BY <3>1 DEF OnePlace, Waits
  <2>3. \A c \in Nat : Deciding(c)' => ~Doubted(c)'
    BY <1>4 DEF OnePlace
  <2>4. \A c \in Nat : Doubted(c)' => frozen' /\ asked'[c] \in Requests \ journal'
    BY <1>1, <1>4 DEF OnePlace
  <2> QED BY <2>1, <2>2, <2>3, <2>4 DEF OnePlace
<1> QED BY <1>8, <1>9

\* The owner takes a call: out of the socket.
LEMMA TakesProceeds ==
    ASSUME ChannelInv, OnePlace, NEW f \in Frontends, OwnerTakes(f)
    PROVE  Proceeds /\ OnePlace'
<1> USE DEF ChannelInv
<1>1. /\ toOwner[f] # <<>> /\ toOwner[f] \in Seq(Nat \cup {None}) /\ Len(toOwner[f]) <= 1
      /\ Head(toOwner[f]) # Torn /\ Head(toOwner[f]) # None
      /\ UNCHANGED <<at, call, journal, frozen, doubt, effects, asked>>
  BY DEF OwnerTakes, Torn, front, vault, Shape, Lane
<1>2. PICK n : n = Head(toOwner[f])
  OBVIOUS
<1>3. n \in Nat /\ n = toOwner[f][1] /\ Tail(toOwner[f]) = <<>> /\ 1 \in 1 .. Len(toOwner[f])
  <2>1. /\ n \in Nat \cup {None} /\ n = toOwner[f][1]
        /\ Tail(toOwner[f]) = <<>> /\ Len(toOwner[f]) \in Nat /\ Len(toOwner[f]) >= 1
    BY <1>1, <1>2, FirstOf
  <2> QED BY <1>1, <1>2, <2>1
<1>4. /\ serving' = [front |-> f, call |-> n, verdict |-> None]
      /\ toOwner' = [toOwner EXCEPT ![f] = <<>>]
  BY <1>2, <1>3 DEF OwnerTakes
<1>5. Queued(f, n)
  BY <1>1, <1>2, <1>3 DEF Queued
<1>6. \A c \in Nat : (Deciding(c)' => c = n) /\ (Doubted(c)' <=> Doubted(c))
  BY <1>1, <1>4 DEF Deciding, Doubted
<1>7. \A g \in Frontends, c \in Nat : Sending(g, c)' <=> Sending(g, c)
  BY <1>1 DEF Sending
<1>8. \A g \in Frontends, c \in Nat : Queued(g, c)' => Queued(g, c) /\ g # f
  BY <1>4 DEF Queued, Shape
<1>9. Proceeds
  <2>1. Len(asked) \in Nat
    BY DEF Shape
  <2>2. \A c \in Nat : Alive(c)' => Alive(c)
    BY <1>3, <1>5, <1>6, <1>7, <1>8 DEF Alive, Waits
  <2> QED BY <1>1, <2>1, <2>2 DEF Proceeds
<1>10. OnePlace'
  <2>1. Waits(f, n) /\ ~Sending(f, n) /\ ~Doubted(n) /\ \A g \in Frontends : Waits(g, n) => g = f
    BY <1>3, <1>5 DEF OnePlace, Waits
  <2>2. \A g \in Frontends, c \in Nat : Waits(g, c)' => Waits(g, c) /\ c # n
    BY <1>7, <1>8, <2>1 DEF Waits
  <2>3. ASSUME NEW g \in Frontends, NEW c \in Nat, Waits(g, c)'
        PROVE  /\ ~Deciding(c)' /\ ~Doubted(c)' /\ ~(Sending(g, c)' /\ Queued(g, c)')
               /\ \A h \in Frontends : Waits(h, c)' => h = g
    BY <1>6, <1>7, <1>8, <2>2, <2>3 DEF OnePlace
  <2>4. \A c \in Nat : Deciding(c)' => ~Doubted(c)'
    BY <1>6, <2>1
  <2>5. \A c \in Nat : Doubted(c)' => frozen' /\ asked'[c] \in Requests \ journal'
    BY <1>1, <1>6 DEF OnePlace
  <2> QED BY <2>3, <2>4, <2>5 DEF OnePlace
<1> QED BY <1>9, <1>10

\* A call that was being decided comes into doubt.
LEMMA DoubtProceeds ==
    ASSUME ChannelInv, OnePlace, NEW n \in Nat, Deciding(n), ~frozen,
           asked[n] \in Requests \ journal, doubt' = n, frozen', UNCHANGED <<asked, journal, effects>>,
           \A f \in Frontends, c \in Nat :
                (Sending(f, c)' => Sending(f, c)) /\ (Queued(f, c)' => Queued(f, c)),
           \A c \in Nat : ~Deciding(c)'
    PROVE  Proceeds /\ OnePlace'
<1>1. \A c \in Nat : Doubted(c)' => c = n
  BY DEF Doubted
<1>2. \A f \in Frontends, c \in Nat : Waits(f, c)' => Waits(f, c)
  BY DEF Waits
<1>3. Proceeds
  <2>1. Len(asked) \in Nat
    BY DEF ChannelInv, Shape
  <2>2. \A c \in Nat : Alive(c)' => Alive(c)
    BY <1>1, <1>2 DEF Alive
  <2> QED BY <2>1, <2>2 DEF Proceeds
<1>4. OnePlace'
  <2>1. \A f \in Frontends : ~Waits(f, n)
    BY DEF OnePlace
  <2>2. ASSUME NEW f \in Frontends, NEW c \in Nat, Waits(f, c)'
        PROVE  /\ ~Deciding(c)' /\ ~Doubted(c)' /\ ~(Sending(f, c)' /\ Queued(f, c)')
               /\ \A g \in Frontends : Waits(g, c)' => g = f
    BY <1>1, <1>2, <2>1, <2>2 DEF OnePlace
  <2>3. \A c \in Nat : Doubted(c)' => frozen' /\ asked'[c] \in Requests \ journal'
    BY <1>1
  <2> QED BY <2>2, <2>3 DEF OnePlace
<1> QED BY <1>3, <1>4

\* A call that was being decided, or in doubt, takes effect.
LEMMA EffectProceeds ==
    ASSUME ChannelInv, OnePlace, NEW n \in 1 .. Len(asked), Deciding(n) \/ Doubted(n),
           asked[n] \in Requests \ journal, Perform(n), UNCHANGED asked,
           \A f \in Frontends, c \in Nat :
                (Sending(f, c)' => Sending(f, c)) /\ (Queued(f, c)' => Queued(f, c)),
           \A c \in Nat : (Deciding(c)' => Deciding(c) /\ c # n) /\ ~Doubted(c)'
    PROVE  Proceeds /\ OnePlace'
<1>1. n \in Nat /\ Len(asked) \in Nat
  BY DEF ChannelInv, Shape
<1>2. \A f \in Frontends, c \in Nat : Waits(f, c)' => Waits(f, c)
  BY DEF Waits
<1>3. \A f \in Frontends : ~Waits(f, n)
  BY <1>1 DEF OnePlace
<1>4. Proceeds
  <2>1. \A c \in Nat : Alive(c)' => Alive(c)
    BY <1>2 DEF Alive
  <2>2. Alive(n) /\ ~Alive(n)'
    BY <1>1, <1>2, <1>3 DEF Alive
  <2> QED BY <1>1, <2>1, <2>2 DEF Proceeds, TakesEffect
<1>5. OnePlace'
  <2>1. ASSUME NEW f \in Frontends, NEW c \in Nat, Waits(f, c)'
        PROVE  /\ ~Deciding(c)' /\ ~Doubted(c)' /\ ~(Sending(f, c)' /\ Queued(f, c)')
               /\ \A g \in Frontends : Waits(g, c)' => g = f
    BY <1>2, <2>1 DEF OnePlace
  <2> QED BY <2>1 DEF OnePlace
<1> QED BY <1>4, <1>5

LEMMA DecidesProceeds ==
    ASSUME ChannelInv, Recorded, OnePlace, OwnerDecides
    PROVE  Proceeds /\ OnePlace'
<1>1. PICK n \in Nat : n = serving.call
  BY DecidesFrame, ServedFrame DEF ChannelInv
<1>2. /\ Deciding(n) /\ \A c \in Nat : ~Deciding(c)'
      /\ UNCHANGED <<at, call, toOwner, asked>>
  <2>1. serving'.verdict # None
    BY DecidesFrame, FrontendAssumption DEF ChannelInv
  <2> QED BY <1>1, <2>1, DecidesFrame DEF Deciding, ChannelInv
<1>3. \A f \in Frontends, c \in Nat :
        (Sending(f, c)' => Sending(f, c)) /\ (Queued(f, c)' => Queued(f, c))
  BY <1>2 DEF Sending, Queued
<1>4. n \in 1 .. Len(asked)
  BY <1>2 DEF Recorded, Alive
<1>5. CASE UNCHANGED <<journal, effects, frozen, doubt>>
  <2>1. Still
    BY <1>2, <1>3, <1>5 DEF Still, Doubted
  <2> QED BY <2>1, StillProceeds
<1>6. CASE ~frozen /\ New(asked[n]) /\ Perform(n) /\ UNCHANGED doubt
  <2>1. \A c \in Nat : ~Doubted(c)'
    BY <1>6 DEF OnePlace, Doubted
  <2> QED BY <1>2, <1>3, <1>4, <1>6, <2>1, EffectProceeds DEF New
<1>7. CASE ~frozen /\ New(asked[n]) /\ frozen' = TRUE /\ doubt' = n /\ UNCHANGED <<journal, effects>>
  BY <1>2, <1>3, <1>7, DoubtProceeds DEF New
<1> QED BY <1>1, <1>5, <1>6, <1>7 DEF OwnerDecides, AnswersOnly, CarriesOut, Undelivered, Reject, vault

LEMMA StopsProceeds ==
    ASSUME ChannelInv, Recorded, OnePlace, OwnerStops
    PROVE  Proceeds /\ OnePlace'
<1>1. /\ serving' = None /\ toOwner' = [f \in Frontends |-> <<>>]
      /\ UNCHANGED <<at, call, asked, journal, effects>>
  BY DEF OwnerStops, front
<1>2. \A f \in Frontends, c \in Nat : (Sending(f, c)' => Sending(f, c)) /\ ~Queued(f, c)'
  BY <1>1 DEF Sending, Queued
<1>3. \A c \in Nat : ~Deciding(c)'
  BY <1>1 DEF Deciding
<1>4. CASE UNCHANGED <<frozen, doubt>>
  <2>1. Still
    BY <1>1, <1>2, <1>3, <1>4 DEF Still, Doubted
  <2> QED BY <2>1, StillProceeds
<1>5. CASE /\ serving # None /\ serving.verdict = None /\ ~frozen /\ New(asked[serving.call])
           /\ frozen' = TRUE /\ doubt' = serving.call
  <2>1. PICK n \in Nat : n = serving.call
    BY <1>5, ServedFrame DEF ChannelInv
  <2>2. Deciding(n)
    BY <1>5, <2>1 DEF Deciding
  <2> QED BY <1>1, <1>2, <1>3, <1>5, <2>1, <2>2, DoubtProceeds DEF New
<1> QED BY <1>4, <1>5 DEF OwnerStops

LEMMA StartsProceeds ==
    ASSUME ChannelInv, Recorded, OnePlace, OwnerStarts
    PROVE  Proceeds /\ OnePlace'
<1>1. doubt' = None /\ UNCHANGED <<at, call, toOwner, serving, asked>>
  BY DEF OwnerStarts, front, channel
<1>2. /\ \A f \in Frontends, c \in Nat :
            (Sending(f, c)' => Sending(f, c)) /\ (Queued(f, c)' => Queued(f, c))
      /\ \A c \in Nat : (Deciding(c)' => Deciding(c)) /\ ~Doubted(c)'
  BY <1>1 DEF Sending, Queued, Deciding, Doubted
<1>3. CASE doubt # None /\ Perform(doubt)
  <2>1. PICK n \in Nat : n = doubt
    BY <1>3 DEF ChannelInv, Shape
  <2>2. Doubted(n) /\ ~Deciding(n)
    BY <1>3, <2>1 DEF Doubted, OnePlace
  <2>3. n \in 1 .. Len(asked) /\ asked[n] \in Requests \ journal
    BY <2>2 DEF Recorded, Alive, OnePlace
  <2> QED BY <1>1, <1>2, <1>3, <2>1, <2>2, <2>3, EffectProceeds
<1>4. CASE UNCHANGED <<journal, effects>>
  <2>1. Proceeds
    <3>1. Len(asked) \in Nat
      BY DEF ChannelInv, Shape
    <3>2. \A c \in Nat : Alive(c)' => Alive(c)
      BY <1>2 DEF Alive, Waits
    <3> QED BY <1>1, <1>4, <3>1, <3>2 DEF Proceeds
  <2>2. \A f \in Frontends, c \in Nat : Waits(f, c)' => Waits(f, c)
    BY <1>2 DEF Waits
  <2>3. ASSUME NEW f \in Frontends, NEW c \in Nat, Waits(f, c)'
        PROVE  /\ ~Deciding(c)' /\ ~Doubted(c)' /\ ~(Sending(f, c)' /\ Queued(f, c)')
               /\ \A g \in Frontends : Waits(g, c)' => g = f
    BY <1>2, <2>2, <2>3 DEF OnePlace
  <2>4. OnePlace'
    BY <1>2, <2>3 DEF OnePlace
  <2> QED BY <2>1, <2>4
<1> QED BY <1>3, <1>4 DEF OwnerStarts, Reject

\* Every step keeps a call in one place and lets only a living call take
\* effect.
LEMMA StepProceeds ==
    ASSUME ChannelInv, Recorded, OnePlace, [Next]_vars
    PROVE  Proceeds /\ OnePlace'
<1>1. ASSUME NEW f \in Frontends, Connect(f) \/ InputEnds(f) \/ Local(f) \/ Handshake(f)
      PROVE  Proceeds /\ OnePlace'
  BY <1>1, StillWhenReading, StillProceeds
<1>2. ASSUME NEW f \in Frontends, Send(f) PROVE Proceeds /\ OnePlace'
  BY <1>2, SendProceeds, StillWhenLost, StillProceeds
<1>3. ASSUME NEW f \in Frontends, Receive(f) \/ Output(f) PROVE Proceeds /\ OnePlace'
  BY <1>3, StillWhenAnswering, StillProceeds
<1>4. ASSUME NEW f \in Frontends, OwnerDrops(f) PROVE Proceeds /\ OnePlace'
  BY <1>4, StillWhenDropped, StillProceeds DEF OwnerDrops, front
<1>5. CASE OwnerReplies
  BY <1>5, StillWhenReplied, StillProceeds
<1>6. ASSUME UNCHANGED <<at, call, toOwner, serving, asked, vault>> PROVE Proceeds /\ OnePlace'
  BY <1>6, StillSteps, StillProceeds
<1>7. ASSUME NEW f \in Frontends, Expire(f) PROVE Proceeds /\ OnePlace'
  BY <1>6, <1>7 DEF Expire, front, channel, owner
<1>8. CASE UNCHANGED vars
  BY <1>6, <1>8 DEF vars, vault
<1> QED BY <1>1, <1>2, <1>3, <1>4, <1>5, <1>7, <1>8, CallProceeds, TakesProceeds,
           DecidesProceeds, StopsProceeds, StartsProceeds DEF Next, FrontStep

LEMMA RecordedKept ==
    ASSUME ChannelInv, Recorded, Proceeds
    PROVE  Recorded'
<1>1. Len(asked) \in Nat /\ \A c \in effects : asked'[c] = asked[c] /\ c \in 1 .. Len(asked')
  BY DEF ChannelInv, Shape, Recorded, Proceeds
<1>2. CASE UNCHANGED <<journal, effects>>
  BY <1>1, <1>2 DEF Recorded, Proceeds
<1>3. CASE \E c \in 1 .. Len(asked) : TakesEffect(c)
  <2>1. PICK d \in 1 .. Len(asked) : TakesEffect(d)
    BY <1>3
  <2>2. /\ effects' = effects \cup {d} /\ journal' = journal \cup {asked[d]} /\ asked' = asked
        /\ asked[d] \in Requests /\ ~Alive(d)'
    BY <2>1 DEF TakesEffect, Perform
  <2>3. \A c \in Nat : Alive(c)' => c \in 1 .. Len(asked') /\ c \notin effects'
    BY <1>1, <2>2 DEF Recorded, Proceeds
  <2>4. journal' = {asked'[c] : c \in effects'}
    BY <2>2 DEF Recorded
  <2> QED BY <2>2, <2>3, <2>4 DEF Recorded
<1> QED BY <1>2, <1>3 DEF Proceeds

-----------------------------------------------------------------------------
(* A call and its frontend.                                                *)

\* Steps that begin and answer no call.
LEMMA OwnedKept ==
    ASSUME Owned, UNCHANGED answers,
           \A f \in Frontends : at'[f] \in Busy => at[f] \in Busy /\ call'[f] = call[f]
    PROVE  Owned'
BY DEF Owned

LEMMA OwnedAfterCall ==
    ASSUME ChannelInv, Owned, NEW f \in Frontends, Call(f)
    PROVE  Owned'
<1> USE DEF ChannelInv
<1>1. PICK n : n = Len(asked) + 1
  OBVIOUS
<1>2. /\ Len(asked) \in Nat /\ n \notin 1 .. Len(asked) /\ answers'[n] = None
      /\ \A c \in 1 .. Len(asked) : answers'[c] = answers[c]
  <2>1. answers \in Seq(Answers \cup {None}) /\ Len(answers) = Len(asked)
    BY DEF Shape
  <2> QED BY <1>1, <2>1, OneMore DEF Call
<1>3. call'[f] = n /\ \A g \in Frontends \ {f} : at'[g] = at[g] /\ call'[g] = call[g]
  BY <1>1 DEF Call, Respond, Shape
<1>4. \A g \in Frontends \ {f} : at[g] \in Busy => call[g] \in 1 .. Len(asked)
  BY DEF Shape
<1> QED BY <1>2, <1>3, <1>4 DEF Owned

LEMMA OwnedAfterOutput ==
    ASSUME ChannelInv, Owned, NEW f \in Frontends, Output(f)
    PROVE  Owned'
<1> USE DEF ChannelInv
<1>1. at[f] = "output" /\ at[f] \in Busy
  BY DEF Output, Busy
<1>2. CASE ~Exit(f)
  <2>1. PICK v \in Answers : answers' = [answers EXCEPT ![call[f]] = v]
    BY <1>2, OutputRecords
  <2>2. /\ at'[f] \notin Busy /\ call[f] \in 1 .. Len(asked)
        /\ \A g \in Frontends \ {f} : at'[g] = at[g] /\ call'[g] = call[g]
    BY <1>2, OutputRecords DEF Shape, Busy
  <2>3. \A c \in 1 .. Len(asked) : c # call[f] => answers'[c] = answers[c]
    BY <2>1, <2>2, ReplaceOne DEF Shape
  <2>4. \A g \in Frontends \ {f} : at[g] \in Busy => call[g] \in 1 .. Len(asked) /\ call[g] # call[f]
    BY <1>1 DEF Shape, Owned
  <2> QED BY <2>2, <2>3, <2>4 DEF Owned
<1>3. CASE Exit(f)
  <2>1. UNCHANGED answers
    BY <1>3 DEF Output, Exit, Shape
  <2>2. \A g \in Frontends : at'[g] \in Busy => at[g] \in Busy /\ call'[g] = call[g]
    BY <1>3 DEF Exit, Shape, Busy
  <2> QED BY <2>1, <2>2, OwnedKept
<1> QED BY <1>2, <1>3

LEMMA OwnedPreserved ==
    ASSUME ChannelInv, Owned, [Next]_vars
    PROVE  Owned'
<1> USE DEF ChannelInv
<1>1. ASSUME NEW f \in Frontends, Connect(f) \/ InputEnds(f) \/ Local(f) \/ Handshake(f)
      PROVE  Owned'
  <2>1. UNCHANGED answers
    BY <1>1, ReadingSteps
  <2>2. \A g \in Frontends : at'[g] \in Busy => at[g] \in Busy /\ call'[g] = call[g]
    BY <1>1, ReadingSteps DEF Exit, Shape, Busy
  <2> QED BY <2>1, <2>2, OwnedKept
<1>2. ASSUME NEW f \in Frontends, Send(f) \/ Receive(f) PROVE Owned'
  <2>1. UNCHANGED <<answers, call>>
    BY <1>2 DEF Send, Receive
  <2>2. \A g \in Frontends : at'[g] \in Busy => at[g] \in Busy
    BY <1>2 DEF Send, Receive, Respond, Shape, Busy
  <2> QED BY <2>1, <2>2, OwnedKept
<1>3. ASSUME UNCHANGED <<at, call, answers>> PROVE Owned'
  BY <1>3, OwnedKept
<1>4. ASSUME NEW f \in Frontends, OwnerDrops(f) \/ OwnerTakes(f) \/ Expire(f)
      PROVE  Owned'
  BY <1>3, <1>4 DEF OwnerDrops, OwnerTakes, Expire, front
<1>5. CASE OwnerDecides \/ OwnerReplies \/ OwnerStops \/ OwnerStarts
  BY <1>3, <1>5 DEF OwnerDecides, OwnerReplies, OwnerStops, OwnerStarts, front
<1>6. CASE UNCHANGED vars
  BY <1>3, <1>6 DEF vars
<1> QED BY <1>1, <1>2, <1>4, <1>5, <1>6, OwnedAfterCall, OwnedAfterOutput DEF Next, FrontStep

-----------------------------------------------------------------------------
(* What is answered.                                                       *)

LEMMA RightKept ==
    ASSUME Proceeds, Right, \A c \in Nat, v \in Answers : Says(c, v)' => Says(c, v) \/ Fits(c, v)'
    PROVE  Right'
BY FitsKept DEF Right

\* Steps that answer nothing.
LEMMA RightUntouched ==
    ASSUME Proceeds, Right, UNCHANGED <<asked, answers>>,
           \A f \in Frontends : toFront'[f] = toFront[f] \/ toFront'[f] = <<>>,
           \A f \in Frontends : at'[f] = "output" => at[f] = "output" /\ out'[f] = out[f],
           serving' = serving \/ serving' = None \/ serving'.verdict = None
    PROVE  Right'
<1>1. \A c \in Nat, v \in Answers : Given(c, v)' => Given(c, v)
  BY DEF Given
<1>2. \A f \in Frontends, c \in Nat, v \in Answers : Replied(f, c, v)' => Replied(f, c, v)
  BY DEF Replied, Told
<1>3. \A f \in Frontends, c \in Nat, v \in Answers : Printing(f, c, v)' => Printing(f, c, v)
  BY DEF Printing, Told
<1>4. \A c \in Nat, v \in Answers : Decided(c, v)' => Decided(c, v)
  BY FrontendAssumption DEF Decided, Answers, Verdicts
<1>5. \A c \in Nat, v \in Answers : Says(c, v)' => Says(c, v)
  BY <1>1, <1>2, <1>3, <1>4 DEF Says
<1> QED BY <1>5, RightKept

\* A message is its call and its verdict.
LEMMA MessageIsTold ==
    ASSUME NEW m \in Message
    PROVE  m = Told(m.call, m.verdict) /\ m.call \in Nat /\ m.verdict \in Answers
BY DEF Message, Told, Answers

\* A frontend comes to have an answer to print.
LEMMA RightToPrint ==
    ASSUME ChannelInv, Proceeds, Right, NEW f \in Frontends, NEW m,
           at' = [at EXCEPT ![f] = "output"], out' = [out EXCEPT ![f] = m],
           \A c \in Nat, v \in Answers : Given(c, v)' => Given(c, v),
           \A g \in Frontends : toFront'[g] = toFront[g] \/ toFront'[g] = <<>>, UNCHANGED serving,
           \A c \in Nat, v \in Answers : m = Told(c, v) => Says(c, v) \/ Fits(c, v)'
    PROVE  Right'
<1>1. \A g \in Frontends, c \in Nat, v \in Answers : Replied(g, c, v)' => Replied(g, c, v)
  BY DEF Replied, Told
<1>2. ASSUME NEW g \in Frontends, NEW c \in Nat, NEW v \in Answers, Printing(g, c, v)'
      PROVE  Says(c, v) \/ Fits(c, v)'
  <2>1. CASE g = f
    BY <1>2, <2>1 DEF Printing, ChannelInv, Shape, Told
  <2>2. CASE g # f
    <3>1. at'[g] = at[g] /\ out'[g] = out[g]
      BY <2>2 DEF ChannelInv, Shape
    <3> QED BY <1>2, <3>1 DEF Printing, Says, Told
  <2> QED BY <2>1, <2>2
<1>3. \A c \in Nat, v \in Answers : Decided(c, v)' => Decided(c, v)
  BY DEF Decided
<1>4. \A c \in Nat, v \in Answers : Says(c, v)' => Says(c, v) \/ Fits(c, v)'
  BY <1>1, <1>2, <1>3 DEF Says
<1> QED BY <1>4, RightKept

\* Call n is told: unknown.  That leaves it open.
LEMMA LostIsRight ==
    ASSUME ChannelInv, Proceeds, NEW f \in Frontends, at[f] \in Busy,
           NEW c \in Nat, NEW v \in Answers, Lost(f) = Told(c, v)
    PROVE  Fits(c, v)'
<1>1. c = call[f] /\ v = "unknown"
  BY DEF Lost, Told
<1>2. c \in 1 .. Len(asked')
  BY <1>1 DEF ChannelInv, Shape, Proceeds
<1> QED BY <1>1, <1>2 DEF Fits, RC!Settled

LEMMA RightAfterSend ==
    ASSUME ChannelInv, Proceeds, Right, NEW f \in Frontends, Send(f)
    PROVE  Right'
<1>1. /\ at[f] = "send" /\ at[f] \in Busy
      /\ UNCHANGED <<asked, answers, serving, toFront>>
  BY DEF Send, SendFrame, SendFails, Busy, channel, owner
<1>2. CASE at' = [at EXCEPT ![f] = "receive"] /\ UNCHANGED out
  BY <1>1, <1>2, RightUntouched DEF ChannelInv, Shape
<1>3. CASE Respond(f, Lost(f))
  <2>1. \A c \in Nat, v \in Answers : Lost(f) = Told(c, v) => Fits(c, v)'
    BY <1>1, LostIsRight
  <2>2. \A c \in Nat, v \in Answers : Given(c, v)' => Given(c, v)
    BY <1>1 DEF Given
  <2> QED BY <1>1, <1>3, <2>1, <2>2, RightToPrint DEF Respond
<1> QED BY <1>2, <1>3 DEF Send

LEMMA RightAfterReceive ==
    ASSUME ChannelInv, Proceeds, Right, NEW f \in Frontends, Receive(f)
    PROVE  Right'
<1>1. /\ at[f] = "receive" /\ at[f] \in Busy
      /\ UNCHANGED <<asked, answers, serving>>
  BY DEF Receive, Busy, owner
<1>2. \A c \in Nat, v \in Answers : Given(c, v)' => Given(c, v)
  BY <1>1 DEF Given
<1>3. CASE ReceiveFrame(f) /\ Respond(f, Head(toFront[f]))
  <2>1. /\ toFront[f] # <<>> /\ toFront[f] \in Seq(Message) /\ Len(toFront[f]) <= 1
    BY <1>1, <1>3 DEF ReceiveFrame, ChannelInv, Shape, Lane, Single
  <2>2. /\ Head(toFront[f]) = toFront[f][1] /\ 1 \in 1 .. Len(toFront[f])
        /\ Tail(toFront[f]) = <<>>
    <3>1. /\ Head(toFront[f]) = toFront[f][1] /\ Len(toFront[f]) \in Nat /\ Len(toFront[f]) >= 1
          /\ Tail(toFront[f]) = <<>>
      BY <2>1, FirstOf
    <3> QED BY <3>1
  <2>3. \A c \in Nat, v \in Answers : Head(toFront[f]) = Told(c, v) => Says(c, v)
    BY <2>2 DEF Says, Replied
  <2>4. \A g \in Frontends : toFront'[g] = toFront[g] \/ toFront'[g] = <<>>
    BY <1>3, <2>2 DEF ReceiveFrame, ChannelInv, Shape
  <2> QED BY <1>1, <1>2, <1>3, <2>3, <2>4, RightToPrint DEF Respond
<1>4. CASE ReceiveFails(f) /\ Respond(f, Lost(f))
  <2>1. \A c \in Nat, v \in Answers : Lost(f) = Told(c, v) => Fits(c, v)'
    BY <1>1, LostIsRight
  <2> QED BY <1>1, <1>2, <1>4, <2>1, RightToPrint DEF Respond, ReceiveFails
<1> QED BY <1>3, <1>4 DEF Receive

\* A call that does not fit a frame was never sent.
LEMMA RightAfterCall ==
    ASSUME ChannelInv, Recorded, Proceeds, Right, NEW f \in Frontends, Call(f)
    PROVE  Right'
<1> USE DEF ChannelInv
<1>0. PICK what \in Requests \cup Reads : asked' = Append(asked, what)
  BY DEF Call
<1>1. PICK n : n = Len(asked) + 1
  OBVIOUS
<1>2. /\ Len(asked) \in Nat /\ Len(asked') = n /\ n \in Nat /\ n \in 1 .. Len(asked')
      /\ n \notin 1 .. Len(asked) /\ \A c \in 1 .. Len(asked') : c \in 1 .. Len(asked) \/ c = n
  BY <1>0, <1>1, OneMore DEF Shape
<1>3. answers'[n] = None /\ \A c \in 1 .. Len(asked) : answers'[c] = answers[c]
  <2>1. answers \in Seq(Answers \cup {None}) /\ Len(answers) = Len(asked)
    BY DEF Shape
  <2> QED BY <1>1, <2>1, OneMore DEF Call
<1>4. /\ call' = [call EXCEPT ![f] = n]
      /\ UNCHANGED <<toOwner, toFront, serving, doubt, effects>>
  BY <1>1 DEF Call, channel, owner, vault
<1>5. \A c \in Nat, v \in Answers : Given(c, v)' => Given(c, v)
  BY <1>2, <1>3, FrontendAssumption DEF Given, Answers, Verdicts
<1>6. CASE at' = [at EXCEPT ![f] = "send"] /\ UNCHANGED out
  <2>1. \A g \in Frontends, c \in Nat, v \in Answers :
            (Replied(g, c, v)' => Replied(g, c, v)) /\ (Printing(g, c, v)' => Printing(g, c, v))
    BY <1>4, <1>6 DEF Replied, Printing, Told, Shape
  <2>2. \A c \in Nat, v \in Answers : Decided(c, v)' => Decided(c, v)
    BY <1>4 DEF Decided
  <2>3. \A c \in Nat, v \in Answers : Says(c, v)' => Says(c, v)
    BY <1>5, <2>1, <2>2 DEF Says
  <2> QED BY <2>3, RightKept
<1>7. CASE Respond(f, Told(n, "invalid"))
  <2>1. ~Alive(n)
    BY <1>2 DEF Recorded
  <2>2. at' = [at EXCEPT ![f] = "output"] /\ out' = [out EXCEPT ![f] = Told(n, "invalid")]
    BY <1>7 DEF Respond
  <2>3. \A g \in Frontends : ~Sending(g, n)'
    <3> SUFFICES ASSUME NEW g \in Frontends, Sending(g, n)' PROVE FALSE
      OBVIOUS
    <3>1. g # f /\ at'[g] = at[g] /\ call'[g] = call[g]
      BY <1>4, <2>2 DEF Sending, Shape
    <3> QED BY <2>1, <3>1 DEF Sending, Alive, Waits
  <2>4. \A g \in Frontends : ~Queued(g, n)'
    BY <1>4, <2>1 DEF Queued, Alive, Waits
  <2>5. ~Alive(n)'
    BY <1>4, <2>1, <2>3, <2>4 DEF Alive, Waits, Deciding, Doubted
  <2>6. n \notin effects'
    BY <1>2, <1>4 DEF Recorded
  <2>7. Fits(n, "invalid")'
    BY <1>2, <2>5, <2>6 DEF Fits
  <2>8. \A c \in Nat, v \in Answers : Told(n, "invalid") = Told(c, v) => Fits(c, v)'
    <3> SUFFICES ASSUME NEW c \in Nat, NEW v \in Answers, Told(n, "invalid") = Told(c, v)
                 PROVE  Fits(c, v)'
      OBVIOUS
    <3>1. c = n /\ v = "invalid"
      BY DEF Told
    <3> QED BY <2>7, <3>1
  <2> QED BY <1>4, <1>5, <2>2, <2>8, RightToPrint
<1>8. call'[f] = n
  BY <1>4 DEF Shape
<1> QED BY <1>6, <1>7, <1>8 DEF Call

\* The agent reads the answer: what the frontend had to print, or that a
\* listing was too long.
LEMMA RightAfterOutput ==
    ASSUME ChannelInv, Recorded, Proceeds, Right, NEW f \in Frontends, Output(f)
    PROVE  Right'
<1> USE DEF ChannelInv
<1>1. CASE Exit(f)
  <2>1. UNCHANGED <<asked, answers, serving>>
    BY <1>1 DEF Output, Exit, Shape, owner
  <2>2. \A g \in Frontends : toFront'[g] = toFront[g] \/ toFront'[g] = <<>>
    BY <1>1 DEF Exit, Shape
  <2>3. \A g \in Frontends : at'[g] = "output" => at[g] = "output" /\ out'[g] = out[g]
    BY <1>1 DEF Exit, Shape
  <2> QED BY <2>1, <2>2, <2>3, RightUntouched
<1>2. CASE ~Exit(f)
  <2>1. /\ at[f] = "output" /\ call[f] \in 1 .. Len(asked) /\ call[f] \in Nat /\ out[f] \in Message
        /\ at' = [at EXCEPT ![f] = "line"] /\ out' = [out EXCEPT ![f] = None]
        /\ UNCHANGED <<toFront, serving, asked, journal, effects>>
    BY <1>2, OutputRecords DEF channel, vault
  <2>2. PICK w \in Answers :
            /\ \/ w = out[f].verdict
               \/ w = "oversize" /\ out[f].verdict = "ok" /\ asked[call[f]] \in Reads
            /\ answers' = [answers EXCEPT ![call[f]] = w]
    BY <1>2, OutputRecords
  <2>3. out[f] = Told(call[f], out[f].verdict) /\ out[f].verdict \in Answers
    <3>1. out[f].call = call[f]
      BY <2>1 DEF Lane
    <3> QED BY <2>1, <3>1, MessageIsTold
  <2>4. Fits(call[f], out[f].verdict)
    BY <2>1, <2>3 DEF Right, Says, Printing
  <2>5. Fits(call[f], w)
    <3>1. CASE w = out[f].verdict
      BY <2>4, <3>1
    <3>2. CASE w = "oversize" /\ out[f].verdict = "ok" /\ asked[call[f]] \in Reads
      <4>1. ~Alive(call[f]) /\ call[f] \in 1 .. Len(asked)
        BY <2>4, <3>2 DEF Fits, RC!Settled
      <4>2. call[f] \notin effects
        BY <3>2, FrontendAssumption DEF Recorded
      <4> QED BY <3>2, <4>1, <4>2 DEF Fits
    <3> QED BY <2>2, <3>1, <3>2
  <2>6. PICK n \in 1 .. Len(asked) : n = call[f]
    BY <2>1
  <2>7. Fits(n, w)'
    BY <2>5, <2>6, FitsKept
  <2>8. /\ answers'[n] = w
        /\ \A c \in 1 .. Len(asked) : c # n => answers'[c] = answers[c]
    BY <2>2, <2>6, ReplaceOne DEF Shape
  <2>9. \A c \in Nat, v \in Answers : Given(c, v)' => Given(c, v) \/ Fits(c, v)'
    <3> SUFFICES ASSUME NEW c \in Nat, NEW v \in Answers, Given(c, v)'
                 PROVE  Given(c, v) \/ Fits(c, v)'
      OBVIOUS
    <3>1. CASE c = n
      <4>1. v = w
        BY <2>8, <3>1 DEF Given
      <4> QED BY <2>7, <3>1, <4>1
    <3>2. CASE c # n
      BY <2>1, <2>8, <3>2 DEF Given
    <3> QED BY <3>1, <3>2
  <2>10. \A g \in Frontends, c \in Nat, v \in Answers :
            (Replied(g, c, v)' => Replied(g, c, v)) /\ (Printing(g, c, v)' => Printing(g, c, v))
    BY <2>1 DEF Replied, Printing, Told, Shape
  <2>11. \A c \in Nat, v \in Answers : Decided(c, v)' => Decided(c, v)
    BY <2>1 DEF Decided
  <2>12. \A c \in Nat, v \in Answers : Says(c, v)' => Says(c, v) \/ Fits(c, v)'
    BY <2>9, <2>10, <2>11 DEF Says
  <2> QED BY <2>12, RightKept
<1> QED BY <1>1, <1>2

\* What the owner decides stays true of the call.
LEMMA RightAfterDecides ==
    ASSUME ChannelInv, Recorded, OnePlace, Proceeds, Right, OwnerDecides
    PROVE  Right'
<1>0. PICK n \in Nat : n = serving.call
  BY DecidesFrame, ServedFrame DEF ChannelInv
<1>w. PICK w : w = serving'.verdict
  OBVIOUS
<1>1. n = serving.call /\ w = serving'.verdict
  BY <1>0, <1>w
<1>2. /\ serving # None /\ serving.verdict = None /\ serving'.call = n
      /\ w \in {"ok", "capacity", "refused", "recovery", "unavailable"}
      /\ UNCHANGED <<at, call, out, toOwner, toFront, asked, answers>>
  BY <1>1, DecidesFrame DEF ChannelInv
<1>3. Deciding(n) /\ n \in 1 .. Len(asked) /\ n \notin effects /\ ~Doubted(n)
      /\ \A f \in Frontends : ~Waits(f, n)
  <2>1. Deciding(n)
    BY <1>1, <1>2 DEF Deciding
  <2> QED BY <2>1 DEF Recorded, OnePlace, Alive
<1>4. ~Deciding(n)' /\ \A f \in Frontends : ~Waits(f, n)'
  <2>1. w # None
    BY <1>2, FrontendAssumption
  <2> QED BY <1>1, <1>2, <1>3, <2>1 DEF Deciding, Waits, Sending, Queued
<1>v. \A v : Verdict(v) => w = v
  BY <1>1, <1>2 DEF Verdict, ChannelInv, Shape, Frame
<1>5. UNCHANGED doubt \/ w = "recovery"
  BY <1>v DEF OwnerDecides, AnswersOnly, CarriesOut, Undelivered, vault
<1>6. /\ w = "ok" => asked'[n] \in Reads \cup journal'
      /\ w \in {"refused", "capacity"} => n \notin effects'
  <2>1. CASE AnswersOnly(n)
    BY <1>2, <1>3, <1>v, <2>1 DEF AnswersOnly, vault
  <2>2. CASE CarriesOut(n)
    BY <1>2, <1>3, <1>v, <2>2 DEF CarriesOut, Undelivered, Perform, Reject
  <2> QED BY <1>1, <2>1, <2>2 DEF OwnerDecides
<1>7. Fits(n, w)'
  <2>1. ASSUME w # "recovery" PROVE ~Alive(n)'
    BY <1>3, <1>4, <1>5, <2>1 DEF Alive, Doubted
  <2> QED BY <1>2, <1>3, <1>6, <2>1 DEF Fits, RC!Settled
<1>8. \A c \in Nat, v \in Answers : Decided(c, v)' => Fits(c, v)'
  <2> SUFFICES ASSUME NEW c \in Nat, NEW v \in Answers, Decided(c, v)' PROVE Fits(c, v)'
    OBVIOUS
  <2>1. c = n /\ v = w
    BY <1>1, <1>2 DEF Decided
  <2> QED BY <1>7, <2>1
<1>9. \A f \in Frontends, c \in Nat, v \in Answers :
        (Replied(f, c, v)' => Replied(f, c, v)) /\ (Printing(f, c, v)' => Printing(f, c, v))
  BY <1>2 DEF Replied, Printing, Told
<1>10. \A c \in Nat, v \in Answers : Given(c, v)' => Given(c, v)
  BY <1>2 DEF Given
<1>11. \A c \in Nat, v \in Answers : Says(c, v)' => Says(c, v) \/ Fits(c, v)'
  BY <1>8, <1>9, <1>10 DEF Says
<1> QED BY <1>11, RightKept

LEMMA RightAfterReplies ==
    ASSUME ChannelInv, Proceeds, Right, OwnerReplies
    PROVE  Right'
<1>1. /\ serving # None /\ serving.verdict # None /\ serving' = None
      /\ UNCHANGED <<at, out, asked, answers>>
  BY DEF OwnerReplies, front
<1>2. CASE UNCHANGED toFront
  BY <1>1, <1>2, RightUntouched
<1>3. CASE toFront' = [toFront EXCEPT ![serving.front] = Append(@, Told(serving.call, serving.verdict))]
  <2>1. PICK f \in Frontends, n \in Nat, w \in Verdicts :
            f = serving.front /\ n = serving.call /\ w = serving.verdict
    BY <1>1, ServedFrame DEF ChannelInv
  <2>2. toFront[f] \in Seq(Message) /\ Told(n, w) \in Message
    BY MessageFields DEF ChannelInv, Shape
  <2>3. toFront'[f] = Append(toFront[f], Told(n, w)) /\ \A g \in Frontends \ {f} : toFront'[g] = toFront[g]
    BY <1>3, <2>1 DEF ChannelInv, Shape
  <2>4. ASSUME NEW c \in Nat, NEW v \in Answers, Replied(f, c, v)'
        PROVE  Replied(f, c, v) \/ Decided(c, v)
    <3>1. PICK i \in 1 .. Len(toFront'[f]) : toFront'[f][i] = Told(c, v)
      BY <2>4 DEF Replied, Told
    <3>2. Len(toFront[f]) \in Nat /\ (i \in 1 .. Len(toFront[f]) \/ i = Len(toFront[f]) + 1)
      BY <2>2, <2>3, OneMore
    <3>3. CASE i \in 1 .. Len(toFront[f])
      <4>1. toFront[f][i] = Told(c, v)
        BY <2>2, <2>3, <3>1, <3>3, OneMore
      <4> QED BY <3>3, <4>1 DEF Replied
    <3>4. CASE i = Len(toFront[f]) + 1
      <4>1. Told(n, w) = Told(c, v)
        BY <2>2, <2>3, <3>1, <3>4, OneMore
      <4>2. n = c /\ w = v
        BY <4>1 DEF Told
      <4> QED BY <1>1, <2>1, <4>2 DEF Decided
    <3> QED BY <3>2, <3>3, <3>4
  <2>5. \A g \in Frontends, c \in Nat, v \in Answers : g # f /\ Replied(g, c, v)' => Replied(g, c, v)
    BY <2>3 DEF Replied, Told
  <2>6. \A g \in Frontends, c \in Nat, v \in Answers : Printing(g, c, v)' => Printing(g, c, v)
    BY <1>1 DEF Printing, Told
  <2>7. \A c \in Nat, v \in Answers : (Given(c, v)' => Given(c, v)) /\ ~Decided(c, v)'
    BY <1>1 DEF Given, Decided
  <2>8. \A c \in Nat, v \in Answers : Says(c, v)' => Says(c, v)
    BY <2>4, <2>5, <2>6, <2>7 DEF Says
  <2> QED BY <2>8, RightKept
<1> QED BY <1>2, <1>3 DEF OwnerReplies

LEMMA RightPreserved ==
    ASSUME ChannelInv, Recorded, OnePlace, Proceeds, Right, [Next]_vars
    PROVE  Right'
<1>1. ASSUME NEW f \in Frontends, Connect(f) \/ InputEnds(f) \/ Local(f) \/ Handshake(f)
      PROVE  Right'
  <2>1. UNCHANGED <<serving, asked, answers>>
    BY <1>1, ReadingSteps
  <2>2. \A g \in Frontends : toFront'[g] = toFront[g] \/ toFront'[g] = <<>>
    BY <1>1, ReadingSteps DEF Exit, channel, ChannelInv, Shape
  <2>3. \A g \in Frontends : at'[g] = "output" => at[g] = "output" /\ out'[g] = out[g]
    BY <1>1, ReadingSteps DEF Exit, ChannelInv, Shape
  <2> QED BY <2>1, <2>2, <2>3, RightUntouched
<1>2. ASSUME UNCHANGED <<asked, answers, toFront, at, out>>,
             serving' = serving \/ serving' = None \/ serving'.verdict = None
      PROVE  Right'
  BY <1>2, RightUntouched
<1>3. ASSUME NEW f \in Frontends, OwnerDrops(f) \/ OwnerTakes(f) \/ Expire(f) PROVE Right'
  BY <1>2, <1>3 DEF OwnerDrops, OwnerTakes, Expire, front, channel, owner
<1>4. CASE OwnerStops \/ OwnerStarts
  BY <1>2, <1>4 DEF OwnerStops, OwnerStarts, front, channel
<1>5. CASE UNCHANGED vars
  BY <1>2, <1>5 DEF vars
<1> QED BY <1>1, <1>3, <1>4, <1>5, RightAfterCall, RightAfterSend, RightAfterReceive, RightAfterOutput,
           RightAfterDecides, RightAfterReplies DEF Next, FrontStep

-----------------------------------------------------------------------------
(* The answers are those RemoteCall promises.                              *)

LEMMA CallInitially ==
    ASSUME Init
    PROVE  CallInv
<1>1. ChannelInv
  BY ChannelInitially
<1>2. /\ serving = None /\ doubt = None /\ effects = {} /\ journal = {} /\ asked = <<>> /\ Len(asked) = 0
      /\ \A f \in Frontends : at[f] = "connect" /\ toOwner[f] = <<>> /\ toFront[f] = <<>>
  BY DEF Init
<1>3. \A f \in Frontends, c \in Nat : ~Waits(f, c)
  BY <1>2 DEF Waits, Sending, Queued
<1>4. \A c \in Nat : ~Deciding(c) /\ ~Doubted(c)
  BY <1>2 DEF Deciding, Doubted
<1>5. Recorded /\ OnePlace /\ Owned
  BY <1>2, <1>3, <1>4 DEF Recorded, OnePlace, Owned, Alive, Busy
<1>6. \A c \in Nat, v \in Answers : ~Says(c, v)
  BY <1>2 DEF Says, Decided, Given, Replied, Printing
<1> QED BY <1>1, <1>5, <1>6 DEF CallInv, Right

LEMMA CallPreserved ==
    ASSUME CallInv, [Next]_vars
    PROVE  CallInv'
<1>1. Proceeds /\ OnePlace'
  BY StepProceeds DEF CallInv
<1> QED BY <1>1, ChannelPreserved, RecordedKept, OwnedPreserved, RightPreserved DEF CallInv

\* A call that takes effect was not answered for good, and no call with its
\* identifier took effect before.
LEMMA EffectIsRemote ==
    ASSUME CallInv, NEW c \in 1 .. Len(asked), TakesEffect(c), UNCHANGED answers
    PROVE  RC!TakeEffect(c)
<1>1. Alive(c) /\ asked[c] \in Requests \ journal /\ effects' = effects \cup {c} /\ UNCHANGED asked
  BY DEF TakesEffect, Perform
<1>2. ~RC!Performed(asked[c])
  BY <1>1 DEF RC!Performed, CallInv, Recorded
<1>3. answers[c] \in RC!Open
  <2>1. answers[c] \in Answers \cup {None}
    BY DEF CallInv, ChannelInv, Shape
  <2>2. c \in Nat
    OBVIOUS
  <2>3. ASSUME answers[c] \in Answers, answers[c] \in RC!Settled \cup {"unavailable"} PROVE FALSE
    <3>1. Says(c, answers[c])
      BY DEF Says, Given
    <3>2. Fits(c, answers[c])
      BY <2>2, <2>3, <3>1 DEF CallInv, Right
    <3> QED BY <1>1, <2>3, <3>2 DEF Fits
  <2> QED BY <2>1, <2>3 DEF Answers, Verdicts, RC!Open, RC!Settled
<1> QED BY <1>1, <1>2, <1>3 DEF RC!TakeEffect

\* The agent reads an answer that RemoteCall allows.
LEMMA OutputIsRemote ==
    ASSUME CallInv, CallInv', NEW f \in Frontends, Output(f), ~Exit(f)
    PROVE  \E c \in DOMAIN asked : RC!Answer(c)
<1>1. Shape
  BY DEF CallInv, ChannelInv
<1>2. PICK w \in Answers : answers' = [answers EXCEPT ![call[f]] = w]
  BY <1>1, OutputRecords
<1>3. PICK n \in 1 .. Len(asked) : n = call[f]
  BY <1>1, OutputRecords
<1>4. n \in Nat /\ n \in DOMAIN asked /\ answers[n] = None /\ UNCHANGED <<asked, journal, effects>>
  <2>1. at[f] \in Busy
    BY DEF Output, Busy
  <2>2. answers[n] = None
    BY <1>3, <2>1 DEF CallInv, Owned
  <2>3. n \in DOMAIN asked
    BY <1>1 DEF Shape
  <2> QED BY <1>1, <2>2, <2>3, OutputRecords DEF vault
<1>5. answers'[n] = w
  BY <1>1, <1>2, <1>3, ReplaceOne DEF Shape
<1>6. Fits(n, w)'
  <2>1. Says(n, w)'
    BY <1>4, <1>5 DEF Says, Given
  <2> QED BY <1>4, <2>1 DEF CallInv, Right
<1>7. w = "ok" => asked[n] \in Reads \/ RC!Performed(asked[n])
  <2>1. w = "ok" => asked[n] \in Reads \cup journal
    BY <1>4, <1>6 DEF Fits, RC!Settled
  <2> QED BY <2>1 DEF CallInv, Recorded, RC!Performed
<1>8. w \in RC!Settled \ {"ok"} => n \notin effects
  BY <1>4, <1>6 DEF Fits
<1>9. w \in RC!Settled \cup {"unknown", "recovery", "unavailable"}
  BY DEF Answers, Verdicts, RC!Settled
<1>10. RC!Answer(n)
  BY <1>2, <1>3, <1>4, <1>7, <1>8, <1>9 DEF RC!Answer
<1> QED BY <1>4, <1>10

LEMMA StepIsRemote ==
    ASSUME CallInv, CallInv', [Next]_vars
    PROVE  [RC!Next]_RC!vars
<1>1. Proceeds
  BY StepProceeds DEF CallInv
<1>2. ASSUME UNCHANGED <<asked, answers>> PROVE [RC!Next]_RC!vars
  <2>1. CASE UNCHANGED <<journal, effects>>
    BY <1>2, <2>1 DEF RC!vars
  <2>2. ASSUME NEW c \in 1 .. Len(asked), TakesEffect(c) PROVE [RC!Next]_RC!vars
    <3>1. RC!TakeEffect(c)
      BY <1>2, <2>2, EffectIsRemote
    <3>2. c \in DOMAIN asked
      BY DEF CallInv, ChannelInv, Shape
    <3> QED BY <3>1, <3>2 DEF RC!Next
  <2> QED BY <1>1, <2>1, <2>2 DEF Proceeds
<1>3. ASSUME NEW f \in Frontends, Call(f) PROVE [RC!Next]_RC!vars
  <2>1. PICK what \in Requests \cup Reads : asked' = Append(asked, what)
    BY <1>3 DEF Call
  <2>2. RC!Ask(what)
    BY <1>3, <2>1 DEF Call, RC!Ask
  <2> QED BY <2>2 DEF RC!Next
<1>4. ASSUME NEW f \in Frontends, Output(f) PROVE [RC!Next]_RC!vars
  <2>1. CASE ~Exit(f)
    BY <1>4, <2>1, OutputIsRemote DEF RC!Next
  <2>2. CASE Exit(f)
    <3>1. UNCHANGED <<asked, answers>>
      BY <1>4, <2>2 DEF Output, Exit, CallInv, ChannelInv, Shape
    <3> QED BY <1>2, <3>1
  <2> QED BY <2>1, <2>2
<1>5. ASSUME NEW f \in Frontends, Connect(f) \/ InputEnds(f) \/ Local(f) \/ Handshake(f)
      PROVE  [RC!Next]_RC!vars
  BY <1>2, <1>5, ReadingSteps
<1>6. ASSUME NEW f \in Frontends, Send(f) \/ Receive(f) \/ OwnerDrops(f) \/ OwnerTakes(f) \/ Expire(f)
      PROVE  [RC!Next]_RC!vars
  BY <1>2, <1>6 DEF Send, Receive, OwnerDrops, OwnerTakes, Expire
<1>7. CASE OwnerDecides \/ OwnerReplies \/ OwnerStops \/ OwnerStarts
  BY <1>2, <1>7 DEF OwnerDecides, OwnerReplies, OwnerStops, OwnerStarts
<1>8. CASE UNCHANGED vars
  BY <1>2, <1>8 DEF vars
<1> QED BY <1>3, <1>4, <1>5, <1>6, <1>7, <1>8 DEF Next, FrontStep

\* An agent can rely on its answers as RemoteCall says: a call takes effect at
\* most once and only while it is not settled, an identifier takes effect
\* once, and a settled answer is true of its call (run, dispatch, work).
THEOREM AnswersAreReliable == Spec => AnswersAreSettled
<1>1. Init => RC!Init
  BY DEF Init, RC!Init
<1>2. CallInv /\ [Next]_vars => CallInv'
  BY CallPreserved
<1>3. CallInv /\ CallInv' /\ [Next]_vars => [RC!Next]_RC!vars
  BY StepIsRemote
<1> QED BY <1>1, <1>2, <1>3, CallInitially, PTL DEF Spec, AnswersAreSettled, RC!Spec

=============================================================================
