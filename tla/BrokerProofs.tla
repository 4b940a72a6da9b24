---------------------------- MODULE BrokerProofs ----------------------------
(***************************************************************************)
(* Proofs about the owner's loop, for any tasks, capacity, lifetime and    *)
(* messages, and about the private HTTPS consumer inside it, for any number *)
(* of pieces, timeout and output.                                          *)
(***************************************************************************)
EXTENDS Broker, FiniteSetTheorems, WellFoundedInduction, TLAPS

-----------------------------------------------------------------------------
(***************************************************************************)
(* The consumer: an outcome other than Unknown is what the server said to  *)
(* the complete configuration, and the owner never goes on with a child of *)
(* its own about.                                                          *)
(***************************************************************************)

Https == [stage: Stages, input: BOOLEAN, sent: 0 .. Chunks, received: 0 .. 3, eof: BOOLEAN,
          exit: BOOLEAN \cup {None}, deadline: Nat, outcome: DeliveryStatus \cup {None}]

Curl == [at: {"none", "config", "talk", "zombie"}, out: Seq(0 .. 10), success: BOOLEAN,
         asked: (0 .. Chunks) \cup {None}, reply: (0 .. 10) \cup {None}]

ChildType == https \in Https /\ curl \in Curl /\ now \in Nat

\* What was written is the whole configuration once the pipe is closed.
Closed == https.input <=> https.sent # Chunks

\* A request that was made is about the whole configuration.
Asked ==
    /\ curl.at = "talk" \/ curl.success => curl.asked = Chunks
    /\ curl.at \in {"config", "talk"} => curl.out = <<>> /\ ~curl.success
    /\ curl.success => curl.out # <<>> /\ curl.reply = curl.out[1]

\* What was read is the beginning of what curl printed, and all of it once
\* the end was seen.
Progress ==
    /\ https.received <= Len(curl.out)
    /\ https.eof => curl.at \in {"zombie", "none"} /\ https.received = Len(curl.out)
    /\ https.exit # None => curl.at = "none" /\ https.exit = curl.success
    /\ curl.at = "none" => https.exit # None

\* The delivery may still have an outcome.
Delivering == https.stage \in {"prepared", "write", "read", "reap"}

ChildInv ==
    /\ ChildType
    /\ Delivering => Closed /\ Asked /\ Progress /\ https.outcome = None
    /\ https.stage = "kill" => https.outcome \in {None, "Unknown"}
    /\ OutcomeIsTruthful /\ NoStrayChild

-----------------------------------------------------------------------------

\* A handle without a child.
LEMMA NoChild ==
    ASSUME NEW o \in DeliveryStatus \cup {None}
    PROVE  LET h == [NoHttps EXCEPT !.outcome = o]
           IN  h \in Https /\ h.stage = "idle" /\ h.outcome = o
<1>1. 0 \in 0 .. Chunks /\ 0 \in 0 .. 3 /\ "idle" \in Stages
  BY ChildAssumption DEF Stages
<1> QED BY <1>1 DEF NoHttps, Https

LEMMA ChildInitially ==
    ASSUME Init
    PROVE  ChildInv
<1>1. https = NoHttps /\ curl = NoCurl /\ now = 0
  BY DEF Init, HttpsInit
<1>2. 0 \in 0 .. Chunks /\ 0 \in 0 .. 3 /\ "idle" \in Stages
  BY ChildAssumption DEF Stages
<1>3. https \in Https /\ https.stage = "idle" /\ https.outcome = None
  BY <1>1, <1>2 DEF NoHttps, Https
<1>4. curl \in Curl /\ curl.at = "none"
  BY <1>1 DEF NoCurl, Curl
<1> QED BY <1>1, <1>3, <1>4, ChildAssumption DEF ChildInv, ChildType, Delivering, OutcomeIsTruthful, NoStrayChild, DeliveryStatus

LEMMA PreparePreserves ==
    ASSUME ChildInv, Prepare, now' \in Nat
    PROVE  ChildInv'
<1>1. /\ https' = [NoHttps EXCEPT !.stage = "prepared", !.input = TRUE]
      /\ curl' = [NoCurl EXCEPT !.at = "config"]
  BY DEF Prepare
<1>2. 0 \in 0 .. Chunks /\ 0 \in 0 .. 3 /\ "prepared" \in Stages /\ 0 # Chunks
  BY ChildAssumption DEF Stages
<1>3. /\ https' \in Https /\ https'.stage = "prepared" /\ https'.input /\ https'.sent = 0
      /\ https'.received = 0 /\ ~https'.eof /\ https'.exit = None /\ https'.outcome = None
  BY <1>1, <1>2 DEF NoHttps, Https
<1>4. curl' \in Curl /\ curl'.at = "config" /\ curl'.out = <<>> /\ ~curl'.success
  <2>1. curl' = [at |-> "config", out |-> <<>>, success |-> FALSE, asked |-> None, reply |-> None]
    BY <1>1 DEF NoCurl
  <2>2. <<>> \in Seq(0 .. 10)
    OBVIOUS
  <2> QED BY <2>1, <2>2 DEF Curl
<1>5. Progress' /\ Closed' /\ Asked'
  BY <1>2, <1>3, <1>4 DEF Progress, Closed, Asked
<1> QED BY <1>3, <1>4, <1>5 DEF ChildInv, ChildType, Delivering, OutcomeIsTruthful, NoStrayChild

\* The pipes are closed, with an outcome that says nothing.
LEMMA DropPreserves ==
    ASSUME ChildInv, NEW o \in {None, "Unknown"}, Drop(o), now' \in Nat
    PROVE  ChildInv'
BY DEF Drop, ChildInv, ChildType, Https, Stages, Delivering, OutcomeIsTruthful, NoStrayChild, DeliveryStatus

LEMMA StartPreserves ==
    ASSUME ChildInv, https.stage = "prepared", StartDeliver, now' \in Nat
    PROVE  ChildInv'
<1>1. now + Wall \in Nat /\ https \in Https /\ "write" \in Stages
  BY ChildAssumption DEF ChildInv, ChildType, Stages
<1>2. /\ https' \in Https /\ https'.stage = "write" /\ UNCHANGED curl
      /\ https'.input = https.input /\ https'.sent = https.sent /\ https'.received = https.received
      /\ https'.eof = https.eof /\ https'.exit = https.exit /\ https'.outcome = https.outcome
  BY <1>1 DEF StartDeliver, Https
<1>3. Delivering /\ Delivering'
  BY <1>2 DEF Delivering
<1>4. Closed' /\ Asked' /\ Progress'
  BY <1>2, <1>3 DEF ChildInv, Closed, Asked, Progress
<1> QED BY <1>2, <1>3, <1>4 DEF ChildInv, ChildType, OutcomeIsTruthful, NoStrayChild

LEMMA WritePreserves ==
    ASSUME ChildInv, Write, now' \in Nat
    PROVE  ChildInv'
<1>1. CASE Drop("Unknown")
  BY <1>1, DropPreserves
<1>2. CASE https' = [https EXCEPT !.stage = "read"] /\ UNCHANGED curl
  BY <1>2 DEF Write, ChildInv, ChildType, Https, Stages, Delivering, Closed, Asked, Progress,
     OutcomeIsTruthful, NoStrayChild
<1>3. ASSUME NEW n \in 0 .. Chunks - https.sent, UNCHANGED curl,
             https' = [https EXCEPT !.stage = "read", !.sent = @ + n, !.input = https.sent + n # Chunks]
      PROVE  ChildInv'
  <2>1. https.sent + n \in 0 .. Chunks /\ https \in Https
    BY ChildAssumption DEF ChildInv, ChildType, Https
  <2> QED BY <1>3, <2>1 DEF Write, ChildInv, ChildType, Https, Stages, Delivering, Closed, Asked, Progress,
     OutcomeIsTruthful, NoStrayChild
<1> QED BY <1>1, <1>2, <1>3 DEF Write

LEMMA ReadPreserves ==
    ASSUME ChildInv, Read, now' \in Nat
    PROVE  ChildInv'
<1> USE DEF ChildInv, ChildType
<1>1. CASE Drop("Unknown")
  BY <1>1, DropPreserves
<1>2. CASE https' = [https EXCEPT !.stage = "reap"] /\ UNCHANGED curl
  BY <1>2 DEF Read, Https, Stages, Delivering, Closed, Asked, Progress, OutcomeIsTruthful, NoStrayChild
<1>3. CASE /\ https' = [https EXCEPT !.stage = "reap", !.eof = TRUE] /\ UNCHANGED curl
           /\ Len(curl.out) - https.received = 0 /\ curl.at \in {"zombie", "none"}
  <2>1. Len(curl.out) \in Nat /\ https.received \in Nat
    BY DEF Curl, Https
  <2>2. https.received = Len(curl.out)
    BY <1>3, <2>1
  <2>3. /\ https' \in Https /\ https'.stage = "reap" /\ https'.eof
        /\ https'.input = https.input /\ https'.sent = https.sent /\ https'.received = https.received
        /\ https'.exit = https.exit /\ https'.outcome = https.outcome
    BY <1>3 DEF Https, Stages
  <2>4. https.stage = "read" /\ Delivering
    BY DEF Read, Delivering
  <2>5. Closed' /\ Asked' /\ Progress'
    BY <1>3, <2>2, <2>3, <2>4 DEF Closed, Asked, Progress
  <2> QED BY <1>3, <2>3, <2>4, <2>5 DEF Delivering, OutcomeIsTruthful, NoStrayChild
<1>4. ASSUME NEW n \in {k \in 1 .. Len(curl.out) - https.received : https.received + k <= 4},
             ~https.eof, ~BufferFull(n), UNCHANGED curl,
             https' = [https EXCEPT !.stage = "reap", !.received = @ + n]
      PROVE  ChildInv'
  <2>1. https.received + n \in 0 .. 3 /\ https.received + n <= Len(curl.out)
    BY <1>4 DEF BufferFull, Curl, Https
  <2> QED BY <1>4, <2>1 DEF Read, Https, Stages, Delivering, Closed, Asked, Progress, OutcomeIsTruthful, NoStrayChild
<1> QED BY <1>1, <1>2, <1>3, <1>4 DEF Read

\* Only a complete answer counts: all of what curl printed was read, and curl
\* exited with zero.
LEMMA MapsTruthfully ==
    ASSUME NEW bytes \in Seq(0 .. 10), NEW success \in BOOLEAN,
           MapStatus(success, bytes) \in {"Accepted", "Rejected"}
    PROVE  success /\ Len(bytes) = 3 /\ (MapStatus(success, bytes) = "Accepted" <=> bytes[1] = 2)
BY DEF MapStatus

LEMMA ReapPreserves ==
    ASSUME ChildInv, Reap, now' \in Nat
    PROVE  ChildInv'
<1> USE DEF ChildInv, ChildType
<1> DEFINE exited == https.exit = None /\ curl.at = "zombie"
           exit == IF exited THEN curl.success ELSE https.exit
<1>1. /\ https.stage = "reap"
      /\ curl' = IF exited THEN [curl EXCEPT !.at = "none"] ELSE curl
      /\ https' = IF Over(exit, https.eof)
                  THEN [NoHttps EXCEPT !.outcome = MapStatus(exit, SubSeq(curl.out, 1, https.received))]
                  ELSE [https EXCEPT !.stage = "write", !.exit = exit]
  BY DEF Reap
<1>2. /\ Closed /\ Asked /\ Progress /\ https.outcome = None
      /\ https \in Https /\ curl \in Curl
  BY <1>1 DEF Delivering
<1>3. curl' \in Curl /\ curl'.success = curl.success /\ curl'.out = curl.out
      /\ curl'.asked = curl.asked /\ curl'.reply = curl.reply
  BY <1>1, <1>2 DEF Curl
<1>4. exit \in BOOLEAN \cup {None} /\ (exit # None => curl'.at = "none" /\ exit = curl.success)
      /\ (curl'.at = "none" => exit # None)
  BY <1>1, <1>2, ChildAssumption DEF Curl, Https, Progress
<1>5. CASE Over(exit, https.eof)
  <2>1. https.received = Len(curl.out) /\ exit = curl.success /\ curl'.at = "none"
    BY <1>2, <1>4, <1>5 DEF Over, Progress
  <2>2. SubSeq(curl.out, 1, https.received) = curl.out
    BY <1>2, <2>1 DEF Curl
  <2> DEFINE status == MapStatus(curl.success, curl.out)
  <2>3. https' = [NoHttps EXCEPT !.outcome = status]
    BY <1>1, <1>5, <2>1, <2>2
  <2>4. status \in DeliveryStatus
    BY DEF MapStatus, DeliveryStatus
  <2>5. status \in {"Accepted", "Rejected"} => curl.asked = Chunks /\ (status = "Accepted" <=> curl.reply = 2)
    BY <1>2, MapsTruthfully DEF Asked, Curl
  <2> HIDE DEF status
  <2>6. https' \in Https /\ https'.stage = "idle" /\ https'.outcome = status
    BY <2>3, <2>4, NoChild
  <2> QED BY <1>3, <2>1, <2>5, <2>6 DEF Delivering, OutcomeIsTruthful, NoStrayChild
<1>6. CASE ~Over(exit, https.eof)
  <2> HIDE DEF exit
  <2>1. https' = [https EXCEPT !.stage = "write", !.exit = exit]
    BY <1>1, <1>6
  <2>2. https' \in Https /\ https'.stage = "write" /\ https'.exit = exit
        /\ https'.input = https.input /\ https'.sent = https.sent /\ https'.received = https.received
        /\ https'.eof = https.eof /\ https'.outcome = https.outcome
    BY <1>2, <1>4, <2>1 DEF Https, Stages
  <2>3. Progress'
    BY <1>1, <1>2, <1>3, <1>4, <2>2 DEF Progress, Curl
  <2>4. Asked'
    BY <1>1, <1>2, <1>3 DEF Asked, Curl
  <2> QED BY <1>2, <1>3, <2>2, <2>3, <2>4 DEF Delivering, Closed, OutcomeIsTruthful, NoStrayChild
<1> QED BY <1>5, <1>6

LEMMA KillPreserves ==
    ASSUME ChildInv, DropKill, now' \in Nat
    PROVE  ChildInv'
<1>1. https.outcome \in {None, "Unknown"} /\ https.outcome \in DeliveryStatus \cup {None} /\ curl \in Curl
  BY DEF DropKill, ChildInv, ChildType, DeliveryStatus
<1>2. https' \in Https /\ https'.stage = "idle" /\ https'.outcome = https.outcome
  BY <1>1, NoChild DEF DropKill
<1>3. curl' \in Curl /\ curl'.at = "none"
  BY <1>1 DEF DropKill, Curl
<1> QED BY <1>1, <1>2, <1>3, ChildAssumption
        DEF ChildInv, ChildType, Delivering, OutcomeIsTruthful, NoStrayChild, DeliveryStatus

LEMMA CurlPreserves ==
    ASSUME ChildInv, CurlStep
    PROVE  ChildInv'
<1> USE DEF ChildInv, ChildType
<1>1. UNCHANGED <<now, https>> /\ https \in Https /\ curl \in Curl
  BY DEF CurlStep
<1>2. https.stage # "idle"
  BY DEF CurlStep, CurlStart, CurlAnswers, CurlFails, NoStrayChild
<1>3. OutcomeIsTruthful' /\ NoStrayChild' /\ (https.stage = "kill" => https'.outcome \in {None, "Unknown"})
  BY <1>1, <1>2 DEF OutcomeIsTruthful, NoStrayChild
<1>4. CASE CurlStart
  <2>1. /\ curl' \in Curl /\ curl.at = "config" /\ curl'.at = "talk" /\ curl'.asked = https.sent
        /\ curl'.out = curl.out /\ curl'.success = curl.success /\ curl'.reply = curl.reply /\ ~https.input
    BY <1>1, <1>4 DEF CurlStart, Curl, Https
  <2>2. ASSUME Delivering PROVE Closed' /\ Asked' /\ Progress'
    BY <1>1, <2>1, <2>2 DEF Closed, Asked, Progress
  <2> QED BY <1>1, <1>3, <2>1, <2>2 DEF Delivering
<1>5. ASSUME NEW bytes \in StatusBytes, Len(bytes) > 0, curl.at = "talk",
             curl' = [curl EXCEPT !.at = "zombie", !.out = bytes, !.success = TRUE, !.reply = bytes[1]]
      PROVE  ChildInv'
  <2>1. bytes \in Seq(0 .. 10) /\ bytes # <<>> /\ bytes[1] \in 0 .. 10 /\ Len(bytes) \in Nat
    BY <1>5, ChildAssumption
  <2>2. /\ curl' \in Curl /\ curl'.at = "zombie" /\ curl'.asked = curl.asked
        /\ curl'.out = bytes /\ curl'.success /\ curl'.reply = bytes[1]
    BY <1>1, <1>5, <2>1 DEF Curl
  <2>3. ASSUME Delivering PROVE Closed' /\ Asked' /\ Progress'
    <3>1. https.received = 0 /\ ~https.eof /\ https.exit = None
      <4>1. curl.out = <<>> /\ https.received <= Len(curl.out)
        BY <1>5, <2>3 DEF Asked, Progress
      <4>2. https.received <= 0 /\ https.received \in 0 .. 3
        BY <1>1, <4>1 DEF Https
      <4> QED BY <1>5, <2>3, <4>2 DEF Progress
    <3>2. Closed' /\ Progress'
      BY <1>1, <2>1, <2>2, <2>3, <3>1 DEF Closed, Progress
    <3>3. Asked'
      BY <1>5, <2>1, <2>2, <2>3 DEF Asked
    <3> QED BY <3>2, <3>3
  <2> QED BY <1>1, <1>3, <2>2, <2>3 DEF Delivering
<1>6. ASSUME NEW bytes \in StatusBytes, curl.at \in {"config", "talk"},
             curl' = [curl EXCEPT !.at = "zombie", !.out = bytes]
      PROVE  ChildInv'
  <2>1. bytes \in Seq(0 .. 10) /\ Len(bytes) \in Nat
    BY <1>6, ChildAssumption
  <2>2. /\ curl' \in Curl /\ curl'.at = "zombie" /\ curl'.asked = curl.asked
        /\ curl'.out = bytes /\ curl'.success = curl.success /\ curl'.reply = curl.reply
    BY <1>1, <1>6, <2>1 DEF Curl
  <2>3. ASSUME Delivering PROVE Closed' /\ Asked' /\ Progress'
    <3>1. https.received = 0 /\ ~https.eof /\ https.exit = None /\ ~curl.success
      <4>1. curl.out = <<>> /\ https.received <= Len(curl.out) /\ ~curl.success
        BY <1>6, <2>3 DEF Asked, Progress
      <4>2. https.received <= 0 /\ https.received \in 0 .. 3
        BY <1>1, <4>1 DEF Https
      <4> QED BY <1>6, <2>3, <4>1, <4>2 DEF Progress
    <3>2. Closed' /\ Progress'
      BY <1>1, <2>1, <2>2, <2>3, <3>1 DEF Closed, Progress
    <3>3. Asked'
      BY <2>2, <3>1 DEF Asked
    <3> QED BY <3>2, <3>3
  <2> QED BY <1>1, <1>3, <2>2, <2>3 DEF Delivering
<1> QED BY <1>4, <1>5, <1>6 DEF CurlStep, CurlAnswers, CurlFails

-----------------------------------------------------------------------------
(* The loop around it.                                                     *)

\* The child exists from its preparation to the end of the delivery.
OnlyInDelivery ==
    /\ at = "use" => https.stage = "prepared"
    /\ at \notin {"use", "deliver"} => https.stage = "idle"

ConsumerInv == ChildInv /\ OnlyInDelivery

\* Steps that leave the child alone.
LEMMA OtherSteps ==
    ASSUME ConsumerInv,
           \/ Sweep \/ Poll \/ PollFails \/ PassEnds \/ Serve \/ Receive \/ Handle \/ AdminHandle
           \/ Work \/ Reply \/ Admit \/ Send \/ Close \/ Tick
    PROVE  ConsumerInv'
<1>1. UNCHANGED <<https, curl>> /\ now' \in Nat
  BY DEF ConsumerInv, ChildInv, ChildType, Sweep, Poll, PollFails, PassEnds, Serve, Receive, Handle,
     AdminHandle, Work, Reply, Admit, Send, Close, Tick, child
<1>2. (at \notin {"use", "deliver"} /\ at' \notin {"use", "deliver"}) \/ at' = at
  BY DEF Sweep, Poll, PollFails, PassEnds, Serve, Receive, Handle, AdminHandle, Work, Reply, Admit, Send,
     Close, Tick, loop, Goto, Answer, NextPeer, NextPass
<1>3. ChildInv'
  BY <1>1 DEF ConsumerInv, ChildInv, ChildType, Delivering, Closed, Asked, Progress, OutcomeIsTruthful,
     NoStrayChild
<1> QED BY <1>1, <1>2, <1>3 DEF ConsumerInv, OnlyInDelivery

LEMMA ConsumerSteps ==
    ASSUME ConsumerInv, UsePrepare \/ UseHandoff \/ Deliver
    PROVE  ConsumerInv'
<1> USE DEF ConsumerInv
<1>0. now' \in Nat
  BY DEF ChildInv, ChildType, UsePrepare, UseHandoff, Deliver
<1>1. CASE UsePrepare
  <2>1. CASE Prepare /\ Goto("use")
    <3>1. https'.stage = "prepared"
      BY <2>1 DEF Prepare, NoHttps
    <3> QED BY <1>0, <2>1, <3>1, PreparePreserves DEF OnlyInDelivery, Goto
  <2>2. CASE Answer /\ UNCHANGED child
    <3>1. UNCHANGED <<https, curl>> /\ at = "work" /\ at' = "reply"
      BY <1>1, <2>2 DEF UsePrepare, child, Answer, Goto
    <3> QED BY <1>0, <3>1 DEF OnlyInDelivery, ChildInv, ChildType, Delivering, Closed, Asked, Progress,
            OutcomeIsTruthful, NoStrayChild
  <2> QED BY <1>1, <2>1, <2>2 DEF UsePrepare
<1>2. CASE UseHandoff
  <2>1. at = "use" /\ at' = "deliver" /\ https.stage = "prepared"
    BY <1>2 DEF UseHandoff, Goto, OnlyInDelivery
  <2>2. ChildInv'
    BY <1>0, <1>2, <2>1, StartPreserves, DropPreserves DEF UseHandoff, DeliverRefused
  <2> QED BY <2>1, <2>2 DEF OnlyInDelivery
<1>3. CASE Deliver
  <2>1. CASE HttpsStep /\ UNCHANGED loop
    <3>1. at = "deliver" /\ at' = "deliver"
      BY <1>3, <2>1 DEF Deliver, loop
    <3>2. ChildInv'
      BY <1>0, <2>1, WritePreserves, ReadPreserves, ReapPreserves, KillPreserves DEF HttpsStep
    <3> QED BY <3>1, <3>2 DEF OnlyInDelivery
  <2>2. CASE https' = NoHttps /\ curl' = NoCurl /\ Answer
    <3>1. https'.stage = "idle" /\ https'.outcome = None /\ https' \in Https
      <4>1. 0 \in 0 .. Chunks /\ 0 \in 0 .. 3 /\ "idle" \in Stages
        BY ChildAssumption DEF Stages
      <4> QED BY <2>2, <4>1 DEF NoHttps, Https
    <3>2. curl' \in Curl /\ curl'.at = "none"
      BY <2>2 DEF NoCurl, Curl
    <3>3. ChildInv'
      BY <1>0, <3>1, <3>2, ChildAssumption
         DEF ChildInv, ChildType, Delivering, OutcomeIsTruthful, NoStrayChild, DeliveryStatus
    <3> QED BY <2>2, <3>1, <3>3 DEF OnlyInDelivery, Answer, Goto
  <2> QED BY <1>3, <2>1, <2>2 DEF Deliver
<1> QED BY <1>1, <1>2, <1>3

LEMMA ConsumerPreserved ==
    ASSUME ConsumerInv, [Next]_vars
    PROVE  ConsumerInv'
<1>1. CASE CurlStep /\ UNCHANGED <<loop, table, peers, effect>>
  <2>1. UNCHANGED <<https, at>>
    BY <1>1 DEF CurlStep, loop
  <2> QED BY <1>1, <2>1, CurlPreserves DEF ConsumerInv, OnlyInDelivery
<1>2. CASE UNCHANGED vars
  BY <1>2 DEF vars, loop, child, ConsumerInv, OnlyInDelivery, ChildInv, ChildType, Delivering, Closed, Asked,
     Progress, OutcomeIsTruthful, NoStrayChild
<1> QED BY <1>1, <1>2, OtherSteps, ConsumerSteps DEF Next, OwnerStep

LEMMA ConsumerInitially ==
    ASSUME Init
    PROVE  ConsumerInv
<1>1. at = "top" /\ https.stage = "idle"
  BY DEF Init, HttpsInit, NoHttps
<1> QED BY <1>1, ChildInitially DEF ConsumerInv, OnlyInDelivery

\* An outcome other than Unknown is what the server said to the complete
\* configuration (deliver, map_status).
THEOREM OutcomesAreTrue == Spec => []OutcomeIsTruthful
<1>1. ConsumerInv => OutcomeIsTruthful
  BY DEF ConsumerInv, ChildInv
<1>2. ConsumerInv /\ [Next]_vars => ConsumerInv'
  BY ConsumerPreserved
<1> QED BY <1>1, <1>2, ConsumerInitially, PTL DEF Spec

\* No curl of the owner runs or waits to be reaped once its delivery is over
\* (deliver, Drop), and a delivery is over when the loop goes on.
THEOREM ChildrenAreReaped ==
    Spec => [](NoStrayChild /\ (at \notin {"use", "deliver"} => https.stage = "idle"))
<1>1. ConsumerInv => NoStrayChild /\ (at \notin {"use", "deliver"} => https.stage = "idle")
  BY DEF ConsumerInv, ChildInv, OnlyInDelivery
<1>2. ConsumerInv /\ [Next]_vars => ConsumerInv'
  BY ConsumerPreserved
<1> QED BY <1>1, <1>2, ConsumerInitially, PTL DEF Spec

-----------------------------------------------------------------------------
(***************************************************************************)
(* The sessions: what the vault does for a session is confined to it, a    *)
(* token attaches once, and the table and the connections agree and stay   *)
(* bounded.                                                                *)
(***************************************************************************)

-----------------------------------------------------------------------------
(* Induction, from the least element of a set of numbers.                  *)

Less == {ss \in Nat \X Nat : ss[1] < ss[2]}

LEMMA LessIsWellFounded == IsWellFoundedOn(Less, Nat)
BY NatLessThanWellFounded DEF OpToRel, Less

LEMMA SetInduction ==
    ASSUME NEW S, 0 \in S, \A n \in Nat : n \in S => n + 1 \in S
    PROVE  Nat \subseteq S
<1> SUFFICES ASSUME Nat \ S # {} PROVE FALSE
  OBVIOUS
<1>1. \E x \in Nat \ S : \A y \in Nat \ S : <<y, x>> \notin Less
  BY WFMin, LessIsWellFounded
<1>2. PICK x \in Nat \ S : \A y \in Nat \ S : <<y, x>> \notin Less
  BY <1>1
<1>3. \A y \in Nat \ S : ~(y < x)
  BY <1>2 DEF Less
<1>4. x - 1 \in Nat /\ x - 1 < x /\ (x - 1) + 1 = x
  <2>1. x # 0
    OBVIOUS
  <2> QED BY <2>1
<1>5. x - 1 \in S
  BY <1>3, <1>4
<1> QED BY <1>4, <1>5

-----------------------------------------------------------------------------
(* The elements of a sequence at chosen places.                            *)

\* The prefixes of s, with what is not in K left out.
Chooses(g, s, K, n) ==
    /\ g[0] = <<>>
    /\ \A i \in 1 .. n : g[i] = IF i \in K THEN Append(g[i - 1], s[i]) ELSE g[i - 1]

LEMMA ChoosesExists ==
    ASSUME NEW S, NEW s \in Seq(S), NEW K
    PROVE  \E g \in [0 .. Len(s) -> Seq(S)] : Chooses(g, s, K, Len(s))
<1> DEFINE T == {n \in Nat : n <= Len(s) => \E g \in [0 .. n -> Seq(S)] : Chooses(g, s, K, n)}
<1>1. 0 \in T
  <2>1. [i \in 0 .. 0 |-> <<>>] \in [0 .. 0 -> Seq(S)]
    OBVIOUS
  <2>2. Chooses([i \in 0 .. 0 |-> <<>>], s, K, 0)
    BY DEF Chooses
  <2> QED BY <2>1, <2>2
<1>2. ASSUME NEW n \in Nat, n \in T PROVE n + 1 \in T
  <2> SUFFICES ASSUME n + 1 <= Len(s)
               PROVE  \E g \in [0 .. n + 1 -> Seq(S)] : Chooses(g, s, K, n + 1)
    OBVIOUS
  <2>1. Len(s) \in Nat /\ n <= Len(s) /\ n + 1 \in 1 .. Len(s)
    OBVIOUS
  <2>2. PICK g \in [0 .. n -> Seq(S)] : Chooses(g, s, K, n)
    BY <1>2, <2>1
  <2> DEFINE x == IF n + 1 \in K THEN Append(g[n], s[n + 1]) ELSE g[n]
             h == [i \in 0 .. n + 1 |-> IF i = n + 1 THEN x ELSE g[i]]
  <2>3. x \in Seq(S)
    <3>1. g[n] \in Seq(S) /\ s[n + 1] \in S
      BY <2>1
    <3> QED BY <3>1
  <2> HIDE DEF x
  <2>4. h \in [0 .. n + 1 -> Seq(S)]
    BY <2>3
  <2>5. \A i \in 0 .. n : h[i] = g[i]
    OBVIOUS
  <2>6. h[n + 1] = x
    OBVIOUS
  <2> HIDE DEF h
  <2>7. Chooses(h, s, K, n + 1)
    <3>1. h[0] = <<>>
      BY <2>2, <2>5 DEF Chooses
    <3>2. ASSUME NEW i \in 1 .. n + 1
          PROVE  h[i] = IF i \in K THEN Append(h[i - 1], s[i]) ELSE h[i - 1]
      <4>1. CASE i = n + 1
        BY <2>5, <2>6, <4>1 DEF x
      <4>2. CASE i # n + 1
        <5>1. i \in 1 .. n /\ i \in 0 .. n /\ i - 1 \in 0 .. n
          BY <4>2
        <5> QED BY <2>2, <2>5, <5>1 DEF Chooses
      <4> QED BY <4>1, <4>2
    <3> QED BY <3>1, <3>2 DEF Chooses
  <2> QED BY <2>4, <2>7
<1> HIDE DEF T
<1>3. Nat \subseteq T
  BY <1>1, <1>2, SetInduction
<1> QED BY <1>3 DEF T

\* h numbers the places of K in the first n of s that t has kept.
Numbers(h, t, s, K, n) ==
    /\ h \in [1 .. Len(t) -> K \cap (1 .. n)]
    /\ \A k \in 1 .. Len(t) : t[k] = s[h[k]]
    /\ \A k, l \in 1 .. Len(t) : h[k] = h[l] => k = l
    /\ \A i \in K \cap (1 .. n) : \E k \in 1 .. Len(t) : h[k] = i

LEMMA ChosenAreNumbered ==
    ASSUME NEW S, NEW s \in Seq(S), NEW K, NEW g \in [0 .. Len(s) -> Seq(S)],
           Chooses(g, s, K, Len(s))
    PROVE  \E h : Numbers(h, g[Len(s)], s, K, Len(s))
<1> DEFINE T == {n \in Nat : n <= Len(s) => \E h : Numbers(h, g[n], s, K, n)}
<1>1. 0 \in T
  <2>1. g[0] = <<>>
    BY DEF Chooses
  <2>2. Numbers(<<>>, g[0], s, K, 0)
    BY <2>1 DEF Numbers
  <2> QED BY <2>2
<1>2. ASSUME NEW n \in Nat, n \in T PROVE n + 1 \in T
  <2> SUFFICES ASSUME n + 1 <= Len(s) PROVE \E h : Numbers(h, g[n + 1], s, K, n + 1)
    OBVIOUS
  <2>1. Len(s) \in Nat /\ n <= Len(s) /\ n + 1 \in 1 .. Len(s) /\ (n + 1) - 1 = n /\ n \in 0 .. Len(s)
    OBVIOUS
  <2>2. PICK h : Numbers(h, g[n], s, K, n)
    BY <1>2, <2>1
  <2>3. g[n + 1] = IF n + 1 \in K THEN Append(g[n], s[n + 1]) ELSE g[n]
    BY <2>1 DEF Chooses
  <2>4. CASE n + 1 \notin K
    <3>1. g[n + 1] = g[n] /\ K \cap (1 .. n + 1) = K \cap (1 .. n)
      BY <2>3, <2>4
    <3> QED BY <2>2, <3>1 DEF Numbers
  <2>5. CASE n + 1 \in K
    <3> DEFINE t == g[n]
               u == g[n + 1]
               m == Len(t) + 1
               hh == [k \in 1 .. m |-> IF k = m THEN n + 1 ELSE h[k]]
    <3>1. t \in Seq(S) /\ s[n + 1] \in S /\ u = Append(t, s[n + 1])
      BY <2>1, <2>3, <2>5
    <3>2. /\ Len(t) \in Nat /\ Len(u) = m /\ u[m] = s[n + 1]
          /\ \A k \in 1 .. Len(t) : u[k] = t[k]
      BY <3>1
    <3>3. m \in Nat /\ m >= 1 /\ \A k \in 1 .. m : k = m \/ k \in 1 .. Len(t)
      BY <3>2
    <3>4. h \in [1 .. Len(t) -> K \cap (1 .. n)]
      BY <2>2 DEF Numbers
    <3> HIDE DEF t, u, m
    <3>5. hh[m] = n + 1 /\ (\A k \in 1 .. Len(t) : hh[k] = h[k] /\ hh[k] # n + 1)
      <4>1. \A k \in 1 .. Len(t) : k \in 1 .. m /\ k # m
        BY <3>2, <3>3 DEF m
      <4>2. \A k \in 1 .. Len(t) : h[k] \in 1 .. n
        BY <3>4
      <4> QED BY <3>3, <4>1, <4>2
    <3>6. hh \in [1 .. m -> K \cap (1 .. n + 1)]
      <4>1. n + 1 \in K \cap (1 .. n + 1) /\ K \cap (1 .. n) \subseteq K \cap (1 .. n + 1)
        BY <2>5
      <4>2. \A k \in 1 .. m : k # m => h[k] \in K \cap (1 .. n)
        BY <3>3, <3>4
      <4> QED BY <4>1, <4>2
    <3> HIDE DEF hh
    <3>7. \A k \in 1 .. m : u[k] = s[hh[k]]
      <4>1. \A k \in 1 .. Len(t) : t[k] = s[h[k]]
        BY <2>2 DEF Numbers, t
      <4> QED BY <3>2, <3>3, <3>5, <4>1
    <3>8. \A k, l \in 1 .. m : hh[k] = hh[l] => k = l
      <4>1. \A k, l \in 1 .. Len(t) : h[k] = h[l] => k = l
        BY <2>2 DEF Numbers, t
      <4> QED BY <3>3, <3>5, <4>1
    <3>9. ASSUME NEW i \in K \cap (1 .. n + 1) PROVE \E k \in 1 .. m : hh[k] = i
      <4>1. CASE i = n + 1
        <5>1. m \in 1 .. m
          BY <3>3
        <5> QED BY <3>5, <4>1, <5>1
      <4>2. CASE i # n + 1
        <5>1. i \in K \cap (1 .. n)
          BY <4>2
        <5>2. PICK k \in 1 .. Len(t) : h[k] = i
          BY <2>2, <5>1 DEF Numbers, t
        <5>3. k \in 1 .. m
          BY <3>2 DEF m
        <5> QED BY <3>5, <5>2, <5>3
      <4> QED BY <4>1, <4>2
    <3>10. Numbers(hh, u, s, K, n + 1)
      BY <3>2, <3>6, <3>7, <3>8, <3>9 DEF Numbers
    <3> QED BY <3>10 DEF u
  <2> QED BY <2>4, <2>5
<1> HIDE DEF T
<1>3. Nat \subseteq T
  BY <1>1, <1>2, SetInduction
<1> QED BY <1>3 DEF T

-----------------------------------------------------------------------------
(* The state of the loop.                                                  *)

Principals == {Admin} \cup {TaskOf[t] : t \in Tasks} \cup {Configured[i] : i \in DOMAIN Configured}
Messages == AdminMessages \cup AgentMessages \cup {None}

Connection == [principal: Principals, session: Nat \cup {None}, until: Nat \cup {None},
               admin: BOOLEAN, active: BOOLEAN, inbox: Messages, open: BOOLEAN]

Entry == [digest: BOOLEAN, principal: Principals, tasks: SUBSET Tasks, expires_at: Nat]

\* The peers the sweep keeps are peers, each one once, and those of Kept.
LEMMA SweptAreKept ==
    ASSUME peers \in Seq(Connection)
    PROVE  /\ Swept \in Seq(Connection)
           /\ \E h : Numbers(h, Swept, peers, Kept, Len(peers))
<1> DEFINE Prefix(g) == [n \in 0 .. Len(peers) |->
                           IF n = 0 THEN <<>>
                           ELSE IF n \in Kept THEN Append(g[n - 1], peers[n]) ELSE g[n - 1]]
           f == CHOOSE g : g = Prefix(g)
<1>1. \E g : g = Prefix(g)
  <2>1. PICK g \in [0 .. Len(peers) -> Seq(Connection)] : Chooses(g, peers, Kept, Len(peers))
    BY ChoosesExists
  <2>2. g = [n \in 0 .. Len(peers) |-> g[n]]
    OBVIOUS
  <2>3. ASSUME NEW n \in 0 .. Len(peers)
        PROVE  g[n] = IF n = 0 THEN <<>>
                      ELSE IF n \in Kept THEN Append(g[n - 1], peers[n]) ELSE g[n - 1]
    <3>1. CASE n = 0
      BY <2>1, <3>1 DEF Chooses
    <3>2. CASE n # 0
      <4>1. n \in 1 .. Len(peers)
        BY <3>2
      <4> QED BY <2>1, <3>2, <4>1 DEF Chooses
    <3> QED BY <3>1, <3>2
  <2> QED BY <2>2, <2>3
<1>2. f = Prefix(f)
  BY <1>1
<1>3. Swept = f[Len(peers)]
  BY DEF Swept
<1> HIDE DEF f
<1>4. Len(peers) \in Nat
  OBVIOUS
<1>5. Chooses(f, peers, Kept, Len(peers))
  <2>1. f[0] = <<>>
    BY <1>2, <1>4
  <2>2. ASSUME NEW i \in 1 .. Len(peers)
        PROVE  f[i] = IF i \in Kept THEN Append(f[i - 1], peers[i]) ELSE f[i - 1]
    <3>1. i \in 0 .. Len(peers) /\ i # 0
      BY <1>4
    <3>2. f[i] = Prefix(f)[i]
      BY <1>2
    <3>3. Prefix(f)[i] = IF i \in Kept THEN Append(f[i - 1], peers[i]) ELSE f[i - 1]
      BY <3>1
    <3> QED BY <3>2, <3>3
  <2> QED BY <2>1, <2>2 DEF Chooses
<1>6. f \in [0 .. Len(peers) -> Seq(Connection)]
  <2> DEFINE T == {n \in Nat : n <= Len(peers) => f[n] \in Seq(Connection)}
  <2>1. 0 \in T
    <3>1. f[0] = <<>> /\ <<>> \in Seq(Connection)
      BY <1>5 DEF Chooses
    <3> QED BY <3>1
  <2>2. ASSUME NEW n \in Nat, n \in T PROVE n + 1 \in T
    <3> SUFFICES ASSUME n + 1 <= Len(peers) PROVE f[n + 1] \in Seq(Connection)
      OBVIOUS
    <3>1. n <= Len(peers) /\ n + 1 \in 1 .. Len(peers) /\ (n + 1) - 1 = n
      BY <1>4
    <3>2. f[n] \in Seq(Connection) /\ peers[n + 1] \in Connection
      BY <2>2, <3>1
    <3>3. f[n + 1] = IF n + 1 \in Kept THEN Append(f[n], peers[n + 1]) ELSE f[n]
      BY <1>5, <3>1 DEF Chooses
    <3> QED BY <3>2, <3>3
  <2> HIDE DEF T
  <2>3. Nat \subseteq T
    BY <2>1, <2>2, SetInduction
  <2>4. \A n \in 0 .. Len(peers) : f[n] \in Seq(Connection)
    BY <1>4, <2>3 DEF T
  <2> QED BY <1>2, <2>4
<1> QED BY <1>3, <1>4, <1>5, <1>6, ChosenAreNumbered

Places == {"top", "poll", "serve", "receive", "handle", "work", "use", "deliver", "reply", "stopped"}

\* Places at which the loop holds a peer.
Inside == {"receive", "handle", "work", "use", "deliver", "reply"}

Clock == now \in Nat /\ last_request \in 0 .. now

Loop ==
    /\ at \in Places /\ cur \in Nat \ {0} /\ msg \in Messages
    /\ at \in Inside => cur \in 1 .. Len(peers)
    /\ at = "handle" => msg # None
    /\ at = "use" => msg.op = "use"
    /\ ready \subseteq 1 .. Len(Configured) + Capacity + 1

\* The table: what ended is not in it, no entry is the human's, and an entry
\* whose token was used has its connection.
Table ==
    /\ issued \in Nat
    /\ entries \in [DOMAIN entries -> Entry] /\ DOMAIN entries \subseteq 1 .. issued
    /\ ended \subseteq 1 .. issued /\ ended \cap DOMAIN entries = {}
    /\ \A id \in DOMAIN entries :
        /\ entries[id].principal # Admin
        /\ ~entries[id].digest => \E i \in 1 .. Len(peers) : peers[i].session = id

\* A token that was not used never attached.
Tokens ==
    /\ attached \in [1 .. MaxSessions -> Nat]
    /\ \A id \in 1 .. MaxSessions :
        /\ attached[id] <= 1
        /\ id \in DOMAIN entries /\ entries[id].digest => attached[id] = 0
        /\ id \notin 1 .. issued => attached[id] = 0

\* The connections: one for a session, which is not the human's and agrees
\* with the entry as long as there is one.
Connected ==
    /\ peers \in Seq(Connection)
    /\ \A i \in 1 .. Len(peers) : peers[i].session # None =>
        /\ peers[i].session \in 1 .. issued /\ ~peers[i].admin
        /\ \A j \in 1 .. Len(peers) : peers[j].session = peers[i].session => j = i
        /\ peers[i].session \in DOMAIN entries =>
            /\ ~entries[peers[i].session].digest
            /\ entries[peers[i].session].principal = peers[i].principal
            /\ entries[peers[i].session].expires_at = peers[i].until

\* A request that reached the vault is for a task of its session.
Granted ==
    at \in {"work", "use"} /\ P.session # None =>
        P.session \in DOMAIN entries /\ msg.task \in entries[P.session].tasks

\* After the sweep every connection with a session has its entry.
SweptInv == at = "poll" => \A i \in 1 .. Len(peers) :
                peers[i].session # None => peers[i].session \in DOMAIN entries

\* Places of the peers without a session.
Plain == {i \in 1 .. Len(peers) : peers[i].session = None}

Bounds ==
    /\ IsFiniteSet(DOMAIN entries) /\ Cardinality(DOMAIN entries) <= Capacity
    /\ IsFiniteSet(SessionsOf(peers)) /\ Cardinality(SessionsOf(peers)) <= Capacity + 1
    /\ at \notin {"top", "stopped"} => Cardinality(SessionsOf(peers)) <= Capacity
    /\ IsFiniteSet(Plain) /\ Cardinality(Plain) <= Len(Configured) + 1

SessionInv == Clock /\ Loop /\ Table /\ Tokens /\ Connected /\ Granted /\ SweptInv /\ Bounds

-----------------------------------------------------------------------------
(* Steps that leave the table and the sessions of the peers alone.         *)

SamePeers ==
    /\ peers' \in Seq(Connection) /\ Len(peers') = Len(peers)
    /\ \A i \in 1 .. Len(peers) :
        /\ peers'[i].principal = peers[i].principal /\ peers'[i].session = peers[i].session
        /\ peers'[i].until = peers[i].until /\ peers'[i].admin = peers[i].admin

Quiet == SamePeers /\ UNCHANGED <<entries, issued, ended, attached>>

LEMMA ConfiguredLength == Len(Configured) \in Nat /\ Capacity \in Nat \ {0}
BY BrokerAssumption

LEMMA SessionsOfPeers ==
    ASSUME NEW p \in Seq(Connection)
    PROVE  \A id : id \in SessionsOf(p) <=> id # None /\ \E i \in 1 .. Len(p) : p[i].session = id
BY DEF SessionsOf

LEMMA PeersUnchanged ==
    ASSUME peers \in Seq(Connection), UNCHANGED peers
    PROVE  SamePeers
BY DEF SamePeers

LEMMA PeerTouched ==
    ASSUME peers \in Seq(Connection), NEW i \in 1 .. Len(peers), NEW c \in Connection,
           c.principal = peers[i].principal, c.session = peers[i].session,
           c.until = peers[i].until, c.admin = peers[i].admin, peers' = [peers EXCEPT ![i] = c]
    PROVE  SamePeers
<1>1. peers' \in Seq(Connection) /\ Len(peers') = Len(peers) /\ peers'[i] = c
  OBVIOUS
<1>2. \A j \in 1 .. Len(peers) : j # i => peers'[j] = peers[j]
  OBVIOUS
<1> QED BY <1>1, <1>2 DEF SamePeers

LEMMA PeerChanges ==
    ASSUME peers \in Seq(Connection), NEW i \in 1 .. Len(peers)
    PROVE  /\ peers' = [peers EXCEPT ![i].active = FALSE] => SamePeers
           /\ peers' = [peers EXCEPT ![i].open = FALSE] => SamePeers
           /\ \A m \in Messages : peers' = [peers EXCEPT ![i].inbox = m] => SamePeers
<1>1. peers[i] \in Connection
  OBVIOUS
<1>2. ASSUME NEW c, c \in {[peers[i] EXCEPT !.active = FALSE], [peers[i] EXCEPT !.open = FALSE]}
                             \cup {[peers[i] EXCEPT !.inbox = m] : m \in Messages}
      PROVE  /\ c \in Connection /\ c.principal = peers[i].principal /\ c.session = peers[i].session
             /\ c.until = peers[i].until /\ c.admin = peers[i].admin
  BY <1>1, <1>2 DEF Connection
<1> QED BY <1>2, PeerTouched

LEMMA QuietTable ==
    ASSUME Table, Tokens, Connected, Quiet
    PROVE  Table' /\ Tokens' /\ Connected'
<1> USE DEF Quiet, SamePeers
<1>1. Table'
  BY DEF Table
<1>2. Tokens'
  BY DEF Tokens
<1>3. Connected'
  BY DEF Connected
<1> QED BY <1>1, <1>2, <1>3

LEMMA QuietBounds ==
    ASSUME Connected, Bounds, Quiet, at' \notin {"top", "stopped"} => at \notin {"top", "stopped"}
    PROVE  Bounds'
<1> USE DEF Quiet
<1>1. SessionsOf(peers)' = SessionsOf(peers)
  <2>1. peers \in Seq(Connection) /\ peers' \in Seq(Connection)
    BY DEF Connected, SamePeers
  <2>2. \A id : id \in SessionsOf(peers') <=> id \in SessionsOf(peers)
    BY <2>1, SessionsOfPeers DEF SamePeers
  <2> QED BY <2>2
<1>2. Plain' = Plain
  BY DEF Plain, SamePeers
<1> QED BY <1>1, <1>2 DEF Bounds

\* As many peers as there are places for: without a session, and with one.
LEMMA PeersFit ==
    ASSUME Connected, Bounds, at \notin {"top", "stopped"}
    PROVE  Len(peers) <= Len(Configured) + Capacity + 1
<1> DEFINE W == (1 .. Len(peers)) \ Plain
           f == [i \in W |-> peers[i].session]
<1>1. peers \in Seq(Connection) /\ Len(peers) \in Nat
  BY DEF Connected
<1>2. f \in Injection(W, SessionsOf(peers))
  <2>1. \A i \in W : peers[i].session # None /\ peers[i].session \in SessionsOf(peers)
    BY <1>1, SessionsOfPeers DEF Plain
  <2>2. f \in [W -> SessionsOf(peers)]
    BY <2>1
  <2>3. \A i, j \in W : f[i] = f[j] => i = j
    BY <2>1 DEF Connected
  <2> HIDE DEF f, W
  <2> QED BY <2>2, <2>3 DEF Injection, IsInjective
<1>3. IsFiniteSet(W) /\ Cardinality(W) <= Cardinality(SessionsOf(peers))
  BY <1>2, FS_Injection DEF Bounds
<1>4. 1 .. Len(peers) = W \cup Plain /\ W \cap Plain = {}
  BY DEF Plain
<1>5. Cardinality(1 .. Len(peers)) = Len(peers)
  <2> DEFINE n == Len(peers)
  <2>1. n \in Nat
    BY <1>1
  <2> HIDE DEF n
  <2>2. Cardinality(1 .. n) = IF 1 > n THEN 0 ELSE n - 1 + 1
    BY <2>1, FS_Interval
  <2>3. Cardinality(1 .. n) = n
    BY <2>1, <2>2
  <2> QED BY <2>3 DEF n
<1>6. Cardinality(W \cup Plain) = Cardinality(W) + Cardinality(Plain) - Cardinality(W \cap Plain)
  BY <1>3, FS_Union DEF Bounds
<1>7. Cardinality(W \cap Plain) = 0
  BY <1>4, FS_EmptySet
<1>8. Cardinality(W) \in Nat /\ Cardinality(Plain) \in Nat /\ Cardinality(SessionsOf(peers)) \in Nat
  BY <1>3, FS_CardinalityType DEF Bounds
<1>9. Cardinality(SessionsOf(peers)) <= Capacity /\ Cardinality(Plain) <= Len(Configured) + 1
  BY DEF Bounds
<1> DEFINE w == Cardinality(W)
           p == Cardinality(Plain)
           n == Cardinality(SessionsOf(peers))
<1> HIDE DEF W, w, p, n
<1>10. Len(peers) = w + p
  <2>1. Cardinality(W \cup Plain) = Len(peers)
    BY <1>4, <1>5, Zenon
  <2> QED BY <1>6, <1>7, <1>8, <2>1 DEF w, p
<1> QED BY <1>1, <1>3, <1>8, <1>9, <1>10, ConfiguredLength DEF w, p, n

-----------------------------------------------------------------------------
(* The clock and the loop.                                                 *)

LEMMA ClockKept ==
    ASSUME Clock, [Next]_vars
    PROVE  Clock'
<1>1. now' \in {now, now + 1} /\ last_request' \in {last_request, now}
  <2>1. CASE Sweep \/ Poll \/ PollFails \/ PassEnds
    BY <2>1 DEF Sweep, Poll, PollFails, PassEnds, Goto
  <2>2. CASE Serve \/ Receive
    BY <2>2 DEF Serve, Receive, Goto, NextPeer
  <2>3. CASE Handle \/ AdminHandle
    BY <2>3 DEF Handle, AdminHandle, Answer, Goto
  <2>4. CASE Work \/ UsePrepare \/ UseHandoff
    BY <2>4 DEF Work, UsePrepare, UseHandoff, Answer, Goto
  <2>5. CASE Deliver \/ Reply
    BY <2>5 DEF Deliver, Reply, Answer, Goto, NextPeer, loop
  <2>6. CASE Admit
    BY <2>6 DEF Admit, Attach, Goto
  <2>7. CASE Send \/ Close \/ Tick
    BY <2>7 DEF Send, Close, Tick, loop
  <2>8. CASE CurlStep /\ UNCHANGED <<loop, table, peers, effect>>
    BY <2>8 DEF CurlStep, loop
  <2>9. CASE UNCHANGED vars
    BY <2>9 DEF vars, loop
  <2> QED BY <2>1, <2>2, <2>3, <2>4, <2>5, <2>6, <2>7, <2>8, <2>9 DEF Next, OwnerStep
<1> QED BY <1>1 DEF Clock

\* What a step that leaves the sessions alone has to keep besides.
Orderly ==
    /\ Loop'
    /\ at' \notin {"top", "stopped"} => at \notin {"top", "stopped"}
    /\ at' = "poll" => at = "poll"
    /\ at' \in {"work", "use"} =>
        /\ cur' = cur
        /\ P.session # None =>
            P.session \in DOMAIN entries /\ msg'.task \in entries[P.session].tasks

LEMMA QuietPreserves ==
    ASSUME SessionInv, Quiet, Orderly, Clock'
    PROVE  SessionInv'
<1>1. Table' /\ Tokens' /\ Connected'
  BY QuietTable DEF SessionInv
<1>2. Bounds'
  BY QuietBounds DEF SessionInv, Orderly
<1>3. Granted'
  <2> SUFFICES ASSUME at' \in {"work", "use"}, P'.session # None
               PROVE  P'.session \in DOMAIN entries' /\ msg'.task \in entries'[P'.session].tasks
    BY DEF Granted
  <2>1. cur' \in 1 .. Len(peers') /\ cur' = cur
    BY DEF Orderly, Loop, Inside
  <2>2. P'.session = P.session
    BY <2>1 DEF Quiet, SamePeers, P
  <2> QED BY <2>2 DEF Orderly, Quiet
<1>4. SweptInv'
  BY DEF SessionInv, SweptInv, Orderly, Quiet, SamePeers
<1> QED BY <1>1, <1>2, <1>3, <1>4 DEF SessionInv, Orderly

\* Steps of the loop that touch neither the table nor a connection.
LEMMA PassSteps ==
    ASSUME SessionInv, Clock', PollFails \/ PassEnds \/ Handle \/ Work \/ UsePrepare \/ UseHandoff \/ Deliver
    PROVE  SessionInv'
<1> USE DEF SessionInv
<1>1. Quiet /\ UNCHANGED peers
  <2>1. UNCHANGED <<peers, entries, issued, ended, attached>>
    BY DEF PollFails, PassEnds, Handle, Work, UsePrepare, UseHandoff, Deliver, table
  <2> QED BY <2>1, PeersUnchanged DEF Quiet, Connected
<1>2. UNCHANGED <<ready, cur, msg>> /\ at \notin {"top", "stopped"}
  BY DEF PollFails, PassEnds, Handle, Work, UsePrepare, UseHandoff, Deliver, Answer, Goto, loop
<1>3. /\ at' \in Places /\ at' \notin {"top", "poll", "handle"}
      /\ at' \in Inside => at \in Inside
      /\ at' = "use" => msg.op = "use"
  BY DEF PollFails, PassEnds, Handle, Work, UsePrepare, UseHandoff, Deliver, Answer, Goto, loop, Places, Inside
<1>4. Loop'
  BY <1>1, <1>2, <1>3 DEF Loop
<1>5. ASSUME at' \in {"work", "use"}, P.session # None
      PROVE  P.session \in DOMAIN entries /\ msg.task \in entries[P.session].tasks
  <2>1. CASE at \in {"work", "use"}
    BY <1>5, <2>1 DEF Granted
  <2>2. CASE at \notin {"work", "use"}
    <3>1. Handle
      BY <1>5, <2>2 DEF PollFails, PassEnds, Handle, Work, UsePrepare, UseHandoff, Deliver, Answer, Goto, loop
    <3> QED BY <1>5, <3>1 DEF Handle, Answer, Goto, Permits, Live
  <2> QED BY <2>1, <2>2
<1>6. Orderly
  BY <1>2, <1>3, <1>4, <1>5 DEF Orderly
<1> QED BY <1>1, <1>6, QuietPreserves

LEMMA PollPreserves ==
    ASSUME SessionInv, Clock', Poll
    PROVE  SessionInv'
<1> USE DEF SessionInv
<1>1. UNCHANGED <<peers, entries, issued, ended, attached, msg>> /\ at = "poll" /\ at' = "serve" /\ cur' = 1
  BY DEF Poll, table
<1>2. peers \in Seq(Connection)
  BY DEF Connected
<1>3. Quiet
  BY <1>1, <1>2, PeersUnchanged DEF Quiet
<1>4. ready' \subseteq 1 .. Len(Configured) + Capacity + 1
  <2>1. Len(peers) <= Len(Configured) + Capacity + 1
    BY <1>1, PeersFit
  <2>2. ready' \subseteq 1 .. Len(peers)
    BY <1>2 DEF Poll
  <2>3. Len(peers) \in Nat
    BY <1>2
  <2> QED BY <2>1, <2>2, <2>3, ConfiguredLength
<1>5. Loop'
  BY <1>1, <1>4 DEF Loop, Places, Inside
<1> QED BY <1>1, <1>3, <1>5, QuietPreserves DEF Orderly

\* Steps that mark a connection, take a request from it, or fill it.
LEMMA PeerSteps ==
    ASSUME SessionInv, Clock', Serve \/ Receive \/ Reply
    PROVE  SessionInv'
<1> USE DEF SessionInv
<1>1. peers \in Seq(Connection) /\ cur \in Nat \ {0} /\ Len(peers) \in Nat
  BY DEF Connected, Loop
<1>2. cur \in 1 .. Len(peers)
  BY <1>1 DEF Serve, Receive, Reply, Loop, Inside
<1>3. UNCHANGED <<entries, issued, ended, attached, ready>>
  BY DEF Serve, Receive, Reply, table, Goto, NextPeer
<1>4. SamePeers
  <2>1. None \in Messages
    BY DEF Messages
  <2>2. UNCHANGED peers \/ Deactivate \/ peers' = [peers EXCEPT ![cur].inbox = None]
    BY DEF Serve, Receive, Reply
  <2> QED BY <1>1, <1>2, <2>1, <2>2, PeerChanges, PeersUnchanged DEF Deactivate
<1>5. /\ at \notin {"top", "stopped"} /\ at' \in {"serve", "receive", "handle", "stopped"}
      /\ at' \in {"receive", "handle"} => cur' = cur
      /\ cur' \in {cur, cur + 1}
  BY DEF Serve, Receive, Reply, Goto, NextPeer
<1>6. msg' \in Messages /\ (at' = "handle" => msg' # None)
  <2>1. P \in Connection
    BY <1>1, <1>2 DEF P
  <2>2. P.inbox \in Messages /\ None \in Messages
    BY <2>1 DEF Connection, Messages
  <2>3. CASE Serve
    BY <2>2, <2>3 DEF Serve, Goto, NextPeer, Loop
  <2>4. CASE Receive
    BY <2>2, <2>4 DEF Receive, Goto, NextPeer, Loop
  <2>5. CASE Reply
    BY <2>2, <2>5 DEF Reply, Goto, NextPeer, Loop
  <2> QED BY <2>3, <2>4, <2>5
<1>7. Loop'
  <2>1. Len(peers') = Len(peers)
    BY <1>4 DEF SamePeers
  <2>2. cur' \in Nat \ {0}
    BY <1>1, <1>5
  <2> QED BY <1>2, <1>3, <1>5, <1>6, <2>1, <2>2 DEF Loop, Places, Inside
<1> QED BY <1>3, <1>4, <1>5, <1>7, QuietPreserves DEF Quiet, Orderly

\* The clients, curl and the clock.
LEMMA OutsideSteps ==
    ASSUME SessionInv, Clock',
           Send \/ Close \/ Tick \/ (CurlStep /\ UNCHANGED <<loop, table, peers, effect>>) \/ UNCHANGED vars
    PROVE  SessionInv'
<1> USE DEF SessionInv
<1>1. peers \in Seq(Connection)
  BY DEF Connected
<1>2. UNCHANGED <<at, ready, cur, msg, entries, issued, ended, attached>>
  BY DEF Send, Close, Tick, vars, loop, table
<1>3. SamePeers
  <2>1. DOMAIN peers = 1 .. Len(peers)
    BY <1>1
  <2>2. CASE Send
    <3>1. \E i \in 1 .. Len(peers) : \E m \in Messages : peers' = [peers EXCEPT ![i].inbox = m]
      BY <2>1, <2>2 DEF Send, Messages
    <3> QED BY <1>1, <3>1, PeerChanges
  <2>3. CASE Close
    <3>1. \E i \in 1 .. Len(peers) : peers' = [peers EXCEPT ![i].open = FALSE]
      BY <2>1, <2>3 DEF Close
    <3> QED BY <1>1, <3>1, PeerChanges
  <2>4. CASE UNCHANGED peers
    BY <1>1, <2>4, PeersUnchanged
  <2> QED BY <2>2, <2>3, <2>4 DEF Tick, vars
<1>4. Len(peers') = Len(peers)
  BY <1>3 DEF SamePeers
<1>5. Loop'
  BY <1>2, <1>4 DEF Loop
<1> QED BY <1>2, <1>3, <1>5, QuietPreserves DEF Quiet, Orderly, Granted

-----------------------------------------------------------------------------
(* Steps that change the table.                                            *)

\* Entries leave the table while the connections stay.
LEMMA EntriesLeave ==
    ASSUME SessionInv, NEW ids, entries' = Without(entries, ids), UNCHANGED <<peers, issued>>,
           ended' \in {ended, ended \cup (ids \cap 1 .. issued)}
    PROVE  /\ Table' /\ Connected' /\ DOMAIN entries' \subseteq DOMAIN entries
           /\ IsFiniteSet(DOMAIN entries') /\ Cardinality(DOMAIN entries') <= Cardinality(DOMAIN entries)
<1> USE DEF SessionInv
<1>1. /\ DOMAIN entries' = DOMAIN entries \ ids
      /\ \A id \in DOMAIN entries' : entries'[id] = entries[id]
      /\ entries' = [id \in DOMAIN entries' |-> entries'[id]]
  BY DEF Without
<1>2. entries' \in [DOMAIN entries' -> Entry]
  BY <1>1 DEF Table
<1>3. Table'
  BY <1>1, <1>2 DEF Table
<1>4. Connected'
  BY <1>1 DEF Connected
<1>5. DOMAIN entries' \in SUBSET DOMAIN entries
  BY <1>1
<1> QED BY <1>3, <1>4, <1>5, FS_Subset DEF Bounds

\* Nothing but the table changed, and it did not grow beyond its capacity.
LEMMA TablePreserves ==
    ASSUME SessionInv, Clock', at = "handle", Answer, UNCHANGED <<peers, attached>>,
           Table', Tokens', Connected',
           IsFiniteSet(DOMAIN entries'), Cardinality(DOMAIN entries') <= Capacity
    PROVE  SessionInv'
<1>1. Loop' /\ at' = "reply"
  BY DEF SessionInv, Answer, Goto, Loop, Places, Inside
<1>2. Granted' /\ SweptInv'
  BY <1>1 DEF Granted, SweptInv
<1>3. SessionsOf(peers)' = SessionsOf(peers) /\ Plain' = Plain
  BY DEF SessionsOf, Plain
<1>4. Bounds'
  BY <1>1, <1>3 DEF SessionInv, Bounds
<1> QED BY <1>1, <1>2, <1>4 DEF SessionInv

LEMMA RevokePreserves ==
    ASSUME SessionInv, Clock', at = "handle", Answer, UNCHANGED <<peers, attached, issued>>,
           NEW ids, Revoke(ids)
    PROVE  SessionInv'
<1>1. /\ Table' /\ Connected' /\ DOMAIN entries' \subseteq DOMAIN entries
      /\ IsFiniteSet(DOMAIN entries') /\ Cardinality(DOMAIN entries') <= Cardinality(DOMAIN entries)
  BY EntriesLeave DEF Revoke
<1>2. \A id \in DOMAIN entries' : entries'[id] = entries[id]
  BY DEF Revoke, Without
<1>3. Tokens'
  BY <1>1, <1>2 DEF SessionInv, Tokens
<1>4. Cardinality(DOMAIN entries') <= Capacity
  BY <1>1, FS_CardinalityType, ConfiguredLength DEF SessionInv, Bounds
<1> QED BY <1>1, <1>3, <1>4, TablePreserves

LEMMA IssuePreserves ==
    ASSUME SessionInv, Clock', at = "handle", Answer, UNCHANGED <<peers, attached, ended>>,
           msg.op = "issue", Issue(msg)
    PROVE  SessionInv'
<1> DEFINE gone == {id \in DOMAIN entries : entries[id].expires_at <= now}
<1>1. Unexpired = Without(entries, gone) /\ DOMAIN Unexpired \subseteq DOMAIN entries
  BY DEF Unexpired, Without
<1>2. CASE ~(Issuable(msg) /\ Room)
  <2>1. entries' = Without(entries, gone) /\ UNCHANGED issued
    BY <1>1, <1>2 DEF Issue
  <2> HIDE DEF gone
  <2>2. /\ Table' /\ Connected' /\ DOMAIN entries' \subseteq DOMAIN entries
        /\ IsFiniteSet(DOMAIN entries') /\ Cardinality(DOMAIN entries') <= Cardinality(DOMAIN entries)
    BY <2>1, EntriesLeave
  <2>3. \A id \in DOMAIN entries' : entries'[id] = entries[id]
    BY <2>1 DEF Without
  <2>4. Tokens'
    BY <2>1, <2>2, <2>3 DEF SessionInv, Tokens
  <2>5. Cardinality(DOMAIN entries') <= Capacity
    BY <2>2, FS_CardinalityType, ConfiguredLength DEF SessionInv, Bounds
  <2> QED BY <2>2, <2>4, <2>5, TablePreserves
<1>3. CASE Issuable(msg) /\ Room
  <2> USE DEF SessionInv
  <2> HIDE DEF gone
  <2> DEFINE new == [digest |-> TRUE, principal |-> msg.principal, tasks |-> msg.tasks,
                     expires_at |-> msg.expires_at]
  <2>1. issued' = issued + 1 /\ issued \in Nat /\ issued + 1 \notin 1 .. issued
    BY <1>3 DEF Issue, Table
  <2>2. /\ DOMAIN entries' = DOMAIN Unexpired \cup {issued + 1}
        /\ entries'[issued + 1] = new
        /\ \A id \in DOMAIN Unexpired : id # issued + 1 => entries'[id] = entries[id]
        /\ entries' = [id \in DOMAIN entries' |-> entries'[id]]
    BY <1>3 DEF Issue
  <2>3. new \in Entry /\ new.principal # Admin /\ new.digest
    <3>1. msg \in AdminMessages \cup AgentMessages
      BY DEF Loop, Messages
    <3>2. msg.expires_at \in Nat
      BY <3>1, BrokerAssumption
    <3>3. msg.tasks \in SUBSET Tasks /\ msg.principal \in Principals /\ msg.principal # Admin
      <4>1. PICK t \in msg.tasks : t \in Tasks /\ TaskOf[t] = msg.principal
        BY <1>3 DEF Issuable, TasksValid
      <4> QED BY <1>3, <4>1 DEF Issuable, TasksValid, Principals
    <3> QED BY <3>2, <3>3 DEF Entry
  <2> HIDE DEF new
  <2>4. DOMAIN Unexpired \subseteq DOMAIN entries /\ issued + 1 \notin DOMAIN entries
    BY <1>1, <2>1 DEF Table
  <2>5. \A id \in DOMAIN entries' : id = issued + 1 \/ (id \in DOMAIN entries /\ entries'[id] = entries[id])
    BY <2>2, <2>4
  <2>6. Table'
    <3>1. entries' \in [DOMAIN entries' -> Entry]
      BY <2>2, <2>3, <2>5 DEF Table
    <3>2. DOMAIN entries' \subseteq 1 .. issued' /\ issued' \in Nat
      BY <2>1, <2>5 DEF Table
    <3>3. ended' \subseteq 1 .. issued' /\ ended' \cap DOMAIN entries' = {}
      BY <2>1, <2>5 DEF Table
    <3>4. ASSUME NEW id \in DOMAIN entries'
          PROVE  /\ entries'[id].principal # Admin
                 /\ ~entries'[id].digest => \E i \in 1 .. Len(peers') : peers'[i].session = id
      BY <2>2, <2>3, <2>5 DEF Table
    <3> QED BY <3>1, <3>2, <3>3, <3>4 DEF Table
  <2>7. Connected'
    <3>1. \A i \in 1 .. Len(peers) : peers[i].session # None => peers[i].session # issued + 1
      BY <2>1 DEF Connected
    <3>2. \A i \in 1 .. Len(peers) : peers[i].session # None => peers[i].session \in 1 .. issued'
      BY <2>1 DEF Connected
    <3> QED BY <2>5, <3>1, <3>2 DEF Connected
  <2>8. Tokens'
    <3>1. \A id \in 1 .. MaxSessions : id \notin 1 .. issued' => id \notin 1 .. issued
      BY <2>1
    <3> QED BY <2>1, <2>5, <3>1 DEF Tokens
  <2>9. IsFiniteSet(DOMAIN entries') /\ Cardinality(DOMAIN entries') <= Capacity
    <3>1. IsFiniteSet(DOMAIN Unexpired)
      BY <2>4, FS_Subset DEF Bounds
    <3>2. /\ IsFiniteSet(DOMAIN Unexpired \cup {issued + 1})
          /\ Cardinality(DOMAIN Unexpired \cup {issued + 1}) = Cardinality(DOMAIN Unexpired) + 1
      BY <2>4, <3>1, FS_AddElement
    <3>3. Cardinality(DOMAIN Unexpired) \in Nat /\ Cardinality(DOMAIN Unexpired) < Capacity
      BY <1>3, <3>1, FS_CardinalityType DEF Room
    <3>4. Cardinality(DOMAIN Unexpired) + 1 <= Capacity
      BY <3>3, ConfiguredLength
    <3> QED BY <2>2, <3>2, <3>4
  <2> QED BY <2>6, <2>7, <2>8, <2>9, TablePreserves
<1> QED BY <1>2, <1>3

LEMMA AdminPreserves ==
    ASSUME SessionInv, Clock', AdminHandle
    PROVE  SessionInv'
<1>1. at = "handle" /\ P.admin /\ UNCHANGED <<attached, peers>>
  BY DEF AdminHandle
<1>2. CASE msg.op = "issue" /\ Issue(msg) /\ Answer /\ UNCHANGED <<ended, revoked>>
  BY <1>1, <1>2, IssuePreserves
<1>3. CASE msg.op = "revoke_session" /\ Revoke({msg.session}) /\ Answer /\ UNCHANGED <<issued, revoked>>
  BY <1>1, <1>3, RevokePreserves
<1>4. CASE UNCHANGED <<entries, issued, ended>> /\ (Goto("work") \/ Answer \/ (at' = "reply" /\ UNCHANGED <<ready, cur, msg>>))
  <2> USE DEF SessionInv
  <2>1. Quiet
    BY <1>1, <1>4, PeersUnchanged DEF Quiet, Connected
  <2>2. UNCHANGED <<ready, cur, msg>> /\ at' \in {"work", "reply"}
    BY <1>4 DEF Answer, Goto
  <2>3. Loop'
    BY <1>1, <2>2 DEF Loop, Places, Inside
  <2>4. P.session = None
    BY <1>1 DEF Connected, Loop, Inside, P
  <2> QED BY <1>1, <2>1, <2>2, <2>3, <2>4, QuietPreserves DEF Orderly
<1> QED BY <1>2, <1>3, <1>4 DEF AdminHandle

-----------------------------------------------------------------------------
(* Steps that add or drop connections.                                     *)

LEMMA SweepPreserves ==
    ASSUME SessionInv, Clock', Sweep, Serving
    PROVE  SessionInv'
<1> USE DEF SessionInv
<1>1. /\ at' = "poll" /\ UNCHANGED <<ready, cur, msg, issued, attached>>
      /\ peers' = Swept /\ Revoke(Released)
  BY DEF Sweep, Goto
<1>2. peers \in Seq(Connection) /\ peers' \in Seq(Connection) /\ Len(peers') \in Nat
  BY <1>1, SweptAreKept DEF Connected
<1>3. PICK h : Numbers(h, peers', peers, Kept, Len(peers))
  BY <1>1, SweptAreKept DEF Connected
<1>4. /\ \A k \in 1 .. Len(peers') : h[k] \in Kept /\ h[k] \in 1 .. Len(peers) /\ peers'[k] = peers[h[k]]
      /\ \A k, l \in 1 .. Len(peers') : h[k] = h[l] => k = l
  BY <1>3 DEF Numbers
<1> DEFINE old == SessionsOf(peers)
           kept == SessionsOf(peers')
<1>5. /\ \A id : id \in old <=> id # None /\ \E i \in 1 .. Len(peers) : peers[i].session = id
      /\ \A id : id \in kept <=> id # None /\ \E i \in 1 .. Len(peers') : peers'[i].session = id
  BY <1>2, SessionsOfPeers
<1> HIDE DEF old, kept
<1>6. /\ DOMAIN entries' = DOMAIN entries \ (old \ kept)
      /\ \A id \in DOMAIN entries' : entries'[id] = entries[id]
      /\ entries' = [id \in DOMAIN entries' |-> entries'[id]]
      /\ ended' = ended \cup ((old \ kept) \cap 1 .. issued)
  BY <1>1 DEF Revoke, Without, Released, old, kept
<1>7. kept \subseteq DOMAIN entries' /\ kept \subseteq old
  <2> SUFFICES ASSUME NEW id \in kept PROVE id \in DOMAIN entries /\ id \in old
    BY <1>6
  <2>1. PICK k \in 1 .. Len(peers') : peers'[k].session = id /\ id # None
    BY <1>5
  <2>2. h[k] \in Kept /\ h[k] \in 1 .. Len(peers) /\ peers[h[k]].session = id
    BY <1>4, <2>1
  <2> QED BY <1>5, <2>1, <2>2 DEF Kept, Live
<1>8. Loop'
  BY <1>1 DEF Loop, Sweep, Places, Inside
<1>9. Table'
  <2>1. entries' \in [DOMAIN entries' -> Entry] /\ DOMAIN entries' \subseteq 1 .. issued'
    BY <1>1, <1>6 DEF Table
  <2>2. ended' \subseteq 1 .. issued' /\ ended' \cap DOMAIN entries' = {}
    BY <1>1, <1>6 DEF Table
  <2>3. ASSUME NEW id \in DOMAIN entries', ~entries'[id].digest
        PROVE  \E i \in 1 .. Len(peers') : peers'[i].session = id
    <3>1. id \in DOMAIN entries /\ id \in 1 .. issued /\ ~entries[id].digest
      BY <1>6, <2>3 DEF Table
    <3>2. id # None
      BY <3>1, BrokerAssumption DEF Table
    <3>3. id \in old
      BY <1>5, <3>1, <3>2 DEF Table
    <3>4. id \in kept
      BY <1>6, <3>3
    <3> QED BY <1>5, <3>4
  <2>4. \A id \in DOMAIN entries' : entries'[id].principal # Admin
    BY <1>6 DEF Table
  <2> QED BY <1>1, <2>1, <2>2, <2>3, <2>4 DEF Table
<1>10. Tokens'
  BY <1>1, <1>6 DEF Tokens
<1>11. Connected'
  <2> SUFFICES ASSUME NEW k \in 1 .. Len(peers'), peers'[k].session # None
      PROVE  /\ peers'[k].session \in 1 .. issued' /\ ~peers'[k].admin
             /\ \A l \in 1 .. Len(peers') : peers'[l].session = peers'[k].session => l = k
             /\ peers'[k].session \in DOMAIN entries' =>
                 /\ ~entries'[peers'[k].session].digest
                 /\ entries'[peers'[k].session].principal = peers'[k].principal
                 /\ entries'[peers'[k].session].expires_at = peers'[k].until
    BY <1>2 DEF Connected
  <2>1. h[k] \in 1 .. Len(peers) /\ peers'[k] = peers[h[k]]
    BY <1>4
  <2>2. \A l \in 1 .. Len(peers') : peers'[l].session = peers'[k].session => h[l] = h[k]
    BY <1>4, <2>1, SMTT(30) DEF Connected
  <2>3. \A l \in 1 .. Len(peers') : peers'[l].session = peers'[k].session => l = k
    BY <1>4, <2>2
  <2> QED BY <1>1, <1>6, <2>1, <2>3 DEF Connected
<1>12. Granted' /\ SweptInv'
  BY <1>1, <1>5, <1>7 DEF Granted, SweptInv
<1>13. Bounds'
  <2>1. IsFiniteSet(DOMAIN entries') /\ Cardinality(DOMAIN entries') <= Cardinality(DOMAIN entries)
    <3>1. DOMAIN entries' \in SUBSET DOMAIN entries
      BY <1>6
    <3> QED BY <3>1, FS_Subset DEF Bounds
  <2>2. IsFiniteSet(kept) /\ Cardinality(kept) <= Cardinality(DOMAIN entries')
    BY <1>7, <2>1, FS_Subset
  <2>3. Cardinality(DOMAIN entries') <= Capacity /\ Cardinality(kept) <= Capacity /\ Cardinality(kept) <= Capacity + 1
    BY <2>1, <2>2, FS_CardinalityType, ConfiguredLength DEF Bounds
  <2> DEFINE Plains == {i \in 1 .. Len(peers') : peers'[i].session = None}
             f == [k \in Plains |-> h[k]]
  <2>4. f \in Injection(Plains, Plain)
    <3>1. f \in [Plains -> Plain]
      BY <1>4 DEF Plain
    <3>2. \A k, l \in Plains : f[k] = f[l] => k = l
      BY <1>4
    <3> HIDE DEF f, Plains
    <3> QED BY <3>1, <3>2 DEF Injection, IsInjective
  <2> HIDE DEF f
  <2>5. IsFiniteSet(Plains) /\ Cardinality(Plains) <= Cardinality(Plain)
    BY <2>4, FS_Injection DEF Bounds
  <2>6. Plain' = Plains
    BY DEF Plain
  <2> HIDE DEF Plains
  <2>7. Cardinality(Plains) <= Len(Configured) + 1
    BY <2>5, FS_CardinalityType, ConfiguredLength DEF Bounds
  <2> QED BY <2>1, <2>2, <2>3, <2>5, <2>6, <2>7 DEF Bounds, kept
<1> QED BY <1>8, <1>9, <1>10, <1>11, <1>12, <1>13

LEMMA StopPreserves ==
    ASSUME SessionInv, Clock', Sweep, ~Serving
    PROVE  SessionInv'
<1> USE DEF SessionInv
<1>1. UNCHANGED <<peers, entries, ended, issued, attached, ready, cur, msg>> /\ at' = "stopped"
  BY DEF Sweep, Goto
<1>2. Quiet
  BY <1>1, PeersUnchanged DEF Quiet, Connected
<1>3. Loop'
  BY <1>1 DEF Loop, Places, Inside
<1> QED BY <1>1, <1>2, <1>3, QuietPreserves DEF Orderly

\* The pass that ends without a new connection.
LEMMA PassOverPreserves ==
    ASSUME SessionInv, Clock', UNCHANGED <<peers, entries, issued, ended, attached>>,
           NextPass \/ Goto("stopped")
    PROVE  SessionInv'
<1> USE DEF SessionInv
<1>1. Quiet
  BY PeersUnchanged DEF Quiet, Connected
<1>2. at' \in {"top", "stopped"} /\ UNCHANGED msg /\ (cur' = 1 \/ cur' = cur) /\ (ready' = {} \/ ready' = ready)
  BY DEF NextPass, Goto
<1>3. Loop'
  <2>1. cur' \in Nat \ {0}
    BY <1>2 DEF Loop
  <2>2. ready' \subseteq 1 .. Len(Configured) + Capacity + 1
    BY <1>2 DEF Loop
  <2> QED BY <1>2, <2>1, <2>2 DEF Loop, Places, Inside
<1> QED BY <1>1, <1>2, <1>3, QuietPreserves DEF Orderly

\* The facts both ends of an attachment share.
LEMMA TokenUsed ==
    ASSUME SessionInv, NEW id \in 1 .. issued, Attachable(id), attached' = [attached EXCEPT ![id] = @ + 1],
           UNCHANGED issued, DOMAIN entries' \subseteq DOMAIN entries,
           \A d \in DOMAIN entries' : entries'[d].digest => d # id /\ entries[d].digest
    PROVE  Tokens'
<1> USE DEF SessionInv
<1>1. attached \in [1 .. MaxSessions -> Nat] /\ attached' \in [1 .. MaxSessions -> Nat]
  <2>1. attached \in [1 .. MaxSessions -> Nat]
    BY DEF Tokens
  <2>2. CASE id \in 1 .. MaxSessions
    <3>1. attached[id] + 1 \in Nat
      BY <2>1, <2>2
    <3> QED BY <2>1, <3>1
  <2>3. CASE id \notin 1 .. MaxSessions
    BY <2>1, <2>3
  <2> QED BY <2>2, <2>3
<1>2. ASSUME NEW d \in 1 .. MaxSessions
      PROVE  /\ attached'[d] <= 1
             /\ d \in DOMAIN entries' /\ entries'[d].digest => attached'[d] = 0
             /\ d \notin 1 .. issued' => attached'[d] = 0
  <2>1. CASE d = id
    <3>1. attached[d] = 0 /\ attached'[d] = 1
      BY <1>1, <2>1 DEF Tokens, Attachable
    <3> QED BY <2>1, <3>1
  <2>2. CASE d # id
    <3>1. attached'[d] = attached[d]
      BY <1>1, <2>2
    <3> QED BY <3>1 DEF Tokens
  <2> QED BY <2>1, <2>2
<1> QED BY <1>1, <1>2 DEF Tokens

\* The acknowledgement is lost: the session is revoked.
LEMMA LostAttachPreserves ==
    ASSUME SessionInv, Clock', NEW id \in 1 .. issued, Attachable(id),
           attached' = [attached EXCEPT ![id] = @ + 1], Revoke({id}), UNCHANGED <<peers, issued>>, NextPass
    PROVE  SessionInv'
<1>1. /\ Table' /\ Connected' /\ DOMAIN entries' \subseteq DOMAIN entries
      /\ IsFiniteSet(DOMAIN entries') /\ Cardinality(DOMAIN entries') <= Cardinality(DOMAIN entries)
  BY EntriesLeave DEF Revoke
<1>2. \A d \in DOMAIN entries' : d # id /\ entries'[d] = entries[d]
  BY DEF Revoke, Without
<1>3. Tokens'
  BY <1>1, <1>2, TokenUsed
<1> USE DEF SessionInv
<1>4. Loop' /\ at' = "top"
  BY DEF NextPass, Loop, Places, Inside
<1>5. Granted' /\ SweptInv'
  BY <1>4 DEF Granted, SweptInv
<1>6. SessionsOf(peers)' = SessionsOf(peers) /\ Plain' = Plain
  BY DEF SessionsOf, Plain
<1>7. Cardinality(DOMAIN entries') <= Capacity
  BY <1>1, FS_CardinalityType, ConfiguredLength DEF Bounds
<1>8. Bounds'
  BY <1>1, <1>4, <1>6, <1>7 DEF Bounds
<1> QED BY <1>1, <1>3, <1>4, <1>5, <1>8

\* The connection joins the peers.
LEMMA AttachPreserves ==
    ASSUME SessionInv, Clock', at = "serve", NEW id \in 1 .. issued, Attachable(id),
           attached' = [attached EXCEPT ![id] = @ + 1], entries' = Consumed(id),
           peers' = Append(peers, Peer(entries[id].principal, id, entries[id].expires_at)),
           UNCHANGED <<ended, issued>>, NextPass
    PROVE  SessionInv'
<1> USE DEF SessionInv
<1> DEFINE c == Peer(entries[id].principal, id, entries[id].expires_at)
           n == Len(peers) + 1
<1>1. /\ id \in Nat /\ id # None /\ id \in DOMAIN entries /\ entries[id] \in Entry /\ entries[id].digest
      /\ entries[id].principal # Admin
  BY BrokerAssumption DEF Table, Attachable
<1>2. /\ c \in Connection /\ c.session = id /\ c.principal = entries[id].principal
      /\ c.until = entries[id].expires_at /\ ~c.admin
  <2>1. None \in Messages
    BY DEF Messages
  <2> QED BY <1>1, <2>1 DEF Peer, Connection, Entry
<1> HIDE DEF c
<1>3. peers \in Seq(Connection) /\ Len(peers) \in Nat /\ peers' = Append(peers, c)
  BY DEF Connected, c
<1>4. /\ peers' \in Seq(Connection) /\ Len(peers') = n /\ peers'[n] = c
      /\ \A i \in 1 .. Len(peers) : peers'[i] = peers[i]
      /\ \A i \in 1 .. n : i = n \/ i \in 1 .. Len(peers)
      /\ n \in 1 .. n /\ n \notin 1 .. Len(peers) /\ \A i \in 1 .. Len(peers) : i \in 1 .. n
  BY <1>2, <1>3
<1> HIDE DEF n
<1>5. /\ DOMAIN entries' = DOMAIN entries /\ entries' \in [DOMAIN entries -> Entry]
      /\ entries'[id] = [entries[id] EXCEPT !.digest = FALSE]
      /\ \A d \in DOMAIN entries : d # id => entries'[d] = entries[d]
  <2>1. [entries[id] EXCEPT !.digest = FALSE] \in Entry
    BY <1>1 DEF Entry
  <2> QED BY <1>1, <2>1 DEF Consumed, Table
<1>6. /\ ~entries'[id].digest /\ entries'[id].principal = entries[id].principal
      /\ entries'[id].expires_at = entries[id].expires_at
  BY <1>1, <1>5 DEF Entry
<1>7. \A i \in 1 .. Len(peers) : peers[i].session # id
  BY <1>1 DEF Connected
<1>8. Loop' /\ at' = "top"
  BY DEF NextPass, Loop, Places, Inside
<1>9. Table'
  <2>1. ASSUME NEW d \in DOMAIN entries'
        PROVE  /\ entries'[d].principal # Admin
               /\ ~entries'[d].digest => \E i \in 1 .. Len(peers') : peers'[i].session = d
    <3>1. CASE d = id
      BY <1>1, <1>2, <1>4, <1>6, <3>1
    <3>2. CASE d # id
      BY <1>4, <1>5, <3>2 DEF Table
    <3> QED BY <3>1, <3>2
  <2> QED BY <1>5, <2>1 DEF Table
<1>10. Tokens'
  BY <1>5, <1>6, TokenUsed
<1>11. Connected'
  <2>1. ASSUME NEW i \in 1 .. n, peers'[i].session # None
        PROVE  /\ peers'[i].session \in 1 .. issued' /\ ~peers'[i].admin
               /\ \A j \in 1 .. n : peers'[j].session = peers'[i].session => j = i
               /\ peers'[i].session \in DOMAIN entries' =>
                   /\ ~entries'[peers'[i].session].digest
                   /\ entries'[peers'[i].session].principal = peers'[i].principal
                   /\ entries'[peers'[i].session].expires_at = peers'[i].until
    <3>1. CASE i = n
      BY <1>2, <1>4, <1>6, <1>7, <3>1
    <3>2. CASE i # n
      <4>1. i \in 1 .. Len(peers) /\ peers'[i] = peers[i] /\ peers[i].session # id
        BY <1>4, <1>7, <3>2
      <4>2. \A j \in 1 .. n : peers'[j].session = peers'[i].session => j = i
        BY <1>2, <1>4, <2>1, <4>1 DEF Connected
      <4>3. peers[i].session \in 1 .. issued /\ ~peers[i].admin
        BY <2>1, <4>1 DEF Connected
      <4>4. ASSUME peers'[i].session \in DOMAIN entries'
            PROVE  /\ ~entries'[peers'[i].session].digest
                   /\ entries'[peers'[i].session].principal = peers'[i].principal
                   /\ entries'[peers'[i].session].expires_at = peers'[i].until
        <5>1. entries'[peers[i].session] = entries[peers[i].session] /\ peers[i].session \in DOMAIN entries
          BY <1>5, <4>1, <4>4
        <5> QED BY <2>1, <4>1, <5>1 DEF Connected
      <4> QED BY <4>1, <4>2, <4>3, <4>4
    <3> QED BY <3>1, <3>2
  <2> QED BY <1>4, <2>1 DEF Connected
<1>12. Granted' /\ SweptInv'
  BY <1>8 DEF Granted, SweptInv
<1>13. Bounds'
  <2>1. SessionsOf(peers') = SessionsOf(peers) \cup {id}
    <3>1. \A d : d \in SessionsOf(peers) <=> d # None /\ \E i \in 1 .. Len(peers) : peers[i].session = d
      BY <1>3, SessionsOfPeers
    <3>2. \A d : d \in SessionsOf(peers') <=> d # None /\ \E i \in 1 .. n : peers'[i].session = d
      BY <1>4, SessionsOfPeers
    <3>3. ASSUME NEW d, d \in SessionsOf(peers') PROVE d \in SessionsOf(peers) \cup {id}
      BY <1>2, <1>4, <3>1, <3>2, <3>3
    <3>4. ASSUME NEW d, d \in SessionsOf(peers) \cup {id} PROVE d \in SessionsOf(peers')
      BY <1>1, <1>2, <1>4, <3>1, <3>2, <3>4
    <3> QED BY <3>3, <3>4
  <2>2. /\ IsFiniteSet(SessionsOf(peers'))
        /\ Cardinality(SessionsOf(peers')) <= Cardinality(SessionsOf(peers)) + 1
    <3>1. IsFiniteSet(SessionsOf(peers)) /\ Cardinality(SessionsOf(peers)) \in Nat
      BY FS_CardinalityType DEF Bounds
    <3>2. /\ IsFiniteSet(SessionsOf(peers) \cup {id})
          /\ Cardinality(SessionsOf(peers) \cup {id})
                \in {Cardinality(SessionsOf(peers)), Cardinality(SessionsOf(peers)) + 1}
      BY <3>1, FS_AddElement
    <3>3. /\ IsFiniteSet(SessionsOf(peers'))
          /\ Cardinality(SessionsOf(peers'))
                \in {Cardinality(SessionsOf(peers)), Cardinality(SessionsOf(peers)) + 1}
      BY <2>1, <3>2, Zenon
    <3> QED BY <3>1, <3>3
  <2>3. Cardinality(SessionsOf(peers')) <= Capacity + 1
    <3>1. Cardinality(SessionsOf(peers)) \in Nat /\ Cardinality(SessionsOf(peers')) \in Nat
      BY <2>2, FS_CardinalityType DEF Bounds
    <3> QED BY <2>2, <3>1, ConfiguredLength DEF Bounds
  <2>4. Plain' = Plain
    BY <1>1, <1>2, <1>4 DEF Plain
  <2> QED BY <1>5, <1>8, <2>2, <2>3, <2>4 DEF Bounds
<1> QED BY <1>8, <1>9, <1>10, <1>11, <1>12, <1>13

LEMMA AdmitPreserves ==
    ASSUME SessionInv, Clock', Admit
    PROVE  SessionInv'
<1>1. at = "serve" /\ UNCHANGED issued
  BY DEF Admit
<1>2. CASE UNCHANGED <<entries, ended, attached, peers>> /\ (NextPass \/ Goto("stopped"))
  BY <1>1, <1>2, PassOverPreserves
<1>3. CASE (\E id \in 1 .. issued : Attachable(id) /\ Attach(id)) /\ NextPass
  <2>1. PICK id \in 1 .. issued : Attachable(id) /\ Attach(id)
    BY <1>3
  <2>2. attached' = [attached EXCEPT ![id] = @ + 1]
    BY <2>1 DEF Attach
  <2>3. CASE Revoke({id}) /\ UNCHANGED <<peers, last_request>>
    BY <1>1, <1>3, <2>1, <2>2, <2>3, LostAttachPreserves
  <2>4. CASE /\ entries' = Consumed(id)
             /\ peers' = Append(peers, Peer(entries[id].principal, id, entries[id].expires_at))
             /\ last_request' = now /\ UNCHANGED ended
    BY <1>1, <1>3, <2>1, <2>2, <2>4, AttachPreserves
  <2> QED BY <2>1, <2>3, <2>4 DEF Attach
<1> QED BY <1>2, <1>3 DEF Admit

LEMMA SessionPreserved ==
    ASSUME SessionInv, [Next]_vars
    PROVE  SessionInv'
<1>1. Clock'
  BY ClockKept DEF SessionInv
<1> QED BY <1>1, PassSteps, PollPreserves, PeerSteps, OutsideSteps, AdminPreserves, SweepPreserves,
        StopPreserves, AdmitPreserves DEF Next, OwnerStep

LEMMA Joined ==
    ASSUME NEW S, NEW s \in Seq(S), NEW t \in Seq(S)
    PROVE  /\ s \o t \in Seq(S) /\ Len(s \o t) = Len(s) + Len(t)
           /\ \A i \in 1 .. Len(s) : (s \o t)[i] = s[i]
           /\ \A i \in 1 .. Len(t) : (s \o t)[Len(s) + i] = t[i]
OBVIOUS

LEMMA SessionInitially ==
    ASSUME Init
    PROVE  SessionInv
<1> DEFINE first == <<Peer(Admin, None, None)>>
           rest == [i \in 1 .. Len(Configured) |-> Peer(Configured[i], None, None)]
           n == Len(Configured) + 1
<1>1. /\ now = 0 /\ at = "top" /\ ready = {} /\ cur = 1 /\ msg = None /\ last_request = 0
      /\ peers = first \o rest /\ entries = <<>> /\ issued = 0 /\ ended = {}
      /\ attached = [id \in 1 .. MaxSessions |-> 0]
  BY DEF Init
<1>2. /\ Len(Configured) \in Nat /\ DOMAIN Configured = 1 .. Len(Configured)
  BY BrokerAssumption
<1>3. \A p \in Principals : Peer(p, None, None) \in Connection /\ Peer(p, None, None).session = None
  <2>1. None \in Messages
    BY DEF Messages
  <2> QED BY <2>1 DEF Peer, Connection
<1>4. first \in Seq(Connection) /\ Len(first) = 1 /\ first[1].session = None
  <2>1. Admin \in Principals
    BY DEF Principals
  <2> QED BY <1>3, <2>1
<1>5. /\ rest \in Seq(Connection) /\ Len(rest) = Len(Configured)
      /\ \A i \in 1 .. Len(Configured) : rest[i].session = None
  <2>1. \A i \in 1 .. Len(Configured) : Configured[i] \in Principals
    BY <1>2 DEF Principals
  <2> QED BY <1>2, <1>3, <2>1
<1> HIDE DEF first, rest
<1>6. /\ peers \in Seq(Connection) /\ Len(peers) = n
      /\ \A i \in 1 .. n : peers[i].session = None
  <2>0. /\ peers \in Seq(Connection) /\ Len(peers) = Len(first) + Len(rest)
        /\ \A i \in 1 .. Len(first) : peers[i] = first[i]
        /\ \A i \in 1 .. Len(rest) : peers[Len(first) + i] = rest[i]
    <3>1. first \in Seq(Connection) /\ rest \in Seq(Connection) /\ peers = first \o rest
      BY <1>1, <1>4, <1>5
    <3> QED BY <3>1, Joined
  <2>1. peers \in Seq(Connection) /\ Len(peers) = n
    BY <1>2, <1>4, <1>5, <2>0
  <2>2. ASSUME NEW i \in 1 .. n PROVE peers[i].session = None
    <3>1. CASE i = 1
      <4>1. peers[i] = first[1]
        BY <1>4, <2>0, <3>1
      <4> QED BY <1>4, <4>1
    <3>2. CASE i # 1
      <4>1. i - 1 \in 1 .. Len(Configured) /\ 1 + (i - 1) = i
        BY <1>2, <3>2
      <4>2. peers[1 + (i - 1)] = rest[i - 1]
        BY <1>4, <1>5, <2>0, <4>1
      <4> QED BY <1>5, <4>1, <4>2
    <3> QED BY <3>1, <3>2
  <2> QED BY <2>1, <2>2
<1>7. Clock
  BY <1>1 DEF Clock
<1>8. Loop
  <2>1. None \in Messages
    BY DEF Messages
  <2> QED BY <1>1, <2>1 DEF Loop, Places, Inside
<1>9. DOMAIN entries = {}
  BY <1>1
<1>10. Table
  <2>1. entries \in [DOMAIN entries -> Entry]
    BY <1>1
  <2> QED BY <1>1, <1>9, <2>1 DEF Table
<1>11. Tokens
  BY <1>1 DEF Tokens
<1>12. Connected
  BY <1>6 DEF Connected
<1>13. Granted /\ SweptInv
  BY <1>1 DEF Granted, SweptInv
<1>14. Bounds
  <2>1. SessionsOf(peers) = {}
    <3>1. \A id : id \notin SessionsOf(peers)
      BY <1>6, SessionsOfPeers
    <3> QED BY <3>1
  <2>2. Plain = 1 .. n
    BY <1>6 DEF Plain
  <2>3. IsFiniteSet({}) /\ Cardinality({}) = 0
    BY FS_EmptySet
  <2>4. IsFiniteSet(1 .. n) /\ Cardinality(1 .. n) = n
    BY <1>2, FS_Interval
  <2>5. IsFiniteSet(Plain) /\ Cardinality(Plain) = n
    BY <2>2, <2>4, Zenon
  <2>6. n <= Len(Configured) + 1
    BY <1>2
  <2> QED BY <1>9, <2>1, <2>3, <2>5, <2>6, ConfiguredLength DEF Bounds
<1> QED BY <1>7, <1>8, <1>10, <1>11, <1>12, <1>13, <1>14 DEF SessionInv

-----------------------------------------------------------------------------
(* The theorems.                                                           *)

\* The session invariant, and the consumer's, in every state.
LEMMA SessionHolds == Spec => [](SessionInv /\ ConsumerInv)
<1>1. SessionInv /\ ConsumerInv /\ [Next]_vars => (SessionInv /\ ConsumerInv)'
  BY SessionPreserved, ConsumerPreserved
<1> QED BY <1>1, SessionInitially, ConsumerInitially, PTL DEF Spec

\* The loop's variables stay in their ranges: poll never reports a place
\* beyond the peers there can be, and no entry, connection or ended session
\* has an identifier that was not issued (run, issue, attach).
THEOREM BrokerTypes == Spec => []TypeOK
<1>1. ASSUME SessionInv, ConsumerInv PROVE TypeOK
  <2>1. HttpsTypeOK
    BY <1>1 DEF ConsumerInv, ChildInv, ChildType, Https, Curl, HttpsTypeOK
  <2>2. peers \in Seq(Connection)
    BY <1>1 DEF SessionInv, Connected
  <2>3. \A i \in DOMAIN peers : peers[i].session = None \/ peers[i].session \in 1 .. issued
    BY <1>1, <2>2 DEF SessionInv, Connected
  <2> QED BY <1>1, <2>1, <2>3 DEF SessionInv, Clock, Loop, Table, Places, TypeOK
<1> QED BY <1>1, SessionHolds, PTL

\* A token attaches at most one connection, and only while its session is in
\* the table, neither revoked nor expired (attach, issue, revoke).
THEOREM TokensAttachOnce == Spec => TokenAttachesOnce
<1>1. ASSUME SessionInv, [Next]_vars, NEW id \in 1 .. MaxSessions, attached'[id] # attached[id]
      PROVE  /\ attached[id] = 0 /\ attached'[id] = 1
             /\ id \notin ended
             /\ id \in DOMAIN entries /\ entries[id].expires_at > now
  <2> USE <1>1 DEF SessionInv
  <2>1. Admit
    BY DEF Next, OwnerStep, Sweep, Poll, PollFails, PassEnds, Serve, Receive, Handle, AdminHandle, Work,
       UsePrepare, UseHandoff, Deliver, Reply, Send, Close, Tick, vars, table
  <2>2. PICK token \in 1 .. issued : Attachable(token) /\ attached' = [attached EXCEPT ![token] = @ + 1]
    BY <2>1 DEF Admit, Attach
  <2>3. attached \in [1 .. MaxSessions -> Nat]
    BY DEF Tokens
  <2>4. token = id /\ attached'[id] = attached[id] + 1
    BY <2>2, <2>3
  <2>5. id \in DOMAIN entries /\ entries[id].expires_at > now /\ entries[id].digest
    BY <2>2, <2>4 DEF Attachable
  <2>6. attached[id] = 0
    BY <2>5 DEF Tokens
  <2>7. id \notin ended
    BY <2>5 DEF Table
  <2> QED BY <2>4, <2>5, <2>6, <2>7
<1>2. SessionInv /\ [Next]_vars =>
        [\A id \in 1 .. MaxSessions : attached'[id] # attached[id] =>
            /\ attached[id] = 0 /\ attached'[id] = 1
            /\ id \notin ended
            /\ id \in DOMAIN entries /\ entries[id].expires_at > now]_vars
  BY <1>1
<1> QED BY <1>2, SessionHolds, PTL DEF Spec, TokenAttachesOnce

\* After the sweep the attached entries are the connections kept (run).
THEOREM TableMatchesPeers == Spec => []AttachedHasPeer
<1>1. ASSUME SessionInv PROVE AttachedHasPeer
  <2> SUFFICES ASSUME at = "poll"
               PROVE  SessionsOf(peers) = {id \in DOMAIN entries : ~entries[id].digest}
    BY DEF AttachedHasPeer
  <2>1. peers \in Seq(Connection)
    BY <1>1 DEF SessionInv, Connected
  <2>2. \A id : id \in SessionsOf(peers) <=> id # None /\ \E i \in 1 .. Len(peers) : peers[i].session = id
    BY <2>1, SessionsOfPeers
  <2>3. \A id \in SessionsOf(peers) : id \in DOMAIN entries /\ ~entries[id].digest
    BY <1>1, <2>2 DEF SessionInv, SweptInv, Connected
  <2>4. ASSUME NEW id \in DOMAIN entries, ~entries[id].digest PROVE id \in SessionsOf(peers)
    <3>1. id # None
      BY <1>1, BrokerAssumption DEF SessionInv, Table
    <3> QED BY <1>1, <2>2, <2>4, <3>1 DEF SessionInv, Table
  <2> QED BY <2>3, <2>4
<1> QED BY <1>1, SessionHolds, PTL

\* The sessions connected never exceed the table's capacity by more than the
\* one that joins at the end of a pass (CAPACITY, issue, the sweep).
THEOREM ConnectionsBounded == Spec => []PeersBounded
<1>1. SessionInv => PeersBounded
  BY DEF SessionInv, Bounds, PeersBounded
<1> QED BY <1>1, SessionHolds, PTL

\* What the vault does for a session, it does for one of its tasks while the
\* session is attached, live and not revoked, and never a read grant
\* (permits, authorize, validate_agent).
THEOREM WorkIsConfined == Spec => SessionsConfineWork
<1>1. ASSUME SessionInv, [Next]_vars, effect' # effect, effect' # None, effect'.session # None
      PROVE  /\ effect'.session \notin ended
             /\ effect'.session \in DOMAIN entries
             /\ LET session == entries[effect'.session] IN
                /\ ~session.digest /\ session.expires_at > now
                /\ effect'.task \in session.tasks \ revoked
                /\ TaskOf[effect'.task] = session.principal
             /\ effect'.op # "share_read"
  <2> USE <1>1 DEF SessionInv
  <2>1. \/ Work /\ Allowed /\ Authorized /\ effect' = Done
        \/ UseHandoff /\ Authorized /\ effect' = Done
    BY DEF Next, OwnerStep, Sweep, Poll, PollFails, PassEnds, Serve, Receive, Handle, AdminHandle, Work,
       UsePrepare, UseHandoff, Deliver, Reply, Admit, Send, Close, Tick, vars
  <2>2. at \in {"work", "use"} /\ Authorized /\ effect' = Done
    BY <2>1 DEF Work, UseHandoff
  <2>3. /\ effect'.session = P.session /\ effect'.op = msg.op /\ effect'.task = msg.task
    BY <2>2 DEF Done
  <2>4. cur \in 1 .. Len(peers) /\ P.session # None
    BY <2>2, <2>3 DEF Loop, Inside
  <2>5. P.session \in DOMAIN entries /\ msg.task \in entries[P.session].tasks
    BY <2>2, <2>4 DEF Granted
  <2>6. /\ ~entries[P.session].digest /\ entries[P.session].principal = P.principal
        /\ entries[P.session].expires_at = P.until /\ ~P.admin
    BY <2>4, <2>5 DEF Connected, P
  <2>7. P.until \in Nat /\ P.until # None /\ now \in Nat
    BY <2>5, <2>6, BrokerAssumption DEF Table, Entry, Clock
  <2>8. P.until > now
    BY <2>2, <2>7 DEF Authorized
  <2>9. msg.op # "share_read"
    BY <2>1, <2>6 DEF Allowed, UseHandoff, Loop
  <2>10. P.session \notin ended
    BY <2>5 DEF Table
  <2>11. msg.task \notin revoked /\ TaskOf[msg.task] = P.principal
    BY <2>2 DEF Authorized
  <2> QED BY <2>3, <2>5, <2>6, <2>8, <2>9, <2>10, <2>11
<1>2. SessionInv /\ [Next]_vars =>
         [effect' # effect /\ effect' # None /\ effect'.session # None =>
          /\ effect'.session \notin ended
          /\ effect'.session \in DOMAIN entries
          /\ LET session == entries[effect'.session] IN
             /\ ~session.digest /\ session.expires_at > now
             /\ effect'.task \in session.tasks \ revoked
             /\ TaskOf[effect'.task] = session.principal
          /\ effect'.op # "share_read"]_vars
  BY <1>1
<1> QED BY <1>2, SessionHolds, PTL DEF Spec, SessionsConfineWork

=============================================================================
