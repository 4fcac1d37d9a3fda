----------------------- MODULE ServerLifecycleProofs -----------------------
(***************************************************************************)
(* Proofs about ServerLifecycle, for any messages, requests and signals    *)
(* and any MaxTries.                                                       *)
(***************************************************************************)
EXTENDS ServerLifecycle, TLAPS

(* How far the boot is, and what is open by then.                          *)
BootInv ==
  /\ channel = "none" <=> boot \in {"postgres", "redis", "rabbitmq"}
  /\ channel = "none" => \A w \in Items : work[w] = "none"
  /\ boot \in {"topology", "consumer"} => channel = "open"
  /\ boot # "serving" => /\ server = "none"
                         /\ ~watchdog
                         /\ probe.at = "none"
                         /\ \A s \in Signals : shutdown[s] = "none"
  /\ Alive /\ (consuming \/ activeChannel) => channel = "open"

(* Whom a message is with.                                                 *)
MessagesInv ==
  \A m \in Messages :
    /\ broker[m] = "unacked" => Alive /\ channel # "closed" /\ work[m] \in Operations
    /\ work[m] \in Operations /\ channel = "open" => broker[m] = "unacked"
    /\ work[m] \in Operations => m \in Events
    /\ work[m] = "finish" => m \in handled
    /\ broker[m] = "acked" => m \in (handled \cap Events) \cup Unknown
    /\ broker[m] = "dead" => m \in {n \in Events : tries[n] = MaxTries} \cup NotJson

(* How far each shutdown is, and what is closed by then.                   *)
ShutdownInv ==
  /\ Alive => \A r \in Requests : work[r] # "cut"
  /\ watchdog => channel # "open"
  /\ \A s \in Signals :
       /\ shutdown[s] # "none" => shuttingDown
       /\ shutdown[s] \notin {"none", "cancel"} => channel # "open"
       /\ shutdown[s] \in {"closeServer", "disconnect"} =>
            redis = "closed" /\ server = "closing"
       /\ shutdown[s] = "disconnect" => \A r \in Requests : work[r] \notin Operations

(* What the probe knows of the moment it began.                            *)
ProbeInv ==
  /\ probe.at \in {"db", "redis", "ready"} => ~probe.shuttingDown
  /\ probe.at = "db" /\ channel = "open" => probe.channel = "open"
  /\ probe.at \in {"redis", "ready"} => probe.channel = "open"

ServerInv ==
  /\ ServerTypeOK /\ BootInv /\ MessagesInv /\ ShutdownInv /\ ProbeInv
  /\ GracefulExit
  /\ ErrorsAreContained
-----------------------------------------------------------------------------
(* Which boot step follows which.                                         *)
LEMMA AfterFacts ==
  /\ After["postgres"] = "redis" /\ After["redis"] = "rabbitmq"
  /\ After["rabbitmq"] = "topology" /\ After["topology"] = "consumer"
  /\ After["consumer"] = "listen" /\ After["listen"] = "serving"
BY DEF After

(* What is put back and what is cut off has the right type.                *)
LEMMA ExitTypes ==
  ASSUME ServerTypeOK
  PROVE  /\ PutBack \in [Messages -> {"ready", "unacked", "acked", "dead"}]
         /\ CutOff \in [Items -> Operations \cup {"none", "answered", "cut", "thrown"}]
BY DEF ServerTypeOK, PutBack, CutOff

LEMMA ExitKeepsTypes ==
  ASSUME ServerTypeOK, NEW code \in {0, 1}, Exit(code)
  PROVE  ServerTypeOK'
BY ExitTypes DEF ServerTypeOK, Exit, resources, flags

LEMMA UncaughtKeepsTypes ==
  ASSUME ServerTypeOK, NEW m \in Messages, Uncaught(m)
  PROVE  ServerTypeOK'
<1>1. work' \in [Items -> Operations \cup {"none", "answered", "cut", "thrown"}]
  BY ExitTypes DEF Uncaught, Items
<1> QED BY <1>1, ExitTypes DEF ServerTypeOK, Uncaught, resources, flags

LEMMA TypeStep ==
  ASSUME ServerTypeOK, [ServerNext]_serverVars
  PROVE  ServerTypeOK'
<1> USE DEF ServerTypeOK, resources, flags, messages
<1>1. CASE BootStep
  BY <1>1, AfterFacts DEF BootStep, BootSteps
<1>2. CASE BootFails
  BY <1>2, ExitKeepsTypes DEF BootFails
<1>3. CASE ChannelCloses
  BY <1>3, ExitTypes DEF ChannelCloses
<1>4. CASE ChannelFails
  BY <1>4, ExitTypes DEF ChannelFails
<1>5. ASSUME NEW w \in Items, Proceed(w) PROVE ServerTypeOK'
  <2>1. PICK op \in Later(work[w]) : work' = [work EXCEPT ![w] = op]
    BY <1>5 DEF Proceed
  <2>2. op \in Operations
    BY <1>5 DEF Proceed, Later, Operations
  <2>3. work' \in [Items -> Operations \cup {"none", "answered", "cut", "thrown"}]
    BY <2>1, <2>2
  <2>4. handled' \subseteq Messages
    BY <1>5 DEF Proceed
  <2> QED BY <1>5, <2>3, <2>4 DEF Proceed
<1>6. ASSUME NEW r \in Requests, Arrive(r) PROVE ServerTypeOK'
  BY <1>6 DEF Arrive, Items, Operations
<1>7. ASSUME NEW r \in Requests, AnswerRequest(r) PROVE ServerTypeOK'
  BY <1>7 DEF AnswerRequest, Items
<1>8. ASSUME NEW m \in Messages, Deliver(m) PROVE ServerTypeOK'
  BY <1>8 DEF Deliver, CanDeliver, Items, Operations
<1>9. ASSUME NEW m \in Messages, Ack(m) PROVE ServerTypeOK'
  BY <1>9 DEF Ack
<1>10. ASSUME NEW m \in Messages, MessageFails(m) PROVE ServerTypeOK'
  <2>1. work' \in [Items -> Operations \cup {"none", "answered", "cut", "thrown"}]
    BY <1>10 DEF MessageFails, Items
  <2>2. tries' \in [Messages -> 0..MaxTries]
    BY <1>10, ServerAssumption DEF MessageFails
  <2>3. broker' \in [Messages -> {"ready", "unacked", "acked", "dead"}]
    BY <1>10 DEF MessageFails
  <2> QED BY <1>10, <2>1, <2>2, <2>3 DEF MessageFails
<1>11. ASSUME NEW m \in Messages, RejectionUnhandled(m) PROVE ServerTypeOK'
  BY <1>11, UncaughtKeepsTypes DEF RejectionUnhandled
<1>12. ASSUME NEW m \in Messages, Discard(m) PROVE ServerTypeOK'
  BY <1>12 DEF Discard, CanDeliver
<1>13. ASSUME NEW m \in Messages, DeliverNull(m) PROVE ServerTypeOK'
  BY <1>13, UncaughtKeepsTypes DEF DeliverNull, CanDeliver
<1>14. CASE ProbeStarts
  BY <1>14 DEF ProbeStarts
<1>15. CASE ProbeChecks
  BY <1>15 DEF ProbeChecks
<1>16. ASSUME NEW s \in Signals, SignalArrives(s) PROVE ServerTypeOK'
  BY <1>16 DEF SignalArrives, Await, Shutdowns
<1>17. ASSUME NEW s \in Signals, ShutdownStep(s) PROVE ServerTypeOK'
  <2>1. CASE StopConsumer(s)
    <3>1. PICK op \in {"closeChannel", "closeConnection", "quit"} :
            shutdown' = [shutdown EXCEPT ![s] = op]
      BY <2>1 DEF StopConsumer, Await
    <3>2. shutdown' \in [Signals -> Shutdowns]
      BY <3>1 DEF Shutdowns
    <3>3. /\ channel' \in {channel, "closing"}
          /\ consuming' \in BOOLEAN /\ activeChannel' \in BOOLEAN
      BY <2>1 DEF StopConsumer
    <3> QED BY <2>1, <3>2, <3>3 DEF StopConsumer
  <2>2. CASE CloseChannel(s)
    BY <2>2, ExitTypes DEF CloseChannel, Await, Shutdowns
  <2>3. CASE CloseConnection(s)
    BY <2>3, ExitTypes DEF CloseConnection, Await, Shutdowns
  <2>4. CASE QuitRedis(s)
    BY <2>4 DEF QuitRedis, Await, Shutdowns
  <2>5. CASE CloseServer(s)
    BY <2>5 DEF CloseServer, Await, Shutdowns
  <2>6. CASE Disconnect(s)
    BY <2>6, ExitKeepsTypes DEF Disconnect
  <2> QED BY <1>17, <2>1, <2>2, <2>3, <2>4, <2>5, <2>6 DEF ShutdownStep
<1>18. CASE WatchdogFires
  BY <1>18, ExitKeepsTypes DEF WatchdogFires
<1>19. CASE UNCHANGED serverVars
  BY <1>19 DEF serverVars
<1> QED
  BY <1>1, <1>2, <1>3, <1>4, <1>5, <1>6, <1>7, <1>8, <1>9, <1>10, <1>11, <1>12,
     <1>13, <1>14, <1>15, <1>16, <1>17, <1>18, <1>19 DEF ServerNext

(* Once the process ended nothing is under way.                            *)
LEMMA ExitFacts ==
  ASSUME ServerTypeOK, NEW code \in {0, 1}, Exit(code)
  PROVE  /\ ~Alive'
         /\ \A m \in Messages : broker'[m] # "unacked"
         /\ \A m \in Messages : broker'[m] # "ready" => broker'[m] = broker[m]
         /\ \A w \in Items : work'[w] \notin Operations
         /\ \A r \in Requests : work[r] \notin Operations => work'[r] = work[r]
         /\ \A w \in Items : work[w] = "none" => work'[w] = "none"
BY ServerAssumption
   DEF ServerTypeOK, Exit, Alive, PutBack, CutOff, Items, Operations

LEMMA UncaughtFacts ==
  ASSUME ServerTypeOK, NEW m \in Messages, Uncaught(m)
  PROVE  /\ ~Alive' /\ work'[m] = "thrown"
         /\ \A n \in Messages : broker'[n] # "unacked"
         /\ \A n \in Messages : broker'[n] # "ready" => broker'[n] = broker[n]
         /\ \A w \in Items : work'[w] \notin Operations
         /\ \A r \in Requests : work[r] \notin Operations => work'[r] = work[r]
<1>1. DOMAIN CutOff = Items /\ m \in Items
  BY DEF CutOff, Items
<1>2. /\ work'[m] = "thrown"
      /\ \A w \in Items : w # m => work'[w] = CutOff[w]
  BY <1>1 DEF Uncaught
<1>3. \A w \in Items : CutOff[w] \notin Operations
  BY DEF CutOff, Operations
<1>4. \A r \in Requests : r # m /\ r \in Items
  BY ServerAssumption DEF Items
<1>5. \A r \in Requests : work[r] \notin Operations => CutOff[r] = work[r]
  BY <1>4 DEF CutOff
<1>6. ~Alive'
  BY ServerAssumption DEF Uncaught, Alive
<1>7. /\ \A n \in Messages : broker'[n] # "unacked"
      /\ \A n \in Messages : broker'[n] # "ready" => broker'[n] = broker[n]
  BY DEF Uncaught, PutBack, ServerTypeOK
<1>8. \A w \in Items : work'[w] \notin Operations
  BY <1>2, <1>3 DEF Operations
<1> QED BY <1>2, <1>4, <1>5, <1>6, <1>7, <1>8

(* A handler goes on to another operation.                                 *)
LEMMA ProceedFacts ==
  ASSUME ServerTypeOK, NEW w \in Items, Proceed(w)
  PROVE  /\ work[w] \in Operations
         /\ \E op \in Operations : work' = [work EXCEPT ![w] = op]
<1>1. PICK op \in Later(work[w]) : work' = [work EXCEPT ![w] = op]
  BY DEF Proceed
<1>2. op \in Operations
  BY DEF Proceed, Later, Operations
<1> QED BY <1>1, <1>2 DEF Proceed
(* The boot's part of the invariant.                                       *)
LEMMA BootInvStep ==
  ASSUME ServerTypeOK, BootInv, ShutdownInv, [ServerNext]_serverVars
  PROVE  BootInv'
<1> USE DEF ServerTypeOK, BootInv, resources, flags, Alive, BootSteps
<1>1. CASE BootStep
  BY <1>1, AfterFacts DEF BootStep
<1>2. CASE BootFails
  BY <1>2, ExitFacts DEF BootFails, Exit
<1>3. CASE ChannelCloses
  BY <1>3 DEF ChannelCloses, CutOff
<1>4. CASE ChannelFails
  BY <1>4, ServerAssumption DEF ChannelFails, CutOff
<1>5. ASSUME NEW w \in Items, Proceed(w) PROVE BootInv'
  BY <1>5, ProceedFacts DEF Proceed, Operations
<1>6. ASSUME NEW r \in Requests, Arrive(r) PROVE BootInv'
  BY <1>6 DEF Arrive
<1>7. ASSUME NEW r \in Requests, AnswerRequest(r) PROVE BootInv'
  BY <1>7 DEF AnswerRequest, Items, Operations
<1>8. ASSUME NEW m \in Messages, Deliver(m) PROVE BootInv'
  BY <1>8 DEF Deliver, CanDeliver
<1>9. ASSUME NEW m \in Messages, Ack(m) PROVE BootInv'
  BY <1>9 DEF Ack
<1>10. ASSUME NEW m \in Messages, MessageFails(m) PROVE BootInv'
  BY <1>10 DEF MessageFails
<1>11. ASSUME NEW m \in Messages, RejectionUnhandled(m) PROVE BootInv'
  <2>1. channel # "none"
    BY <1>11 DEF RejectionUnhandled, Items, Operations
  <2> QED BY <1>11, <2>1, UncaughtFacts DEF RejectionUnhandled, Uncaught
<1>12. ASSUME NEW m \in Messages, Discard(m) PROVE BootInv'
  BY <1>12 DEF Discard, CanDeliver
<1>13. ASSUME NEW m \in Messages, DeliverNull(m) PROVE BootInv'
  BY <1>13, UncaughtFacts DEF DeliverNull, CanDeliver, Uncaught
<1>14. CASE ProbeStarts
  BY <1>14 DEF ProbeStarts
<1>15. CASE ProbeChecks
  BY <1>15 DEF ProbeChecks
<1>16. ASSUME NEW s \in Signals, SignalArrives(s) PROVE BootInv'
  BY <1>16 DEF SignalArrives, Await
<1>17. ASSUME NEW s \in Signals, ShutdownStep(s) PROVE BootInv'
  <2>1. CASE StopConsumer(s)
    BY <2>1 DEF StopConsumer, Await
  <2>2. CASE CloseChannel(s)
    BY <2>2 DEF CloseChannel, Await, ShutdownInv
  <2>3. CASE CloseConnection(s)
    BY <2>3 DEF CloseConnection, Await, ShutdownInv
  <2>4. CASE QuitRedis(s)
    BY <2>4 DEF QuitRedis, Await
  <2>5. CASE CloseServer(s)
    BY <2>5 DEF CloseServer, Await
  <2>6. CASE Disconnect(s)
    BY <2>6, ExitFacts DEF Disconnect, Exit
  <2> QED BY <1>17, <2>1, <2>2, <2>3, <2>4, <2>5, <2>6 DEF ShutdownStep
<1>18. CASE WatchdogFires
  BY <1>18, ExitFacts DEF WatchdogFires, Exit
<1>19. CASE UNCHANGED serverVars
  BY <1>19 DEF serverVars
<1> QED
  BY <1>1, <1>2, <1>3, <1>4, <1>5, <1>6, <1>7, <1>8, <1>9, <1>10, <1>11, <1>12,
     <1>13, <1>14, <1>15, <1>16, <1>17, <1>18, <1>19 DEF ServerNext

(* The messages' part.                                                     *)
LEMMA MessagesInvStep ==
  ASSUME ServerTypeOK, MessagesInv, BootInv, ShutdownInv, [ServerNext]_serverVars
  PROVE  MessagesInv'
<1> USE DEF ServerTypeOK, MessagesInv, BootInv, resources, flags, messages, Alive, Operations
<1>1. CASE BootStep
  BY <1>1, AfterFacts DEF BootStep, Items
<1>2. CASE BootFails
  BY <1>2, ExitFacts DEF BootFails, Exit, Items
<1>3. CASE ChannelCloses
  BY <1>3 DEF ChannelCloses, PutBack
<1>4. CASE ChannelFails
  BY <1>4, ServerAssumption DEF ChannelFails, PutBack, CutOff, Items
<1>5. ASSUME NEW w \in Items, Proceed(w) PROVE MessagesInv'
  BY <1>5 DEF Proceed, Later, Usable, Items
<1>6. ASSUME NEW r \in Requests, Arrive(r) PROVE MessagesInv'
  BY <1>6, ServerAssumption DEF Arrive
<1>7. ASSUME NEW r \in Requests, AnswerRequest(r) PROVE MessagesInv'
  BY <1>7, ServerAssumption DEF AnswerRequest
<1>8. ASSUME NEW m \in Messages, Deliver(m) PROVE MessagesInv'
  BY <1>8 DEF Deliver, CanDeliver, Items
<1>9. ASSUME NEW m \in Messages, Ack(m) PROVE MessagesInv'
  BY <1>9 DEF Ack, Items
<1>10. ASSUME NEW m \in Messages, MessageFails(m) PROVE MessagesInv'
  <2>1. broker[m] = "unacked" /\ channel = "open" /\ work[m] \in Operations
    BY <1>10 DEF MessageFails
  <2>2. /\ work' = [work EXCEPT ![m] = "none"]
        /\ UNCHANGED <<channel, exit, handled>>
    BY <1>10 DEF MessageFails
  <2>3. CASE tries[m] < MaxTries
    <3>1. /\ tries' = [tries EXCEPT ![m] = @ + 1]
          /\ broker' = [broker EXCEPT ![m] = "ready"]
      BY <1>10, <2>3 DEF MessageFails
    <3> QED BY <2>1, <2>2, <3>1 DEF Items
  <2>4. CASE ~(tries[m] < MaxTries)
    <3>1. tries' = tries /\ broker' = [broker EXCEPT ![m] = "dead"]
      BY <1>10, <2>4 DEF MessageFails
    <3>2. tries[m] = MaxTries
      BY <2>4, ServerAssumption
    <3> QED BY <2>1, <2>2, <3>1, <3>2 DEF Items
  <2> QED BY <2>3, <2>4
<1>11. ASSUME NEW m \in Messages, RejectionUnhandled(m) PROVE MessagesInv'
  BY <1>11, UncaughtFacts DEF RejectionUnhandled, Uncaught, Items
<1>12. ASSUME NEW m \in Messages, Discard(m) PROVE MessagesInv'
  BY <1>12 DEF Discard, CanDeliver, Items
<1>13. ASSUME NEW m \in Messages, DeliverNull(m) PROVE MessagesInv'
  <2>1. Uncaught(m)
    BY <1>13 DEF DeliverNull
  <2>2. UNCHANGED <<tries, handled>>
    BY <2>1 DEF Uncaught
  <2> QED BY <2>1, <2>2, UncaughtFacts DEF Items
<1>14. CASE ProbeStarts
  BY <1>14 DEF ProbeStarts
<1>15. CASE ProbeChecks
  BY <1>15 DEF ProbeChecks
<1>16. ASSUME NEW s \in Signals, SignalArrives(s) PROVE MessagesInv'
  BY <1>16 DEF SignalArrives, Await
<1>17. ASSUME NEW s \in Signals, ShutdownStep(s) PROVE MessagesInv'
  <2>1. CASE StopConsumer(s)
    BY <2>1 DEF StopConsumer, Await
  <2>2. CASE CloseChannel(s)
    BY <2>2 DEF CloseChannel, Await, PutBack
  <2>3. CASE CloseConnection(s)
    BY <2>3 DEF CloseConnection, Await, PutBack
  <2>4. CASE QuitRedis(s)
    BY <2>4 DEF QuitRedis, Await
  <2>5. CASE CloseServer(s)
    BY <2>5 DEF CloseServer, Await
  <2>6. CASE Disconnect(s)
    BY <2>6, ExitFacts DEF Disconnect, Exit, Items
  <2> QED BY <1>17, <2>1, <2>2, <2>3, <2>4, <2>5, <2>6 DEF ShutdownStep
<1>18. CASE WatchdogFires
  BY <1>18, ExitFacts DEF WatchdogFires, Exit, Items
<1>19. CASE UNCHANGED serverVars
  BY <1>19 DEF serverVars
<1> QED
  BY <1>1, <1>2, <1>3, <1>4, <1>5, <1>6, <1>7, <1>8, <1>9, <1>10, <1>11, <1>12,
     <1>13, <1>14, <1>15, <1>16, <1>17, <1>18, <1>19 DEF ServerNext

(* The shutdown's part.                                                    *)
LEMMA ShutdownInvStep ==
  ASSUME ServerTypeOK, ShutdownInv, BootInv, [ServerNext]_serverVars
  PROVE  ShutdownInv'
<1> USE DEF ServerTypeOK, ShutdownInv, BootInv, resources, flags, messages, Alive
<1>1. CASE BootStep
  BY <1>1 DEF BootStep
<1>2. CASE BootFails
  BY <1>2, ExitFacts DEF BootFails, Exit
<1>3. CASE ChannelCloses
  BY <1>3 DEF ChannelCloses
<1>4. CASE ChannelFails
  BY <1>4, ServerAssumption DEF ChannelFails, CutOff, Items
<1>5. ASSUME NEW w \in Items, Proceed(w) PROVE ShutdownInv'
  <2>1. PICK op \in Operations : work' = [work EXCEPT ![w] = op]
    BY <1>5, ProceedFacts
  <2>2. work[w] \in Operations
    BY <1>5, ProceedFacts
  <2>3. \A r \in Requests :
          /\ work[r] \notin Operations => work'[r] = work[r]
          /\ work[r] # "cut" => work'[r] # "cut"
    BY <2>1, <2>2 DEF Items, Operations
  <2> QED BY <1>5, <2>3 DEF Proceed
<1>6. ASSUME NEW r \in Requests, Arrive(r) PROVE ShutdownInv'
  BY <1>6 DEF Arrive
<1>7. ASSUME NEW r \in Requests, AnswerRequest(r) PROVE ShutdownInv'
  BY <1>7 DEF AnswerRequest
<1>8. ASSUME NEW m \in Messages, Deliver(m) PROVE ShutdownInv'
  BY <1>8 DEF Deliver, CanDeliver
<1>9. ASSUME NEW m \in Messages, Ack(m) PROVE ShutdownInv'
  BY <1>9 DEF Ack
<1>10. ASSUME NEW m \in Messages, MessageFails(m) PROVE ShutdownInv'
  BY <1>10 DEF MessageFails
<1>11. ASSUME NEW m \in Messages, RejectionUnhandled(m) PROVE ShutdownInv'
  BY <1>11, UncaughtFacts DEF RejectionUnhandled, Uncaught
<1>12. ASSUME NEW m \in Messages, Discard(m) PROVE ShutdownInv'
  BY <1>12 DEF Discard, CanDeliver
<1>13. ASSUME NEW m \in Messages, DeliverNull(m) PROVE ShutdownInv'
  BY <1>13, UncaughtFacts DEF DeliverNull, CanDeliver, Uncaught
<1>14. CASE ProbeStarts
  BY <1>14 DEF ProbeStarts
<1>15. CASE ProbeChecks
  BY <1>15 DEF ProbeChecks
<1>16. ASSUME NEW s \in Signals, SignalArrives(s) PROVE ShutdownInv'
  BY <1>16 DEF SignalArrives, Await
<1>17. ASSUME NEW s \in Signals, ShutdownStep(s) PROVE ShutdownInv'
  <2>1. CASE StopConsumer(s)
    BY <2>1 DEF StopConsumer, Await
  <2>2. CASE CloseChannel(s)
    BY <2>2 DEF CloseChannel, Await
  <2>3. CASE CloseConnection(s)
    BY <2>3 DEF CloseConnection, Await
  <2>4. CASE QuitRedis(s)
    BY <2>4 DEF QuitRedis, Await
  <2>5. CASE CloseServer(s)
    BY <2>5 DEF CloseServer, Await
  <2>6. CASE Disconnect(s)
    BY <2>6, ExitFacts DEF Disconnect, Exit
  <2> QED BY <1>17, <2>1, <2>2, <2>3, <2>4, <2>5, <2>6 DEF ShutdownStep
<1>18. CASE WatchdogFires
  BY <1>18, ExitFacts DEF WatchdogFires, Exit
<1>19. CASE UNCHANGED serverVars
  BY <1>19 DEF serverVars
<1> QED
  BY <1>1, <1>2, <1>3, <1>4, <1>5, <1>6, <1>7, <1>8, <1>9, <1>10, <1>11, <1>12,
     <1>13, <1>14, <1>15, <1>16, <1>17, <1>18, <1>19 DEF ServerNext

(* The probe's part.                                                       *)
LEMMA ProbeInvStep ==
  ASSUME ServerTypeOK, ProbeInv, BootInv, ShutdownInv, [ServerNext]_serverVars
  PROVE  ProbeInv'
<1> USE DEF ServerTypeOK, ProbeInv, BootInv, resources, flags, messages, Alive
<1>1. CASE BootStep
  BY <1>1 DEF BootStep
<1>2. CASE BootFails
  BY <1>2 DEF BootFails, Exit
<1>3. CASE ChannelCloses
  BY <1>3 DEF ChannelCloses
<1>4. CASE ChannelFails
  BY <1>4 DEF ChannelFails
<1>5. ASSUME NEW w \in Items, Proceed(w) PROVE ProbeInv'
  BY <1>5 DEF Proceed
<1>6. ASSUME NEW r \in Requests, Arrive(r) PROVE ProbeInv'
  BY <1>6 DEF Arrive
<1>7. ASSUME NEW r \in Requests, AnswerRequest(r) PROVE ProbeInv'
  BY <1>7 DEF AnswerRequest
<1>8. ASSUME NEW m \in Messages, Deliver(m) PROVE ProbeInv'
  BY <1>8 DEF Deliver, CanDeliver
<1>9. ASSUME NEW m \in Messages, Ack(m) PROVE ProbeInv'
  BY <1>9 DEF Ack
<1>10. ASSUME NEW m \in Messages, MessageFails(m) PROVE ProbeInv'
  BY <1>10 DEF MessageFails
<1>11. ASSUME NEW m \in Messages, RejectionUnhandled(m) PROVE ProbeInv'
  BY <1>11 DEF RejectionUnhandled, Uncaught
<1>12. ASSUME NEW m \in Messages, Discard(m) PROVE ProbeInv'
  BY <1>12 DEF Discard, CanDeliver
<1>13. ASSUME NEW m \in Messages, DeliverNull(m) PROVE ProbeInv'
  BY <1>13 DEF DeliverNull, CanDeliver, Uncaught
<1>14. CASE ProbeStarts
  BY <1>14 DEF ProbeStarts
<1>15. CASE ProbeChecks
  BY <1>15 DEF ProbeChecks
<1>16. ASSUME NEW s \in Signals, SignalArrives(s) PROVE ProbeInv'
  BY <1>16 DEF SignalArrives, Await
<1>17. ASSUME NEW s \in Signals, ShutdownStep(s) PROVE ProbeInv'
  <2>1. CASE StopConsumer(s)
    BY <2>1 DEF StopConsumer, Await
  <2>2. CASE CloseChannel(s)
    BY <2>2 DEF CloseChannel, Await
  <2>3. CASE CloseConnection(s)
    BY <2>3 DEF CloseConnection, Await
  <2>4. CASE QuitRedis(s)
    BY <2>4 DEF QuitRedis, Await
  <2>5. CASE CloseServer(s)
    BY <2>5 DEF CloseServer, Await
  <2>6. CASE Disconnect(s)
    BY <2>6 DEF Disconnect, Exit
  <2> QED BY <1>17, <2>1, <2>2, <2>3, <2>4, <2>5, <2>6 DEF ShutdownStep
<1>18. CASE WatchdogFires
  BY <1>18 DEF WatchdogFires, Exit
<1>19. CASE UNCHANGED serverVars
  BY <1>19 DEF serverVars
<1> QED
  BY <1>1, <1>2, <1>3, <1>4, <1>5, <1>6, <1>7, <1>8, <1>9, <1>10, <1>11, <1>12,
     <1>13, <1>14, <1>15, <1>16, <1>17, <1>18, <1>19 DEF ServerNext

(* How the process ends.                                                   *)
LEMMA ExitStep ==
  ASSUME ServerTypeOK, GracefulExit, ErrorsAreContained, ShutdownInv, BootInv, [ServerNext]_serverVars
  PROVE  (GracefulExit /\ ErrorsAreContained)'
<1> USE DEF GracefulExit, ErrorsAreContained, ShutdownInv, BootInv, resources, flags, messages, Alive
<1>1. CASE BootStep
  BY <1>1, ServerAssumption DEF BootStep
<1>2. CASE BootFails
  BY <1>2, ExitFacts DEF BootFails, Exit
<1>3. CASE ChannelCloses
  BY <1>3 DEF ChannelCloses
<1>4. CASE ChannelFails
  BY <1>4 DEF ChannelFails
<1>5. ASSUME NEW w \in Items, Proceed(w) PROVE (GracefulExit /\ ErrorsAreContained)'
  BY <1>5, ServerAssumption DEF Proceed
<1>6. ASSUME NEW r \in Requests, Arrive(r) PROVE (GracefulExit /\ ErrorsAreContained)'
  BY <1>6 DEF Arrive
<1>7. ASSUME NEW r \in Requests, AnswerRequest(r) PROVE (GracefulExit /\ ErrorsAreContained)'
  BY <1>7, ServerAssumption DEF AnswerRequest
<1>8. ASSUME NEW m \in Messages, Deliver(m) PROVE (GracefulExit /\ ErrorsAreContained)'
  BY <1>8, ServerAssumption DEF Deliver, CanDeliver
<1>9. ASSUME NEW m \in Messages, Ack(m) PROVE (GracefulExit /\ ErrorsAreContained)'
  BY <1>9 DEF Ack
<1>10. ASSUME NEW m \in Messages, MessageFails(m) PROVE (GracefulExit /\ ErrorsAreContained)'
  BY <1>10, ServerAssumption DEF MessageFails
<1>11. ASSUME NEW m \in Messages, RejectionUnhandled(m) PROVE (GracefulExit /\ ErrorsAreContained)'
  BY <1>11, UncaughtFacts DEF RejectionUnhandled, Uncaught
<1>12. ASSUME NEW m \in Messages, Discard(m) PROVE (GracefulExit /\ ErrorsAreContained)'
  BY <1>12 DEF Discard, CanDeliver
<1>13. ASSUME NEW m \in Messages, DeliverNull(m) PROVE (GracefulExit /\ ErrorsAreContained)'
  <2>1. m \in JsonNull /\ Uncaught(m)
    BY <1>13 DEF DeliverNull
  <2>2. exit' = 1 /\ work'[m] = "thrown"
    BY <2>1, UncaughtFacts DEF Uncaught
  <2> QED BY <2>1, <2>2
<1>14. CASE ProbeStarts
  BY <1>14 DEF ProbeStarts
<1>15. CASE ProbeChecks
  BY <1>15 DEF ProbeChecks
<1>16. ASSUME NEW s \in Signals, SignalArrives(s) PROVE (GracefulExit /\ ErrorsAreContained)'
  BY <1>16 DEF SignalArrives, Await
<1>17. ASSUME NEW s \in Signals, ShutdownStep(s) PROVE (GracefulExit /\ ErrorsAreContained)'
  <2>1. CASE StopConsumer(s)
    BY <2>1 DEF StopConsumer, Await
  <2>2. CASE CloseChannel(s)
    BY <2>2 DEF CloseChannel, Await
  <2>3. CASE CloseConnection(s)
    BY <2>3 DEF CloseConnection, Await
  <2>4. CASE QuitRedis(s)
    BY <2>4 DEF QuitRedis, Await
  <2>5. CASE CloseServer(s)
    BY <2>5 DEF CloseServer, Await
  <2>6. CASE Disconnect(s)
    BY <2>6, ExitFacts DEF Disconnect, Exit, Items
  <2> QED BY <1>17, <2>1, <2>2, <2>3, <2>4, <2>5, <2>6 DEF ShutdownStep
<1>18. CASE WatchdogFires
  BY <1>18, ExitFacts DEF WatchdogFires, Exit
<1>19. CASE UNCHANGED serverVars
  BY <1>19 DEF serverVars
<1> QED
  BY <1>1, <1>2, <1>3, <1>4, <1>5, <1>6, <1>7, <1>8, <1>9, <1>10, <1>11, <1>12,
     <1>13, <1>14, <1>15, <1>16, <1>17, <1>18, <1>19 DEF ServerNext
-----------------------------------------------------------------------------
(* The strengthened invariant of a process.                                *)
THEOREM ServerInvariant == ServerSpec => []ServerInv
<1>1. ServerInit => ServerInv
  <2> SUFFICES ASSUME ServerInit PROVE ServerInv
    OBVIOUS
  <2> USE ServerAssumption DEF ServerInit, Alive
  <2>1. ServerTypeOK
    <3>1. tries \in [Messages -> 0..MaxTries]
      OBVIOUS
    <3>2. /\ work \in [Items -> Operations \cup {"none", "answered", "cut", "thrown"}]
          /\ shutdown \in [Signals -> Shutdowns]
          /\ broker \in [Messages -> {"ready", "unacked", "acked", "dead"}]
      BY DEF Shutdowns
    <3> QED BY <3>1, <3>2 DEF ServerTypeOK, BootSteps
  <2>2. BootInv /\ ProbeInv
    BY DEF BootInv, ProbeInv
  <2>3. MessagesInv
    BY DEF MessagesInv, Items, Operations
  <2>4. ShutdownInv
    BY DEF ShutdownInv, Items
  <2>5. GracefulExit /\ ErrorsAreContained
    BY DEF GracefulExit, ErrorsAreContained
  <2> QED BY <2>1, <2>2, <2>3, <2>4, <2>5 DEF ServerInv
<1>2. ServerInv /\ [ServerNext]_serverVars => ServerInv'
  <2> SUFFICES ASSUME ServerInv, [ServerNext]_serverVars PROVE ServerInv'
    OBVIOUS
  <2> USE DEF ServerInv
  <2>1. ServerTypeOK'
    BY TypeStep
  <2>2. BootInv' /\ MessagesInv'
    BY BootInvStep, MessagesInvStep
  <2>3. ShutdownInv' /\ ProbeInv'
    BY ShutdownInvStep, ProbeInvStep
  <2>4. (GracefulExit /\ ErrorsAreContained)'
    BY ExitStep
  <2> QED BY <2>1, <2>2, <2>3, <2>4
<1> QED BY <1>1, <1>2, PTL DEF ServerSpec

(* The types of the variables of a process.                                *)
THEOREM ServerTypes == ServerSpec => []ServerTypeOK
<1>1. ServerInv => ServerTypeOK
  BY DEF ServerInv
<1> QED BY <1>1, ServerInvariant, PTL

(* However a process ends, a message is handled to the end, given up as    *)
(* often tried as it may, or back with the broker; only what no handler    *)
(* knows, or is not JSON, is discarded.                                    *)
THEOREM ServerLosesNoMessage == ServerSpec => []NoMessageLost
<1>1. ServerInv => NoMessageLost
  BY DEF ServerInv, MessagesInv, NoMessageLost
<1> QED BY <1>1, ServerInvariant, PTL

(* A process that exits with 0 answered its requests and closed what it    *)
(* had opened, under any number of signals.                                *)
THEOREM ServerExitsGracefully == ServerSpec => []GracefulExit
<1>1. ServerInv => GracefulExit
  BY DEF ServerInv
<1> QED BY <1>1, ServerInvariant, PTL

(* A probe answered "ready" began on an open channel and before shutdown.  *)
THEOREM ServerReadyIsTrue == ServerSpec => []ReadyIsTrue
<1>1. ServerInv => ReadyIsTrue
  BY DEF ServerInv, ProbeInv, ReadyIsTrue
<1> QED BY <1>1, ServerInvariant, PTL

(* While the channel is open only a null message ends a process that       *)
(* serves.                                                                 *)
THEOREM ServerContainsErrors == ServerSpec => []ErrorsAreContained
<1>1. ServerInv => ErrorsAreContained
  BY DEF ServerInv
<1> QED BY <1>1, ServerInvariant, PTL
=============================================================================
