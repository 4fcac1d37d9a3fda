-------------------------- MODULE ServerLifecycle --------------------------
(***************************************************************************)
(* One process of the service from boot to exit (src/src/server.ts): the   *)
(* boot steps, the readiness probe, the shutdown on a signal, and the      *)
(* requests and messages that are being handled meanwhile.                 *)
(*                                                                         *)
(* A handler is the operations it still has to do: on Postgres, on Redis,  *)
(* and on the channel; it may leave some out and any may throw.  What they *)
(* do to orders and drivers is the subject of Dispatch.                    *)
(*                                                                         *)
(* Not under src/: the client libraries.  A channel that is closing or     *)
(* closed throws at every use, emits "close" once and "drain" no more; a   *)
(* broker puts back what is unacknowledged on it; and a rejection nobody   *)
(* handles, like an "error" event nobody listens to, ends the process.     *)
(***************************************************************************)
EXTENDS Naturals

CONSTANTS Events,       \* messages with a handler: events, expirations
          Unknown,      \* JSON that no branch of the consumer knows
          NotJson,      \* what JSON.parse throws at
          JsonNull,     \* the JSON value null
          Requests,
          Signals,      \* SIGTERM, SIGINT: each starts shutdown() once
          MaxTries,     \* x-attempt at which a message is dead-lettered (3)
          Running       \* no exit code yet

Messages == Events \cup Unknown \cup NotJson \cup JsonNull

ASSUME ServerAssumption ==
  /\ Messages \cap Requests = {}
  /\ MaxTries \in Nat
  /\ Running \notin {0, 1}

VARIABLES
  boot,          \* the boot step under way
  exit,          \* the exit code
  channel, redis, server,   \* the resources that shutdown closes
  consuming,     \* the broker delivers messages
  activeChannel, shuttingDown, watchdog,
  shutdown,      \* the awaited operation of each shutdown()
  work,          \* the awaited operation of each request and message
  broker,        \* what the broker knows of a message
  tries,         \* its x-attempt
  handled,       \* history: messages whose handler came to its end
  probe          \* the readiness probe, with what held when it began

resources == <<channel, redis, server, consuming>>
flags     == <<activeChannel, shuttingDown, watchdog>>
messages  == <<broker, tries, handled>>
serverVars == <<boot, exit, resources, flags, shutdown, work, messages, probe>>

Items == Messages \cup Requests

BootSteps == {"postgres", "redis", "rabbitmq", "topology", "consumer",
              "listen", "serving"}

Operations == {"db", "redis", "publish", "drain", "finish"}

Shutdowns == {"none", "cancel", "closeChannel", "closeConnection", "quit",
              "closeServer", "disconnect"}

ServerTypeOK ==
  /\ boot \in BootSteps
  /\ exit \in {Running, 0, 1}
  /\ channel \in {"none", "open", "closing", "closed"}
  /\ redis \in {"none", "open", "closed"}
  /\ server \in {"none", "listening", "closing"}
  /\ {consuming, activeChannel, shuttingDown, watchdog} \subseteq BOOLEAN
  /\ shutdown \in [Signals -> Shutdowns]
  /\ work \in [Items -> Operations \cup {"none", "answered", "cut", "thrown"}]
  /\ broker \in [Messages -> {"ready", "unacked", "acked", "dead"}]
  /\ tries \in [Messages -> 0..MaxTries]
  /\ handled \subseteq Messages
  /\ probe \in [at: {"none", "db", "redis", "ready", "notReady"},
                channel: {"none", "open", "closing", "closed"},
                shuttingDown: BOOLEAN]

ServerInit ==
  /\ boot = "postgres"
  /\ exit = Running
  /\ channel = "none" /\ redis = "none" /\ server = "none"
  /\ consuming = FALSE
  /\ activeChannel = FALSE /\ shuttingDown = FALSE /\ watchdog = FALSE
  /\ shutdown = [s \in Signals |-> "none"]
  /\ work = [w \in Items |-> "none"]
  /\ broker = [m \in Messages |-> "ready"]
  /\ tries = [m \in Messages |-> 0]
  /\ handled = {}
  /\ probe = [at |-> "none", channel |-> "none", shuttingDown |-> FALSE]

Alive == exit = Running
-----------------------------------------------------------------------------
(* The broker puts back what is unacknowledged on a channel that is gone.  *)
PutBack ==
  [m \in Messages |-> IF broker[m] = "unacked" THEN "ready" ELSE broker[m]]

(* Handlers stop where they are; a request then has no answer.             *)
CutOff ==
  [w \in Items |-> IF work[w] \notin Operations THEN work[w]
                   ELSE IF w \in Requests THEN "cut" ELSE "none"]

Exit(code) ==
  /\ exit' = code
  /\ work' = CutOff
  /\ broker' = PutBack
  /\ UNCHANGED <<boot, resources, flags, shutdown, tries, handled, probe>>

(* The consumer's callback for message m rejects: nobody handles that.     *)
Uncaught(m) ==
  /\ exit' = 1
  /\ work' = [CutOff EXCEPT ![m] = "thrown"]
  /\ broker' = PutBack
  /\ UNCHANGED <<boot, resources, flags, shutdown, tries, handled, probe>>
-----------------------------------------------------------------------------
(* Boot: each bootStep opens something and is followed by the next one.    *)
After == [postgres |-> "redis", redis |-> "rabbitmq", rabbitmq |-> "topology",
          topology |-> "consumer", consumer |-> "listen", listen |-> "serving"]

BootStep ==
  /\ Alive /\ boot # "serving"
  /\ boot' = After[boot]
  /\ redis' = IF boot = "redis" THEN "open" ELSE redis
  /\ channel' = IF boot = "rabbitmq" THEN "open" ELSE channel
  /\ activeChannel' = (boot = "topology" \/ activeChannel)
  /\ consuming' = (boot = "consumer" \/ consuming)
  /\ server' = IF boot = "listen" THEN "listening" ELSE server
  /\ UNCHANGED <<exit, shuttingDown, watchdog, shutdown, work, messages, probe>>

(* A BootError: main().catch                                               *)
BootFails ==
  /\ Alive /\ boot # "serving"
  /\ Exit(1)
-----------------------------------------------------------------------------
(* Mutation: the channel's close event is not listened to.                 *)
ChannelClosesUnnoticed ==
  /\ Alive /\ boot \in {"listen", "serving"}
  /\ channel = "open"
  /\ channel' = "closed"
  /\ consuming' = FALSE
  /\ broker' = PutBack
  /\ UNCHANGED <<boot, exit, redis, server, flags, shutdown, work, tries,
                 handled, probe>>

(* The channel is lost while serving, in order or with an error.           *)
ChannelCloses ==
  /\ Alive /\ boot \in {"listen", "serving"}
  /\ channel = "open"
  /\ channel' = "closed"
  /\ activeChannel' = FALSE
  /\ consuming' = FALSE
  /\ broker' = PutBack
  /\ UNCHANGED <<boot, exit, redis, server, shuttingDown, watchdog, shutdown,
                 work, tries, handled, probe>>

ChannelFails ==
  /\ Alive /\ boot \in {"listen", "serving"}
  /\ channel = "open"
  /\ exit' = 1
  /\ channel' = "closed"
  /\ work' = CutOff
  /\ broker' = PutBack
  /\ UNCHANGED <<boot, redis, server, consuming, flags, shutdown, tries,
                 handled, probe>>
-----------------------------------------------------------------------------
(* Requests and messages.                                                  *)
Arrive(r) ==
  /\ Alive /\ server = "listening"
  /\ work[r] = "none"
  /\ work' = [work EXCEPT ![r] = "db"]
  /\ UNCHANGED <<boot, exit, resources, flags, shutdown, messages, probe>>

CanDeliver(m) ==
  /\ Alive /\ consuming
  /\ broker[m] = "ready"
  /\ work[m] = "none"

Deliver(m) ==
  /\ CanDeliver(m) /\ m \in Events
  /\ broker' = [broker EXCEPT ![m] = "unacked"]
  /\ work' = [work EXCEPT ![m] = "db"]
  /\ UNCHANGED <<boot, exit, resources, flags, shutdown, tries, handled, probe>>

(* What no branch knows is acknowledged, what is not JSON is given up.     *)
Discard(m) ==
  /\ CanDeliver(m)
  /\ \/ m \in Unknown /\ broker' = [broker EXCEPT ![m] = "acked"]
     \/ m \in NotJson /\ broker' = [broker EXCEPT ![m] = "dead"]
  /\ UNCHANGED <<boot, exit, resources, flags, shutdown, work, tries, handled,
                 probe>>

(* null parses, and envelope.correlationId throws between the try blocks.  *)
DeliverNull(m) ==
  /\ CanDeliver(m) /\ m \in JsonNull
  /\ Uncaught(m)

(* The awaited operation is done, and the handler goes on to another one.  *)
Usable(op) ==
  CASE op = "db"                   -> TRUE
    [] op = "redis"                -> redis = "open"
    [] op \in {"publish", "drain"} -> channel = "open"

Later(op) ==
  CASE op = "db"      -> {"redis", "publish", "finish"}
    [] op = "redis"   -> {"db", "publish", "finish"}
    [] op = "publish" -> {"drain", "finish"}   \* the buffer is full, or not
    [] op = "drain"   -> {"finish"}

Proceed(w) ==
  /\ Alive /\ work[w] \in Operations \ {"finish"}
  /\ Usable(work[w])
  /\ work' \in {[work EXCEPT ![w] = op] : op \in Later(work[w])}
  /\ handled' = handled \cup {m \in Messages : m = w /\ work'[w] = "finish"}
  /\ UNCHANGED <<boot, exit, resources, flags, shutdown, broker, tries, probe>>

(* The answer, of the handler or of the error mapper.                      *)
AnswerRequest(r) ==
  /\ Alive /\ work[r] \in Operations \ {"drain"}
  /\ work' = [work EXCEPT ![r] = "answered"]
  /\ UNCHANGED <<boot, exit, resources, flags, shutdown, messages, probe>>

(* Mutation: a message is acknowledged before it is handled.               *)
AckFirst(m) ==
  /\ Alive /\ work[m] \in {"db", "finish"}
  /\ channel = "open"
  /\ work' = [work EXCEPT ![m] = "none"]
  /\ broker' = [broker EXCEPT ![m] = "acked"]
  /\ UNCHANGED <<boot, exit, resources, flags, shutdown, tries, handled, probe>>

Ack(m) ==
  /\ Alive /\ work[m] = "finish"
  /\ channel = "open"
  /\ work' = [work EXCEPT ![m] = "none"]
  /\ broker' = [broker EXCEPT ![m] = "acked"]
  /\ UNCHANGED <<boot, exit, resources, flags, shutdown, tries, handled, probe>>

(* Mutation: an error of a use case leaves the consumer's callback.        *)
MessageFailsUncaught(m) ==
  /\ Alive /\ work[m] \in Operations \ {"drain", "finish"}
  /\ Uncaught(m)

(* Mutation: x-attempt is not looked at.                                   *)
MessageFailsForever(m) ==
  /\ Alive /\ work[m] \in Operations \ {"drain", "finish"}
  /\ channel = "open"
  /\ work' = [work EXCEPT ![m] = "none"]
  /\ tries' = [tries EXCEPT ![m] = @ + 1]
  /\ broker' = [broker EXCEPT ![m] = "ready"]
  /\ UNCHANGED <<boot, exit, resources, flags, shutdown, handled, probe>>

(* An operation throws, and the catch clause publishes the message again   *)
(* or gives it up.                                                         *)
MessageFails(m) ==
  /\ Alive /\ work[m] \in Operations \ {"drain", "finish"}
  /\ channel = "open"
  /\ work' = [work EXCEPT ![m] = "none"]
  /\ IF tries[m] < MaxTries
     THEN /\ tries' = [tries EXCEPT ![m] = @ + 1]
          /\ broker' = [broker EXCEPT ![m] = "ready"]
     ELSE /\ broker' = [broker EXCEPT ![m] = "dead"]
          /\ UNCHANGED tries
  /\ UNCHANGED <<boot, exit, resources, flags, shutdown, handled, probe>>

(* Without a channel the acknowledgement throws, the catch clause throws   *)
(* as well, and nobody handles the rejection of the callback.              *)
RejectionUnhandled(m) ==
  /\ Alive /\ work[m] \in Operations \ {"drain"}
  /\ channel # "open"
  /\ Uncaught(m)
-----------------------------------------------------------------------------
(* readyz.  Each check but the first follows an await.                     *)
ProbeStarts ==
  /\ Alive /\ server = "listening"
  /\ probe.at \notin {"db", "redis"}
  /\ probe' = [at |-> IF shuttingDown THEN "notReady" ELSE "db",
               channel |-> channel, shuttingDown |-> shuttingDown]
  /\ UNCHANGED <<boot, exit, resources, flags, shutdown, work, messages>>

ProbeChecks ==
  /\ Alive
  /\ \/ /\ probe.at = "db"
        /\ \E ok \in BOOLEAN :
             probe' = [probe EXCEPT !.at = IF ok /\ activeChannel THEN "redis"
                                           ELSE "notReady"]
     \/ /\ probe.at = "redis"
        /\ \E ok \in BOOLEAN :
             probe' = [probe EXCEPT !.at = IF ok /\ redis = "open" THEN "ready"
                                           ELSE "notReady"]
  /\ UNCHANGED <<boot, exit, resources, flags, shutdown, work, messages>>
-----------------------------------------------------------------------------
(* shutdown()                                                              *)
Await(s, op) == shutdown' = [shutdown EXCEPT ![s] = op]

(* consumer.stop() throws at once when the channel is closed; what follows *)
(* it is then left out.                                                    *)
SignalArrives(s) ==
  /\ Alive /\ boot = "serving"
  /\ shutdown[s] = "none"
  /\ shuttingDown' = TRUE
  /\ Await(s, IF channel = "open" THEN "cancel" ELSE "quit")
  /\ UNCHANGED <<boot, exit, resources, activeChannel, watchdog, work, messages,
                 probe>>

(* The consumer is cancelled: channel.close() is called, which a second    *)
(* signal may already have done; or the channel went before the reply.     *)
StopConsumer(s) ==
  /\ Alive /\ shutdown[s] = "cancel"
  /\ \/ /\ channel = "open"
        /\ consuming' = FALSE
        /\ activeChannel' = FALSE
        /\ channel' = "closing"
        /\ Await(s, "closeChannel")
     \/ /\ channel # "open"
        /\ activeChannel' = FALSE
        /\ Await(s, "closeConnection")
        /\ UNCHANGED <<consuming, channel>>
     \/ /\ channel = "closed"
        /\ Await(s, "quit")
        /\ UNCHANGED <<consuming, activeChannel, channel>>
  /\ UNCHANGED <<boot, exit, redis, server, shuttingDown, watchdog, work,
                 messages, probe>>

CloseChannel(s) ==
  /\ Alive /\ shutdown[s] = "closeChannel"
  /\ channel' = "closed"
  /\ broker' = PutBack
  /\ Await(s, "closeConnection")
  /\ UNCHANGED <<boot, exit, redis, server, consuming, flags, work, tries,
                 handled, probe>>

(* A connection takes its channel with it.                                 *)
CloseConnection(s) ==
  /\ Alive /\ shutdown[s] = "closeConnection"
  /\ channel' = "closed"
  /\ broker' = PutBack
  /\ Await(s, "quit")
  /\ UNCHANGED <<boot, exit, redis, server, consuming, flags, work, tries,
                 handled, probe>>

(* Mutation: no watchdog.                                                  *)
QuitRedisNoWatchdog(s) ==
  /\ Alive /\ shutdown[s] = "quit"
  /\ redis' = "closed"
  /\ server' = "closing"
  /\ Await(s, "closeServer")
  /\ UNCHANGED <<boot, exit, channel, consuming, flags, work, messages, probe>>

(* redis.quit() is done: server.close() is called and the watchdog set.    *)
QuitRedis(s) ==
  /\ Alive /\ shutdown[s] = "quit"
  /\ redis' = "closed"
  /\ server' = "closing"
  /\ watchdog' = TRUE
  /\ Await(s, "closeServer")
  /\ UNCHANGED <<boot, exit, channel, consuming, activeChannel, shuttingDown,
                 work, messages, probe>>

(* Mutation: the server's last requests are not waited for.                *)
CloseServerAtOnce(s) ==
  /\ Alive /\ shutdown[s] = "closeServer"
  /\ Await(s, "disconnect")
  /\ UNCHANGED <<boot, exit, resources, flags, work, messages, probe>>

(* The server closes when its last request is answered.                    *)
CloseServer(s) ==
  /\ Alive /\ shutdown[s] = "closeServer"
  /\ \A r \in Requests : work[r] \notin Operations
  /\ probe.at \notin {"db", "redis"}
  /\ Await(s, "disconnect")
  /\ UNCHANGED <<boot, exit, resources, flags, work, messages, probe>>

Disconnect(s) ==
  /\ Alive /\ shutdown[s] = "disconnect"
  /\ Exit(0)

WatchdogFires ==
  /\ Alive /\ watchdog
  /\ Exit(1)

ShutdownStep(s) ==
  StopConsumer(s) \/ CloseChannel(s) \/ CloseConnection(s) \/ QuitRedis(s)
  \/ CloseServer(s) \/ Disconnect(s)

ServerNext ==
  \/ BootStep \/ BootFails
  \/ ChannelCloses \/ ChannelFails
  \/ \E w \in Items : Proceed(w)
  \/ \E r \in Requests : Arrive(r) \/ AnswerRequest(r)
  \/ \E m \in Messages :
       \/ Deliver(m) \/ Discard(m) \/ DeliverNull(m)
       \/ Ack(m) \/ MessageFails(m) \/ RejectionUnhandled(m)
  \/ ProbeStarts \/ ProbeChecks
  \/ \E s \in Signals : SignalArrives(s) \/ ShutdownStep(s)
  \/ WatchdogFires

(* What shutdown() awaits is answered (a dead peer is found out by the     *)
(* heartbeat and rejects), and the timer fires.                            *)
ServerFairness ==
  /\ \A s \in Signals : WF_serverVars(ShutdownStep(s))
  /\ WF_serverVars(WatchdogFires)

ServerSpec == ServerInit /\ [][ServerNext]_serverVars /\ ServerFairness
-----------------------------------------------------------------------------
(* No message gets lost between the broker and the process, however it     *)
(* ends: what the broker forgets is an event handled to the end or failed  *)
(* as often as it may, or discarded as unknown or not JSON (so never a     *)
(* null), and it waits for nothing from a process or a channel that is     *)
(* gone.                                                                   *)
NoMessageLost ==
  \A m \in Messages :
    /\ broker[m] = "acked" => m \in (handled \cap Events) \cup Unknown
    /\ broker[m] = "dead" => m \in {n \in Events : tries[n] = MaxTries} \cup NotJson
    /\ broker[m] = "unacked" => Alive /\ channel # "closed" /\ work[m] \in Operations

(* Exit code 0 means that nobody's request was cut off and that nothing    *)
(* was still being delivered, under any number of signals and with the     *)
(* broker lost meanwhile.                                                  *)
GracefulExit ==
  exit = 0 => /\ \A r \in Requests : work[r] # "cut"
              /\ shuttingDown /\ channel # "open" /\ redis = "closed"

(* A probe that reports "ready" began on an open channel and before the    *)
(* shutdown, although it looks at them at different times                  *)
(* (README.md:39, dispatch-service.http:84).                               *)
ReadyIsTrue ==
  probe.at = "ready" => probe.channel = "open" /\ ~probe.shuttingDown

(* While its channel is open nothing but a null message ends a process     *)
(* that serves: no failing use case, no message of another content.  The   *)
(* null does, since it throws outside both try blocks of the consumer      *)
(* (dispatch-events-consumer.ts:40).                                       *)
ErrorsAreContained ==
  exit = 1 /\ boot = "serving" /\ channel = "open"
    => \E m \in JsonNull : work[m] = "thrown"

(* A shutdown ends, although a request may wait for a drain that never     *)
(* comes (server.ts:187).                                                  *)
ShutdownEnds == shuttingDown ~> ~Alive
=============================================================================
