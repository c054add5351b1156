--------------------------- MODULE LifespanProofs ---------------------------
(***************************************************************************)
(* What is proved of the lifespan of the application, for every cap on the *)
(* delay of a reconnection and every number of disturbances.               *)
(*                                                                         *)
(* The invariants of the runs follow from one picture: what exists in each *)
(* phase.  It is inductive where they are not, since a shutdown has to     *)
(* know what the startup it interrupts has already made.                   *)
(***************************************************************************)
EXTENDS Lifespan, TLAPS

\* What the startup has made, and the shutdown has not taken back, in each
\* phase: the connection, the task, the tag and the consumer.
PhaseInv ==
    /\ ~settings.workerEnabled =>
          /\ phase \in {"off", "serving", "closed"}
          /\ link = "none" /\ task = "none" /\ ~tag /\ ~subscribed
    /\ phase \in {"off", "connecting"} =>
          link = "none" /\ task = "none" /\ ~tag /\ ~subscribed
    /\ phase = "serving" /\ settings.workerEnabled =>
          /\ link # "none"
          /\ task \in Starting \cup {"done", "failed"}
          /\ tag = (task = "done")
          /\ subscribed = (task = "done")
    /\ phase = "stopping" => link # "none" /\ task = "done" /\ tag /\ subscribed
    /\ phase = "cancelling" => link # "none" /\ task \in Starting /\ ~tag /\ ~subscribed
    /\ phase = "disconnecting" => link # "none" /\ task \notin Starting /\ ~tag
    /\ phase = "closed" => link = "none" /\ task \notin Starting /\ ~tag /\ ~subscribed

\* The globals of core/state.py follow the connection.
FlagsInv == /\ flags.adapterSet = (link # "none")
            /\ flags.queueConnected = (link # "none")

\* A shutdown under way is one of the disturbances, and they are bounded.
DisturbanceInv ==
    /\ phase \in {"stopping", "cancelling"} => disturbances > 0
    /\ disturbances <= MaxDisturbances

LifeInv == TypeOK /\ PhaseInv /\ FlagsInv /\ DisturbanceInv

-----------------------------------------------------------------------------
(* The invariant.                                                          *)

\* The delay of connect() stays within its cap.
LEMMA DelayCapped ==
    \A d \in 1 .. MaxDelay : Lesser(2 * d, MaxDelay) \in 1 .. MaxDelay
BY DelayAssumption DEF Lesser

\* The globals before anything has set them.
LEMMA ZeroFlagsType ==
    ZeroFlags \in Flags /\ ZeroFlags.adapterSet = FALSE /\ ZeroFlags.queueConnected = FALSE
BY DEF ZeroFlags, Flags

\* The invariant holds before the application starts.
LEMMA LifeInit == Init => LifeInv
<1> SUFFICES ASSUME Init PROVE LifeInv
  OBVIOUS
<1>1. TypeOK
  <2>1. delay \in 1 .. MaxDelay /\ disturbances \in Nat
    BY DelayAssumption DEF Init
  <2>2. flags \in Flags
    BY ZeroFlagsType DEF Init
  <2>3. QED
    BY <2>1, <2>2 DEF Init, TypeOK, Phases
<1>2. PhaseInv
  BY DEF Init, PhaseInv
<1>3. FlagsInv
  BY ZeroFlagsType DEF Init, FlagsInv
<1>4. DisturbanceInv
  BY BoundAssumption DEF Init, DisturbanceInv
<1>5. QED
  BY <1>1, <1>2, <1>3, <1>4 DEF LifeInv

\* The steps of the startup.
LEMMA StartupLife ==
    ASSUME LifeInv,
           Start \/ Connect \/ ConnectFails \/ OpenChannel \/ Subscribe \/ StartRaises
    PROVE  LifeInv'
<1> USE DEF LifeInv, TypeOK, PhaseInv, FlagsInv, DisturbanceInv, Settings, Phases, Flags,
            Starting
<1>1. CASE Start
  BY <1>1, DelayAssumption DEF Start
<1>2. CASE Connect
  BY <1>2 DEF Connect
<1>3. CASE ConnectFails
  <2>1. delay' \in 1 .. MaxDelay
    BY <1>3, DelayCapped DEF ConnectFails
  <2>2. QED
    BY <1>3, <2>1 DEF ConnectFails
<1>4. CASE OpenChannel
  BY <1>4 DEF OpenChannel
<1>5. CASE Subscribe
  BY <1>5 DEF Subscribe
<1>6. CASE StartRaises
  BY <1>6, BoundAssumption DEF StartRaises, Disturb
<1>7. QED
  BY <1>1, <1>2, <1>3, <1>4, <1>5, <1>6

\* The steps of the shutdown, and the end of the process.
LEMMA ShutdownLife ==
    ASSUME LifeInv,
           \/ Shutdown \/ CancelConsumer \/ CancelConsumerRaises \/ TaskCancelled
           \/ Disconnect \/ Exit \/ Crash
    PROVE  LifeInv'
<1> USE DEF LifeInv, TypeOK, PhaseInv, FlagsInv, DisturbanceInv, Settings, Phases, Flags,
            Starting
<1>1. CASE Shutdown
  BY <1>1, BoundAssumption DEF Shutdown, AfterStop, Disturb
<1>2. CASE CancelConsumer
  BY <1>2 DEF CancelConsumer, AfterStop
<1>3. CASE CancelConsumerRaises
  BY <1>3 DEF CancelConsumerRaises, AfterStop
<1>4. CASE TaskCancelled
  BY <1>4 DEF TaskCancelled
<1>5. CASE Disconnect
  BY <1>5 DEF Disconnect
<1>6. CASE Exit
  <2>1. flags' \in Flags /\ flags'.adapterSet = FALSE /\ flags'.queueConnected = FALSE
    BY <1>6, ZeroFlagsType DEF Exit
  <2>2. QED
    BY <1>6, <2>1 DEF Exit
<1>7. CASE Crash
  <2>1. disturbances' \in Nat /\ disturbances' <= MaxDisturbances
    BY <1>7, BoundAssumption DEF Crash, Disturb
  <2>2. QED
    BY <1>7, <2>1, ZeroFlagsType DEF Crash
<1>8. QED
  BY <1>1, <1>2, <1>3, <1>4, <1>5, <1>6, <1>7

\* The steps of the broker and of the network.
LEMMA NetworkLife ==
    ASSUME LifeInv, ConnectionLost \/ BrokerGoes \/ BrokerComes \/ Reconnect
    PROVE  LifeInv'
<1> USE DEF LifeInv, TypeOK, PhaseInv, FlagsInv, DisturbanceInv, Starting
<1>1. CASE ConnectionLost
  BY <1>1, BoundAssumption DEF ConnectionLost, LoseLink, Disturb
<1>2. CASE BrokerGoes
  BY <1>2, BoundAssumption DEF BrokerGoes, LoseLink, Disturb
<1>3. CASE BrokerComes
  BY <1>3 DEF BrokerComes
<1>4. CASE Reconnect
  BY <1>4 DEF Reconnect
<1>5. QED
  BY <1>1, <1>2, <1>3, <1>4

\* Every step keeps the picture.
LEMMA LifeStep == ASSUME LifeInv, [Next]_vars PROVE LifeInv'
<1>1. CASE UNCHANGED vars
  BY <1>1 DEF vars, LifeInv, TypeOK, PhaseInv, FlagsInv, DisturbanceInv
<1>2. CASE Next
  BY <1>2, StartupLife, ShutdownLife, NetworkLife DEF Next
<1>3. QED
  BY <1>1, <1>2

\* Every step of startup, task, shutdown and broker keeps the invariant.
LEMMA LifeInductive == Spec => []LifeInv
<1>1. LifeInv /\ [Next]_vars => LifeInv'
  BY LifeStep
<1>2. QED
  BY <1>1, LifeInit, PTL DEF Spec

-----------------------------------------------------------------------------
(* The invariants of the runs.                                             *)

\* Type correctness: the delay of connect() stays within its cap, the phase,
\* the task and the connection are among those the code knows.
THEOREM LifespanTypes == Spec => []TypeOK
<1>1. LifeInv => TypeOK
  BY DEF LifeInv
<1>2. QED
  BY <1>1, LifeInductive, PTL

\* What /health says of the queue is the state of a connection that exists,
\* in every phase of every life of the process (core/state.py, health.py).
THEOREM HealthIsLive == Spec => []QueueConnectedIsLive
<1>1. LifeInv => QueueConnectedIsLive
  BY DEF LifeInv, TypeOK, FlagsInv, QueueConnectedIsLive, GetQueueConnected
<1>2. QED
  BY <1>1, LifeInductive, PTL

\* Wherever a shutdown finds the startup, nothing of the worker outlives it:
\* no connection, no consumer, no task that could subscribe later (main.py).
THEOREM ShutdownLeavesNothing == Spec => []NothingOutlives
<1>1. LifeInv => NothingOutlives
  BY DEF LifeInv, PhaseInv, NothingOutlives, Starting
<1>2. QED
  BY <1>1, LifeInductive, PTL

-----------------------------------------------------------------------------
(* Lifespan implements the process of Worker.                              *)

\* A step that Worker does not see.
LEMMA Unseen ==
    ASSUME UNCHANGED <<processBar, consumerBar, link, disturbancesBar>>
    PROVE  UNCHANGED W!vars
BY DEF W!vars, W!brokerVars, W!processVars

\* Without messages nothing is taken back, and no coroutine can be cancelled.
LEMMA NothingToRequeue == W!RequeueUnacked /\ W!SomeHandlersCancelled
BY DEF W!RequeueUnacked, W!SomeHandlersCancelled

\* The initial states map to initial states.
LEMMA InitImplements == Init => W!Init
BY DEF Init, W!Init, W!ZeroMetrics, W!Counters, processBar, consumerBar, disturbancesBar

\* The steps of the startup: only the task of start() and the connection show.
LEMMA StartupImplements ==
    ASSUME LifeInv, LifeInv',
           Start \/ Connect \/ ConnectFails \/ OpenChannel \/ Subscribe \/ StartRaises
    PROVE  W!Next \/ UNCHANGED W!vars
<1> USE DEF LifeInv, PhaseInv, processBar, consumerBar, disturbancesBar, Starting
<1>1. CASE Start \/ ConnectFails \/ OpenChannel
  <2>1. UNCHANGED <<processBar, consumerBar, link, disturbancesBar>>
    BY <1>1 DEF Start, ConnectFails, OpenChannel
  <2>2. QED
    BY <2>1, Unseen
<1>2. CASE Connect
  <2>1. /\ processBar = "off" /\ processBar' = "running" /\ link' = "open"
        /\ consumerBar' = "starting" /\ UNCHANGED disturbancesBar
    BY <1>2 DEF Connect
  <2>2. W!Boot
    BY <2>1 DEF W!Boot, W!brokerVars
  <2>3. QED
    BY <2>2 DEF W!Next
<1>3. CASE Subscribe
  <2>1. /\ consumerBar = "starting" /\ consumerBar' = "consuming" /\ link = "open"
        /\ UNCHANGED <<processBar, link, disturbancesBar>>
    BY <1>3 DEF Subscribe
  <2>2. W!StartConsumer
    BY <2>1 DEF W!StartConsumer, W!brokerVars
  <2>3. QED
    BY <2>2 DEF W!Next
<1>4. CASE StartRaises
  <2>1. /\ consumerBar = "starting" /\ consumerBar' = "failed"
        /\ UNCHANGED <<processBar, link>>
    BY <1>4 DEF StartRaises
  <2>2. disturbancesBar < MaxDisturbances /\ disturbancesBar' = disturbancesBar + 1
    BY <1>4 DEF StartRaises, Disturb
  <2>3. W!StartConsumerRaises
    BY <2>1, <2>2 DEF W!StartConsumerRaises, W!Disturb, W!brokerVars
  <2>4. QED
    BY <2>3 DEF W!Next
<1>5. QED
  BY <1>1, <1>2, <1>3, <1>4

\* What a shutdown that has stopped the consumer shows: wherever it found the
\* startup, it pays for it now.
LEMMA StopsConsumer ==
    ASSUME LifeInv, processBar = "running", processBar' = "draining",
           disturbancesBar < MaxDisturbances, disturbancesBar' = disturbancesBar + 1,
           UNCHANGED link,
           \/ consumerBar' = "none"
           \/ /\ consumerBar' = "consuming"
              /\ \/ consumerBar = "consuming" /\ link = "lost"
                 \/ consumerBar = "starting" /\ link = "open"
    PROVE  W!Next
<1>1. W!StopConsumer
  BY DEF W!StopConsumer, W!Disturb, W!brokerVars
<1>2. QED
  BY <1>1 DEF W!Next

\* The steps of the shutdown up to the disconnection.
LEMMA StopImplements ==
    ASSUME LifeInv, LifeInv',
           Shutdown \/ CancelConsumer \/ CancelConsumerRaises \/ TaskCancelled
    PROVE  W!Next \/ UNCHANGED W!vars
<1> USE DEF LifeInv, PhaseInv, processBar, consumerBar, disturbancesBar, Starting
<1>0. disturbances \in Nat /\ disturbances' \in Nat
  BY DEF TypeOK
<1>1. CASE Shutdown
  <2>1. phase = "serving" /\ disturbances' = disturbances + 1 /\ disturbances < MaxDisturbances
        /\ phase' = (IF tag THEN "stopping" ELSE AfterStop)
        /\ UNCHANGED <<settings, link, task, tag, subscribed>>
    BY <1>1 DEF Shutdown, Disturb
  <2>2. CASE ~settings.workerEnabled \/ tag \/ task \in Starting
    <3>1. UNCHANGED <<processBar, consumerBar, link, disturbancesBar>>
      BY <1>0, <2>1, <2>2 DEF AfterStop
    <3>2. QED
      BY <3>1, Unseen
  <2>3. CASE settings.workerEnabled /\ ~tag /\ task \notin Starting
    <3>1. /\ processBar = "running" /\ processBar' = "draining" /\ consumerBar' = "none"
          /\ disturbancesBar = disturbances /\ disturbancesBar' = disturbances'
      BY <2>1, <2>3 DEF AfterStop
    <3>2. QED
      BY <2>1, <3>1, StopsConsumer
  <2>4. QED
    BY <2>2, <2>3
<1>2. CASE CancelConsumer
  <2>1. /\ processBar = "running" /\ processBar' = "draining" /\ consumerBar' = "none"
        /\ disturbancesBar = disturbances - 1 /\ disturbancesBar' = disturbances
        /\ UNCHANGED link
    BY <1>2 DEF CancelConsumer, AfterStop
  <2>2. disturbancesBar < MaxDisturbances /\ disturbancesBar' = disturbancesBar + 1
    BY <1>0, <2>1, BoundAssumption DEF DisturbanceInv
  <2>3. QED
    BY <2>1, <2>2, StopsConsumer
<1>3. CASE CancelConsumerRaises
  <2>1. /\ processBar = "running" /\ processBar' = "draining"
        /\ consumerBar = "consuming" /\ consumerBar' \in {"none", "consuming"}
        /\ link = "lost"
        /\ disturbancesBar = disturbances - 1 /\ disturbancesBar' = disturbances
        /\ UNCHANGED link
    BY <1>3 DEF CancelConsumerRaises, AfterStop
  <2>2. disturbancesBar < MaxDisturbances /\ disturbancesBar' = disturbancesBar + 1
    BY <1>0, <2>1, BoundAssumption DEF DisturbanceInv
  <2>3. QED
    BY <2>1, <2>2, StopsConsumer
<1>4. CASE TaskCancelled
  <2>1. /\ processBar = "running" /\ processBar' = "draining"
        /\ consumerBar = "starting"
        /\ consumerBar' = "none" \/ (consumerBar' = "consuming" /\ link = "open")
        /\ disturbancesBar = disturbances - 1 /\ disturbancesBar' = disturbances
        /\ UNCHANGED link
    BY <1>4 DEF TaskCancelled
  <2>2. disturbancesBar < MaxDisturbances /\ disturbancesBar' = disturbancesBar + 1
    BY <1>0, <2>1, BoundAssumption DEF DisturbanceInv
  <2>3. QED
    BY <2>1, <2>2, StopsConsumer
<1>5. QED
  BY <1>1, <1>2, <1>3, <1>4

\* The disconnection, the end of the process and its crash.
LEMMA EndImplements ==
    ASSUME LifeInv, LifeInv', Disconnect \/ Exit \/ Crash
    PROVE  W!Next \/ UNCHANGED W!vars
<1> USE DEF LifeInv, PhaseInv, processBar, consumerBar, disturbancesBar, Starting
<1>0. disturbances \in Nat /\ disturbances' \in Nat
  BY DEF TypeOK
<1>1. CASE Disconnect
  <2>1. /\ processBar = "draining" /\ processBar' = "closed"
        /\ link' = "none" /\ consumerBar' = "none" /\ UNCHANGED disturbancesBar
    BY <1>1 DEF Disconnect
  <2>2. W!Disconnect
    BY <2>1, NothingToRequeue DEF W!Disconnect
  <2>3. QED
    BY <2>2 DEF W!Next
<1>2. CASE Exit
  <2>1. UNCHANGED <<consumerBar, link, disturbancesBar>>
    BY <1>2 DEF Exit
  <2>2. CASE settings.workerEnabled
    <3>1. processBar = "closed" /\ processBar' = "off"
      BY <1>2, <2>2 DEF Exit
    <3>2. W!Exit
      BY <2>1, <3>1 DEF W!Exit, W!brokerVars, W!ZeroMetrics, W!Counters
    <3>3. QED
      BY <3>2 DEF W!Next
  <2>3. CASE ~settings.workerEnabled
    <3>1. UNCHANGED processBar
      BY <1>2, <2>3 DEF Exit
    <3>2. QED
      BY <2>1, <3>1, Unseen
  <2>4. QED
    BY <2>2, <2>3
<1>3. CASE Crash
  <2>1. CASE ~settings.workerEnabled \/ phase = "connecting"
    <3>1. UNCHANGED <<processBar, consumerBar, link, disturbancesBar>>
      BY <1>3, <2>1 DEF Crash
    <3>2. QED
      BY <3>1, Unseen
  <2>2. CASE settings.workerEnabled /\ phase # "connecting"
    <3>1. /\ processBar # "off" /\ processBar' = "off"
          /\ link' = "none" /\ consumerBar' = "none"
      BY <1>3, <2>2 DEF Crash, TypeOK, Phases
    <3>2. disturbancesBar < MaxDisturbances /\ disturbancesBar' = disturbancesBar + 1
      BY <1>0, <1>3, <2>2, BoundAssumption DEF Crash, Disturb, DisturbanceInv
    <3>3. W!Crash
      BY <3>1, <3>2, NothingToRequeue
      DEF W!Crash, W!Disturb, W!ZeroMetrics, W!Counters
    <3>4. QED
      BY <3>3 DEF W!Next
  <2>3. QED
    BY <2>1, <2>2
<1>4. QED
  BY <1>1, <1>2, <1>3

\* The steps of the broker and of the network.
LEMMA NetworkImplements ==
    ASSUME LifeInv, LifeInv', ConnectionLost \/ BrokerGoes \/ BrokerComes \/ Reconnect
    PROVE  W!Next \/ UNCHANGED W!vars
<1> USE DEF LifeInv, PhaseInv, processBar, consumerBar, disturbancesBar, Starting
<1>0. disturbances \in Nat /\ disturbances' \in Nat
  BY DEF TypeOK
<1>1. ASSUME LoseLink, UNCHANGED <<settings, phase, task, subscribed>>
      PROVE  W!Next
  <2>1. link = "open" /\ link' = "lost" /\ UNCHANGED <<processBar, consumerBar>>
    BY <1>1 DEF LoseLink
  <2>2. disturbancesBar < MaxDisturbances /\ disturbancesBar' = disturbancesBar + 1
    BY <1>0, <1>1, BoundAssumption DEF LoseLink, Disturb, DisturbanceInv
  <2>3. W!ConnectionLost
    BY <2>1, <2>2, NothingToRequeue DEF W!ConnectionLost, W!Disturb
  <2>4. QED
    BY <2>3 DEF W!Next
<1>2. CASE ConnectionLost
  BY <1>1, <1>2 DEF ConnectionLost
<1>3. CASE BrokerGoes \/ BrokerComes
  <2>1. CASE LoseLink
    BY <1>1, <1>3, <2>1 DEF BrokerGoes, BrokerComes, LoseLink
  <2>2. CASE ~LoseLink
    <3>1. UNCHANGED <<processBar, consumerBar, link, disturbancesBar>>
      BY <1>3, <2>2 DEF BrokerGoes, BrokerComes
    <3>2. QED
      BY <3>1, Unseen
  <2>3. QED
    BY <2>1, <2>2
<1>4. CASE Reconnect
  <2>1. /\ link = "lost" /\ link' = "open"
        /\ UNCHANGED <<processBar, consumerBar, disturbancesBar>>
    BY <1>4 DEF Reconnect
  <2>2. W!Reconnect
    BY <2>1 DEF W!Reconnect, W!brokerVars
  <2>3. QED
    BY <2>2 DEF W!Next
<1>5. QED
  BY <1>2, <1>3, <1>4

\* The startup and the shutdown in single awaits do nothing that the process of
\* Worker does not do: whatever is proved of Worker's process, for which each
\* is one step, holds of main.lifespan as it is.
THEOREM LifespanImplements == Spec => ImplementsWorker
<1>1. LifeInv /\ LifeInv' /\ [Next]_vars => [W!Next]_(W!vars)
  <2> SUFFICES ASSUME LifeInv, LifeInv', [Next]_vars PROVE W!Next \/ UNCHANGED W!vars
    OBVIOUS
  <2>1. CASE UNCHANGED vars
    <3>1. UNCHANGED <<processBar, consumerBar, link, disturbancesBar>>
      BY <2>1 DEF vars, processBar, consumerBar, disturbancesBar
    <3>2. QED
      BY <3>1, Unseen
  <2>2. CASE Next
    BY <2>2, StartupImplements, StopImplements, EndImplements, NetworkImplements DEF Next
  <2>3. QED
    BY <2>1, <2>2
<1>2. QED
  BY <1>1, InitImplements, LifeInductive, PTL DEF Spec, ImplementsWorker, W!Spec

=============================================================================
