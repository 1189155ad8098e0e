-------------------------- MODULE ServerStartProof --------------------------
(***************************************************************************)
(* Proofs about ServerStart: services are deployed before their callers,   *)
(* the race for the refresh timer leaves at least one, and the shutdown    *)
(* hook's latch counts what is left to undeploy, for any number of         *)
(* instances and any plans.                                                *)
(***************************************************************************)
EXTENDS ServerStart, FiniteSetTheorems, TLAPS

\* A plan names ApiServerVerticle at most once.
OneApi ==
    \A p \in Plans : \A i, j \in DOMAIN p : p[i].api /\ p[j].api => i = j

Ending == hook \in {"undeploying", "halted"}

\* The type invariant without what the latch is, which follows from LatchInv,
\* and with what holds before the first module and of instances not started.
Types ==
    /\ plan \in Plans
    /\ next \in 0 .. Len(plan) + 1
    /\ deployer \in {"begin", "deploying", "done", "stopped"}
    /\ deployer = "deploying" => next \in DOMAIN plan
    /\ deployer = "begin" => next = 0 /\ hook \in {"none", "halted"}
    /\ deployed \subseteq DOMAIN plan
    /\ server \in [Instances -> ServerStates]
    /\ initCall \in [Instances -> Call]
    /\ \A v \in Instances : server[v] = "absent" => initCall[v].stage = "none"
    /\ tickCall \in [Instances -> Call]
    /\ issued \in 1 .. MaxKey
    /\ jwtAuth \in 0 .. MaxKey
    /\ timerSet \in BOOLEAN
    /\ timers \subseteq Instances
    /\ used \in [Instances -> 0 .. MaxKey]
    /\ hook \in {"none", "never", "ready", "undeploying", "halted"}
    /\ leaving \subseteq DOMAIN plan
    /\ leavers \subseteq DOMAIN plan

\* An instance is past init() only when a timer is set, and a timer that was
\* set runs until the verticles are undeployed.
TimerInv ==
    /\ \A v \in Instances : server[v] \in {"ready", "listening"} => timerSet
    /\ timerSet /\ ~Ending => timers # {}

\* The modules before the one whose turn it is, and no other, are deployed
\* while the process is not ending; the API server's turn has come when an
\* instance has started.
OrderInv ==
    /\ ~Ending => \A j \in DOMAIN plan : j < next => j \in deployed
    /\ \A i \in DOMAIN plan :
          plan[i].api /\ (\E v \in Instances : server[v] # "absent") => i <= next

\* What the hook set out to undeploy came before the module whose turn it is,
\* and what it still undeploys is deployed.
LatchInv ==
    /\ latch \in Nat
    /\ \A i \in deployed \cup leavers : i < next
    /\ leaving \subseteq leavers \cap deployed
    /\ LatchCountsWhatIsLeft

----------------------------------------------------------------------------
\* Types

LEMMA PlanFacts ==
    ASSUME plan \in Plans
    PROVE  /\ plan \in Seq(Module)
           /\ Len(plan) \in Nat /\ DOMAIN plan = 1 .. Len(plan)
           /\ \A i \in DOMAIN plan : plan[i] \in Module
  BY StartAssumption

LEMMA ReachedFacts ==
    ASSUME plan \in Plans, NEW i \in Nat \ {0}, i <= Len(plan) + 1
    PROVE  /\ Reached(i) \in {"deploying", "done", "stopped"}
           /\ Reached(i) = "deploying" => i \in DOMAIN plan
  BY PlanFacts DEF Reached

LEMMA InitTypes == Init => Types
<1> SUFFICES ASSUME Init PROVE Types
  OBVIOUS
<1>1. plan \in Plans /\ 0 \in 0 .. Len(plan) + 1
  BY PlanFacts DEF Init
<1>2. 1 \in 1 .. MaxKey /\ 0 \in 0 .. MaxKey
  BY StartAssumption
<1>3. [v \in Instances |-> NoCall] \in [Instances -> Call]
  BY <1>2 DEF Call, NoCall
<1> QED BY <1>1, <1>2, <1>3 DEF Init, Types, ServerStates, NoCall

LEMMA NextTypes == Types /\ [Next]_vars => Types'
<1> SUFFICES ASSUME Types, [Next]_vars PROVE Types'
  OBVIOUS
<1>0. /\ plan \in Plans /\ Len(plan) \in Nat /\ DOMAIN plan = 1 .. Len(plan)
      /\ NoCall \in Call /\ Sent \in Call /\ MaxKey \in Nat \ {0}
  BY PlanFacts, StartAssumption DEF Types, NoCall, Sent, Call
<1>1. CASE Begin
  <2>1. 1 \in Nat \ {0} /\ 1 <= Len(plan) + 1
    BY <1>0
  <2> QED BY <1>0, <1>1, <2>1, ReachedFacts
          DEF Begin, Types, Server_vars, Provider_vars
<1>2. CASE RegisterHook
  BY <1>2 DEF RegisterHook, Types, Deployer_vars, Server_vars, Provider_vars
<1>3. CASE ModuleDeployed
  <2>1. next \in DOMAIN plan /\ next + 1 \in Nat \ {0} /\ next + 1 <= Len(plan) + 1
    BY <1>0, <1>3 DEF ModuleDeployed, Types
  <2> QED BY <1>0, <1>3, <2>1, ReachedFacts
          DEF ModuleDeployed, Types, Server_vars, Provider_vars, Hook_vars
<1>4. CASE ModuleFails
  BY <1>4 DEF ModuleFails, Types, Server_vars, Provider_vars, Hook_vars
<1>5. ASSUME NEW v \in Instances, StartInstance(v) PROVE Types'
  BY <1>0, <1>5 DEF StartInstance, Types, Deployer_vars, Provider_vars, Hook_vars, ServerStates
<1>6. ASSUME NEW v \in Instances, KeysServed(v) PROVE Types'
  <2>1. [stage |-> "served", key |-> issued] \in Call
    BY <1>0 DEF Types, Call
  <2> QED BY <1>6, <2>1 DEF KeysServed, Types, Deployer_vars, Provider_vars, Hook_vars
<1>7. ASSUME NEW v \in Instances, KeysNotServed(v) PROVE Types'
  BY <1>0, <1>7 DEF KeysNotServed, Types, Deployer_vars, Provider_vars, Hook_vars, ServerStates
<1>8. ASSUME NEW v \in Instances, Initialised(v) PROVE Types'
  BY <1>8 DEF Initialised, Types, Deployer_vars, Provider_vars, Hook_vars, ServerStates
<1>9. ASSUME NEW v \in Instances, ArmTimer(v) PROVE Types'
  BY <1>9 DEF ArmTimer, Types, Deployer_vars, Hook_vars, ServerStates
<1>10. ASSUME NEW v \in Instances, Listen(v) PROVE Types'
  <2>1. initCall[v].key \in 0 .. MaxKey
    BY DEF Types, Call
  <2> QED BY <1>10, <2>1 DEF Listen, Types, Deployer_vars, Provider_vars, Hook_vars, ServerStates
<1>11. ASSUME NEW v \in Instances, Tick(v) PROVE Types'
  BY <1>0, <1>11 DEF Tick, Types, Deployer_vars, Server_vars, Provider_vars, Hook_vars
<1>12. ASSUME NEW v \in Instances, Refreshed(v) PROVE Types'
  <2>1. tickCall[v].key \in 0 .. MaxKey
    BY DEF Types, Call
  <2> QED BY <1>0, <1>12, <2>1 DEF Refreshed, Types, Deployer_vars, Server_vars, Hook_vars
<1>13. CASE Rotate
  BY <1>0, <1>13 DEF Rotate, Types, Deployer_vars, Server_vars, Provider_vars, Hook_vars
<1>14. CASE Kill \/ LatchOpens \/ LatchTimesOut
  BY <1>14 DEF Kill, LatchOpens, LatchTimesOut, Types, Deployer_vars, Server_vars, Provider_vars
<1>15. CASE Terminate
  BY <1>15 DEF Terminate, Types, Deployer_vars, Server_vars, Provider_vars
<1>16. ASSUME NEW i \in DOMAIN plan, Undeployed(i) PROVE Types'
  <2>1. server' \in [Instances -> ServerStates] /\ timers' \subseteq Instances
    BY <1>16 DEF Undeployed, Stopped, Types, ServerStates
  <2>2. \A v \in Instances : server'[v] = "absent" => server[v] = "absent"
    BY <1>16 DEF Undeployed, Stopped, Types
  <2> QED BY <1>16, <2>1, <2>2 DEF Undeployed, Types
<1>17. ASSUME NEW i \in DOMAIN plan, UndeployFails(i) PROVE Types'
  BY <1>17 DEF UndeployFails, Types, Deployer_vars, Server_vars, Provider_vars
<1>18. CASE UNCHANGED vars
  BY <1>18 DEF Types, vars
<1>19. ASSUME NEW v \in Instances, Stored(v) PROVE Types'
  <2>1. initCall[v].key \in 0 .. MaxKey
    BY DEF Types, Call
  <2> QED BY <1>19, <2>1 DEF Stored, Types, Deployer_vars, Hook_vars, ServerStates
<1>20. ASSUME NEW v \in Instances, Returned(v) PROVE Types'
  <2>1. initCall' \in [Instances -> Call]
    BY <1>20 DEF Returned, Types, Call
  <2>2. \A w \in Instances : server'[w] = "absent" => initCall'[w].stage = "none"
    BY <1>20 DEF Returned, Types
  <2> QED BY <1>20, <2>1, <2>2
          DEF Returned, Types, Deployer_vars, Provider_vars, Hook_vars, ServerStates
<1> QED BY <1>1, <1>2, <1>3, <1>4, <1>5, <1>6, <1>7, <1>8, <1>9, <1>10, <1>11, <1>12,
           <1>13, <1>14, <1>15, <1>16, <1>17, <1>18, <1>19, <1>20
        DEF Next, Deploy, Serve, Refresh, Shutdown, Halted

----------------------------------------------------------------------------
\* The refresh timer

LEMMA NextTimer == Types /\ TimerInv /\ [Next]_vars => TimerInv'
<1> SUFFICES ASSUME Types, TimerInv, [Next]_vars PROVE TimerInv'
  OBVIOUS
<1> DEFINE Up(v) == server[v] \in {"ready", "listening"}
<1>1. CASE Begin \/ RegisterHook \/ Terminate \/ Kill \/ Shutdown
  <2>1. UNCHANGED <<server, timerSet, timers>> /\ (Ending => Ending')
    BY <1>1 DEF Begin, RegisterHook, Terminate, Kill, Shutdown, LatchOpens, LatchTimesOut,
                Server_vars, Provider_vars, Ending, Running, Types
  <2> QED BY <2>1 DEF TimerInv
<1>2. ASSUME NEW v \in Instances,
             \/ StartInstance(v) \/ KeysServed(v) \/ KeysNotServed(v)
             \/ Stored(v) \/ Returned(v) \/ Listen(v)
      PROVE  TimerInv'
  <2>1. UNCHANGED <<timerSet, timers, hook>>
    BY <1>2 DEF StartInstance, KeysServed, KeysNotServed, Stored, Returned, Listen,
                Provider_vars, Hook_vars
  <2>2. \A w \in Instances : Up(w)' => Up(w)
    BY <1>2 DEF StartInstance, KeysServed, KeysNotServed, Stored, Returned, Listen, Types
  <2> QED BY <2>1, <2>2 DEF TimerInv, Ending
<1>3. ASSUME NEW v \in Instances, Initialised(v) PROVE TimerInv'
  <2>1. UNCHANGED <<timerSet, timers, hook>>
    BY <1>3 DEF Initialised, Provider_vars, Hook_vars
  <2>2. \A w \in Instances : Up(w)' => Up(w) \/ timerSet
    BY <1>3 DEF Initialised, Types
  <2> QED BY <2>1, <2>2 DEF TimerInv, Ending
<1>4. ASSUME NEW v \in Instances, ArmTimer(v) PROVE TimerInv'
  <2>1. timerSet' = TRUE /\ v \in timers'
    BY <1>4 DEF ArmTimer
  <2> QED BY <2>1 DEF TimerInv
<1>5. CASE \/ ModuleDeployed \/ ModuleFails \/ Rotate \/ Halted
           \/ \E v \in Instances : Refresh(v)
           \/ \E i \in DOMAIN plan : UndeployFails(i)
           \/ UNCHANGED vars
  <2>1. UNCHANGED <<server, timerSet, timers, hook>>
    BY <1>5 DEF ModuleDeployed, ModuleFails, Rotate, Halted, Refresh, Tick, Refreshed,
                UndeployFails, Server_vars, Provider_vars, Hook_vars, vars
  <2> QED BY <2>1 DEF TimerInv, Ending
<1>6. ASSUME NEW i \in DOMAIN plan, Undeployed(i) PROVE TimerInv'
  <2>1. Ending' /\ UNCHANGED timerSet
    BY <1>6 DEF Undeployed, Ending
  <2>2. \A w \in Instances : Up(w)' => Up(w)
    BY <1>6 DEF Undeployed, Stopped, Types
  <2> QED BY <2>1, <2>2 DEF TimerInv
<1> QED BY <1>1, <1>2, <1>3, <1>4, <1>5, <1>6 DEF Next, Deploy, Serve

\* As soon as an instance is past init() a timer runs: whatever two event loops
\* find of each other's test of refreshTimerId, there is never none
\* (JwtAuthProvider.init).
THEOREM TimersRun == Spec => []KeysAreRefreshed
<1>1. Init => Types /\ TimerInv
  BY InitTypes DEF Init, TimerInv
<1>2. Types /\ TimerInv /\ [Next]_vars => (Types /\ TimerInv)'
  BY NextTypes, NextTimer
<1>3. Types /\ TimerInv => KeysAreRefreshed
  BY DEF TimerInv, KeysAreRefreshed, Ending
<1> QED BY <1>1, <1>2, <1>3, PTL DEF Spec

----------------------------------------------------------------------------
\* The order of deployment

LEMMA NextOrder ==
    ASSUME OneApi
    PROVE  Types /\ OrderInv /\ [Next]_vars => OrderInv'
<1> SUFFICES ASSUME Types, OrderInv, [Next]_vars PROVE OrderInv'
  OBVIOUS
<1> DEFINE Started == \E v \in Instances : server[v] # "absent"
<1>0. /\ plan \in Plans /\ plan' = plan
      /\ Len(plan) \in Nat /\ DOMAIN plan = 1 .. Len(plan) /\ next \in Nat
  BY PlanFacts DEF Types, Next, Deploy, Serve, Refresh, Shutdown, Halted, Begin, RegisterHook,
        ModuleDeployed, ModuleFails, StartInstance, Stored, Returned, Initialised, ArmTimer,
        Listen, Tick,
        Refreshed, KeysServed, KeysNotServed, Rotate, Kill, Terminate, LatchOpens,
        LatchTimesOut, Undeployed, UndeployFails, Deployer_vars, vars
<1>1. CASE Begin
  <2>1. next = 0 /\ next' = 1
    BY <1>1 DEF Begin, Types
  <2>2. UNCHANGED <<server, deployed>> /\ (Ending => Ending')
    BY <1>1 DEF Begin, Server_vars, Ending, Running, Types
  <2> QED BY <1>0, <2>1, <2>2 DEF OrderInv
<1>2. CASE ModuleDeployed
  <2>1. /\ next' = next + 1 /\ deployed' = deployed \cup {next}
        /\ next \in DOMAIN plan /\ UNCHANGED <<server, hook>>
    BY <1>2 DEF ModuleDeployed, Types, Server_vars, Hook_vars
  <2> QED BY <1>0, <2>1 DEF OrderInv, Ending
<1>3. ASSUME NEW v \in Instances, StartInstance(v) PROVE OrderInv'
  <2>1. UNCHANGED <<next, deployer, deployed, hook>> /\ plan[next].api /\ next \in DOMAIN plan
    BY <1>3 DEF StartInstance, Deployer_vars, Hook_vars, Types
  <2>2. \A i \in DOMAIN plan : plan[i].api => i <= next
    BY <1>0, <2>1 DEF OneApi
  <2> QED BY <1>0, <2>1, <2>2 DEF OrderInv, Ending
<1>4. ASSUME NEW v \in Instances,
             \/ KeysServed(v) \/ KeysNotServed(v) \/ Stored(v) \/ Returned(v)
             \/ Initialised(v) \/ ArmTimer(v) \/ Listen(v) \/ Refresh(v)
      PROVE  OrderInv'
  <2>1. UNCHANGED <<next, deployer, deployed, hook>>
    BY <1>4 DEF KeysServed, KeysNotServed, Stored, Returned, Initialised, ArmTimer, Listen,
                Refresh, Tick, Refreshed, Deployer_vars, Hook_vars
  <2>2. ASSUME Started' PROVE Started
    <3>1. CASE KeysNotServed(v)
      BY <2>2, <3>1 DEF KeysNotServed, Types
    <3>2. CASE Stored(v) \/ Returned(v) \/ Initialised(v) \/ ArmTimer(v) \/ Listen(v)
      <4>1. server[v] # "absent"
        BY <3>2 DEF Stored, Returned, Initialised, ArmTimer, Listen
      <4> QED BY <4>1
    <3>3. CASE KeysServed(v) \/ Refresh(v)
      BY <2>2, <3>3 DEF KeysServed, Refresh, Tick, Refreshed, Server_vars
    <3> QED BY <1>4, <3>1, <3>2, <3>3
  <2> QED BY <1>0, <2>1, <2>2 DEF OrderInv, Ending
<1>5. CASE RegisterHook \/ ModuleFails \/ Rotate \/ Kill \/ Terminate \/ Shutdown
           \/ Halted \/ (\E i \in DOMAIN plan : UndeployFails(i)) \/ UNCHANGED vars
  <2>1. /\ UNCHANGED <<next, deployed, server>>
        /\ deployer' \in {deployer, "stopped"} /\ (Ending => Ending')
    BY <1>5 DEF RegisterHook, ModuleFails, Rotate, Kill, Terminate, Shutdown, LatchOpens,
                LatchTimesOut, Halted, UndeployFails, Deployer_vars, Server_vars, Hook_vars,
                Ending, vars
  <2> QED BY <1>0, <2>1 DEF OrderInv
<1>6. ASSUME NEW k \in DOMAIN plan, Undeployed(k) PROVE OrderInv'
  <2>1. UNCHANGED <<next, deployer>> /\ Ending'
    BY <1>6 DEF Undeployed, Ending
  <2>2. Started' => Started
    BY <1>6 DEF Undeployed, Stopped, Types
  <2> QED BY <1>0, <2>1, <2>2 DEF OrderInv
<1> QED BY <1>1, <1>2, <1>3, <1>4, <1>5, <1>6 DEF Next, Deploy, Serve

\* An instance of the API server starts only when every module configured
\* before it is deployed (the callback of recursiveDeploy).
THEOREM ServicesFirst ==
    ASSUME OneApi
    PROVE  Spec => []ServicesBeforeServers
<1>1. Init => Types /\ OrderInv
  BY InitTypes DEF Init, Types, OrderInv
<1>2. Types /\ OrderInv /\ [Next]_vars => (Types /\ OrderInv)'
  BY NextTypes, NextOrder
<1>3. Types /\ OrderInv => ServicesBeforeServers
  <2> SUFFICES ASSUME Types, OrderInv PROVE ServicesBeforeServers
    OBVIOUS
  <2>1. Len(plan) \in Nat /\ DOMAIN plan = 1 .. Len(plan) /\ next \in Nat
    BY PlanFacts DEF Types
  <2> QED BY <2>1 DEF OrderInv, ServicesBeforeServers, Ending
<1> QED BY <1>1, <1>2, <1>3, PTL DEF Spec

----------------------------------------------------------------------------
\* The latch

LEMMA FiniteModules ==
    ASSUME Types, NEW S, S \subseteq DOMAIN plan
    PROVE  IsFiniteSet(S) /\ Cardinality(S) \in Nat
<1>1. DOMAIN plan = 1 .. Len(plan) /\ Len(plan) \in Nat
  BY PlanFacts DEF Types
<1>2. IsFiniteSet(DOMAIN plan)
  BY <1>1, FS_Interval
<1> QED BY <1>2, FS_Subset, FS_CardinalityType

LEMMA NextLatch == Types /\ LatchInv /\ [Next]_vars => LatchInv'
<1> SUFFICES ASSUME Types, LatchInv, [Next]_vars PROVE LatchInv'
  OBVIOUS
<1>0. next \in Nat /\ DOMAIN plan \subseteq Nat
  BY PlanFacts DEF Types
<1>1. CASE Begin
  <2>1. /\ next = 0 /\ next' = 1 /\ hook' # "undeploying"
        /\ UNCHANGED <<deployed, leaving, leavers, latch>>
    BY <1>1 DEF Begin, Types
  <2> QED BY <1>0, <2>1 DEF LatchInv, LatchCountsWhatIsLeft, Types
<1>2. CASE ModuleDeployed
  <2>1. /\ next' = next + 1 /\ deployed' = deployed \cup {next}
        /\ UNCHANGED <<hook, leaving, leavers, latch>>
    BY <1>2 DEF ModuleDeployed, Hook_vars
  <2>2. next \notin leavers
    BY <1>0 DEF LatchInv
  <2>3. leavers \cap deployed' = leavers \cap deployed
    BY <2>1, <2>2
  <2>4. \A i \in deployed' \cup leavers' : i < next'
    BY <1>0, <2>1 DEF LatchInv, Types
  <2> QED BY <2>1, <2>3, <2>4 DEF LatchInv, LatchCountsWhatIsLeft
<1>3. CASE Terminate
  <2>1. /\ leaving' = deployed /\ leavers' = deployed /\ latch' = Cardinality(deployed)
        /\ UNCHANGED <<next, deployed>>
    BY <1>3 DEF Terminate, Deployer_vars
  <2>2. Cardinality(deployed) \in Nat
    BY FiniteModules DEF Types
  <2> QED BY <2>1, <2>2 DEF LatchInv, LatchCountsWhatIsLeft
<1>4. ASSUME NEW k \in DOMAIN plan, Undeployed(k) PROVE LatchInv'
  <2> DEFINE Left == leavers \cap deployed
  <2>1. /\ hook = "undeploying" /\ k \in leaving
        /\ deployed' = deployed \ {k} /\ leaving' = leaving \ {k}
        /\ latch' = latch - 1 /\ UNCHANGED <<next, leavers>>
    BY <1>4 DEF Undeployed
  <2>2. k \in Left /\ Left' = Left \ {k} /\ latch = Cardinality(Left)
    BY <2>1 DEF LatchInv, LatchCountsWhatIsLeft
  <2>3. Left \subseteq DOMAIN plan
    BY DEF Types
  <2>4. IsFiniteSet(Left)
    BY <2>3, FiniteModules
  <2>5. Cardinality(Left \ {k}) = Cardinality(Left) - 1
    BY <2>2, <2>4, FS_RemoveElement
  <2>6. Cardinality(Left \ {k}) \in Nat
    BY <2>3, FiniteModules
  <2>7. latch' = Cardinality(Left') /\ latch' \in Nat
    BY <2>1, <2>2, <2>5, <2>6
  <2>8. \A i \in deployed' \cup leavers' : i < next'
    BY <2>1 DEF LatchInv
  <2>9. leaving' \subseteq Left'
    BY <2>1, <2>2 DEF LatchInv
  <2> QED BY <2>7, <2>8, <2>9 DEF LatchInv, LatchCountsWhatIsLeft
<1>5. ASSUME NEW k \in DOMAIN plan, UndeployFails(k) PROVE LatchInv'
  <2>1. leaving' \subseteq leaving /\ UNCHANGED <<next, deployed, hook, leavers, latch>>
    BY <1>5 DEF UndeployFails, Deployer_vars
  <2> QED BY <2>1 DEF LatchInv, LatchCountsWhatIsLeft
<1>6. CASE \/ RegisterHook \/ ModuleFails \/ Rotate \/ Kill \/ Shutdown
           \/ Halted \/ UNCHANGED vars
           \/ \E v \in Instances : Serve(v) \/ Refresh(v) \/ KeysServed(v) \/ KeysNotServed(v)
  <2>1. /\ UNCHANGED <<next, deployed, leaving, leavers, latch>>
        /\ hook' = "undeploying" => hook = "undeploying"
    BY <1>6 DEF RegisterHook, ModuleFails, Rotate, Kill, Shutdown, LatchOpens, LatchTimesOut,
                Halted, Serve, StartInstance, Stored, Returned, Initialised, ArmTimer, Listen,
                Refresh, Tick, Refreshed, KeysServed, KeysNotServed, Deployer_vars, Hook_vars, vars
  <2> QED BY <2>1 DEF LatchInv, LatchCountsWhatIsLeft
<1> QED BY <1>1, <1>2, <1>3, <1>4, <1>5, <1>6 DEF Next, Deploy

LEMMA LatchIsInvariant == Spec => [](Types /\ LatchInv)
<1>1. Init => Types /\ LatchInv
  BY InitTypes DEF Init, LatchInv, LatchCountsWhatIsLeft
<1>2. Types /\ LatchInv /\ [Next]_vars => (Types /\ LatchInv)'
  BY NextTypes, NextLatch
<1> QED BY <1>1, <1>2, PTL DEF Spec

\* The shutdown hook's latch counts the modules it set out to undeploy that are
\* not undeployed yet, whatever is deployed meanwhile and whichever failed
\* (gracefulShutdown).
THEOREM LatchCounts == Spec => []LatchCountsWhatIsLeft
<1>1. Types /\ LatchInv => LatchCountsWhatIsLeft
  BY DEF LatchInv
<1> QED BY <1>1, LatchIsInvariant, PTL

\* Every field has the type that Deployer and JwtAuthProvider give it; the latch
\* is never negative.
THEOREM StartTypeCorrect == Spec => []TypeOK
<1>1. Types /\ LatchInv => TypeOK
  BY DEF Types, LatchInv, TypeOK
<1> QED BY <1>1, LatchIsInvariant, PTL
=============================================================================
