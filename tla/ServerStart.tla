---------------------------- MODULE ServerStart ----------------------------
(***************************************************************************)
(* The life of the server's process: Deployer starts the verticles of its  *)
(* configuration one after the other and undeploys them when the process   *)
(* is told to end; an instance of ApiServerVerticle fetches Keycloak's     *)
(* signing keys (JwtAuthProvider, JwksClient) and then listens, long after *)
(* its start() has returned and it counts as deployed.                     *)
(*                                                                         *)
(* Each instance runs on an event loop of its own.  JwtAuthProvider keeps  *)
(* its two fields in statics that they share: jwtAuth, the keys last       *)
(* fetched, and refreshTimerId, which is 0 until a refresh timer is set.   *)
(* The authentication handlers of an instance keep the keys they were      *)
(* created with.                                                           *)
(***************************************************************************)
EXTENDS Naturals, Sequences, FiniteSets

CONSTANTS
    Instances,  \* the instances of ApiServerVerticle (verticleInstances)
    Plans,      \* the sequences of modules the server is configured with
    MaxKey      \* bound: Keycloak signs with key 1 .. MaxKey

\* A module of the plan: is it ApiServerVerticle, and what its configuration
\* is like: "missing" altogether (a requested module that is not configured),
\* "noFlag" without isWorkerVerticle, which the deployer unboxes, or "good".
Module == [api : BOOLEAN, config : {"good", "missing", "noFlag"}]

ASSUME StartAssumption ==
    /\ IsFiniteSet(Instances) /\ Instances # {}
    /\ Plans \subseteq Seq(Module)
    /\ MaxKey \in Nat \ {0}

VARIABLES
    plan,           \* the modules to deploy, in order
    next,           \* the module whose turn it is
    deployer,       \* "begin", "deploying", "done", or "stopped" by a failure
    deployed,       \* the modules that Vert.x has deployed
    server,         \* the state of each API server instance
    initCall,       \* the request for keys of each instance's start, and then
                    \* what refresh() made of it
    tickCall,       \* the request for keys of each instance's refresh timer
    issued,         \* the key Keycloak signs with
    jwtAuth,        \* JwtAuthProvider.jwtAuth: a key, 0 for null
    timerSet,       \* JwtAuthProvider.refreshTimerId # 0
    timers,         \* the instances that have set a refresh timer
    used,           \* the key in each instance's authentication handlers
    hook,           \* the shutdown hook: "none" before it is registered,
                    \* "never" if it will not be, "ready", "undeploying";
                    \* "halted" is the end of the process
    leaving,        \* the modules the hook is undeploying
    latch,          \* latchVerticles: the undeployments it still waits for
    leavers         \* history: the modules it set out to undeploy

vars == <<plan, next, deployer, deployed, server, initCall, tickCall, issued,
          jwtAuth, timerSet, timers, used, hook, leaving, latch, leavers>>

Deployer_vars == <<plan, next, deployer, deployed>>
Provider_vars == <<jwtAuth, timerSet, timers>>
Server_vars == <<server, initCall, used>>
Hook_vars == <<hook, leaving, latch, leavers>>

NoCall == [stage |-> "none", key |-> 0]
Sent == [stage |-> "sent", key |-> 0]

----------------------------------------------------------------------------
\* Deployer.  Nothing happens once the process has halted.

Running == hook # "halted"

\* recursiveDeploy reaches the i-th module: past the last one it is done; a
\* configuration that is missing stops it, and so does the exception that one
\* without the worker flag raises.
Reached(i) ==
    IF i > Len(plan) THEN "done"
    ELSE IF plan[i].config = "good" THEN "deploying" ELSE "stopped"

\* main() deploys the first module.  An exception in its configuration ends the
\* main thread, unless the deployment waits for the cluster in a callback.
Begin ==
    /\ Running
    /\ deployer = "begin"
    /\ deployer' = Reached(1)
    /\ next' = 1
    /\ \/ UNCHANGED hook
       \/ hook' = "never" /\ plan # <<>> /\ plan[1].config = "noFlag"
    /\ UNCHANGED <<plan, deployed, Server_vars, tickCall, issued, Provider_vars,
                   leaving, latch, leavers>>

\* It then registers the shutdown hook.
RegisterHook ==
    /\ hook = "none" /\ deployer # "begin"
    /\ hook' = "ready"
    /\ UNCHANGED <<Deployer_vars, Server_vars, tickCall, issued, Provider_vars,
                   leaving, latch, leavers>>

\* Mutant: the deployment of a module is not waited for.
ModuleDeployed_NoWait ==
    /\ Running
    /\ deployer = "deploying"
    /\ next' = next + 1
    /\ deployer' = Reached(next + 1)
    /\ \E d \in {deployed, deployed \cup {next}} : deployed' = d
    /\ UNCHANGED <<plan, Server_vars, tickCall, issued, Provider_vars, Hook_vars>>

\* A module is deployed when start() has returned on all of its instances.
ModuleDeployed ==
    /\ Running
    /\ deployer = "deploying"
    /\ plan[next].api => \A v \in Instances : server[v] # "absent"
    /\ deployed' = deployed \cup {next}
    /\ next' = next + 1
    /\ deployer' = Reached(next + 1)
    /\ UNCHANGED <<plan, Server_vars, tickCall, issued, Provider_vars, Hook_vars>>

\* start() throws; all instances of the API server do so for a value missing
\* in their common configuration, and before they call for keys.
ModuleFails ==
    /\ Running
    /\ deployer = "deploying"
    /\ plan[next].api => \A v \in Instances : server[v] = "absent"
    /\ deployer' = "stopped"
    /\ UNCHANGED <<plan, next, deployed, Server_vars, tickCall, issued,
                   Provider_vars, Hook_vars>>

----------------------------------------------------------------------------
\* ApiServerVerticle and JwtAuthProvider, on instance v's event loop

\* start() calls for the keys and returns.
StartInstance(v) ==
    /\ Running
    /\ deployer = "deploying" /\ plan[next].api
    /\ server[v] = "absent"
    /\ server' = [server EXCEPT ![v] = "waiting"]
    /\ initCall' = [initCall EXCEPT ![v] = Sent]
    /\ UNCHANGED <<Deployer_vars, tickCall, issued, Provider_vars, used, Hook_vars>>

\* Keycloak answers a request for keys.
KeysServed(v) ==
    /\ Running
    /\ \/ /\ initCall[v].stage = "sent"
          /\ initCall' = [initCall EXCEPT ![v] = [stage |-> "served", key |-> issued]]
          /\ UNCHANGED tickCall
       \/ /\ tickCall[v].stage = "sent"
          /\ tickCall' = [tickCall EXCEPT ![v] = [stage |-> "served", key |-> issued]]
          /\ UNCHANGED initCall
    /\ UNCHANGED <<Deployer_vars, server, issued, Provider_vars, used, Hook_vars>>

\* It cannot be reached, or answers without keys: the instance logs it and
\* never listens; the timer tries again at its next tick.
KeysNotServed(v) ==
    /\ Running
    /\ \/ /\ initCall[v].stage = "sent"
          /\ initCall' = [initCall EXCEPT ![v] = NoCall]
          /\ server' = [server EXCEPT ![v] = "failed"]
          /\ UNCHANGED tickCall
       \/ /\ tickCall[v].stage = "sent"
          /\ tickCall' = [tickCall EXCEPT ![v] = NoCall]
          /\ UNCHANGED <<server, initCall>>
    /\ UNCHANGED <<Deployer_vars, issued, Provider_vars, used, Hook_vars>>

\* refresh() has the keys and replaces the static.
Stored(v) ==
    /\ Running
    /\ server[v] = "waiting" /\ initCall[v].stage = "served"
    /\ jwtAuth' = initCall[v].key
    /\ server' = [server EXCEPT ![v] = "stored"]
    /\ UNCHANGED <<Deployer_vars, initCall, tickCall, issued, timerSet, timers,
                   used, Hook_vars>>

\* What it returns is read back from the static, and may be what another event
\* loop has stored since.
Returned(v) ==
    /\ Running
    /\ server[v] = "stored"
    /\ initCall' = [initCall EXCEPT ![v].key = jwtAuth]
    /\ server' = [server EXCEPT ![v] = "returned"]
    /\ UNCHANGED <<Deployer_vars, tickCall, issued, Provider_vars, used, Hook_vars>>

\* Mutant: only the instance that sets the timer goes on.
Initialised_TimerOwner(v) ==
    /\ Running
    /\ server[v] = "returned"
    /\ server' = [server EXCEPT ![v] = IF timerSet THEN @ ELSE "arming"]
    /\ UNCHANGED <<Deployer_vars, initCall, tickCall, issued, Provider_vars, used, Hook_vars>>

\* Mutant: the timer is set if there is one already.
Initialised_Inverted(v) ==
    /\ Running
    /\ server[v] = "returned"
    /\ server' = [server EXCEPT ![v] = IF timerSet THEN "arming" ELSE "ready"]
    /\ UNCHANGED <<Deployer_vars, initCall, tickCall, issued, Provider_vars, used, Hook_vars>>

\* init() tests whether a timer is set.
Initialised(v) ==
    /\ Running
    /\ server[v] = "returned"
    /\ server' = [server EXCEPT ![v] = IF timerSet THEN "ready" ELSE "arming"]
    /\ UNCHANGED <<Deployer_vars, initCall, tickCall, issued, Provider_vars, used, Hook_vars>>

\* It sets one, unless another event loop has done so since the test: it does
\* not look again.
ArmTimer(v) ==
    /\ Running
    /\ server[v] = "arming"
    /\ timerSet' = TRUE
    /\ timers' = timers \cup {v}
    /\ server' = [server EXCEPT ![v] = "ready"]
    /\ UNCHANGED <<Deployer_vars, initCall, tickCall, issued, jwtAuth, used, Hook_vars>>

\* The handlers are created with the keys that refresh() returned, and the
\* server listens; or the router cannot be built or the port is taken.
Listen(v) ==
    /\ Running
    /\ server[v] = "ready"
    /\ used' = [used EXCEPT ![v] = initCall[v].key]
    /\ \E s \in {"listening", "failed"} : server' = [server EXCEPT ![v] = s]
    /\ UNCHANGED <<Deployer_vars, initCall, tickCall, issued, Provider_vars, Hook_vars>>

\* The refresh timer of instance v fires.
Tick(v) ==
    /\ Running
    /\ v \in timers
    /\ tickCall[v].stage = "none"
    /\ tickCall' = [tickCall EXCEPT ![v] = Sent]
    /\ UNCHANGED <<Deployer_vars, Server_vars, issued, Provider_vars, Hook_vars>>

\* Mutant: the handlers of the timer's instance take the new keys.
Refreshed_Handlers(v) ==
    /\ Running
    /\ tickCall[v].stage = "served"
    /\ jwtAuth' = tickCall[v].key
    /\ used' = [w \in Instances |-> IF used[w] = 0 THEN 0 ELSE tickCall[v].key]
    /\ tickCall' = [tickCall EXCEPT ![v] = NoCall]
    /\ UNCHANGED <<Deployer_vars, server, initCall, issued, timerSet, timers, Hook_vars>>

\* Its answer replaces the static, which nobody reads.
Refreshed(v) ==
    /\ Running
    /\ tickCall[v].stage = "served"
    /\ jwtAuth' = tickCall[v].key
    /\ tickCall' = [tickCall EXCEPT ![v] = NoCall]
    /\ UNCHANGED <<Deployer_vars, Server_vars, issued, timerSet, timers, Hook_vars>>

\* Keycloak rotates its signing key.
Rotate ==
    /\ Running
    /\ issued < MaxKey
    /\ issued' = issued + 1
    /\ UNCHANGED <<Deployer_vars, Server_vars, tickCall, Provider_vars, Hook_vars>>

----------------------------------------------------------------------------
\* Shutdown

\* The process is told to end and has no hook: it halts at once.
Kill ==
    /\ hook \in {"none", "never"}
    /\ hook' = "halted"
    /\ UNCHANGED <<Deployer_vars, Server_vars, tickCall, issued, Provider_vars,
                   leaving, latch, leavers>>

\* It has one, which undeploys the modules deployed at this moment.
Terminate ==
    /\ hook = "ready"
    /\ hook' = "undeploying"
    /\ leaving' = deployed
    /\ leavers' = deployed
    /\ latch' = Cardinality(deployed)
    /\ UNCHANGED <<Deployer_vars, Server_vars, tickCall, issued, Provider_vars>>

\* The effect of module i's stop(): the API server closes what listens, and
\* Vert.x cancels its timers.
Stopped(i) ==
    IF plan[i].api
    THEN /\ server' = [v \in Instances |->
                          IF server[v] = "listening" THEN "closed" ELSE server[v]]
         /\ timers' = {}
    ELSE UNCHANGED <<server, timers>>

\* Mutant: the handler may be called again.
Undeployed_Again(i) ==
    /\ hook = "undeploying"
    /\ deployed' = deployed \ {i}
    /\ leaving' = leaving \ {i}
    /\ latch' = latch - 1
    /\ Stopped(i)
    /\ UNCHANGED <<plan, next, deployer, initCall, used, tickCall, issued, jwtAuth,
                   timerSet, hook, leavers>>

Undeployed(i) ==
    /\ hook = "undeploying" /\ i \in leaving
    /\ deployed' = deployed \ {i}
    /\ leaving' = leaving \ {i}
    /\ latch' = latch - 1
    /\ Stopped(i)
    /\ UNCHANGED <<plan, next, deployer, initCall, used, tickCall, issued, jwtAuth,
                   timerSet, hook, leavers>>

\* Mutant: the latch counts the failures as well.
UndeployFails_CountsDown(i) ==
    /\ hook = "undeploying" /\ i \in leaving
    /\ leaving' = leaving \ {i}
    /\ latch' = latch - 1
    /\ UNCHANGED <<Deployer_vars, Server_vars, tickCall, issued, Provider_vars,
                   hook, leavers>>

\* The failure is logged; the latch is not counted down.
UndeployFails(i) ==
    /\ hook = "undeploying" /\ i \in leaving
    /\ leaving' = leaving \ {i}
    /\ UNCHANGED <<Deployer_vars, Server_vars, tickCall, issued, Provider_vars,
                   hook, latch, leavers>>

\* The latch is open: the hook returns, and the process halts.
LatchOpens ==
    /\ hook = "undeploying" /\ latch = 0
    /\ hook' = "halted"
    /\ UNCHANGED <<Deployer_vars, Server_vars, tickCall, issued, Provider_vars,
                   leaving, latch, leavers>>

\* Mutant: the hook waits for the latch without a limit.
LatchTimesOut_Never ==
    /\ hook = "undeploying" /\ latch # 0
    /\ UNCHANGED vars

\* Five seconds have passed: the hook returns all the same.
LatchTimesOut ==
    /\ hook = "undeploying" /\ latch # 0
    /\ hook' = "halted"
    /\ UNCHANGED <<Deployer_vars, Server_vars, tickCall, issued, Provider_vars,
                   leaving, latch, leavers>>

----------------------------------------------------------------------------
Init ==
    /\ plan \in Plans
    /\ next = 0
    /\ deployer = "begin"
    /\ deployed = {}
    /\ server = [v \in Instances |-> "absent"]
    /\ initCall = [v \in Instances |-> NoCall]
    /\ tickCall = [v \in Instances |-> NoCall]
    /\ issued = 1
    /\ jwtAuth = 0
    /\ timerSet = FALSE
    /\ timers = {}
    /\ used = [v \in Instances |-> 0]
    /\ hook = "none"
    /\ leaving = {}
    /\ latch = 0
    /\ leavers = {}

Deploy == Begin \/ RegisterHook \/ ModuleDeployed \/ ModuleFails
Serve(v) ==
    StartInstance(v) \/ Stored(v) \/ Returned(v) \/ Initialised(v) \/ ArmTimer(v) \/ Listen(v)
Refresh(v) == Tick(v) \/ Refreshed(v)
Shutdown == LatchOpens \/ LatchTimesOut

Halted == hook = "halted" /\ UNCHANGED vars

Next ==
    \/ Deploy
    \/ \E v \in Instances : Serve(v) \/ Refresh(v) \/ KeysServed(v) \/ KeysNotServed(v)
    \/ Rotate
    \/ Kill \/ Terminate \/ Shutdown
    \/ \E i \in DOMAIN plan : Undeployed(i) \/ UndeployFails(i)
    \/ Halted

Spec == Init /\ [][Next]_vars

\* Event loops keep running, timers fire, and Keycloak answers one of the
\* requests that are repeated for ever.  Nothing makes the process end, or an
\* undeployment.
Fairness ==
    /\ WF_vars(Deploy) /\ WF_vars(Shutdown)
    /\ \A v \in Instances :
          WF_vars(Serve(v)) /\ WF_vars(Tick(v)) /\ WF_vars(Refreshed(v))
          /\ SF_vars(KeysServed(v))

FairSpec == Spec /\ Fairness

----------------------------------------------------------------------------
\* Properties

ServerStates ==
    {"absent", "waiting", "stored", "returned", "arming", "ready", "listening",
     "failed", "closed"}
Call == [stage : {"none", "sent", "served"}, key : 0 .. MaxKey]

\* Every variable has its type; in particular the deployer does not read past
\* the end of its plan, and the latch does not count below zero (recursiveDeploy
\* and gracefulShutdown of Deployer).
TypeOK ==
    /\ plan \in Plans
    /\ next \in 0 .. Len(plan) + 1
    /\ deployer \in {"begin", "deploying", "done", "stopped"}
    /\ deployer = "deploying" => next \in DOMAIN plan
    /\ deployed \subseteq DOMAIN plan
    /\ server \in [Instances -> ServerStates]
    /\ initCall \in [Instances -> Call]
    /\ tickCall \in [Instances -> Call]
    /\ issued \in 1 .. MaxKey
    /\ jwtAuth \in 0 .. MaxKey
    /\ timerSet \in BOOLEAN
    /\ timers \subseteq Instances
    /\ used \in [Instances -> 0 .. MaxKey]
    /\ hook \in {"none", "never", "ready", "undeploying", "halted"}
    /\ leaving \subseteq DOMAIN plan
    /\ latch \in Nat
    /\ leavers \subseteq DOMAIN plan

\* An API server calls the services of the modules configured before it through
\* proxies: while the process is not ending, they are all deployed when one of
\* its instances has started, although each deployment is asynchronous
\* (the callback of recursiveDeploy).
ServicesBeforeServers ==
    hook \notin {"undeploying", "halted"} =>
        \A i \in DOMAIN plan :
            plan[i].api /\ (\E v \in Instances : server[v] # "absent") =>
                \A j \in 1 .. i - 1 : j \in deployed

\* As soon as an instance is past init() a refresh timer runs and, while the
\* process is not ending, goes on running: whatever instances find of each
\* other's half-done test of refreshTimerId (JwtAuthProvider.init), there may
\* be more than one timer but never none.
KeysAreRefreshed ==
    /\ hook \notin {"undeploying", "halted"}
    /\ \E v \in Instances : server[v] \in {"ready", "listening"}
    => timers # {}

\* The shutdown hook's latch counts the modules it set out to undeploy that are
\* not undeployed yet, whatever was deployed meanwhile and whichever failed: an
\* open latch means that all of them are (gracefulShutdown).
LatchCountsWhatIsLeft ==
    hook = "undeploying" => latch = Cardinality(leavers \cap deployed)

\* The shutdown hook returns, also when a module cannot be undeployed.
ShutdownEnds == hook = "undeploying" ~> hook = "halted"

\* Something that keeps a server of this plan from listening.
Trouble ==
    \/ deployer = "stopped"
    \/ \E v \in Instances : server[v] = "failed"
    \/ hook \notin {"none", "ready"}

\* Without a failure every instance of the API server ends up listening, though
\* only one or some of them set the timer that they share.
ServersComeUp ==
    <>(Trouble \/ (\A i \in DOMAIN plan : ~plan[i].api)
               \/ \A v \in Instances : server[v] = "listening")

\* "JWKs auto-refresh enabled" (JwtAuthProvider.init): a server that goes on
\* listening will accept tokens signed with Keycloak's current key.
RotatedKeysAccepted ==
    \A v \in Instances : []<>(Running /\ server[v] = "listening" => used[v] = issued)
============================================================================
