--------------------------- MODULE ContainerLifecycle ---------------------------
(***************************************************************************)
(* DockerManager: the life of one tenant's container.                      *)
(*                                                                         *)
(* Every gateway process has a main thread, which runs the HTTP handlers   *)
(* and calls the manager without awaiting, and a pruner thread.  They      *)
(* share, with no lock, the process's cache _tenants, the tenant's state   *)
(* in Redis, config.json in the tenant's directory and the container of    *)
(* the tenant's name; a step below is one access to one of these.          *)
(*                                                                         *)
(* Time is kept as ages: `act' is how long ago last_activity was, up to    *)
(* one more than the timeout, and Tick makes all of them older.            *)
(***************************************************************************)
EXTENDS Integers

CONSTANTS
  Gateways,     \* gateway processes
  Configs,      \* names of the configurations that users post
  HostConfigs,  \* those whose workspace is a path on the host
  EnvConfigs,   \* those with environment variables, in gateway.env
  Default,      \* what write_config makes of an empty configuration
  IdleTimeout,  \* idle_timeout
  MaxOps,       \* bound: HTTP requests that reach the manager
  MaxEnds,      \* bound: gateway processes that crash or are shut down
  MaxFaults,    \* bound: failing calls ...
  FaultKinds    \* ... of these kinds, a subset of Kinds

\* Redis reads, Redis writes and Docker calls that raise; containers that exit.
Kinds == {"load", "save", "docker", "exit"}

ASSUME LifecycleAssumption ==
  /\ HostConfigs \subseteq Configs /\ EnvConfigs \subseteq Configs
  /\ Default \notin Configs
  /\ "none" \notin Configs \cup {Default}
  /\ IdleTimeout \in Nat /\ MaxOps \in Nat /\ MaxEnds \in Nat /\ MaxFaults \in Nat
  /\ FaultKinds \subseteq Kinds

NoId == 0
Age == 0 .. IdleTimeout + 1

\* A configuration: its name, whether its workspace is a path on the host, and its
\* gateway.env: missing or empty, as posted, or with the gateway's variables added.
Env == {"none", "own", "added"}
Config == [name : Configs \cup {Default}, host : BOOLEAN, env : Env]
NoConfig == [name |-> "none", host |-> FALSE, env |-> "none"]

Posted(c) == [name |-> c, host |-> c \in HostConfigs,
              env |-> IF c \in EnvConfigs THEN "own" ELSE "none"]

VARIABLES
  redis,   \* the tenant's TenantState
  disk,    \* the tenant's config.json, NoConfig when missing or half written
  ctr,     \* the container that has the tenant's name
  made,    \* containers created so far; the n-th has id n
  cache,   \* a gateway's _tenants entry
  pc, op,  \* where a thread is, and in which operation
  cid,     \* its tc.container_id
  ld,      \* the state it has loaded
  cfg,     \* the configuration it provisions
  sav,     \* the config_data it saves with a stopped tenant
  ops, ends, faults

shared == <<redis, disk, ctr, made, cache>>
locals == <<cid, ld, cfg, sav>>
vars   == <<shared, pc, op, locals, ops, ends, faults>>

Main(g)   == <<g, "main">>
Pruner(g) == <<g, "pruner">>
Threads   == Gateways \X {"main", "pruner"}
Gw(t)     == t[1]

TenantState == [status : {"running", "stopped", "none"}, id : Nat,
                config : Config \cup {NoConfig}, act : Age]
Absent == [status |-> "none", id |-> NoId, config |-> NoConfig, act |-> 0]

\* last_activity of a stopped tenant is never read: its age is left at 0.
Stopped(c) == [status |-> "stopped", id |-> NoId, config |-> c, act |-> 0]
IsRunning(s) == s.status = "running" /\ s.id # NoId

NoCtr == [id |-> NoId, up |-> FALSE, config |-> NoConfig]
NoTc  == [id |-> NoId, act |-> 0]

PC == {"off", "rest", "load", "probe", "mark", "saved",
       "pop", "stopLoad", "readConfig", "readSaved", "saveStopped", "stopCtr", "removeCtr",
       "truncate", "write", "removeOld", "run", "saveRunning",
       "touchLoad", "touchSave", "exiting"}
Op == {"none", "reload", "lookup", "chat", "configure", "touch", "prune", "shutdown"}

TypeOK ==
  /\ redis \in TenantState
  /\ disk \in Config \cup {NoConfig}
  /\ ctr \in [id : 0 .. made, up : BOOLEAN, config : Config \cup {NoConfig}]
  /\ made \in Nat
  /\ cache \in [Gateways -> [id : 0 .. made, act : Age]]
  /\ pc \in [Threads -> PC]
  /\ op \in [Threads -> Op]
  /\ cid \in [Threads -> 0 .. made]
  /\ ld \in [Threads -> TenantState]
  /\ cfg \in [Threads -> Config \cup {NoConfig}]
  /\ sav \in [Threads -> Config \cup {NoConfig}]
  /\ ops \in Nat /\ ends \in Nat /\ faults \in [Kinds -> Nat]

Init ==
  /\ redis = Absent /\ disk = NoConfig /\ ctr = NoCtr /\ made = 0
  /\ cache = [g \in Gateways |-> NoTc]
  /\ pc = [t \in Threads |-> "off"]
  /\ op = [t \in Threads |-> "none"]
  /\ cid = [t \in Threads |-> NoId]
  /\ ld = [t \in Threads |-> Absent]
  /\ cfg = [t \in Threads |-> NoConfig]
  /\ sav = [t \in Threads |-> NoConfig]
  /\ ops = 0 /\ ends = 0 /\ faults = [k \in Kinds |-> 0]

(***************************************************************************)
(* Control, Redis and failures.                                            *)
(***************************************************************************)
Goto(t, p) == pc' = [pc EXCEPT ![t] = p]
NoFault == UNCHANGED faults
Fault(k) ==
  /\ k \in FaultKinds
  /\ faults["load"] + faults["save"] + faults["docker"] + faults["exit"] < MaxFaults
  /\ faults' = [faults EXCEPT ![k] = @ + 1]

\* The operation of thread t is over; its locals are out of scope.
Return(t) ==
  /\ Goto(t, "rest")
  /\ op' = [op EXCEPT ![t] = "none"]
  /\ cid' = [cid EXCEPT ![t] = NoId]
  /\ ld' = [ld EXCEPT ![t] = Absent]
  /\ cfg' = [cfg EXCEPT ![t] = NoConfig]
  /\ sav' = [sav EXCEPT ![t] = NoConfig]

\* _load_state: an exception reads as a missing state.
Load(s) == \/ s = redis /\ NoFault
           \/ s = Absent /\ Fault("load")

\* _save_state: an exception is logged, and nothing is saved.
Save(s) == \/ redis' = s /\ NoFault
           \/ UNCHANGED redis /\ Fault("save")

\* An HTTP request is handled once the main thread has nothing else to do.
Begin(g) ==
  /\ pc[Main(g)] = "rest"
  /\ ops < MaxOps /\ ops' = ops + 1

(***************************************************************************)
(* get_tenant, get_or_create, _reload_running_from_redis                   *)
(***************************************************************************)

\* get_tenant: a cached tenant is returned as it is.
GetTenant(g, o) ==
  /\ Begin(g)
  /\ IF cache[g] # NoTc
     THEN cache' = [cache EXCEPT ![g].act = 0] /\ UNCHANGED <<pc, op>>
     ELSE /\ Goto(Main(g), "load")
          /\ op' = [op EXCEPT ![Main(g)] = o]
          /\ UNCHANGED cache
  /\ UNCHANGED <<redis, disk, ctr, made, locals, ends, faults>>

Chat(g)   == GetTenant(g, "chat")     \* get_or_create
Lookup(g) == GetTenant(g, "lookup")   \* the approval and proxy routes

\* There is no such tenant: get_or_create provisions it, the others give up.
NotFound(t) ==
  IF op[t] = "chat"
  THEN Goto(t, "saved") /\ ld' = [ld EXCEPT ![t] = Absent] /\ UNCHANGED <<op, cid, cfg, sav>>
  ELSE Return(t)

LoadState(t) ==
  /\ pc[t] = "load"
  /\ \E s \in {redis, Absent} :
       /\ Load(s)
       /\ IF IsRunning(s)
          THEN /\ Goto(t, "probe")
               /\ ld' = [ld EXCEPT ![t] = s]
               /\ UNCHANGED <<op, cid, cfg, sav>>
          ELSE NotFound(t)
  /\ UNCHANGED <<shared, ops, ends>>

\* containers.get: an exited container exists too; any exception counts as none.
Probe(t) ==
  /\ pc[t] = "probe"
  /\ \/ /\ ctr.id = ld[t].id
        /\ cache' = [cache EXCEPT ![Gw(t)] = [id |-> ld[t].id, act |-> ld[t].act]]
        /\ Return(t)
        /\ NoFault
     \/ /\ (ctr.id # ld[t].id /\ NoFault) \/ Fault("docker")
        /\ Goto(t, "mark")
        /\ UNCHANGED <<cache, op, locals>>
  /\ UNCHANGED <<redis, disk, ctr, made, ops, ends>>

MarkStopped(t) ==
  /\ pc[t] = "mark"
  /\ Save(Stopped(ld[t].config))
  /\ NotFound(t)
  /\ UNCHANGED <<disk, ctr, made, cache, ops, ends>>

\* Mutant: the saved state itself is taken for its configuration.
GetSavedStateItself(t) ==
  /\ pc[t] = "saved"
  /\ \E s \in {redis, Absent} : Load(s) /\ cfg' = [cfg EXCEPT ![t] = s]
  /\ Goto(t, "pop")
  /\ UNCHANGED <<shared, op, cid, ld, sav, ops, ends>>

\* get_saved_state: no saved configuration means an empty one.
GetSavedState(t) ==
  /\ pc[t] = "saved"
  /\ \E s \in {redis, Absent} : Load(s) /\ cfg' = [cfg EXCEPT ![t] = s.config]
  /\ Goto(t, "pop")
  /\ UNCHANGED <<shared, op, cid, ld, sav, ops, ends>>

(***************************************************************************)
(* stop_tenant                                                             *)
(***************************************************************************)

\* Where stop_tenant was called from.
StopReturns(t) ==
  CASE op[t] = "prune"    -> Return(t)
    [] op[t] = "shutdown" -> Goto(t, "exiting") /\ UNCHANGED <<op, locals>>
    [] OTHER              -> /\ Goto(t, "truncate")
                             /\ cid' = [cid EXCEPT ![t] = NoId]
                             /\ ld' = [ld EXCEPT ![t] = Absent]
                             /\ sav' = [sav EXCEPT ![t] = NoConfig]
                             /\ UNCHANGED <<op, cfg>>

Pop(t) ==
  /\ pc[t] = "pop"
  /\ cid' = [cid EXCEPT ![t] = cache[Gw(t)].id]
  /\ cache' = [cache EXCEPT ![Gw(t)] = NoTc]
  /\ Goto(t, IF cache[Gw(t)] = NoTc THEN "stopLoad" ELSE "readConfig")
  /\ UNCHANGED <<redis, disk, ctr, made, op, ld, cfg, sav, ops, ends, faults>>

\* Not in this process's cache: maybe another gateway's.
StopLoad(t) ==
  /\ pc[t] = "stopLoad"
  /\ \E s \in {redis, Absent} :
       /\ Load(s)
       /\ IF IsRunning(s)
          THEN /\ cid' = [cid EXCEPT ![t] = s.id]
               /\ ld' = [ld EXCEPT ![t] = s]
               /\ Goto(t, "readConfig")
               /\ UNCHANGED <<op, cfg, sav>>
          ELSE StopReturns(t)
  /\ UNCHANGED <<shared, ops, ends>>

\* Mutant: the configuration on disk, else none.
ReadDiskOnly(t) ==
  /\ pc[t] = "readConfig"
  /\ sav' = [sav EXCEPT ![t] = disk]
  /\ Goto(t, "saveStopped")
  /\ UNCHANGED <<shared, op, cid, ld, cfg, ops, ends, faults>>

\* The configuration on disk, else the loaded one ...
ReadConfig(t) ==
  LET c == IF disk # NoConfig THEN disk ELSE ld[t].config IN
  /\ pc[t] = "readConfig"
  /\ sav' = [sav EXCEPT ![t] = c]
  /\ Goto(t, IF c = NoConfig THEN "readSaved" ELSE "saveStopped")
  /\ UNCHANGED <<shared, op, cid, ld, cfg, ops, ends, faults>>

\* ... else the one in Redis.
ReadSaved(t) ==
  /\ pc[t] = "readSaved"
  /\ \E s \in {redis, Absent} : Load(s) /\ sav' = [sav EXCEPT ![t] = s.config]
  /\ Goto(t, "saveStopped")
  /\ UNCHANGED <<shared, op, cid, ld, cfg, ops, ends>>

SaveStopped(t) ==
  /\ pc[t] = "saveStopped"
  /\ Save(Stopped(sav[t]))
  /\ Goto(t, "stopCtr")
  /\ UNCHANGED <<disk, ctr, made, cache, op, locals, ops, ends>>

\* Mutant: the container is stopped and not removed.
StopWithoutRemove(t) ==
  /\ pc[t] = "stopCtr"
  /\ ctr' = IF ctr.id = cid[t] THEN [ctr EXCEPT !.up = FALSE] ELSE ctr
  /\ StopReturns(t)
  /\ UNCHANGED <<redis, disk, made, cache, ops, ends, faults>>

\* The container is looked up by its id and stopped; every exception is logged.
StopContainer(t) ==
  /\ pc[t] = "stopCtr"
  /\ \/ /\ ctr.id = cid[t]
        /\ ctr' = [ctr EXCEPT !.up = FALSE]
        /\ Goto(t, "removeCtr")
        /\ NoFault
        /\ UNCHANGED <<op, locals>>
     \/ /\ ctr.id # cid[t]
        /\ StopReturns(t)
        /\ NoFault
        /\ UNCHANGED ctr
     \/ /\ Fault("docker")
        /\ \/ ctr' = ctr
           \/ ctr.id = cid[t] /\ ctr' = [ctr EXCEPT !.up = FALSE]
        /\ StopReturns(t)
  /\ UNCHANGED <<redis, disk, made, cache, ops, ends>>

RemoveContainer(t) ==
  /\ pc[t] = "removeCtr"
  /\ \/ ctr' = (IF ctr.id = cid[t] THEN NoCtr ELSE ctr) /\ NoFault
     \/ UNCHANGED ctr /\ Fault("docker")
  /\ StopReturns(t)
  /\ UNCHANGED <<redis, disk, made, cache, ops, ends>>

(***************************************************************************)
(* provision_tenant, from the return of stop_tenant on                     *)
(***************************************************************************)

\* Mutant: a tenant is provisioned without stopping what it has.
ConfigureWithoutStop(g, c) ==
  /\ Begin(g)
  /\ cfg' = [cfg EXCEPT ![Main(g)] = Posted(c)]
  /\ op' = [op EXCEPT ![Main(g)] = "configure"]
  /\ Goto(Main(g), "truncate")
  /\ UNCHANGED <<shared, cid, ld, sav, ends, faults>>

\* POST /api/tenant/config
Configure(g, c) ==
  /\ Begin(g)
  /\ cfg' = [cfg EXCEPT ![Main(g)] = Posted(c)]
  /\ op' = [op EXCEPT ![Main(g)] = "configure"]
  /\ Goto(Main(g), "pop")
  /\ UNCHANGED <<shared, cid, ld, sav, ends, faults>>

\* write_config fills an empty configuration, points its workspace into the
\* container (in place: this is what gets saved), and returns where it was.
Written(c) == [name |-> IF c = NoConfig THEN Default ELSE c.name, host |-> FALSE,
               env |-> c.env]

Truncate(t) ==
  /\ pc[t] = "truncate"
  /\ disk' = NoConfig
  /\ Goto(t, "write")
  /\ UNCHANGED <<redis, ctr, made, cache, op, locals, ops, ends, faults>>

Write(t) ==
  /\ pc[t] = "write"
  /\ disk' = Written(cfg[t])
  /\ Goto(t, "removeOld")
  /\ UNCHANGED <<redis, ctr, made, cache, op, locals, ops, ends, faults>>

\* Whatever has the container's name is removed by force.
RemoveOld(t) ==
  /\ pc[t] = "removeOld"
  /\ \/ ctr' = NoCtr /\ Goto(t, "run") /\ NoFault /\ UNCHANGED <<op, locals>>
     \/ Fault("docker") /\ Return(t) /\ ctr' \in {ctr, NoCtr}
  /\ UNCHANGED <<redis, disk, made, cache, ops, ends>>

\* TENANT_ID, REDIS_URL and OPENAI_API_KEY are added to the gateway.env of the
\* configuration itself, unless it is empty: then a dictionary of its own gets them.
Added(c) == [c EXCEPT !.env = IF @ = "none" THEN "none" ELSE "added"]

\* The container of configuration c; its workspace is mounted from the host path
\* that c names, or from the tenant's directory.
NewCtr(n, up, c) ==
  [id |-> n, up |-> up, config |-> [Added(Written(c)) EXCEPT !.host = c.host]]

\* containers.run: created and started; or refused, because the name is taken or
\* for any other reason; or it raises with the container created, and maybe started.
Run(t) ==
  /\ pc[t] = "run"
  /\ \/ /\ ctr = NoCtr
        /\ made' = made + 1
        /\ ctr' = NewCtr(made', TRUE, cfg[t])
        /\ cache' = [cache EXCEPT ![Gw(t)] = [id |-> made', act |-> 0]]
        /\ cid' = [cid EXCEPT ![t] = made']
        /\ Goto(t, "saveRunning")
        /\ NoFault
        /\ UNCHANGED <<op, ld, cfg, sav>>
     \/ /\ (ctr # NoCtr /\ NoFault) \/ Fault("docker")
        /\ Return(t)
        /\ UNCHANGED <<ctr, made, cache>>
     \/ /\ ctr = NoCtr
        /\ Fault("docker")
        /\ made' = made + 1
        /\ \E up \in BOOLEAN : ctr' = NewCtr(made', up, cfg[t])
        /\ Return(t)
        /\ UNCHANGED cache
  /\ UNCHANGED <<redis, disk, ops, ends>>

SaveRunning(t) ==
  /\ pc[t] = "saveRunning"
  /\ Save([status |-> "running", id |-> cid[t], config |-> Added(Written(cfg[t])), act |-> 0])
  /\ Return(t)
  /\ UNCHANGED <<disk, ctr, made, cache, ops, ends>>

(***************************************************************************)
(* touch and the pruner                                                    *)
(***************************************************************************)

\* touch, after an agent has answered an approval.
Touch(g) ==
  /\ Begin(g)
  /\ cache[g] # NoTc
  /\ cache' = [cache EXCEPT ![g].act = 0]
  /\ op' = [op EXCEPT ![Main(g)] = "touch"]
  /\ Goto(Main(g), "touchLoad")
  /\ UNCHANGED <<redis, disk, ctr, made, locals, ends, faults>>

TouchLoad(t) ==
  /\ pc[t] = "touchLoad"
  /\ \E s \in {redis, Absent} :
       /\ Load(s)
       /\ IF s.status = "running"
          THEN /\ ld' = [ld EXCEPT ![t] = [s EXCEPT !.act = 0]]
               /\ Goto(t, "touchSave")
               /\ UNCHANGED <<op, cid, cfg, sav>>
          ELSE Return(t)
  /\ UNCHANGED <<shared, ops, ends>>

TouchSave(t) ==
  /\ pc[t] = "touchSave"
  /\ Save(ld[t])
  /\ Return(t)
  /\ UNCHANGED <<disk, ctr, made, cache, ops, ends>>

\* The pruner runs once the manager is constructed, until _stop_event is set.
Pruning(g) ==
  /\ pc[Main(g)] # "off" /\ pc[Main(g)] # "exiting"
  /\ op[Main(g)] \notin {"reload", "shutdown"}

\* Mutant: only the tenants of the cache are looked at.
ScanCached(g) ==
  /\ pc[Pruner(g)] = "rest" /\ Pruning(g)
  /\ cache[g] # NoTc /\ cache[g].act > IdleTimeout
  /\ op' = [op EXCEPT ![Pruner(g)] = "prune"]
  /\ Goto(Pruner(g), "pop")
  /\ UNCHANGED <<shared, locals, ops, ends, faults>>

\* One round of _prune_loop that finds the tenant idle.
Scan(g) ==
  /\ pc[Pruner(g)] = "rest" /\ Pruning(g)
  /\ redis.status = "running" /\ redis.act > IdleTimeout
  /\ op' = [op EXCEPT ![Pruner(g)] = "prune"]
  /\ Goto(Pruner(g), "pop")
  /\ UNCHANGED <<shared, locals, ops, ends, faults>>

(***************************************************************************)
(* The world: time, gateway processes, containers.                         *)
(***************************************************************************)
Older(r) == [r EXCEPT !.act = IF @ > IdleTimeout THEN @ ELSE @ + 1]

Tick ==
  /\ redis' = IF redis.status = "running" THEN Older(redis) ELSE redis
  /\ cache' = [g \in Gateways |-> IF cache[g] = NoTc THEN NoTc ELSE Older(cache[g])]
  /\ ld' = [t \in Threads |-> IF ld[t] = Absent THEN Absent ELSE Older(ld[t])]
  /\ UNCHANGED <<disk, ctr, made, pc, op, cid, cfg, sav, ops, ends, faults>>

\* DockerManager() reloads the tenant as get_tenant would; the pruner waits.
Start(g) ==
  /\ pc[Main(g)] = "off"
  /\ pc' = [pc EXCEPT ![Main(g)] = "load", ![Pruner(g)] = "rest"]
  /\ op' = [op EXCEPT ![Main(g)] = "reload"]
  /\ UNCHANGED <<shared, locals, ops, ends, faults>>

\* Mutant: shutdown_all leaves the containers alone.
ShutdownOnly(g) ==
  /\ pc[Main(g)] = "rest"
  /\ ends < MaxEnds /\ ends' = ends + 1
  /\ op' = [op EXCEPT ![Main(g)] = "shutdown"]
  /\ Goto(Main(g), "exiting")
  /\ UNCHANGED <<shared, locals, ops, faults>>

\* shutdown_all: stop what is in the cache, then leave.
Shutdown(g) ==
  /\ pc[Main(g)] = "rest"
  /\ ends < MaxEnds /\ ends' = ends + 1
  /\ op' = [op EXCEPT ![Main(g)] = "shutdown"]
  /\ Goto(Main(g), IF cache[g] = NoTc THEN "exiting" ELSE "pop")
  /\ UNCHANGED <<shared, locals, ops, faults>>

\* The process is gone, its daemon thread with it.
Gone(g) ==
  LET ours == {Main(g), Pruner(g)} IN
  /\ pc' = [t \in Threads |-> IF t \in ours THEN "off" ELSE pc[t]]
  /\ op' = [t \in Threads |-> IF t \in ours THEN "none" ELSE op[t]]
  /\ cid' = [t \in Threads |-> IF t \in ours THEN NoId ELSE cid[t]]
  /\ ld' = [t \in Threads |-> IF t \in ours THEN Absent ELSE ld[t]]
  /\ cfg' = [t \in Threads |-> IF t \in ours THEN NoConfig ELSE cfg[t]]
  /\ sav' = [t \in Threads |-> IF t \in ours THEN NoConfig ELSE sav[t]]
  /\ cache' = [cache EXCEPT ![g] = NoTc]
  /\ UNCHANGED <<redis, disk, ctr, made, ops, faults>>

Exit(g) == pc[Main(g)] = "exiting" /\ Gone(g) /\ UNCHANGED ends

Crash(g) ==
  /\ pc[Main(g)] # "off"
  /\ ends < MaxEnds /\ ends' = ends + 1
  /\ Gone(g)

ContainerExits ==
  /\ ctr.up
  /\ ctr' = [ctr EXCEPT !.up = FALSE]
  /\ Fault("exit")
  /\ UNCHANGED <<redis, disk, made, cache, pc, op, locals, ops, ends>>

-----------------------------------------------------------------------------
ThreadStep(t) ==
  \/ LoadState(t) \/ Probe(t) \/ MarkStopped(t) \/ GetSavedState(t)
  \/ Pop(t) \/ StopLoad(t) \/ ReadConfig(t) \/ ReadSaved(t) \/ SaveStopped(t)
  \/ StopContainer(t) \/ RemoveContainer(t)
  \/ Truncate(t) \/ Write(t) \/ RemoveOld(t) \/ Run(t) \/ SaveRunning(t)
  \/ TouchLoad(t) \/ TouchSave(t)

Request(g) ==
  \/ Chat(g) \/ Lookup(g) \/ Touch(g)
  \/ \E c \in Configs : Configure(g, c)

Process(g) == Start(g) \/ Scan(g) \/ Exit(g)

Next ==
  \/ \E t \in Threads : ThreadStep(t)
  \/ \E g \in Gateways : Request(g) \/ Process(g) \/ Shutdown(g) \/ Crash(g)
  \/ Tick \/ ContainerExits

Spec == Init /\ [][Next]_vars

\* Threads are scheduled, clocks run, the pruner looks every minute and a gateway
\* process that ended is started again.
FairSpec ==
  /\ Spec
  /\ WF_vars(Tick)
  /\ \A t \in Threads : WF_vars(ThreadStep(t))
  /\ \A g \in Gateways : WF_vars(Process(g))

(***************************************************************************)
(* Properties                                                              *)
(***************************************************************************)

NoFaults(K) == \A k \in K : faults[k] = 0
AtRest == \A t \in Threads : pc[t] \in {"off", "rest"}

\* No container is leaked: as long as no call fails and no gateway process ends, a
\* container that exists is the one Redis names, or in some cache, or a thread has
\* it in hand or is about to remove it by its name, however the threads interleave.
ContainerIsKnown ==
  ends = 0 /\ NoFaults(Kinds) /\ ctr # NoCtr =>
    \/ redis.id = ctr.id
    \/ \E g \in Gateways : cache[g].id = ctr.id
    \/ \E t \in Threads :
         cid[t] = ctr.id \/ pc[t] \in {"truncate", "write", "removeOld"}

\* One gateway process, whose Redis calls succeed, never has Redis name a container
\* that is not the newest: not through the pruner, nor crashes and restarts.
RedisNamesNewest ==
  (\A g, h \in Gateways : g = h) /\ NoFaults({"load", "save"}) /\ IsRunning(redis) =>
    redis.id = made

\* One gateway process, whose Redis calls succeed: the configuration that Redis keeps of
\* a running tenant is the one in config.json but for gateway.env, which has the
\* gateway's variables added unless it is empty; and it is the one that the container
\* was made with but for the workspace, which write_config has replaced
\* (docker_manager.py:266); whatever the pruner, crashes and failing Docker calls
\* leave half done.
ConfigsAgree ==
  (\A g, h \in Gateways : g = h) /\ NoFaults({"load", "save"}) /\ redis.status = "running" =>
    /\ redis.config = [disk EXCEPT !.env = IF @ = "none" THEN "none" ELSE "added"]
    /\ ctr.id = redis.id => redis.config = [ctr.config EXCEPT !.host = FALSE]

\* As long as Redis answers, a saved configuration is never replaced by none, though
\* config.json is at times half written when it is read, or left so by a crash.
ConfigNeverErased ==
  [][NoFaults({"load", "save"}) /\ redis.config # NoConfig => redis'.config # NoConfig]_vars

\* Redis does not say for ever that an idle tenant is running, whatever races, crashes
\* and failures have left behind.  And the container goes with it if nothing fails and
\* no process ends, provided that Redis named it at a time when no thread was busy with
\* the tenant (a pruner that was has its save of `stopped' land on a newer container).
IdleIsPruned ==
  /\ redis.status = "running" ~> redis.status # "running"
  /\ AtRest /\ ctr.up /\ redis.id = ctr.id
       ~> ~ ctr.up \/ ends > 0 \/ ~ NoFaults(Kinds)

\* What the pruner takes for idle has not been used through any gateway for longer
\* than the timeout.
PrunesIdleOnly ==
  [][\A g, h \in Gateways : Scan(g) => cache[h] = NoTc \/ cache[h].act > IdleTimeout]_vars

\* A gateway process that is shut down, with no other, leaves no container running,
\* unless its pruner is in stop_tenant and dies there (shutdown_all, line 436).
ShutdownStopsAll ==
  [][\A g \in Gateways :
       Exit(g) /\ Gateways = {g} /\ NoFaults(Kinds) /\ ends = 1 /\ pc[Pruner(g)] = "rest"
         => ~ ctr.up]_vars

\* The cache agrees with Redis, `the source of truth' (docker_manager.py:175), while
\* nothing is under way in a single gateway where nothing failed and nothing ended.
CacheFollowsRedis ==
  (\A g, h \in Gateways : g = h) /\ ends = 0 /\ NoFaults(Kinds) /\ AtRest =>
      \A g \in Gateways : cache[g] # NoTc => IsRunning(redis) /\ redis.id = cache[g].id
=============================================================================
