----------------------- MODULE ContainerLifecycle_proofs -----------------------
(***************************************************************************)
(* Proofs about ContainerLifecycle, for every set of gateways and          *)
(* configurations, every kind of fault and every value of the bounds.      *)
(***************************************************************************)
EXTENDS ContainerLifecycle, TLAPS

\* Every step is one of these; theorems about steps have a case for each.
LEMMA EveryStep ==
  ASSUME [Next]_vars
  PROVE  \/ \E t \in Threads : \/ LoadState(t) \/ Probe(t) \/ MarkStopped(t) \/ GetSavedState(t)
                               \/ Pop(t) \/ StopLoad(t) \/ ReadConfig(t) \/ ReadSaved(t)
                               \/ SaveStopped(t) \/ StopContainer(t) \/ RemoveContainer(t)
                               \/ Truncate(t) \/ Write(t) \/ RemoveOld(t) \/ Run(t)
                               \/ SaveRunning(t) \/ TouchLoad(t) \/ TouchSave(t)
         \/ \E g \in Gateways : \/ Chat(g) \/ Lookup(g) \/ Touch(g)
                                \/ \E c \in Configs : Configure(g, c)
         \/ \E g \in Gateways : \/ Start(g) \/ Scan(g) \/ Exit(g) \/ Shutdown(g) \/ Crash(g)
         \/ Tick
         \/ ContainerExits
         \/ UNCHANGED vars
  BY DEF Next, ThreadStep, Request, Process

LEMMA ThreadsOf ==
  /\ \A g \in Gateways : /\ Main(g) \in Threads /\ Pruner(g) \in Threads /\ Main(g) # Pruner(g)
                         /\ Gw(Main(g)) = g /\ Gw(Pruner(g)) = g
  /\ \A t \in Threads : Gw(t) \in Gateways /\ (t = Main(Gw(t)) \/ t = Pruner(Gw(t)))
  /\ \A g, h \in Gateways : Main(g) # Pruner(h) /\ (Main(g) = Main(h) => g = h)
  BY DEF Threads, Main, Pruner, Gw

(***************************************************************************)
(* Type correctness.  No state in Redis, nor one that a thread has loaded, *)
(* names a container that was not created.                                 *)
(***************************************************************************)
IdsMade == redis.id <= made /\ \A t \in Threads : ld[t].id <= made

TypeInv == TypeOK /\ IdsMade

LEMMA Constructed ==
  /\ NoConfig \notin Config
  /\ \A c \in Configs : Posted(c) \in Config
  /\ \A c \in Config \cup {NoConfig} : Written(c) \in Config /\ Written(c).host = FALSE
  /\ \A c \in Config : Added(c) \in Config /\ Added(c).host = c.host
  /\ Absent \in TenantState /\ Absent.id = NoId
  /\ \A c \in Config \cup {NoConfig} : Stopped(c) \in TenantState /\ Stopped(c).id = NoId
<1>1. NoConfig \notin Config /\ \A c \in Configs : Posted(c) \in Config
  BY LifecycleAssumption DEF NoConfig, Config, Env, Posted
<1>2. ASSUME NEW c \in Config \cup {NoConfig}  PROVE Written(c) \in Config /\ Written(c).host = FALSE
  <2>1. c.env \in Env /\ (c # NoConfig => c.name \in Configs \cup {Default})
    BY DEF Config, NoConfig, Env
  <2> QED  BY <2>1 DEF Written, Config
<1>3. ASSUME NEW c \in Config  PROVE Added(c) \in Config /\ Added(c).host = c.host
  BY DEF Added, Config, Env
<1>4. Absent \in TenantState /\ Absent.id = NoId
  BY LifecycleAssumption DEF Absent, TenantState, NoId, Age
<1>5. \A c \in Config \cup {NoConfig} : Stopped(c) \in TenantState /\ Stopped(c).id = NoId
  BY LifecycleAssumption DEF Stopped, TenantState, NoId, Age
<1> QED  BY <1>1, <1>2, <1>3, <1>4, <1>5

\* What the container is made with is what gets saved, but for the workspace.
LEMMA MadeWithSaved ==
  ASSUME NEW c \in Config \cup {NoConfig}, NEW n \in Nat, NEW up \in BOOLEAN
  PROVE  /\ NewCtr(n, up, c) \in [id : 0 .. n, up : BOOLEAN, config : Config \cup {NoConfig}]
         /\ NewCtr(n, up, c).id = n
         /\ [NewCtr(n, up, c).config EXCEPT !.host = FALSE] = Added(Written(c))
<1>1. Added(Written(c)) \in Config /\ Added(Written(c)).host = FALSE
  <2>1. Written(c) \in Config /\ Written(c).host = FALSE
    BY Constructed
  <2> QED  BY <2>1 DEF Added, Config, Env
<1>2. c.host \in BOOLEAN
  <2>1. CASE c \in Config
    BY <2>1 DEF Config
  <2>2. CASE c = NoConfig
    BY <2>2 DEF NoConfig
  <2> QED  BY <2>1, <2>2
<1>3. [Added(Written(c)) EXCEPT !.host = c.host] \in Config
  BY <1>1, <1>2 DEF Config
<1>4. [[Added(Written(c)) EXCEPT !.host = c.host] EXCEPT !.host = FALSE] = Added(Written(c))
  BY <1>1 DEF Config
<1> QED  BY <1>3, <1>4 DEF NewCtr

LEMMA NoneTyped ==
  ASSUME TypeOK
  PROVE  /\ NoCtr \in [id : 0 .. made, up : BOOLEAN, config : Config \cup {NoConfig}]
         /\ NoTc \in [id : 0 .. made, act : Age]
<1>1. NoId \in 0 .. made /\ 0 \in Age
  BY LifecycleAssumption DEF TypeOK, NoId, Age
<1> QED  BY <1>1 DEF NoCtr, NoTc

LEMMA LoadedTyped ==
  ASSUME TypeInv, NEW s \in {redis, Absent}
  PROVE  /\ s \in TenantState /\ s.id \in 0 .. made /\ s.config \in Config \cup {NoConfig}
         /\ s.act \in Age
  BY Constructed DEF TypeInv, TypeOK, IdsMade, TenantState, NoId

LEMMA FaultTyped ==
  ASSUME TypeOK, NoFault \/ \E k \in Kinds : Fault(k)
  PROVE  faults' \in [Kinds -> Nat]
  BY DEF TypeOK, NoFault, Fault

LEMMA OlderTyped ==
  /\ \A s \in TenantState : Older(s) \in TenantState /\ Older(s).id = s.id
  /\ \A n \in Nat : \A s \in [id : 0 .. n, act : Age] : Older(s) \in [id : 0 .. n, act : Age]
  BY LifecycleAssumption DEF TenantState, Older, Age

\* The locals of a thread, when its operation is over or it starts anew.
LEMMA ReturnTyped ==
  ASSUME TypeInv, NEW t \in Threads, Return(t), made' = made
  PROVE  /\ pc' \in [Threads -> PC] /\ op' \in [Threads -> Op] /\ cid' \in [Threads -> 0 .. made]
         /\ ld' \in [Threads -> TenantState] /\ cfg' \in [Threads -> Config \cup {NoConfig}]
         /\ sav' \in [Threads -> Config \cup {NoConfig}]
         /\ \A u \in Threads : ld'[u].id <= made
  BY Constructed DEF TypeInv, TypeOK, IdsMade, Return, Goto, PC, Op, NoId

LEMMA NotFoundTyped ==
  ASSUME TypeInv, NEW t \in Threads, NotFound(t), made' = made
  PROVE  /\ pc' \in [Threads -> PC] /\ op' \in [Threads -> Op] /\ cid' \in [Threads -> 0 .. made]
         /\ ld' \in [Threads -> TenantState] /\ cfg' \in [Threads -> Config \cup {NoConfig}]
         /\ sav' \in [Threads -> Config \cup {NoConfig}]
         /\ \A u \in Threads : ld'[u].id <= made
<1>1. CASE op[t] = "chat"
  BY <1>1, Constructed DEF TypeInv, TypeOK, IdsMade, NotFound, Goto, PC, NoId
<1>2. CASE op[t] # "chat"
  BY <1>2, ReturnTyped DEF NotFound
<1> QED  BY <1>1, <1>2

LEMMA StopReturnsTyped ==
  ASSUME TypeInv, NEW t \in Threads, StopReturns(t), made' = made
  PROVE  /\ pc' \in [Threads -> PC] /\ op' \in [Threads -> Op] /\ cid' \in [Threads -> 0 .. made]
         /\ ld' \in [Threads -> TenantState] /\ cfg' \in [Threads -> Config \cup {NoConfig}]
         /\ sav' \in [Threads -> Config \cup {NoConfig}]
         /\ \A u \in Threads : ld'[u].id <= made
<1>1. CASE op[t] = "prune"
  BY <1>1, ReturnTyped DEF StopReturns
<1>2. CASE op[t] = "shutdown"
  BY <1>2 DEF TypeInv, TypeOK, IdsMade, StopReturns, Goto, PC, locals
<1>3. CASE op[t] \notin {"prune", "shutdown"}
  <2>1. /\ Goto(t, "truncate") /\ cid' = [cid EXCEPT ![t] = NoId]
        /\ ld' = [ld EXCEPT ![t] = Absent] /\ sav' = [sav EXCEPT ![t] = NoConfig]
        /\ UNCHANGED <<op, cfg>>
    BY <1>3 DEF StopReturns
  <2> QED  BY <2>1, Constructed DEF TypeInv, TypeOK, IdsMade, Goto, PC, NoId
<1> QED  BY <1>1, <1>2, <1>3

LEMMA GoneTyped ==
  ASSUME TypeInv, NEW g \in Gateways, Gone(g), ends' \in Nat
  PROVE  TypeInv'
<1>1. NoTc \in [id : 0 .. made, act : Age] /\ NoId \in 0 .. made
  BY NoneTyped DEF NoId, TypeInv, TypeOK
<1> QED  BY <1>1, Constructed DEF TypeInv, TypeOK, IdsMade, Gone, PC, Op

LEMMA TypeInit == Init => TypeInv
<1> SUFFICES ASSUME Init PROVE TypeInv
  OBVIOUS
<1>1. redis \in TenantState /\ ld \in [Threads -> TenantState] /\ IdsMade
  BY Constructed DEF Init, IdsMade, NoId
<1>2. /\ ctr \in [id : 0 .. made, up : BOOLEAN, config : Config \cup {NoConfig}]
      /\ cache \in [Gateways -> [id : 0 .. made, act : Age]]
  BY LifecycleAssumption DEF Init, NoCtr, NoTc, NoId, Age
<1> QED  BY <1>1, <1>2 DEF Init, TypeInv, TypeOK, PC, Op, NoId

LEMMA TypeStep ==
  ASSUME TypeInv, [Next]_vars
  PROVE  TypeInv'
<1> USE DEF TypeInv
<1>0. \A k : Fault(k) => k \in Kinds
  BY LifecycleAssumption DEF Fault
<1>1. ASSUME NEW t \in Threads, LoadState(t)  PROVE TypeInv'
  <2>1. PICK s \in {redis, Absent} :
          /\ Load(s)
          /\ \/ /\ Goto(t, "probe") /\ ld' = [ld EXCEPT ![t] = s]
                /\ UNCHANGED <<op, cid, cfg, sav>>
             \/ NotFound(t)
    BY <1>1 DEF LoadState
  <2>2. UNCHANGED <<shared, ops, ends>> /\ faults' \in [Kinds -> Nat]
    BY <1>0, <1>1, <2>1, FaultTyped DEF LoadState, Load
  <2>3. CASE /\ Goto(t, "probe") /\ ld' = [ld EXCEPT ![t] = s]
             /\ UNCHANGED <<op, cid, cfg, sav>>
    BY <2>2, <2>3, LoadedTyped DEF TypeOK, IdsMade, Goto, PC, shared
  <2>4. CASE NotFound(t)
    BY <2>2, <2>4, NotFoundTyped DEF TypeOK, IdsMade, shared
  <2> QED  BY <2>1, <2>3, <2>4
<1>2. ASSUME NEW t \in Threads, Probe(t)  PROVE TypeInv'
  <2>1. UNCHANGED <<redis, disk, ctr, made, ops, ends>> /\ faults' \in [Kinds -> Nat]
    BY <1>0, <1>2, FaultTyped DEF Probe
  <2>2. CASE /\ ctr.id = ld[t].id /\ Return(t)
             /\ cache' = [cache EXCEPT ![Gw(t)] = [id |-> ld[t].id, act |-> ld[t].act]]
    <3>1. [id |-> ld[t].id, act |-> ld[t].act] \in [id : 0 .. made, act : Age]
      BY DEF TypeOK, IdsMade, TenantState
    <3>2. cache' \in [Gateways -> [id : 0 .. made, act : Age]]
      BY <2>2, <3>1 DEF TypeOK
    <3> QED  BY <2>1, <2>2, <3>2, ReturnTyped DEF TypeOK, IdsMade
  <2>3. CASE Goto(t, "mark") /\ UNCHANGED <<cache, op, locals>>
    BY <2>1, <2>3 DEF TypeOK, IdsMade, Goto, PC, locals
  <2> QED  BY <1>2, <2>2, <2>3 DEF Probe
<1>3. ASSUME NEW t \in Threads, MarkStopped(t)  PROVE TypeInv'
  <2>1. UNCHANGED <<disk, ctr, made, cache, ops, ends>> /\ faults' \in [Kinds -> Nat]
    BY <1>0, <1>3, FaultTyped DEF MarkStopped, Save
  <2>2. redis' \in TenantState /\ redis'.id <= made
    <3>1. ld[t].config \in Config \cup {NoConfig}
      BY DEF TypeOK, TenantState
    <3>2. redis' = redis \/ redis' = Stopped(ld[t].config)
      BY <1>3 DEF MarkStopped, Save
    <3> QED  BY <3>1, <3>2, Constructed DEF TypeOK, IdsMade, NoId
  <2> QED  BY <1>3, <2>1, <2>2, NotFoundTyped DEF MarkStopped, TypeOK, IdsMade
<1>4. ASSUME NEW t \in Threads, GetSavedState(t)  PROVE TypeInv'
  <2>1. PICK s \in {redis, Absent} : Load(s) /\ cfg' = [cfg EXCEPT ![t] = s.config]
    BY <1>4 DEF GetSavedState
  <2>2. cfg' \in [Threads -> Config \cup {NoConfig}] /\ faults' \in [Kinds -> Nat]
    BY <1>0, <2>1, LoadedTyped, FaultTyped DEF TypeOK, Load
  <2> QED  BY <1>4, <2>2 DEF GetSavedState, TypeOK, IdsMade, Goto, PC, shared
<1>5. ASSUME NEW t \in Threads, Pop(t)  PROVE TypeInv'
  <2>1. NoTc \in [id : 0 .. made, act : Age]
    BY NoneTyped
  <2>2. cid' \in [Threads -> 0 .. made] /\ cache' \in [Gateways -> [id : 0 .. made, act : Age]]
    BY <1>5, <2>1, ThreadsOf DEF Pop, TypeOK
  <2>3. pc' \in [Threads -> PC]
    BY <1>5 DEF Pop, TypeOK, Goto, PC
  <2> QED  BY <1>5, <2>2, <2>3 DEF Pop, TypeOK, IdsMade
<1>6. ASSUME NEW t \in Threads, StopLoad(t)  PROVE TypeInv'
  <2>1. PICK s \in {redis, Absent} :
          /\ Load(s)
          /\ \/ /\ cid' = [cid EXCEPT ![t] = s.id] /\ ld' = [ld EXCEPT ![t] = s]
                /\ Goto(t, "readConfig") /\ UNCHANGED <<op, cfg, sav>>
             \/ StopReturns(t)
    BY <1>6 DEF StopLoad
  <2>2. UNCHANGED <<shared, ops, ends>> /\ faults' \in [Kinds -> Nat]
    BY <1>0, <1>6, <2>1, FaultTyped DEF StopLoad, Load
  <2>3. CASE /\ cid' = [cid EXCEPT ![t] = s.id] /\ ld' = [ld EXCEPT ![t] = s]
             /\ Goto(t, "readConfig") /\ UNCHANGED <<op, cfg, sav>>
    BY <2>2, <2>3, LoadedTyped DEF TypeOK, IdsMade, Goto, PC, shared
  <2>4. CASE StopReturns(t)
    BY <2>2, <2>4, StopReturnsTyped DEF TypeOK, IdsMade, shared
  <2> QED  BY <2>1, <2>3, <2>4
<1>7. ASSUME NEW t \in Threads, ReadConfig(t)  PROVE TypeInv'
  <2>1. sav' \in [Threads -> Config \cup {NoConfig}]
    BY <1>7 DEF ReadConfig, TypeOK, TenantState
  <2>2. pc' \in [Threads -> PC]
    BY <1>7 DEF ReadConfig, TypeOK, Goto, PC
  <2> QED  BY <1>7, <2>1, <2>2 DEF ReadConfig, TypeOK, IdsMade, shared
<1>8. ASSUME NEW t \in Threads, ReadSaved(t)  PROVE TypeInv'
  <2>1. PICK s \in {redis, Absent} : Load(s) /\ sav' = [sav EXCEPT ![t] = s.config]
    BY <1>8 DEF ReadSaved
  <2>2. sav' \in [Threads -> Config \cup {NoConfig}] /\ faults' \in [Kinds -> Nat]
    BY <1>0, <2>1, LoadedTyped, FaultTyped DEF TypeOK, Load
  <2> QED  BY <1>8, <2>2 DEF ReadSaved, TypeOK, IdsMade, Goto, PC, shared
<1>9. ASSUME NEW t \in Threads, SaveStopped(t)  PROVE TypeInv'
  <2>1. redis' \in TenantState /\ redis'.id <= made
    <3>1. redis' = redis \/ redis' = Stopped(sav[t])
      BY <1>9 DEF SaveStopped, Save
    <3> QED  BY <3>1, Constructed DEF TypeOK, IdsMade, NoId
  <2>2. faults' \in [Kinds -> Nat]
    BY <1>0, <1>9, FaultTyped DEF SaveStopped, Save
  <2> QED  BY <1>9, <2>1, <2>2 DEF SaveStopped, TypeOK, IdsMade, Goto, PC, locals
<1>10. ASSUME NEW t \in Threads, StopContainer(t)  PROVE TypeInv'
  <2>1. /\ UNCHANGED <<redis, disk, made, cache, ops, ends>> /\ faults' \in [Kinds -> Nat]
        /\ ctr' = ctr \/ ctr' = [ctr EXCEPT !.up = FALSE]
        /\ (Goto(t, "removeCtr") /\ UNCHANGED <<op, locals>>) \/ StopReturns(t)
    BY <1>0, <1>10, FaultTyped DEF StopContainer
  <2>2. ctr' \in [id : 0 .. made, up : BOOLEAN, config : Config \cup {NoConfig}]
    BY <2>1 DEF TypeOK
  <2>3. CASE Goto(t, "removeCtr") /\ UNCHANGED <<op, locals>>
    BY <2>1, <2>2, <2>3 DEF TypeOK, IdsMade, Goto, PC, locals
  <2>4. CASE StopReturns(t)
    BY <2>1, <2>2, <2>4, StopReturnsTyped DEF TypeOK, IdsMade
  <2> QED  BY <2>1, <2>3, <2>4
<1>11. ASSUME NEW t \in Threads, RemoveContainer(t)  PROVE TypeInv'
  <2>1. /\ UNCHANGED <<redis, disk, made, cache, ops, ends>> /\ faults' \in [Kinds -> Nat]
        /\ ctr' = ctr \/ ctr' = NoCtr
    BY <1>0, <1>11, FaultTyped DEF RemoveContainer
  <2>2. ctr' \in [id : 0 .. made, up : BOOLEAN, config : Config \cup {NoConfig}]
    BY <2>1, NoneTyped DEF TypeOK
  <2> QED  BY <1>11, <2>1, <2>2, StopReturnsTyped DEF RemoveContainer, TypeOK, IdsMade
<1>12. ASSUME NEW t \in Threads, Truncate(t)  PROVE TypeInv'
  BY <1>12 DEF Truncate, TypeOK, IdsMade, Goto, PC, locals
<1>13. ASSUME NEW t \in Threads, Write(t)  PROVE TypeInv'
  <2>1. Written(cfg[t]) \in Config
    BY Constructed DEF TypeOK
  <2> QED  BY <1>13, <2>1 DEF Write, TypeOK, IdsMade, Goto, PC, locals
<1>14. ASSUME NEW t \in Threads, RemoveOld(t)  PROVE TypeInv'
  <2>1. /\ UNCHANGED <<redis, disk, made, cache, ops, ends>> /\ faults' \in [Kinds -> Nat]
        /\ ctr' = ctr \/ ctr' = NoCtr
        /\ (Goto(t, "run") /\ UNCHANGED <<op, locals>>) \/ Return(t)
    BY <1>0, <1>14, FaultTyped DEF RemoveOld
  <2>2. ctr' \in [id : 0 .. made, up : BOOLEAN, config : Config \cup {NoConfig}]
    BY <2>1, NoneTyped DEF TypeOK
  <2>3. CASE Goto(t, "run") /\ UNCHANGED <<op, locals>>
    BY <2>1, <2>2, <2>3 DEF TypeOK, IdsMade, Goto, PC, locals
  <2>4. CASE Return(t)
    BY <2>1, <2>2, <2>4, ReturnTyped DEF TypeOK, IdsMade
  <2> QED  BY <2>1, <2>3, <2>4
<1>15. ASSUME NEW t \in Threads, Run(t)  PROVE TypeInv'
  <2>1. UNCHANGED <<redis, disk, ops, ends>> /\ faults' \in [Kinds -> Nat]
    BY <1>0, <1>15, FaultTyped DEF Run
  <2>2. \A up \in BOOLEAN, n \in Nat :
          NewCtr(n, up, cfg[t]) \in [id : 0 .. n, up : BOOLEAN, config : Config \cup {NoConfig}]
    <3>1. cfg[t] \in Config \cup {NoConfig}
      BY DEF TypeOK
    <3> QED  BY <3>1, MadeWithSaved
  <2>3. CASE /\ made' = made + 1 /\ ctr' = NewCtr(made', TRUE, cfg[t])
             /\ cache' = [cache EXCEPT ![Gw(t)] = [id |-> made', act |-> 0]]
             /\ cid' = [cid EXCEPT ![t] = made'] /\ Goto(t, "saveRunning")
             /\ UNCHANGED <<op, ld, cfg, sav>>
    <3>1. made' \in Nat /\ made <= made' /\ 0 .. made \subseteq 0 .. made'
      BY <2>3 DEF TypeOK
    <3>2. cache' \in [Gateways -> [id : 0 .. made', act : Age]]
      <4>1. [id |-> made', act |-> 0] \in [id : 0 .. made', act : Age]
        BY <3>1, LifecycleAssumption DEF Age
      <4>2. \A g \in Gateways : cache[g] \in [id : 0 .. made', act : Age]
        BY <3>1 DEF TypeOK
      <4> QED  BY <2>3, <4>1, <4>2 DEF TypeOK
    <3>3. cid' \in [Threads -> 0 .. made'] /\ pc' \in [Threads -> PC]
      BY <2>3, <3>1 DEF TypeOK, Goto, PC
    <3>4. ctr' \in [id : 0 .. made', up : BOOLEAN, config : Config \cup {NoConfig}]
      BY <2>2, <2>3, <3>1
    <3>5. IdsMade'
      BY <2>1, <2>3, <3>1 DEF TypeOK, IdsMade, TenantState
    <3> QED  BY <2>1, <2>3, <3>1, <3>2, <3>3, <3>4, <3>5 DEF TypeOK
  <2>4. CASE Return(t) /\ UNCHANGED <<ctr, made, cache>>
    BY <2>1, <2>4, ReturnTyped DEF TypeOK, IdsMade
  <2>5. CASE /\ made' = made + 1 /\ \E up \in BOOLEAN : ctr' = NewCtr(made', up, cfg[t])
             /\ Return(t) /\ UNCHANGED cache
    <3>1. made' \in Nat /\ made <= made' /\ 0 .. made \subseteq 0 .. made'
      BY <2>5 DEF TypeOK
    <3>2. cache' \in [Gateways -> [id : 0 .. made', act : Age]]
      BY <2>5, <3>1 DEF TypeOK
    <3>3. /\ pc' \in [Threads -> PC] /\ op' \in [Threads -> Op]
          /\ cid' \in [Threads -> 0 .. made'] /\ ld' \in [Threads -> TenantState]
          /\ cfg' \in [Threads -> Config \cup {NoConfig}]
          /\ sav' \in [Threads -> Config \cup {NoConfig}]
      BY <2>5, <3>1, Constructed DEF TypeOK, Return, Goto, PC, Op, NoId
    <3>4. ctr' \in [id : 0 .. made', up : BOOLEAN, config : Config \cup {NoConfig}]
      BY <2>2, <2>5, <3>1
    <3>5. IdsMade'
      BY <2>1, <2>5, <3>1, Constructed DEF TypeOK, IdsMade, TenantState, Return, NoId
    <3> QED  BY <2>1, <3>1, <3>2, <3>3, <3>4, <3>5 DEF TypeOK
  <2> QED  BY <1>15, <2>3, <2>4, <2>5 DEF Run
<1>16. ASSUME NEW t \in Threads, SaveRunning(t)  PROVE TypeInv'
  <2>1. UNCHANGED <<disk, ctr, made, cache, ops, ends>> /\ faults' \in [Kinds -> Nat]
    BY <1>0, <1>16, FaultTyped DEF SaveRunning, Save
  <2>2. redis' \in TenantState /\ redis'.id <= made
    <3> DEFINE s == [status |-> "running", id |-> cid[t], config |-> Added(Written(cfg[t])), act |-> 0]
    <3>1. s \in TenantState /\ s.id <= made
      <4>1. Added(Written(cfg[t])) \in Config /\ cid[t] \in 0 .. made /\ 0 \in Age
        BY Constructed, LifecycleAssumption DEF TypeOK, Age
      <4> QED  BY <4>1 DEF TenantState
    <3>2. redis' = redis \/ redis' = s
      BY <1>16 DEF SaveRunning, Save
    <3> QED  BY <3>1, <3>2 DEF TypeOK, IdsMade
  <2> QED  BY <1>16, <2>1, <2>2, ReturnTyped DEF SaveRunning, TypeOK, IdsMade
<1>17. ASSUME NEW t \in Threads, TouchLoad(t)  PROVE TypeInv'
  <2>1. PICK s \in {redis, Absent} :
          /\ Load(s)
          /\ \/ /\ ld' = [ld EXCEPT ![t] = [s EXCEPT !.act = 0]]
                /\ Goto(t, "touchSave") /\ UNCHANGED <<op, cid, cfg, sav>>
             \/ Return(t)
    BY <1>17 DEF TouchLoad
  <2>2. UNCHANGED <<shared, ops, ends>> /\ faults' \in [Kinds -> Nat]
    BY <1>0, <1>17, <2>1, FaultTyped DEF TouchLoad, Load
  <2>3. CASE /\ ld' = [ld EXCEPT ![t] = [s EXCEPT !.act = 0]]
             /\ Goto(t, "touchSave") /\ UNCHANGED <<op, cid, cfg, sav>>
    <3>1. [s EXCEPT !.act = 0] \in TenantState /\ [s EXCEPT !.act = 0].id <= made
      BY LoadedTyped, LifecycleAssumption DEF TenantState, Age
    <3> QED  BY <2>2, <2>3, <3>1 DEF TypeOK, IdsMade, Goto, PC, shared
  <2>4. CASE Return(t)
    BY <2>2, <2>4, ReturnTyped DEF TypeOK, IdsMade, shared
  <2> QED  BY <2>1, <2>3, <2>4
<1>18. ASSUME NEW t \in Threads, TouchSave(t)  PROVE TypeInv'
  <2>1. redis' \in TenantState /\ redis'.id <= made
    BY <1>18 DEF TouchSave, Save, TypeOK, IdsMade
  <2>2. UNCHANGED <<disk, ctr, made, cache, ops, ends>> /\ faults' \in [Kinds -> Nat]
    BY <1>0, <1>18, FaultTyped DEF TouchSave, Save
  <2> QED  BY <1>18, <2>1, <2>2, ReturnTyped DEF TouchSave, TypeOK, IdsMade
<1>19. ASSUME NEW g \in Gateways, Chat(g) \/ Lookup(g) \/ Touch(g)  PROVE TypeInv'
  <2>1. /\ UNCHANGED <<redis, disk, ctr, made, locals, ends, faults>> /\ ops' = ops + 1
        /\ cache' = cache \/ cache' = [cache EXCEPT ![g].act = 0]
        /\ pc' = pc \/ pc' = [pc EXCEPT ![Main(g)] = "load"]
             \/ pc' = [pc EXCEPT ![Main(g)] = "touchLoad"]
        /\ op' = op \/ \E o \in {"chat", "lookup", "touch"} : op' = [op EXCEPT ![Main(g)] = o]
    BY <1>19 DEF Chat, Lookup, Touch, GetTenant, Begin, Goto
  <2>2. cache' \in [Gateways -> [id : 0 .. made, act : Age]]
    <3>1. [cache[g] EXCEPT !.act = 0] \in [id : 0 .. made, act : Age]
      BY LifecycleAssumption DEF TypeOK, Age
    <3>2. cache' = cache \/ cache' = [cache EXCEPT ![g] = [cache[g] EXCEPT !.act = 0]]
      BY <2>1 DEF TypeOK
    <3> QED  BY <3>1, <3>2 DEF TypeOK
  <2>3. pc' \in [Threads -> PC]
    BY <2>1 DEF TypeOK, PC
  <2>4. op' \in [Threads -> Op]
    BY <2>1 DEF TypeOK, Op
  <2> QED  BY <2>1, <2>2, <2>3, <2>4 DEF TypeOK, IdsMade, locals
<1>20. ASSUME NEW g \in Gateways, NEW c \in Configs, Configure(g, c)  PROVE TypeInv'
  <2>1. cfg' \in [Threads -> Config \cup {NoConfig}]
    BY <1>20, Constructed DEF Configure, TypeOK
  <2>2. pc' \in [Threads -> PC] /\ op' \in [Threads -> Op]
    BY <1>20 DEF Configure, Goto, TypeOK, PC, Op
  <2> QED  BY <1>20, <2>1, <2>2 DEF Configure, Begin, TypeOK, IdsMade, shared
<1>21. ASSUME NEW g \in Gateways, Start(g) \/ Scan(g) \/ Shutdown(g)  PROVE TypeInv'
  <2>1. UNCHANGED <<shared, locals, ops, faults>> /\ ends' \in Nat
    BY <1>21 DEF Start, Scan, Shutdown, TypeOK
  <2>2. pc' \in [Threads -> PC] /\ op' \in [Threads -> Op]
    BY <1>21 DEF Start, Scan, Shutdown, Goto, TypeOK, PC, Op
  <2> QED  BY <2>1, <2>2 DEF TypeOK, IdsMade, shared, locals
<1>22. ASSUME NEW g \in Gateways, Exit(g) \/ Crash(g)  PROVE TypeInv'
  BY <1>22, GoneTyped DEF Exit, Crash, TypeOK
<1>23. CASE Tick
  <2>1. redis' \in TenantState /\ redis'.id <= made
    BY <1>23, OlderTyped DEF Tick, TypeOK, IdsMade
  <2>2. cache' \in [Gateways -> [id : 0 .. made, act : Age]]
    <3>1. \A g \in Gateways : cache[g] \in [id : 0 .. made, act : Age] /\ made \in Nat
      BY DEF TypeOK
    <3> QED  BY <1>23, <3>1, OlderTyped DEF Tick
  <2>3. ld' \in [Threads -> TenantState] /\ \A t \in Threads : ld'[t].id <= made
    BY <1>23, OlderTyped DEF Tick, TypeOK, IdsMade
  <2> QED  BY <1>23, <2>1, <2>2, <2>3 DEF Tick, TypeOK, IdsMade
<1>24. CASE ContainerExits
  <2>1. /\ UNCHANGED <<redis, disk, made, cache, pc, op, locals, ops, ends>>
        /\ ctr' = [ctr EXCEPT !.up = FALSE] /\ faults' \in [Kinds -> Nat]
    BY <1>0, <1>24, FaultTyped DEF ContainerExits
  <2> QED  BY <2>1 DEF TypeOK, IdsMade, locals
<1>25. CASE UNCHANGED vars
  BY <1>25 DEF vars, shared, locals, TypeOK, IdsMade
<1> HIDE DEF TypeInv
<1> QED
  BY EveryStep, <1>1, <1>2, <1>3, <1>4, <1>5, <1>6, <1>7, <1>8, <1>9, <1>10, <1>11, <1>12,
     <1>13, <1>14, <1>15, <1>16, <1>17, <1>18, <1>19, <1>20, <1>21, <1>22, <1>23, <1>24, <1>25

LEMMA TypeAlways == Spec => []TypeInv
  BY TypeInit, TypeStep, PTL DEF Spec

\* Every variable of the lifecycle always has its type (TypeOK).
THEOREM LifecycleTypeCorrect == Spec => []TypeOK
<1>1. TypeInv => TypeOK
  BY DEF TypeInv
<1> QED  BY <1>1, TypeAlways, PTL

(***************************************************************************)
(* Failures and processes that end are counted, and what the pruner's      *)
(* thread does is stop_tenant.                                             *)
(***************************************************************************)
LEMMA FaultsCount ==
  ASSUME TypeInv, [Next]_vars
  PROVE  /\ UNCHANGED faults \/ \E k \in Kinds : Fault(k)
         /\ ends' = ends \/ ends' = ends + 1
<1> DEFINE F == UNCHANGED faults \/ \E k \in Kinds : Fault(k)
           E == ends' = ends \/ ends' = ends + 1
<1>0. "load" \in Kinds /\ "save" \in Kinds /\ "docker" \in Kinds /\ "exit" \in Kinds
  BY DEF Kinds
<1>1. ASSUME NEW t \in Threads,
             \/ LoadState(t) \/ Probe(t) \/ MarkStopped(t) \/ GetSavedState(t) \/ Pop(t)
             \/ StopLoad(t) \/ ReadConfig(t) \/ ReadSaved(t)
      PROVE  F /\ E
  BY <1>0, <1>1 DEF LoadState, Probe, MarkStopped, GetSavedState, Pop, StopLoad, ReadConfig,
                    ReadSaved, Load, Save, NoFault
<1>2. ASSUME NEW t \in Threads,
             \/ SaveStopped(t) \/ StopContainer(t) \/ RemoveContainer(t) \/ Truncate(t)
             \/ Write(t) \/ RemoveOld(t) \/ Run(t) \/ SaveRunning(t) \/ TouchLoad(t)
             \/ TouchSave(t)
      PROVE  F /\ E
  BY <1>0, <1>2 DEF SaveStopped, StopContainer, RemoveContainer, Truncate, Write, RemoveOld, Run,
                    SaveRunning, TouchLoad, TouchSave, Load, Save, NoFault
<1>3. ASSUME NEW g \in Gateways,
             Chat(g) \/ Lookup(g) \/ Touch(g) \/ \E c \in Configs : Configure(g, c)
      PROVE  F /\ E
  BY <1>3 DEF Chat, Lookup, Touch, Configure, GetTenant
<1>4. ASSUME NEW g \in Gateways, Start(g) \/ Scan(g) \/ Exit(g) \/ Shutdown(g) \/ Crash(g)
      PROVE  F /\ E
  BY <1>4 DEF Start, Scan, Exit, Shutdown, Crash, Gone
<1>5. Tick \/ ContainerExits \/ UNCHANGED vars => F /\ E
  BY <1>0 DEF Tick, ContainerExits, vars
<1> HIDE DEF F, E
<1>6. F /\ E
  BY EveryStep, <1>1, <1>2, <1>3, <1>4, <1>5
<1> QED  BY <1>6 DEF F, E

\* A call that fails is remembered.
LEMMA NoFaultsBefore ==
  ASSUME TypeInv, [Next]_vars, NEW K \in SUBSET Kinds, NoFaults(K)'
  PROVE  NoFaults(K) /\ \A k \in K : ~ Fault(k)
<1>1. \A k \in Kinds : faults[k] \in Nat
  BY DEF TypeInv, TypeOK
<1>2. \A k \in Kinds : Fault(k) => faults'[k] = faults[k] + 1
  BY DEF Fault, TypeInv, TypeOK
<1>3. \A k, j \in Kinds : Fault(j) => faults'[k] = faults[k] \/ faults'[k] = faults[k] + 1
  BY DEF Fault, TypeInv, TypeOK
<1>4. \A k \in K : faults'[k] = faults[k] \/ faults'[k] = faults[k] + 1
  BY <1>3, FaultsCount
<1>5. \A k \in K : faults'[k] = 0
  BY DEF NoFaults
<1> QED  BY <1>1, <1>2, <1>4, <1>5 DEF NoFaults

Stopping  == {"readConfig", "readSaved", "saveStopped", "stopCtr", "removeCtr"}

PrunerStops ==
  \A g \in Gateways :
    /\ pc[Pruner(g)] \in {"off", "rest", "pop", "stopLoad"} \cup Stopping
    /\ pc[Pruner(g)] \notin {"off", "rest"} => op[Pruner(g)] = "prune"
    /\ op[Pruner(g)] \in {"none", "prune"}
    /\ pc[Main(g)] = "off" => pc[Pruner(g)] = "off"

\* A step of another thread leaves a thread where it is.
LEMMA PrunerStopsStep ==
  ASSUME TypeInv, PrunerStops, [Next]_vars
  PROVE  PrunerStops'
<1> USE ThreadsOf DEF TypeInv, TypeOK, PrunerStops, Stopping
<1>1. ASSUME NEW t \in Threads, LoadState(t) \/ Probe(t) \/ MarkStopped(t) \/ GetSavedState(t)
      PROVE  PrunerStops'
  BY <1>1 DEF LoadState, Probe, MarkStopped, GetSavedState, NotFound, Return, Goto, locals
<1>2. ASSUME NEW t \in Threads, Pop(t) \/ ReadConfig(t) \/ ReadSaved(t) \/ SaveStopped(t)
      PROVE  PrunerStops'
  BY <1>2 DEF Pop, ReadConfig, ReadSaved, SaveStopped, Goto, locals
<1>3. ASSUME NEW t \in Threads, StopLoad(t) \/ StopContainer(t) \/ RemoveContainer(t)
      PROVE  PrunerStops'
  <2>1. \/ StopReturns(t)
        \/ (\E p \in Stopping : Goto(t, p)) /\ UNCHANGED op
    BY <1>3 DEF StopLoad, StopContainer, RemoveContainer
  <2>2. CASE StopReturns(t)
    <3>1. CASE op[t] = "prune"
      <4>1. /\ pc[t] # "off" /\ pc' = [pc EXCEPT ![t] = "rest"]
            /\ op' = [op EXCEPT ![t] = "none"]
        BY <1>3, <2>2, <3>1
           DEF StopLoad, StopContainer, RemoveContainer, StopReturns, Return, Goto
      <4> QED  BY <4>1
    <3>2. CASE op[t] # "prune"
      <4>1. (\E p \in {"exiting", "truncate"} : Goto(t, p)) /\ UNCHANGED op
        BY <2>2, <3>2 DEF StopReturns
      <4>2. \A g \in Gateways : t # Pruner(g)
        BY <1>3, <3>2 DEF StopLoad, StopContainer, RemoveContainer
      <4> QED  BY <4>1, <4>2 DEF Goto
    <3> QED  BY <3>1, <3>2
  <2>3. CASE (\E p \in Stopping : Goto(t, p)) /\ UNCHANGED op
    <3>1. pc[t] \in {"stopLoad"} \cup Stopping
      BY <1>3 DEF StopLoad, StopContainer, RemoveContainer
    <3> QED  BY <2>3, <3>1 DEF Goto
  <2> QED  BY <2>1, <2>2, <2>3
<1>4. ASSUME NEW t \in Threads, Truncate(t) \/ Write(t) \/ RemoveOld(t) \/ Run(t) \/ SaveRunning(t)
      PROVE  PrunerStops'
  <2>1. \A g \in Gateways : t # Pruner(g)
    BY <1>4 DEF Truncate, Write, RemoveOld, Run, SaveRunning
  <2>2. \A u \in Threads : u # t => pc'[u] = pc[u] /\ op'[u] = op[u]
    BY <1>4 DEF Truncate, Write, RemoveOld, Run, SaveRunning, Return, Goto, locals
  <2>3. pc'[t] # "off"
    BY <1>4 DEF Truncate, Write, RemoveOld, Run, SaveRunning, Return, Goto
  <2> QED  BY <2>1, <2>2, <2>3
<1>5. ASSUME NEW t \in Threads, TouchLoad(t) \/ TouchSave(t)  PROVE PrunerStops'
  BY <1>5 DEF TouchLoad, TouchSave, Return, Goto, locals
<1>6. ASSUME NEW g \in Gateways,
             Chat(g) \/ Lookup(g) \/ Touch(g) \/ \E c \in Configs : Configure(g, c)
      PROVE  PrunerStops'
  BY <1>6 DEF Chat, Lookup, Touch, Configure, GetTenant, Goto
<1>7. ASSUME NEW g \in Gateways, Start(g) \/ Scan(g) \/ Exit(g) \/ Shutdown(g) \/ Crash(g)
      PROVE  PrunerStops'
  BY <1>7 DEF Start, Scan, Exit, Shutdown, Crash, Gone, Goto
<1>8. Tick \/ ContainerExits \/ UNCHANGED vars => PrunerStops'
  BY DEF Tick, ContainerExits, vars
<1> HIDE DEF TypeInv, PrunerStops
<1> QED  BY EveryStep, <1>1, <1>2, <1>3, <1>4, <1>5, <1>6, <1>7, <1>8

LEMMA PrunerStopsAlways == Spec => []PrunerStops
<1>1. Init => PrunerStops
  BY ThreadsOf DEF Init, PrunerStops, Stopping
<1> QED  BY <1>1, PrunerStopsStep, TypeAlways, PTL DEF Spec

(***************************************************************************)
(* No container is leaked.  It is in the cache of the gateway that has run *)
(* or found it, until a thread takes it out to stop it; that thread keeps  *)
(* its id until the container is removed.                                  *)
(***************************************************************************)
Quiet == ends = 0 /\ NoFaults(Kinds)

InHand ==
  ctr # NoCtr =>
    \/ \E g \in Gateways : cache[g].id = ctr.id
    \/ \E t \in Threads : cid[t] = ctr.id /\ pc[t] \in Stopping

ContainerHasId == ctr # NoCtr => ctr.id # NoId

NoneLeaves == ends = 0 => \A t \in Threads : pc[t] # "exiting" /\ op[t] # "shutdown"

KnownInv == ContainerHasId /\ NoneLeaves /\ (Quiet => InHand)

\* A thread that leaves stop_tenant has no container, or one that is gone.
LEMMA StopReturnsInHand ==
  ASSUME TypeInv, InHand, NEW t \in Threads, StopReturns(t), UNCHANGED cache,
         cid[t] # ctr.id \/ pc[t] \notin Stopping, ctr'.id = ctr.id, ctr' = NoCtr <=> ctr = NoCtr
  PROVE  InHand'
<1>1. \A u \in Threads : u # t => cid'[u] = cid[u] /\ pc'[u] = pc[u]
  <2>1. CASE op[t] = "prune"
    BY <2>1 DEF StopReturns, Return, Goto, TypeInv, TypeOK
  <2>2. CASE op[t] = "shutdown"
    BY <2>2 DEF StopReturns, locals, Goto, TypeInv, TypeOK
  <2>3. CASE op[t] \notin {"prune", "shutdown"}
    <3>1. Goto(t, "truncate") /\ cid' = [cid EXCEPT ![t] = NoId]
      BY <2>3 DEF StopReturns
    <3> QED  BY <3>1 DEF Goto, TypeInv, TypeOK
  <2> QED  BY <2>1, <2>2, <2>3
<1> QED  BY <1>1 DEF InHand

LEMMA KnownStep ==
  ASSUME TypeInv, PrunerStops, KnownInv, [Next]_vars
  PROVE  KnownInv'
<1>0. ends' = 0 => ends = 0
  BY FaultsCount DEF TypeInv, TypeOK
<1>q. Quiet' => Quiet /\ InHand /\ \A k \in Kinds : ~ Fault(k)
  BY <1>0, NoFaultsBefore DEF Quiet, KnownInv
<1> USE ThreadsOf DEF TypeInv, TypeOK, ContainerHasId, NoneLeaves
<1>1. ASSUME NEW t \in Threads, LoadState(t) \/ MarkStopped(t)
      PROVE  KnownInv'
  <2>1. /\ UNCHANGED <<ctr, cache, ends>> /\ pc[t] \in {"load", "mark"}
        /\ \A u \in Threads : u # t => cid'[u] = cid[u] /\ pc'[u] = pc[u] /\ op'[u] = op[u]
        /\ pc'[t] # "exiting" /\ op'[t] \in {op[t], "none"}
    BY <1>1 DEF LoadState, MarkStopped, NotFound, Return, Goto, shared
  <2> QED  BY <1>q, <2>1 DEF KnownInv, InHand, Stopping
<1>2. ASSUME NEW t \in Threads, Probe(t)  PROVE KnownInv'
  <2>1. /\ UNCHANGED <<ctr, ends>> /\ pc[t] = "probe"
        /\ \A u \in Threads : u # t => cid'[u] = cid[u] /\ pc'[u] = pc[u] /\ op'[u] = op[u]
        /\ pc'[t] # "exiting" /\ op'[t] \in {op[t], "none"}
    BY <1>2 DEF Probe, Return, Goto, locals
  <2>2. \A g \in Gateways : cache'[g] = cache[g] \/ cache'[g].id = ctr.id
    BY <1>2 DEF Probe
  <2> QED  BY <1>q, <2>1, <2>2 DEF KnownInv, InHand, Stopping
<1>3. ASSUME NEW t \in Threads, GetSavedState(t)  PROVE KnownInv'
  BY <1>3, <1>q DEF GetSavedState, Goto, shared, KnownInv, InHand, Stopping
<1>4. ASSUME NEW t \in Threads, Pop(t)  PROVE KnownInv'
  <2>1. /\ UNCHANGED <<ctr, ends, op>> /\ pc[t] = "pop" /\ cid'[t] = cache[Gw(t)].id
        /\ pc'[t] = IF cache[Gw(t)] = NoTc THEN "stopLoad" ELSE "readConfig"
        /\ \A u \in Threads : u # t => cid'[u] = cid[u] /\ pc'[u] = pc[u]
        /\ \A g \in Gateways : g # Gw(t) => cache'[g] = cache[g]
    BY <1>4 DEF Pop, Goto
  <2>2. NoTc.id = NoId
    BY DEF NoTc
  <2>3. ContainerHasId' /\ NoneLeaves'
    BY <2>1 DEF KnownInv
  <2>4. ASSUME Quiet', ctr' # NoCtr
        PROVE  \/ \E g \in Gateways : cache'[g].id = ctr'.id
               \/ \E u \in Threads : cid'[u] = ctr'.id /\ pc'[u] \in Stopping
    <3>1. CASE cache[Gw(t)].id = ctr.id
      <4>1. cache[Gw(t)] # NoTc
        BY <2>1, <2>2, <2>4, <3>1 DEF KnownInv
      <4> QED  BY <2>1, <3>1, <4>1 DEF Stopping
    <3>2. CASE cache[Gw(t)].id # ctr.id
      BY <1>q, <2>1, <2>4, <3>2 DEF InHand, Stopping
    <3> QED  BY <3>1, <3>2
  <2> QED  BY <2>3, <2>4 DEF KnownInv, InHand
<1>5. ASSUME NEW t \in Threads, StopLoad(t)  PROVE KnownInv'
  <2>1. UNCHANGED <<ctr, cache, ends>> /\ pc[t] = "stopLoad"
    BY <1>5 DEF StopLoad, shared
  <2>2. CASE StopReturns(t)
    <3>1. NoneLeaves'
      BY <1>0, <2>1, <2>2 DEF KnownInv, StopReturns, Return, Goto, locals
    <3>2. Quiet' => InHand'
      BY <1>q, <2>1, <2>2, StopReturnsInHand DEF Stopping
    <3> QED  BY <2>1, <3>1, <3>2 DEF KnownInv
  <2>3. CASE Goto(t, "readConfig") /\ UNCHANGED op /\ \E i : cid' = [cid EXCEPT ![t] = i]
    BY <1>q, <2>1, <2>3 DEF KnownInv, InHand, Goto, Stopping
  <2> QED  BY <1>5, <2>2, <2>3 DEF StopLoad
<1>6. ASSUME NEW t \in Threads, ReadConfig(t) \/ ReadSaved(t) \/ SaveStopped(t)  PROVE KnownInv'
  <2>1. /\ UNCHANGED <<ctr, cache, ends, op, cid>> /\ pc[t] \in Stopping
        /\ pc'[t] \in Stopping /\ \A u \in Threads : u # t => pc'[u] = pc[u]
    BY <1>6 DEF ReadConfig, ReadSaved, SaveStopped, Goto, shared, locals, Stopping
  <2> QED  BY <1>q, <2>1 DEF KnownInv, InHand, Stopping
<1>7. ASSUME NEW t \in Threads, StopContainer(t)  PROVE KnownInv'
  <2>1. /\ UNCHANGED <<cache, ends>> /\ pc[t] = "stopCtr"
        /\ ctr' = ctr \/ ctr' = [ctr EXCEPT !.up = FALSE]
    BY <1>7 DEF StopContainer
  <2>2. /\ ctr'.id = ctr.id
        /\ ctr' # NoCtr => ctr # NoCtr
        /\ ctr # NoCtr /\ KnownInv => ctr' # NoCtr
    BY <2>1 DEF KnownInv, NoCtr
  <2>3. NoneLeaves'
    BY <1>0, <1>7 DEF StopContainer, KnownInv, StopReturns, Return, Goto, locals
  <2>4. Quiet' => InHand'
    <3>1. CASE ctr.id = cid[t] /\ Goto(t, "removeCtr") /\ UNCHANGED <<op, locals>>
      BY <1>q, <2>1, <2>2, <3>1 DEF InHand, Goto, locals, Stopping
    <3>2. CASE ctr.id # cid[t] /\ StopReturns(t)
      BY <1>q, <2>1, <2>2, <3>2, StopReturnsInHand
    <3>3. CASE Fault("docker")
      BY <1>q, <3>3 DEF Kinds
    <3> QED  BY <1>7, <3>1, <3>2, <3>3 DEF StopContainer
  <2> QED  BY <2>2, <2>3, <2>4 DEF KnownInv
<1>8. ASSUME NEW t \in Threads, RemoveContainer(t)  PROVE KnownInv'
  <2>1. /\ UNCHANGED <<cache, ends>> /\ StopReturns(t) /\ pc[t] = "removeCtr"
        /\ ctr' = NoCtr \/ ctr' = ctr
        /\ ctr.id = cid[t] => ctr' = NoCtr \/ Fault("docker")
    BY <1>8 DEF RemoveContainer
  <2>2. NoneLeaves'
    BY <1>0, <2>1 DEF KnownInv, StopReturns, Return, Goto, locals
  <2>3. Quiet' => InHand'
    <3>1. CASE ctr' = NoCtr
      BY <3>1 DEF InHand
    <3>2. CASE ctr' # NoCtr /\ Quiet'
      <4>1. ctr' = ctr /\ ctr.id # cid[t]
        BY <1>q, <2>1, <3>2 DEF Kinds
      <4> QED  BY <1>q, <2>1, <3>2, <4>1, StopReturnsInHand
    <3> QED  BY <3>1, <3>2
  <2> QED  BY <2>1, <2>2, <2>3 DEF KnownInv
<1>9. ASSUME NEW t \in Threads, Truncate(t) \/ Write(t)  PROVE KnownInv'
  BY <1>9, <1>q DEF Truncate, Write, Goto, locals, KnownInv, InHand, Stopping
<1>10. ASSUME NEW t \in Threads, RemoveOld(t)  PROVE KnownInv'
  <2>1. /\ UNCHANGED <<cache, ends>> /\ pc[t] = "removeOld"
        /\ \A u \in Threads : u # t => cid'[u] = cid[u] /\ pc'[u] = pc[u] /\ op'[u] = op[u]
        /\ pc'[t] # "exiting" /\ op'[t] \in {op[t], "none"}
        /\ ctr' = NoCtr \/ (ctr' = ctr /\ Fault("docker"))
    BY <1>10 DEF RemoveOld, Return, Goto, locals
  <2> QED  BY <1>q, <2>1 DEF KnownInv, InHand, Kinds
<1>11. ASSUME NEW t \in Threads, Run(t)  PROVE KnownInv'
  <2>1. /\ ends' = ends /\ pc[t] = "run"
        /\ \A u \in Threads : u # t => cid'[u] = cid[u] /\ pc'[u] = pc[u] /\ op'[u] = op[u]
        /\ pc'[t] # "exiting" /\ op'[t] \in {op[t], "none"}
    <3>1. /\ ends' = ends /\ pc[t] = "run"
          /\ \/ Return(t)
             \/ Goto(t, "saveRunning") /\ op' = op /\ cid' = [cid EXCEPT ![t] = made']
      BY <1>11 DEF Run
    <3> QED  BY <3>1 DEF Return, Goto
  <2>2. NoneLeaves'
    BY <2>1 DEF KnownInv
  <2>3. CASE ctr'.id = made + 1 /\ cache'[Gw(t)].id = made + 1
    BY <2>2, <2>3 DEF KnownInv, InHand, NoId
  <2>4. CASE ctr'.id = made + 1 /\ Fault("docker")
    BY <1>q, <2>2, <2>4 DEF KnownInv, NoId, Kinds
  <2>5. CASE UNCHANGED <<ctr, cache>>
    BY <1>q, <2>1, <2>2, <2>5 DEF KnownInv, InHand, Stopping
  <2> QED  BY <1>11, <2>3, <2>4, <2>5 DEF Run, NewCtr
<1>12. ASSUME NEW t \in Threads, SaveRunning(t) \/ TouchLoad(t) \/ TouchSave(t)  PROVE KnownInv'
  <2>1. /\ UNCHANGED <<ctr, cache, ends>> /\ pc[t] \in {"saveRunning", "touchLoad", "touchSave"}
        /\ \A u \in Threads : u # t => cid'[u] = cid[u] /\ pc'[u] = pc[u] /\ op'[u] = op[u]
        /\ pc'[t] # "exiting" /\ op'[t] \in {op[t], "none"}
    BY <1>12 DEF SaveRunning, TouchLoad, TouchSave, Return, Goto, shared
  <2> QED  BY <1>q, <2>1 DEF KnownInv, InHand, Stopping
<1>13. ASSUME NEW g \in Gateways,
              Chat(g) \/ Lookup(g) \/ Touch(g) \/ \E c \in Configs : Configure(g, c)
       PROVE  KnownInv'
  <2>1. UNCHANGED <<ctr, ends, cid>> /\ pc[Main(g)] = "rest"
    BY <1>13 DEF Chat, Lookup, Touch, Configure, GetTenant, Begin, shared, locals
  <2>2. \A h \in Gateways : cache'[h].id = cache[h].id
    BY <1>13 DEF Chat, Lookup, Touch, Configure, GetTenant, shared
  <2>3. \A u \in Threads : u # Main(g) => pc'[u] = pc[u] /\ op'[u] = op[u]
    BY <1>13 DEF Chat, Lookup, Touch, Configure, GetTenant, Goto
  <2>4. pc'[Main(g)] # "exiting" /\ op'[Main(g)] \in {op[Main(g)], "chat", "lookup", "touch", "configure"}
    <3>1. CASE Chat(g) \/ Lookup(g)
      BY <2>1, <3>1 DEF Chat, Lookup, GetTenant, Goto
    <3>2. CASE Touch(g)
      BY <3>2 DEF Touch, Goto
    <3>3. CASE \E c \in Configs : Configure(g, c)
      BY <3>3 DEF Configure, Goto
    <3> QED  BY <1>13, <3>1, <3>2, <3>3
  <2>5. NoneLeaves'
    BY <2>1, <2>3, <2>4 DEF KnownInv
  <2> QED  BY <1>q, <2>1, <2>2, <2>3, <2>5 DEF KnownInv, InHand, Stopping
<1>14. ASSUME NEW g \in Gateways, Start(g) \/ Scan(g)  PROVE KnownInv'
  <2>1. UNCHANGED <<ctr, cache, ends, cid>>
    BY <1>14 DEF Start, Scan, shared, locals
  <2>2. \A u \in Threads : \/ pc'[u] = pc[u]
                           \/ pc[u] \in {"off", "rest"} /\ pc'[u] \in {"load", "rest", "pop"}
    BY <1>14 DEF Start, Scan, Goto, PrunerStops
  <2>3. \A u \in Threads : op'[u] \in {op[u], "reload", "prune"}
    BY <1>14 DEF Start, Scan
  <2>4. NoneLeaves'
    BY <2>1, <2>2, <2>3 DEF KnownInv
  <2> QED  BY <1>q, <2>1, <2>2, <2>4 DEF KnownInv, InHand, Stopping
<1>15. ASSUME NEW g \in Gateways, Shutdown(g) \/ Crash(g)  PROVE KnownInv'
  <2>1. ends' = ends + 1 /\ ctr' = ctr
    BY <1>15 DEF Shutdown, Crash, Gone, shared
  <2> QED  BY <2>1 DEF KnownInv, Quiet
<1>16. ASSUME NEW g \in Gateways, Exit(g)  PROVE KnownInv'
  <2>1. ends # 0 /\ ends' = ends /\ ctr' = ctr
    BY <1>16 DEF Exit, Gone, KnownInv
  <2> QED  BY <2>1 DEF KnownInv, Quiet
<1>17. CASE Tick
  <2>1. UNCHANGED <<ctr, ends, pc, op, cid>> /\ \A g \in Gateways : cache'[g].id = cache[g].id
    BY <1>17 DEF Tick, Older
  <2> QED  BY <1>q, <2>1 DEF KnownInv, InHand
<1>18. CASE ContainerExits
  <2>1. /\ UNCHANGED <<cache, ends, pc, op, cid>> /\ ctr' = [ctr EXCEPT !.up = FALSE] /\ ctr.up
        /\ Fault("exit")
    BY <1>18 DEF ContainerExits, locals
  <2>2. ctr # NoCtr /\ ctr'.id = ctr.id
    BY <2>1 DEF NoCtr
  <2> QED  BY <1>q, <2>1, <2>2 DEF KnownInv, Kinds
<1>19. CASE UNCHANGED vars
  BY <1>19, <1>q DEF vars, shared, locals, KnownInv, InHand
<1> HIDE DEF TypeInv
<1> QED
  BY EveryStep, <1>1, <1>2, <1>3, <1>4, <1>5, <1>6, <1>7, <1>8, <1>9, <1>10, <1>11, <1>12,
     <1>13, <1>14, <1>15, <1>16, <1>17, <1>18, <1>19

\* A container that exists is in some cache or in the hands of a thread that stops it,
\* while no call fails and no process ends (ContainerIsKnown).
THEOREM ContainerAlwaysKnown == Spec => []ContainerIsKnown
<1>1. Init => KnownInv
  BY DEF Init, KnownInv, ContainerHasId, NoneLeaves, InHand
<1>2. KnownInv => ContainerIsKnown
  BY DEF KnownInv, InHand, Quiet, ContainerIsKnown
<1> QED  BY <1>1, <1>2, KnownStep, TypeAlways, PrunerStopsAlways, PTL DEF Spec

(***************************************************************************)
(* What the steps do to Redis, and to the locals of other threads.         *)
(***************************************************************************)
LEMMA OthersWait ==
  ASSUME TypeInv, NEW t \in Threads, ThreadStep(t), NEW u \in Threads, u # t
  PROVE  /\ pc'[u] = pc[u] /\ op'[u] = op[u] /\ cid'[u] = cid[u] /\ ld'[u] = ld[u]
         /\ cfg'[u] = cfg[u] /\ sav'[u] = sav[u]
<1> DEFINE Same == /\ pc'[u] = pc[u] /\ op'[u] = op[u] /\ cid'[u] = cid[u] /\ ld'[u] = ld[u]
                   /\ cfg'[u] = cfg[u] /\ sav'[u] = sav[u]
<1> USE DEF TypeInv, TypeOK
<1>1. Return(t) => Same
  BY DEF Return, Goto
<1>2. NotFound(t) => Same
  BY <1>1 DEF NotFound, Goto
<1>3. StopReturns(t) => Same
  <2>1. op[t] = "prune" /\ StopReturns(t) => Same
    BY <1>1 DEF StopReturns
  <2>2. op[t] # "prune" /\ StopReturns(t) => Same
    BY DEF StopReturns, Goto, locals
  <2> QED  BY <2>1, <2>2
<1> USE DEF locals
<1>4. LoadState(t) \/ Probe(t) \/ MarkStopped(t) \/ GetSavedState(t) \/ Pop(t) => Same
  BY <1>1, <1>2 DEF LoadState, Probe, MarkStopped, GetSavedState, Pop, Goto
<1>5. StopLoad(t) \/ ReadConfig(t) \/ ReadSaved(t) \/ SaveStopped(t) => Same
  BY <1>3 DEF StopLoad, ReadConfig, ReadSaved, SaveStopped, Goto
<1>6. StopContainer(t) \/ RemoveContainer(t) \/ Truncate(t) \/ Write(t) \/ RemoveOld(t) => Same
  BY <1>1, <1>3 DEF StopContainer, RemoveContainer, Truncate, Write, RemoveOld, Goto
<1>7. Run(t) \/ SaveRunning(t) \/ TouchLoad(t) \/ TouchSave(t) => Same
  BY <1>1 DEF Run, SaveRunning, TouchLoad, TouchSave, Goto
<1> HIDE DEF Same
<1>8. Same
  BY <1>4, <1>5, <1>6, <1>7 DEF ThreadStep
<1> QED  BY <1>8 DEF Same

\* Redis, the cache and the number of containers change in these steps only.
LEMMA ThreadFrame ==
  ASSUME NEW t \in Threads, ThreadStep(t)
  PROVE  /\ redis' = redis \/ MarkStopped(t) \/ SaveStopped(t) \/ SaveRunning(t) \/ TouchSave(t)
         /\ cache' = cache \/ Probe(t) \/ Pop(t) \/ Run(t)
         /\ made' = made \/ Run(t)
<1> USE DEF shared
<1>1. ASSUME \/ LoadState(t) \/ Probe(t) \/ MarkStopped(t) \/ GetSavedState(t) \/ Pop(t)
             \/ StopLoad(t) \/ ReadConfig(t) \/ ReadSaved(t) \/ SaveStopped(t)
      PROVE  /\ redis' = redis \/ MarkStopped(t) \/ SaveStopped(t)
             /\ cache' = cache \/ Probe(t) \/ Pop(t)
             /\ made' = made
  BY <1>1 DEF LoadState, Probe, MarkStopped, GetSavedState, Pop, StopLoad, ReadConfig, ReadSaved,
              SaveStopped
<1>2. ASSUME \/ StopContainer(t) \/ RemoveContainer(t) \/ Truncate(t) \/ Write(t) \/ RemoveOld(t)
             \/ Run(t) \/ SaveRunning(t) \/ TouchLoad(t) \/ TouchSave(t)
      PROVE  /\ redis' = redis \/ SaveRunning(t) \/ TouchSave(t)
             /\ cache' = cache \/ Run(t)
             /\ made' = made \/ Run(t)
  BY <1>2 DEF StopContainer, RemoveContainer, Truncate, Write, RemoveOld, Run, SaveRunning,
              TouchLoad, TouchSave
<1> QED  BY <1>1, <1>2 DEF ThreadStep

\* Requests and processes leave Redis and the containers alone.
LEMMA GatewayFrame ==
  ASSUME NEW g \in Gateways, Request(g) \/ Process(g) \/ Shutdown(g) \/ Crash(g)
  PROVE  UNCHANGED <<redis, disk, ctr, made>>
  BY DEF Request, Process, Chat, Lookup, Touch, Configure, GetTenant, Start, Scan, Exit, Shutdown,
         Crash, Gone, shared

\* Nor do they take a thread into the middle of an operation.
Entries == {"off", "rest", "load", "pop", "touchLoad", "exiting"}

LEMMA GatewayEnters ==
  ASSUME TypeInv, NEW g \in Gateways, Request(g) \/ Process(g) \/ Shutdown(g) \/ Crash(g),
         NEW t \in Threads
  PROVE  \/ pc'[t] \in Entries
         \/ /\ pc'[t] = pc[t] /\ cid'[t] = cid[t] /\ ld'[t] = ld[t]
            /\ cfg'[t] = cfg[t] /\ sav'[t] = sav[t]
<1> USE DEF TypeInv, TypeOK, Entries, locals
<1>1. CASE Chat(g) \/ Lookup(g) \/ Touch(g)
  BY <1>1 DEF Chat, Lookup, Touch, GetTenant, Goto
<1>2. CASE \E c \in Configs : Configure(g, c)
  BY <1>2 DEF Configure, Goto
<1>3. CASE Start(g) \/ Scan(g) \/ Shutdown(g)
  BY <1>3 DEF Start, Scan, Shutdown, Goto
<1>4. CASE Exit(g) \/ Crash(g)
  BY <1>4 DEF Exit, Crash, Gone
<1> QED  BY <1>1, <1>2, <1>3, <1>4 DEF Request, Process

LEMMA NextCases ==
  ASSUME [Next]_vars
  PROVE  \/ \E t \in Threads : ThreadStep(t)
         \/ \E g \in Gateways : Request(g) \/ Process(g) \/ Shutdown(g) \/ Crash(g)
         \/ Tick
         \/ UNCHANGED <<redis, cache, pc, op, locals, made>>
  BY DEF Next, ContainerExits, vars, shared

(***************************************************************************)
(* Redis names the newest container.  The thread that provisions has made  *)
(* sure that Redis names none when it creates one, the pruner only ever    *)
(* saves that the tenant is stopped, and touch, which saves a state that   *)
(* it loaded before, runs in the same thread as provisioning.              *)
(***************************************************************************)
One == \A g, h \in Gateways : g = h

Answers == NoFaults({"load", "save"})

Replacing == {"stopCtr", "removeCtr", "truncate", "write", "removeOld", "run", "saveRunning"}

NewestInv ==
  One /\ Answers =>
    /\ redis.status = "running" => redis.id = made /\ made # 0
    /\ \A g \in Gateways : pc[Main(g)] \in Replacing => redis.status # "running"
    /\ \A g \in Gateways : pc[Main(g)] = "saveRunning" => cid[Main(g)] = made /\ made # 0
    /\ \A g \in Gateways : pc[Main(g)] = "touchSave" => ld[Main(g)].id = made /\ made # 0

LEMMA AnswersBefore ==
  ASSUME TypeInv, [Next]_vars, Answers'
  PROVE  Answers /\ ~ Fault("load") /\ ~ Fault("save")
<1>1. {"load", "save"} \in SUBSET Kinds
  BY DEF Kinds
<1> QED  BY <1>1, NoFaultsBefore DEF Answers

LEMMA NewestStep ==
  ASSUME TypeInv, PrunerStops, NewestInv, [Next]_vars
  PROVE  NewestInv'
<1> SUFFICES ASSUME One, Answers'
             PROVE  /\ redis'.status = "running" => redis'.id = made' /\ made' # 0
                    /\ \A g \in Gateways : pc'[Main(g)] \in Replacing => redis'.status # "running"
                    /\ \A g \in Gateways :
                         pc'[Main(g)] = "saveRunning" => cid'[Main(g)] = made' /\ made' # 0
                    /\ \A g \in Gateways :
                         pc'[Main(g)] = "touchSave" => ld'[Main(g)].id = made' /\ made' # 0
  BY DEF NewestInv, One
<1> DEFINE Goal == /\ redis'.status = "running" => redis'.id = made' /\ made' # 0
                   /\ \A g \in Gateways : pc'[Main(g)] \in Replacing => redis'.status # "running"
                   /\ \A g \in Gateways :
                        pc'[Main(g)] = "saveRunning" => cid'[Main(g)] = made' /\ made' # 0
                   /\ \A g \in Gateways :
                        pc'[Main(g)] = "touchSave" => ld'[Main(g)].id = made' /\ made' # 0
<1>0. /\ Answers /\ ~ Fault("load") /\ ~ Fault("save")
      /\ redis.status = "running" => redis.id = made /\ made # 0
      /\ \A g \in Gateways : pc[Main(g)] \in Replacing => redis.status # "running"
      /\ \A g \in Gateways : pc[Main(g)] = "saveRunning" => cid[Main(g)] = made /\ made # 0
      /\ \A g \in Gateways : pc[Main(g)] = "touchSave" => ld[Main(g)].id = made /\ made # 0
  BY AnswersBefore DEF NewestInv
<1>1. ASSUME NEW t \in Threads, ThreadStep(t), NEW g \in Gateways, t = Pruner(g)
      PROVE  Goal
  <2>1. pc[t] \in {"off", "rest", "pop", "stopLoad"} \cup Stopping
    BY <1>1 DEF PrunerStops
  <2>2. ~ MarkStopped(t) /\ ~ SaveRunning(t) /\ ~ TouchSave(t) /\ ~ Run(t)
    BY <2>1 DEF MarkStopped, SaveRunning, TouchSave, Run, Stopping
  <2>3. made' = made /\ (redis' = redis \/ redis' = Stopped(sav[t]))
    BY <1>1, <2>2, ThreadFrame DEF SaveStopped, Save
  <2>4. \A h \in Gateways : /\ pc'[Main(h)] = pc[Main(h)] /\ cid'[Main(h)] = cid[Main(h)]
                            /\ ld'[Main(h)] = ld[Main(h)]
    BY <1>1, OthersWait, ThreadsOf
  <2> QED  BY <1>0, <2>3, <2>4 DEF Stopped
<1>2. ASSUME NEW t \in Threads, ThreadStep(t), NEW g \in Gateways, t = Main(g)
      PROVE  Goal
  <2> DEFINE Here == /\ redis'.status = "running" => redis'.id = made' /\ made' # 0
                     /\ pc'[t] \in Replacing => redis'.status # "running"
                     /\ pc'[t] = "saveRunning" => cid'[t] = made' /\ made' # 0
                     /\ pc'[t] = "touchSave" => ld'[t].id = made' /\ made' # 0
  <2>1. Here => Goal
    BY <1>2 DEF One
  <2>2. Absent.status # "running"
    BY DEF Absent
  <2> USE DEF TypeInv, TypeOK, Replacing, Goto
  <2>3. Return(t) => pc'[t] = "rest"
    BY DEF Return
  <2>4. NotFound(t) => pc'[t] \in {"saved", "rest"}
    BY <2>3 DEF NotFound
  <2>5. StopReturns(t) => pc'[t] \in {"rest", "exiting", "truncate"}
    BY <2>3 DEF StopReturns
  <2>6. CASE LoadState(t) \/ Probe(t) \/ GetSavedState(t) \/ Pop(t) \/ ReadConfig(t) \/ ReadSaved(t)
    <3>1. /\ UNCHANGED <<redis, made>>
          /\ pc'[t] \in {"probe", "saved", "rest", "mark", "pop", "stopLoad", "readConfig",
                         "readSaved", "saveStopped"}
      BY <2>3, <2>4, <2>6
         DEF LoadState, Probe, GetSavedState, Pop, ReadConfig, ReadSaved, shared
    <3> QED  BY <1>0, <2>1, <3>1
  <2>7. CASE MarkStopped(t)
    <3>1. redis'.status = "stopped"
      BY <1>0, <2>7 DEF MarkStopped, Save, Stopped
    <3> QED  BY <2>1, <2>4, <2>7, <3>1 DEF MarkStopped
  <2>8. CASE StopLoad(t)
    <3>1. UNCHANGED <<redis, made>>
      BY <2>8 DEF StopLoad, shared
    <3>2. CASE Goto(t, "readConfig")
      BY <1>0, <2>1, <3>1, <3>2
    <3>3. CASE StopReturns(t) /\ ~ IsRunning(redis)
      <4>1. redis.status # "running"
        BY <1>0, <3>3 DEF IsRunning, NoId
      <4> QED  BY <2>1, <2>5, <3>1, <3>3, <4>1
    <3> QED  BY <1>0, <2>8, <3>2, <3>3 DEF StopLoad, Load
  <2>9. CASE SaveStopped(t)
    <3>1. redis'.status = "stopped" /\ pc'[t] = "stopCtr"
      BY <1>0, <2>9 DEF SaveStopped, Save, Stopped
    <3> QED  BY <2>1, <3>1
  <2>10. CASE StopContainer(t) \/ RemoveContainer(t) \/ Truncate(t) \/ Write(t) \/ RemoveOld(t)
    <3>1. /\ UNCHANGED <<redis, made>> /\ pc[t] \in Replacing
          /\ pc'[t] \in {"removeCtr", "rest", "exiting", "truncate", "write", "removeOld", "run"}
      BY <2>3, <2>5, <2>10 DEF StopContainer, RemoveContainer, Truncate, Write, RemoveOld
    <3> QED  BY <1>0, <1>2, <2>1, <3>1
  <2>11. CASE Run(t)
    <3>1. redis' = redis /\ pc[t] = "run" /\ (made' = made \/ made' = made + 1)
      BY <2>11 DEF Run
    <3>2. redis.status # "running"
      BY <1>0, <1>2, <3>1
    <3>3. pc'[t] = "rest" \/ (pc'[t] = "saveRunning" /\ cid'[t] = made' /\ made' = made + 1)
      BY <2>3, <2>11 DEF Run
    <3> QED  BY <2>1, <3>1, <3>2, <3>3
  <2>12. CASE SaveRunning(t)
    <3>1. redis'.id = cid[t] /\ pc[t] = "saveRunning" /\ made' = made
      BY <1>0, <2>12 DEF SaveRunning, Save
    <3> QED  BY <1>0, <1>2, <2>1, <2>3, <2>12, <3>1 DEF SaveRunning
  <2>13. CASE TouchLoad(t)
    <3>1. UNCHANGED <<redis, made>>
      BY <2>13 DEF TouchLoad, shared
    <3>2. PICK s \in {redis, Absent} :
            /\ Load(s)
            /\ IF s.status = "running"
               THEN ld' = [ld EXCEPT ![t] = [s EXCEPT !.act = 0]] /\ Goto(t, "touchSave")
               ELSE Return(t)
      BY <2>13 DEF TouchLoad
    <3>3. CASE s.status = "running"
      <4>1. s = redis
        BY <2>2, <3>3
      <4>2. ld'[t] = [redis EXCEPT !.act = 0] /\ pc'[t] = "touchSave"
        BY <3>2, <3>3, <4>1
      <4>3. ld'[t].id = redis.id /\ redis.status = "running"
        BY <3>3, <4>1, <4>2 DEF TenantState
      <4> QED  BY <1>0, <2>1, <3>1, <4>2, <4>3
    <3>4. CASE s.status # "running"
      <4>1. pc'[t] = "rest"
        BY <2>3, <3>2, <3>4
      <4> QED  BY <1>0, <2>1, <3>1, <4>1
    <3> QED  BY <3>3, <3>4
  <2>14. CASE TouchSave(t)
    <3>1. redis' = ld[t] /\ pc[t] = "touchSave" /\ made' = made
      BY <1>0, <2>14 DEF TouchSave, Save
    <3> QED  BY <1>0, <1>2, <2>1, <2>3, <2>14, <3>1 DEF TouchSave
  <2> HIDE DEF TypeInv
  <2> QED
    BY <1>2, <2>6, <2>7, <2>8, <2>9, <2>10, <2>11, <2>12, <2>13, <2>14 DEF ThreadStep
<1>3. ASSUME NEW g \in Gateways, Request(g) \/ Process(g) \/ Shutdown(g) \/ Crash(g)
      PROVE  Goal
  BY <1>0, <1>3, GatewayFrame, GatewayEnters, ThreadsOf DEF Entries, Replacing
<1>4. ASSUME Tick
      PROVE  Goal
  <2>1. redis'.status = redis.status /\ redis'.id = redis.id /\ UNCHANGED <<pc, cid, made>>
    BY <1>4 DEF Tick, Older, TypeInv, TypeOK, TenantState
  <2>2. \A t \in Threads : ld'[t].id = ld[t].id
    BY <1>4, OlderTyped DEF Tick, TypeInv, TypeOK
  <2> QED  BY <1>0, <2>1, <2>2, ThreadsOf
<1>5. ASSUME UNCHANGED <<redis, cache, pc, op, locals, made>>
      PROVE  Goal
  BY <1>0, <1>5 DEF locals
<1>6. \A t \in Threads : ThreadStep(t) => Goal
  BY <1>1, <1>2, ThreadsOf
<1> HIDE DEF Goal
<1>7. \A g \in Gateways : Request(g) \/ Process(g) \/ Shutdown(g) \/ Crash(g) => Goal
  BY <1>3
<1>8. Goal
  BY <1>4, <1>5, <1>6, <1>7, NextCases
<1> QED  BY <1>8 DEF Goal

\* With one gateway whose Redis calls succeed, a tenant that Redis says is running is
\* the container created last (RedisNamesNewest).
THEOREM RedisAlwaysNamesNewest == Spec => []RedisNamesNewest
<1>1. Init => NewestInv
  BY ThreadsOf DEF Init, NewestInv, Absent, Replacing
<1>2. NewestInv => RedisNamesNewest
  BY DEF NewestInv, RedisNamesNewest, One, Answers, IsRunning
<1> QED  BY <1>1, <1>2, NewestStep, TypeAlways, PrunerStopsAlways, PTL DEF Spec

(***************************************************************************)
(* The configurations of a running tenant.  config.json is written when    *)
(* Redis names no running container, and what is saved as running after    *)
(* that, by provisioning or by touch, is the one on disk with the          *)
(* gateway's variables added.                                              *)
(***************************************************************************)

\* The newest container was made with the configuration on disk, the gateway's
\* variables added, but for the workspace.
Match == made # 0 /\ ctr.id = made => [ctr.config EXCEPT !.host = FALSE] = Added(disk)

Provisioning == {"removeOld", "run", "saveRunning"}

AgreeInv ==
  One /\ Answers =>
    /\ redis.status = "running" => redis.config = Added(disk) /\ Match
    /\ \A g \in Gateways : pc[Main(g)] \in Provisioning => disk = Written(cfg[Main(g)])
    /\ \A g \in Gateways : pc[Main(g)] = "saveRunning" => Match
    /\ \A g \in Gateways : pc[Main(g)] = "touchSave" => ld[Main(g)].config = Added(disk) /\ Match

LEMMA MatchStays ==
  ASSUME TypeInv, Match, disk' = disk, made' = made,
         ctr' = ctr \/ ctr' = [ctr EXCEPT !.up = FALSE] \/ ctr' = NoCtr
  PROVE  Match'
<1>1. NoCtr.id = 0
  BY DEF NoCtr, NoId
<1>2. ctr' = ctr \/ ctr' = NoCtr \/ (ctr'.id = ctr.id /\ ctr'.config = ctr.config)
  BY DEF TypeInv, TypeOK
<1> QED  BY <1>1, <1>2 DEF Match

\* The steps after which a thread is not provisioning.
LEMMA QuietThreadStep ==
  ASSUME TypeInv, NEW t \in Threads, ThreadStep(t),
         ~ Truncate(t), ~ Write(t), ~ RemoveOld(t), ~ Run(t), ~ SaveRunning(t), ~ TouchLoad(t),
         ~ TouchSave(t)
  PROVE  /\ disk' = disk /\ made' = made
         /\ redis' = redis \/ redis'.status = "stopped"
         /\ ctr' = ctr \/ ctr' = [ctr EXCEPT !.up = FALSE] \/ ctr' = NoCtr
         /\ pc'[t] \notin Provisioning \cup {"touchSave"}
<1> USE DEF TypeInv, TypeOK, Goto, Provisioning
<1>0. /\ Return(t) => pc'[t] = "rest"
      /\ NotFound(t) => pc'[t] \in {"saved", "rest"}
      /\ StopReturns(t) => pc'[t] \in {"rest", "exiting", "truncate"}
  <2>1. Return(t) => pc'[t] = "rest"
    BY DEF Return
  <2> QED  BY <2>1 DEF NotFound, StopReturns
<1>1. CASE LoadState(t) \/ Probe(t) \/ GetSavedState(t) \/ Pop(t) \/ ReadConfig(t) \/ ReadSaved(t)
  <2>1. UNCHANGED <<redis, disk, ctr, made>>
    BY <1>1 DEF LoadState, Probe, GetSavedState, Pop, ReadConfig, ReadSaved, shared
  <2>2. pc'[t] \in {"probe", "saved", "rest", "mark", "pop", "stopLoad", "readConfig", "readSaved",
                    "saveStopped"}
    BY <1>0, <1>1 DEF LoadState, Probe, GetSavedState, Pop, ReadConfig, ReadSaved
  <2> QED  BY <2>1, <2>2
<1>2. CASE MarkStopped(t) \/ SaveStopped(t)
  <2>1. UNCHANGED <<disk, ctr, made>> /\ (redis' = redis \/ redis'.status = "stopped")
    BY <1>2 DEF MarkStopped, SaveStopped, Save, Stopped
  <2>2. pc'[t] \in {"saved", "rest", "stopCtr"}
    BY <1>0, <1>2 DEF MarkStopped, SaveStopped
  <2> QED  BY <2>1, <2>2
<1>3. CASE StopLoad(t)
  <2>1. pc'[t] \in {"readConfig", "rest", "exiting", "truncate"}
    BY <1>0, <1>3 DEF StopLoad
  <2> QED  BY <1>3, <2>1 DEF StopLoad, shared
<1>4. CASE StopContainer(t)
  <2>1. pc'[t] \in {"removeCtr", "rest", "exiting", "truncate"}
    BY <1>0, <1>4 DEF StopContainer
  <2> QED  BY <1>4, <2>1 DEF StopContainer
<1>5. CASE RemoveContainer(t)
  <2>1. pc'[t] \in {"rest", "exiting", "truncate"}
    BY <1>0, <1>5 DEF RemoveContainer
  <2> QED  BY <1>5, <2>1 DEF RemoveContainer
<1> QED  BY <1>1, <1>2, <1>3, <1>4, <1>5 DEF ThreadStep

LEMMA AgreeStep ==
  ASSUME TypeInv, PrunerStops, NewestInv, AgreeInv, [Next]_vars
  PROVE  AgreeInv'
<1> DEFINE Goal == /\ redis'.status = "running" => redis'.config = Added(disk') /\ Match'
                   /\ \A g \in Gateways :
                        pc'[Main(g)] \in Provisioning => disk' = Written(cfg'[Main(g)])
                   /\ \A g \in Gateways : pc'[Main(g)] = "saveRunning" => Match'
                   /\ \A g \in Gateways :
                        pc'[Main(g)] = "touchSave" => ld'[Main(g)].config = Added(disk') /\ Match'
<1> SUFFICES ASSUME One, Answers'
             PROVE  Goal
  BY DEF AgreeInv, One
<1>0. /\ ~ Fault("load") /\ ~ Fault("save")
      /\ \A g \in Gateways : pc[Main(g)] \in Replacing => redis.status # "running"
      /\ redis.status = "running" => redis.config = Added(disk) /\ Match
      /\ \A g \in Gateways : pc[Main(g)] \in Provisioning => disk = Written(cfg[Main(g)])
      /\ \A g \in Gateways : pc[Main(g)] = "saveRunning" => Match
      /\ \A g \in Gateways : pc[Main(g)] = "touchSave" => ld[Main(g)].config = Added(disk) /\ Match
  BY AnswersBefore DEF AgreeInv, NewestInv
<1>1. ASSUME NEW t \in Threads, ThreadStep(t), NEW g \in Gateways, t = Pruner(g)
      PROVE  Goal
  <2>1. pc[t] \in {"off", "rest", "pop", "stopLoad"} \cup Stopping
    BY <1>1 DEF PrunerStops
  <2>2. /\ ~ Truncate(t) /\ ~ Write(t) /\ ~ RemoveOld(t) /\ ~ Run(t) /\ ~ SaveRunning(t)
        /\ ~ TouchLoad(t) /\ ~ TouchSave(t)
    BY <2>1 DEF Truncate, Write, RemoveOld, Run, SaveRunning, TouchLoad, TouchSave, Stopping
  <2>3. disk' = disk /\ (redis' = redis \/ redis'.status = "stopped") /\ (Match => Match')
    BY <1>1, <2>2, QuietThreadStep, MatchStays
  <2>4. \A h \in Gateways : /\ pc'[Main(h)] = pc[Main(h)] /\ cfg'[Main(h)] = cfg[Main(h)]
                            /\ ld'[Main(h)] = ld[Main(h)]
    BY <1>1, OthersWait, ThreadsOf
  <2> QED  BY <1>0, <2>3, <2>4
<1>2. ASSUME NEW t \in Threads, ThreadStep(t), NEW g \in Gateways, t = Main(g)
      PROVE  Goal
  <2> DEFINE Here == /\ redis'.status = "running" => redis'.config = Added(disk') /\ Match'
                     /\ pc'[t] \in Provisioning => disk' = Written(cfg'[t])
                     /\ pc'[t] = "saveRunning" => Match'
                     /\ pc'[t] = "touchSave" => ld'[t].config = Added(disk') /\ Match'
  <2>1. Here => Goal
    BY <1>2 DEF One
  <2>2. Return(t) => pc'[t] = "rest"
    BY DEF Return, Goto, TypeInv, TypeOK
  <2>3. pc[t] \in Replacing => redis.status # "running"
    BY <1>0, <1>2
  <2>4. CASE Truncate(t) \/ Write(t)
    <3>1. pc[t] \in Replacing /\ redis' = redis
      BY <2>4 DEF Truncate, Write, Replacing
    <3>2. pc'[t] = "write" \/ (pc'[t] = "removeOld" /\ disk' = Written(cfg'[t]))
      BY <2>4 DEF Truncate, Write, Goto, TypeInv, TypeOK, locals
    <3> QED  BY <2>1, <2>3, <3>1, <3>2 DEF Provisioning
  <2>5. CASE RemoveOld(t)
    <3>1. pc[t] = "removeOld" /\ redis' = redis /\ disk' = disk
      BY <2>5 DEF RemoveOld
    <3>2. pc'[t] = "rest" \/ (pc'[t] = "run" /\ cfg' = cfg)
      BY <2>2, <2>5 DEF RemoveOld, Goto, TypeInv, TypeOK, locals
    <3> QED  BY <1>0, <1>2, <2>1, <2>3, <3>1, <3>2 DEF Provisioning, Replacing
  <2>6. CASE Run(t)
    <3>1. pc[t] = "run" /\ redis' = redis /\ disk' = disk
      BY <2>6 DEF Run
    <3>2. \/ pc'[t] = "rest"
          \/ /\ pc'[t] = "saveRunning" /\ cfg' = cfg
             /\ ctr' = NewCtr(made', TRUE, cfg[t])
      BY <2>2, <2>6 DEF Run, Goto, TypeInv, TypeOK
    <3>3. disk = Written(cfg[t])
      BY <1>0, <1>2, <3>1 DEF Provisioning
    <3>4. ctr' = NewCtr(made', TRUE, cfg[t]) => Match'
      <4>1. cfg[t] \in Config \cup {NoConfig}
        BY DEF TypeInv, TypeOK
      <4>2. made' \in Nat
        <5>1. made' = made \/ made' = made + 1
          BY <2>6 DEF Run
        <5> QED  BY <5>1 DEF TypeInv, TypeOK
      <4>3. [NewCtr(made', TRUE, cfg[t]).config EXCEPT !.host = FALSE] = Added(disk')
        BY <3>1, <3>3, <4>1, <4>2, MadeWithSaved
      <4> QED  BY <4>3 DEF Match
    <3> QED  BY <2>1, <2>3, <3>1, <3>2, <3>3, <3>4 DEF Provisioning, Replacing
  <2>7. CASE SaveRunning(t)
    <3>1. /\ pc[t] = "saveRunning" /\ disk' = disk /\ ctr' = ctr /\ made' = made
          /\ pc'[t] = "rest" /\ redis'.config = Added(Written(cfg[t]))
      BY <1>0, <2>2, <2>7 DEF SaveRunning, Save
    <3>2. disk = Written(cfg[t]) /\ Match
      BY <1>0, <1>2, <3>1 DEF Provisioning
    <3> QED  BY <2>1, <3>1, <3>2, MatchStays DEF Provisioning
  <2>8. CASE TouchLoad(t)
    <3>1. UNCHANGED <<redis, disk, ctr, made>>
      BY <2>8 DEF TouchLoad, shared
    <3>2. Match => Match'
      BY <3>1, MatchStays
    <3>3. PICK s \in {redis, Absent} :
            IF s.status = "running"
            THEN ld' = [ld EXCEPT ![t] = [s EXCEPT !.act = 0]] /\ Goto(t, "touchSave")
            ELSE Return(t)
      BY <2>8 DEF TouchLoad
    <3>4. CASE s.status = "running"
      <4>1. s = redis
        BY <3>4 DEF Absent
      <4>2. pc'[t] = "touchSave" /\ ld'[t].config = redis.config
        BY <3>3, <3>4, <4>1 DEF Goto, TypeInv, TypeOK, TenantState
      <4> QED  BY <1>0, <2>1, <3>1, <3>2, <3>4, <4>1, <4>2 DEF Provisioning
    <3>5. CASE s.status # "running"
      BY <1>0, <2>1, <2>2, <3>1, <3>2, <3>3, <3>5 DEF Provisioning
    <3> QED  BY <3>4, <3>5
  <2>9. CASE TouchSave(t)
    <3>1. /\ pc[t] = "touchSave" /\ disk' = disk /\ ctr' = ctr /\ made' = made
          /\ pc'[t] = "rest" /\ redis' = ld[t]
      BY <1>0, <2>2, <2>9 DEF TouchSave, Save
    <3>2. ld[t].config = Added(disk) /\ Match'
      BY <1>0, <1>2, <3>1, MatchStays
    <3> QED  BY <2>1, <3>1, <3>2 DEF Provisioning
  <2>10. CASE /\ ~ Truncate(t) /\ ~ Write(t) /\ ~ RemoveOld(t) /\ ~ Run(t) /\ ~ SaveRunning(t)
              /\ ~ TouchLoad(t) /\ ~ TouchSave(t)
    <3>1. /\ disk' = disk /\ (redis' = redis \/ redis'.status = "stopped") /\ (Match => Match')
          /\ pc'[t] \notin Provisioning \cup {"touchSave"}
      BY <1>2, <2>10, QuietThreadStep, MatchStays
    <3> QED  BY <1>0, <2>1, <3>1 DEF Provisioning
  <2> QED  BY <2>4, <2>5, <2>6, <2>7, <2>8, <2>9, <2>10
<1>3. ASSUME NEW g \in Gateways, Request(g) \/ Process(g) \/ Shutdown(g) \/ Crash(g)
      PROVE  Goal
  <2>1. UNCHANGED <<redis, disk>> /\ (Match => Match')
    BY <1>3, GatewayFrame, MatchStays
  <2>2. \A h \in Gateways :
          \/ pc'[Main(h)] \in Entries
          \/ /\ pc'[Main(h)] = pc[Main(h)] /\ ld'[Main(h)] = ld[Main(h)]
             /\ cfg'[Main(h)] = cfg[Main(h)]
    BY <1>3, GatewayEnters, ThreadsOf
  <2> QED  BY <1>0, <2>1, <2>2 DEF Entries, Provisioning
<1>4. ASSUME Tick
      PROVE  Goal
  <2>1. redis'.status = redis.status /\ redis'.config = redis.config
    BY <1>4 DEF Tick, Older, TypeInv, TypeOK, TenantState
  <2>2. \A t \in Threads : ld'[t].config = ld[t].config
    BY <1>4 DEF Tick, Older, TypeInv, TypeOK, TenantState
  <2>3. UNCHANGED <<disk, pc, cfg>> /\ (Match => Match')
    BY <1>4, MatchStays DEF Tick
  <2> QED  BY <1>0, <2>1, <2>2, <2>3, ThreadsOf
<1>5. ASSUME ContainerExits \/ UNCHANGED vars
      PROVE  Goal
  <2>1. UNCHANGED <<redis, disk, made, pc, ld, cfg>> /\ (Match => Match')
    BY <1>5, MatchStays DEF ContainerExits, vars, shared, locals
  <2> QED  BY <1>0, <2>1
<1>6. \A t \in Threads : ThreadStep(t) => Goal
  BY <1>1, <1>2, ThreadsOf
<1> HIDE DEF Goal
<1>7. \A g \in Gateways : Request(g) \/ Process(g) \/ Shutdown(g) \/ Crash(g) => Goal
  BY <1>3
<1> QED  BY <1>4, <1>5, <1>6, <1>7 DEF Next

\* With one gateway whose Redis calls succeed, what Redis keeps of a running tenant is what
\* is in config.json with the gateway's variables added, and what the container was made
\* with but for its workspace (ConfigsAgree).
THEOREM ConfigsAlwaysAgree == Spec => []ConfigsAgree
<1>1. Init => NewestInv /\ AgreeInv
  BY ThreadsOf DEF Init, NewestInv, AgreeInv, Absent, Replacing, Provisioning
<1>2. NewestInv /\ AgreeInv => ConfigsAgree
  BY DEF NewestInv, AgreeInv, ConfigsAgree, One, Answers, Match, Added
<1> QED  BY <1>1, <1>2, NewestStep, AgreeStep, TypeAlways, PrunerStopsAlways, PTL DEF Spec

(***************************************************************************)
(* The saved configuration.  A thread that is about to save a stopped      *)
(* tenant without a configuration would have found one in Redis: whatever  *)
(* leads to stop_tenant's save, a cached tenant, a running one or an idle  *)
(* one, comes after a configuration was saved, and none is ever erased.    *)
(***************************************************************************)
Saved == redis.config # NoConfig

AfterSaved == {"probe", "mark", "readConfig", "readSaved", "saveStopped"}

ThreadCfg(t) ==
  /\ pc[t] \in {"probe", "mark", "touchSave"} => ld[t].config # NoConfig
  /\ Answers => /\ pc[t] \in AfterSaved => Saved
                /\ pc[t] = "saveStopped" => sav[t] # NoConfig

GatewayCfg(g) ==
  Answers => /\ cache[g] # NoTc => Saved \/ pc[Main(g)] = "saveRunning"
             /\ pc[Pruner(g)] \notin {"off", "rest"} => Saved

CfgInv ==
  /\ redis.status = "running" => Saved
  /\ \A t \in Threads : ThreadCfg(t)
  /\ \A g \in Gateways : GatewayCfg(g)

LEMMA SavedStays ==
  ASSUME TypeInv, CfgInv, [Next]_vars
  PROVE  /\ redis'.status = "running" => Saved'
         /\ Answers /\ Saved => Saved'
<1> DEFINE Goal == /\ redis'.status = "running" => Saved'
                   /\ Answers /\ Saved => Saved'
<1>1. ASSUME NEW t \in Threads, ThreadStep(t)
      PROVE  Goal
  <2>1. CASE redis' = redis
    BY <2>1 DEF CfgInv, Saved
  <2>2. CASE MarkStopped(t)
    <3>1. ld[t].config # NoConfig /\ (redis' = redis \/ redis' = Stopped(ld[t].config))
      BY <1>1, <2>2 DEF MarkStopped, Save, CfgInv, ThreadCfg
    <3> QED  BY <3>1 DEF Stopped, CfgInv, Saved
  <2>3. CASE SaveStopped(t)
    <3>1. redis' = redis \/ redis' = Stopped(sav[t])
      BY <2>3 DEF SaveStopped, Save
    <3>2. Answers => sav[t] # NoConfig
      BY <1>1, <2>3 DEF SaveStopped, CfgInv, ThreadCfg
    <3> QED  BY <3>1, <3>2 DEF Stopped, CfgInv, Saved
  <2>4. CASE SaveRunning(t)
    <3>1. redis' = redis \/ redis'.config = Added(Written(cfg[t]))
      BY <2>4 DEF SaveRunning, Save
    <3>2. Added(Written(cfg[t])) # NoConfig
      BY <1>1, Constructed DEF TypeInv, TypeOK
    <3> QED  BY <3>1, <3>2 DEF CfgInv, Saved
  <2>5. CASE TouchSave(t)
    <3>1. ld[t].config # NoConfig /\ (redis' = redis \/ redis' = ld[t])
      BY <1>1, <2>5 DEF TouchSave, Save, CfgInv, ThreadCfg
    <3> QED  BY <3>1 DEF CfgInv, Saved
  <2> QED  BY <1>1, <2>1, <2>2, <2>3, <2>4, <2>5, ThreadFrame
<1>2. ASSUME NEW g \in Gateways, Request(g) \/ Process(g) \/ Shutdown(g) \/ Crash(g)
      PROVE  Goal
  BY <1>2, GatewayFrame DEF CfgInv, Saved
<1>3. ASSUME Tick
      PROVE  Goal
  <2>1. redis'.status = redis.status /\ redis'.config = redis.config
    BY <1>3 DEF Tick, Older, TypeInv, TypeOK, TenantState
  <2> QED  BY <2>1 DEF CfgInv, Saved
<1>4. redis' = redis => Goal
  BY DEF CfgInv, Saved
<1> HIDE DEF Goal
<1>5. \A g \in Gateways : Request(g) \/ Process(g) \/ Shutdown(g) \/ Crash(g) => Goal
  BY <1>2
<1>6. UNCHANGED <<redis, cache, pc, op, locals, made>> => Goal
  BY <1>4
<1>7. Goal
  BY <1>1, <1>3, <1>5, <1>6, NextCases
<1> QED  BY <1>7 DEF Goal

\* The thread that takes a step.
LEMMA StepperCfg ==
  ASSUME TypeInv, PrunerStops, CfgInv, [Next]_vars, NEW t \in Threads, ThreadStep(t)
  PROVE  ThreadCfg(t)'
<1> USE DEF TypeInv, TypeOK, Goto
<1>a. Answers' => Answers /\ ~ Fault("load")
  BY AnswersBefore
<1>b. \/ pc'[t] \notin AfterSaved \cup {"touchSave"}
      \/ /\ pc'[t] \in AfterSaved \cup {"touchSave"} /\ redis' = redis
         /\ pc'[t] \in {"probe", "mark", "touchSave"} => ld'[t].config # NoConfig
         /\ Answers' => /\ pc'[t] \in AfterSaved => Saved
                        /\ pc'[t] = "saveStopped" => sav'[t] # NoConfig
      => ThreadCfg(t)'
  BY DEF ThreadCfg, AfterSaved, Saved
<1>c. /\ pc[t] \in {"probe", "mark", "touchSave"} => ld[t].config # NoConfig
      /\ Answers => /\ pc[t] \in AfterSaved => Saved
                    /\ pc[t] = "saveStopped" => sav[t] # NoConfig
  BY DEF CfgInv, ThreadCfg
<1>d. redis.status = "running" => Saved
  BY DEF CfgInv
<1>e. Absent.status # "running"
  BY DEF Absent
<1>f. /\ Return(t) => pc'[t] = "rest"
      /\ NotFound(t) => pc'[t] \in {"saved", "rest"}
      /\ StopReturns(t) => pc'[t] \in {"rest", "exiting", "truncate"}
  <2>1. Return(t) => pc'[t] = "rest"
    BY DEF Return
  <2> QED  BY <2>1 DEF NotFound, StopReturns
<1>1. CASE LoadState(t)
  <2>1. CASE pc'[t] \in {"saved", "rest"}
    BY <1>b, <2>1 DEF AfterSaved
  <2>2. CASE pc'[t] \notin {"saved", "rest"}
    <3>1. pc'[t] = "probe" /\ ld'[t] = redis /\ redis.status = "running" /\ redis' = redis
      BY <1>1, <1>e, <1>f, <2>2 DEF LoadState, IsRunning, shared
    <3> QED  BY <1>b, <1>d, <3>1 DEF AfterSaved, Saved
  <2> QED  BY <2>1, <2>2
<1>2. CASE Probe(t)
  <2>1. pc'[t] = "rest" \/ (pc'[t] = "mark" /\ ld' = ld)
    BY <1>2, <1>f DEF Probe, locals
  <2>2. pc[t] = "probe" /\ redis' = redis
    BY <1>2 DEF Probe
  <2> QED  BY <1>a, <1>b, <1>c, <2>1, <2>2 DEF AfterSaved
<1>3. CASE Pop(t)
  <2>1. pc'[t] = "stopLoad" \/ (pc'[t] = "readConfig" /\ cache[Gw(t)] # NoTc)
    BY <1>3 DEF Pop
  <2>2. pc[t] = "pop" /\ redis' = redis
    BY <1>3 DEF Pop
  <2>3. Answers /\ cache[Gw(t)] # NoTc => Saved
    <3>1. PICK g \in Gateways : Gw(t) = g /\ (t = Main(g) \/ t = Pruner(g))
      BY ThreadsOf
    <3>2. GatewayCfg(g)
      BY DEF CfgInv
    <3> QED  BY <2>2, <3>1, <3>2 DEF GatewayCfg
  <2> QED  BY <1>a, <1>b, <2>1, <2>2, <2>3 DEF AfterSaved
<1>4. CASE StopLoad(t)
  <2>1. CASE pc'[t] \in {"rest", "exiting", "truncate"}
    BY <1>b, <2>1 DEF AfterSaved
  <2>2. CASE pc'[t] \notin {"rest", "exiting", "truncate"}
    <3>1. pc'[t] = "readConfig" /\ redis.status = "running" /\ redis' = redis
      BY <1>4, <1>e, <1>f, <2>2 DEF StopLoad, IsRunning, shared
    <3> QED  BY <1>b, <1>d, <3>1 DEF AfterSaved
  <2> QED  BY <2>1, <2>2
<1>5. CASE ReadConfig(t)
  <2>1. pc'[t] = "readSaved" \/ (pc'[t] = "saveStopped" /\ sav'[t] # NoConfig)
    BY <1>5 DEF ReadConfig
  <2>2. pc[t] = "readConfig" /\ redis' = redis
    BY <1>5 DEF ReadConfig, shared
  <2> QED  BY <1>a, <1>b, <1>c, <2>1, <2>2 DEF AfterSaved
<1>6. CASE ReadSaved(t)
  <2>1. pc[t] = "readSaved" /\ pc'[t] = "saveStopped" /\ redis' = redis
    BY <1>6 DEF ReadSaved, shared
  <2>2. Answers' => sav'[t] = redis.config
    BY <1>6, <1>a DEF ReadSaved, Load
  <2> QED  BY <1>a, <1>b, <1>c, <2>1, <2>2 DEF AfterSaved, Saved
<1>7. CASE TouchLoad(t)
  <2>1. CASE pc'[t] = "rest"
    BY <1>b, <2>1 DEF AfterSaved
  <2>2. CASE pc'[t] # "rest"
    <3>1. /\ redis.status = "running" /\ redis' = redis /\ pc'[t] = "touchSave"
          /\ ld'[t] = [redis EXCEPT !.act = 0]
      BY <1>7, <1>e, <1>f, <2>2 DEF TouchLoad, shared
    <3>2. ld'[t].config # NoConfig
      BY <1>d, <3>1 DEF TenantState, Saved
    <3> QED  BY <1>b, <3>1, <3>2 DEF AfterSaved
  <2> QED  BY <2>1, <2>2
<1>8. CASE MarkStopped(t) \/ GetSavedState(t) \/ SaveStopped(t) \/ SaveRunning(t) \/ TouchSave(t)
  <2>1. pc'[t] \in {"saved", "rest", "pop", "stopCtr"}
    BY <1>8, <1>f DEF MarkStopped, GetSavedState, SaveStopped, SaveRunning, TouchSave
  <2> QED  BY <1>b, <2>1 DEF AfterSaved
<1>9. CASE StopContainer(t) \/ RemoveContainer(t) \/ Truncate(t) \/ Write(t) \/ RemoveOld(t) \/ Run(t)
  <2>1. pc'[t] \in {"removeCtr", "rest", "exiting", "truncate", "write", "removeOld", "run",
                    "saveRunning"}
    BY <1>9, <1>f DEF StopContainer, RemoveContainer, Truncate, Write, RemoveOld, Run
  <2> QED  BY <1>b, <2>1 DEF AfterSaved
<1> QED
  BY <1>1, <1>2, <1>3, <1>4, <1>5, <1>6, <1>7, <1>8, <1>9 DEF ThreadStep

\* The gateway of a thread that takes a step.
LEMMA StepperGatewayCfg ==
  ASSUME TypeInv, PrunerStops, CfgInv, [Next]_vars, NEW t \in Threads, ThreadStep(t),
         NEW g \in Gateways
  PROVE  GatewayCfg(g)'
<1> SUFFICES ASSUME Answers'
             PROVE  /\ cache'[g] # NoTc => Saved' \/ pc'[Main(g)] = "saveRunning"
                    /\ pc'[Pruner(g)] \notin {"off", "rest"} => Saved'
  BY DEF GatewayCfg
<1>a. /\ cache[g] # NoTc => Saved \/ pc[Main(g)] = "saveRunning"
      /\ pc[Pruner(g)] \notin {"off", "rest"} => Saved
      /\ Saved => Saved'
  BY AnswersBefore, SavedStays DEF CfgInv, GatewayCfg
<1>b. pc[t] \notin {"off", "rest"}
  BY DEF ThreadStep, LoadState, Probe, MarkStopped, GetSavedState, Pop, StopLoad, ReadConfig,
         ReadSaved, SaveStopped, StopContainer, RemoveContainer, Truncate, Write, RemoveOld, Run,
         SaveRunning, TouchLoad, TouchSave
<1>1. pc'[Pruner(g)] \notin {"off", "rest"} => Saved'
  <2>1. CASE t = Pruner(g)
    BY <1>a, <1>b, <2>1
  <2>2. CASE t # Pruner(g)
    BY <1>a, <2>2, OthersWait, ThreadsOf
  <2> QED  BY <2>1, <2>2
<1>2. CASE t # Main(g)
  <2>1. pc'[Main(g)] = pc[Main(g)]
    BY <1>2, OthersWait, ThreadsOf
  <2>2. cache'[g] = cache[g] \/ cache'[g] = NoTc
    <3>1. CASE Gw(t) = g
      <4>1. t = Pruner(g)
        BY <1>2, <3>1, ThreadsOf
      <4>2. ~ Probe(t) /\ ~ Run(t)
        BY <4>1 DEF PrunerStops, Stopping, Probe, Run
      <4> QED  BY <3>1, <4>2, ThreadFrame DEF Pop, TypeInv, TypeOK
    <3>2. CASE Gw(t) # g
      <4>1. Probe(t) \/ Pop(t) \/ Run(t) => cache'[g] = cache[g]
        BY <3>2 DEF Probe, Pop, Run, TypeInv, TypeOK
      <4> QED  BY <4>1, ThreadFrame
    <3> QED  BY <3>1, <3>2
  <2> QED  BY <1>1, <1>a, <2>1, <2>2
<1>3. CASE t = Main(g)
  <2>0. Gw(t) = g
    BY <1>3, ThreadsOf
  <2>1. CASE Probe(t)
    <3>1. Saved
      BY <2>1, AnswersBefore DEF Probe, CfgInv, ThreadCfg, AfterSaved
    <3> QED  BY <1>1, <1>a, <3>1
  <2>2. CASE Pop(t)
    BY <1>1, <2>0, <2>2 DEF Pop, TypeInv, TypeOK
  <2>3. CASE Run(t)
    <3>1. pc[t] = "run" /\ (cache' = cache \/ pc'[t] = "saveRunning")
      BY <2>3 DEF Run, Goto, TypeInv, TypeOK
    <3> QED  BY <1>1, <1>3, <1>a, <3>1
  <2>4. CASE SaveRunning(t)
    <3>1. redis'.config = Added(Written(cfg[t]))
      BY <2>4, AnswersBefore DEF SaveRunning, Save
    <3>2. Added(Written(cfg[t])) # NoConfig
      BY Constructed DEF TypeInv, TypeOK
    <3> QED  BY <1>1, <3>1, <3>2 DEF Saved
  <2>5. CASE ~ Probe(t) /\ ~ Pop(t) /\ ~ Run(t) /\ ~ SaveRunning(t)
    <3>1. cache' = cache
      BY <2>5, ThreadFrame
    <3>2. pc[t] # "saveRunning"
      BY <2>5 DEF ThreadStep, LoadState, MarkStopped, GetSavedState, StopLoad, ReadConfig, ReadSaved,
                  SaveStopped, StopContainer, RemoveContainer, Truncate, Write, RemoveOld, TouchLoad,
                  TouchSave
    <3> QED  BY <1>1, <1>3, <1>a, <3>1, <3>2
  <2> QED  BY <2>1, <2>2, <2>3, <2>4, <2>5
<1> QED  BY <1>2, <1>3

\* A gateway's other steps cache nothing, leave a thread that saves alone, and set the
\* pruner to work on a running tenant only.
LEMMA GatewayCaches ==
  ASSUME TypeInv, NEW g \in Gateways, Request(g) \/ Process(g) \/ Shutdown(g) \/ Crash(g),
         NEW h \in Gateways
  PROVE  /\ cache'[h] # NoTc => /\ cache[h] # NoTc
                                /\ pc[Main(h)] = "saveRunning" => pc'[Main(h)] = "saveRunning"
         /\ \/ pc'[Pruner(h)] \in {"off", "rest"} \/ pc'[Pruner(h)] = pc[Pruner(h)]
            \/ redis.status = "running"
<1> USE ThreadsOf DEF TypeInv, TypeOK
<1>1. CASE Chat(g) \/ Lookup(g) \/ Touch(g)
  BY <1>1 DEF Chat, Lookup, Touch, GetTenant, Begin, Goto
<1>2. CASE \E c \in Configs : Configure(g, c)
  BY <1>2 DEF Configure, Begin, Goto, shared
<1>3. CASE Start(g) \/ Scan(g) \/ Shutdown(g)
  BY <1>3 DEF Start, Scan, Shutdown, Goto, shared
<1>4. CASE Exit(g) \/ Crash(g)
  BY <1>4 DEF Exit, Crash, Gone
<1> QED  BY <1>1, <1>2, <1>3, <1>4 DEF Request, Process

LEMMA CfgStep ==
  ASSUME TypeInv, PrunerStops, CfgInv, [Next]_vars
  PROVE  CfgInv'
<1>0. /\ redis'.status = "running" => Saved'
      /\ Answers' => Answers
      /\ Answers /\ Saved => Saved'
  BY AnswersBefore, SavedStays
<1> DEFINE Rest == (\A u \in Threads : ThreadCfg(u)') /\ (\A h \in Gateways : GatewayCfg(h)')
<1>1. ASSUME NEW t \in Threads, ThreadStep(t)
      PROVE  Rest
  <2>1. ASSUME NEW u \in Threads, u # t
        PROVE  ThreadCfg(u)'
    <3>1. pc'[u] = pc[u] /\ ld'[u] = ld[u] /\ sav'[u] = sav[u]
      BY <1>1, <2>1, OthersWait
    <3> QED  BY <1>0, <3>1 DEF CfgInv, ThreadCfg
  <2> QED  BY <1>1, <2>1, StepperCfg, StepperGatewayCfg
<1>2. ASSUME NEW g \in Gateways, Request(g) \/ Process(g) \/ Shutdown(g) \/ Crash(g)
      PROVE  Rest
  <2>1. ASSUME NEW u \in Threads
        PROVE  ThreadCfg(u)'
    <3>1. \/ pc'[u] \in Entries
          \/ pc'[u] = pc[u] /\ ld'[u] = ld[u] /\ sav'[u] = sav[u]
      BY <1>2, GatewayEnters
    <3> QED  BY <1>0, <3>1 DEF CfgInv, ThreadCfg, Entries, AfterSaved
  <2>2. ASSUME NEW h \in Gateways
        PROVE  GatewayCfg(h)'
    BY <1>0, <1>2, GatewayCaches DEF CfgInv, GatewayCfg
  <2> QED  BY <2>1, <2>2
<1>3. ASSUME Tick
      PROVE  Rest
  <2>1. UNCHANGED <<pc, sav>>
    BY <1>3 DEF Tick
  <2>2. \A u \in Threads : ld'[u].config = ld[u].config
    BY <1>3 DEF Tick, Older, TypeInv, TypeOK, TenantState
  <2>3. \A h \in Gateways : cache'[h] # NoTc => cache[h] # NoTc
    BY <1>3 DEF Tick
  <2>4. \A u \in Threads : ThreadCfg(u)'
    BY <1>0, <2>1, <2>2 DEF CfgInv, ThreadCfg
  <2>5. \A h \in Gateways : GatewayCfg(h)'
    BY <1>0, <2>1, <2>3 DEF CfgInv, GatewayCfg
  <2> QED  BY <2>4, <2>5
<1>4. ASSUME UNCHANGED <<redis, cache, pc, op, locals, made>>
      PROVE  Rest
  BY <1>0, <1>4 DEF CfgInv, ThreadCfg, GatewayCfg, locals
<1> HIDE DEF Rest
<1>5. \A g \in Gateways : Request(g) \/ Process(g) \/ Shutdown(g) \/ Crash(g) => Rest
  BY <1>2
<1>6. Rest
  BY <1>1, <1>3, <1>4, <1>5, NextCases
<1> QED  BY <1>0, <1>6 DEF Rest, CfgInv

\* While Redis answers, no interleaving of gateways, pruners, crashes and failing Docker
\* calls replaces a saved configuration by none (ConfigNeverErased).
THEOREM ConfigurationsNeverErased == Spec => ConfigNeverErased
<1>1. Init => CfgInv
  BY ThreadsOf DEF Init, CfgInv, ThreadCfg, GatewayCfg, AfterSaved, Absent
<1>2. TypeInv /\ CfgInv /\ [Next]_vars =>
        [NoFaults({"load", "save"}) /\ redis.config # NoConfig => redis'.config # NoConfig]_vars
  BY SavedStays DEF Answers, Saved
<1> QED
  BY <1>1, <1>2, CfgStep, TypeAlways, PrunerStopsAlways, PTL DEF Spec, ConfigNeverErased

(***************************************************************************)
(* Shutting down.  A container that runs is in the gateway's cache, or in  *)
(* the hands of a thread that has not stopped it yet, or about to be       *)
(* removed by its name; this holds up to the end of the first process that *)
(* is shut down.  A process that leaves has emptied its cache, and nothing *)
(* fills it again: its main thread is in stop_tenant, and its pruner never *)
(* does anything else.                                                     *)
(***************************************************************************)
Leaving == {"pop", "stopLoad", "exiting"} \cup Stopping

LeavingInv ==
  \A g \in Gateways :
    /\ op[Main(g)] = "shutdown" => /\ pc[Main(g)] \in Leaving
                                   /\ pc[Main(g)] = "pop" \/ cache[g] = NoTc
    /\ pc[Main(g)] = "exiting" => op[Main(g)] = "shutdown"

\* An operation ends, or goes on as the same operation; only a shutdown leaves.
LEMMA OperationGoesOn ==
  ASSUME TypeInv, NEW t \in Threads, ThreadStep(t)
  PROVE  /\ op'[t] = op[t] \/ (op'[t] = "none" /\ pc'[t] = "rest")
         /\ pc'[t] = "exiting" => op[t] = "shutdown" /\ op'[t] = op[t]
         /\ pc[t] \in Leaving /\ op[t] = "shutdown" => pc'[t] \in Leaving
<1> DEFINE OnWithIt == /\ op'[t] = op[t] \/ (op'[t] = "none" /\ pc'[t] = "rest")
                       /\ pc'[t] = "exiting" => op[t] = "shutdown" /\ op'[t] = op[t]
                       /\ pc[t] \in Leaving /\ op[t] = "shutdown" => pc'[t] \in Leaving
<1>t. pc \in [Threads -> PC] /\ op \in [Threads -> Op]
  BY DEF TypeInv, TypeOK
<1> USE <1>t DEF Leaving, Stopping, Goto, locals
<1>1. Return(t) => pc'[t] = "rest" /\ op'[t] = "none"
  BY DEF Return
<1>2. NotFound(t) => \/ pc'[t] = "rest" /\ op'[t] = "none"
                     \/ pc'[t] = "saved" /\ op'[t] = op[t]
  BY <1>1 DEF NotFound
<1>3. StopReturns(t) => \/ pc'[t] = "rest" /\ op'[t] = "none" /\ op[t] = "prune"
                        \/ pc'[t] = "exiting" /\ op'[t] = op[t] /\ op[t] = "shutdown"
                        \/ pc'[t] = "truncate" /\ op'[t] = op[t] /\ op[t] # "shutdown"
  BY <1>1 DEF StopReturns
<1>4. LoadState(t) \/ Probe(t) \/ MarkStopped(t) \/ GetSavedState(t) => OnWithIt
  BY <1>1, <1>2 DEF LoadState, Probe, MarkStopped, GetSavedState
<1>5. Pop(t) \/ ReadConfig(t) \/ ReadSaved(t) \/ SaveStopped(t) => OnWithIt
  BY DEF Pop, ReadConfig, ReadSaved, SaveStopped
<1>6. StopLoad(t) \/ StopContainer(t) \/ RemoveContainer(t) => OnWithIt
  BY <1>3 DEF StopLoad, StopContainer, RemoveContainer
<1>7. Truncate(t) \/ Write(t) \/ RemoveOld(t) \/ Run(t) => OnWithIt
  BY <1>1 DEF Truncate, Write, RemoveOld, Run
<1>8. SaveRunning(t) \/ TouchLoad(t) \/ TouchSave(t) => OnWithIt
  BY <1>1 DEF SaveRunning, TouchLoad, TouchSave
<1> HIDE DEF OnWithIt
<1>9. OnWithIt
  BY <1>4, <1>5, <1>6, <1>7, <1>8 DEF ThreadStep
<1> QED  BY <1>9 DEF OnWithIt

LEMMA LeavingStep ==
  ASSUME TypeInv, PrunerStops, LeavingInv, [Next]_vars
  PROVE  LeavingInv'
<1> DEFINE Leaves(g) == /\ op'[Main(g)] = "shutdown" =>
                             /\ pc'[Main(g)] \in Leaving
                             /\ pc'[Main(g)] = "pop" \/ cache'[g] = NoTc
                        /\ pc'[Main(g)] = "exiting" => op'[Main(g)] = "shutdown"
<1>0. \A g \in Gateways :
        /\ op[Main(g)] = "shutdown" => /\ pc[Main(g)] \in Leaving
                                       /\ pc[Main(g)] = "pop" \/ cache[g] = NoTc
        /\ pc[Main(g)] = "exiting" => op[Main(g)] = "shutdown"
  BY DEF LeavingInv
<1>1. ASSUME NEW g \in Gateways, NEW t \in Threads, ThreadStep(t)
      PROVE  Leaves(g)
  <2>1. cache'[g] = cache[g] \/ cache'[g] = NoTc \/ (g = Gw(t) /\ (Probe(t) \/ Run(t)))
    BY <1>1, ThreadFrame DEF Pop, Probe, Run, TypeInv, TypeOK
  <2>2. CASE t = Main(g)
    <3>1. op[t] = "shutdown" => ~Probe(t) /\ ~Run(t)
      BY <1>0, <2>2 DEF Probe, Run, Leaving, Stopping
    <3>2. Pop(t) => cache'[g] = NoTc
      BY <2>2, ThreadsOf DEF Pop, TypeInv, TypeOK
    <3>3. pc[t] = "pop" => Pop(t)
      BY <1>1 DEF ThreadStep, LoadState, Probe, MarkStopped, GetSavedState, StopLoad,
                  ReadConfig, ReadSaved, SaveStopped, StopContainer, RemoveContainer, Truncate,
                  Write, RemoveOld, Run, SaveRunning, TouchLoad, TouchSave
    <3> QED  BY <1>0, <1>1, <2>1, <2>2, <3>1, <3>2, <3>3, OperationGoesOn
  <2>3. CASE t # Main(g)
    <3>1. pc'[Main(g)] = pc[Main(g)] /\ op'[Main(g)] = op[Main(g)]
      BY <1>1, <2>3, OthersWait, ThreadsOf
    <3>2. g = Gw(t) => ~Probe(t) /\ ~Run(t)
      BY <2>3, ThreadsOf DEF PrunerStops, Probe, Run, Stopping
    <3> QED  BY <1>0, <2>1, <3>1, <3>2
  <2> QED  BY <2>2, <2>3
<1>2. ASSUME NEW g \in Gateways, NEW h \in Gateways, Request(h)
      PROVE  Leaves(g)
  <2>1. CASE h # g
    <3>1. pc'[Main(g)] = pc[Main(g)] /\ op'[Main(g)] = op[Main(g)] /\ cache'[g] = cache[g]
      BY <1>2, <2>1, ThreadsOf DEF Request, Chat, Lookup, Touch, Configure, GetTenant, Goto,
         shared, TypeInv, TypeOK
    <3> QED  BY <1>0, <3>1
  <2>2. CASE h = g
    <3>1. pc[Main(g)] = "rest"
      BY <1>2, <2>2 DEF Request, Chat, Lookup, Touch, Configure, GetTenant, Begin
    <3>2. op[Main(g)] # "shutdown"
      BY <1>0, <3>1 DEF Leaving, Stopping
    <3>3. pc'[Main(g)] # "exiting" /\ op'[Main(g)] # "shutdown"
      BY <1>2, <2>2, <3>1, <3>2, ThreadsOf DEF Request, Chat, Lookup, Touch, Configure,
         GetTenant, Goto, TypeInv, TypeOK
    <3> QED  BY <3>3
  <2> QED  BY <2>1, <2>2
<1>3. ASSUME NEW g \in Gateways, NEW h \in Gateways, Start(h) \/ Scan(h) \/ Shutdown(h)
      PROVE  Leaves(g)
  BY <1>0, <1>3, ThreadsOf DEF Start, Scan, Shutdown, Goto, shared, Leaving, Stopping, TypeInv,
     TypeOK
<1>4. ASSUME NEW g \in Gateways, NEW h \in Gateways, Exit(h) \/ Crash(h)
      PROVE  Leaves(g)
  BY <1>0, <1>4, ThreadsOf DEF Exit, Crash, Gone, TypeInv, TypeOK
<1>5. ASSUME NEW g \in Gateways, Tick
      PROVE  Leaves(g)
  BY <1>0, <1>5 DEF Tick
<1>6. ASSUME NEW g \in Gateways, UNCHANGED <<redis, cache, pc, op, locals, made>>
      PROVE  Leaves(g)
  BY <1>0, <1>6
<1> HIDE DEF Leaves
<1>7. \A g \in Gateways : Leaves(g)
  BY <1>1, <1>2, <1>3, <1>4, <1>5, <1>6, NextCases DEF Process
<1> QED  BY <1>7 DEF Leaves, LeavingInv, Main

Taking == {"readConfig", "readSaved", "saveStopped", "stopCtr"}

\* Whoever will stop the container that runs, in a gateway that is alone.
WillStop(g) ==
  ctr.up => \/ cache[g].id = ctr.id
            \/ \E t \in Threads : pc[t] \in Taking /\ cid[t] = ctr.id
            \/ pc[Main(g)] \in {"truncate", "write", "removeOld"}

\* Up to the end of the first process.
FirstLife(g) == NoFaults(Kinds) /\ (ends = 0 \/ (ends = 1 /\ op[Main(g)] = "shutdown"))

StopInv == \A g \in Gateways : Gateways = {g} /\ FirstLife(g) => WillStop(g)

\* As long as nothing fails, a step of a thread leaves a container that runs to
\* someone who will stop it.
LEMMA ThreadWillStop ==
  ASSUME TypeInv, PrunerStops, ContainerHasId, NEW g \in Gateways, Gateways = {g}, WillStop(g),
         \A k \in Kinds : ~Fault(k), NEW t \in Threads, ThreadStep(t)
  PROVE  WillStop(g)'
<1> DEFINE Replaces == {"truncate", "write", "removeOld"}
           Holds(u) == pc[u] \in Taking /\ cid[u] = ctr.id
           HoldsNext(u) == pc'[u] \in Taking /\ cid'[u] = ctr'.id
           Goal == ctr'.up => \/ cache'[g].id = ctr'.id
                              \/ \E u \in Threads : HoldsNext(u)
                              \/ pc'[Main(g)] \in Replaces
<1>0. SUFFICES Goal
  BY DEF WillStop, Main
<1>w. ctr.up => cache[g].id = ctr.id \/ (\E u \in Threads : Holds(u)) \/ pc[Main(g)] \in Replaces
  BY DEF WillStop
<1>1. \A u \in Threads : u # t => pc'[u] = pc[u] /\ cid'[u] = cid[u]
  BY OthersWait
<1>2. Gw(t) = g /\ (t = Main(g) \/ t = Pruner(g)) /\ Main(g) \in Threads
  BY ThreadsOf
<1>3. ~Fault("load") /\ ~Fault("save") /\ ~Fault("docker")
  BY DEF Kinds
<1>t. /\ pc \in [Threads -> PC] /\ cid \in [Threads -> 0 .. made] /\ made \in Nat
      /\ ctr \in [id : 0 .. made, up : BOOLEAN, config : Config \cup {NoConfig}]
      /\ cache \in [Gateways -> [id : 0 .. made, act : Age]]
  BY DEF TypeInv, TypeOK
<1>s. ASSUME ctr' = ctr,
             cache[g].id = ctr.id => cache'[g].id = ctr.id \/ HoldsNext(t),
             Holds(t) => HoldsNext(t),
             pc[t] \in Replaces => pc'[t] \in Replaces
      PROVE  Goal
  <2>1. ASSUME NEW u \in Threads, Holds(u)
        PROVE  HoldsNext(u)
    BY <1>1, <1>s, <2>1
  <2>2. pc[Main(g)] \in Replaces => pc'[Main(g)] \in Replaces
    BY <1>1, <1>2, <1>s
  <2> QED  BY <1>w, <1>s, <2>1, <2>2
<1>4. CASE \/ LoadState(t) \/ MarkStopped(t) \/ GetSavedState(t) \/ SaveRunning(t) \/ TouchLoad(t)
           \/ TouchSave(t) \/ StopLoad(t)
  <2>1. UNCHANGED <<ctr, cache>>
    BY <1>4 DEF LoadState, MarkStopped, GetSavedState, SaveRunning, TouchLoad, TouchSave, StopLoad,
                shared
  <2>2. pc[t] \notin Taking \cup Replaces
    BY <1>4 DEF LoadState, MarkStopped, GetSavedState, SaveRunning, TouchLoad, TouchSave, StopLoad,
                Taking
  <2> QED  BY <1>s, <2>1, <2>2
<1>6. CASE Probe(t)
  <2>1. ctr' = ctr /\ pc[t] \notin Taking \cup Replaces
    BY <1>6 DEF Probe, Taking
  <2>2. cache'[g] = cache[g] \/ cache'[g].id = ctr.id
    BY <1>6, <1>t, <1>2 DEF Probe
  <2> QED  BY <1>s, <2>1, <2>2
<1>7. CASE Pop(t)
  <2>1. ctr' = ctr /\ pc[t] \notin Taking \cup Replaces
    BY <1>7 DEF Pop, Taking
  <2>2. cid'[t] = cache[g].id /\ pc'[t] = IF cache[g] = NoTc THEN "stopLoad" ELSE "readConfig"
    BY <1>2, <1>7, <1>t DEF Pop, Goto
  <2>3. CASE cache[g] = NoTc
    <3>1. ctr.up => cache[g].id # ctr.id
      BY <2>3 DEF ContainerHasId, NoTc, NoCtr
    <3>2. CASE ctr.up
      BY <1>s, <2>1, <3>1, <3>2
    <3>3. CASE ~ctr.up
      BY <2>1, <3>3
    <3> QED  BY <3>2, <3>3
  <2>4. CASE cache[g] # NoTc
    <3>1. cache[g].id = ctr.id => HoldsNext(t)
      BY <2>1, <2>2, <2>4 DEF Taking
    <3> QED  BY <1>s, <2>1, <3>1
  <2> QED  BY <2>3, <2>4
<1>9. CASE ReadConfig(t) \/ ReadSaved(t) \/ SaveStopped(t)
  <2>1. UNCHANGED <<ctr, cache, cid>> /\ pc[t] \in Taking /\ pc'[t] \in Taking
    BY <1>9, <1>t DEF ReadConfig, ReadSaved, SaveStopped, Goto, shared, locals, Taking
  <2>2. pc[t] \notin Replaces
    BY <2>1 DEF Taking
  <2> QED  BY <1>s, <2>1, <2>2
<1>10. CASE StopContainer(t)
  <2>1. /\ cache' = cache /\ pc[t] = "stopCtr"
        /\ \/ ctr' = [ctr EXCEPT !.up = FALSE]
           \/ ctr' = ctr /\ ctr.id # cid[t]
    BY <1>3, <1>10 DEF StopContainer
  <2>2. CASE ctr' = [ctr EXCEPT !.up = FALSE]
    <3>1. ctr'.up = FALSE
      BY <1>t, <2>2
    <3> QED  BY <3>1
  <2>3. CASE ctr' = ctr /\ ctr.id # cid[t]
    BY <1>s, <2>1, <2>3
  <2> QED  BY <2>1, <2>2, <2>3
<1>11. CASE RemoveContainer(t)
  <2>1. cache' = cache /\ pc[t] \notin Taking \cup Replaces
    BY <1>11 DEF RemoveContainer, Taking
  <2>2. ctr' = NoCtr \/ ctr' = ctr
    BY <1>11 DEF RemoveContainer
  <2>3. CASE ctr' = NoCtr
    BY <2>3 DEF NoCtr
  <2>4. CASE ctr' = ctr
    BY <1>s, <2>1, <2>4
  <2> QED  BY <2>2, <2>3, <2>4
<1>12. CASE Truncate(t) \/ Write(t)
  <2>1. ctr' = ctr /\ cache' = cache /\ pc[t] \notin Taking
    BY <1>12 DEF Truncate, Write, Taking
  <2>2. pc'[t] \in Replaces
    BY <1>12, <1>t DEF Truncate, Write, Goto
  <2> QED  BY <1>s, <2>1, <2>2
<1>13. CASE RemoveOld(t)
  <2>1. ctr' = NoCtr
    BY <1>3, <1>13 DEF RemoveOld
  <2> QED  BY <2>1 DEF NoCtr
<1>14. CASE Run(t)
  <2>1. pc[t] \notin Taking \cup Replaces
    BY <1>14 DEF Run, Taking
  <2>2. \/ ctr' = ctr /\ cache' = cache
        \/ /\ ctr' = NewCtr(made', TRUE, cfg[t])
           /\ cache' = [cache EXCEPT ![g] = [id |-> made', act |-> 0]]
    BY <1>2, <1>3, <1>14 DEF Run
  <2>3. CASE ctr' = ctr /\ cache' = cache
    BY <1>s, <2>1, <2>3
  <2>4. CASE /\ ctr' = NewCtr(made', TRUE, cfg[t])
             /\ cache' = [cache EXCEPT ![g] = [id |-> made', act |-> 0]]
    <3>1. cache'[g].id = made' /\ ctr'.id = made'
      BY <1>t, <2>4 DEF NewCtr
    <3> QED  BY <3>1
  <2> QED  BY <2>2, <2>3, <2>4
<1> HIDE DEF Goal
<1> QED
  BY <1>4, <1>6, <1>7, <1>9, <1>10, <1>11, <1>12, <1>13, <1>14 DEF ThreadStep

\* The first process to end was in its first life before.
LEMMA FirstLifeBefore ==
  ASSUME TypeInv, NoneLeaves, [Next]_vars, NEW g \in Gateways, Gateways = {g}, FirstLife(g)'
  PROVE  FirstLife(g) /\ (\A k \in Kinds : ~Fault(k)) /\ ~Exit(g) /\ ~Crash(g)
<1>t. op \in [Threads -> Op] /\ pc \in [Threads -> PC] /\ ends \in Nat
  BY DEF TypeInv, TypeOK
<1>1. NoFaults(Kinds) /\ \A k \in Kinds : ~Fault(k)
  BY NoFaultsBefore DEF FirstLife
<1>2. ends' = ends \/ ends' = ends + 1
  BY FaultsCount
<1>3. ends' = 0 \/ (ends' = 1 /\ op'[Main(g)] = "shutdown")
  BY DEF FirstLife, Main
<1>4. Main(g) \in Threads /\ Pruner(g) \in Threads /\ Main(g) # Pruner(g)
  BY ThreadsOf
<1>5. ~Exit(g)
  <2>1. Exit(g) => ends' = ends /\ op'[Main(g)] = "none" /\ pc[Main(g)] = "exiting"
    BY <1>4 DEF Exit, Gone
  <2> QED  BY <1>3, <1>4, <2>1 DEF NoneLeaves
<1>6. ~Crash(g)
  <2>1. Crash(g) => ends' = ends + 1 /\ op'[Main(g)] = "none"
    BY <1>4 DEF Crash, Gone
  <2> QED  BY <1>t, <1>3, <2>1
<1>7. ends = 0 \/ (ends = 1 /\ op[Main(g)] = "shutdown")
  <2>1. CASE ends' = ends + 1
    BY <1>t, <1>3, <2>1
  <2>2. CASE ends' = ends
    <3>1. op'[Main(g)] # "shutdown" \/ op[Main(g)] = "shutdown"
      <4>1. ASSUME NEW t \in Threads, ThreadStep(t)
            PROVE  op'[Main(g)] # "shutdown" \/ op[Main(g)] = "shutdown"
        BY <1>4, <4>1, OperationGoesOn, OthersWait
      <4>2. ASSUME Request(g) \/ Start(g) \/ Scan(g)
            PROVE  op'[Main(g)] # "shutdown" \/ op[Main(g)] = "shutdown"
        BY <1>t, <1>4, <4>2 DEF Request, Chat, Lookup, Touch, Configure, GetTenant, Start, Scan
      <4>3. ~Shutdown(g)
        BY <1>t, <2>2 DEF Shutdown
      <4> QED  BY <1>5, <1>6, <4>1, <4>2, <4>3 DEF Next, Process, Tick, ContainerExits, vars
    <3> QED  BY <1>3, <2>2, <3>1
  <2> QED  BY <1>2, <2>1, <2>2
<1> QED  BY <1>1, <1>5, <1>6, <1>7 DEF FirstLife

LEMMA StopStep ==
  ASSUME TypeInv, PrunerStops, KnownInv, StopInv, [Next]_vars
  PROVE  StopInv'
<1> SUFFICES ASSUME NEW g \in Gateways, Gateways = {g}, FirstLife(g)'
             PROVE  WillStop(g)'
  BY DEF StopInv, WillStop, FirstLife, Main
<1>1. FirstLife(g) /\ (\A k \in Kinds : ~Fault(k)) /\ ~Exit(g) /\ ~Crash(g)
  BY FirstLifeBefore DEF KnownInv
<1>2. WillStop(g)
  BY <1>1 DEF StopInv
<1>3. ContainerHasId
  BY DEF KnownInv
<1>4. ~ContainerExits
  BY <1>1 DEF ContainerExits, Kinds
<1>5. ASSUME NEW t \in Threads, ThreadStep(t)
      PROVE  WillStop(g)'
  BY <1>1, <1>2, <1>3, <1>5, ThreadWillStop
<1>6. ASSUME Request(g) \/ Start(g) \/ Scan(g) \/ Shutdown(g)
      PROVE  WillStop(g)'
  <2>1. ctr' = ctr
    BY <1>6, GatewayFrame DEF Process
  <2>2. cache'[g].id = cache[g].id
    BY <1>6 DEF Request, Chat, Lookup, Touch, Configure, GetTenant, Start, Scan, Shutdown, shared,
       TypeInv, TypeOK
  <2>3. ASSUME NEW t \in Threads, pc[t] \in Taking
        PROVE  pc'[t] = pc[t]
    <3>1. pc[t] # "off" /\ pc[t] # "rest"
      BY <2>3 DEF Taking
    <3>2. pc[Main(g)] = "off" => pc[Pruner(g)] = "off"
      BY DEF PrunerStops
    <3> QED
      BY <1>6, <3>1, <3>2, ThreadsOf DEF Request, Chat, Lookup, Touch, Configure, GetTenant, Begin,
         Start, Scan, Shutdown, Goto, TypeInv, TypeOK
  <2>4. pc[Main(g)] \in {"truncate", "write", "removeOld"} => pc'[Main(g)] = pc[Main(g)]
    BY <1>6, ThreadsOf DEF Request, Chat, Lookup, Touch, Configure, GetTenant, Begin, Start, Scan,
       Shutdown, Goto, TypeInv, TypeOK
  <2>5. cid' = cid
    BY <1>6 DEF Request, Chat, Lookup, Touch, Configure, GetTenant, Start, Scan, Shutdown, locals
  <2> QED  BY <1>2, <2>1, <2>2, <2>3, <2>4, <2>5 DEF WillStop, Main
<1>7. ASSUME Tick
      PROVE  WillStop(g)'
  <2>1. UNCHANGED <<ctr, pc, cid>>
    BY <1>7 DEF Tick
  <2>2. cache'[g].id = cache[g].id
    BY <1>7 DEF Tick, Older, NoTc, TypeInv, TypeOK
  <2> QED  BY <1>2, <2>1, <2>2 DEF WillStop, Main
<1>8. ASSUME UNCHANGED vars
      PROVE  WillStop(g)'
  BY <1>2, <1>8 DEF WillStop, Main, vars, shared, locals
<1>9. CASE Next
  BY <1>1, <1>4, <1>5, <1>6, <1>7, <1>9 DEF Next, Process
<1> QED  BY <1>8, <1>9

\* A gateway process that is alone and is shut down stops the container, as nothing has
\* failed, unless its pruner is in stop_tenant when it leaves (ShutdownStopsAll).
THEOREM ShutdownAlwaysStops == Spec => ShutdownStopsAll
<1> DEFINE Inv == TypeInv /\ PrunerStops /\ KnownInv /\ LeavingInv /\ StopInv
           Stops == \A g \in Gateways :
                      Exit(g) /\ Gateways = {g} /\ NoFaults(Kinds) /\ ends = 1
                          /\ pc[Pruner(g)] = "rest" => ~ ctr.up
<1>1. Init => KnownInv /\ LeavingInv /\ StopInv
  <2> SUFFICES ASSUME Init PROVE KnownInv /\ LeavingInv /\ StopInv
    OBVIOUS
  <2>1. KnownInv
    BY DEF Init, KnownInv, ContainerHasId, NoneLeaves, InHand
  <2>2. LeavingInv
    BY ThreadsOf DEF Init, LeavingInv
  <2>3. StopInv
    BY DEF Init, StopInv, WillStop, NoCtr
  <2> QED  BY <2>1, <2>2, <2>3
<1>2. Inv => Stops
  <2> SUFFICES ASSUME Inv, NEW g \in Gateways, Exit(g), Gateways = {g}, NoFaults(Kinds), ends = 1,
                      pc[Pruner(g)] = "rest", ctr.up
               PROVE  FALSE
    OBVIOUS
  <2>1. pc[Main(g)] = "exiting" /\ op[Main(g)] = "shutdown" /\ cache[g] = NoTc
    BY DEF Exit, LeavingInv
  <2>2. WillStop(g)
    BY <2>1 DEF StopInv, FirstLife
  <2>3. cache[g].id # ctr.id
    BY <2>1 DEF KnownInv, ContainerHasId, NoTc, NoCtr
  <2>4. \A t \in Threads : pc[t] \notin Taking
    BY <2>1, ThreadsOf DEF Taking
  <2> QED  BY <2>1, <2>2, <2>3, <2>4 DEF WillStop
<1> HIDE DEF Stops
<1>3. Inv /\ [Next]_vars => [Stops]_vars
  BY <1>2
<1>4. Spec => []Inv
  BY <1>1, KnownStep, LeavingStep, StopStep, TypeAlways, PrunerStopsAlways, PTL DEF Spec
<1> QED  BY <1>3, <1>4, PTL DEF Spec, ShutdownStopsAll, Stops
=============================================================================
