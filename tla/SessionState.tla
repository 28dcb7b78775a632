---------------------------- MODULE SessionState ----------------------------
(***************************************************************************)
(* The conversations of one agent: nanobot's sessions, their files in the  *)
(* workspace and the copies in Redis.                                      *)
(*                                                                         *)
(* A turn of the bus listener loads the session's copy into the workspace, *)
(* runs, publishes its answer and saves the session's file to Redis.  The  *)
(* turns of the agent's own chat routes and those that an approval resumes *)
(* run beside it and do neither.  A conversation is the set of its turns.  *)
(***************************************************************************)
EXTENDS Integers, Sequences

CONSTANTS
  Sessions,     \* session keys, as sequences of characters
  Direct,       \* "api:direct", where a resumed turn's command is filed
  Dirs,         \* directories that get mounted as the workspace
  Asides,       \* turns beside the listener: a subset of {"own", "resumed"}
  MaxTurns,     \* bound: turns
  MaxRestarts,  \* bound: restarts of the container
  MaxFaults     \* bound: Redis calls that raise

ASSUME SessionsAssumption ==
  /\ Direct \in Sessions
  /\ Asides \subseteq {"own", "resumed"}
  /\ MaxTurns \in Nat /\ MaxRestarts \in Nat /\ MaxFaults \in Nat

(***************************************************************************)
(* Names.                                                                  *)
(***************************************************************************)

Replaced(name, chars) == [i \in DOMAIN name |-> IF name[i] \in chars THEN "_" ELSE name[i]]

\* _session_state_key, and the pattern of the fallback match.
Key(s) == Replaced(s, {":"})

\* _safe_session_filename, without the suffix; nanobot's own name for the file.
SafeName(s) == Replaced(s, {":", "/"})

\* pattern in name
Contains(name, pattern) ==
  \E k \in 0 .. Len(name) - Len(pattern) :
    \A i \in 1 .. Len(pattern) : name[k + i] = pattern[i]

Keys  == {Key(s) : s \in Sessions}
Names == {SafeName(s) : s \in Sessions}

\* nanobot's files have the suffix that _safe_session_filename gives them, or none.
Suffixes == {".json", ""}
Files == Names \X Suffixes

VARIABLES
  suffix,    \* the suffix of nanobot's files
  redis,     \* the session state under a Redis key, {} when there is none
  disk,      \* the session files of a directory, {} when there is none
  dir,       \* the directory that is the workspace
  open,      \* the sessions in nanobot's memory ...
  mem,       \* ... and their turns
  pc, cur,   \* the bus listener, and its session
  aside,     \* the turns beside it, each with its session
  turns,     \* turns begun
  turn,      \* the listener's
  told,      \* history: a session's turns that ended well
  unloaded,  \* history: sessions brought into memory with their state not loaded
  beside,    \* history: the turns beside the listener
  upset,     \* history: a Redis call failed, a turn was cut short, or a turn
             \* beside the listener opened a file that lacked what Redis had
  restarts, faults

engine == <<open, mem, told>>
vars == <<suffix, redis, disk, dir, engine, pc, cur, aside, turns, turn,
          unloaded, beside, upset, restarts, faults>>

Turns == 1 .. MaxTurns
NoTurn == 0
OwnFile(s) == <<SafeName(s), suffix>>

TypeOK ==
  /\ suffix \in Suffixes
  /\ redis \in [Keys -> SUBSET Turns]
  /\ disk \in [Dirs -> [Files -> SUBSET Turns]]
  /\ dir \in Dirs
  /\ open \subseteq Sessions
  /\ mem \in [Sessions -> SUBSET Turns]
  /\ told \in [Sessions -> SUBSET Turns]
  /\ pc \in {"idle", "load", "run", "publish", "save"}
  /\ cur \in Sessions
  /\ aside \subseteq Turns \X Sessions
  /\ turns \in 0 .. MaxTurns
  /\ turn \in Turns \cup {NoTurn}
  /\ unloaded \subseteq Sessions
  /\ beside \subseteq Turns
  /\ upset \in BOOLEAN
  /\ restarts \in Nat /\ faults \in Nat

Init ==
  /\ suffix \in Suffixes
  /\ redis = [k \in Keys |-> {}]
  /\ disk = [d \in Dirs |-> [f \in Files |-> {}]]
  /\ dir \in Dirs
  /\ open = {} /\ mem = [s \in Sessions |-> {}] /\ told = [s \in Sessions |-> {}]
  /\ pc = "idle" /\ cur = Direct /\ turn = NoTurn
  /\ aside = {}
  /\ turns = 0
  /\ unloaded = {} /\ beside = {} /\ upset = FALSE
  /\ restarts = 0 /\ faults = 0

Fault == faults < MaxFaults /\ faults' = faults + 1 /\ upset' = TRUE
NoFault == UNCHANGED <<faults, upset>>

(***************************************************************************)
(* The engine.                                                             *)
(***************************************************************************)

\* A turn begins: nanobot reads the session's file of workspace ws, unless it
\* has the session in memory.
Opens(s, ws) ==
  /\ open' = open \cup {s}
  /\ mem' = IF s \in open THEN mem ELSE [mem EXCEPT ![s] = ws[OwnFile(s)]]

\* A turn ends well: it is added to its session, and the file is written.
Extends(s, t) ==
  /\ mem' = [mem EXCEPT ![s] = @ \cup {t}]
  /\ disk' = [disk EXCEPT ![dir][OwnFile(s)] = mem'[s]]
  /\ told' = [told EXCEPT ![s] = @ \cup {t}]
  /\ UNCHANGED open

(***************************************************************************)
(* The bus listener's turn.                                                *)
(***************************************************************************)

Take(s) ==
  /\ pc = "idle" /\ turns < MaxTurns
  /\ pc' = "load" /\ cur' = s
  /\ turns' = turns + 1 /\ turn' = turns'
  /\ UNCHANGED <<suffix, redis, disk, dir, engine, aside, unloaded, upset, restarts, faults, beside>>

\* Mutant: a file that exists is not overwritten.
LoadedIfMissing(s, ws) ==
  IF ws[<<SafeName(s), ".json">>] # {} THEN ws
  ELSE [ws EXCEPT ![<<SafeName(s), ".json">>] = redis[Key(s)]]

\* Mutant: the file is named as the Redis key is.
LoadedUnderKey(s, ws) == [f \in Files |-> IF f = <<Key(s), ".json">> THEN redis[Key(s)] ELSE ws[f]]

\* Mutant: the file is named as the session is, unsanitised.
LoadedUnsafe(s, ws) ==
  IF redis[Key(s)] = {} THEN ws
  ELSE [f \in Files \cup {<<s, ".json">>} |->
          IF f = <<s, ".json">> THEN redis[Key(s)] ELSE ws[f]]

\* What load_session_state_from_redis makes of workspace ws.
Loaded(s, ws) ==
  IF redis[Key(s)] = {} THEN ws ELSE [ws EXCEPT ![<<SafeName(s), ".json">>] = redis[Key(s)]]

\* The session's state is loaded, if Redis has one; a call that raises counts as
\* if it had none.  The engine starts right after.
Load ==
  /\ pc = "load" /\ pc' = "run"
  /\ \/ /\ disk' = [disk EXCEPT ![dir] = Loaded(cur, @)]
        /\ NoFault
        /\ UNCHANGED unloaded
     \/ /\ Fault
        /\ unloaded' = IF cur \in open THEN unloaded ELSE unloaded \cup {cur}
        /\ UNCHANGED disk
  /\ Opens(cur, disk'[dir])
  /\ UNCHANGED <<suffix, redis, dir, told, cur, aside, turns, turn, restarts, beside>>

Idle == pc' = "idle" /\ cur' = Direct /\ turn' = NoTurn

RunEnds ==
  /\ pc = "run" /\ pc' = "publish"
  /\ Extends(cur, turn)
  /\ UNCHANGED <<suffix, redis, dir, cur, aside, turns, turn, unloaded, upset, restarts, faults, beside>>

\* The engine raises: an error event, and no save.
RunFails ==
  /\ pc = "run" /\ Idle
  /\ UNCHANGED <<suffix, redis, disk, dir, engine, aside, turns, unloaded, upset, restarts, faults, beside>>

\* Mutant: after the answer the listener takes the next request.
PublishNoSave ==
  /\ pc = "publish" /\ Idle
  /\ NoFault
  /\ UNCHANGED <<suffix, redis, disk, dir, engine, aside, turns, unloaded, restarts, beside>>

\* The answer is published; if that raises, the turn is an error and not saved.
Publish ==
  /\ pc = "publish"
  /\ \/ pc' = "save" /\ NoFault /\ UNCHANGED <<cur, turn>>
     \/ Idle /\ Fault
  /\ UNCHANGED <<suffix, redis, disk, dir, engine, aside, turns, unloaded, restarts, beside>>

\* Mutant: the fallback takes any file.
FallbackAny(s) == {f \in Files : disk[dir][f] # {}}

\* The files that the fallback of save_session_state_to_redis may choose.
Fallback(s) == {f \in Files : disk[dir][f] # {} /\ Contains(f[1], Key(s))}

\* The states that it may save.
ToSave(s) ==
  LET file == disk[dir][<<SafeName(s), ".json">>] IN
  IF file # {} THEN {file} ELSE {disk[dir][f] : f \in Fallback(s)}

\* The session's file is saved, or one that the fallback finds, or nothing; a call
\* that raises may have had its effect.
Save ==
  /\ pc = "save" /\ Idle
  /\ \/ /\ \E state \in ToSave(cur) : redis' = [redis EXCEPT ![Key(cur)] = state]
        /\ NoFault \/ Fault
     \/ /\ ToSave(cur) = {} /\ NoFault
        /\ UNCHANGED redis
     \/ Fault /\ UNCHANGED redis
  /\ UNCHANGED <<suffix, disk, dir, engine, aside, turns, unloaded, restarts, beside>>

(***************************************************************************)
(* Turns beside it.                                                        *)
(***************************************************************************)

\* A turn of the agent's own chat routes, or one resumed by an approval, which is
\* in a session that had a turn in this process or under the default key.
BeginAside(k, s) ==
  /\ turns < MaxTurns
  /\ k = "resumed" => s \in open \cup {Direct}
  /\ turns' = turns + 1
  /\ aside' = aside \cup {<<turns', s>>}
  /\ Opens(s, disk[dir])
  /\ unloaded' = IF s \in open THEN unloaded ELSE unloaded \cup {s}
  /\ beside' = beside \cup {turns'}
  /\ upset' = (upset \/ (s \notin open /\ ~ redis[Key(s)] \subseteq disk[dir][OwnFile(s)]))
  /\ UNCHANGED <<suffix, redis, disk, dir, told, pc, cur, turn, restarts, faults>>

EndAside(t, s) ==
  /\ <<t, s>> \in aside
  /\ aside' = aside \ {<<t, s>>}
  /\ Extends(s, t)
  /\ UNCHANGED <<suffix, redis, dir, pc, cur, turns, turn, unloaded, upset, restarts, faults, beside>>

FailAside(t, s) ==
  /\ <<t, s>> \in aside
  /\ aside' = aside \ {<<t, s>>}
  /\ UNCHANGED <<suffix, redis, disk, dir, engine, pc, cur, turns, turn, unloaded, upset,
                 restarts, faults, beside>>

\* The container is stopped or crashes and comes back, with directory d as its
\* workspace: a provisioned and a resumed tenant may have different ones.
Restart(d) ==
  /\ restarts < MaxRestarts /\ restarts' = restarts + 1
  /\ dir' = d
  /\ open' = {} /\ mem' = [s \in Sessions |-> {}] /\ unloaded' = {}
  /\ Idle
  /\ aside' = {}
  /\ upset' = (upset \/ pc # "idle")
  /\ UNCHANGED <<suffix, redis, disk, told, turns, faults, beside>>

Next ==
  \/ \E s \in Sessions : Take(s)
  \/ Load \/ RunEnds \/ RunFails \/ Publish \/ Save
  \/ \E k \in Asides, s \in Sessions : BeginAside(k, s)
  \/ \E t \in Turns, s \in Sessions : EndAside(t, s) \/ FailAside(t, s)
  \/ \E d \in Dirs : Restart(d)

Spec == Init /\ [][Next]_vars

(***************************************************************************)
(* Properties.                                                             *)
(***************************************************************************)

\* No other session's file has the name of session s, or is taken for it.
Apart(s) ==
  \A u \in Sessions \ {s} :
    /\ SafeName(u) # SafeName(s)
    /\ suffix = "" => ~ Contains(SafeName(u), Key(s))

\* The listener's turns of s work on what was loaded: nanobot names its files as
\* the code expects, and had s in memory only from a loaded file.
Sound(s) == suffix = ".json" /\ Apart(s) /\ s \notin unloaded

\* Sessions do not share memory: what nanobot remembers of a session, and what is
\* saved under its key, are turns of this session, whatever runs beside it.
HistoryIsOwn ==
  \A s \in Sessions : Apart(s) => mem[s] \subseteq told[s] /\ redis[Key(s)] \subseteq told[s]

\* A turn of the listener sees every turn that Redis had of its session, through
\* restarts with whatever workspace (load before the run, agent/server.py:58).
TurnSeesSaved == pc = "run" /\ Sound(cur) => redis[Key(cur)] \subseteq mem[cur]

\* A saved conversation only grows: no later save replaces it by one that lacks a
\* turn, unless it is of a session that was in memory unloaded (agent/server.py:92).
SavedHistoryKept ==
  [][\A s \in Sessions : Sound(s) => redis[Key(s)] \subseteq redis'[Key(s)]]_vars

\* Every turn of the listener that ended well is there again at the session's next
\* turn, through restarts with whatever workspace, as long as nothing fails.
ListenerTurnsSurvive ==
  pc = "run" /\ Sound(cur) /\ ~ upset => told[cur] \ mem[cur] \subseteq beside

\* README.md:79: sessions are loaded before a request and saved after each successful
\* turn `so conversations survive container restarts'; no call fails, and no turn
\* is cut short.
ConversationsSurvive == pc = "run" /\ Sound(cur) /\ ~ upset => told[cur] \subseteq mem[cur]
=============================================================================
