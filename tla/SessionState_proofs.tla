------------------------- MODULE SessionState_proofs -------------------------
(***************************************************************************)
(* Proofs about SessionState, for every set of sessions and directories,   *)
(* whatever runs beside the listener, and every value of the bounds.       *)
(***************************************************************************)
EXTENDS SessionState, TLAPS

\* Every step is one of these; theorems about steps have a case for each.
LEMMA EveryStep ==
  ASSUME [Next]_vars
  PROVE  \/ \E s \in Sessions : Take(s)
         \/ Load
         \/ RunEnds
         \/ RunFails
         \/ Publish
         \/ Save
         \/ \E k \in Asides, s \in Sessions : BeginAside(k, s)
         \/ \E t \in Turns, s \in Sessions : EndAside(t, s)
         \/ \E t \in Turns, s \in Sessions : FailAside(t, s)
         \/ \E d \in Dirs : Restart(d)
         \/ UNCHANGED vars
  BY DEF Next

(***************************************************************************)
(* Names.                                                                  *)
(***************************************************************************)

\* Sessions with one Redis key have one file: _safe_session_filename replaces what
\* _session_state_key replaces, and more.
LEMMA KeyDeterminesName ==
  ASSUME NEW s, NEW u, Key(s) = Key(u)
  PROVE  SafeName(s) = SafeName(u)
<1>1. DOMAIN Key(s) = DOMAIN s /\ DOMAIN Key(u) = DOMAIN u
  BY DEF Key, Replaced
<1>2. DOMAIN s = DOMAIN u
  BY <1>1
<1>3. ASSUME NEW i \in DOMAIN s
      PROVE  (IF s[i] \in {":", "/"} THEN "_" ELSE s[i]) = (IF u[i] \in {":", "/"} THEN "_" ELSE u[i])
  <2>1. Key(s)[i] = IF s[i] = ":" THEN "_" ELSE s[i]
    BY DEF Key, Replaced
  <2>2. Key(u)[i] = IF u[i] = ":" THEN "_" ELSE u[i]
    BY <1>2 DEF Key, Replaced
  <2>3. (IF s[i] = ":" THEN "_" ELSE s[i]) = (IF u[i] = ":" THEN "_" ELSE u[i])
    BY <2>1, <2>2
  <2> QED  BY <2>3
<1> QED  BY <1>2, <1>3 DEF SafeName, Replaced

LEMMA NamesTyped ==
  ASSUME TypeOK, NEW s \in Sessions
  PROVE  /\ Key(s) \in Keys
         /\ SafeName(s) \in Names
         /\ OwnFile(s) \in Files
         /\ <<SafeName(s), ".json">> \in Files
  BY DEF TypeOK, Keys, Names, Files, OwnFile, Suffixes

\* No other session has the key or the file of a session that stands apart.
LEMMA ApartNames ==
  ASSUME NEW s \in Sessions, Apart(s), NEW u \in Sessions, u # s
  PROVE  Key(u) # Key(s) /\ SafeName(u) # SafeName(s)
  BY KeyDeterminesName DEF Apart

(***************************************************************************)
(* Type correctness.  A turn that ends is added to a history, so that the  *)
(* listener must have one whenever it is not idle.                         *)
(***************************************************************************)
BusyHasTurn == pc # "idle" => turn \in Turns

TypeInv == TypeOK /\ BusyHasTurn

LEMMA FaultTyped ==
  ASSUME TypeOK, Fault \/ NoFault
  PROVE  upset' \in BOOLEAN /\ faults' \in Nat
<1>1. upset' = TRUE \/ upset' = upset
  BY DEF Fault, NoFault
<1>2. upset' \in BOOLEAN
  BY <1>1 DEF TypeOK
<1>3. faults' \in Nat
  BY DEF Fault, NoFault, TypeOK
<1> QED  BY <1>2, <1>3

LEMMA LoadedTyped ==
  ASSUME TypeOK, NEW s \in Sessions, NEW ws \in [Files -> SUBSET Turns]
  PROVE  Loaded(s, ws) \in [Files -> SUBSET Turns]
  BY NamesTyped DEF Loaded, TypeOK

LEMMA ToSaveTyped ==
  ASSUME TypeOK, NEW s \in Sessions
  PROVE  ToSave(s) \subseteq SUBSET Turns
  BY NamesTyped DEF ToSave, Fallback, TypeOK

LEMMA OpensTyped ==
  ASSUME TypeOK, NEW s \in Sessions, NEW ws \in [Files -> SUBSET Turns], Opens(s, ws)
  PROVE  open' \subseteq Sessions /\ mem' \in [Sessions -> SUBSET Turns]
  BY NamesTyped DEF Opens, TypeOK

LEMMA ExtendsTyped ==
  ASSUME TypeOK, NEW s \in Sessions, NEW t \in Turns, Extends(s, t)
  PROVE  /\ open' \subseteq Sessions /\ mem' \in [Sessions -> SUBSET Turns]
         /\ told' \in [Sessions -> SUBSET Turns]
         /\ disk' \in [Dirs -> [Files -> SUBSET Turns]]
<1>1. mem' \in [Sessions -> SUBSET Turns] /\ told' \in [Sessions -> SUBSET Turns]
  BY DEF Extends, TypeOK
<1>2. OwnFile(s) \in Files /\ mem'[s] \in SUBSET Turns
  BY <1>1, NamesTyped
<1>3. disk' \in [Dirs -> [Files -> SUBSET Turns]]
  BY <1>2 DEF Extends, TypeOK
<1> QED  BY <1>1, <1>3 DEF Extends, TypeOK

LEMMA TypeInit == Init => TypeInv
<1> SUFFICES ASSUME Init PROVE TypeInv
  OBVIOUS
<1>1. upset \in BOOLEAN
  BY DEF Init
<1> QED  BY <1>1, SessionsAssumption DEF Init, TypeInv, TypeOK, BusyHasTurn

LEMMA TypeStep ==
  ASSUME TypeInv, [Next]_vars
  PROVE  TypeInv'
<1> USE SessionsAssumption DEF TypeInv, BusyHasTurn
<1>1. ASSUME NEW s \in Sessions, Take(s)  PROVE TypeInv'
  BY <1>1 DEF Take, TypeOK, engine, Turns
<1>2. CASE Load
  <2>1. disk' \in [Dirs -> [Files -> SUBSET Turns]]
    BY <1>2, LoadedTyped DEF Load, TypeOK
  <2>2. open' \subseteq Sessions /\ mem' \in [Sessions -> SUBSET Turns]
    BY <1>2, <2>1, OpensTyped DEF Load, TypeOK
  <2>3. upset' \in BOOLEAN
    BY <1>2, FaultTyped DEF Load
  <2>4. faults' \in Nat /\ unloaded' \subseteq Sessions
    BY <1>2, FaultTyped DEF Load, TypeOK
  <2> QED  BY <1>2, <2>1, <2>2, <2>3, <2>4 DEF Load, TypeOK
<1>3. CASE RunEnds
  <2>1. Extends(cur, turn) /\ cur \in Sessions /\ turn \in Turns
    BY <1>3 DEF RunEnds, TypeOK
  <2> QED  BY <1>3, <2>1, ExtendsTyped DEF RunEnds, TypeOK
<1>4. CASE RunFails
  BY <1>4 DEF RunFails, Idle, TypeOK, engine
<1>5. CASE Publish
  <2>1. upset' \in BOOLEAN /\ faults' \in Nat
    BY <1>5, FaultTyped DEF Publish
  <2> QED  BY <1>5, <2>1 DEF Publish, Idle, TypeOK, engine
<1>6. CASE Save
  <2>1. redis' \in [Keys -> SUBSET Turns]
    BY <1>6, ToSaveTyped DEF Save, TypeOK
  <2>2. upset' \in BOOLEAN /\ faults' \in Nat
    BY <1>6, FaultTyped DEF Save
  <2> QED  BY <1>6, <2>1, <2>2 DEF Save, Idle, TypeOK, engine
<1>7. ASSUME NEW k \in Asides, NEW s \in Sessions, BeginAside(k, s)  PROVE TypeInv'
  <2>1. open' \subseteq Sessions /\ mem' \in [Sessions -> SUBSET Turns]
    BY <1>7, OpensTyped DEF BeginAside, TypeOK
  <2>2. turns' \in 0 .. MaxTurns /\ turns' \in Turns
    BY <1>7 DEF BeginAside, TypeOK, Turns
  <2>3. aside' \subseteq Turns \X Sessions /\ beside' \subseteq Turns /\ unloaded' \subseteq Sessions
    BY <1>7, <2>2 DEF BeginAside, TypeOK
  <2>4. upset' \in BOOLEAN
    BY <1>7 DEF BeginAside, TypeOK
  <2> QED  BY <1>7, <2>1, <2>2, <2>3, <2>4 DEF BeginAside, TypeOK
<1>8. ASSUME NEW t \in Turns, NEW s \in Sessions, EndAside(t, s)  PROVE TypeInv'
  BY <1>8, ExtendsTyped DEF EndAside, TypeOK
<1>9. ASSUME NEW t \in Turns, NEW s \in Sessions, FailAside(t, s)  PROVE TypeInv'
  BY <1>9 DEF FailAside, TypeOK, engine
<1>10. ASSUME NEW d \in Dirs, Restart(d)  PROVE TypeInv'
  BY <1>10 DEF Restart, Idle, TypeOK
<1>11. CASE UNCHANGED vars
  BY <1>11 DEF vars, engine, TypeOK
<1> HIDE DEF TypeInv
<1> QED
  BY EveryStep, <1>1, <1>2, <1>3, <1>4, <1>5, <1>6, <1>7, <1>8, <1>9, <1>10, <1>11

LEMMA TypeAlways == Spec => []TypeInv
  BY TypeInit, TypeStep, PTL DEF Spec

\* Every variable of the agent's sessions always has its type (TypeOK).
THEOREM SessionsTypeCorrect == Spec => []TypeOK
<1>1. TypeInv => TypeOK
  BY DEF TypeInv
<1> QED  BY <1>1, TypeAlways, PTL

(***************************************************************************)
(* Sessions do not share memory.  A session's turns are the only ones in   *)
(* its memory, under its key and in its files, in every directory; and the *)
(* listener saves with the file of its session in place, so that with the  *)
(* expected suffix the fallback has no say.                                *)
(***************************************************************************)
FilesAreOwn ==
  \A s \in Sessions : Apart(s) =>
    \A d \in Dirs, x \in Suffixes : disk[d][<<SafeName(s), x>>] \subseteq told[s]

FileWritten == pc \in {"publish", "save"} => disk[dir][OwnFile(cur)] # {}

OwnInv == HistoryIsOwn /\ FilesAreOwn /\ FileWritten

\* What a turn that begins makes of the histories.
LEMMA OpensOwn ==
  ASSUME TypeOK, OwnInv, NEW s \in Sessions, NEW ws \in [Files -> SUBSET Turns], Opens(s, ws),
         Apart(s) => ws[OwnFile(s)] \subseteq told[s], UNCHANGED <<told, suffix>>
  PROVE  \A u \in Sessions : Apart(u) => mem'[u] \subseteq told[u]
  BY DEF Opens, OwnInv, HistoryIsOwn, TypeOK

\* A turn that ends keeps every history its own.
LEMMA ExtendsOwn ==
  ASSUME TypeOK, OwnInv, NEW s \in Sessions, NEW t \in Turns, Extends(s, t),
         UNCHANGED <<suffix, redis, dir>>
  PROVE  /\ HistoryIsOwn' /\ FilesAreOwn'
         /\ disk'[dir][OwnFile(s)] # {}
         /\ \A u \in Sessions : disk[dir][OwnFile(u)] # {} => disk'[dir][OwnFile(u)] # {}
<1>1. /\ mem' = [mem EXCEPT ![s] = @ \cup {t}] /\ told' = [told EXCEPT ![s] = @ \cup {t}]
      /\ disk' = [disk EXCEPT ![dir][OwnFile(s)] = mem'[s]]
      /\ \A u : Apart(u)' <=> Apart(u)
  BY DEF Extends, Apart
<1>2. OwnFile(s) \in Files /\ dir \in Dirs /\ suffix \in Suffixes
  BY NamesTyped DEF TypeOK
<1>3. HistoryIsOwn'
  BY <1>1 DEF OwnInv, HistoryIsOwn, TypeOK
<1>4. mem'[s] # {} /\ (Apart(s) => mem'[s] \subseteq told'[s])
  BY <1>1, <1>3 DEF TypeOK, HistoryIsOwn
<1>5. FilesAreOwn'
  <2> SUFFICES ASSUME NEW u \in Sessions, Apart(u), NEW d \in Dirs, NEW x \in Suffixes
               PROVE  disk'[d][<<SafeName(u), x>>] \subseteq told'[u]
    BY <1>1 DEF FilesAreOwn
  <2>1. told[u] \subseteq told'[u] /\ disk[d][<<SafeName(u), x>>] \subseteq told[u]
    BY <1>1 DEF TypeOK, OwnInv, FilesAreOwn
  <2>2. <<SafeName(u), x>> \in Files
    BY DEF Files, Names
  <2>3. CASE u = s
    BY <1>1, <1>2, <1>4, <2>1, <2>2, <2>3 DEF TypeOK
  <2>4. CASE u # s
    <3>1. <<SafeName(u), x>> # OwnFile(s)
      BY <2>4, ApartNames DEF OwnFile
    <3> QED  BY <1>1, <1>2, <2>1, <2>2, <3>1 DEF TypeOK
  <2> QED  BY <2>3, <2>4
<1>6. disk'[dir][OwnFile(s)] = mem'[s]
  BY <1>1, <1>2 DEF TypeOK
<1>7. \A u \in Sessions : disk[dir][OwnFile(u)] # {} => disk'[dir][OwnFile(u)] # {}
  <2>1. ASSUME NEW f \in Files, f # OwnFile(s)  PROVE disk'[dir][f] = disk[dir][f]
    BY <1>1, <1>2, <2>1 DEF TypeOK
  <2> QED  BY <1>4, <1>6, <2>1, NamesTyped
<1> QED  BY <1>3, <1>4, <1>5, <1>6, <1>7

\* What the load writes is the session's own.
LEMMA LoadedOwn ==
  ASSUME TypeOK, OwnInv, NEW d \in Dirs, NEW s \in Sessions,
         disk' = [disk EXCEPT ![d] = Loaded(s, @)], UNCHANGED <<told, suffix>>
  PROVE  FilesAreOwn'
<1> SUFFICES ASSUME NEW u \in Sessions, Apart(u), NEW e \in Dirs, NEW x \in Suffixes
             PROVE  disk'[e][<<SafeName(u), x>>] \subseteq told[u]
  BY DEF FilesAreOwn, Apart
<1>1. disk[e][<<SafeName(u), x>>] \subseteq told[u] /\ redis[Key(u)] \subseteq told[u]
  BY DEF OwnInv, FilesAreOwn, HistoryIsOwn
<1>2. <<SafeName(u), x>> \in Files /\ <<SafeName(s), ".json">> \in Files
  BY NamesTyped DEF Files, Names
<1>3. CASE u = s
  BY <1>1, <1>2, <1>3 DEF TypeOK, Loaded
<1>4. CASE u # s
  <2>1. <<SafeName(u), x>> # <<SafeName(s), ".json">>
    BY <1>4, ApartNames
  <2> QED  BY <1>1, <1>2, <2>1 DEF TypeOK, Loaded
<1> QED  BY <1>3, <1>4

\* What the save may choose is the session's own.
LEMMA ToSaveOwn ==
  ASSUME TypeOK, OwnInv, pc = "save", Apart(cur), NEW state \in ToSave(cur)
  PROVE  state \subseteq told[cur]
<1> DEFINE own == <<SafeName(cur), ".json">>
<1>1. cur \in Sessions /\ dir \in Dirs /\ ".json" \in Suffixes /\ suffix \in Suffixes
  BY DEF TypeOK, Suffixes
<1>2. disk[dir][own] \subseteq told[cur]
  BY <1>1 DEF OwnInv, FilesAreOwn
<1>3. CASE disk[dir][own] # {}
  BY <1>2, <1>3 DEF ToSave
<1>4. CASE disk[dir][own] = {}
  <2>1. suffix = ""
    BY <1>1, <1>4 DEF OwnInv, FileWritten, OwnFile, Suffixes
  <2>2. PICK f \in Files : state = disk[dir][f] /\ Contains(f[1], Key(cur))
    BY <1>4 DEF ToSave, Fallback
  <2>3. PICK u \in Sessions, x \in Suffixes : f = <<SafeName(u), x>>
    BY DEF Files, Names
  <2>4. u = cur
    BY <1>1, <2>1, <2>2, <2>3 DEF Apart
  <2> QED  BY <1>1, <2>2, <2>3, <2>4 DEF OwnInv, FilesAreOwn
<1> QED  BY <1>3, <1>4

LEMMA OwnInit == Init => OwnInv
<1> SUFFICES ASSUME Init PROVE OwnInv
  OBVIOUS
<1>1. \A d \in Dirs, s \in Sessions, x \in Suffixes : disk[d][<<SafeName(s), x>>] = {}
  BY DEF Init, Files, Names
<1>2. \A s \in Sessions : mem[s] = {} /\ redis[Key(s)] = {}
  BY DEF Init, Keys
<1> QED  BY <1>1, <1>2 DEF Init, OwnInv, HistoryIsOwn, FilesAreOwn, FileWritten

LEMMA OwnStep ==
  ASSUME TypeInv, OwnInv, [Next]_vars
  PROVE  OwnInv'
<1>0. ASSUME UNCHANGED <<suffix, redis, disk, mem, told>>, FileWritten'  PROVE OwnInv'
  BY <1>0 DEF OwnInv, HistoryIsOwn, FilesAreOwn, Apart
<1> USE DEF TypeInv
<1>1. ASSUME NEW s \in Sessions, Take(s)  PROVE OwnInv'
  BY <1>0, <1>1 DEF Take, engine, FileWritten
<1>2. CASE Load
  <2>1. /\ UNCHANGED <<suffix, redis, dir, told>> /\ pc' = "run" /\ cur \in Sessions
        /\ Opens(cur, disk'[dir])
        /\ disk' = [disk EXCEPT ![dir] = Loaded(cur, @)] \/ disk' = disk
    BY <1>2 DEF Load, TypeOK
  <2>2. FilesAreOwn'
    <3>1. CASE disk' = disk
      BY <2>1, <3>1 DEF OwnInv, FilesAreOwn, Apart
    <3>2. CASE disk' = [disk EXCEPT ![dir] = Loaded(cur, @)]
      BY <2>1, <3>2, LoadedOwn DEF TypeOK
    <3> QED  BY <2>1, <3>1, <3>2
  <2>3. disk'[dir] \in [Files -> SUBSET Turns]
    BY <2>1, LoadedTyped DEF TypeOK
  <2>4. Apart(cur) => disk'[dir][OwnFile(cur)] \subseteq told[cur]
    BY <2>1, <2>2 DEF FilesAreOwn, Apart, OwnFile, TypeOK
  <2>5. \A u \in Sessions : Apart(u) => mem'[u] \subseteq told[u]
    BY <2>1, <2>3, <2>4, OpensOwn
  <2>6. HistoryIsOwn'
    BY <2>1, <2>5 DEF OwnInv, HistoryIsOwn, Apart
  <2> QED  BY <2>1, <2>2, <2>6 DEF OwnInv, FileWritten
<1>3. CASE RunEnds
  <2>1. /\ Extends(cur, turn) /\ cur \in Sessions /\ turn \in Turns
        /\ UNCHANGED <<suffix, redis, dir, cur>>
    BY <1>3 DEF RunEnds, TypeOK, BusyHasTurn
  <2> QED  BY <2>1, ExtendsOwn DEF OwnInv, FileWritten, OwnFile
<1>4. CASE RunFails
  BY <1>0, <1>4 DEF RunFails, Idle, engine, FileWritten
<1>5. CASE Publish
  <2>1. FileWritten'
    BY <1>5 DEF Publish, Idle, OwnInv, FileWritten, OwnFile
  <2> QED  BY <1>0, <1>5, <2>1 DEF Publish, engine
<1>6. CASE Save
  <2>1. pc = "save" /\ pc' = "idle" /\ UNCHANGED <<suffix, disk, mem, told>> /\ cur \in Sessions
    BY <1>6 DEF Save, Idle, engine, TypeOK
  <2>2. CASE redis' = redis
    BY <1>0, <2>1, <2>2 DEF FileWritten
  <2>3. CASE \E state \in ToSave(cur) : redis' = [redis EXCEPT ![Key(cur)] = state]
    <3>1. PICK state \in ToSave(cur) : redis' = [redis EXCEPT ![Key(cur)] = state]
      BY <2>3
    <3>2. ASSUME NEW s \in Sessions, Apart(s)  PROVE redis'[Key(s)] \subseteq told[s]
      <4>1. redis[Key(s)] \subseteq told[s] /\ Key(s) \in Keys
        BY <3>2, NamesTyped DEF OwnInv, HistoryIsOwn
      <4>2. CASE s = cur
        BY <2>1, <3>1, <3>2, <4>1, <4>2, ToSaveOwn DEF TypeOK
      <4>3. CASE s # cur
        <5>1. Key(s) # Key(cur)
          BY <2>1, <3>2, <4>3, ApartNames
        <5> QED  BY <3>1, <4>1, <5>1 DEF TypeOK
      <4> QED  BY <4>2, <4>3
    <3> QED  BY <2>1, <3>2 DEF OwnInv, HistoryIsOwn, FilesAreOwn, FileWritten, Apart
  <2> QED  BY <1>6, <2>2, <2>3 DEF Save
<1>7. ASSUME NEW k \in Asides, NEW s \in Sessions, BeginAside(k, s)  PROVE OwnInv'
  <2>1. Opens(s, disk[dir]) /\ UNCHANGED <<suffix, redis, disk, dir, told, pc, cur>>
    BY <1>7 DEF BeginAside
  <2>2. \A u \in Sessions : Apart(u) => mem'[u] \subseteq told[u]
    BY <2>1, OpensOwn DEF TypeOK, OwnInv, FilesAreOwn, OwnFile
  <2> QED  BY <2>1, <2>2 DEF OwnInv, HistoryIsOwn, FilesAreOwn, FileWritten, Apart, OwnFile
<1>8. ASSUME NEW t \in Turns, NEW s \in Sessions, EndAside(t, s)  PROVE OwnInv'
  <2>1. Extends(s, t) /\ UNCHANGED <<suffix, redis, dir, pc, cur>>
    BY <1>8 DEF EndAside
  <2> QED  BY <2>1, ExtendsOwn DEF OwnInv, FileWritten, OwnFile, TypeOK
<1>9. ASSUME NEW t \in Turns, NEW s \in Sessions, FailAside(t, s)  PROVE OwnInv'
  <2>1. UNCHANGED <<suffix, redis, disk, mem, told, dir, pc, cur>>
    BY <1>9 DEF FailAside, engine
  <2> QED  BY <1>0, <2>1 DEF OwnInv, FileWritten, OwnFile
<1>10. ASSUME NEW d \in Dirs, Restart(d)  PROVE OwnInv'
  BY <1>10 DEF Restart, Idle, OwnInv, HistoryIsOwn, FilesAreOwn, FileWritten, Apart
<1>11. CASE UNCHANGED vars
  <2>1. UNCHANGED <<suffix, redis, disk, mem, told, dir, pc, cur>>
    BY <1>11 DEF vars, engine
  <2> QED  BY <1>0, <2>1 DEF OwnInv, FileWritten, OwnFile
<1> HIDE DEF TypeInv
<1> QED
  BY EveryStep, <1>1, <1>2, <1>3, <1>4, <1>5, <1>6, <1>7, <1>8, <1>9, <1>10, <1>11

LEMMA OwnAlways == Spec => []OwnInv
  BY OwnInit, OwnStep, TypeAlways, PTL DEF Spec

\* What nanobot remembers of a session, and what is saved under its key, are turns
\* of this session, with turns of others beside it, failed calls and restarts with
\* other workspaces (HistoryIsOwn).
THEOREM SessionsShareNoMemory == Spec => []HistoryIsOwn
<1>1. OwnInv => HistoryIsOwn
  BY DEF OwnInv
<1> QED  BY <1>1, OwnAlways, PTL

(***************************************************************************)
(* Saved conversations.  A session that nanobot has in memory holds what   *)
(* Redis has of it, and the listener saves what is in memory, which is     *)
(* what its file holds.  A session in memory that was never loaded is one  *)
(* only if the file happened to be as new, as it is if nothing was upset.  *)
(***************************************************************************)
BusyIsOpen == pc \in {"run", "publish", "save"} => cur \in open

\* The listener's turns of s go by the file that the load writes.
Filed(s) == suffix = ".json" /\ Apart(s)

MemoryHasSaved ==
  \A s \in open : Filed(s) /\ (s \notin unloaded \/ ~ upset) => redis[Key(s)] \subseteq mem[s]

FileIsMemory ==
  pc \in {"publish", "save"} /\ Filed(cur) => disk[dir][OwnFile(cur)] = mem[cur]

SeenInv == BusyIsOpen /\ MemoryHasSaved /\ FileIsMemory

\* With its file in place, a session is saved as it is in memory.
LEMMA SavesMemory ==
  ASSUME OwnInv, SeenInv, pc = "save", Filed(cur)
  PROVE  ToSave(cur) = {mem[cur]}
  BY DEF OwnInv, SeenInv, FileWritten, FileIsMemory, Filed, OwnFile, ToSave

\* A session that is opened after its load, or is open already, has what Redis has.
LEMMA LoadSees ==
  ASSUME TypeInv, SeenInv, Load
  PROVE  MemoryHasSaved'
<1> SUFFICES ASSUME NEW s \in open', Filed(s), s \notin unloaded' \/ ~ upset'
             PROVE  redis[Key(s)] \subseteq mem'[s]
  BY DEF Load, MemoryHasSaved, Filed, Apart
<1>1. /\ Opens(cur, disk'[dir]) /\ cur \in Sessions /\ dir \in Dirs
      /\ open' = open \cup {cur}
  BY DEF Load, TypeInv, TypeOK, Opens
<1>2. CASE s \in open
  <2>1. s \notin unloaded \/ ~ upset
    BY DEF Load, Fault, NoFault
  <2>2. mem'[s] = mem[s]
    BY <1>1, <1>2 DEF Opens, TypeInv, TypeOK
  <2> QED  BY <1>2, <2>1, <2>2 DEF SeenInv, MemoryHasSaved
<1>3. CASE s \notin open
  <2>1. s = cur /\ mem'[s] = disk'[dir][OwnFile(s)]
    BY <1>1, <1>3 DEF Opens, TypeInv, TypeOK
  <2>2. disk' = [disk EXCEPT ![dir] = Loaded(cur, @)]
    BY <1>3, <2>1 DEF Load, Fault
  <2>3. disk'[dir] = Loaded(s, disk[dir])
    BY <1>1, <2>1, <2>2 DEF TypeInv, TypeOK
  <2>4. OwnFile(s) = <<SafeName(s), ".json">> /\ OwnFile(s) \in Files
    BY <1>1, <2>1, NamesTyped DEF Filed, OwnFile, TypeInv
  <2>5. disk[dir] \in [Files -> SUBSET Turns]
    BY <1>1 DEF TypeInv, TypeOK
  <2> QED  BY <2>1, <2>3, <2>4, <2>5 DEF Loaded
<1> QED  BY <1>2, <1>3

\* A turn that ends leaves its session's file as its memory.
LEMMA ExtendsSeen ==
  ASSUME TypeOK, SeenInv, NEW s \in Sessions, NEW t \in Turns, Extends(s, t),
         UNCHANGED <<suffix, redis, dir, unloaded, upset>>
  PROVE  /\ MemoryHasSaved'
         /\ disk'[dir][OwnFile(s)] = mem'[s]
         /\ \A u \in Sessions : Filed(u) /\ u # s =>
              disk'[dir][OwnFile(u)] = disk[dir][OwnFile(u)] /\ mem'[u] = mem[u]
<1>1. /\ mem' = [mem EXCEPT ![s] = @ \cup {t}] /\ open' = open
      /\ disk' = [disk EXCEPT ![dir][OwnFile(s)] = mem'[s]]
      /\ \A u : Filed(u)' <=> Filed(u)
  BY DEF Extends, Filed, Apart
<1>2. OwnFile(s) \in Files /\ dir \in Dirs
  BY NamesTyped DEF TypeOK
<1>3. MemoryHasSaved'
  BY <1>1 DEF SeenInv, MemoryHasSaved, TypeOK
<1>4. disk'[dir][OwnFile(s)] = mem'[s]
  BY <1>1, <1>2 DEF TypeOK
<1>5. ASSUME NEW u \in Sessions, Filed(u), u # s
      PROVE  disk'[dir][OwnFile(u)] = disk[dir][OwnFile(u)] /\ mem'[u] = mem[u]
  <2>1. OwnFile(u) # OwnFile(s) /\ OwnFile(u) \in Files
    BY <1>5, ApartNames, NamesTyped DEF Filed, OwnFile
  <2> QED  BY <1>1, <1>2, <1>5, <2>1 DEF TypeOK
<1> QED  BY <1>3, <1>4, <1>5

LEMMA SeenStep ==
  ASSUME TypeInv, OwnInv, SeenInv, [Next]_vars
  PROVE  SeenInv'
<1>0. ASSUME UNCHANGED <<suffix, redis, open, mem, unloaded>>, upset => upset'
      PROVE  MemoryHasSaved'
  BY <1>0 DEF SeenInv, MemoryHasSaved, Filed, Apart
<1> USE DEF TypeInv
<1>1. ASSUME NEW s \in Sessions, Take(s)  PROVE SeenInv'
  BY <1>0, <1>1 DEF Take, engine, SeenInv, BusyIsOpen, FileIsMemory
<1>2. CASE Load
  <2>1. pc' = "run" /\ cur' = cur /\ open' = open \cup {cur}
    BY <1>2 DEF Load, Opens
  <2> QED  BY <1>2, <2>1, LoadSees DEF SeenInv, BusyIsOpen, FileIsMemory
<1>3. CASE RunEnds
  <2>1. /\ Extends(cur, turn) /\ cur \in Sessions /\ turn \in Turns /\ cur \in open
        /\ UNCHANGED <<suffix, redis, dir, unloaded, upset, cur>> /\ open' = open
    BY <1>3 DEF RunEnds, TypeOK, BusyHasTurn, SeenInv, BusyIsOpen, Extends
  <2> QED  BY <2>1, ExtendsSeen DEF SeenInv, BusyIsOpen, FileIsMemory, OwnFile
<1>4. CASE RunFails
  BY <1>0, <1>4 DEF RunFails, Idle, engine, SeenInv, BusyIsOpen, FileIsMemory
<1>5. CASE Publish
  <2>1. /\ pc = "publish" /\ UNCHANGED <<suffix, redis, disk, dir, open, mem, unloaded>>
        /\ upset => upset'
        /\ pc' = "idle" \/ (pc' = "save" /\ cur' = cur)
    BY <1>5 DEF Publish, Idle, engine, NoFault, Fault
  <2>2. MemoryHasSaved'
    BY <1>0, <2>1
  <2> QED  BY <2>1, <2>2 DEF SeenInv, BusyIsOpen, FileIsMemory, Filed, Apart, OwnFile
<1>6. CASE Save
  <2>1. /\ pc = "save" /\ pc' = "idle" /\ UNCHANGED <<suffix, open, mem, unloaded>>
        /\ cur \in Sessions
    BY <1>6 DEF Save, Idle, engine, TypeOK
  <2>2. upset => upset'
    BY <1>6 DEF Save, NoFault, Fault
  <2>3. CASE redis' = redis
    <3>1. MemoryHasSaved'
      BY <1>0, <2>2, <2>1, <2>3
    <3> QED  BY <2>1, <3>1 DEF SeenInv, BusyIsOpen, FileIsMemory
  <2>4. CASE \E state \in ToSave(cur) : redis' = [redis EXCEPT ![Key(cur)] = state]
    <3>1. PICK state \in ToSave(cur) : redis' = [redis EXCEPT ![Key(cur)] = state]
      BY <2>4
    <3>2. ASSUME NEW s \in open, Filed(s), s \notin unloaded \/ ~ upset
          PROVE  redis'[Key(s)] \subseteq mem[s]
      <4>1. s \in Sessions /\ Key(s) \in Keys /\ redis[Key(s)] \subseteq mem[s]
        BY <3>2, NamesTyped DEF TypeOK, SeenInv, MemoryHasSaved
      <4>2. CASE s = cur
        BY <2>1, <3>1, <3>2, <4>1, <4>2, SavesMemory DEF TypeOK
      <4>3. CASE s # cur
        <5>1. Key(s) # Key(cur)
          <6>1. Apart(s)
            BY <3>2 DEF Filed
          <6> QED  BY <2>1, <4>1, <4>3, <6>1, ApartNames
        <5> QED  BY <3>1, <4>1, <5>1 DEF TypeOK
      <4> QED  BY <4>2, <4>3
    <3>3. MemoryHasSaved'
      <4>1. \A s : Filed(s)' <=> Filed(s)
        BY <2>1 DEF Filed, Apart
      <4> SUFFICES ASSUME NEW s \in open, Filed(s), s \notin unloaded \/ ~ upset'
                   PROVE  redis'[Key(s)] \subseteq mem[s]
        BY <2>1, <4>1 DEF MemoryHasSaved
      <4> QED  BY <2>2, <3>2
    <3> QED  BY <2>1, <3>3 DEF SeenInv, BusyIsOpen, FileIsMemory
  <2> QED  BY <1>6, <2>3, <2>4 DEF Save
<1>7. ASSUME NEW k \in Asides, NEW s \in Sessions, BeginAside(k, s)  PROVE SeenInv'
  <2>1. /\ UNCHANGED <<suffix, redis, disk, dir, pc, cur>>
        /\ open' = open \cup {s}
        /\ mem' = IF s \in open THEN mem ELSE [mem EXCEPT ![s] = disk[dir][OwnFile(s)]]
        /\ unloaded' = IF s \in open THEN unloaded ELSE unloaded \cup {s}
        /\ s \notin open /\ ~ upset' => redis[Key(s)] \subseteq disk[dir][OwnFile(s)]
        /\ upset => upset'
    BY <1>7 DEF BeginAside, Opens
  <2>2. \A u \in open : mem'[u] = mem[u]
    BY <2>1 DEF TypeOK
  <2>3. MemoryHasSaved'
    <3> SUFFICES ASSUME NEW u \in open', Filed(u), u \notin unloaded' \/ ~ upset'
                 PROVE  redis[Key(u)] \subseteq mem'[u]
      BY <2>1 DEF MemoryHasSaved, Filed, Apart
    <3>1. CASE u \in open
      BY <2>1, <2>2, <3>1 DEF SeenInv, MemoryHasSaved
    <3>2. CASE u \notin open
      BY <2>1, <3>2 DEF TypeOK
    <3> QED  BY <3>1, <3>2
  <2>4. BusyIsOpen'
    BY <2>1 DEF SeenInv, BusyIsOpen
  <2>5. FileIsMemory'
    BY <2>1, <2>2 DEF SeenInv, BusyIsOpen, FileIsMemory, Filed, Apart, OwnFile
  <2> QED  BY <2>3, <2>4, <2>5 DEF SeenInv
<1>8. ASSUME NEW t \in Turns, NEW s \in Sessions, EndAside(t, s)  PROVE SeenInv'
  <2>1. /\ Extends(s, t) /\ UNCHANGED <<suffix, redis, dir, unloaded, upset, pc, cur>>
        /\ open' = open /\ cur \in Sessions
    BY <1>8 DEF EndAside, Extends, TypeOK
  <2>2. FileIsMemory'
    <3> SUFFICES ASSUME pc \in {"publish", "save"}, Filed(cur)
                 PROVE  disk'[dir][OwnFile(cur)] = mem'[cur]
      BY <2>1 DEF FileIsMemory, Filed, Apart, OwnFile
    <3> QED  BY <2>1, ExtendsSeen DEF SeenInv, FileIsMemory
  <2> QED  BY <2>1, <2>2, ExtendsSeen DEF SeenInv, BusyIsOpen
<1>9. ASSUME NEW t \in Turns, NEW s \in Sessions, FailAside(t, s)  PROVE SeenInv'
  <2>1. UNCHANGED <<suffix, redis, disk, dir, open, mem, unloaded, upset, pc, cur>>
    BY <1>9 DEF FailAside, engine
  <2> QED  BY <1>0, <2>1 DEF SeenInv, BusyIsOpen, FileIsMemory, Filed, Apart, OwnFile
<1>10. ASSUME NEW d \in Dirs, Restart(d)  PROVE SeenInv'
  BY <1>10 DEF Restart, Idle, SeenInv, BusyIsOpen, MemoryHasSaved, FileIsMemory
<1>11. CASE UNCHANGED vars
  <2>1. UNCHANGED <<suffix, redis, disk, dir, open, mem, unloaded, upset, pc, cur>>
    BY <1>11 DEF vars, engine
  <2> QED  BY <1>0, <2>1 DEF SeenInv, BusyIsOpen, FileIsMemory, Filed, Apart, OwnFile
<1> HIDE DEF TypeInv
<1> QED
  BY EveryStep, <1>1, <1>2, <1>3, <1>4, <1>5, <1>6, <1>7, <1>8, <1>9, <1>10, <1>11

LEMMA SeenAlways == Spec => []SeenInv
<1>1. Init => SeenInv
  BY DEF Init, SeenInv, BusyIsOpen, MemoryHasSaved, FileIsMemory
<1> QED  BY <1>1, SeenStep, OwnAlways, TypeAlways, PTL DEF Spec

\* A turn of the listener sees every turn that Redis had of its session: in a process
\* just started with any workspace, or with the session in memory (TurnSeesSaved).
THEOREM TurnsSeeWhatWasSaved == Spec => []TurnSeesSaved
<1>1. SeenInv => TurnSeesSaved
  BY DEF SeenInv, BusyIsOpen, MemoryHasSaved, Filed, TurnSeesSaved, Sound
<1> QED  BY <1>1, SeenAlways, PTL

\* No save replaces a conversation in Redis by one that lacks one of its turns, unless
\* the session was in memory unloaded (SavedHistoryKept).
THEOREM SavedHistoryAlwaysKept == Spec => SavedHistoryKept
<1> DEFINE Kept == \A s \in Sessions : Sound(s) => redis[Key(s)] \subseteq redis'[Key(s)]
<1>1. ASSUME TypeInv, OwnInv, SeenInv, [Next]_vars
      PROVE  Kept
  <2>1. CASE redis' = redis
    BY <2>1
  <2>2. CASE Save
    <3> SUFFICES ASSUME NEW s \in Sessions, Sound(s)
                 PROVE  redis[Key(s)] \subseteq redis'[Key(s)]
      OBVIOUS
    <3>0. Key(s) \in Keys
      BY <1>1, NamesTyped DEF TypeInv
    <3>1. pc = "save" /\ cur \in Sessions /\ Filed(s) /\ s \notin unloaded
      BY <1>1, <2>2 DEF Save, TypeInv, TypeOK, Sound, Filed
    <3>2. ASSUME NEW state \in ToSave(cur), redis' = [redis EXCEPT ![Key(cur)] = state]
          PROVE  redis[Key(s)] \subseteq redis'[Key(s)]
      <4>1. CASE s = cur
        <5>1. state = mem[s] /\ redis[Key(s)] \subseteq mem[s]
          BY <1>1, <3>1, <3>2, <4>1, SavesMemory DEF SeenInv, BusyIsOpen, MemoryHasSaved
        <5> QED  BY <1>1, <3>0, <3>2, <4>1, <5>1 DEF TypeInv, TypeOK
      <4>2. CASE s # cur
        <5>1. Key(s) # Key(cur)
          BY <3>1, <4>2, ApartNames DEF Filed
        <5> QED  BY <1>1, <3>0, <3>2, <5>1 DEF TypeInv, TypeOK
      <4> QED  BY <4>1, <4>2
    <3> QED  BY <2>2, <3>2 DEF Save
  <2>3. redis' = redis \/ Save
    BY <1>1 DEF Next, Take, Load, RunEnds, RunFails, Publish, BeginAside, EndAside, FailAside,
                Restart, vars
  <2> QED  BY <2>1, <2>2, <2>3
<1>2. TypeInv /\ OwnInv /\ SeenInv /\ [Next]_vars => [Kept]_vars
  BY <1>1
<1> QED  BY <1>2, TypeAlways, OwnAlways, SeenAlways, PTL DEF Spec, SavedHistoryKept

(***************************************************************************)
(* The listener's turns survive.  While nothing is upset, a turn that     *)
(* ended well and was not beside the listener is in Redis, or is the one   *)
(* that the listener is about to save.                                     *)
(***************************************************************************)
AsideIsBeside == \A t \in Turns, s \in Sessions : <<t, s>> \in aside => t \in beside

TurnInMemory == pc \in {"publish", "save"} => turn \in mem[cur]

\* The turn of s that is yet to be saved.
Unsaved(s) == IF s = cur /\ pc \in {"publish", "save"} THEN {turn} ELSE {}

SavedSoon ==
  ~ upset => \A s \in Sessions : Filed(s) => told[s] \ beside \subseteq redis[Key(s)] \cup Unsaved(s)

SurviveInv == AsideIsBeside /\ TurnInMemory /\ SavedSoon

LEMMA SurviveStep ==
  ASSUME TypeInv, OwnInv, SeenInv, SurviveInv, [Next]_vars
  PROVE  SurviveInv'
<1>0. ASSUME UNCHANGED <<suffix, redis, told, beside>>, upset => upset',
             \A s \in Sessions : Unsaved(s) \subseteq Unsaved(s)'
      PROVE  SavedSoon'
  <2>1. \A s : Filed(s)' <=> Filed(s)
    BY <1>0 DEF Filed, Apart
  <2>2. CASE upset'
    BY <2>2 DEF SavedSoon
  <2>3. CASE ~ upset'
    <3>1. ~ upset
      BY <1>0, <2>3
    <3> QED  BY <1>0, <2>1, <3>1 DEF SurviveInv, SavedSoon
  <2> QED  BY <2>2, <2>3
<1> USE DEF TypeInv
<1>1. ASSUME NEW s \in Sessions, Take(s)  PROVE SurviveInv'
  <2>1. /\ pc = "idle" /\ pc' = "load"
        /\ UNCHANGED <<suffix, redis, told, mem, aside, beside, upset>>
    BY <1>1 DEF Take, engine
  <2>2. SavedSoon'
    BY <1>0, <2>1 DEF Unsaved
  <2> QED  BY <2>1, <2>2 DEF SurviveInv, AsideIsBeside, TurnInMemory
<1>2. CASE Load
  <2>1. /\ pc = "load" /\ pc' = "run"
        /\ UNCHANGED <<suffix, redis, told, aside, beside>>
    BY <1>2 DEF Load
  <2>2. upset => upset'
    BY <1>2 DEF Load, Fault, NoFault
  <2>3. SavedSoon'
    BY <1>0, <2>1, <2>2 DEF Unsaved
  <2> QED  BY <2>1, <2>3 DEF SurviveInv, AsideIsBeside, TurnInMemory
<1>3. CASE RunEnds
  <2>1. /\ pc = "run" /\ pc' = "publish" /\ cur \in Sessions
        /\ UNCHANGED <<suffix, redis, aside, beside, cur, turn>>
        /\ mem' = [mem EXCEPT ![cur] = @ \cup {turn}]
        /\ told' = [told EXCEPT ![cur] = @ \cup {turn}]
    BY <1>3 DEF RunEnds, Extends, TypeOK
  <2>2. upset' = upset
    BY <1>3 DEF RunEnds
  <2>3. \A s \in Sessions : told'[s] \subseteq told[s] \cup Unsaved(s)'
    BY <2>1 DEF Unsaved, TypeOK
  <2>4. \A s : Unsaved(s) = {} /\ (Filed(s)' <=> Filed(s))
    BY <2>1 DEF Unsaved, Filed, Apart
  <2>5. SavedSoon'
    BY <2>1, <2>2, <2>3, <2>4 DEF SurviveInv, SavedSoon
  <2> QED  BY <2>1, <2>5 DEF SurviveInv, AsideIsBeside, TurnInMemory, TypeOK
<1>4. CASE RunFails
  <2>1. /\ pc = "run" /\ pc' = "idle"
        /\ UNCHANGED <<suffix, redis, told, aside, beside, upset>>
    BY <1>4 DEF RunFails, Idle, engine
  <2>2. SavedSoon'
    BY <1>0, <2>1 DEF Unsaved
  <2> QED  BY <2>1, <2>2 DEF SurviveInv, AsideIsBeside, TurnInMemory
<1>5. CASE Publish
  <2>1. pc = "publish" /\ UNCHANGED <<suffix, redis, told, mem, aside, beside>>
    BY <1>5 DEF Publish, engine
  <2>2. CASE pc' = "save" /\ NoFault /\ UNCHANGED <<cur, turn>>
    <3>1. SavedSoon'
      BY <1>0, <2>1, <2>2 DEF Unsaved, NoFault
    <3> QED  BY <2>1, <2>2, <3>1 DEF SurviveInv, AsideIsBeside, TurnInMemory
  <2>3. CASE Idle /\ Fault
    BY <2>1, <2>3 DEF Idle, Fault, SurviveInv, AsideIsBeside, TurnInMemory, SavedSoon
  <2> QED  BY <1>5, <2>2, <2>3 DEF Publish
<1>6. CASE Save
  <2>1. /\ pc = "save" /\ pc' = "idle" /\ cur \in Sessions
        /\ UNCHANGED <<suffix, told, aside, beside>>
    BY <1>6 DEF Save, Idle, engine, TypeOK
  <2>2. upset => upset'
    BY <1>6 DEF Save, NoFault, Fault
  <2>3. AsideIsBeside' /\ TurnInMemory'
    BY <2>1 DEF SurviveInv, AsideIsBeside, TurnInMemory
  <2>4. ASSUME NEW s \in Sessions, Filed(s), ~ upset'
        PROVE  told[s] \ beside \subseteq redis'[Key(s)]
    <3>1. ~ upset /\ told[s] \ beside \subseteq redis[Key(s)] \cup Unsaved(s)
      BY <2>2, <2>4 DEF SurviveInv, SavedSoon
    <3>2. Key(s) \in Keys /\ Key(cur) \in Keys
      BY <2>1, NamesTyped
    <3>3. ~ Fault
      BY <2>4 DEF Fault
    <3>4. CASE s = cur
      <4>1. ToSave(s) = {mem[s]} /\ cur \in open
        BY <2>1, <2>4, <3>4, SavesMemory DEF SeenInv, BusyIsOpen
      <4>2. redis' = [redis EXCEPT ![Key(s)] = mem[s]]
        BY <1>6, <3>3, <3>4, <4>1 DEF Save
      <4>3. redis[Key(s)] \subseteq mem[s] /\ turn \in mem[s]
        BY <2>1, <2>4, <3>1, <3>4, <4>1 DEF SeenInv, MemoryHasSaved, SurviveInv, TurnInMemory
      <4> QED  BY <3>1, <3>2, <3>4, <4>2, <4>3 DEF Unsaved, TypeOK
    <3>5. CASE s # cur
      <4>1. Key(s) # Key(cur)
        <5>1. Apart(s)
          BY <2>4 DEF Filed
        <5> QED  BY <2>1, <3>5, <5>1, ApartNames
      <4>2. redis' = redis \/ \E state \in ToSave(cur) : redis' = [redis EXCEPT ![Key(cur)] = state]
        BY <1>6 DEF Save
      <4>3. redis'[Key(s)] = redis[Key(s)]
        BY <3>2, <4>1, <4>2 DEF TypeOK
      <4> QED  BY <3>1, <3>5, <4>3 DEF Unsaved
    <3> QED  BY <3>4, <3>5
  <2>5. \A s : Filed(s)' <=> Filed(s)
    BY <2>1 DEF Filed, Apart
  <2>6. SavedSoon'
    BY <2>1, <2>4, <2>5 DEF SavedSoon, Unsaved
  <2> QED  BY <2>3, <2>6 DEF SurviveInv
<1>7. ASSUME NEW k \in Asides, NEW s \in Sessions, BeginAside(k, s)  PROVE SurviveInv'
  <2>1. /\ UNCHANGED <<suffix, redis, told, pc, cur, turn>>
        /\ aside' = aside \cup {<<turns', s>>} /\ beside' = beside \cup {turns'}
        /\ mem' = IF s \in open THEN mem ELSE [mem EXCEPT ![s] = disk[dir][OwnFile(s)]]
    BY <1>7 DEF BeginAside, Opens
  <2>2. upset => upset'
    BY <1>7 DEF BeginAside
  <2>3. AsideIsBeside'
    BY <2>1 DEF SurviveInv, AsideIsBeside
  <2>4. TurnInMemory'
    <3> SUFFICES ASSUME pc \in {"publish", "save"} PROVE turn \in mem'[cur]
      BY <2>1 DEF TurnInMemory
    <3>1. cur \in open /\ turn \in mem[cur] /\ cur \in Sessions
      BY DEF SeenInv, BusyIsOpen, SurviveInv, TurnInMemory, TypeOK
    <3> QED  BY <2>1, <3>1 DEF TypeOK
  <2>5. \A u : Unsaved(u)' = Unsaved(u) /\ (Filed(u)' <=> Filed(u))
    BY <2>1 DEF Unsaved, Filed, Apart
  <2>6. SavedSoon'
    <3> SUFFICES ASSUME ~ upset', NEW u \in Sessions, Filed(u)
                 PROVE  told[u] \ beside' \subseteq redis[Key(u)] \cup Unsaved(u)
      BY <2>1, <2>5 DEF SavedSoon
    <3>1. told[u] \ beside \subseteq redis[Key(u)] \cup Unsaved(u)
      BY <2>2 DEF SurviveInv, SavedSoon
    <3> QED  BY <2>1, <3>1
  <2> QED  BY <2>3, <2>4, <2>6 DEF SurviveInv
<1>8. ASSUME NEW t \in Turns, NEW s \in Sessions, EndAside(t, s)  PROVE SurviveInv'
  <2>1. /\ <<t, s>> \in aside /\ aside' = aside \ {<<t, s>>}
        /\ UNCHANGED <<suffix, redis, pc, cur, turn, beside>>
        /\ mem' = [mem EXCEPT ![s] = @ \cup {t}]
        /\ told' = [told EXCEPT ![s] = @ \cup {t}]
    BY <1>8 DEF EndAside, Extends
  <2>2. upset' = upset
    BY <1>8 DEF EndAside
  <2>3. t \in beside /\ AsideIsBeside'
    BY <2>1 DEF SurviveInv, AsideIsBeside
  <2>4. TurnInMemory'
    BY <2>1 DEF SurviveInv, TurnInMemory, TypeOK
  <2>5. \A u : Unsaved(u)' = Unsaved(u) /\ (Filed(u)' <=> Filed(u))
    BY <2>1 DEF Unsaved, Filed, Apart
  <2>6. \A u \in Sessions : told'[u] \ beside' = told[u] \ beside
    BY <2>1, <2>3 DEF TypeOK
  <2>7. SavedSoon'
    BY <2>1, <2>2, <2>5, <2>6 DEF SurviveInv, SavedSoon
  <2> QED  BY <2>3, <2>4, <2>7 DEF SurviveInv
<1>9. ASSUME NEW t \in Turns, NEW s \in Sessions, FailAside(t, s)  PROVE SurviveInv'
  <2>1. /\ aside' = aside \ {<<t, s>>}
        /\ UNCHANGED <<suffix, redis, told, mem, pc, cur, turn, beside, upset>>
    BY <1>9 DEF FailAside, engine
  <2>2. SavedSoon'
    BY <1>0, <2>1 DEF Unsaved
  <2> QED  BY <2>1, <2>2 DEF SurviveInv, AsideIsBeside, TurnInMemory
<1>10. ASSUME NEW d \in Dirs, Restart(d)  PROVE SurviveInv'
  <2>1. pc' = "idle" /\ aside' = {} /\ UNCHANGED <<suffix, redis, told, beside>>
    BY <1>10 DEF Restart, Idle
  <2>2. ASSUME ~ upset'  PROVE ~ upset /\ pc = "idle"
    BY <1>10, <2>2 DEF Restart
  <2>3. \A s : Filed(s)' <=> Filed(s)
    BY <2>1 DEF Filed, Apart
  <2>4. SavedSoon'
    <3> SUFFICES ASSUME ~ upset', NEW s \in Sessions, Filed(s)
                 PROVE  told[s] \ beside \subseteq redis[Key(s)]
      BY <2>1, <2>3 DEF SavedSoon
    <3> QED  BY <2>2 DEF SurviveInv, SavedSoon, Unsaved
  <2> QED  BY <2>1, <2>4 DEF SurviveInv, AsideIsBeside, TurnInMemory
<1>11. CASE UNCHANGED vars
  <2>1. UNCHANGED <<suffix, redis, told, mem, aside, pc, cur, turn, beside, upset>>
    BY <1>11 DEF vars, engine
  <2>2. SavedSoon'
    BY <1>0, <2>1 DEF Unsaved
  <2> QED  BY <2>1, <2>2 DEF SurviveInv, AsideIsBeside, TurnInMemory
<1> HIDE DEF TypeInv
<1> QED
  BY EveryStep, <1>1, <1>2, <1>3, <1>4, <1>5, <1>6, <1>7, <1>8, <1>9, <1>10, <1>11

\* A turn of the listener that ended well is there again when its session has its
\* next turn, after any number of restarts, while no call fails and no turn is cut
\* short (ListenerTurnsSurvive).
THEOREM ListenerTurnsAlwaysSurvive == Spec => []ListenerTurnsSurvive
<1>1. Init => SurviveInv
  BY DEF Init, SurviveInv, AsideIsBeside, TurnInMemory, SavedSoon
<1>2. TypeInv /\ SeenInv /\ SurviveInv => ListenerTurnsSurvive
  <2> SUFFICES ASSUME TypeInv, SeenInv, SurviveInv, pc = "run", Sound(cur), ~ upset
               PROVE  told[cur] \ mem[cur] \subseteq beside
    BY DEF ListenerTurnsSurvive
  <2>1. cur \in Sessions /\ Filed(cur) /\ cur \in open /\ cur \notin unloaded
    BY DEF TypeInv, TypeOK, Sound, Filed, SeenInv, BusyIsOpen
  <2>2. redis[Key(cur)] \subseteq mem[cur]
    BY <2>1 DEF SeenInv, MemoryHasSaved
  <2>3. told[cur] \ beside \subseteq redis[Key(cur)]
    BY <2>1 DEF SurviveInv, SavedSoon, Unsaved
  <2> QED  BY <2>2, <2>3
<1> QED
  BY <1>1, <1>2, SurviveStep, TypeAlways, OwnAlways, SeenAlways, PTL DEF Spec
=============================================================================
