----------------------------- MODULE PlayerIds -----------------------------
(***************************************************************************)
(* The creation of players: C2SEnterGameRequestHandler draws an id from    *)
(* the counter of the Global row, adds a row for it to the Players table   *)
(* (DbTable, whose keys are the ids) and enters the player into the maps   *)
(* by id and by unique id.  DBC.Save writes the Global row before the      *)
(* Players table; a restart reads both back and fills the maps.  No lock   *)
(* spans the steps of a handler or of a save.                              *)
(*                                                                         *)
(* An id is the number drawn.  In the code GeneratePlayerId puts the id of *)
(* the server above its 20 bits, which tells servers apart and, as long as *)
(* no server draws 2^20 ids, changes nothing between those of one server.  *)
(***************************************************************************)
EXTENDS DbTable

CONSTANTS
  Uids,     \* unique ids of accounts
  MaxId,    \* bound on the ids drawn
  NoUid,    \* no player in a map, no row
  Unnamed   \* the empty unique id of a row that was not given one yet

ASSUME IdsAssumption == MaxId \in Nat /\ Keys = 1..MaxId
ASSUME UidsAssumption == NoUid # Unnamed /\ {NoUid, Unnamed} \cap Uids = {}

VARIABLES
  counter,        \* m_CurrentPlayerId
  counterChanged, \* m_CurrentPlayerId_changed
  counterDb,      \* CurrentPlayerId in MySQL
  saving,         \* the pass each saver is writing the Global row for
  value,          \* the counter in that UPDATE, 0 when there is none
  enter,          \* each handler: its place, the unique id and the id drawn
  owner,          \* whose the rows of m_rows and of MySQL are
  newOwner,       \* whose the rows of m_new_rows are
  id2player,      \* PlayerManager.id2players, as unique ids
  uid2player      \* PlayerManager.uid2players, as ids, 0 for none

global  == <<counter, counterChanged, counterDb, saving, value>>
players == <<enter, owner, newOwner, id2player, uid2player>>
table   == <<memory, db, client, control, stmt, failed, failures, crashes>>
allVars == <<table, global, players>>

Idle   == [step |-> "idle", uid |-> NoUid, id |-> 0]
Steps  == {"idle", "next", "flag", "add", "uid", "idMap", "uidMap"}
Enters == [step : Steps, uid : Uids \cup {NoUid}, id : 0..MaxId]

IdsInit ==
  /\ Init
  /\ counter = 0 /\ counterDb = 0 /\ counterChanged = FALSE
  /\ saving = [s \in Savers |-> "none"]
  /\ value = [s \in Savers |-> 0]
  /\ enter = [c \in Clients |-> Idle]
  /\ owner = [k \in Keys |-> NoUid] /\ newOwner = [k \in Keys |-> NoUid]
  /\ id2player = [k \in Keys |-> NoUid]
  /\ uid2player = [u \in Uids |-> 0]

-----------------------------------------------------------------------------
(* The handler *)

At(c, step) == enter[c].step = step
To(c, step) == enter' = [enter EXCEPT ![c].step = step]

\* No player of that unique id is known; nothing is reserved.
EnterGame(c, u) ==
  /\ At(c, "idle") /\ uid2player[u] = 0
  /\ enter' = [enter EXCEPT ![c] = [step |-> "next", uid |-> u, id |-> 0]]
  /\ UNCHANGED <<table, global, owner, newOwner, id2player, uid2player>>

\* Mutant of NextPlayerId: a plain increment may lose the add of another handler.
NextPlayerIdPlain(c) ==
  /\ At(c, "next") /\ counter < MaxId
  /\ counter' \in {counter, counter + 1}
  /\ enter' = [enter EXCEPT ![c].step = "flag", ![c].id = counter + 1]
  /\ client' = [client EXCEPT ![c] = counter + 1]
  /\ UNCHANGED <<memory, db, control, stmt, failed, failures, crashes, counterChanged, counterDb,
                 saving, value, owner, newOwner, id2player, uid2player>>

\* GetNextPlayerId: the atomic add, then the flag under the row's lock.
NextPlayerId(c) ==
  /\ At(c, "next") /\ counter < MaxId
  /\ counter' = counter + 1
  /\ enter' = [enter EXCEPT ![c].step = "flag", ![c].id = counter + 1]
  /\ client' = [client EXCEPT ![c] = counter + 1]
  /\ UNCHANGED <<memory, db, control, stmt, failed, failures, crashes, counterChanged, counterDb,
                 saving, value, owner, newOwner, id2player, uid2player>>

\* Mutant of FlagCounter: the flag is left as it is.
FlagCounterNot(c) ==
  /\ At(c, "flag")
  /\ To(c, "add")
  /\ UNCHANGED <<table, global, owner, newOwner, id2player, uid2player>>

FlagCounter(c) ==
  /\ At(c, "flag")
  /\ counterChanged' = TRUE
  /\ To(c, "add")
  /\ UNCHANGED <<table, counter, counterDb, saving, value, owner, newOwner, id2player, uid2player>>

\* Without looking for a row of that id first; a nil row ends the handler.
AddPlayerRow(c) ==
  /\ At(c, "add")
  /\ AddRow(c)
  /\ LET id == enter[c].id IN
     IF newRows[id] = NoRow
     THEN newOwner' = [newOwner EXCEPT ![id] = enter[c].uid] /\ To(c, "uid")
     ELSE UNCHANGED newOwner /\ To(c, "idle")
  /\ UNCHANGED <<global, owner, id2player, uid2player>>

\* SetUniqueId and SetAccount, on the row AddRow returned: a pass may have
\* moved it to m_rows.
SetUniqueId(c) ==
  /\ At(c, "uid")
  /\ LET id == enter[c].id IN
     \E col \in Cols : IF newRows[id] # NoRow THEN SetNewCol(id, col) ELSE SetCol(id, col)
  /\ To(c, "idMap")
  /\ UNCHANGED <<global, owner, newOwner, id2player, uid2player>>

\* Add2IdMap logs an error when it finds a player, and replaces it.
Add2IdMap(c) ==
  /\ At(c, "idMap")
  /\ id2player' = [id2player EXCEPT ![enter[c].id] = enter[c].uid]
  /\ To(c, "uidMap")
  /\ UNCHANGED <<table, global, owner, newOwner, uid2player>>

\* Add2UidMap keeps the player it finds.
Add2UidMap(c) ==
  /\ At(c, "uidMap")
  /\ uid2player' = [uid2player EXCEPT ![enter[c].uid] = IF @ = 0 THEN enter[c].id ELSE @]
  /\ To(c, "idle")
  /\ UNCHANGED <<table, global, owner, newOwner, id2player>>

-----------------------------------------------------------------------------
(* DBC.Save: the Global row, then the Players table *)

\* The save_data of the Global row; the loop looked at m_quit just before.
BeginSave(s, phase) ==
  /\ pc[s] = "idle" /\ saving[s] = "none"
  /\ s = Loop => quit = (phase = "finalRows")
  /\ s = Stopper => phase = "rows"
  /\ saving' = [saving EXCEPT ![s] = phase]
  /\ value' = [value EXCEPT ![s] = IF counterChanged THEN counter ELSE 0]
  /\ counterChanged' = FALSE
  /\ overlapped' = (overlapped \/ \E t \in Savers \ {s} : InPass(t) \/ saving[t] # "none")
  /\ UNCHANGED <<memory, db, client, pc, todo, quit, completed, atQuit, stmt, failed, failures,
                 crashes, counter, counterDb, players>>

\* Its statement runs, and the pass over the Players table starts.
GlobalSaved(s) ==
  /\ saving[s] # "none"
  /\ counterDb' = IF value[s] = 0 THEN counterDb ELSE value[s]
  /\ saving' = [saving EXCEPT ![s] = "none"]
  /\ value' = [value EXCEPT ![s] = 0]
  /\ StartPass(s, saving[s])
  /\ UNCHANGED <<crashes, counter, counterChanged, players>>

\* Its statement fails: Save returns, the flag stays cleared.
GlobalFailed(s) ==
  /\ value[s] # 0 /\ failures < MaxFailures
  /\ failures' = failures + 1
  /\ saving' = [saving EXCEPT ![s] = "none"]
  /\ value' = [value EXCEPT ![s] = 0]
  /\ pc' = [pc EXCEPT ![s] = IF s = Stopper THEN "passed"
                             ELSE IF saving[s] = "finalRows" THEN "done" ELSE "idle"]
  /\ completed' = (completed \/ pc'[Loop] = "done")
  /\ UNCHANGED <<memory, db, client, todo, quit, overlapped, atQuit, stmt, failed, crashes,
                 counter, counterChanged, counterDb, players>>

\* The rows that FetchNewRows moves take their owners along.
FetchNewPlayers(s) ==
  /\ FetchNewRows(s)
  /\ owner' = [k \in Keys |-> IF k \in Fetched THEN newOwner[k] ELSE owner[k]]
  /\ newOwner' = [k \in Keys |-> IF k \in Fetched THEN NoUid ELSE newOwner[k]]
  /\ UNCHANGED <<crashes, global, enter, id2player, uid2player>>

TableStep(s) ==
  /\ StopSaving(s) \/ ExecOk(s) \/ ExecFail(s) \/ EndPass(s) \/ \E k \in Keys : SaveData(s, k)
  /\ UNCHANGED <<crashes, global, players>>

Stop == (SetQuit \/ Exit) /\ UNCHANGED <<crashes, global, players>>

-----------------------------------------------------------------------------
(* A restart *)

StoredUid(k) ==
  IF db[k] = NoRow THEN NoUid
  ELSE IF \E col \in Cols : db[k][col] = 0 THEN Unnamed
  ELSE owner[k]

\* on_preload: players of one unique id come in any order, the first is kept.
Restart ==
  /\ Crash
  /\ counter' = counterDb /\ counterChanged' = FALSE
  /\ saving' = [s \in Savers |-> "none"]
  /\ value' = [s \in Savers |-> 0]
  /\ enter' = [c \in Clients |-> Idle]
  /\ owner' = [k \in Keys |-> IF db[k] = NoRow THEN NoUid ELSE owner[k]]
  /\ newOwner' = [k \in Keys |-> NoUid]
  /\ id2player' = [k \in Keys |-> StoredUid(k)]
  /\ uid2player' \in
       {f \in [Uids -> 0..MaxId] : \A u \in Uids :
          LET ids == {k \in Keys : StoredUid(k) = u} IN
          IF ids = {} THEN f[u] = 0 ELSE f[u] \in ids}
  /\ UNCHANGED counterDb

IdsTerminated == pc[Stopper] = "done" /\ UNCHANGED allVars

EnterStep(c) ==
  \/ \E u \in Uids : EnterGame(c, u)
  \/ NextPlayerId(c) \/ FlagCounter(c) \/ AddPlayerRow(c) \/ SetUniqueId(c)
  \/ Add2IdMap(c) \/ Add2UidMap(c)

SaveStep(s) ==
  \/ \E phase \in {"rows", "finalRows"} : BeginSave(s, phase)
  \/ GlobalSaved(s) \/ GlobalFailed(s) \/ FetchNewPlayers(s) \/ TableStep(s)

IdsNext ==
  \/ \E c \in Clients : EnterStep(c)
  \/ \E s \in Savers : SaveStep(s)
  \/ Stop \/ Restart \/ IdsTerminated

IdsSpec == IdsInit /\ [][IdsNext]_allVars

-----------------------------------------------------------------------------
(* Properties *)

Drawn(c) == enter[c].step \in {"flag", "add", "uid", "idMap"}

(***************************************************************************)
(* As long as the server did not crash, the id a handler drew is no other  *)
(* handler's and no player's, whatever handlers create players at once.    *)
(***************************************************************************)
IdsAreFresh ==
  crashes = 0 => \A c \in Clients : Drawn(c) =>
    /\ id2player[enter[c].id] = NoUid
    /\ \A d \in Clients \ {c} : enter[d].step # "idle" => enter[d].id # enter[c].id

(***************************************************************************)
(* The same with crashes: Add2IdMap treats a player it finds under the new *)
(* id as an error, "already have player".                                  *)
(***************************************************************************)
NeverReplaced == \A c \in Clients : At(c, "idMap") => id2player[enter[c].id] = NoUid

(***************************************************************************)
(* A clean exit leaves a counter in MySQL that covers every player whose   *)
(* row was in memory when m_quit was set, although a pass saves the        *)
(* counter first and the ids drawn since may be in the same pass.  Without *)
(* crashes, failed statements and overlapping saves.                       *)
(***************************************************************************)
ExitCoversIds ==
  completed /\ ~overlapped /\ failures = 0 /\ crashes = 0 =>
    \A k \in Keys : atQuit[k] # NoRow => k <= counterDb

(***************************************************************************)
(* A player's row in MySQL never becomes another player's, not even when   *)
(* his id is drawn again after a crash (the row added under it is never    *)
(* saved).                                                                 *)
(***************************************************************************)
RowKeepsItsOwner ==
  [][\A k \in Keys : StoredUid(k) \in Uids => StoredUid(k)' = StoredUid(k)]_allVars

-----------------------------------------------------------------------------
(* The inductive invariant behind IdsAreFresh *)

\* Nobody has an id the counter has not reached yet.
IdsAreDrawn ==
  crashes = 0 =>
    /\ \A k \in Keys : id2player[k] # NoUid => k <= counter
    /\ \A c \in Clients : enter[c].id <= counter

IdsIInv ==
  /\ counter \in 0..MaxId /\ crashes \in Nat
  /\ enter \in [Clients -> Enters]
  /\ id2player \in [Keys -> Uids \cup {NoUid, Unnamed}]
  /\ \A c \in Clients : enter[c].step # "idle" => enter[c].uid \in Uids
  /\ \A c \in Clients : enter[c].step \in {"flag", "add", "uid", "idMap", "uidMap"} => enter[c].id \in Keys
  /\ IdsAreDrawn
  /\ IdsAreFresh

-----------------------------------------------------------------------------
(* The inductive invariants behind RowKeepsItsOwner and ExitCoversIds *)

\* A saver that writes the Global row has not begun its pass of the table, and
\* until passes overlap it is the only one at work.
SavingIsAlone ==
  /\ saving \in [Savers -> {"none", "rows", "finalRows"}]
  /\ \A s \in Savers :
       /\ saving[s] # "none" => pc[s] = "idle"
       /\ saving[s] = "none" => value[s] = 0
       /\ saving[s] = "finalRows" => s = Loop /\ quit
  /\ pc[Loop] = "done" => quit
  /\ ~overlapped => \A s, t \in Savers : saving[s] # "none" /\ s # t => saving[t] = "none"

\* A column that an UPDATE writes was set by a handler.
UpdatesAreSet ==
  /\ \A k \in Keys : HasRow(k) /\ ~rows[k].new =>
       \A col \in rows[k].changed : rows[k].val[col] > 0
  /\ \A s \in Savers : stmt[s] # NoRow /\ ~stmt[s].insert =>
       \A col \in stmt[s].cols : stmt[s].val[col] > 0

\* MySQL has a counter that covers id, or it is on the way there, or flagged.
Covered(id) ==
  \/ id <= counterDb \/ \E s \in Savers : id <= value[s]
  \/ counterChanged /\ id <= counter

\* MySQL's counter, the one on the way and the one in memory follow each other; an
\* id is covered from the flag of GetNextPlayerId on, and the last pass begins with
\* the counter.
CounterCovers ==
  ~overlapped /\ failures = 0 /\ crashes = 0 =>
    /\ counterDb <= counter
    /\ \A s \in Savers : value[s] <= counter /\ (value[s] # 0 => counterDb <= value[s])
    /\ \A c \in Clients : enter[c].step \in {"flag", "add"} => client[c] = enter[c].id
    /\ \A c \in Clients : enter[c].step = "flag" => enter[c].id <= counter
    /\ \A c \in Clients : enter[c].step = "add" => Covered(enter[c].id)
    /\ \A k \in Keys : GetRow(k) # NoRow => Covered(k)
    /\ \A k \in Keys : atQuit[k] # NoRow =>
         /\ Covered(k)
         /\ saving[Loop] = "finalRows" => k <= counterDb \/ k <= value[Loop]
         /\ Quick(Loop) \/ completed => k <= counterDb

IdsExitInv == SavingIsAlone /\ UpdatesAreSet /\ QuitIsLate /\ CounterCovers

=============================================================================
