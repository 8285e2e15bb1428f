-------------------------- MODULE PlayerIdsProofs --------------------------
(***************************************************************************)
(* What DbTable promises for every set of keys, columns and handlers and   *)
(* every bound, and what PlayerIds makes of it: ids are drawn once, rows   *)
(* keep their owners, and the counter that is stored covers the ids.       *)
(*                                                                         *)
(* The first part is about DbTable alone: it uses no assumption, constant  *)
(* or variable of PlayerIds.                                               *)
(***************************************************************************)
EXTENDS PlayerIds, TLAPS

-----------------------------------------------------------------------------
(* The table: DbTable *)


\* What the helpers of DbTable return.
LEMMA WrittenType ==
  ASSUME NEW r \in Row, NEW col \in Cols
  PROVE  /\ Written(r, col) \in Row
         /\ Written(r, col).new = r.new
         /\ Written(r, col).changed = r.changed \cup {col}
         /\ \A d \in Cols \ {col} : Written(r, col).val[d] = r.val[d]
<1>1. r.val \in [Cols -> Nat] /\ r.changed \in SUBSET Cols /\ r.new \in BOOLEAN
  BY DEF Row, Values
<1>2. [r.val EXCEPT ![col] = @ + 1] \in [Cols -> Nat]
  BY <1>1
<1>. QED BY <1>1, <1>2 DEF Written, Row, Values

\* What DBC.Exec leaves in MySQL.
LEMMA AppliedType ==
  ASSUME TypeOK, NEW q \in Stmt
  PROVE  Applied(q) \in Values \cup {NoRow}
BY DEF Applied, TypeOK, Stmt, Values

-----------------------------------------------------------------------------
(* Type correctness *)

LEMMA InitType == Init => TypeOK
<1>. SUFFICES ASSUME Init PROVE TypeOK OBVIOUS
<1>. USE DEF Init
<1>1. rows \in [Keys -> Row \cup {NoRow}] /\ newRows \in [Keys -> Row \cup {NoRow}] OBVIOUS
<1>2. db \in [Keys -> Values \cup {NoRow}] /\ atQuit \in [Keys -> Values \cup {NoRow}] OBVIOUS
<1>3. client \in [Clients -> Keys \cup {NoRow}] OBVIOUS
<1>4. pc \in [Savers -> Phases \cup {"idle", "passed", "waiting", "done"}] OBVIOUS
<1>5. todo \in [Savers -> SUBSET Keys] /\ stmt \in [Savers -> Stmt \cup {NoRow}] OBVIOUS
<1>. QED BY <1>1, <1>2, <1>3, <1>4, <1>5 DEF TypeOK

LEMMA HandlersType == ASSUME TypeOK, Handlers PROVE TypeOK'
<1>. USE DEF TypeOK, memory, control
<1>1. ASSUME NEW c \in Clients, AddRow(c) PROVE TypeOK'
  <2>1. [val |-> [col \in Cols |-> 0], changed |-> Cols, new |-> TRUE] \in Row
    BY DEF Row, Values
  <2>. QED BY <1>1, <2>1 DEF AddRow
<1>2. ASSUME NEW c \in Clients, NEW k \in Keys, CheckRow(c, k) PROVE TypeOK'
  BY <1>2 DEF CheckRow
<1>3. ASSUME NEW k \in Keys, NEW col \in Cols, SetCol(k, col) PROVE TypeOK'
  <2>1. rows[k] \in Row BY <1>3 DEF SetCol, HasRow
  <2>2. Written(rows[k], col) \in Row BY <2>1, WrittenType
  <2>. QED BY <1>3, <2>2 DEF SetCol
<1>4. ASSUME NEW k \in Keys, NEW col \in Cols, SetNewCol(k, col) PROVE TypeOK'
  <2>1. newRows[k] \in Row BY <1>4 DEF SetNewCol
  <2>2. Written(newRows[k], col) \in Row BY <2>1, WrittenType
  <2>. QED BY <1>4, <2>2 DEF SetNewCol
<1>. QED BY <1>1, <1>2, <1>3, <1>4 DEF Handlers

LEMMA StartPassType ==
  ASSUME TypeOK, NEW s \in Savers, NEW p \in Phases, StartPass(s, p) PROVE TypeOK'
BY DEF TypeOK, StartPass, memory

LEMMA AfterPassType ==
  ASSUME TypeOK, NEW s \in Savers, AfterPass(s), failures' \in Nat PROVE TypeOK'
BY DEF TypeOK, AfterPass, memory

LEMMA SaveDataType ==
  ASSUME TypeOK, NEW s \in Savers, NEW k \in Keys, SaveData(s, k), HasRow(k) PROVE TypeOK'
<1>. USE DEF TypeOK
<1>1. rows[k] \in Row BY DEF HasRow
<1>2. [rows[k] EXCEPT !.changed = {}, !.new = FALSE] \in Row BY <1>1 DEF Row
<1>3. rows' \in [Keys -> Row \cup {NoRow}] BY <1>2 DEF SaveData
<1>4. [key |-> k, val |-> rows[k].val, insert |-> rows[k].new,
       cols |-> IF rows[k].new THEN Cols ELSE rows[k].changed] \in Stmt
  BY <1>1 DEF Stmt, Row
<1>5. stmt' \in [Savers -> Stmt \cup {NoRow}] BY <1>4 DEF SaveData
<1>6. todo' \in [Savers -> SUBSET Keys] BY DEF SaveData
<1>. QED BY <1>3, <1>5, <1>6 DEF SaveData

LEMMA SaverStepType ==
  ASSUME IInv, NEW s \in Savers, SaverStep(s) PROVE TypeOK'
<1>. USE DEF IInv
<1>1. CASE SkipPass(s)
  <2>1. failures' \in Nat BY <1>1 DEF SkipPass, TypeOK
  <2>. QED BY <1>1, <2>1, AfterPassType DEF SkipPass
<1>2. CASE StopSaving(s) BY <1>2 DEF StopSaving, TypeOK, memory
<1>3. CASE ExecOk(s)
  <2>1. stmt[s] \in Stmt /\ stmt[s].key \in Keys BY <1>3 DEF ExecOk, TypeOK, Stmt
  <2>2. Applied(stmt[s]) \in Values \cup {NoRow} BY <2>1, AppliedType
  <2>. QED BY <1>3, <2>1, <2>2 DEF ExecOk, TypeOK, memory, control
<1>4. CASE ExecFail(s)
  <2>1. stmt[s].key \in Keys BY <1>4 DEF ExecFail, TypeOK, Stmt
  <2>. QED BY <1>4, <2>1 DEF ExecFail, TypeOK, memory, control
<1>5. CASE FetchNewRows(s)
  <2>1. Fetched \in SUBSET Keys BY DEF Fetched
  <2>. QED BY <1>5, <2>1 DEF FetchNewRows, TypeOK, Phases, NewPhases
<1>6. CASE EndPass(s) BY <1>6, AfterPassType DEF EndPass, TypeOK
<1>7. ASSUME NEW k \in Keys, SaveData(s, k) PROVE TypeOK'
  <2>1. HasRow(k) BY <1>7 DEF SaveData, NewIsUnknown
  <2>. QED BY <1>7, <2>1, SaveDataType
<1>. QED BY <1>1, <1>2, <1>3, <1>4, <1>5, <1>6, <1>7 DEF SaverStep

LEMMA BeginType ==
  ASSUME TypeOK, BeginLastPass \/ \E s \in Savers : BeginPass(s) PROVE TypeOK'
<1>1. "rows" \in Phases /\ "finalRows" \in Phases BY DEF Phases, RowPhases
<1>2. Loop \in Savers BY DEF Savers
<1>. QED BY <1>1, <1>2, StartPassType DEF BeginLastPass, BeginPass

LEMMA StopType == ASSUME TypeOK, SetQuit \/ Exit PROVE TypeOK'
<1>1. CASE SetQuit
  <2>1. \A k \in Keys : GetRow(k) # NoRow => GetRow(k) \in Row
    BY DEF GetRow, HasRow, TypeOK
  <2>2. atQuit' \in [Keys -> Values \cup {NoRow}] BY <1>1, <2>1 DEF SetQuit, Row
  <2>. QED BY <1>1, <2>2 DEF SetQuit, TypeOK, memory
<1>2. CASE Exit BY <1>2 DEF Exit, TypeOK, memory
<1>. QED BY <1>1, <1>2

LEMMA CrashType == ASSUME TypeOK, Crash PROVE TypeOK'
<1>1. \A k \in Keys : Preloaded(db[k]) \in Row \cup {NoRow}
  BY DEF Preloaded, Row, TypeOK
<1>2. rows' \in [Keys -> Row \cup {NoRow}] BY <1>1 DEF Crash
<1>3. newRows' \in [Keys -> Row \cup {NoRow}] BY DEF Crash
<1>4. client' \in [Clients -> Keys \cup {NoRow}] BY DEF Crash
<1>5. pc' \in [Savers -> Phases \cup {"idle", "passed", "waiting", "done"}] BY DEF Crash
<1>6. todo' \in [Savers -> SUBSET Keys] /\ stmt' \in [Savers -> Stmt \cup {NoRow}] BY DEF Crash
<1>7. atQuit' \in [Keys -> Values \cup {NoRow}] BY DEF Crash
<1>8. quit' \in BOOLEAN /\ completed' \in BOOLEAN /\ overlapped' \in BOOLEAN
  BY DEF Crash
<1>9. db' \in [Keys -> Values \cup {NoRow}] /\ failures' \in Nat BY DEF Crash, TypeOK
<1>10. failed' \in SUBSET Keys BY DEF Crash
<1>11. crashes' \in Nat BY DEF Crash, TypeOK
<1>. QED BY <1>2, <1>3, <1>4, <1>5, <1>6, <1>7, <1>8, <1>9, <1>10, <1>11 DEF TypeOK

LEMMA NextType == ASSUME IInv, [Next]_vars PROVE TypeOK'
<1>. USE DEF IInv
<1>1. Loop \in Savers /\ Stopper \in Savers BY DEF Savers
<1>2. CASE Handlers BY <1>2, HandlersType
<1>3. CASE LoopStep BY <1>1, <1>3, SaverStepType, BeginType DEF LoopStep
<1>4. CASE StopperStep BY <1>1, <1>4, SaverStepType, StopType DEF StopperStep
<1>5. CASE BeginStop
  <2>1. CASE BeginPass(Stopper) BY <1>1, <2>1, BeginType
  <2>2. CASE SkipPass(Stopper)
    <3>1. SaverStep(Stopper) BY <2>2 DEF SaverStep
    <3>. QED BY <1>1, <3>1, SaverStepType
  <2>. QED BY <1>5, <2>1, <2>2 DEF BeginStop
<1>6. CASE Crash BY <1>6, CrashType
<1>7. CASE UNCHANGED vars BY <1>7 DEF TypeOK, vars, memory, control
<1>. QED BY <1>2, <1>3, <1>4, <1>5, <1>6, <1>7 DEF Next, Terminated

-----------------------------------------------------------------------------
(* The inductive invariant *)

LEMMA InitInv == Init => IInv
<1>. SUFFICES ASSUME Init PROVE IInv OBVIOUS
<1>1. TypeOK BY InitType
<1>2. PassesAlone BY DEF Init, PassesAlone, InPass, Phases, RowPhases, NewPhases
<1>3. NewIsUnknown BY DEF Init, NewIsUnknown, Pending
<1>4. OneInsert BY DEF Init, OneInsert
<1>5. PendingCompletes BY DEF Init, PendingCompletes
<1>6. CleanMeansStored BY DEF Init, CleanMeansStored, HasRow
<1>. QED BY <1>1, <1>2, <1>3, <1>4, <1>5, <1>6 DEF IInv

\* No handler turns a clean column dirty without flagging it, nor a known row
\* into a new one.
LEMMA HandlersKeep ==
  ASSUME IInv, Handlers
  PROVE  /\ UNCHANGED <<db, control, stmt, failed>>
         /\ \A k \in Keys : newRows'[k] # NoRow => newRows'[k].new
         /\ \A k \in Keys : (rows'[k] # NoRow) = (rows[k] # NoRow)
         /\ \A k \in Keys : rows[k] # NoRow =>
              /\ rows'[k].new = rows[k].new
              /\ rows[k].changed \subseteq rows'[k].changed
              /\ \A col \in Cols \ rows'[k].changed : rows'[k].val[col] = rows[k].val[col]
<1>. USE DEF IInv, TypeOK, NewIsUnknown, memory
<1>0. NoRow \notin Row BY ConstantsAssumption
<1>1. ASSUME NEW c \in Clients, AddRow(c)
      PROVE  /\ UNCHANGED <<rows, db, control, stmt, failed>>
             /\ \A k \in Keys : newRows'[k] # NoRow => newRows'[k].new
  BY <1>1 DEF AddRow
<1>2. ASSUME NEW c \in Clients, NEW k \in Keys, CheckRow(c, k)
      PROVE  UNCHANGED <<memory, db, control, stmt, failed>>
  BY <1>2 DEF CheckRow
<1>3. ASSUME NEW j \in Keys, NEW col \in Cols, SetCol(j, col)
      PROVE  /\ UNCHANGED <<newRows, db, control, stmt, failed>>
             /\ \A k \in Keys : (rows'[k] # NoRow) = (rows[k] # NoRow)
             /\ \A k \in Keys : rows[k] # NoRow =>
                  /\ rows'[k].new = rows[k].new
                  /\ rows[k].changed \subseteq rows'[k].changed
                  /\ \A d \in Cols \ rows'[k].changed : rows'[k].val[d] = rows[k].val[d]
  <2>1. rows[j] \in Row BY <1>3 DEF SetCol, HasRow
  <2>2. /\ Written(rows[j], col) \in Row
        /\ Written(rows[j], col).new = rows[j].new
        /\ Written(rows[j], col).changed = rows[j].changed \cup {col}
        /\ \A d \in Cols \ {col} : Written(rows[j], col).val[d] = rows[j].val[d]
    BY <2>1, WrittenType
  <2>3. rows' = [rows EXCEPT ![j] = Written(rows[j], col)] BY <1>3 DEF SetCol
  <2>. QED BY <1>0, <1>3, <2>1, <2>2, <2>3 DEF SetCol, HasRow
<1>4. ASSUME NEW j \in Keys, NEW col \in Cols, SetNewCol(j, col)
      PROVE  /\ UNCHANGED <<rows, db, control, stmt, failed>>
             /\ \A k \in Keys : newRows'[k] # NoRow => newRows'[k].new
  <2>1. newRows[j] \in Row BY <1>4 DEF SetNewCol
  <2>2. Written(newRows[j], col).new = newRows[j].new BY <2>1, WrittenType
  <2>. QED BY <1>4, <2>2 DEF SetNewCol
<1>. QED BY <1>1, <1>2, <1>3, <1>4 DEF Handlers

LEMMA HandlersInv == ASSUME IInv, Handlers PROVE IInv'
<1>. USE DEF IInv
<1>1. TypeOK' BY HandlersType
<1>2. PassesAlone' BY HandlersKeep DEF PassesAlone, InPass, control
<1>3. NewIsUnknown' BY HandlersKeep DEF NewIsUnknown, Pending, HasRow, control, TypeOK
<1>4. OneInsert' BY HandlersKeep DEF OneInsert
<1>5. PendingCompletes'
  <2>. SUFFICES ASSUME ~overlapped', NEW s \in Savers, stmt'[s] # NoRow, stmt'[s].key \notin failed'
                PROVE  LET q == stmt'[s] k == q.key IN
                       /\ q.insert \/ db'[k] # NoRow
                       /\ \A col \in Cols \ rows'[k].changed :
                            IF col \in q.cols THEN q.val[col] = rows'[k].val[col]
                            ELSE db'[k][col] = rows'[k].val[col]
    BY DEF PendingCompletes
  <2>1. ~overlapped /\ stmt[s] # NoRow /\ stmt[s].key \notin failed /\ stmt'[s] = stmt[s]
    BY HandlersKeep DEF control
  <2>2. stmt[s].key \in Keys /\ rows[stmt[s].key] # NoRow
    BY <2>1 DEF TypeOK, Stmt, NewIsUnknown, Pending, HasRow
  <2>3. db' = db BY HandlersKeep
  <2>. QED BY <2>1, <2>2, <2>3, HandlersKeep DEF PendingCompletes
<1>6. CleanMeansStored'
  <2>1. \A k \in Keys : Pending(k)' = Pending(k) BY HandlersKeep DEF Pending
  <2>2. ~overlapped' => ~overlapped BY HandlersKeep DEF control
  <2>3. db' = db /\ failed' = failed BY HandlersKeep
  <2>. QED BY <2>1, <2>2, <2>3, HandlersKeep DEF CleanMeansStored, HasRow
<1>. QED BY <1>1, <1>2, <1>3, <1>4, <1>5, <1>6

LEMMA StartPassInv ==
  ASSUME IInv, NEW s \in Savers, NEW p \in Phases, ~InPass(s), StartPass(s, p) PROVE IInv'
<1>. USE DEF IInv
<1>1. TypeOK' BY StartPassType
<1>2. PassesAlone'
  <2>1. \A t \in Savers : InPass(t) => InPass(t)' BY DEF StartPass, InPass, TypeOK
  <2>2. \A t \in Savers \ {s} : InPass(t)' = InPass(t) BY DEF StartPass, InPass, TypeOK
  <2>3. stmt' = stmt BY DEF StartPass
  <2>4. ~overlapped' => ~overlapped /\ \A t \in Savers \ {s} : ~InPass(t) BY DEF StartPass
  <2>. QED BY <2>1, <2>2, <2>3, <2>4 DEF PassesAlone
<1>3. NewIsUnknown' BY DEF StartPass, NewIsUnknown, Pending, HasRow, memory, TypeOK
<1>4. OneInsert' BY DEF StartPass, OneInsert
<1>5. PendingCompletes' BY DEF StartPass, PendingCompletes, memory
<1>6. CleanMeansStored'
  <2>1. ~overlapped' => ~overlapped BY DEF StartPass
  <2>2. rows' = rows /\ db' = db /\ stmt' = stmt /\ failed' = failed BY DEF StartPass, memory
  <2>. QED BY <2>1, <2>2 DEF CleanMeansStored, HasRow, Pending
<1>. QED BY <1>1, <1>2, <1>3, <1>4, <1>5, <1>6

\* Steps that change neither memory, MySQL nor a statement, and leave a pass or
\* none: the flow of control between passes.
LEMMA ControlInv ==
  ASSUME IInv, TypeOK',
         UNCHANGED <<memory, db, stmt, failed>>, ~overlapped' => ~overlapped,
         \A s \in Savers : todo'[s] \subseteq todo[s],
         \A s \in Savers : InPass(s)' => InPass(s),
         \A s \in Savers : stmt[s] # NoRow => InPass(s)'
  PROVE  IInv'
<1>. USE DEF IInv
<1>1. PassesAlone' BY DEF PassesAlone
<1>2. NewIsUnknown' BY DEF NewIsUnknown, Pending, HasRow, memory
<1>3. OneInsert' BY DEF OneInsert
<1>4. PendingCompletes' BY DEF PendingCompletes, memory
<1>5. CleanMeansStored' BY DEF CleanMeansStored, HasRow, Pending, memory
<1>. QED BY <1>1, <1>2, <1>3, <1>4, <1>5

LEMMA AfterPassInv ==
  ASSUME IInv, NEW s \in Savers, AfterPass(s), stmt[s] = NoRow, failures' \in Nat
  PROVE  IInv'
<1>1. TypeOK' BY AfterPassType DEF IInv
<1>2. UNCHANGED <<memory, db, stmt, failed, todo, overlapped>> BY DEF AfterPass
<1>3. pc'[s] \in {"passed", "done", "idle"} /\ \A t \in Savers \ {s} : pc'[t] = pc[t]
  BY DEF AfterPass, IInv, TypeOK
<1>4. \A t \in Savers : InPass(t)' => InPass(t)
  BY <1>3 DEF InPass, Phases, RowPhases, NewPhases
<1>5. \A t \in Savers : stmt[t] # NoRow => InPass(t)'
  BY <1>3 DEF InPass, IInv, PassesAlone
<1>. QED BY <1>1, <1>2, <1>4, <1>5, ControlInv

LEMMA StopInv == ASSUME IInv, SetQuit \/ Exit PROVE IInv'
<1>1. TypeOK' BY StopType DEF IInv
<1>2. UNCHANGED <<memory, db, stmt, failed, todo, overlapped>> BY DEF SetQuit, Exit
<1>3. Stopper \in Savers BY DEF Savers
<1>4. ~InPass(Stopper) /\ ~InPass(Stopper)' /\ \A t \in Savers \ {Stopper} : pc'[t] = pc[t]
  BY <1>3 DEF SetQuit, Exit, InPass, Phases, RowPhases, NewPhases, IInv, TypeOK
<1>5. \A t \in Savers : InPass(t)' = InPass(t) BY <1>4 DEF InPass
<1>. QED BY <1>1, <1>2, <1>5, ControlInv DEF IInv, PassesAlone

LEMMA StopSavingInv == ASSUME IInv, NEW s \in Savers, StopSaving(s) PROVE IInv'
<1>1. TypeOK' BY DEF StopSaving, IInv, TypeOK, memory
<1>2. UNCHANGED <<memory, db, stmt, failed, pc, overlapped>> BY DEF StopSaving
<1>3. \A t \in Savers : todo'[t] \subseteq todo[t] BY DEF StopSaving, IInv, TypeOK
<1>4. \A t \in Savers : InPass(t)' = InPass(t) BY <1>2 DEF InPass
<1>. QED BY <1>1, <1>2, <1>3, <1>4, ControlInv DEF IInv, PassesAlone

LEMMA CrashInv == ASSUME IInv, Crash PROVE IInv'
<1>. USE DEF IInv
<1>0. NoRow \notin Row BY ConstantsAssumption
<1>1. TypeOK' BY CrashType
<1>2. PassesAlone' BY DEF Crash, PassesAlone, InPass, Phases, RowPhases, NewPhases
<1>3. \A s \in Savers : stmt'[s] = NoRow BY DEF Crash
<1>4. \A k \in Keys : rows'[k] = Preloaded(db[k]) BY DEF Crash
<1>5. NewIsUnknown'
  <2>1. \A s \in Savers : todo'[s] = {} BY DEF Crash
  <2>2. \A k \in Keys : newRows'[k] = NoRow BY DEF Crash
  <2>3. \A k \in Keys : ~Pending(k)' BY <1>3 DEF Pending
  <2>4. ASSUME NEW k \in Keys, rows'[k] = NoRow \/ rows'[k].new PROVE db'[k] = NoRow
    <3>1. db' = db BY DEF Crash
    <3>2. CASE db[k] = NoRow BY <3>1, <3>2
    <3>3. CASE db[k] # NoRow
      <4>1. rows'[k] = [val |-> db[k], changed |-> {}, new |-> FALSE] BY <1>4, <3>3 DEF Preloaded
      <4>2. rows'[k] \in Row BY <4>1, <3>3 DEF Row, TypeOK
      <4>3. rows'[k] # NoRow BY <1>0, <4>2
      <4>4. rows'[k].new = FALSE BY <4>1
      <4>. QED BY <2>4, <4>3, <4>4
    <3>. QED BY <3>2, <3>3
  <2>. QED BY <2>1, <2>2, <2>3, <2>4 DEF NewIsUnknown, HasRow
<1>6. OneInsert' BY <1>3 DEF OneInsert
<1>7. PendingCompletes' BY <1>3 DEF PendingCompletes
<1>8. CleanMeansStored' BY <1>4 DEF Crash, CleanMeansStored, HasRow, Preloaded
<1>. QED BY <1>1, <1>2, <1>5, <1>6, <1>7, <1>8

LEMMA SaveDataInv ==
  ASSUME IInv, NEW s \in Savers, NEW k \in Keys, SaveData(s, k) PROVE IInv'
<1>. USE DEF IInv
<1>0. NoRow \notin Row /\ NoRow \notin Stmt BY ConstantsAssumption
<1>1. HasRow(k) /\ rows[k] \in Row BY DEF SaveData, NewIsUnknown, HasRow, TypeOK
<1>2. TypeOK' BY <1>1, SaveDataType
<1>3. InPass(s) /\ stmt[s] = NoRow /\ pc' = pc /\ overlapped' = overlapped
      /\ newRows' = newRows /\ db' = db /\ failed' = failed
  BY DEF SaveData
<1>4. /\ rows'[k] \in Row /\ rows'[k].val = rows[k].val
      /\ rows'[k].changed = {} /\ rows'[k].new = FALSE
      /\ \A j \in Keys \ {k} : rows'[j] = rows[j]
  BY <1>1 DEF SaveData, TypeOK, Row
<1>5. /\ \A t \in Savers \ {s} : stmt'[t] = stmt[t]
      /\ rows[k].new \/ rows[k].changed # {} =>
           stmt'[s] = [key |-> k, val |-> rows[k].val, insert |-> rows[k].new,
                       cols |-> IF rows[k].new THEN Cols ELSE rows[k].changed]
      /\ ~(rows[k].new \/ rows[k].changed # {}) => stmt'[s] = NoRow
  BY DEF SaveData, TypeOK
<1>6. stmt'[s] # NoRow => /\ stmt'[s].key = k /\ stmt'[s].val = rows[k].val
                          /\ stmt'[s].insert = rows[k].new
                          /\ stmt'[s].cols = IF rows[k].new THEN Cols ELSE rows[k].changed
  BY <1>5
<1>7. rows[k].new => db[k] = NoRow /\ ~Pending(k) BY DEF NewIsUnknown
<1>8. PassesAlone' BY <1>3, <1>5 DEF PassesAlone, InPass
<1>9. NewIsUnknown'
  <2>1. \A t \in Savers : todo'[t] \subseteq todo[t] BY DEF SaveData, TypeOK
  <2>2. \A j \in Keys : HasRow(j)' = HasRow(j) BY <1>0, <1>1, <1>4 DEF HasRow
  <2>3. \A j \in Keys \ {k} : Pending(j)' => Pending(j) BY <1>5, <1>6 DEF Pending
  <2>4. HasRow(k)' /\ ~rows'[k].new BY <1>1, <1>4, <2>2
  <2>. QED BY <1>3, <1>4, <2>1, <2>2, <2>3, <2>4 DEF NewIsUnknown, TypeOK
<1>10. OneInsert' BY <1>3, <1>5, <1>6, <1>7 DEF OneInsert, Pending
<1>11. PendingCompletes'
  <2>. SUFFICES ASSUME ~overlapped', NEW t \in Savers, stmt'[t] # NoRow, stmt'[t].key \notin failed'
                PROVE  LET q == stmt'[t] j == q.key IN
                       /\ q.insert \/ db'[j] # NoRow
                       /\ \A col \in Cols \ rows'[j].changed :
                            IF col \in q.cols THEN q.val[col] = rows'[j].val[col]
                            ELSE db'[j][col] = rows'[j].val[col]
    BY DEF PendingCompletes
  <2>1. t = s BY <1>3, <1>5 DEF PassesAlone
  <2>2. \A u \in Savers : stmt[u] = NoRow BY <1>3 DEF PassesAlone
  <2>3. ~Pending(k) BY <2>2 DEF Pending
  <2>4. CASE rows[k].new BY <1>4, <1>6, <2>1, <2>4
  <2>5. CASE ~rows[k].new
    <3>1. /\ db[k] # NoRow
          /\ \A col \in Cols \ rows[k].changed : db[k][col] = rows[k].val[col]
      BY <1>1, <1>3, <1>6, <2>1, <2>3, <2>5 DEF CleanMeansStored
    <3>. QED BY <1>3, <1>4, <1>6, <2>1, <2>5, <3>1
  <2>. QED BY <2>4, <2>5
<1>12. CleanMeansStored'
  <2>. SUFFICES ASSUME ~overlapped', NEW j \in Keys \ failed', HasRow(j)', ~rows'[j].new, ~Pending(j)'
                PROVE  db'[j] # NoRow
                       /\ \A col \in Cols \ rows'[j].changed : db'[j][col] = rows'[j].val[col]
    BY DEF CleanMeansStored
  <2>1. \A u \in Savers : stmt[u] = NoRow BY <1>3 DEF PassesAlone
  <2>2. ~Pending(j) BY <2>1 DEF Pending
  <2>3. CASE j = k
    <3>1. stmt'[s] = NoRow BY <1>6, <2>3 DEF Pending
    <3>2. ASSUME rows[k].new \/ rows[k].changed # {} PROVE FALSE
      <4>1. stmt'[s] = [key |-> k, val |-> rows[k].val, insert |-> rows[k].new,
                        cols |-> IF rows[k].new THEN Cols ELSE rows[k].changed]
        BY <1>5, <3>2
      <4>2. stmt'[s] \in Stmt BY <1>1, <4>1 DEF Stmt, Row
      <4>. QED BY <1>0, <3>1, <4>2
    <3>. QED BY <1>1, <1>3, <1>4, <2>2, <2>3, <3>2 DEF CleanMeansStored
  <2>4. CASE j # k BY <1>3, <1>4, <2>2, <2>4 DEF CleanMeansStored, HasRow
  <2>. QED BY <2>3, <2>4
<1>. QED BY <1>2, <1>8, <1>9, <1>10, <1>11, <1>12

LEMMA ExecOkInv == ASSUME IInv, NEW s \in Savers, ExecOk(s) PROVE IInv'
<1>. USE DEF IInv
<1>. DEFINE q == stmt[s]
            k == q.key
<1>0. NoRow \notin Values BY ConstantsAssumption
<1>1. q \in Stmt /\ q # NoRow /\ k \in Keys /\ q.val \in Values BY DEF ExecOk, TypeOK, Stmt
<1>2. /\ db' = [db EXCEPT ![k] = Applied(q)] /\ stmt' = [stmt EXCEPT ![s] = NoRow]
      /\ UNCHANGED <<memory, pc, todo, overlapped, failed>>
  BY DEF ExecOk, control
<1>3. /\ stmt'[s] = NoRow /\ \A t \in Savers \ {s} : stmt'[t] = stmt[t]
      /\ db'[k] = Applied(q) /\ \A j \in Keys \ {k} : db'[j] = db[j]
  BY <1>1, <1>2 DEF TypeOK
<1>4. TypeOK'
  <2>1. Applied(q) \in Values \cup {NoRow} BY <1>1, AppliedType
  <2>. QED BY <1>1, <2>1 DEF ExecOk, TypeOK, memory, control
<1>5. HasRow(k) /\ ~rows[k].new BY <1>1 DEF NewIsUnknown, Pending
<1>6. PassesAlone' BY <1>2, <1>3 DEF PassesAlone, InPass
<1>7. \A j \in Keys : Pending(j)' => Pending(j) BY <1>3 DEF Pending
<1>8. NewIsUnknown' BY <1>2, <1>3, <1>5, <1>7 DEF NewIsUnknown, HasRow, memory
<1>9. OneInsert' BY <1>1, <1>3 DEF OneInsert, Applied, TypeOK, Stmt
<1>10. PendingCompletes' BY <1>1, <1>2, <1>3 DEF PendingCompletes, PassesAlone
<1>11. CleanMeansStored'
  <2>. SUFFICES ASSUME ~overlapped', NEW j \in Keys \ failed', HasRow(j)', ~rows'[j].new, ~Pending(j)'
                PROVE  db'[j] # NoRow
                       /\ \A col \in Cols \ rows'[j].changed : db'[j][col] = rows'[j].val[col]
    BY DEF CleanMeansStored
  <2>1. rows' = rows BY <1>2 DEF memory
  <2>2. CASE j = k
    <3>1. /\ q.insert \/ db[k] # NoRow
          /\ \A col \in Cols \ rows[k].changed :
               IF col \in q.cols THEN q.val[col] = rows[k].val[col]
               ELSE db[k][col] = rows[k].val[col]
      BY <1>1, <1>2, <2>2 DEF PendingCompletes
    <3>2. CASE q.insert
      <4>1. q.cols = Cols /\ Applied(q) = q.val BY <1>1, <3>2 DEF OneInsert, Applied
      <4>. QED BY <1>0, <1>1, <1>3, <2>1, <2>2, <3>1, <4>1
    <3>3. CASE ~q.insert
      <4>1. Applied(q) = [col \in Cols |-> IF col \in q.cols THEN q.val[col] ELSE db[k][col]]
        BY <3>1, <3>3 DEF Applied
      <4>2. Applied(q) \in Values BY <1>1, <3>1, <3>3, <4>1 DEF Values, TypeOK, Stmt
      <4>. QED BY <1>0, <1>3, <2>1, <2>2, <3>1, <4>1, <4>2
    <3>. QED BY <3>2, <3>3
  <2>3. CASE j # k
    <3>1. ~Pending(j) BY <1>3, <2>3 DEF Pending
    <3>. QED BY <1>2, <1>3, <2>1, <2>3, <3>1 DEF CleanMeansStored, HasRow
  <2>. QED BY <2>2, <2>3
<1>. QED BY <1>4, <1>6, <1>8, <1>9, <1>10, <1>11

LEMMA ExecFailInv == ASSUME IInv, NEW s \in Savers, ExecFail(s) PROVE IInv'
<1>. USE DEF IInv
<1>1. stmt[s] # NoRow /\ stmt[s].key \in Keys BY DEF ExecFail, TypeOK, Stmt
<1>2. /\ stmt' = [stmt EXCEPT ![s] = NoRow] /\ failed' = failed \cup {stmt[s].key}
      /\ UNCHANGED <<memory, db, pc, todo, overlapped>>
  BY DEF ExecFail, control
<1>3. stmt'[s] = NoRow /\ \A t \in Savers \ {s} : stmt'[t] = stmt[t]
  BY <1>2 DEF TypeOK
<1>4. TypeOK' BY <1>1 DEF ExecFail, TypeOK, memory, control
<1>5. PassesAlone' BY <1>2, <1>3 DEF PassesAlone, InPass
<1>6. \A j \in Keys : Pending(j)' => Pending(j) BY <1>3 DEF Pending
<1>7. NewIsUnknown' BY <1>2, <1>6 DEF NewIsUnknown, HasRow, memory
<1>8. OneInsert' BY <1>2, <1>3 DEF OneInsert
<1>9. PendingCompletes' BY <1>1, <1>2, <1>3 DEF PendingCompletes, PassesAlone
<1>10. CleanMeansStored'
  <2>1. \A j \in Keys \ failed' : ~Pending(j)' => ~Pending(j) BY <1>2, <1>3 DEF Pending
  <2>. QED BY <1>2, <2>1 DEF CleanMeansStored, HasRow, memory
<1>. QED BY <1>4, <1>5, <1>7, <1>8, <1>9, <1>10

LEMMA FetchNewRowsInv == ASSUME IInv, NEW s \in Savers, FetchNewRows(s) PROVE IInv'
<1>. USE DEF IInv
<1>1. TypeOK'
  <2>1. Fetched \in SUBSET Keys BY DEF Fetched
  <2>. QED BY <2>1 DEF FetchNewRows, TypeOK, Phases, NewPhases
<1>2. UNCHANGED <<db, stmt, overlapped, failed>> BY DEF FetchNewRows
<1>3. \A t \in Savers : InPass(t)' = InPass(t)
  BY DEF FetchNewRows, InPass, Phases, RowPhases, NewPhases, TypeOK
<1>4. \A k \in Keys : rows'[k] = IF k \in Fetched THEN newRows[k] ELSE rows[k]
  BY DEF FetchNewRows
<1>5. \A k \in Fetched : rows'[k] # NoRow /\ rows'[k].new /\ ~HasRow(k)
  BY <1>4 DEF Fetched, NewIsUnknown
<1>6. \A k \in Keys : HasRow(k) => rows'[k] = rows[k] BY <1>4 DEF Fetched
<1>7. PassesAlone' BY <1>2, <1>3 DEF PassesAlone
<1>8. NewIsUnknown'
  <2>1. todo'[s] = Fetched /\ \A t \in Savers \ {s} : todo'[t] = todo[t]
    BY DEF FetchNewRows, TypeOK
  <2>2. \A t \in Savers : \A k \in todo'[t] : HasRow(k)'
    BY <1>5, <1>6, <2>1 DEF NewIsUnknown, HasRow, TypeOK
  <2>3. \A k \in Keys : newRows'[k] # NoRow => newRows'[k].new
    BY DEF FetchNewRows, NewIsUnknown
  <2>4. \A k \in Keys : (~HasRow(k)' \/ rows'[k].new) => (~HasRow(k) \/ rows[k].new)
    BY <1>4, <1>5 DEF HasRow
  <2>5. \A k \in Keys : Pending(k)' = Pending(k) BY <1>2 DEF Pending
  <2>. QED BY <1>2, <2>2, <2>3, <2>4, <2>5 DEF NewIsUnknown
<1>9. OneInsert' BY <1>2 DEF OneInsert
<1>10. PendingCompletes'
  <2>1. \A t \in Savers : stmt[t] # NoRow => rows'[stmt[t].key] = rows[stmt[t].key]
    BY <1>6 DEF NewIsUnknown, Pending, TypeOK, Stmt
  <2>. QED BY <1>2, <2>1 DEF PendingCompletes
<1>11. CleanMeansStored'
  <2>1. \A k \in Keys : HasRow(k)' /\ ~rows'[k].new => HasRow(k) /\ rows'[k] = rows[k]
    BY <1>4, <1>5 DEF HasRow
  <2>. QED BY <1>2, <2>1 DEF CleanMeansStored, Pending
<1>. QED BY <1>1, <1>7, <1>8, <1>9, <1>10, <1>11

LEMMA NextInv == ASSUME IInv, [Next]_vars PROVE IInv'
<1>1. Loop \in Savers /\ Stopper \in Savers BY DEF Savers
<1>2. ASSUME NEW s \in Savers, SaverStep(s) PROVE IInv'
  <2>1. CASE SkipPass(s)
    <3>1. ~InPass(s) /\ failures' \in Nat
      BY <2>1 DEF SkipPass, InPass, Phases, RowPhases, NewPhases, IInv, TypeOK
    <3>. QED BY <2>1, <3>1, AfterPassInv DEF SkipPass, IInv, PassesAlone
  <2>2. CASE EndPass(s) BY <2>2, AfterPassInv DEF EndPass, IInv, TypeOK
  <2>. QED BY <1>2, <2>1, <2>2, StopSavingInv, ExecOkInv, ExecFailInv, FetchNewRowsInv, SaveDataInv
           DEF SaverStep
<1>3. ASSUME BeginLastPass \/ \E s \in Savers : BeginPass(s) PROVE IInv'
  <2>1. "rows" \in Phases /\ "finalRows" \in Phases /\ "idle" \notin Phases
    BY DEF Phases, RowPhases, NewPhases
  <2>. QED BY <1>1, <1>3, <2>1, StartPassInv DEF BeginLastPass, BeginPass, InPass
<1>4. CASE Handlers BY <1>4, HandlersInv
<1>5. CASE LoopStep BY <1>1, <1>2, <1>3, <1>5 DEF LoopStep
<1>6. CASE StopperStep BY <1>1, <1>2, <1>6, StopInv DEF StopperStep
<1>7. CASE BeginStop
  <2>1. CASE BeginPass(Stopper) BY <1>1, <1>3, <2>1
  <2>2. CASE SkipPass(Stopper)
    <3>1. SaverStep(Stopper) BY <2>2 DEF SaverStep
    <3>. QED BY <1>1, <1>2, <3>1
  <2>. QED BY <1>7, <2>1, <2>2 DEF BeginStop
<1>8. CASE Crash BY <1>8, CrashInv
<1>9. CASE UNCHANGED vars
  <2>1. TypeOK' BY <1>9 DEF vars, memory, control, IInv, TypeOK
  <2>2. UNCHANGED <<memory, db, stmt, failed, overlapped, todo, pc>> BY <1>9 DEF vars, control
  <2>3. \A s \in Savers : InPass(s)' = InPass(s) BY <2>2 DEF InPass
  <2>. QED BY <2>1, <2>2, <2>3, ControlInv DEF IInv, PassesAlone
<1>. QED BY <1>4, <1>5, <1>6, <1>7, <1>8, <1>9 DEF Next, Terminated

-----------------------------------------------------------------------------
(* The cache never takes MySQL back, and the exit saves all *)

\* Memory forgets no row and no column goes back.
MemoryGrows ==
  \A k \in Keys :
    /\ HasRow(k) => HasRow(k)' /\ Behind(rows[k].val, rows'[k].val)
    /\ GetRow(k) # NoRow => GetRow(k)' # NoRow /\ Behind(GetRow(k).val, GetRow(k)'.val)

\* MySQL forgets no row and no column goes back.
DbGrows ==
  \A k \in Keys : db[k] # NoRow => db'[k] # NoRow /\ Behind(db[k], db'[k])

LEMMA BehindSelf == ASSUME NEW v \in Values PROVE Behind(v, v)
BY DEF Behind, Values

LEMMA BehindTrans ==
  ASSUME NEW u \in Values, NEW v \in Values, NEW w \in Values, Behind(u, v), Behind(v, w)
  PROVE  Behind(u, w)
<1>. SUFFICES ASSUME NEW col \in Cols PROVE u[col] <= w[col] BY DEF Behind
<1>1. u[col] \in Nat /\ v[col] \in Nat /\ w[col] \in Nat BY DEF Values
<1>2. u[col] <= v[col] /\ v[col] <= w[col] BY DEF Behind
<1>. QED BY <1>1, <1>2

\* The ways to take a step, with what the scheduling of the savers says of each.
LEMMA NextCases ==
  ASSUME IInv, [Next]_vars
  PROVE  \/ Handlers \/ SetQuit \/ Exit \/ Crash \/ UNCHANGED vars
         \/ \E s \in Savers :
              \/ pc[s] = "idle" /\ StartPass(s, "rows") /\ (s = Loop => ~quit)
              \/ pc[s] = "idle" /\ s = Loop /\ quit /\ StartPass(s, "finalRows")
              \/ SkipPass(s) \/ StopSaving(s) \/ ExecOk(s) \/ ExecFail(s)
              \/ FetchNewRows(s) \/ EndPass(s)
              \/ \E k \in Keys : SaveData(s, k)
<1>1. Loop \in Savers /\ Stopper \in Savers /\ Loop # Stopper
  BY ConstantsAssumption DEF Savers
<1>2. CASE LoopStep BY <1>1, <1>2 DEF LoopStep, BeginPass, BeginLastPass, SaverStep
<1>3. CASE StopperStep BY <1>1, <1>3 DEF StopperStep, SaverStep
<1>4. CASE BeginStop BY <1>1, <1>4 DEF BeginStop, BeginPass
<1>. QED BY <1>2, <1>3, <1>4 DEF Next, Terminated

LEMMA WrittenGrows ==
  ASSUME NEW r \in Row, NEW col \in Cols
  PROVE  Written(r, col) \in Row /\ Behind(r.val, Written(r, col).val)
<1>1. r.val \in [Cols -> Nat] BY DEF Row, Values
<1>2. Written(r, col).val = [r.val EXCEPT ![col] = @ + 1] BY DEF Written
<1>3. \A d \in Cols : r.val[d] <= [r.val EXCEPT ![col] = @ + 1][d] BY <1>1
<1>. QED BY <1>2, <1>3, WrittenType DEF Behind

LEMMA SameMemoryGrows ==
  ASSUME TypeOK, UNCHANGED memory PROVE MemoryGrows
<1>1. \A k \in Keys : HasRow(k) => rows[k].val \in Values
  BY DEF HasRow, TypeOK, Row
<1>2. \A k \in Keys : GetRow(k) # NoRow => GetRow(k).val \in Values
  BY DEF GetRow, HasRow, TypeOK, Row
<1>. QED BY <1>1, <1>2, BehindSelf DEF MemoryGrows, memory, HasRow, GetRow

LEMMA HandlersGrow ==
  ASSUME TypeOK, Handlers PROVE MemoryGrows /\ UNCHANGED failures
<1>0. NoRow \notin Row BY ConstantsAssumption
<1>1. \A k \in Keys : /\ rows[k] # NoRow => rows[k] \in Row /\ Behind(rows[k].val, rows[k].val)
                      /\ newRows[k] # NoRow => newRows[k] \in Row /\ Behind(newRows[k].val, newRows[k].val)
  BY BehindSelf DEF TypeOK, Row
<1>2. ASSUME NEW c \in Clients, AddRow(c) PROVE MemoryGrows /\ UNCHANGED failures
  <2>1. rows' = rows /\ failures' = failures BY <1>2 DEF AddRow
  <2>2. \A k \in Keys : newRows[k] # NoRow => newRows'[k] = newRows[k] BY <1>2 DEF AddRow, TypeOK
  <2>. QED BY <1>1, <2>1, <2>2 DEF MemoryGrows, HasRow, GetRow
<1>3. ASSUME NEW c \in Clients, NEW k \in Keys, CheckRow(c, k)
      PROVE  MemoryGrows /\ UNCHANGED failures
  BY <1>3, SameMemoryGrows DEF CheckRow
<1>4. ASSUME NEW j \in Keys, NEW col \in Cols, SetCol(j, col)
      PROVE  MemoryGrows /\ UNCHANGED failures
  <2>1. rows[j] \in Row BY <1>1, <1>4 DEF SetCol, HasRow
  <2>2. Written(rows[j], col) \in Row /\ Behind(rows[j].val, Written(rows[j], col).val)
    BY <2>1, WrittenGrows
  <2>3. /\ rows'[j] = Written(rows[j], col) /\ \A k \in Keys \ {j} : rows'[k] = rows[k]
        /\ newRows' = newRows /\ failures' = failures
    BY <1>4 DEF SetCol, TypeOK
  <2>4. rows[j] # NoRow /\ rows'[j] # NoRow BY <1>0, <2>1, <2>2, <2>3
  <2>. QED BY <1>1, <2>2, <2>3, <2>4 DEF MemoryGrows, HasRow, GetRow
<1>5. ASSUME NEW j \in Keys, NEW col \in Cols, SetNewCol(j, col)
      PROVE  MemoryGrows /\ UNCHANGED failures
  <2>1. newRows[j] \in Row BY <1>1, <1>5 DEF SetNewCol
  <2>2. Written(newRows[j], col) \in Row /\ Behind(newRows[j].val, Written(newRows[j], col).val)
    BY <2>1, WrittenGrows
  <2>3. /\ newRows'[j] = Written(newRows[j], col) /\ \A k \in Keys \ {j} : newRows'[k] = newRows[k]
        /\ rows' = rows /\ failures' = failures
    BY <1>5 DEF SetNewCol, TypeOK
  <2>4. newRows'[j] # NoRow BY <1>0, <2>2, <2>3
  <2>. QED BY <1>1, <2>2, <2>3, <2>4 DEF MemoryGrows, HasRow, GetRow
<1>. QED BY <1>2, <1>3, <1>4, <1>5 DEF Handlers

LEMMA SaveDataGrows ==
  ASSUME IInv, NEW s \in Savers, NEW k \in Keys, SaveData(s, k)
  PROVE  /\ MemoryGrows /\ HasRow(k) /\ rows[k].val \in Values
         /\ rows'[k] # NoRow /\ rows'[k].val = rows[k].val
         /\ \A j \in Keys \ {k} : rows'[j] = rows[j]
<1>0. NoRow \notin Row /\ TypeOK BY ConstantsAssumption DEF IInv
<1>1. HasRow(k) /\ rows[k] \in Row BY DEF SaveData, IInv, NewIsUnknown, HasRow, TypeOK
<1>2. rows' = [rows EXCEPT ![k] = [rows[k] EXCEPT !.changed = {}, !.new = FALSE]]
  BY <1>0 DEF SaveData, TypeOK
<1>3. /\ rows'[k] = [rows[k] EXCEPT !.changed = {}, !.new = FALSE]
      /\ \A j \in Keys \ {k} : rows'[j] = rows[j]
  BY <1>0, <1>2 DEF TypeOK
<1>4. rows'[k] \in Row /\ rows'[k].val = rows[k].val /\ rows[k].val \in Values
  BY <1>1, <1>3 DEF Row
<1>5. newRows' = newRows BY DEF SaveData
<1>6. \A j \in Keys : /\ rows[j] # NoRow => Behind(rows[j].val, rows[j].val)
                      /\ newRows[j] # NoRow => Behind(newRows[j].val, newRows[j].val)
  BY <1>0, BehindSelf DEF TypeOK, Row
<1>7. MemoryGrows BY <1>0, <1>1, <1>3, <1>4, <1>5, <1>6 DEF MemoryGrows, HasRow, GetRow
<1>. QED BY <1>0, <1>1, <1>3, <1>4, <1>7

LEMMA FetchGrows ==
  ASSUME TypeOK, NEW s \in Savers, FetchNewRows(s) PROVE MemoryGrows
<1>1. \A k \in Keys : /\ rows'[k] = IF k \in Fetched THEN newRows[k] ELSE rows[k]
                      /\ newRows'[k] = IF k \in Fetched THEN NoRow ELSE newRows[k]
  BY DEF FetchNewRows
<1>2. \A k \in Keys : k \in Fetched <=> newRows[k] # NoRow /\ rows[k] = NoRow
  BY DEF Fetched, HasRow
<1>3. \A k \in Keys : /\ rows[k] # NoRow => Behind(rows[k].val, rows[k].val)
                      /\ newRows[k] # NoRow => Behind(newRows[k].val, newRows[k].val)
  BY BehindSelf DEF TypeOK, Row
<1>. QED BY <1>1, <1>2, <1>3 DEF MemoryGrows, HasRow, GetRow

\* Only a crash makes memory forget.
LEMMA NextGrows ==
  ASSUME IInv, [Next]_vars, ~Crash PROVE MemoryGrows
<1>0. TypeOK BY DEF IInv
<1>1. CASE Handlers BY <1>0, <1>1, HandlersGrow
<1>2. CASE SetQuit \/ Exit \/ UNCHANGED vars
  BY <1>0, <1>2, SameMemoryGrows DEF SetQuit, Exit, vars
<1>3. ASSUME NEW s \in Savers,
             \/ StartPass(s, "rows") \/ StartPass(s, "finalRows") \/ SkipPass(s)
             \/ StopSaving(s) \/ ExecOk(s) \/ ExecFail(s) \/ EndPass(s)
      PROVE  MemoryGrows
  BY <1>0, <1>3, SameMemoryGrows
     DEF StartPass, SkipPass, StopSaving, ExecOk, ExecFail, EndPass, AfterPass
<1>4. ASSUME NEW s \in Savers, FetchNewRows(s) PROVE MemoryGrows
  BY <1>0, <1>4, FetchGrows
<1>5. ASSUME NEW s \in Savers, NEW k \in Keys, SaveData(s, k) PROVE MemoryGrows
  BY <1>5, SaveDataGrows
<1>. QED BY <1>1, <1>2, <1>3, <1>4, <1>5, NextCases

\* MySQL is behind memory, and the statement between them: steps that leave MySQL
\* alone and build no statement.
LEMMA AheadFrame ==
  ASSUME IInv, TypeOK', NeverAhead, MemoryGrows, db' = db, ~overlapped' => ~overlapped,
         \A s \in Savers : stmt'[s] = stmt[s] \/ stmt'[s] = NoRow
  PROVE  NeverAhead'
<1>. SUFFICES ASSUME ~overlapped'
              PROVE  /\ \A k \in Keys : db[k] # NoRow => Behind(db[k], rows'[k].val)
                     /\ \A s \in Savers : stmt'[s] # NoRow =>
                          /\ Behind(stmt[s].val, rows'[stmt[s].key].val)
                          /\ db[stmt[s].key] # NoRow => Behind(db[stmt[s].key], stmt[s].val)
  BY DEF NeverAhead, Behind
<1>1. \A k \in Keys : HasRow(k) =>
        /\ rows[k].val \in Values /\ rows'[k].val \in Values
        /\ Behind(rows[k].val, rows'[k].val)
  BY DEF IInv, TypeOK, Row, HasRow, MemoryGrows
<1>2. ASSUME NEW k \in Keys, db[k] # NoRow PROVE Behind(db[k], rows'[k].val)
  <2>1. HasRow(k) /\ db[k] \in Values BY <1>2 DEF IInv, NewIsUnknown, TypeOK
  <2>2. Behind(db[k], rows[k].val) BY <1>2 DEF NeverAhead
  <2>. QED BY <1>1, <2>1, <2>2, BehindTrans
<1>3. ASSUME NEW s \in Savers, stmt[s] # NoRow
      PROVE  /\ Behind(stmt[s].val, rows'[stmt[s].key].val)
             /\ db[stmt[s].key] # NoRow => Behind(db[stmt[s].key], stmt[s].val)
  <2>1. stmt[s] \in Stmt /\ stmt[s].key \in Keys /\ stmt[s].val \in Values
    BY <1>3 DEF IInv, TypeOK, Stmt
  <2>2. HasRow(stmt[s].key) BY <1>3, <2>1 DEF IInv, NewIsUnknown, Pending
  <2>3. /\ Behind(stmt[s].val, rows[stmt[s].key].val)
        /\ db[stmt[s].key] # NoRow => Behind(db[stmt[s].key], stmt[s].val)
    BY <1>3 DEF NeverAhead
  <2>. QED BY <1>1, <2>1, <2>2, <2>3, BehindTrans
<1>. QED BY <1>2, <1>3

LEMMA SameDbGrows == ASSUME TypeOK, db' = db PROVE DbGrows
BY BehindSelf DEF DbGrows, TypeOK

LEMMA SaveDataAhead ==
  ASSUME IInv, NeverAhead, NEW s \in Savers, NEW k \in Keys, SaveData(s, k)
  PROVE  NeverAhead' /\ DbGrows
<1>. SUFFICES ASSUME ~overlapped' PROVE NeverAhead'
  BY SameDbGrows DEF SaveData, NeverAhead, IInv
<1>1. /\ ~overlapped /\ db' = db /\ InPass(s)
      /\ \A t \in Savers \ {s} : stmt[t] = NoRow /\ stmt'[t] = NoRow
  BY DEF SaveData, IInv, TypeOK, PassesAlone
<1>2. /\ rows[k].val \in Values /\ rows'[k].val = rows[k].val
      /\ \A j \in Keys \ {k} : rows'[j] = rows[j]
  BY SaveDataGrows
<1>3. \A j \in Keys : db[j] # NoRow => Behind(db[j], rows[j].val)
  BY <1>1 DEF NeverAhead
<1>4. stmt'[s] # NoRow => stmt'[s].key = k /\ stmt'[s].val = rows[k].val
  BY DEF SaveData, IInv, TypeOK
<1>5. Behind(rows[k].val, rows[k].val) BY <1>2, BehindSelf
<1>6. \A j \in Keys : db'[j] # NoRow => Behind(db'[j], rows'[j].val)
  BY <1>1, <1>2, <1>3
<1>7. \A t \in Savers : stmt'[t] # NoRow =>
        /\ Behind(stmt'[t].val, rows'[stmt'[t].key].val)
        /\ db'[stmt'[t].key] # NoRow => Behind(db'[stmt'[t].key], stmt'[t].val)
  BY <1>1, <1>2, <1>3, <1>4, <1>5
<1>. QED BY <1>6, <1>7 DEF NeverAhead, Behind

LEMMA ExecOkAhead ==
  ASSUME IInv, NeverAhead, NEW s \in Savers, ExecOk(s), ~overlapped
  PROVE  NeverAhead' /\ DbGrows
<1>1. stmt[s] \in Stmt /\ stmt[s] # NoRow /\ InPass(s)
  BY DEF ExecOk, IInv, TypeOK, PassesAlone
<1>2. PICK q \in Stmt : q = stmt[s] BY <1>1
<1>3. PICK k \in Keys : k = q.key BY DEF Stmt
<1>4. q.val \in Values /\ NoRow \notin Values BY ConstantsAssumption DEF Stmt
<1>5. /\ rows' = rows
      /\ db'[k] = Applied(q) /\ \A j \in Keys \ {k} : db'[j] = db[j]
      /\ \A t \in Savers : stmt'[t] = NoRow
  BY <1>1, <1>2, <1>3 DEF ExecOk, memory, IInv, TypeOK, PassesAlone
<1>6. /\ \A j \in Keys : db[j] # NoRow => db[j] \in Values /\ Behind(db[j], rows[j].val)
      /\ Behind(q.val, rows[k].val) /\ (db[k] # NoRow => Behind(db[k], q.val))
  BY <1>1, <1>2, <1>3 DEF NeverAhead, IInv, TypeOK
<1>7. CASE q.insert
  <2>1. db[k] = NoRow /\ db'[k] = q.val BY <1>2, <1>3, <1>5, <1>7 DEF ExecOk, Refused, Applied
  <2>2. DbGrows BY <1>5, <1>6, <2>1, BehindSelf DEF DbGrows
  <2>3. \A j \in Keys : db'[j] # NoRow => Behind(db'[j], rows'[j].val)
    BY <1>5, <1>6, <2>1
  <2>. QED BY <1>5, <2>2, <2>3 DEF NeverAhead, Behind
<1>8. CASE ~q.insert /\ db[k] = NoRow
  <2>1. db'[k] = NoRow BY <1>3, <1>5, <1>8 DEF Applied
  <2>2. DbGrows BY <1>5, <1>6, <1>8, BehindSelf DEF DbGrows
  <2>3. \A j \in Keys : db'[j] # NoRow => Behind(db'[j], rows'[j].val)
    BY <1>5, <1>6, <2>1
  <2>. QED BY <1>5, <2>2, <2>3 DEF NeverAhead, Behind
<1>9. CASE ~q.insert /\ db[k] # NoRow
  <2>1. db'[k] = [col \in Cols |-> IF col \in q.cols THEN q.val[col] ELSE db[k][col]]
    BY <1>3, <1>5, <1>9 DEF Applied
  <2>2. db[k] \in Values BY <1>6, <1>9
  <2>3. db'[k] \in Values BY <1>4, <2>1, <2>2 DEF Values
  <2>4. \A col \in Cols : /\ db[k][col] \in Nat /\ q.val[col] \in Nat
                          /\ db[k][col] <= q.val[col] /\ db[k][col] <= rows[k].val[col]
                          /\ q.val[col] <= rows[k].val[col]
    BY <1>4, <1>6, <1>9, <2>2 DEF Behind, Values
  <2>5. Behind(db[k], db'[k]) /\ Behind(db'[k], rows[k].val) BY <2>1, <2>4 DEF Behind
  <2>6. DbGrows BY <1>4, <1>5, <1>6, <2>3, <2>5, BehindSelf DEF DbGrows
  <2>7. \A j \in Keys : db'[j] # NoRow => Behind(db'[j], rows'[j].val)
    BY <1>5, <1>6, <2>5
  <2>. QED BY <1>5, <2>6, <2>7 DEF NeverAhead, Behind
<1>. QED BY <1>7, <1>8, <1>9

LEMMA CrashAhead == ASSUME IInv, Crash PROVE NeverAhead' /\ DbGrows
<1>1. TypeOK /\ db' = db /\ \A s \in Savers : stmt'[s] = NoRow BY DEF Crash, IInv
<1>2. \A k \in Keys : db[k] # NoRow => rows'[k].val = db[k] /\ Behind(db[k], db[k])
  BY <1>1, BehindSelf DEF Crash, Preloaded, TypeOK
<1>. QED BY <1>1, <1>2, SameDbGrows DEF NeverAhead, Behind

LEMMA NextAhead ==
  ASSUME IInv, NeverAhead, [Next]_vars
  PROVE  NeverAhead' /\ (~overlapped' => DbGrows)
<1>0. IInv' /\ TypeOK /\ TypeOK' BY NextInv DEF IInv
<1>1. CASE Crash BY <1>1, CrashAhead
<1>2. CASE ~Crash
  <2>0. MemoryGrows BY <1>2, NextGrows
  <2>1. CASE Handlers
    <3>1. UNCHANGED <<db, stmt, overlapped>> BY <2>1, HandlersKeep DEF control
    <3>. QED BY <1>0, <2>0, <3>1, AheadFrame, SameDbGrows
  <2>2. CASE SetQuit \/ Exit \/ UNCHANGED vars
    <3>1. UNCHANGED <<db, stmt, overlapped>> BY <2>2 DEF SetQuit, Exit, vars, control
    <3>. QED BY <1>0, <2>0, <3>1, AheadFrame, SameDbGrows
  <2>3. ASSUME NEW s \in Savers,
               \/ StartPass(s, "rows") \/ StartPass(s, "finalRows") \/ SkipPass(s)
               \/ StopSaving(s) \/ FetchNewRows(s) \/ EndPass(s)
        PROVE  NeverAhead' /\ DbGrows
    <3>1. UNCHANGED <<db, stmt>>
      BY <2>3 DEF StartPass, SkipPass, StopSaving, FetchNewRows, EndPass, AfterPass
    <3>2. ~overlapped' => ~overlapped
      BY <2>3 DEF StartPass, SkipPass, StopSaving, FetchNewRows, EndPass, AfterPass
    <3>. QED BY <1>0, <2>0, <3>1, <3>2, AheadFrame, SameDbGrows
  <2>4. ASSUME NEW s \in Savers, ExecFail(s) PROVE NeverAhead' /\ DbGrows
    <3>1. /\ UNCHANGED <<db, overlapped>>
          /\ \A t \in Savers : stmt'[t] = stmt[t] \/ stmt'[t] = NoRow
      BY <1>0, <2>4 DEF ExecFail, TypeOK, control
    <3>. QED BY <1>0, <2>0, <3>1, AheadFrame, SameDbGrows
  <2>5. ASSUME NEW s \in Savers, ExecOk(s) PROVE NeverAhead' /\ (~overlapped' => DbGrows)
    <3>1. overlapped' = overlapped BY <2>5 DEF ExecOk, control
    <3>. QED BY <2>5, <3>1, ExecOkAhead DEF NeverAhead
  <2>6. ASSUME NEW s \in Savers, NEW k \in Keys, SaveData(s, k) PROVE NeverAhead' /\ DbGrows
    BY <2>6, SaveDataAhead
  <2>. QED BY <1>2, <2>1, <2>2, <2>3, <2>4, <2>5, <2>6, NextCases
<1>. QED BY <1>1, <1>2

\* Where a pass of s may leave it (SkipPass, EndPass).
LEMMA AfterPassLate ==
  ASSUME IInv, QuitIsLate, NEW s \in Savers, AfterPass(s), failures = 0 \/ failures' # 0,
         pc[s] = "idle" \/ InPass(s)
  PROVE  /\ QuitIsLate' /\ ~Quick(s)'
         /\ InPass(s) /\ ~Quick(s) => completed' = completed
         /\ Quick(s) => s = Loop
<1>1. /\ \A t \in Savers \ {s} : pc'[t] = pc[t]
      /\ pc'[s] = IF s = Stopper THEN "passed"
                  ELSE IF Quick(s) \/ (quit /\ ~InPass(s)) THEN "done" ELSE "idle"
      /\ completed' = (completed \/ (s = Loop /\ pc'[s] = "done"))
      /\ quit' = quit /\ failed' = failed
  BY DEF AfterPass, IInv, TypeOK
<1>2. Loop \in Savers /\ Stopper \in Savers /\ Loop # Stopper
  BY ConstantsAssumption DEF Savers
<1>3. s = Stopper => ~quit
  BY DEF QuitIsLate, InPass, Phases, RowPhases, NewPhases
<1>4. \A t \in Savers : Quick(t) => t = Loop /\ quit BY DEF QuitIsLate
<1>5. quit' => pc'[Stopper] \in {"waiting", "done"} BY <1>1, <1>2, <1>3 DEF QuitIsLate
<1>6. ~Quick(s)' /\ \A t \in Savers \ {s} : Quick(t)' = Quick(t) BY <1>1 DEF Quick
<1>7. pc'[s] = "done" => quit BY <1>1, <1>4
<1>8. completed' => quit' BY <1>1, <1>7 DEF QuitIsLate
<1>9. failures' = 0 => failed' = {} BY <1>1 DEF QuitIsLate
<1>10. \A t \in Savers : Quick(t)' => t = Loop /\ quit' BY <1>1, <1>4, <1>6
<1>11. InPass(s) /\ ~Quick(s) => completed' = completed
  <2>1. pc'[s] # "done" \/ ~InPass(s) \/ Quick(s) BY <1>1
  <2>. QED BY <1>1, <2>1 DEF IInv, TypeOK
<1>. QED BY <1>4, <1>5, <1>6, <1>8, <1>9, <1>10, <1>11 DEF QuitIsLate

LEMMA NextLate ==
  ASSUME IInv, QuitIsLate, [Next]_vars PROVE QuitIsLate'
<1>0. TypeOK /\ Loop \in Savers /\ Stopper \in Savers /\ Loop # Stopper
  BY ConstantsAssumption DEF Savers, IInv
<1>1. CASE Handlers \/ UNCHANGED vars
  <2>1. CASE Handlers
    <3>1. UNCHANGED <<pc, quit, completed, failed, failures>>
      BY <1>0, <2>1, HandlersKeep, HandlersGrow DEF control
    <3>. QED BY <3>1 DEF QuitIsLate, Quick
  <2>2. CASE UNCHANGED vars BY <2>2 DEF QuitIsLate, Quick, vars, control
  <2>. QED BY <1>1, <2>1, <2>2
<1>2. CASE SetQuit
  <2>1. pc'[Stopper] = "waiting" /\ quit' = TRUE /\ \A s \in Savers \ {Stopper} : pc'[s] = pc[s]
    BY <1>0, <1>2 DEF SetQuit, TypeOK
  <2>2. UNCHANGED <<completed, failed, failures>> BY <1>2 DEF SetQuit
  <2>. QED BY <1>0, <2>1, <2>2 DEF QuitIsLate, Quick
<1>3. CASE Exit
  <2>1. pc'[Stopper] = "done" /\ \A s \in Savers \ {Stopper} : pc'[s] = pc[s]
    BY <1>0, <1>3 DEF Exit, TypeOK
  <2>2. UNCHANGED <<quit, completed, failed, failures>> BY <1>3 DEF Exit
  <2>. QED BY <1>0, <2>1, <2>2 DEF QuitIsLate, Quick
<1>4. CASE Crash
  <2>1. /\ quit' = FALSE /\ completed' = FALSE /\ failed' = {}
        /\ \A s \in Savers : pc'[s] = "idle"
    BY <1>4 DEF Crash
  <2>. QED BY <1>0, <2>1 DEF QuitIsLate, Quick
<1>5. ASSUME NEW s \in Savers, pc[s] = "idle",
             \/ StartPass(s, "rows")
             \/ s = Loop /\ quit /\ StartPass(s, "finalRows")
      PROVE  QuitIsLate'
  <2>1. /\ pc'[s] = "rows" \/ (s = Loop /\ quit /\ pc'[s] = "finalRows")
        /\ \A t \in Savers \ {s} : pc'[t] = pc[t]
        /\ UNCHANGED <<quit, completed, failed, failures>>
    BY <1>0, <1>5 DEF StartPass, TypeOK
  <2>. QED BY <1>0, <1>5, <2>1 DEF QuitIsLate, Quick
<1>6. ASSUME NEW s \in Savers, StopSaving(s) \/ ExecOk(s) \/ \E k \in Keys : SaveData(s, k)
      PROVE  QuitIsLate'
  <2>1. UNCHANGED <<pc, quit, completed, failed, failures>>
    BY <1>6 DEF StopSaving, ExecOk, SaveData, control
  <2>. QED BY <2>1 DEF QuitIsLate, Quick
<1>7. ASSUME NEW s \in Savers, ExecFail(s) PROVE QuitIsLate'
  <2>1. UNCHANGED <<pc, quit, completed>> /\ failures' # 0
    BY <1>0, <1>7 DEF ExecFail, control, TypeOK
  <2>. QED BY <2>1 DEF QuitIsLate, Quick
<1>8. ASSUME NEW s \in Savers, FetchNewRows(s) PROVE QuitIsLate'
  <2>1. /\ pc[s] \in RowPhases /\ pc'[s] = IF Quick(s) THEN "finalNew" ELSE "new"
        /\ \A t \in Savers \ {s} : pc'[t] = pc[t]
        /\ UNCHANGED <<quit, completed, failed, failures>>
    BY <1>0, <1>8 DEF FetchNewRows, TypeOK
  <2>2. \A t \in Savers : Quick(t)' = Quick(t) BY <2>1 DEF Quick, RowPhases
  <2>3. s = Stopper => ~quit BY <2>1 DEF QuitIsLate, RowPhases
  <2>. QED BY <1>0, <2>1, <2>2, <2>3 DEF QuitIsLate
<1>9. ASSUME NEW s \in Savers, SkipPass(s) \/ EndPass(s) PROVE QuitIsLate'
  <2>1. AfterPass(s) /\ (pc[s] = "idle" \/ InPass(s))
    BY <1>9 DEF SkipPass, EndPass, InPass, Phases
  <2>2. failures = 0 \/ failures' # 0 BY <1>0, <1>9 DEF SkipPass, EndPass, TypeOK
  <2>. QED BY <2>1, <2>2, AfterPassLate
<1>. QED BY <1>1, <1>2, <1>3, <1>4, <1>5, <1>6, <1>7, <1>8, <1>9, NextCases

LEMMA NextKept ==
  ASSUME IInv, QuitIsLate, QuitIsKept, [Next]_vars
  PROVE  /\ QuitIsKept'
         /\ ~SetQuit /\ ~Crash => UNCHANGED <<quit, atQuit>>
<1>0. TypeOK /\ TypeOK' BY NextInv DEF IInv
<1>1. CASE Crash BY <1>1 DEF Crash, QuitIsKept
<1>2. CASE SetQuit
  <2>2. UNCHANGED memory /\ quit' = TRUE BY <1>2 DEF SetQuit
  <2>3. \A k \in Keys : atQuit'[k] = IF GetRow(k) = NoRow THEN NoRow ELSE GetRow(k).val
    BY <1>2 DEF SetQuit
  <2>4. \A k \in Keys : GetRow(k)' = GetRow(k) BY <2>2 DEF GetRow, HasRow, memory
  <2>5. \A k \in Keys : GetRow(k) # NoRow => Behind(GetRow(k).val, GetRow(k).val)
    BY <1>0, BehindSelf DEF GetRow, HasRow, TypeOK, Row
  <2>6. QuitIsKept' BY <2>2, <2>3, <2>4, <2>5 DEF QuitIsKept, Behind
  <2>. QED BY <1>2, <2>6
<1>3. CASE ~Crash /\ ~SetQuit
  <2>1. UNCHANGED <<quit, atQuit>>
    <3>1. CASE Handlers BY <3>1, HandlersKeep DEF control
    <3>2. CASE Exit \/ UNCHANGED vars BY <3>2 DEF Exit, vars, control
    <3>3. ASSUME NEW s \in Savers,
                 \/ StartPass(s, "rows") \/ StartPass(s, "finalRows") \/ SkipPass(s)
                 \/ StopSaving(s) \/ ExecOk(s) \/ ExecFail(s) \/ EndPass(s)
                 \/ FetchNewRows(s) \/ \E k \in Keys : SaveData(s, k)
          PROVE  UNCHANGED <<quit, atQuit>>
      BY <3>3 DEF StartPass, SkipPass, StopSaving, ExecOk, ExecFail, EndPass, AfterPass,
                  FetchNewRows, SaveData, control
    <3>. QED BY <1>3, <3>1, <3>2, <3>3, NextCases
  <2>2. MemoryGrows BY <1>3, NextGrows
  <2>3. ASSUME NEW k \in Keys, atQuit'[k] # NoRow
        PROVE  quit' /\ GetRow(k)' # NoRow /\ Behind(atQuit'[k], GetRow(k)'.val)
    <3>1. atQuit'[k] = atQuit[k] /\ quit' = quit BY <2>1
    <3>2. quit /\ GetRow(k) # NoRow /\ Behind(atQuit[k], GetRow(k).val)
      BY <2>3, <3>1 DEF QuitIsKept
    <3>3. GetRow(k)' # NoRow /\ Behind(GetRow(k).val, GetRow(k)'.val) BY <2>2, <3>2 DEF MemoryGrows
    <3>4. atQuit[k] \in Values /\ GetRow(k).val \in Values
      BY <1>0, <2>3, <3>1, <3>2 DEF TypeOK, Row, GetRow, HasRow
    <3>5. GetRow(k)'.val \in Values BY <1>0, <3>3 DEF TypeOK, Row, GetRow, HasRow
    <3>. QED BY <3>1, <3>2, <3>3, <3>4, <3>5, BehindTrans
  <2>4. QuitIsKept' BY <2>3 DEF QuitIsKept, Behind
  <2>. QED BY <2>1, <2>4
<1>. QED BY <1>1, <1>2, <1>3

\* What LastPassCovers says of one key.
Covers(k) ==
  /\ completed => SavedRow(k)
  /\ Quick(Loop) => \/ SavedRow(k) \/ SavingRow(k) \/ k \in todo[Loop]
                    \/ pc[Loop] = "finalRows" /\ ~HasRow(k)

\* A row that is in MySQL stays as good as it is.
LEMMA SavedStays ==
  ASSUME TypeOK, TypeOK', DbGrows, NEW k \in Keys, atQuit[k] # NoRow, atQuit'[k] = atQuit[k],
         SavedRow(k)
  PROVE  SavedRow(k)'
<1>1. db[k] # NoRow /\ db'[k] # NoRow /\ Behind(db[k], db'[k]) BY DEF SavedRow, DbGrows
<1>2. db[k] \in Values /\ db'[k] \in Values /\ atQuit[k] \in Values BY <1>1 DEF TypeOK
<1>3. Behind(atQuit[k], db'[k]) BY <1>1, <1>2, BehindTrans DEF SavedRow
<1>. QED BY <1>1, <1>3 DEF SavedRow, Behind

\* Steps that move nothing of the last pass.
LEMMA CoversFrame ==
  ASSUME NEW k \in Keys, Covers(k),
         UNCHANGED <<db, atQuit, completed>>, stmt'[Loop] = stmt[Loop],
         todo'[Loop] = todo[Loop], pc'[Loop] = pc[Loop], HasRow(k)' = HasRow(k)
  PROVE  Covers(k)'
<1>1. SavedRow(k) => SavedRow(k)' BY DEF SavedRow, Behind
<1>2. SavingRow(k) => SavingRow(k)' BY DEF SavingRow
<1>3. Quick(Loop)' = Quick(Loop) BY DEF Quick
<1>. QED BY <1>1, <1>2, <1>3 DEF Covers

\* save_data: the statement and the clean columns bring the whole row.
LEMMA SaveDataCovers ==
  ASSUME IInv, QuitIsLate, QuitIsKept, ~overlapped, failures = 0,
         NEW j \in Keys, SaveData(Loop, j),
         NEW k \in Keys, atQuit[k] # NoRow, Covers(k)
  PROVE  Covers(k)'
<1>0. TypeOK /\ Loop \in Savers BY DEF IInv, Savers
<1>1. /\ UNCHANGED <<db, atQuit, completed, pc>> /\ stmt[Loop] = NoRow /\ InPass(Loop)
      /\ todo'[Loop] = todo[Loop] \ {j}
  BY <1>0 DEF SaveData, TypeOK
<1>2. SavedRow(k) => SavedRow(k)' BY <1>1 DEF SavedRow, Behind
<1>3. HasRow(k)' = HasRow(k) BY <1>0, SaveDataGrows DEF HasRow
<1>4. Quick(Loop)' = Quick(Loop) /\ ~SavingRow(k) BY <1>1 DEF Quick, SavingRow
<1>5. CASE k # j BY <1>1, <1>2, <1>3, <1>4, <1>5 DEF Covers
<1>6. CASE k = j
  <2>1. HasRow(k) /\ rows[k].val \in Values /\ Behind(atQuit[k], rows[k].val)
    BY <1>0, <1>6, SaveDataGrows DEF QuitIsKept, GetRow
  <2>2. \A t \in Savers : stmt[t] = NoRow BY <1>0, <1>1 DEF IInv, PassesAlone
  <2>3. ~rows[k].new => /\ db[k] # NoRow
                        /\ \A col \in Cols \ rows[k].changed : db[k][col] = rows[k].val[col]
    BY <2>1, <2>2 DEF IInv, CleanMeansStored, Pending, QuitIsLate
  <2>4. CASE rows[k].new \/ rows[k].changed # {}
    <3>1. stmt'[Loop] = [key |-> k, val |-> rows[k].val, insert |-> rows[k].new,
                         cols |-> IF rows[k].new THEN Cols ELSE rows[k].changed]
      BY <1>0, <1>6, <2>4 DEF SaveData, TypeOK
    <3>2. rows[k] \in Row BY <1>0, <2>1 DEF TypeOK, HasRow
    <3>3. stmt'[Loop] \in Stmt /\ stmt'[Loop] # NoRow
      BY <2>1, <3>1, <3>2, ConstantsAssumption DEF Stmt, Row
    <3>4. \A col \in Cols : atQuit'[k][col] <= IF col \in stmt'[Loop].cols THEN stmt'[Loop].val[col] ELSE db'[k][col]
      BY <1>1, <2>1, <2>3, <3>1 DEF Behind
    <3>5. SavingRow(k)' BY <1>1, <2>3, <3>1, <3>3, <3>4 DEF SavingRow
    <3>. QED BY <1>1, <1>2, <1>4, <3>5 DEF Covers
  <2>5. CASE ~rows[k].new /\ rows[k].changed = {}
    <3>1. db[k] # NoRow /\ \A col \in Cols : db[k][col] = rows[k].val[col] BY <2>3, <2>5
    <3>2. SavedRow(k)' BY <1>1, <2>1, <3>1 DEF SavedRow, Behind
    <3>. QED BY <3>2 DEF Covers
  <2>. QED BY <2>4, <2>5
<1>. QED BY <1>5, <1>6

\* DBC.StmtExec: the statement arrives.
LEMMA ExecOkCovers ==
  ASSUME IInv, TypeOK', DbGrows, ExecOk(Loop),
         NEW k \in Keys, atQuit[k] # NoRow, Covers(k)
  PROVE  Covers(k)'
<1>0. TypeOK /\ Loop \in Savers /\ NoRow \notin Values BY ConstantsAssumption DEF IInv, Savers
<1>1. stmt[Loop] \in Stmt /\ stmt[Loop] # NoRow BY <1>0 DEF ExecOk, TypeOK
<1>2. UNCHANGED <<rows, atQuit, completed, pc, todo>> BY DEF ExecOk, memory, control
<1>3. SavedRow(k) => SavedRow(k)' BY <1>0, <1>2, SavedStays
<1>4. ASSUME SavingRow(k) PROVE SavedRow(k)'
  <2>1. PICK q \in Stmt : q = stmt[Loop] BY <1>1
  <2>2. /\ q.key = k /\ (q.insert \/ db[k] # NoRow) /\ q.val \in Values
        /\ \A col \in Cols : atQuit[k][col] <= IF col \in q.cols THEN q.val[col] ELSE db[k][col]
    BY <1>4, <2>1 DEF SavingRow, Stmt
  <2>3. db'[k] = Applied(q) BY <1>0, <2>1, <2>2 DEF ExecOk, TypeOK
  <2>4. CASE q.insert
    <3>1. db'[k] = q.val /\ q.cols = Cols BY <1>0, <1>1, <2>1, <2>3, <2>4 DEF Applied, IInv, OneInsert
    <3>. QED BY <1>0, <1>2, <2>2, <3>1 DEF SavedRow, Behind
  <2>5. CASE ~q.insert
    <3>1. db'[k] = [col \in Cols |-> IF col \in q.cols THEN q.val[col] ELSE db[k][col]]
      BY <2>2, <2>3, <2>5 DEF Applied
    <3>2. db'[k] # NoRow BY <2>2, <2>5 DEF DbGrows
    <3>3. \A col \in Cols : atQuit[k][col] <= db'[k][col] BY <2>2, <3>1
    <3>. QED BY <1>2, <3>2, <3>3 DEF SavedRow, Behind
  <2>. QED BY <2>4, <2>5
<1>5. Quick(Loop)' = Quick(Loop) /\ HasRow(k)' = HasRow(k) BY <1>2 DEF Quick, HasRow
<1>. QED BY <1>2, <1>3, <1>4, <1>5 DEF Covers

\* fetch_new_rows of the last pass takes every row that it did not know.
LEMMA FetchCovers ==
  ASSUME IInv, QuitIsKept, FetchNewRows(Loop),
         NEW k \in Keys, atQuit[k] # NoRow, Covers(k)
  PROVE  Covers(k)'
<1>0. TypeOK /\ Loop \in Savers BY DEF IInv, Savers
<1>1. /\ UNCHANGED <<db, atQuit, completed>> /\ stmt[Loop] = NoRow /\ todo[Loop] = {}
      /\ pc[Loop] \in RowPhases /\ todo'[Loop] = Fetched
      /\ pc'[Loop] = IF Quick(Loop) THEN "finalNew" ELSE "new"
  BY <1>0 DEF FetchNewRows, TypeOK
<1>2. SavedRow(k) => SavedRow(k)' BY <1>1 DEF SavedRow, Behind
<1>3. Quick(Loop)' => Quick(Loop) BY <1>1 DEF Quick
<1>4. ~SavingRow(k) BY <1>1 DEF SavingRow
<1>5. ~HasRow(k) => k \in Fetched BY DEF QuitIsKept, GetRow, Fetched
<1>. QED BY <1>1, <1>2, <1>3, <1>4, <1>5 DEF Covers

\* DBC.Loop ends.
LEMMA EndCovers ==
  ASSUME IInv, QuitIsLate, EndPass(Loop), NEW k \in Keys, Covers(k)
  PROVE  Covers(k)'
<1>0. TypeOK /\ Loop \in Savers BY DEF IInv, Savers
<1>1. /\ AfterPass(Loop) /\ InPass(Loop) /\ pc[Loop] \in NewPhases /\ failures' = failures
      /\ UNCHANGED <<db, atQuit>> /\ stmt[Loop] = NoRow /\ todo[Loop] = {}
  BY DEF EndPass, AfterPass, InPass, Phases
<1>2. failures = 0 \/ failures' # 0 BY <1>1
<1>3. ~Quick(Loop)' /\ (~Quick(Loop) => completed' = completed) BY <1>0, <1>1, <1>2, AfterPassLate
<1>4. SavedRow(k) => SavedRow(k)' BY <1>1 DEF SavedRow, Behind
<1>5. Quick(Loop) => SavedRow(k) BY <1>1 DEF Covers, SavingRow, NewPhases
<1>. QED BY <1>3, <1>4, <1>5 DEF Covers

LEMMA NextCovers ==
  ASSUME IInv, ExitInv, [Next]_vars PROVE LastPassCovers'
<1>. SUFFICES ASSUME ~overlapped', failures' = 0, NEW k \in Keys, atQuit'[k] # NoRow
              PROVE  Covers(k)'
  BY DEF LastPassCovers, Covers
<1>. USE DEF ExitInv
<1>0. /\ TypeOK /\ TypeOK' /\ DbGrows /\ Loop \in Savers /\ Stopper \in Savers /\ Loop # Stopper
  BY ConstantsAssumption, NextInv, NextAhead DEF IInv, Savers
<1>1. CASE SetQuit
  <2>1. ~quit /\ ~completed /\ ~Quick(Loop) BY <1>0, <1>1 DEF SetQuit, QuitIsLate
  <2>2. completed' = completed /\ pc'[Loop] = pc[Loop] BY <1>0, <1>1 DEF SetQuit, TypeOK
  <2>. QED BY <2>1, <2>2 DEF Covers, Quick
<1>2. CASE Crash BY <1>2 DEF Crash
<1>3. CASE ~SetQuit /\ ~Crash
  <2>0. atQuit' = atQuit /\ quit' = quit BY <1>3, NextKept
  <2>1. quit /\ atQuit[k] # NoRow /\ pc[Stopper] \in {"waiting", "done"}
    BY <2>0 DEF QuitIsKept, QuitIsLate
  <2>2. ~InPass(Stopper) /\ stmt[Stopper] = NoRow
    BY <1>0, <2>1 DEF InPass, Phases, RowPhases, NewPhases, IInv, PassesAlone
  <2>3. CASE Handlers
    <3>1. UNCHANGED <<db, control, stmt, failures>> /\ HasRow(k)' = HasRow(k)
      BY <1>0, <2>3, HandlersKeep, HandlersGrow DEF HasRow
    <3>2. Covers(k) BY <2>1, <3>1 DEF LastPassCovers, Covers, control
    <3>. QED BY <3>1, <3>2, CoversFrame DEF control
  <2>4. CASE Exit
    <3>1. /\ UNCHANGED <<memory, db, stmt, todo, completed, overlapped, failures>>
          /\ pc'[Loop] = pc[Loop]
      BY <1>0, <2>4 DEF Exit, TypeOK
    <3>2. Covers(k) BY <2>1, <3>1 DEF LastPassCovers, Covers
    <3>. QED BY <2>0, <3>1, <3>2, CoversFrame DEF HasRow, memory
  <2>5. CASE UNCHANGED vars
    <3>1. Covers(k) BY <2>1, <2>5 DEF LastPassCovers, Covers, vars, control
    <3>. QED BY <2>5, <3>1, CoversFrame DEF vars, memory, control, HasRow
  <2>6. ASSUME NEW s \in Savers, pc[s] = "idle",
               \/ StartPass(s, "rows") /\ (s = Loop => ~quit)
               \/ s = Loop /\ quit /\ StartPass(s, "finalRows")
        PROVE  Covers(k)'
    <3>1. s = Loop /\ StartPass(Loop, "finalRows") BY <2>1, <2>6 DEF Savers
    <3>2. /\ UNCHANGED <<memory, db, completed, failures>> /\ ~overlapped
          /\ pc'[Loop] = "finalRows" /\ todo'[Loop] = {j \in Keys : HasRow(j)}
      BY <1>0, <3>1 DEF StartPass, TypeOK
    <3>3. completed => SavedRow(k) BY <2>1, <3>2 DEF LastPassCovers
    <3>4. completed' => SavedRow(k)' BY <2>0, <3>2, <3>3 DEF SavedRow, Behind
    <3>5. HasRow(k)' = HasRow(k) BY <3>2 DEF HasRow, memory
    <3>. QED BY <3>2, <3>4, <3>5 DEF Covers
  <2>7. ASSUME NEW s \in Savers, SkipPass(s) \/ StopSaving(s) \/ ExecFail(s) PROVE Covers(k)'
    <3>1. ~SkipPass(s) /\ ~ExecFail(s) BY <1>0 DEF SkipPass, ExecFail, TypeOK
    <3>2. StopSaving(s) /\ s = Loop /\ ~Quick(Loop) BY <2>2, <2>7, <3>1 DEF StopSaving, Savers
    <3>3. UNCHANGED <<db, pc, completed, overlapped, failures>> BY <3>2 DEF StopSaving
    <3>4. completed => SavedRow(k) BY <2>1, <3>3 DEF LastPassCovers
    <3>5. completed' => SavedRow(k)' BY <2>0, <3>3, <3>4 DEF SavedRow, Behind
    <3>. QED BY <3>2, <3>3, <3>5 DEF Covers, Quick
  <2>8. ASSUME NEW s \in Savers,
               ExecOk(s) \/ FetchNewRows(s) \/ EndPass(s) \/ \E j \in Keys : SaveData(s, j)
        PROVE  Covers(k)'
    <3>1. s = Loop
      BY <2>2, <2>8 DEF ExecOk, FetchNewRows, EndPass, SaveData, InPass, Phases, Savers
    <3>2. ~overlapped /\ failures = 0
      <4>1. CASE ExecOk(s) BY <4>1 DEF ExecOk, control
      <4>2. CASE FetchNewRows(s) BY <4>2 DEF FetchNewRows
      <4>3. CASE EndPass(s) BY <4>3 DEF EndPass, AfterPass
      <4>4. CASE \E j \in Keys : SaveData(s, j) BY <4>4 DEF SaveData
      <4>. QED BY <2>8, <4>1, <4>2, <4>3, <4>4
    <3>3. Covers(k) BY <2>1, <3>2 DEF LastPassCovers, Covers
    <3>4. CASE ExecOk(Loop) BY <1>0, <2>1, <3>3, <3>4, ExecOkCovers
    <3>5. CASE FetchNewRows(Loop) BY <2>1, <3>3, <3>5, FetchCovers
    <3>6. CASE EndPass(Loop) BY <3>3, <3>6, EndCovers
    <3>7. ASSUME NEW j \in Keys, SaveData(Loop, j) PROVE Covers(k)'
      BY <2>1, <3>2, <3>3, <3>7, SaveDataCovers
    <3>. QED BY <2>8, <3>1, <3>4, <3>5, <3>6, <3>7
  <2>. QED BY <1>3, <2>3, <2>4, <2>5, <2>6, <2>7, <2>8, NextCases
<1>. QED BY <1>1, <1>2, <1>3

LEMMA InitExit == Init => ExitInv
<1>. SUFFICES ASSUME Init PROVE ExitInv OBVIOUS
<1>1. NeverAhead BY DEF Init, NeverAhead
<1>2. QuitIsLate BY DEF Init, QuitIsLate, Quick
<1>3. QuitIsKept BY DEF Init, QuitIsKept
<1>4. LastPassCovers BY DEF Init, LastPassCovers
<1>. QED BY <1>1, <1>2, <1>3, <1>4 DEF ExitInv

LEMMA NextExit == ASSUME IInv, ExitInv, [Next]_vars PROVE ExitInv'
BY NextAhead, NextLate, NextKept, NextCovers DEF ExitInv

\* Every variable keeps its type (TypeOK): save_data, the statements and the fetch of
\* new rows only ever meet keys that the table holds.
THEOREM TypeCorrect == Spec => []TypeOK
<1>1. IInv => TypeOK BY DEF IInv
<1>. QED BY <1>1, InitInv, NextInv, PTL DEF Spec

\* In every behaviour a clean row of the cache is in MySQL (CleanMeansStored).
THEOREM CacheIsFaithful == Spec => []CleanMeansStored
<1>1. IInv => CleanMeansStored BY DEF IInv
<1>. QED BY <1>1, InitInv, NextInv, PTL DEF Spec

\* No INSERT is ever refused as a duplicate (InsertIsFirst).
THEOREM InsertsAreFirst == Spec => []InsertIsFirst
<1>1. IInv => InsertIsFirst BY DEF IInv, OneInsert, InsertIsFirst
<1>. QED BY <1>1, InitInv, NextInv, PTL DEF Spec

\* No statement takes MySQL back to an older value of a column or lets it forget
\* a row, while passes do not overlap (DbNeverGoesBack): of the statements and the
\* copies of a row that save_data makes, none arrives out of its turn.
THEOREM DbOnlyAdvances == Spec => DbNeverGoesBack
<1>1. ASSUME IInv, NeverAhead, [Next]_vars
      PROVE  [~overlapped' => \A k \in Keys : db[k] # NoRow =>
                \A col \in Cols : (db'[k] # NoRow /\ db'[k][col] >= db[k][col])]_vars
  <2>1. IInv' /\ (~overlapped' => DbGrows) BY <1>1, NextInv, NextAhead
  <2>2. ASSUME ~overlapped', NEW k \in Keys, db[k] # NoRow, NEW col \in Cols
        PROVE  db'[k] # NoRow /\ db'[k][col] >= db[k][col]
    <3>1. db'[k] # NoRow /\ db[k][col] <= db'[k][col] BY <2>1, <2>2 DEF DbGrows, Behind
    <3>2. db[k][col] \in Nat /\ db'[k][col] \in Nat
      BY <1>1, <2>1, <2>2, <3>1 DEF IInv, TypeOK, Values
    <3>. QED BY <3>1, <3>2
  <2>. QED BY <2>2
<1>2. ExitInv => NeverAhead BY DEF ExitInv
<1>. QED BY <1>1, <1>2, InitInv, NextInv, InitExit, NextExit, PTL DEF Spec, DbNeverGoesBack

\* A clean exit loses nothing (ExitSavesAll): when DBC.Loop reports
\* m_shutdown_completed, MySQL has what memory held when m_quit was set, however
\* the pass before the last one was cut short.
THEOREM ExitIsComplete == Spec => []ExitSavesAll
<1>1. ASSUME IInv, ExitInv PROVE ExitSavesAll
  <2>. SUFFICES ASSUME completed, ~overlapped, failures = 0, NEW k \in Keys, atQuit[k] # NoRow,
                       NEW col \in Cols
                PROVE  db[k] # NoRow /\ db[k][col] >= atQuit[k][col]
    BY DEF ExitSavesAll, SavedAtQuit, Stored
  <2>1. db[k] # NoRow /\ atQuit[k][col] <= db[k][col]
    BY <1>1 DEF ExitInv, LastPassCovers, SavedRow, Behind
  <2>2. db[k][col] \in Nat /\ atQuit[k][col] \in Nat
    BY <1>1, <2>1 DEF IInv, TypeOK, Values
  <2>. QED BY <2>1, <2>2
<1>. QED BY <1>1, InitInv, NextInv, InitExit, NextExit, PTL DEF Spec

-----------------------------------------------------------------------------
(* The ids: PlayerIds *)


LEMMA IdsInitInv == IdsInit => IdsIInv
<1>. SUFFICES ASSUME IdsInit PROVE IdsIInv OBVIOUS
<1>1. counter = 0 /\ crashes = 0 /\ enter = [c \in Clients |-> Idle]
      /\ id2player = [k \in Keys |-> NoUid]
  BY DEF IdsInit, Init
<1>2. Idle \in Enters /\ Idle.step = "idle" /\ Idle.id = 0
  BY IdsAssumption DEF Idle, Enters, Steps
<1>3. IdsAreDrawn BY <1>1, <1>2 DEF IdsAreDrawn
<1>4. IdsAreFresh BY <1>1, <1>2 DEF IdsAreFresh, Drawn
<1>. QED BY <1>1, <1>2, <1>3, <1>4, IdsAssumption DEF IdsIInv

\* The savers and the end of the process touch neither handlers nor maps.
LEMMA SavesKeepIds ==
  ASSUME IdsIInv, UNCHANGED <<counter, crashes, enter, id2player>>
  PROVE  IdsIInv'
BY DEF IdsIInv, IdsAreDrawn, IdsAreFresh, Drawn

LEMMA SaveStepKeeps ==
  ASSUME NEW s \in Savers, SaveStep(s)
  PROVE  UNCHANGED <<counter, crashes, enter, id2player>>
BY DEF SaveStep, BeginSave, GlobalSaved, StartPass, GlobalFailed, FetchNewPlayers, TableStep, global,
       players

\* A handler that moves on with the id it has, or drops it.
LEMMA MovesKeepIds ==
  ASSUME IdsIInv, NEW c \in Clients, NEW step \in Steps, To(c, step),
         step \in {"add", "uid", "idMap", "idle"}, step # "idle" => Drawn(c),
         UNCHANGED <<counter, crashes, id2player>>
  PROVE  IdsIInv'
<1>. USE DEF IdsIInv
<1>1. /\ enter'[c].step = step /\ enter'[c].uid = enter[c].uid /\ enter'[c].id = enter[c].id
      /\ \A d \in Clients \ {c} : enter'[d] = enter[d]
      /\ enter' \in [Clients -> Enters]
  BY DEF To, Enters
<1>2. IdsAreDrawn' BY <1>1 DEF IdsAreDrawn
<1>3. IdsAreFresh' BY <1>1 DEF IdsAreFresh, Drawn
<1>4. \A d \in Clients : enter'[d].step # "idle" => enter'[d].uid \in Uids BY <1>1 DEF Drawn
<1>5. \A d \in Clients : enter'[d].step \in {"flag", "add", "uid", "idMap", "uidMap"}
                           => enter'[d].id \in Keys
  BY <1>1 DEF Drawn
<1>. QED BY <1>1, <1>2, <1>3, <1>4, <1>5

\* A handler starts without an id.
LEMMA EnterKeepsIds ==
  ASSUME IdsIInv, NEW c \in Clients, NEW u \in Uids, EnterGame(c, u) PROVE IdsIInv'
<1>. USE DEF IdsIInv
<1>1. UNCHANGED <<counter, crashes, id2player>> BY DEF EnterGame, table, global
<1>2. /\ enter'[c] = [step |-> "next", uid |-> u, id |-> 0]
      /\ \A d \in Clients \ {c} : enter'[d] = enter[d]
      /\ enter' \in [Clients -> Enters]
  BY IdsAssumption DEF EnterGame, Enters, Steps
<1>3. IdsAreDrawn' BY <1>1, <1>2, IdsAssumption DEF IdsAreDrawn
<1>4. \A d \in Clients : enter'[d].step \in {"flag", "add", "uid", "idMap", "uidMap"}
                           => d # c /\ enter'[d].id \in Keys
  BY <1>2
<1>5. IdsAreFresh' BY <1>1, <1>2, <1>4, IdsAssumption DEF IdsAreFresh, Drawn
<1>. QED BY <1>1, <1>2, <1>3, <1>4, <1>5

\* The id drawn is beyond all others.
LEMMA NextIdIsFresh ==
  ASSUME IdsIInv, NEW c \in Clients, NextPlayerId(c) PROVE IdsIInv'
<1>. USE DEF IdsIInv
<1>1. counter' = counter + 1 /\ counter' \in Keys /\ counter' \in 0..MaxId
      /\ UNCHANGED <<crashes, id2player>>
  BY IdsAssumption DEF NextPlayerId
<1>2. /\ enter'[c].step = "flag" /\ enter'[c].uid = enter[c].uid /\ enter'[c].id = counter'
      /\ \A d \in Clients \ {c} : enter'[d] = enter[d]
      /\ enter' \in [Clients -> Enters]
  <2>1. enter' = [enter EXCEPT ![c] = [enter[c] EXCEPT !.step = "flag", !.id = counter']]
    BY DEF NextPlayerId
  <2>2. enter[c] \in Enters BY DEF IdsIInv
  <2>3. PICK e : e = [enter[c] EXCEPT !.step = "flag", !.id = counter'] OBVIOUS
  <2>4. e.step = "flag" /\ e.uid = enter[c].uid /\ e.id = counter' /\ e \in Enters
    BY <1>1, <2>2, <2>3 DEF Enters, Steps
  <2>5. enter' = [enter EXCEPT ![c] = e] BY <2>1, <2>3
  <2>6. enter' \in [Clients -> Enters] /\ enter'[c] = e BY <2>4, <2>5
  <2>7. \A d \in Clients \ {c} : enter'[d] = enter[d] BY <2>5
  <2>. QED BY <2>4, <2>6, <2>7
<1>3. enter[c].uid \in Uids BY DEF NextPlayerId, At
<1>4. \A d \in Clients : enter[d].id \in Nat BY IdsAssumption DEF Enters
<1>5. IdsAreDrawn' BY <1>1, <1>2, <1>4, IdsAssumption DEF IdsAreDrawn
<1>6. IdsAreFresh'
  <2>. SUFFICES ASSUME crashes = 0, NEW d \in Clients, Drawn(d)'
                PROVE  /\ id2player[enter'[d].id] = NoUid
                       /\ \A e \in Clients \ {d} : enter'[e].step # "idle" => enter'[e].id # enter'[d].id
    BY <1>1 DEF IdsAreFresh
  <2>1. \A e \in Clients : enter[e].id # counter + 1
    BY <1>4, IdsAssumption DEF IdsAreDrawn
  <2>2. id2player[counter + 1] = NoUid BY <1>1, IdsAssumption DEF IdsAreDrawn
  <2>3. CASE d = c BY <1>1, <1>2, <2>1, <2>2, <2>3
  <2>4. CASE d # c
    <3>1. Drawn(d) /\ enter'[d] = enter[d] BY <1>2, <2>4 DEF Drawn
    <3>. QED BY <1>1, <1>2, <2>1, <2>4, <3>1 DEF IdsAreFresh
  <2>. QED BY <2>3, <2>4
<1>. QED BY <1>1, <1>2, <1>3, <1>5, <1>6

\* The map gets a player under an id that only its handler has.
LEMMA IdMapKeepsIds ==
  ASSUME IdsIInv, NEW c \in Clients, Add2IdMap(c) PROVE IdsIInv'
<1>. USE DEF IdsIInv
<1>. DEFINE id == enter[c].id
<1>1. UNCHANGED <<counter, crashes>> BY DEF Add2IdMap, table, global
<1>2. id \in Keys /\ enter[c].uid \in Uids /\ Drawn(c) BY DEF Add2IdMap, At, Drawn
<1>3. id2player' = [id2player EXCEPT ![id] = enter[c].uid] BY DEF Add2IdMap
<1>4. /\ enter'[c].step = "uidMap" /\ enter'[c].uid = enter[c].uid /\ enter'[c].id = id
      /\ \A d \in Clients \ {c} : enter'[d] = enter[d]
      /\ enter' \in [Clients -> Enters]
  BY DEF Add2IdMap, To, Enters, Steps
<1>5. id2player' \in [Keys -> Uids \cup {NoUid, Unnamed}] BY <1>2, <1>3
<1>6. IdsAreDrawn' BY <1>1, <1>2, <1>3, <1>4 DEF IdsAreDrawn
<1>7. IdsAreFresh'
  <2>. SUFFICES ASSUME crashes = 0, NEW d \in Clients, Drawn(d)'
                PROVE  /\ id2player'[enter'[d].id] = NoUid
                       /\ \A e \in Clients \ {d} : enter'[e].step # "idle" => enter'[e].id # enter'[d].id
    BY <1>1 DEF IdsAreFresh
  <2>1. d # c BY <1>4 DEF Drawn
  <2>2. Drawn(d) /\ enter'[d] = enter[d] BY <1>4, <2>1 DEF Drawn
  <2>3. /\ id2player[enter[d].id] = NoUid
        /\ \A e \in Clients \ {d} : enter[e].step # "idle" => enter[e].id # enter[d].id
    BY <2>2 DEF IdsAreFresh
  <2>4. enter[d].id # id BY <1>2, <2>1, <2>3 DEF Drawn
  <2>5. enter[d].id \in Keys BY <2>2 DEF Drawn
  <2>6. id2player'[enter'[d].id] = NoUid BY <1>3, <2>2, <2>3, <2>4, <2>5
  <2>7. \A e \in Clients \ {d} : enter'[e].step # "idle" => enter'[e].id # enter'[d].id
    BY <1>4, <2>2, <2>3, <2>4
  <2>. QED BY <2>6, <2>7
<1>8. \A d \in Clients : enter'[d].step # "idle" => enter'[d].uid \in Uids BY <1>2, <1>4
<1>9. \A d \in Clients : enter'[d].step \in {"flag", "add", "uid", "idMap", "uidMap"}
                           => enter'[d].id \in Keys
  BY <1>2, <1>4
<1>. QED BY <1>1, <1>4, <1>5, <1>6, <1>7, <1>8, <1>9

\* After a restart nothing is claimed, but the types stay.
LEMMA RestartKeepsIds ==
  ASSUME IdsIInv, Restart, counterDb \in 0..MaxId, \A k \in Keys : owner[k] \in Uids \cup {NoUid}
  PROVE  IdsIInv'
<1>. USE DEF IdsIInv
<1>1. crashes' \in Nat /\ crashes' # 0 BY DEF Restart, Crash
<1>2. counter' \in 0..MaxId BY DEF Restart
<1>3. Idle \in Enters /\ Idle.step = "idle" BY IdsAssumption DEF Idle, Enters, Steps
<1>4. enter' = [c \in Clients |-> Idle] BY DEF Restart
<1>5. \A k \in Keys : StoredUid(k) \in Uids \cup {NoUid, Unnamed} BY DEF StoredUid
<1>6. id2player' \in [Keys -> Uids \cup {NoUid, Unnamed}] BY <1>5 DEF Restart
<1>7. IdsAreDrawn' /\ IdsAreFresh' BY <1>1 DEF IdsAreDrawn, IdsAreFresh
<1>. QED BY <1>1, <1>2, <1>3, <1>4, <1>6, <1>7

-----------------------------------------------------------------------------
(* What is stored has its type too: the counter in MySQL, the rows' owners *)

IdsStored ==
  /\ counterDb \in 0..MaxId
  /\ value \in [Savers -> 0..MaxId]
  /\ owner \in [Keys -> Uids \cup {NoUid}] /\ newOwner \in [Keys -> Uids \cup {NoUid}]

LEMMA EnterStepStored ==
  ASSUME IdsIInv, IdsStored, NEW c \in Clients, EnterStep(c) PROVE IdsStored'
<1>1. CASE UNCHANGED <<counterDb, value, owner, newOwner>> BY <1>1 DEF IdsStored
<1>2. CASE AddPlayerRow(c)
  <2>1. enter[c].uid \in Uids BY <1>2 DEF AddPlayerRow, At, IdsIInv
  <2>. QED BY <1>2, <2>1 DEF AddPlayerRow, IdsStored, global
<1>. QED BY <1>1, <1>2 DEF EnterStep, EnterGame, NextPlayerId, FlagCounter, SetUniqueId, Add2IdMap,
                           Add2UidMap, global

LEMMA SaveStepStored ==
  ASSUME IdsIInv, IdsStored, NEW s \in Savers, SaveStep(s) PROVE IdsStored'
<1>. USE DEF IdsStored, players, global
<1>1. CASE \E phase \in {"rows", "finalRows"} : BeginSave(s, phase)
  BY <1>1, IdsAssumption DEF BeginSave, IdsIInv
<1>2. CASE GlobalSaved(s) BY <1>2, IdsAssumption DEF GlobalSaved
<1>3. CASE GlobalFailed(s) BY <1>3, IdsAssumption DEF GlobalFailed
<1>4. CASE FetchNewPlayers(s) BY <1>4 DEF FetchNewPlayers
<1>5. CASE TableStep(s) BY <1>5 DEF TableStep
<1>. QED BY <1>1, <1>2, <1>3, <1>4, <1>5 DEF SaveStep

LEMMA RestartStored == ASSUME IdsStored, Restart PROVE IdsStored'
BY IdsAssumption DEF IdsStored, Restart

LEMMA IdsNextInv ==
  ASSUME IdsIInv, IdsStored, [IdsNext]_allVars PROVE IdsIInv' /\ IdsStored'
<1>1. ASSUME NEW c \in Clients, EnterStep(c) PROVE IdsIInv' /\ IdsStored'
  <2>1. IdsStored' BY <1>1, EnterStepStored
  <2>2. ASSUME NEW u \in Uids, EnterGame(c, u) PROVE IdsIInv' BY <2>2, EnterKeepsIds
  <2>3. ASSUME NextPlayerId(c) PROVE IdsIInv' BY <2>3, NextIdIsFresh
  <2>4. ASSUME Add2IdMap(c) PROVE IdsIInv' BY <2>4, IdMapKeepsIds
  <2>5. ASSUME FlagCounter(c) PROVE IdsIInv'
    BY <2>5, MovesKeepIds DEF FlagCounter, At, Drawn, Steps, table
  <2>6. ASSUME AddPlayerRow(c) PROVE IdsIInv'
    BY <2>6, MovesKeepIds DEF AddPlayerRow, AddRow, At, Drawn, Steps, global
  <2>7. ASSUME SetUniqueId(c) PROVE IdsIInv'
    BY <2>7, MovesKeepIds DEF SetUniqueId, SetNewCol, SetCol, At, Drawn, Steps, global
  <2>8. ASSUME Add2UidMap(c) PROVE IdsIInv'
    BY <2>8, MovesKeepIds DEF Add2UidMap, At, Steps, global, table
  <2>. QED BY <1>1, <2>1, <2>2, <2>3, <2>4, <2>5, <2>6, <2>7, <2>8 DEF EnterStep
<1>2. ASSUME NEW s \in Savers, SaveStep(s) PROVE IdsIInv' /\ IdsStored'
  BY <1>2, SaveStepKeeps, SavesKeepIds, SaveStepStored
<1>3. CASE Stop
  <2>1. UNCHANGED <<counter, crashes, enter, id2player>> BY <1>3 DEF Stop, global, players
  <2>2. IdsStored' BY <1>3 DEF Stop, global, players, IdsStored
  <2>. QED BY <2>1, <2>2, SavesKeepIds
<1>4. CASE Restart BY <1>4, RestartKeepsIds, RestartStored DEF IdsStored
<1>5. CASE UNCHANGED allVars
  <2>1. UNCHANGED <<counter, crashes, enter, id2player>> BY <1>5 DEF allVars, table, global, players
  <2>2. IdsStored' BY <1>5 DEF allVars, global, players, IdsStored
  <2>. QED BY <2>1, <2>2, SavesKeepIds
<1>. QED BY <1>1, <1>2, <1>3, <1>4, <1>5 DEF IdsNext, IdsTerminated

-----------------------------------------------------------------------------
(* The table below the creation of players keeps its invariant *)

LEMMA EnterStepTable ==
  ASSUME IdsIInv, IInv, NEW c \in Clients, EnterStep(c) PROVE IInv'
<1>1. CASE UNCHANGED table
  <2>1. UNCHANGED vars BY <1>1 DEF table, vars
  <2>. QED BY <2>1, NextInv
<1>2. CASE NextPlayerId(c)
  <2>1. client' = [client EXCEPT ![c] = counter + 1] /\ counter + 1 \in Keys
    BY <1>2, IdsAssumption DEF NextPlayerId, IdsIInv
  <2>2. UNCHANGED <<memory, db, control, stmt, failed, failures, crashes>> BY <1>2 DEF NextPlayerId
  <2>3. TypeOK' BY <2>1, <2>2 DEF IInv, TypeOK, memory, control
  <2>4. UNCHANGED <<todo, pc, overlapped>> BY <2>2 DEF control
  <2>5. \A s \in Savers : InPass(s)' = InPass(s) BY <2>4 DEF InPass
  <2>. QED BY <2>2, <2>3, <2>4, <2>5, ControlInv DEF IInv, PassesAlone
<1>3. CASE AddPlayerRow(c)
  <2>1. Handlers BY <1>3 DEF AddPlayerRow, Handlers
  <2>. QED BY <2>1, HandlersInv
<1>4. CASE SetUniqueId(c)
  <2>1. enter[c].id \in Keys BY <1>4 DEF SetUniqueId, At, IdsIInv
  <2>2. Handlers BY <1>4, <2>1 DEF SetUniqueId, Handlers
  <2>. QED BY <2>2, HandlersInv
<1>. QED BY <1>1, <1>2, <1>3, <1>4 DEF EnterStep, EnterGame, FlagCounter, Add2IdMap, Add2UidMap

LEMMA SaveStepTable ==
  ASSUME IInv, SavingIsAlone, NEW s \in Savers, SaveStep(s) PROVE IInv'
<1>0. TypeOK BY DEF IInv
<1>1. ASSUME NEW phase \in {"rows", "finalRows"}, BeginSave(s, phase) PROVE IInv'
  <2>1. UNCHANGED <<memory, db, client, pc, todo, quit, completed, atQuit, stmt, failed, failures, crashes>>
    BY <1>1 DEF BeginSave
  <2>2. overlapped' \in BOOLEAN /\ (~overlapped' => ~overlapped) BY <1>1 DEF BeginSave
  <2>3. TypeOK' BY <1>0, <2>1, <2>2 DEF TypeOK, memory
  <2>4. \A t \in Savers : InPass(t)' = InPass(t) BY <2>1 DEF InPass
  <2>. QED BY <2>1, <2>2, <2>3, <2>4, ControlInv DEF IInv, PassesAlone
<1>2. CASE GlobalSaved(s)
  <2>1. saving[s] \in {"rows", "finalRows"} /\ pc[s] = "idle" BY <1>2 DEF GlobalSaved, SavingIsAlone
  <2>2. saving[s] \in Phases /\ ~InPass(s)
    BY <2>1 DEF InPass, Phases, RowPhases, NewPhases
  <2>3. StartPass(s, saving[s]) BY <1>2 DEF GlobalSaved
  <2>. QED BY <2>2, <2>3, StartPassInv
<1>3. CASE GlobalFailed(s)
  <2>1. UNCHANGED <<memory, db, client, todo, quit, overlapped, atQuit, stmt, failed, crashes>>
    BY <1>3 DEF GlobalFailed
  <2>2. pc[s] = "idle" /\ pc'[s] \in {"passed", "done", "idle"} /\ \A t \in Savers \ {s} : pc'[t] = pc[t]
    BY <1>0, <1>3 DEF GlobalFailed, SavingIsAlone, TypeOK
  <2>3. failures' \in Nat /\ completed' \in BOOLEAN /\ pc' \in [Savers -> Phases \cup {"idle", "passed", "waiting", "done"}]
    BY <1>0, <1>3 DEF GlobalFailed, TypeOK
  <2>4. TypeOK' BY <1>0, <2>1, <2>3 DEF TypeOK, memory
  <2>5. \A t \in Savers : InPass(t)' = InPass(t)
    BY <2>2 DEF InPass, Phases, RowPhases, NewPhases
  <2>. QED BY <2>1, <2>4, <2>5, ControlInv DEF IInv, PassesAlone
<1>4. CASE FetchNewPlayers(s) BY <1>4, FetchNewRowsInv DEF FetchNewPlayers
<1>5. CASE TableStep(s)
  <2>1. CASE EndPass(s) BY <2>1, AfterPassInv DEF EndPass, IInv, TypeOK
  <2>. QED BY <1>5, <2>1, StopSavingInv, ExecOkInv, ExecFailInv, SaveDataInv DEF TableStep
<1>. QED BY <1>1, <1>2, <1>3, <1>4, <1>5 DEF SaveStep

LEMMA IdsTable ==
  ASSUME IdsIInv, IInv, SavingIsAlone, [IdsNext]_allVars PROVE IInv'
<1>1. CASE Stop BY <1>1, StopInv DEF Stop
<1>2. CASE Restart BY <1>2, CrashInv DEF Restart
<1>3. CASE UNCHANGED allVars
  <2>1. UNCHANGED vars BY <1>3 DEF allVars, table, vars
  <2>. QED BY <2>1, NextInv
<1>. QED BY <1>1, <1>2, <1>3, EnterStepTable, SaveStepTable DEF IdsNext, IdsTerminated

\* A handler leaves the savers alone.
LEMMA EnterKeepsSavers ==
  ASSUME IInv, IdsIInv, NEW c \in Clients, EnterStep(c)
  PROVE  UNCHANGED <<db, stmt, control, failed, failures, crashes, counterDb, saving, value, owner>>
<1>1. CASE AddPlayerRow(c) BY <1>1 DEF AddPlayerRow, AddRow, global
<1>2. CASE SetUniqueId(c)
  <2>1. CASE newRows[enter[c].id] # NoRow BY <1>2, <2>1 DEF SetUniqueId, SetNewCol, global
  <2>2. CASE newRows[enter[c].id] = NoRow BY <1>2, <2>2 DEF SetUniqueId, SetCol, global
  <2>. QED BY <2>1, <2>2
<1>. QED BY <1>1, <1>2 DEF EnterStep, EnterGame, NextPlayerId, FlagCounter, Add2IdMap, Add2UidMap,
                           table, global

LEMMA IdsAlone ==
  ASSUME IdsIInv, IdsStored, IInv, SavingIsAlone, QuitIsLate, [IdsNext]_allVars PROVE SavingIsAlone'
<1>. USE DEF SavingIsAlone
<1>0. /\ TypeOK /\ Loop \in Savers /\ Stopper \in Savers /\ Loop # Stopper
      /\ value \in [Savers -> 0..MaxId]
  BY ConstantsAssumption DEF IInv, Savers, IdsStored
<1>1. ASSUME NEW c \in Clients, EnterStep(c) PROVE SavingIsAlone'
  BY <1>1, EnterKeepsSavers DEF control
<1>2. CASE Stop
  <2>1. UNCHANGED <<saving, value, overlapped>> BY <1>2 DEF Stop, SetQuit, Exit, global
  <2>2. CASE SetQuit
    <3>1. quit' = TRUE /\ pc[Stopper] = "passed" /\ \A s \in Savers \ {Stopper} : pc'[s] = pc[s]
      BY <1>0, <2>2 DEF SetQuit, TypeOK
    <3>. QED BY <1>0, <2>1, <3>1
  <2>3. CASE Exit
    <3>1. quit' = quit /\ pc[Stopper] = "waiting" /\ \A s \in Savers \ {Stopper} : pc'[s] = pc[s]
      BY <1>0, <2>3 DEF Exit, TypeOK
    <3>. QED BY <1>0, <2>1, <3>1
  <2>. QED BY <1>2, <2>2, <2>3 DEF Stop
<1>3. CASE Restart BY <1>0, <1>3 DEF Restart, Crash
<1>4. CASE UNCHANGED allVars BY <1>4 DEF allVars, table, control, global
<1>5. ASSUME NEW s \in Savers, NEW phase \in {"rows", "finalRows"}, BeginSave(s, phase)
      PROVE  SavingIsAlone'
  <2>1. /\ pc[s] = "idle" /\ UNCHANGED <<pc, quit>>
        /\ saving' = [saving EXCEPT ![s] = phase]
        /\ saving'[s] = phase /\ \A t \in Savers \ {s} : saving'[t] = saving[t] /\ value'[t] = value[t]
        /\ s = Loop => quit = (phase = "finalRows")
        /\ s = Stopper => phase = "rows"
        /\ ~overlapped' => \A t \in Savers \ {s} : saving[t] = "none"
    BY <1>0, <1>5 DEF BeginSave
  <2>2. value'[s] = 0 \/ saving'[s] # "none" BY <2>1
  <2>3. s = Loop \/ s = Stopper BY DEF Savers
  <2>. QED BY <1>0, <2>1, <2>2, <2>3
<1>6. ASSUME NEW s \in Savers, GlobalSaved(s) \/ GlobalFailed(s) PROVE SavingIsAlone'
  <2>1. CASE GlobalSaved(s)
    <3>1. /\ saving' = [saving EXCEPT ![s] = "none"] /\ quit' = quit
          /\ value'[s] = 0 /\ \A t \in Savers \ {s} : value'[t] = value[t]
          /\ pc'[s] \in {"rows", "finalRows"} /\ \A t \in Savers \ {s} : pc'[t] = pc[t]
          /\ ~overlapped' => ~overlapped
      <4>1. /\ saving' = [saving EXCEPT ![s] = "none"] /\ quit' = quit
            /\ pc' = [pc EXCEPT ![s] = saving[s]] /\ saving[s] # "none"
            /\ ~overlapped' => ~overlapped
        BY <2>1 DEF GlobalSaved, StartPass
      <4>2. value'[s] = 0 /\ \A t \in Savers \ {s} : value'[t] = value[t]
        BY <1>0, <2>1 DEF GlobalSaved
      <4>. QED BY <1>0, <4>1, <4>2 DEF TypeOK
    <3>. QED BY <1>0, <3>1
  <2>2. CASE GlobalFailed(s)
    <3>1. /\ saving' = [saving EXCEPT ![s] = "none"] /\ value' = [value EXCEPT ![s] = 0]
          /\ UNCHANGED <<quit, overlapped>>
          /\ pc'[s] = IF s = Stopper THEN "passed" ELSE IF saving[s] = "finalRows" THEN "done" ELSE "idle"
          /\ \A t \in Savers \ {s} : pc'[t] = pc[t]
      BY <1>0, <2>2 DEF GlobalFailed, TypeOK
    <3>. QED BY <1>0, <3>1
  <2>. QED BY <1>6, <2>1, <2>2
<1>7. ASSUME NEW s \in Savers, FetchNewPlayers(s) PROVE SavingIsAlone'
  <2>1. /\ UNCHANGED <<saving, value, quit, overlapped>> /\ pc[s] \in RowPhases
        /\ pc'[s] \in {"finalNew", "new"} /\ \A t \in Savers \ {s} : pc'[t] = pc[t]
    BY <1>0, <1>7 DEF FetchNewPlayers, FetchNewRows, TypeOK, global
  <2>2. pc[s] # "idle" BY <2>1 DEF RowPhases
  <2>. QED BY <1>0, <2>1, <2>2
<1>8. ASSUME NEW s \in Savers, TableStep(s) PROVE SavingIsAlone'
  <2>1. UNCHANGED <<saving, value>> BY <1>8 DEF TableStep, global
  <2>2. CASE UNCHANGED <<pc, quit, overlapped>> BY <2>1, <2>2
  <2>3. CASE EndPass(s)
    <3>1. /\ UNCHANGED <<quit, overlapped>> /\ pc[s] \in NewPhases
          /\ pc'[s] = IF s = Stopper THEN "passed"
                      ELSE IF Quick(s) \/ (quit /\ ~InPass(s)) THEN "done" ELSE "idle"
          /\ \A t \in Savers \ {s} : pc'[t] = pc[t]
      BY <1>0, <2>3 DEF EndPass, AfterPass, TypeOK
    <3>2. \A t \in Savers : Quick(t) => quit BY DEF QuitIsLate
    <3>3. pc[s] # "idle" BY <3>1 DEF NewPhases
    <3>. QED BY <1>0, <2>1, <3>1, <3>2, <3>3
  <2>. QED BY <1>8, <2>2, <2>3 DEF TableStep, StopSaving, ExecOk, ExecFail, SaveData, control
<1>. QED BY <1>1, <1>2, <1>3, <1>4, <1>5, <1>6, <1>7, <1>8 DEF IdsNext, IdsTerminated, SaveStep

\* Passes over the table, the end and a restart are steps of DbTable.
LEMMA PassIsNext ==
  ASSUME IInv, NEW s \in Savers, TableStep(s) \/ FetchNewPlayers(s) PROVE SaverStep(s) /\ Next
<1>1. SaverStep(s) BY DEF TableStep, FetchNewPlayers, SaverStep
<1>2. InPass(s)
  BY DEF TableStep, FetchNewPlayers, StopSaving, ExecOk, ExecFail, EndPass, SaveData, FetchNewRows,
         InPass, Phases, IInv, PassesAlone
<1>3. pc[s] # "idle" BY <1>2 DEF InPass, Phases, RowPhases, NewPhases
<1>4. s = Loop \/ s = Stopper BY DEF Savers
<1>. QED BY <1>1, <1>3, <1>4 DEF Next, LoopStep, StopperStep

LEMMA StopIsNext == ASSUME Stop PROVE Next
BY DEF Stop, SetQuit, Exit, Next, StopperStep

LEMMA IdsLate ==
  ASSUME IdsIInv, IdsStored, IInv, SavingIsAlone, QuitIsLate, [IdsNext]_allVars PROVE QuitIsLate'
<1>0. /\ TypeOK /\ Loop \in Savers /\ Stopper \in Savers /\ Loop # Stopper
  BY ConstantsAssumption DEF IInv, Savers
<1>1. ASSUME NEW c \in Clients, EnterStep(c) PROVE QuitIsLate'
  <2>1. UNCHANGED <<pc, quit, completed, failed, failures>> BY <1>1, EnterKeepsSavers DEF control
  <2>. QED BY <2>1 DEF QuitIsLate, Quick
<1>2. ASSUME NEW s \in Savers, NEW phase \in {"rows", "finalRows"}, BeginSave(s, phase)
      PROVE  QuitIsLate'
  <2>1. UNCHANGED <<pc, quit, completed, failed, failures>> BY <1>2 DEF BeginSave
  <2>. QED BY <2>1 DEF QuitIsLate, Quick
<1>3. ASSUME NEW s \in Savers, GlobalSaved(s) PROVE QuitIsLate'
  <2>1. /\ saving[s] = "rows" \/ (saving[s] = "finalRows" /\ s = Loop /\ quit)
        /\ StartPass(s, saving[s])
    BY <1>3 DEF GlobalSaved, SavingIsAlone
  <2>2. /\ pc[s] = "idle" /\ pc'[s] = saving[s] /\ \A t \in Savers \ {s} : pc'[t] = pc[t]
        /\ UNCHANGED <<quit, completed, failed, failures>>
    BY <1>0, <1>3, <2>1 DEF StartPass, TypeOK, SavingIsAlone, GlobalSaved
  <2>. QED BY <1>0, <2>1, <2>2 DEF QuitIsLate, Quick
<1>4. ASSUME NEW s \in Savers, GlobalFailed(s) PROVE QuitIsLate'
  <2>1. /\ pc[s] = "idle" /\ quit' = quit /\ failures' # 0
        /\ pc'[s] = IF s = Stopper THEN "passed" ELSE IF saving[s] = "finalRows" THEN "done" ELSE "idle"
        /\ \A t \in Savers \ {s} : pc'[t] = pc[t]
        /\ completed' = (completed \/ pc'[Loop] = "done")
    BY <1>0, <1>4 DEF GlobalFailed, TypeOK, SavingIsAlone
  <2>2. pc'[Loop] = "done" => quit BY <1>0, <2>1 DEF SavingIsAlone
  <2>. QED BY <1>0, <2>1, <2>2 DEF QuitIsLate, Quick
<1>5. ASSUME NEW s \in Savers, TableStep(s) \/ FetchNewPlayers(s) PROVE QuitIsLate'
  BY <1>5, PassIsNext, NextLate
<1>6. CASE Stop BY <1>6, StopIsNext, NextLate
<1>7. CASE Restart BY <1>7, NextLate DEF Restart, Next
<1>8. CASE UNCHANGED allVars
  <2>1. UNCHANGED vars BY <1>8 DEF allVars, table, vars
  <2>. QED BY <2>1, NextLate
<1>. QED BY <1>1, <1>2, <1>3, <1>4, <1>5, <1>6, <1>7, <1>8 DEF IdsNext, IdsTerminated, SaveStep

-----------------------------------------------------------------------------
(* A stored row keeps its owner *)

\* Steps that set no column and build no statement.
LEMMA UpdatesFrame ==
  ASSUME UpdatesAreSet, rows' = rows, \A s \in Savers : stmt'[s] = stmt[s] \/ stmt'[s] = NoRow
  PROVE  UpdatesAreSet'
BY DEF UpdatesAreSet, HasRow

LEMMA SetColUpdates ==
  ASSUME IInv, UpdatesAreSet, NEW k \in Keys, NEW col \in Cols, SetCol(k, col)
  PROVE  UpdatesAreSet'
<1>1. rows[k] \in Row /\ rows[k] # NoRow BY DEF SetCol, IInv, TypeOK, HasRow
<1>2. /\ rows'[k] = Written(rows[k], col) /\ \A j \in Keys \ {k} : rows'[j] = rows[j]
      /\ stmt' = stmt
  BY DEF SetCol, IInv, TypeOK
<1>3. /\ rows'[k].val = [rows[k].val EXCEPT ![col] = @ + 1]
      /\ rows'[k].changed = rows[k].changed \cup {col} /\ rows'[k].new = rows[k].new
  BY <1>2 DEF Written
<1>4. ~rows'[k].new => \A d \in rows'[k].changed : rows'[k].val[d] > 0
  BY <1>1, <1>3 DEF UpdatesAreSet, HasRow, Row, Values
<1>. QED BY <1>1, <1>2, <1>4 DEF UpdatesAreSet, HasRow

LEMMA SaveDataUpdates ==
  ASSUME IInv, UpdatesAreSet, NEW s \in Savers, NEW k \in Keys, SaveData(s, k)
  PROVE  UpdatesAreSet'
<1>1. rows[k] \in Row /\ rows[k] # NoRow
  BY DEF SaveData, IInv, TypeOK, NewIsUnknown, HasRow
<1>2. /\ rows'[k] = [rows[k] EXCEPT !.changed = {}, !.new = FALSE]
      /\ \A j \in Keys \ {k} : rows'[j] = rows[j]
      /\ \A t \in Savers \ {s} : stmt'[t] = stmt[t]
  BY <1>1 DEF SaveData, IInv, TypeOK
<1>3. rows'[k].changed = {} BY <1>1, <1>2 DEF Row
<1>4. stmt'[s] # NoRow /\ ~stmt'[s].insert => \A col \in stmt'[s].cols : stmt'[s].val[col] > 0
  <2>1. stmt'[s] = IF rows[k].new \/ rows[k].changed # {}
                   THEN [key |-> k, val |-> rows[k].val, insert |-> rows[k].new,
                         cols |-> IF rows[k].new THEN Cols ELSE rows[k].changed]
                   ELSE NoRow
    BY DEF SaveData, IInv, TypeOK
  <2>. QED BY <1>1, <2>1 DEF UpdatesAreSet, HasRow
<1>. QED BY <1>2, <1>3, <1>4 DEF UpdatesAreSet, HasRow

LEMMA IdsUpdates ==
  ASSUME IdsIInv, IInv, UpdatesAreSet, [IdsNext]_allVars PROVE UpdatesAreSet'
<1>0. TypeOK BY DEF IInv
<1>1. ASSUME NEW c \in Clients, EnterStep(c) PROVE UpdatesAreSet'
  <2>1. stmt' = stmt BY <1>1, EnterKeepsSavers
  <2>2. CASE rows' = rows BY <2>1, <2>2, UpdatesFrame
  <2>3. CASE SetUniqueId(c)
    <3>1. enter[c].id \in Keys BY <2>3 DEF SetUniqueId, At, IdsIInv
    <3>2. rows' = rows \/ \E col \in Cols : SetCol(enter[c].id, col)
      BY <2>3 DEF SetUniqueId, SetNewCol
    <3>. QED BY <2>1, <3>1, <3>2, UpdatesFrame, SetColUpdates
  <2>. QED BY <1>1, <2>2, <2>3 DEF EnterStep, EnterGame, NextPlayerId, FlagCounter, AddPlayerRow, AddRow,
                                   Add2IdMap, Add2UidMap, table, memory
<1>2. ASSUME NEW s \in Savers, SaveStep(s) PROVE UpdatesAreSet'
  <2>1. CASE FetchNewPlayers(s)
    <3>1. stmt' = stmt /\ \A k \in Keys : rows'[k] = IF k \in Fetched THEN newRows[k] ELSE rows[k]
      BY <2>1 DEF FetchNewPlayers, FetchNewRows
    <3>2. \A k \in Fetched : newRows[k].new BY DEF Fetched, IInv, NewIsUnknown
    <3>. QED BY <3>1, <3>2 DEF UpdatesAreSet, HasRow
  <2>2. ASSUME NEW k \in Keys, SaveData(s, k) PROVE UpdatesAreSet' BY <2>2, SaveDataUpdates
  <2>3. CASE ExecOk(s) \/ ExecFail(s)
    <3>1. rows' = rows /\ stmt' = [stmt EXCEPT ![s] = NoRow] BY <2>3 DEF ExecOk, ExecFail, memory
    <3>. QED BY <1>0, <3>1, UpdatesFrame DEF TypeOK
  <2>4. CASE UNCHANGED <<memory, stmt>> BY <2>4, UpdatesFrame DEF memory
  <2>. QED BY <1>2, <2>1, <2>2, <2>3, <2>4
           DEF SaveStep, BeginSave, GlobalSaved, StartPass, GlobalFailed, TableStep, StopSaving,
               EndPass, AfterPass
<1>3. CASE Stop BY <1>3, UpdatesFrame DEF Stop, SetQuit, Exit, memory
<1>4. CASE Restart
  <2>1. /\ \A s \in Savers : stmt'[s] = NoRow
        /\ \A k \in Keys : rows'[k] = Preloaded(db[k])
    BY <1>4 DEF Restart, Crash
  <2>2. ASSUME NEW k \in Keys PROVE rows'[k] = NoRow \/ rows'[k].changed = {}
    <3>1. CASE db[k] = NoRow BY <2>1, <3>1 DEF Preloaded
    <3>2. CASE db[k] # NoRow
      <4>1. rows'[k] = [val |-> db[k], changed |-> {}, new |-> FALSE] BY <2>1, <3>2 DEF Preloaded
      <4>. QED BY <4>1
    <3>. QED BY <3>1, <3>2
  <2>. QED BY <2>1, <2>2 DEF UpdatesAreSet, HasRow
<1>5. CASE UNCHANGED allVars BY <1>5, UpdatesFrame DEF allVars, table, memory
<1>. QED BY <1>1, <1>2, <1>3, <1>4, <1>5 DEF IdsNext, IdsTerminated

\* A row of MySQL that has its columns keeps them set, and its owner.
LEMMA StoredRowStays ==
  ASSUME IdsIInv, IInv, UpdatesAreSet, [IdsNext]_allVars,
         NEW k \in Keys, db[k] # NoRow, \A col \in Cols : db[k][col] # 0
  PROVE  db'[k] # NoRow /\ (\A col \in Cols : db'[k][col] # 0) /\ owner'[k] = owner[k]
<1>0. TypeOK /\ NoRow \notin Values BY ConstantsAssumption DEF IInv
<1>1. ASSUME NEW s \in Savers, ExecOk(s)
      PROVE  db'[k] # NoRow /\ (\A col \in Cols : db'[k][col] # 0)
  <2>1. PICK q \in Stmt : q = stmt[s] /\ q # NoRow BY <1>0, <1>1 DEF ExecOk, TypeOK
  <2>2. q.key \in Keys /\ q.val \in Values BY DEF Stmt
  <2>3. CASE q.key # k BY <1>0, <1>1, <2>1, <2>2, <2>3 DEF ExecOk, TypeOK
  <2>4. CASE q.key = k
    <3>1. ~q.insert BY <1>1, <2>1, <2>4 DEF ExecOk, Refused
    <3>2. db'[k] = [col \in Cols |-> IF col \in q.cols THEN q.val[col] ELSE db[k][col]]
      BY <1>0, <1>1, <2>1, <2>2, <2>4, <3>1 DEF ExecOk, Applied, TypeOK
    <3>3. db'[k] \in Values BY <1>0, <2>2, <3>2 DEF TypeOK, Values
    <3>4. \A col \in q.cols : q.val[col] > 0 BY <2>1, <3>1 DEF UpdatesAreSet
    <3>. QED BY <1>0, <3>2, <3>3, <3>4
  <2>. QED BY <2>3, <2>4
<1>2. HasRow(k) BY DEF IInv, NewIsUnknown
<1>3. ASSUME NEW c \in Clients, EnterStep(c) PROVE UNCHANGED <<db, owner>>
  BY <1>3, EnterKeepsSavers
<1>4. ASSUME NEW s \in Savers, FetchNewPlayers(s) PROVE db' = db /\ owner'[k] = owner[k]
  <2>1. k \notin Fetched BY <1>2 DEF Fetched
  <2>. QED BY <1>4, <2>1 DEF FetchNewPlayers, FetchNewRows
<1>5. ASSUME NEW s \in Savers, TableStep(s) PROVE owner' = owner /\ (db' = db \/ ExecOk(s))
  BY <1>5 DEF TableStep, players, StopSaving, ExecFail, EndPass, AfterPass, SaveData
<1>6. ASSUME NEW s \in Savers,
             GlobalSaved(s) \/ GlobalFailed(s) \/ \E phase \in {"rows", "finalRows"} : BeginSave(s, phase)
      PROVE  UNCHANGED <<db, owner>>
  BY <1>6 DEF GlobalSaved, StartPass, GlobalFailed, BeginSave, players
<1>7. CASE Stop BY <1>7 DEF Stop, SetQuit, Exit, players
<1>8. CASE Restart BY <1>8 DEF Restart, Crash
<1>9. CASE UNCHANGED allVars BY <1>9 DEF allVars, table, players
<1>. QED BY <1>1, <1>3, <1>4, <1>5, <1>6, <1>7, <1>8, <1>9 DEF IdsNext, IdsTerminated, SaveStep

-----------------------------------------------------------------------------
(* The exit stores a counter that covers the players *)

\* What CounterCovers says before the first overlap, failure and crash.
CountersFollow ==
  /\ counterDb <= counter
  /\ \A s \in Savers : value[s] <= counter /\ (value[s] # 0 => counterDb <= value[s])
  /\ \A c \in Clients : enter[c].step \in {"flag", "add"} => client[c] = enter[c].id
  /\ \A c \in Clients : enter[c].step = "flag" => enter[c].id <= counter
  /\ \A c \in Clients : enter[c].step = "add" => Covered(enter[c].id)
  /\ \A k \in Keys : GetRow(k) # NoRow => Covered(k)
  /\ \A k \in Keys : atQuit[k] # NoRow =>
       /\ Covered(k)
       /\ saving[Loop] = "finalRows" => k <= counterDb \/ k <= value[Loop]
       /\ Quick(Loop) \/ completed => k <= counterDb

\* Steps that leave the counters and the Global row alone and add no row.
LEMMA CountersFrame ==
  ASSUME CountersFollow, UNCHANGED <<counter, counterChanged, counterDb, saving, value, atQuit>>,
         \A c \in Clients : enter'[c].step \in {"flag", "add"} =>
           enter'[c] = enter[c] /\ client'[c] = client[c],
         \A k \in Keys : GetRow(k)' # NoRow => GetRow(k) # NoRow,
         Quick(Loop)' \/ completed' => Quick(Loop) \/ completed
  PROVE  CountersFollow'
<1>1. ASSUME NEW j PROVE Covered(j)' = Covered(j) BY DEF Covered
<1>. QED BY <1>1 DEF CountersFollow

\* GetNextPlayerId draws an id, then flags the counter; the row is added after.
LEMMA EnterCovers ==
  ASSUME IdsIInv, IdsStored, IInv, CountersFollow, NEW c \in Clients, EnterStep(c) PROVE CountersFollow'
<1>0. /\ TypeOK /\ counter \in Nat /\ counterDb \in Nat /\ value \in [Savers -> Nat]
      /\ enter \in [Clients -> Enters] /\ \A d \in Clients : enter[d].id \in Nat
      /\ Keys \subseteq Nat
  BY IdsAssumption DEF IInv, IdsIInv, IdsStored, Enters
<1>1. UNCHANGED <<control, counterDb, saving, value>> BY EnterKeepsSavers
<1>2. UNCHANGED <<atQuit, completed>> /\ Quick(Loop)' = Quick(Loop) BY <1>1 DEF control, Quick
<1>3. CASE NextPlayerId(c)
  <2>1. /\ counter' = counter + 1 /\ UNCHANGED <<memory, counterChanged>>
        /\ enter'[c].step = "flag" /\ enter'[c].id = counter' /\ client'[c] = counter'
        /\ \A d \in Clients \ {c} : enter'[d] = enter[d] /\ client'[d] = client[d]
    BY <1>0, <1>3 DEF NextPlayerId, Enters, TypeOK
  <2>2. \A j \in Nat : Covered(j) => Covered(j)' BY <1>0, <1>1, <2>1 DEF Covered
  <2>3. \A k \in Keys : GetRow(k)' = GetRow(k) BY <2>1 DEF GetRow, HasRow, memory
  <2>. QED BY <1>0, <1>1, <1>2, <2>1, <2>2, <2>3 DEF CountersFollow
<1>4. CASE FlagCounter(c)
  <2>1. /\ counter' = counter /\ counterChanged' = TRUE /\ UNCHANGED <<memory, client>>
        /\ enter[c].step = "flag" /\ enter'[c].step = "add" /\ enter'[c].id = enter[c].id
        /\ \A d \in Clients \ {c} : enter'[d] = enter[d]
    BY <1>0, <1>4 DEF FlagCounter, To, At, table, Enters
  <2>2. \A j \in Nat : Covered(j) => Covered(j)' BY <1>0, <1>1, <2>1 DEF Covered
  <2>3. PICK id \in Nat : id = enter[c].id BY <1>0
  <2>5. Covered(id)' BY <2>1, <2>3 DEF Covered, CountersFollow
  <2>4. \A k \in Keys : GetRow(k)' = GetRow(k) BY <2>1 DEF GetRow, HasRow, memory
  <2>. QED BY <1>0, <1>1, <1>2, <2>1, <2>2, <2>3, <2>4, <2>5 DEF CountersFollow
<1>5. CASE AddPlayerRow(c)
  <2>1. /\ UNCHANGED <<counter, counterChanged, rows>>
        /\ enter[c].step = "add" /\ enter'[c].step \in {"uid", "idle"}
        /\ \A d \in Clients \ {c} : enter'[d] = enter[d] /\ client'[d] = client[d]
    BY <1>0, <1>5 DEF AddPlayerRow, AddRow, To, At, global, Enters, TypeOK
  <2>2. ASSUME NEW j PROVE Covered(j)' = Covered(j) BY <1>1, <2>1 DEF Covered
  <2>3. enter[c].id \in Keys /\ Covered(enter[c].id) BY <2>1 DEF IdsIInv, CountersFollow
  <2>4. client[c] = enter[c].id BY <2>1 DEF CountersFollow
  <2>5. \A k \in Keys : GetRow(k)' # NoRow => GetRow(k) # NoRow \/ k = enter[c].id
    BY <1>0, <1>5, <2>1, <2>4 DEF AddPlayerRow, AddRow, GetRow, HasRow, TypeOK
  <2>. QED BY <1>1, <1>2, <2>1, <2>2, <2>3, <2>5 DEF CountersFollow
<1>6. CASE SetUniqueId(c)
  <2>1. /\ UNCHANGED <<counter, counterChanged>> /\ enter'[c].step = "idMap"
        /\ \A d \in Clients \ {c} : enter'[d] = enter[d]
        /\ enter[c].id \in Keys /\ client' = client
    BY <1>0, <1>6 DEF SetUniqueId, SetNewCol, SetCol, To, At, global, Enters, IdsIInv
  <2>2. \A k \in Keys : GetRow(k)' # NoRow => GetRow(k) # NoRow
    <3>1. \A col \in Cols : SetNewCol(enter[c].id, col) \/ SetCol(enter[c].id, col) =>
            \A k \in Keys : GetRow(k)' # NoRow => GetRow(k) # NoRow
      BY <1>0, <2>1 DEF SetNewCol, SetCol, GetRow, HasRow, TypeOK
    <3>. QED BY <1>6, <3>1 DEF SetUniqueId
  <2>. QED BY <1>1, <1>2, <2>1, <2>2, CountersFrame
<1>7. CASE (\E u \in Uids : EnterGame(c, u)) \/ Add2IdMap(c) \/ Add2UidMap(c)
  <2>1. /\ UNCHANGED <<counter, counterChanged, memory, client>>
        /\ enter'[c].step \notin {"flag", "add"}
        /\ \A d \in Clients \ {c} : enter'[d] = enter[d]
    BY <1>0, <1>7 DEF EnterGame, Add2IdMap, Add2UidMap, To, table, global, Enters
  <2>2. \A k \in Keys : GetRow(k)' = GetRow(k) BY <2>1 DEF GetRow, HasRow, memory
  <2>. QED BY <1>1, <1>2, <2>1, <2>2, CountersFrame
<1>. QED BY <1>3, <1>4, <1>5, <1>6, <1>7 DEF EnterStep

\* The Global row: its flag is cleared, then the counter arrives.
LEMMA GlobalCovers ==
  ASSUME IdsIInv, IdsStored, IInv, SavingIsAlone, ~overlapped', CountersFollow, NEW s \in Savers,
         GlobalSaved(s) \/ \E phase \in {"rows", "finalRows"} : BeginSave(s, phase)
  PROVE  CountersFollow'
<1>0. /\ TypeOK /\ counter \in Nat /\ counterDb \in Nat /\ value \in [Savers -> Nat]
      /\ \A d \in Clients : enter[d].id \in Nat
      /\ Keys \subseteq Nat /\ Loop \in Savers
  BY IdsAssumption DEF IInv, IdsIInv, IdsStored, Enters, Savers
<1>1. UNCHANGED <<memory, client, counter, enter, atQuit, completed>>
  BY DEF GlobalSaved, StartPass, BeginSave, players
<1>2. \A k \in Keys : GetRow(k)' = GetRow(k) BY <1>1 DEF GetRow, HasRow, memory
<1>3. \A t \in Savers \ {s} : saving[t] = "none" /\ value[t] = 0
  <2>1. CASE GlobalSaved(s) BY <2>1 DEF GlobalSaved, StartPass, SavingIsAlone
  <2>2. CASE ~GlobalSaved(s) BY <2>2 DEF BeginSave, SavingIsAlone
  <2>. QED BY <2>1, <2>2
<1>4. ASSUME NEW phase \in {"rows", "finalRows"}, BeginSave(s, phase) PROVE CountersFollow'
  <2>1. /\ value'[s] = IF counterChanged THEN counter ELSE 0
        /\ \A t \in Savers \ {s} : value'[t] = 0
        /\ counterDb' = counterDb /\ pc' = pc /\ value[s] = 0
    BY <1>0, <1>3, <1>4 DEF BeginSave, SavingIsAlone
  <2>2. \A j \in Nat : Covered(j) => j <= counterDb \/ j <= value'[s]
    BY <1>0, <1>3, <2>1 DEF Covered
  <2>3. \A j \in Nat : Covered(j) => Covered(j)' BY <2>1, <2>2 DEF Covered
  <2>4. saving'[Loop] = "finalRows" => s = Loop
    BY <1>0, <1>3, <1>4 DEF BeginSave, SavingIsAlone
  <2>5. Quick(Loop)' = Quick(Loop) BY <2>1 DEF Quick
  <2>6. /\ counterDb' <= counter'
        /\ \A t \in Savers : value'[t] <= counter' /\ (value'[t] # 0 => counterDb' <= value'[t])
    BY <1>0, <1>1, <2>1 DEF CountersFollow
  <2>7. \A k \in Keys : atQuit'[k] # NoRow =>
          /\ Covered(k)'
          /\ saving'[Loop] = "finalRows" => k <= counterDb' \/ k <= value'[Loop]
          /\ Quick(Loop)' \/ completed' => k <= counterDb'
    BY <1>0, <1>1, <2>1, <2>2, <2>3, <2>4, <2>5 DEF CountersFollow
  <2>8. /\ \A k \in Keys : GetRow(k)' # NoRow => Covered(k)'
        /\ \A c \in Clients : enter'[c].step \in {"flag", "add"} => client'[c] = enter'[c].id
        /\ \A c \in Clients : enter'[c].step = "flag" => enter'[c].id <= counter'
    BY <1>0, <1>1, <1>2, <2>3 DEF CountersFollow
  <2>9. ASSUME NEW c \in Clients, enter'[c].step = "add" PROVE Covered(enter[c].id)'
    <3>1. PICK id \in Nat : id = enter[c].id BY <1>0
    <3>2. Covered(id) BY <1>1, <2>9, <3>1 DEF CountersFollow
    <3>3. Covered(id)' BY <2>3, <3>2
    <3>. QED BY <1>1, <3>1, <3>3 DEF Covered
  <2>. QED BY <1>1, <2>6, <2>7, <2>8, <2>9 DEF CountersFollow, Covered
<1>5. CASE GlobalSaved(s)
  <2>1. /\ counterDb' = IF value[s] = 0 THEN counterDb ELSE value[s]
        /\ counterChanged' = counterChanged
        /\ \A t \in Savers : value'[t] = 0
        /\ \A t \in Savers : saving'[t] = "none"
        /\ pc'[s] = saving[s] /\ \A t \in Savers \ {s} : pc'[t] = pc[t]
    BY <1>0, <1>3, <1>5 DEF GlobalSaved, StartPass, SavingIsAlone, TypeOK
  <2>2. counterDb' \in Nat /\ counterDb <= counterDb' /\ counterDb' <= counter /\ value[s] <= counterDb'
    BY <1>0, <2>1 DEF CountersFollow
  <2>3. \A j \in Nat : Covered(j) => Covered(j)' BY <1>0, <1>1, <1>3, <2>1, <2>2 DEF Covered
  <2>4. Quick(Loop)' => Quick(Loop) \/ (s = Loop /\ saving[Loop] = "finalRows")
    BY <2>1, <1>0, <1>5 DEF Quick, SavingIsAlone, GlobalSaved
  <2>5. ASSUME NEW k \in Keys, atQuit[k] # NoRow, Quick(Loop)' \/ completed' PROVE k <= counterDb'
    <3>1. k <= counterDb \/ k <= value[s] BY <1>1, <2>4, <2>5 DEF CountersFollow
    <3>. QED BY <1>0, <2>2, <3>1
  <2>. QED BY <1>0, <1>1, <1>2, <2>1, <2>2, <2>3, <2>5 DEF CountersFollow
<1>. QED BY <1>4, <1>5

LEMMA IdsCovers ==
  ASSUME IdsIInv, IdsStored, IInv, SavingIsAlone, QuitIsLate, CounterCovers, [IdsNext]_allVars
  PROVE  CounterCovers'
<1>. SUFFICES ASSUME ~overlapped', failures' = 0, crashes' = 0 PROVE CountersFollow'
  BY DEF CounterCovers, CountersFollow
<1>0. TypeOK /\ Loop \in Savers /\ ~(crashes + 1 = 0) /\ ~(failures + 1 = 0)
  BY DEF IInv, Savers, TypeOK
<1>1. ASSUME ~overlapped, failures = 0, crashes = 0 PROVE CountersFollow
  BY <1>1 DEF CounterCovers, CountersFollow
<1>2. ASSUME NEW c \in Clients, EnterStep(c) PROVE CountersFollow'
  BY <1>1, <1>2, EnterKeepsSavers, EnterCovers DEF control
<1>3. ASSUME NEW s \in Savers, SaveStep(s) PROVE CountersFollow'
  <2>1. CASE GlobalSaved(s)
    <3>1. ~overlapped /\ failures = 0 /\ crashes = 0 BY <2>1 DEF GlobalSaved, StartPass
    <3>. QED BY <1>1, <2>1, <3>1, GlobalCovers
  <2>2. ASSUME NEW phase \in {"rows", "finalRows"}, BeginSave(s, phase) PROVE CountersFollow'
    <3>1. ~overlapped /\ failures = 0 /\ crashes = 0 BY <2>2 DEF BeginSave
    <3>. QED BY <1>1, <2>2, <3>1, GlobalCovers
  <2>3. CASE GlobalFailed(s) BY <1>0, <2>3 DEF GlobalFailed
  <2>4. CASE FetchNewPlayers(s)
    <3>1. /\ ~overlapped /\ failures = 0 /\ crashes = 0
          /\ UNCHANGED <<counter, counterChanged, counterDb, saving, value, atQuit, enter, client, completed>>
      BY <2>4 DEF FetchNewPlayers, FetchNewRows, global
    <3>2. \A k \in Keys : GetRow(k)' # NoRow => GetRow(k) # NoRow
      BY <2>4 DEF FetchNewPlayers, FetchNewRows, Fetched, GetRow, HasRow
    <3>3. Quick(Loop)' => Quick(Loop)
      BY <1>0, <2>4 DEF FetchNewPlayers, FetchNewRows, Quick, TypeOK
    <3>. QED BY <1>1, <3>1, <3>2, <3>3, CountersFrame
  <2>5. CASE TableStep(s)
    <3>1. UNCHANGED <<counter, counterChanged, counterDb, saving, value, enter, client, crashes>>
      BY <2>5 DEF TableStep, global, players, StopSaving, ExecOk, ExecFail, EndPass, AfterPass, SaveData
    <3>2. CASE EndPass(s)
      <4>1. /\ ~overlapped /\ failures = 0 /\ UNCHANGED <<memory, atQuit>>
            /\ AfterPass(s) /\ InPass(s)
        BY <3>2 DEF EndPass, AfterPass, InPass, Phases
      <4>2. ~Quick(s)' /\ (~Quick(s) => completed' = completed) /\ (Quick(s) => s = Loop)
        BY <4>1, AfterPassLate
      <4>3. s # Loop => Quick(Loop)' = Quick(Loop)
        BY <1>0, <4>1 DEF AfterPass, Quick, TypeOK
      <4>4. \A k \in Keys : GetRow(k)' = GetRow(k) BY <4>1 DEF GetRow, HasRow, memory
      <4>. QED BY <1>1, <3>1, <4>1, <4>2, <4>3, <4>4, CountersFrame
    <3>3. CASE StopSaving(s) \/ ExecOk(s)
      <4>1. ~overlapped /\ failures = 0 /\ UNCHANGED <<memory, atQuit, completed, pc>>
        BY <3>3 DEF StopSaving, ExecOk, control
      <4>2. \A k \in Keys : GetRow(k)' = GetRow(k) BY <4>1 DEF GetRow, HasRow, memory
      <4>3. Quick(Loop)' = Quick(Loop) BY <4>1 DEF Quick
      <4>. QED BY <1>1, <3>1, <4>1, <4>2, <4>3, CountersFrame
    <3>4. ASSUME NEW j \in Keys, SaveData(s, j) PROVE CountersFollow'
      <4>1. ~overlapped /\ failures = 0 /\ UNCHANGED <<newRows, atQuit, completed, pc>>
        BY <3>4 DEF SaveData
      <4>2. \A k \in Keys : GetRow(k)' # NoRow => GetRow(k) # NoRow
        BY <3>4, <4>1, SaveDataGrows DEF GetRow, HasRow
      <4>3. Quick(Loop)' = Quick(Loop) BY <4>1 DEF Quick
      <4>. QED BY <1>1, <3>1, <4>1, <4>2, <4>3, CountersFrame
    <3>5. ~ExecFail(s) BY <1>0 DEF ExecFail
    <3>. QED BY <2>5, <3>2, <3>3, <3>4, <3>5 DEF TableStep
  <2>. QED BY <1>3, <2>1, <2>2, <2>3, <2>4, <2>5 DEF SaveStep
<1>4. CASE Stop
  <2>1. /\ ~overlapped /\ failures = 0 /\ crashes = 0
        /\ UNCHANGED <<counter, counterChanged, counterDb, saving, value, enter, client, completed, memory>>
    BY <1>4 DEF Stop, SetQuit, Exit, global, players
  <2>2. CountersFollow BY <1>1, <2>1
  <2>3. \A k \in Keys : GetRow(k)' = GetRow(k) BY <2>1 DEF GetRow, HasRow, memory
  <2>4. Loop # Stopper /\ Stopper \in Savers BY ConstantsAssumption DEF Savers
  <2>5. CASE SetQuit
    <3>1. ~quit /\ pc'[Loop] = pc[Loop] BY <1>0, <2>4, <2>5 DEF SetQuit, QuitIsLate, TypeOK
    <3>2. ~Quick(Loop)' /\ ~completed /\ saving[Loop] # "finalRows"
      BY <1>0, <3>1 DEF QuitIsLate, Quick, SavingIsAlone
    <3>3. \A k \in Keys : atQuit'[k] # NoRow => Covered(k) BY <2>2, <2>5 DEF SetQuit, CountersFollow
    <3>4. ASSUME NEW j PROVE Covered(j)' = Covered(j) BY <2>1 DEF Covered
    <3>. QED BY <2>1, <2>2, <2>3, <3>2, <3>3, <3>4 DEF CountersFollow
  <2>6. CASE Exit
    <3>1. atQuit' = atQuit /\ pc'[Loop] = pc[Loop] BY <1>0, <2>4, <2>6 DEF Exit, TypeOK
    <3>2. Quick(Loop)' = Quick(Loop) BY <3>1 DEF Quick
    <3>. QED BY <2>1, <2>2, <2>3, <3>1, <3>2, CountersFrame
  <2>. QED BY <1>4, <2>5, <2>6 DEF Stop
<1>5. CASE Restart BY <1>0, <1>5 DEF Restart, Crash
<1>6. CASE UNCHANGED allVars
  <2>1. /\ ~overlapped /\ failures = 0 /\ crashes = 0
        /\ UNCHANGED <<counter, counterChanged, counterDb, saving, value, enter, client, completed, memory,
                       atQuit, pc>>
    BY <1>6 DEF allVars, table, control, global, players
  <2>2. \A k \in Keys : GetRow(k)' = GetRow(k) BY <2>1 DEF GetRow, HasRow, memory
  <2>3. Quick(Loop)' = Quick(Loop) BY <2>1 DEF Quick
  <2>. QED BY <1>1, <2>1, <2>2, <2>3, CountersFrame
<1>. QED BY <1>2, <1>3, <1>4, <1>5, <1>6 DEF IdsNext, IdsTerminated

-----------------------------------------------------------------------------
(* The theorems *)

\* GetNextPlayerId: until the server crashes, an id that a handler drew belongs to no
\* player and to no other handler.
THEOREM IdsStayFresh == IdsSpec => []IdsAreFresh
<1>1. IdsInit => IdsIInv /\ IdsStored
  BY IdsInitInv, IdsAssumption DEF IdsStored, IdsInit
<1>2. IdsIInv /\ IdsStored /\ [IdsNext]_allVars => (IdsIInv /\ IdsStored)' BY IdsNextInv
<1>3. IdsIInv => IdsAreFresh BY DEF IdsIInv
<1>. QED BY <1>1, <1>2, <1>3, PTL DEF IdsSpec

LEMMA IdsExitInit == IdsInit => IInv /\ IdsExitInv
<1>. SUFFICES ASSUME IdsInit PROVE IInv /\ IdsExitInv OBVIOUS
<1>1. IInv BY InitInv DEF IdsInit
<1>2. QuitIsLate BY InitExit DEF IdsInit, ExitInv
<1>3. SavingIsAlone BY DEF IdsInit, Init, SavingIsAlone, Savers
<1>4. UpdatesAreSet BY DEF IdsInit, Init, UpdatesAreSet, HasRow
<1>5. CounterCovers BY DEF IdsInit, Init, CounterCovers, GetRow, HasRow, Idle
<1>. QED BY <1>1, <1>2, <1>3, <1>4, <1>5 DEF IdsExitInv

LEMMA IdsExitNext ==
  ASSUME IdsIInv, IdsStored, IInv, IdsExitInv, [IdsNext]_allVars PROVE IInv' /\ IdsExitInv'
BY IdsTable, IdsAlone, IdsLate, IdsUpdates, IdsCovers DEF IdsExitInv

\* on_preload and GetNextPlayerId: a stored row never becomes another player's, although
\* its id may be drawn again after a crash (RowKeepsItsOwner), whatever passes overlap
\* and statements fail.
THEOREM OwnersStay == IdsSpec => RowKeepsItsOwner
<1>1. ASSUME IdsIInv, IInv, UpdatesAreSet, [IdsNext]_allVars
      PROVE  [\A k \in Keys : StoredUid(k) \in Uids => StoredUid(k)' = StoredUid(k)]_allVars
  <2>. SUFFICES ASSUME NEW k \in Keys, StoredUid(k) \in Uids PROVE StoredUid(k)' = StoredUid(k)
    OBVIOUS
  <2>1. db[k] # NoRow /\ \A col \in Cols : db[k][col] # 0 BY UidsAssumption DEF StoredUid
  <2>2. db'[k] # NoRow /\ (\A col \in Cols : db'[k][col] # 0) /\ owner'[k] = owner[k]
    BY <1>1, <2>1, StoredRowStays
  <2>. QED BY <2>1, <2>2 DEF StoredUid
<1>2. IdsInit => IdsIInv /\ IdsStored
  BY IdsInitInv, IdsAssumption DEF IdsStored, IdsInit
<1>3. IdsIInv /\ IdsStored /\ [IdsNext]_allVars => (IdsIInv /\ IdsStored)' BY IdsNextInv
<1>4. IdsExitInv => UpdatesAreSet BY DEF IdsExitInv
<1>. QED BY <1>1, <1>2, <1>3, <1>4, IdsExitInit, IdsExitNext, PTL DEF IdsSpec, RowKeepsItsOwner

\* DBC.Save writes the Global row first: after a clean exit the counter in MySQL still
\* covers every player that memory held when m_quit was set (ExitCoversIds).
THEOREM ExitKeepsIdsApart == IdsSpec => []ExitCoversIds
<1>1. IdsInit => IdsIInv /\ IdsStored
  BY IdsInitInv, IdsAssumption DEF IdsStored, IdsInit
<1>2. IdsIInv /\ IdsStored /\ [IdsNext]_allVars => (IdsIInv /\ IdsStored)' BY IdsNextInv
<1>3. IdsExitInv => ExitCoversIds BY DEF IdsExitInv, CounterCovers, ExitCoversIds
<1>. QED BY <1>1, <1>2, <1>3, IdsExitInit, IdsExitNext, PTL DEF IdsSpec

=============================================================================
