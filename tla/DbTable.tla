------------------------------ MODULE DbTable ------------------------------
(***************************************************************************)
(* One table of the generated write-behind database cache: the same code   *)
(* is in a_db_tables.go of the game, login and rpc servers, once per table.*)
(* Handlers read and write rows in memory; a pass of a saver copies what   *)
(* changed to MySQL.  Two goroutines run passes: DBC.Loop, every           *)
(* DBCST_MIN..DBCST_MAX seconds and once more when it is told to quit, and *)
(* the server's Shutdown, which calls dbc.Save(false) before dbc.Shutdown()*)
(* makes the loop end.                                                     *)
(*                                                                         *)
(* The value of a column is a version: a setter writes the next one.       *)
(* RemoveRow is not modelled: its only caller is ActivityMgr.Run, which    *)
(* the server never starts.                                                *)
(***************************************************************************)
EXTENDS Naturals, FiniteSets

CONSTANTS
  Keys,         \* primary keys of the table
  Cols,         \* columns of the table
  Clients,      \* goroutines that create rows
  MaxVersion,   \* bound on the writes to a column
  MaxFailures,  \* bound on the failed SQL statements
  MaxCrashes,   \* bound on the crashes
  NoRow,        \* nil in memory, no row in MySQL, no statement
  Loop,         \* the goroutine of DBC.Loop
  Stopper       \* the goroutine of the server's Shutdown

Savers == {Loop, Stopper}
Values == [Cols -> Nat]
Row    == [val : Values, changed : SUBSET Cols, new : BOOLEAN]
\* What save_data returns and Exec or StmtExec runs.
Stmt   == [key : Keys, cols : SUBSET Cols, val : Values, insert : BOOLEAN]

ASSUME BoundsAssumption ==
  MaxVersion \in Nat /\ MaxFailures \in Nat /\ MaxCrashes \in Nat

ASSUME ConstantsAssumption ==
  /\ Loop # Stopper
  /\ NoRow \notin Keys \cup Values \cup Row \cup Stmt

VARIABLES
  rows,       \* m_rows
  newRows,    \* m_new_rows
  db,         \* the rows in MySQL
  client,     \* the key each client found no row for, NoRow when it is idle
  pc,         \* where each saver is
  todo,       \* the keys left in each saver's loop of save_rows
  stmt,       \* the statement each saver built and has not run yet
  quit,       \* m_quit
  completed,  \* m_shutdown_completed
  failed,     \* history: keys with a failed statement since the boot
  failures,   \* history: failed statements
  overlapped, \* history: two savers were in a pass at once since the boot
  crashes,    \* history: crashes
  atQuit      \* history: what memory held when m_quit was set

memory  == <<rows, newRows>>
control == <<pc, todo, quit, completed, overlapped, atQuit>>
vars    == <<memory, db, client, control, stmt, failed, failures, crashes>>

(***************************************************************************)
(* A saver is idle, or in the phase of Table.Save that saves the rows it   *)
(* knew or the one that saves the rows added since ("finalRows" and        *)
(* "finalNew" in the loop's last pass, Save(true)); Stopper then has       *)
(* "passed" and goes "waiting" for the loop, and both are "done".          *)
(***************************************************************************)
RowPhases == {"rows", "finalRows"}
NewPhases == {"new", "finalNew"}
Phases    == RowPhases \cup NewPhases
InPass(s) == pc[s] \in Phases
Quick(s)  == pc[s] \in {"finalRows", "finalNew"}

HasRow(k)  == rows[k] # NoRow
\* GetRow: the row in m_rows, else the one in m_new_rows, else nil.
GetRow(k)  == IF HasRow(k) THEN rows[k] ELSE newRows[k]

TypeOK ==
  /\ rows      \in [Keys -> Row \cup {NoRow}]
  /\ newRows   \in [Keys -> Row \cup {NoRow}]
  /\ db        \in [Keys -> Values \cup {NoRow}]
  /\ client    \in [Clients -> Keys \cup {NoRow}]
  /\ pc        \in [Savers -> Phases \cup {"idle", "passed", "waiting", "done"}]
  /\ todo      \in [Savers -> SUBSET Keys]
  /\ stmt      \in [Savers -> Stmt \cup {NoRow}]
  /\ atQuit    \in [Keys -> Values \cup {NoRow}]
  /\ quit \in BOOLEAN /\ completed \in BOOLEAN /\ overlapped \in BOOLEAN
  /\ failed    \in SUBSET Keys
  /\ failures \in Nat /\ crashes \in Nat

\* Mutant of Preloaded: columns are not read.
PreloadedPartly(v) == IF v = NoRow THEN NoRow
                      ELSE [val |-> [col \in Cols |-> 0], changed |-> {}, new |-> FALSE]

(***************************************************************************)
(* The server boots with the rows that MySQL has (Preload); a fresh        *)
(* database has none.                                                      *)
(***************************************************************************)
Preloaded(v) == IF v = NoRow THEN NoRow
                ELSE [val |-> v, changed |-> {}, new |-> FALSE]

Init ==
  /\ rows = [k \in Keys |-> NoRow] /\ newRows = [k \in Keys |-> NoRow]
  /\ db = [k \in Keys |-> NoRow]
  /\ client = [c \in Clients |-> NoRow]
  /\ pc = [s \in Savers |-> "idle"]
  /\ todo = [s \in Savers |-> {}]
  /\ stmt = [s \in Savers |-> NoRow]
  /\ atQuit = [k \in Keys |-> NoRow]
  /\ quit = FALSE /\ completed = FALSE /\ overlapped = FALSE
  /\ failed = {} /\ failures = 0 /\ crashes = 0

-----------------------------------------------------------------------------
(* Handlers *)

\* A handler finds no row for k; it will add one, but holds no lock.
CheckRow(c, k) ==
  /\ client[c] = NoRow /\ GetRow(k) = NoRow
  /\ client' = [client EXCEPT ![c] = k]
  /\ UNCHANGED <<memory, db, control, stmt, failed, failures, crashes>>

\* AddRow looks at m_new_rows only; it returns nil when it finds the key.
AddRow(c) ==
  /\ client[c] # NoRow
  /\ newRows' = IF newRows[client[c]] # NoRow THEN newRows
                ELSE [newRows EXCEPT ![client[c]] =
                        [val |-> [col \in Cols |-> 0], changed |-> Cols, new |-> TRUE]]
  /\ client' = [client EXCEPT ![c] = NoRow]
  /\ UNCHANGED <<rows, db, control, stmt, failed, failures, crashes>>

\* Mutant of Written: the setter forgets the flag.
WrittenUnflagged(r, col) ==
  [val |-> [r.val EXCEPT ![col] = @ + 1], changed |-> r.changed, new |-> r.new]

\* A setter, under the row's lock.
Written(r, col) ==
  [val |-> [r.val EXCEPT ![col] = @ + 1], changed |-> r.changed \cup {col}, new |-> r.new]

SetCol(k, col) ==
  /\ HasRow(k) /\ rows[k].val[col] < MaxVersion
  /\ rows' = [rows EXCEPT ![k] = Written(@, col)]
  /\ UNCHANGED <<newRows, db, client, control, stmt, failed, failures, crashes>>

SetNewCol(k, col) ==
  /\ newRows[k] # NoRow /\ newRows[k].val[col] < MaxVersion
  /\ newRows' = [newRows EXCEPT ![k] = Written(@, col)]
  /\ UNCHANGED <<rows, db, client, control, stmt, failed, failures, crashes>>

-----------------------------------------------------------------------------
(* Savers *)

\* Table.Save starts: fetch_rows copies the map under the table's lock.
StartPass(s, phase) ==
  /\ pc' = [pc EXCEPT ![s] = phase]
  /\ todo' = [todo EXCEPT ![s] = {k \in Keys : HasRow(k)}]
  /\ overlapped' = (overlapped \/ \E t \in Savers \ {s} : InPass(t))
  /\ UNCHANGED <<memory, db, client, stmt, quit, completed, atQuit, failed, failures, crashes>>

\* After its sleep the loop looks at m_quit: an ordinary pass or the last one.
BeginPass(s) ==
  /\ pc[s] = "idle"
  /\ s = Loop => ~quit
  /\ StartPass(s, "rows")

BeginLastPass ==
  /\ pc[Loop] = "idle" /\ quit
  /\ StartPass(Loop, "finalRows")

\* Mutant of AfterPass: m_shutdown_completed is set by the last pass, not deferred.
AfterPassNoDefer(s) ==
  /\ pc' = [pc EXCEPT ![s] = IF s = Stopper THEN "passed"
                             ELSE IF Quick(s) \/ (quit /\ ~InPass(s)) THEN "done"
                             ELSE "idle"]
  /\ completed' = (completed \/ (s = Loop /\ Quick(s)))
  /\ UNCHANGED <<memory, db, client, todo, stmt, quit, overlapped, atQuit, failed, crashes>>

\* What follows a pass of s: the loop sleeps again, or has ended.
AfterPass(s) ==
  /\ pc' = [pc EXCEPT ![s] = IF s = Stopper THEN "passed"
                             ELSE IF Quick(s) \/ (quit /\ ~InPass(s)) THEN "done"
                             ELSE "idle"]
  /\ completed' = (completed \/ (s = Loop /\ pc'[s] = "done"))
  /\ UNCHANGED <<memory, db, client, todo, stmt, quit, overlapped, atQuit, failed, crashes>>

\* DBC.Save returns before it reaches this table: the Global row, which it
\* saves first, could not be written.
SkipPass(s) ==
  /\ pc[s] = "idle" /\ failures < MaxFailures
  /\ failures' = failures + 1
  /\ AfterPass(s)

\* save_rows: one row; save_data builds the statement and clears the flags
\* under the row's lock, before the statement runs.
SaveData(s, k) ==
  /\ InPass(s) /\ stmt[s] = NoRow /\ k \in todo[s]
  /\ quit => Quick(s)
  /\ todo' = [todo EXCEPT ![s] = @ \ {k}]
  /\ stmt' = [stmt EXCEPT ![s] =
       IF rows[k].new \/ rows[k].changed # {}
       THEN [key |-> k, val |-> rows[k].val, insert |-> rows[k].new,
             cols |-> IF rows[k].new THEN Cols ELSE rows[k].changed]
       ELSE NoRow]
  /\ rows' = [rows EXCEPT ![k].changed = {}, ![k].new = FALSE]
  /\ UNCHANGED <<newRows, db, client, pc, quit, completed, overlapped, atQuit,
                 failed, failures, crashes>>

\* Mutant of StopSaving: the last pass is cut short as well.
StopSavingAlways(s) ==
  /\ InPass(s) /\ stmt[s] = NoRow /\ todo[s] # {} /\ quit
  /\ todo' = [todo EXCEPT ![s] = {}]
  /\ UNCHANGED <<memory, db, client, pc, stmt, quit, completed, overlapped, atQuit,
                 failed, failures, crashes>>

\* Once m_quit is set an ordinary pass leaves the rows it has not reached.
StopSaving(s) ==
  /\ InPass(s) /\ stmt[s] = NoRow /\ todo[s] # {}
  /\ quit /\ ~Quick(s)
  /\ todo' = [todo EXCEPT ![s] = {}]
  /\ UNCHANGED <<memory, db, client, pc, stmt, quit, completed, overlapped, atQuit,
                 failed, failures, crashes>>

\* What MySQL makes of a statement: a duplicate INSERT is refused, an UPDATE of
\* an absent row changes nothing and is no error.
Refused(q) == q.insert /\ db[q.key] # NoRow

Applied(q) ==
  IF q.insert THEN q.val
  ELSE IF db[q.key] = NoRow THEN NoRow
  ELSE [col \in Cols |-> IF col \in q.cols THEN q.val[col] ELSE db[q.key][col]]

ExecOk(s) ==
  /\ stmt[s] # NoRow /\ ~Refused(stmt[s])
  /\ db' = [db EXCEPT ![stmt[s].key] = Applied(stmt[s])]
  /\ stmt' = [stmt EXCEPT ![s] = NoRow]
  /\ UNCHANGED <<memory, client, control, failed, failures, crashes>>

\* A statement fails: the error is logged, the flags stay cleared.
ExecFail(s) ==
  /\ stmt[s] # NoRow
  /\ Refused(stmt[s]) \/ failures < MaxFailures
  /\ failed' = failed \cup {stmt[s].key}
  /\ failures' = failures + 1
  /\ stmt' = [stmt EXCEPT ![s] = NoRow]
  /\ UNCHANGED <<memory, db, client, control, crashes>>

\* Mutants of Fetched: keys that m_rows has are fetched too; nothing is fetched.
FetchedAll  == {k \in Keys : newRows[k] # NoRow}
FetchedNone == {}

\* fetch_new_rows moves the rows added since, except those m_rows already has.
Fetched == {k \in Keys : newRows[k] # NoRow /\ ~HasRow(k)}

FetchNewRows(s) ==
  /\ pc[s] \in RowPhases /\ stmt[s] = NoRow /\ todo[s] = {}
  /\ rows' = [k \in Keys |-> IF k \in Fetched THEN newRows[k] ELSE rows[k]]
  /\ newRows' = [k \in Keys |-> IF k \in Fetched THEN NoRow ELSE newRows[k]]
  /\ todo' = [todo EXCEPT ![s] = Fetched]
  /\ pc' = [pc EXCEPT ![s] = IF Quick(s) THEN "finalNew" ELSE "new"]
  /\ UNCHANGED <<db, client, stmt, quit, completed, overlapped, atQuit, failed, failures, crashes>>

EndPass(s) ==
  /\ pc[s] \in NewPhases /\ stmt[s] = NoRow /\ todo[s] = {}
  /\ AfterPass(s)
  /\ UNCHANGED failures

-----------------------------------------------------------------------------
(* Shutdown and crash *)

\* DBC.Shutdown, called by Stopper after its own pass.
SetQuit ==
  /\ pc[Stopper] = "passed"
  /\ quit' = TRUE
  /\ atQuit' = [k \in Keys |-> IF GetRow(k) = NoRow THEN NoRow ELSE GetRow(k).val]
  /\ pc' = [pc EXCEPT ![Stopper] = "waiting"]
  /\ UNCHANGED <<memory, db, client, todo, stmt, completed, overlapped, failed, failures, crashes>>

Exit ==
  /\ pc[Stopper] = "waiting" /\ completed
  /\ pc' = [pc EXCEPT ![Stopper] = "done"]
  /\ UNCHANGED <<memory, db, client, todo, stmt, quit, completed, overlapped, atQuit,
                 failed, failures, crashes>>

\* The process dies and boots again: what was only in memory is gone.
Crash ==
  /\ crashes < MaxCrashes
  /\ crashes' = crashes + 1
  /\ rows' = [k \in Keys |-> Preloaded(db[k])]
  /\ newRows' = [k \in Keys |-> NoRow]
  /\ client' = [c \in Clients |-> NoRow]
  /\ pc' = [s \in Savers |-> "idle"]
  /\ todo' = [s \in Savers |-> {}]
  /\ stmt' = [s \in Savers |-> NoRow]
  /\ atQuit' = [k \in Keys |-> NoRow]
  /\ quit' = FALSE /\ completed' = FALSE /\ overlapped' = FALSE
  /\ failed' = {}
  /\ UNCHANGED <<db, failures>>

\* The process has ended.
Terminated == pc[Stopper] = "done" /\ UNCHANGED vars

Handlers ==
  \/ \E c \in Clients : AddRow(c) \/ \E k \in Keys : CheckRow(c, k)
  \/ \E k \in Keys, col \in Cols : SetCol(k, col) \/ SetNewCol(k, col)

SaverStep(s) ==
  \/ SkipPass(s) \/ StopSaving(s) \/ ExecOk(s) \/ ExecFail(s)
  \/ FetchNewRows(s) \/ EndPass(s)
  \/ \E k \in Keys : SaveData(s, k)

LoopStep    == BeginPass(Loop) \/ BeginLastPass \/ SaverStep(Loop)
StopperStep == pc[Stopper] # "idle" /\ (SaverStep(Stopper) \/ SetQuit \/ Exit)
\* The server is told to stop.
BeginStop   == BeginPass(Stopper) \/ SkipPass(Stopper)

Next == Handlers \/ LoopStep \/ StopperStep \/ BeginStop \/ Crash \/ Terminated

Spec == Init /\ [][Next]_vars

(***************************************************************************)
(* The loop's goroutine always runs on, and so does the one of Shutdown    *)
(* once the server was told to stop; handlers and crashes owe nothing.     *)
(***************************************************************************)
Fairness == WF_vars(LoopStep) /\ WF_vars(StopperStep)

FairSpec == Spec /\ Fairness

-----------------------------------------------------------------------------
(* Properties *)

\* Some saver has built a statement for k and not run it.
Pending(k) == \E s \in Savers : stmt[s] # NoRow /\ stmt[s].key = k

Stored(k, col, v) == db[k] # NoRow /\ db[k][col] >= v

(***************************************************************************)
(* A row of m_rows that is not flagged as new or changed (save_data clears *)
(* the flags before the statement runs) is in MySQL as it is in memory,    *)
(* unless a statement for it failed or two passes ran at once.             *)
(***************************************************************************)
CleanMeansStored ==
  ~overlapped =>
    \A k \in Keys \ failed :
      HasRow(k) /\ ~rows[k].new /\ ~Pending(k) =>
        /\ db[k] # NoRow
        /\ \A col \in Cols \ rows[k].changed : db[k][col] = rows[k].val[col]

(***************************************************************************)
(* An INSERT never meets the row it inserts, whatever the savers and the   *)
(* handlers that add the same key do (m_new is cleared under the row's     *)
(* lock, fetch_new_rows skips a key that m_rows has).                      *)
(***************************************************************************)
InsertIsFirst ==
  \A s \in Savers : stmt[s] # NoRow /\ stmt[s].insert => db[stmt[s].key] = NoRow

(***************************************************************************)
(* A step never makes MySQL forget a row or go back to an older value of a *)
(* column, as long as passes do not overlap.                               *)
(***************************************************************************)
DbNeverGoesBack ==
  [][~overlapped' => \A k \in Keys : db[k] # NoRow =>
        \A col \in Cols : (db'[k] # NoRow /\ db'[k][col] >= db[k][col])]_vars

(***************************************************************************)
(* When the loop reports m_shutdown_completed, every row and every value   *)
(* that memory held when m_quit was set is in MySQL, provided that no      *)
(* statement failed and no two passes overlapped: a pass that m_quit cut   *)
(* short loses nothing.                                                    *)
(***************************************************************************)
SavedAtQuit == \A k \in Keys : atQuit[k] # NoRow =>
                 \A col \in Cols : Stored(k, col, atQuit[k][col])

ExitSavesAll == completed /\ ~overlapped /\ failures = 0 => SavedAtQuit

(***************************************************************************)
(* The same with nothing assumed of the passes: "保存所有数据" (exit, save    *)
(* all data) says the log line before the last Save(true).                 *)
(***************************************************************************)
LastPassSavesAll == completed /\ failures = 0 => SavedAtQuit

(***************************************************************************)
(* What a handler wrote to the row that GetRow returns reaches MySQL, in a *)
(* pass or at the exit, unless the exit came first, passes overlapped, a   *)
(* statement failed or the process crashed.                                *)
(***************************************************************************)
WritesReachDb ==
  \A k \in Keys, col \in Cols, v \in 0..MaxVersion :
    (GetRow(k) # NoRow /\ GetRow(k).val[col] = v)
      ~> (Stored(k, col, v) \/ completed \/ overlapped \/ failures > 0 \/ crashes > 0)

(***************************************************************************)
(* A shutdown ends, whatever statements fail: m_quit is always answered by *)
(* m_shutdown_completed and Stopper returns, unless the process dies first *)
(* (nothing but a new boot takes m_quit back).                             *)
(***************************************************************************)
ShutdownEnds == quit ~> (pc[Stopper] = "done" \/ ~quit)

-----------------------------------------------------------------------------
(* The inductive invariant behind CleanMeansStored and InsertIsFirst *)

\* A statement exists only inside a pass, and passes exclude each other until
\* two of them overlap.
PassesAlone ==
  /\ \A s \in Savers : stmt[s] # NoRow => InPass(s)
  /\ ~overlapped => \A s, t \in Savers : InPass(s) /\ InPass(t) => s = t

\* MySQL and the savers only know rows of m_rows that are no longer new; rows of
\* m_new_rows are new.
NewIsUnknown ==
  /\ \A s \in Savers : \A k \in todo[s] : HasRow(k)
  /\ \A k \in Keys : newRows[k] # NoRow => newRows[k].new
  /\ \A k \in Keys : (~HasRow(k) \/ rows[k].new) => db[k] = NoRow /\ ~Pending(k)

\* At most one INSERT of a key is ever under way, before MySQL has the row.
OneInsert ==
  \A s \in Savers : stmt[s] # NoRow /\ stmt[s].insert =>
    /\ db[stmt[s].key] = NoRow
    /\ stmt[s].cols = Cols
    /\ \A t \in Savers : stmt[t] # NoRow /\ stmt[t].insert /\ stmt[t].key = stmt[s].key => t = s

\* A statement under way completes MySQL's row to what memory holds in the
\* columns that are clean now.
PendingCompletes ==
  ~overlapped =>
    \A s \in Savers : stmt[s] # NoRow /\ stmt[s].key \notin failed =>
      LET q == stmt[s] k == q.key IN
      /\ q.insert \/ db[k] # NoRow
      /\ \A col \in Cols \ rows[k].changed :
           IF col \in q.cols THEN q.val[col] = rows[k].val[col]
           ELSE db[k][col] = rows[k].val[col]

IInv == TypeOK /\ PassesAlone /\ NewIsUnknown /\ OneInsert /\ PendingCompletes /\ CleanMeansStored

-----------------------------------------------------------------------------
(* The inductive invariant behind DbNeverGoesBack and ExitSavesAll *)

\* No column of u is a later version than in v.
Behind(u, v) == \A col \in Cols : u[col] <= v[col]

\* MySQL is behind the statement under way, and both are behind memory.
NeverAhead ==
  ~overlapped =>
    /\ \A k \in Keys : db[k] # NoRow => Behind(db[k], rows[k].val)
    /\ \A s \in Savers : stmt[s] # NoRow =>
         LET q == stmt[s] IN
         /\ Behind(q.val, rows[q.key].val)
         /\ db[q.key] # NoRow => Behind(db[q.key], q.val)

\* Only the loop runs a last pass, after Stopper is done with its own.
QuitIsLate ==
  /\ quit => pc[Stopper] \in {"waiting", "done"}
  /\ \A s \in Savers : Quick(s) => s = Loop /\ quit
  /\ completed => quit
  /\ failures = 0 => failed = {}

\* What memory held when m_quit was set it still holds.
QuitIsKept ==
  \A k \in Keys : atQuit[k] # NoRow =>
    quit /\ GetRow(k) # NoRow /\ Behind(atQuit[k], GetRow(k).val)

SavedRow(k) == db[k] # NoRow /\ Behind(atQuit[k], db[k])

\* The statement of the loop brings MySQL's row of k to what was there at m_quit.
SavingRow(k) ==
  LET q == stmt[Loop] IN
  /\ q # NoRow /\ q.key = k
  /\ q.insert \/ db[k] # NoRow
  /\ \A col \in Cols : atQuit[k][col] <= IF col \in q.cols THEN q.val[col] ELSE db[k][col]

\* The last pass saved each row, is saving it, or will come to it.
LastPassCovers ==
  ~overlapped /\ failures = 0 =>
    \A k \in Keys : atQuit[k] # NoRow =>
      /\ completed => SavedRow(k)
      /\ Quick(Loop) => \/ SavedRow(k) \/ SavingRow(k) \/ k \in todo[Loop]
                        \/ pc[Loop] = "finalRows" /\ ~HasRow(k)

ExitInv == NeverAhead /\ QuitIsLate /\ QuitIsKept /\ LastPassCovers

=============================================================================
