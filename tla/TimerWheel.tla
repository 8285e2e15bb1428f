----------------------------- MODULE TimerWheel -----------------------------
(***************************************************************************)
(* ConnTimerWheel: 3 * HeartbeatInterval lists of players, one per second, *)
(* and an index that follows the clock.  A player goes into the list       *)
(* HeartbeatInterval ahead of the index.  Each round of Run first takes    *)
(* what is in op_chan (Session has the channel; here the operations come   *)
(* in any order), then expires the lists the clock has passed and sleeps,  *)
(* for a second or, when logging out takes long, more.                     *)
(*                                                                         *)
(* It implements TimerQueue: what the index arithmetic comes to.           *)
(***************************************************************************)
EXTENDS Integers, Sequences

CONSTANTS
  Players,            \* the players of the server
  HeartbeatInterval,  \* global_config.HeartbeatInterval, in seconds
  MaxTime,            \* bound on the clock
  NoTimer             \* a player that is not in players

ASSUME IntervalAssumption == HeartbeatInterval \in Nat \ {0}
ASSUME TimeAssumption     == MaxTime \in Nat
ASSUME NoTimerAssumption  == NoTimer \notin Int

VARIABLES
  lists,     \* timer_lists, the players of each list in order
  curr,      \* curr_timer_index
  lastCheck, \* last_check_time, 0 before the first round
  timer,     \* players: the index of the list each player's timer is in
  clock,     \* time.Now().Unix()
  pc,        \* what Run is doing
  now,       \* now_time
  at,        \* i, the list being expired
  idx        \* idx, the last list to expire

run  == <<pc, now, at, idx>>
vars == <<lists, curr, lastCheck, timer, clock, run>>

lists_len == 3 * HeartbeatInterval
Slots     == 0..(lists_len - 1)

Init ==
  /\ lists = [i \in Slots |-> <<>>]
  /\ curr = -1 /\ lastCheck = 0
  /\ timer = [p \in Players |-> NoTimer]
  /\ clock = 1
  /\ pc = "ops" /\ now = 0 /\ at = 0 /\ idx = 0

-----------------------------------------------------------------------------

Tick ==
  /\ clock < MaxTime
  /\ clock' = clock + 1
  /\ UNCHANGED <<lists, curr, lastCheck, timer, run>>

\* ConnTimerList.remove: the player's node goes, its neighbours are linked.
Unlink(list, p) ==
  LET k == CHOOSE k \in DOMAIN list : list[k] = p IN
  [n \in 1..(Len(list) - 1) |-> list[IF n < k THEN n ELSE n + 1]]

\* The lists when the player's timer, if he has one, is removed from its own.
Without(p) ==
  IF timer[p] = NoTimer THEN lists ELSE [lists EXCEPT ![timer[p]] = Unlink(@, p)]

InsertIndex == (curr + HeartbeatInterval) % lists_len

\* Mutant of Insert: the old timer stays in its list.
InsertTwice(p) ==
  /\ pc = "ops"
  /\ lists' = [lists EXCEPT ![InsertIndex] = Append(@, p)]
  /\ timer' = [timer EXCEPT ![p] = InsertIndex]
  /\ UNCHANGED <<curr, lastCheck, clock, run>>

\* insert: the old timer goes, the new one is the last of its list.
Insert(p) ==
  /\ pc = "ops"
  /\ lists' = [Without(p) EXCEPT ![InsertIndex] = Append(@, p)]
  /\ timer' = [timer EXCEPT ![p] = InsertIndex]
  /\ UNCHANGED <<curr, lastCheck, clock, run>>

Remove(p) ==
  /\ pc = "ops"
  /\ lists' = Without(p)
  /\ timer' = [timer EXCEPT ![p] = NoTimer]
  /\ UNCHANGED <<curr, lastCheck, clock, run>>

\* Mutant of LastList: no special case for a full turn.
LastListModulo(diff_secs) == (curr + diff_secs) % lists_len

\* The last list to expire; after a full turn or more, the one before curr.
LastList(diff_secs) ==
  IF diff_secs < lists_len THEN (curr + diff_secs) % lists_len
  ELSE IF curr > 0 THEN curr - 1
  ELSE lists_len - 1

\* op_chan is empty: Run reads the clock.  The first round only remembers it.
ReadClock ==
  /\ pc = "ops"
  /\ now' = clock
  /\ lastCheck' = IF lastCheck = 0 THEN clock ELSE lastCheck
  /\ IF lastCheck' < clock
     THEN /\ pc' = "sweep"
          /\ at' = (curr + 1) % lists_len
          /\ idx' = LastList(clock - lastCheck')
     ELSE pc' = "sleep" /\ UNCHANGED <<at, idx>>
  /\ UNCHANGED <<lists, curr, timer, clock>>

\* The first player of the list is removed and logged out.
Expire(p) ==
  /\ pc = "sweep"
  /\ lists[at] # <<>> /\ p = Head(lists[at])
  /\ lists' = Without(p)
  /\ timer' = [timer EXCEPT ![p] = NoTimer]
  /\ UNCHANGED <<curr, lastCheck, clock, run>>

NextList ==
  /\ pc = "sweep"
  /\ lists[at] = <<>> /\ at # idx
  /\ at' = (at + 1) % lists_len
  /\ UNCHANGED <<lists, curr, lastCheck, timer, clock, pc, now, idx>>

EndSweep ==
  /\ pc = "sweep"
  /\ lists[at] = <<>> /\ at = idx
  /\ curr' = idx
  /\ lastCheck' = now
  /\ pc' = "sleep"
  /\ UNCHANGED <<lists, timer, clock, now, at, idx>>

Wake ==
  /\ pc = "sleep"
  /\ pc' = "ops"
  /\ UNCHANGED <<lists, curr, lastCheck, timer, clock, now, at, idx>>

Next ==
  \/ Tick \/ ReadClock \/ NextList \/ EndSweep \/ Wake
  \/ \E p \in Players : Insert(p) \/ Remove(p) \/ Expire(p)

Spec == Init /\ [][Next]_vars

-----------------------------------------------------------------------------
(* Properties *)

\* A list has one node of the player, or none.
Has(list, p)   == \E k \in DOMAIN list : \A n \in DOMAIN list : list[n] = p <=> n = k
Lacks(list, p) == \A n \in DOMAIN list : list[n] # p

(***************************************************************************)
(* players and the lists agree: a player has one timer, in the list its    *)
(* entry names, or none anywhere (Insert and the walk of Run unlink        *)
(* timers of lists that are full or being walked).                         *)
(***************************************************************************)
OneTimer ==
  \A p \in Players, i \in Slots :
    IF timer[p] = i THEN Has(lists[i], p) ELSE Lacks(lists[i], p)

(***************************************************************************)
(* The wheel implements TimerQueue: whatever the clock does between two    *)
(* rounds, a check expires the players whose seconds are over, all of them *)
(* and no others.                                                          *)
(***************************************************************************)
\* The lists from one index on to another.
Ahead(c, i) == (i - c) % lists_len

Due     == [p \in Players |-> IF timer[p] = NoTimer THEN NoTimer ELSE Ahead(curr, timer[p])]
Elapsed == IF pc = "sweep" THEN now - lastCheck ELSE 0

Queue == INSTANCE TimerQueue WITH due <- Due, elapsed <- Elapsed

IsQueue == Queue!Spec

-----------------------------------------------------------------------------
(* The inductive invariant of the proofs *)

TypeOK ==
  /\ lists \in [Slots -> Seq(Players)]
  /\ timer \in [Players -> Slots \cup {NoTimer}]
  /\ curr \in -1..(lists_len - 1) /\ at \in Slots /\ idx \in Slots
  /\ clock \in Nat \ {0} /\ lastCheck \in 0..clock /\ now \in 0..clock
  /\ pc \in {"ops", "sweep", "sleep"}

\* A timer is no further ahead of the index than it was put.
DueInv == \A p \in Players : timer[p] # NoTimer => Ahead(curr, timer[p]) \in 1..HeartbeatInterval

\* The sweep left no timer behind, and did not pass its last list.
SweepInv ==
  pc = "sweep" =>
    /\ lastCheck < now /\ idx = LastList(now - lastCheck)
    /\ now - lastCheck < lists_len => Ahead(curr, at) \in 1..(now - lastCheck)
    /\ \A p \in Players : timer[p] # NoTimer => Ahead(curr, at) \in 1..Ahead(curr, timer[p])

WheelInv == TypeOK /\ OneTimer /\ DueInv /\ SweepInv

=============================================================================
