----------------------------- MODULE TimerQueue -----------------------------
(***************************************************************************)
(* What the timeout wheel promises, without lists and indexes: every       *)
(* watched player has a number of seconds left, counted from the last      *)
(* check, HeartbeatInterval when he is inserted.  A check that finds       *)
(* that d seconds went by since the last one expires the players with no   *)
(* more than d left, those only, and leaves none of them out.              *)
(***************************************************************************)
EXTENDS Integers

CONSTANTS
  Players,            \* the players of the server
  HeartbeatInterval,  \* global_config.HeartbeatInterval, in seconds
  NoTimer             \* a player that is not watched

VARIABLES
  due,     \* the seconds each player has left after the last check
  elapsed  \* the seconds a check under way found, 0 between checks

vars == <<due, elapsed>>

TypeOK == due \in [Players -> 1..HeartbeatInterval \cup {NoTimer}] /\ elapsed \in Nat

Init == due = [p \in Players |-> NoTimer] /\ elapsed = 0

Watched == {p \in Players : due[p] # NoTimer}

Insert(p) ==
  /\ elapsed = 0
  /\ due' = [due EXCEPT ![p] = HeartbeatInterval]
  /\ UNCHANGED elapsed

Remove(p) ==
  /\ elapsed = 0
  /\ due' = [due EXCEPT ![p] = NoTimer]
  /\ UNCHANGED elapsed

Check ==
  /\ elapsed = 0
  /\ elapsed' \in Nat \ {0}
  /\ UNCHANGED due

Expire(p) ==
  /\ p \in Watched /\ due[p] <= elapsed
  /\ due' = [due EXCEPT ![p] = NoTimer]
  /\ UNCHANGED elapsed

EndCheck ==
  /\ \A p \in Watched : due[p] > elapsed
  /\ due' = [p \in Players |-> IF p \in Watched THEN due[p] - elapsed ELSE NoTimer]
  /\ elapsed' = 0

Next ==
  \/ \E p \in Players : Insert(p) \/ Remove(p) \/ Expire(p)
  \/ Check \/ EndCheck

Spec == Init /\ [][Next]_vars

=============================================================================
