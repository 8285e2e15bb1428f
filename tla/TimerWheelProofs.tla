-------------------------- MODULE TimerWheelProofs --------------------------
(***************************************************************************)
(* The wheel implements the queue of countdowns: WheelInv is inductive,    *)
(* and under it every step of TimerWheel is a step of TimerQueue or none.  *)
(*                                                                         *)
(* All index arithmetic goes through AheadIs: the rest of the proofs knows *)
(* % no more, and lists_len only as a number greater than                  *)
(* HeartbeatInterval + 1.                                                  *)
(***************************************************************************)
EXTENDS TimerWheel, SequenceTheorems, TLAPS

-----------------------------------------------------------------------------
(* Indexes *)

LEMMA ModSmall == ASSUME NEW n \in Nat \ {0}, NEW a \in 0..(n - 1) PROVE a % n = a
OBVIOUS

LEMMA ModOver == ASSUME NEW n \in Nat \ {0}, NEW a \in n..(2 * n - 1) PROVE a % n = a - n
OBVIOUS

LEMMA ModUnder == ASSUME NEW n \in Nat \ {0}, NEW a \in (-n)..(-1) PROVE a % n = a + n
OBVIOUS

LEMMA Later == ASSUME NEW a \in Nat, NEW b \in Nat, b < a PROVE a - b \in Nat \ {0}
OBVIOUS

\* What the proofs know of the number of lists.
LEMMA Length ==
  /\ HeartbeatInterval \in Nat \ {0} /\ lists_len \in Nat
  /\ lists_len > HeartbeatInterval + 1 /\ lists_len > 2
  /\ lists_len \in Nat \ {0} /\ Slots = 0..(lists_len - 1)
BY IntervalAssumption DEF lists_len, Slots

\* How far an index is ahead: nothing is a whole turn ahead but -1 makes it so.
LEMMA AheadIs ==
  ASSUME NEW c \in -1..(lists_len - 1), NEW i \in Slots
  PROVE  Ahead(c, i) = IF i < c THEN i - c + lists_len
                    ELSE IF i = lists_len - 1 /\ c = -1 THEN 0
                    ELSE i - c
<1>1. PICK n \in Nat \ {0} : n = lists_len /\ n > 2 BY Length
<1>2. c \in -1..(n - 1) /\ i \in 0..(n - 1) BY <1>1, Length
<1>3. CASE i < c
  <2>1. i - c \in (-n)..(-1) BY <1>1, <1>2, <1>3
  <2>2. (i - c) % n = i - c + n BY <2>1, ModUnder
  <2>. QED BY <1>1, <1>3, <2>2 DEF Ahead
<1>4. CASE ~(i < c) /\ i = n - 1 /\ c = -1
  <2>1. i - c = n BY <1>1, <1>2, <1>4
  <2>2. (i - c) % n = i - c - n BY <1>1, <2>1, ModOver
  <2>. QED BY <1>1, <1>4, <2>1, <2>2 DEF Ahead
<1>5. CASE ~(i < c) /\ ~(i = n - 1 /\ c = -1)
  <2>1. i - c \in 0..(n - 1) BY <1>1, <1>2, <1>5
  <2>2. (i - c) % n = i - c BY <2>1, ModSmall
  <2>. QED BY <1>1, <1>5, <2>2 DEF Ahead
<1>. QED BY <1>3, <1>4, <1>5

\* (i + d) % lists_len, d places on from i.
LEMMA StepIs ==
  ASSUME NEW i \in -1..(lists_len - 1), NEW d \in 1..(lists_len - 1)
  PROVE  /\ (i + d) % lists_len \in Slots
         /\ (i + d) % lists_len = IF i + d < lists_len THEN i + d ELSE i + d - lists_len
<1>1. PICK n \in Nat \ {0} : n = lists_len /\ n > 2 BY Length
<1>2. PICK a \in Int : a = i + d OBVIOUS
<1>3. a \in 0..(2 * n - 1) BY <1>1, <1>2
<1>4. a % n = IF a < n THEN a ELSE a - n
  <2>1. CASE a < n
    <3>1. a \in 0..(n - 1) BY <1>3, <2>1
    <3>. QED BY <2>1, <3>1, ModSmall
  <2>2. CASE ~(a < n)
    <3>1. a \in n..(2 * n - 1) BY <1>3, <2>2
    <3>. QED BY <2>2, <3>1, ModOver
  <2>. QED BY <2>1, <2>2
<1>5. a % n \in 0..(n - 1) BY <1>1, <1>3, <1>4
<1>. QED BY <1>1, <1>2, <1>4, <1>5, Length

\* Two lists are never as far ahead.
LEMMA AheadApart ==
  ASSUME NEW c \in -1..(lists_len - 1), NEW i \in Slots, NEW j \in Slots, i # j
  PROVE  Ahead(c, i) # Ahead(c, j) /\ Ahead(c, i) \in 0..(lists_len - 1)
<1>1. PICK n \in Nat \ {0} : n = lists_len /\ n > 2 BY Length
<1>2. c \in -1..(n - 1) /\ i \in 0..(n - 1) /\ j \in 0..(n - 1) BY <1>1, Length
<1>3. Ahead(c, i) = IF i < c THEN i - c + n ELSE IF i = n - 1 /\ c = -1 THEN 0 ELSE i - c
  BY <1>1, AheadIs
<1>4. Ahead(c, j) = IF j < c THEN j - c + n ELSE IF j = n - 1 /\ c = -1 THEN 0 ELSE j - c
  BY <1>1, AheadIs
<1>. QED BY <1>1, <1>2, <1>3, <1>4

\* The list that is d ahead of the index.
LEMMA AheadOf ==
  ASSUME NEW c \in -1..(lists_len - 1), NEW d \in 1..(lists_len - 1)
  PROVE  Ahead(c, (c + d) % lists_len) = d /\ (c + d) % lists_len \in Slots
<1>1. PICK n \in Nat \ {0} : n = lists_len /\ n > 2 BY Length
<1>2. PICK i \in Slots : /\ i = (c + d) % lists_len
                         /\ i = IF c + d < n THEN c + d ELSE c + d - n
  BY <1>1, StepIs
<1>3. c \in -1..(n - 1) /\ d \in 1..(n - 1) /\ i \in 0..(n - 1) BY <1>1, Length
<1>4. Ahead(c, i) = IF i < c THEN i - c + n ELSE IF i = n - 1 /\ c = -1 THEN 0 ELSE i - c
  BY <1>1, AheadIs
<1>5. Ahead(c, i) = d BY <1>1, <1>2, <1>3, <1>4
<1>. QED BY <1>2, <1>5

\* The list after one that is not behind.
LEMMA AheadNext ==
  ASSUME NEW c \in -1..(lists_len - 1), NEW i \in Slots, Ahead(c, i) < lists_len - 1
  PROVE  /\ (i + 1) % lists_len \in Slots
         /\ Ahead(c, i) # 0 => Ahead(c, (i + 1) % lists_len) = Ahead(c, i) + 1
<1>1. PICK n \in Nat \ {0} : n = lists_len /\ n > 2 BY Length
<1>2. i \in -1..(lists_len - 1) /\ 1 \in 1..(lists_len - 1) BY <1>1, Length
<1>3. PICK j \in Slots : j = (i + 1) % lists_len /\ j = IF i + 1 < n THEN i + 1 ELSE i + 1 - n
  BY <1>1, <1>2, StepIs
<1>4. c \in -1..(n - 1) /\ i \in 0..(n - 1) /\ j \in 0..(n - 1) BY <1>1, Length
<1>5. Ahead(c, i) = IF i < c THEN i - c + n ELSE IF i = n - 1 /\ c = -1 THEN 0 ELSE i - c
  BY <1>1, AheadIs
<1>6. Ahead(c, j) = IF j < c THEN j - c + n ELSE IF j = n - 1 /\ c = -1 THEN 0 ELSE j - c
  BY <1>1, AheadIs
<1>7. Ahead(c, i) # 0 => Ahead(c, j) = Ahead(c, i) + 1 BY <1>1, <1>3, <1>4, <1>5, <1>6
<1>. QED BY <1>3, <1>7

\* When the index moves on, what is further ahead comes nearer by as much.
LEMMA AheadMoves ==
  ASSUME NEW c \in -1..(lists_len - 1), NEW d \in Slots, NEW i \in Slots,
         Ahead(c, d) # 0, Ahead(c, d) < Ahead(c, i)
  PROVE  Ahead(d, i) = Ahead(c, i) - Ahead(c, d)
<1>1. PICK n \in Nat \ {0} : n = lists_len /\ n > 2 BY Length
<1>2. c \in -1..(n - 1) /\ i \in 0..(n - 1) /\ d \in 0..(n - 1) /\ d \in -1..(lists_len - 1)
  BY <1>1, Length
<1>3. Ahead(c, i) = IF i < c THEN i - c + n ELSE IF i = n - 1 /\ c = -1 THEN 0 ELSE i - c
  BY <1>1, AheadIs
<1>4. Ahead(c, d) = IF d < c THEN d - c + n ELSE IF d = n - 1 /\ c = -1 THEN 0 ELSE d - c
  BY <1>1, AheadIs
<1>5. Ahead(d, i) = IF i < d THEN i - d + n ELSE IF i = n - 1 /\ d = -1 THEN 0 ELSE i - d
  BY <1>1, <1>2, AheadIs
<1>6. CASE c = -1 BY <1>2, <1>3, <1>4, <1>5, <1>6
<1>7. CASE c # -1 BY <1>2, <1>3, <1>4, <1>5, <1>7
<1>. QED BY <1>6, <1>7

-----------------------------------------------------------------------------
(* Lists *)

\* A node goes: its player is in the list no more, the others are as before.
LEMMA Unlinked ==
  ASSUME NEW list \in Seq(Players), NEW p \in Players, Has(list, p)
  PROVE  /\ Unlink(list, p) \in Seq(Players) /\ Lacks(Unlink(list, p), p)
         /\ \A q \in Players \ {p} : /\ Has(list, q) => Has(Unlink(list, p), q)
                                     /\ Lacks(list, q) => Lacks(Unlink(list, p), q)
<1>1. PICK k \in DOMAIN list : k = CHOOSE n \in DOMAIN list : list[n] = p
  BY DEF Has
<1>2. \A n \in DOMAIN list : list[n] = p <=> n = k BY <1>1 DEF Has
<1>3. PICK len \in Nat : len = Len(list) /\ DOMAIN list = 1..len OBVIOUS
<1>4. PICK new : new = [n \in 1..(len - 1) |-> list[IF n < k THEN n ELSE n + 1]] OBVIOUS
<1>5. Unlink(list, p) = new BY <1>1, <1>3, <1>4 DEF Unlink
<1>6. k \in 1..len /\ len - 1 \in Nat BY <1>3
<1>7. \A n \in 1..(len - 1) : /\ n < k => n \in 1..len /\ n # k /\ new[n] = list[n]
                              /\ ~(n < k) => n + 1 \in 1..len /\ n + 1 # k /\ new[n] = list[n + 1]
  BY <1>4, <1>6
<1>8. \A n \in 1..(len - 1) : new[n] \in Players /\ new[n] # p BY <1>2, <1>3, <1>7
<1>9. new \in Seq(Players) /\ DOMAIN new = 1..(len - 1) BY <1>4, <1>6, <1>8
<1>10. Lacks(new, p) BY <1>8, <1>9 DEF Lacks
<1>11. ASSUME NEW q \in Players \ {p}, Lacks(list, q) PROVE Lacks(new, q)
  BY <1>3, <1>7, <1>9, <1>11 DEF Lacks
<1>12. ASSUME NEW q \in Players \ {p}, Has(list, q) PROVE Has(new, q)
  <2>0. PICK m \in DOMAIN list : \A n \in DOMAIN list : list[n] = q <=> n = m BY <1>12 DEF Has
  <2>1. m \in 1..len /\ \A n \in 1..len : list[n] = q <=> n = m BY <1>3, <2>0
  <2>2. m # k BY <1>2, <1>3, <2>1
  <2>3. PICK w \in 1..(len - 1) : w = IF m < k THEN m ELSE m - 1 BY <1>6, <2>1, <2>2
  <2>4. \A n \in 1..(len - 1) : n < k => (new[n] = q <=> n = w)
    BY <1>6, <1>7, <2>1, <2>2, <2>3
  <2>5. \A n \in 1..(len - 1) : ~(n < k) => (new[n] = q <=> n = w)
    BY <1>6, <1>7, <2>1, <2>2, <2>3
  <2>6. w \in DOMAIN new /\ \A n \in DOMAIN new : new[n] = q <=> n = w BY <1>9, <2>4, <2>5
  <2>. QED BY <2>6 DEF Has
<1>. QED BY <1>5, <1>9, <1>10, <1>11, <1>12

\* A node is added.
LEMMA Appended ==
  ASSUME NEW list \in Seq(Players), NEW p \in Players, Lacks(list, p)
  PROVE  /\ Append(list, p) \in Seq(Players) /\ Has(Append(list, p), p)
         /\ \A q \in Players \ {p} : /\ Has(list, q) => Has(Append(list, p), q)
                                     /\ Lacks(list, q) => Lacks(Append(list, p), q)
<1>1. PICK len \in Nat : len = Len(list) /\ DOMAIN list = 1..len OBVIOUS
<1>2. PICK new \in Seq(Players) : new = Append(list, p) BY AppendProperties
<1>3. /\ DOMAIN new = 1..(len + 1) /\ new[len + 1] = p
      /\ \A n \in 1..len : new[n] = list[n]
  BY <1>1, <1>2
<1>4. \A n \in 1..(len + 1) : n = len + 1 \/ n \in 1..len BY <1>1
<1>5. Has(new, p)
  <2>1. \A n \in 1..(len + 1) : new[n] = p <=> n = len + 1 BY <1>1, <1>3, <1>4 DEF Lacks
  <2>2. len + 1 \in DOMAIN new /\ \A n \in DOMAIN new : new[n] = p <=> n = len + 1
    BY <1>1, <1>3, <2>1
  <2>. QED BY <2>2 DEF Has
<1>6. ASSUME NEW q \in Players \ {p}, Lacks(list, q) PROVE Lacks(new, q)
  BY <1>1, <1>3, <1>4, <1>6 DEF Lacks
<1>7. ASSUME NEW q \in Players \ {p}, Has(list, q) PROVE Has(new, q)
  <2>0. PICK m \in DOMAIN list : \A n \in DOMAIN list : list[n] = q <=> n = m BY <1>7 DEF Has
  <2>1. m \in 1..len /\ \A n \in 1..len : list[n] = q <=> n = m BY <1>1, <2>0
  <2>2. \A n \in 1..(len + 1) : new[n] = q <=> n = m BY <1>1, <1>3, <1>4, <2>1
  <2>3. m \in 1..(len + 1) BY <1>1, <2>1
  <2>4. m \in DOMAIN new /\ \A n \in DOMAIN new : new[n] = q <=> n = m BY <1>3, <2>2, <2>3
  <2>. QED BY <2>4 DEF Has
<1>. QED BY <1>2, <1>5, <1>6, <1>7

\* The lists without a player's timer.
LEMMA WithoutIs ==
  ASSUME TypeOK, OneTimer, NEW p \in Players
  PROVE  /\ Without(p) \in [Slots -> Seq(Players)]
         /\ \A i \in Slots :
              /\ Lacks(Without(p)[i], p)
              /\ \A q \in Players \ {p} :
                   IF timer[q] = i THEN Has(Without(p)[i], q) ELSE Lacks(Without(p)[i], q)
<1>1. lists \in [Slots -> Seq(Players)] /\ timer[p] \in Slots \cup {NoTimer} BY DEF TypeOK
<1>2. NoTimer \notin Slots BY NoTimerAssumption, Length
<1>3. CASE timer[p] = NoTimer
  <2>1. Without(p) = lists BY <1>3 DEF Without
  <2>. QED BY <1>1, <1>2, <1>3, <2>1 DEF OneTimer
<1>4. CASE timer[p] # NoTimer
  <2>1. PICK j \in Slots : j = timer[p] BY <1>1, <1>4
  <2>2. Has(lists[j], p) /\ lists[j] \in Seq(Players) BY <1>1, <2>1 DEF OneTimer
  <2>3. PICK list \in Seq(Players) : list = Unlink(lists[j], p) BY <2>2, Unlinked
  <2>4. /\ Lacks(list, p)
        /\ \A q \in Players \ {p} : /\ Has(lists[j], q) => Has(list, q)
                                    /\ Lacks(lists[j], q) => Lacks(list, q)
    BY <2>2, <2>3, Unlinked
  <2>5. Without(p) = [lists EXCEPT ![j] = list] BY <1>4, <2>1, <2>3 DEF Without
  <2>6. /\ Without(p) \in [Slots -> Seq(Players)] /\ Without(p)[j] = list
        /\ \A i \in Slots \ {j} : Without(p)[i] = lists[i]
    BY <1>1, <2>5
  <2>7. ASSUME NEW i \in Slots PROVE Lacks(Without(p)[i], p)
    BY <2>1, <2>4, <2>6 DEF OneTimer
  <2>8. ASSUME NEW i \in Slots, NEW q \in Players \ {p}
        PROVE  IF timer[q] = i THEN Has(Without(p)[i], q) ELSE Lacks(Without(p)[i], q)
    <3>1. IF timer[q] = i THEN Has(lists[i], q) ELSE Lacks(lists[i], q) BY DEF OneTimer
    <3>2. CASE i = j BY <2>4, <2>6, <3>1, <3>2
    <3>3. CASE i # j BY <2>6, <3>1, <3>3
    <3>. QED BY <3>2, <3>3
  <2>. QED BY <2>6, <2>7, <2>8
<1>. QED BY <1>3, <1>4

-----------------------------------------------------------------------------
(* WheelInv is inductive. *)

\* The last list to expire is as far ahead as the round is late, or, after a
\* full turn, further than any timer.
LEMMA LastListIs ==
  ASSUME curr \in -1..(lists_len - 1), NEW d \in Nat \ {0}
  PROVE  /\ LastList(d) \in Slots
         /\ IF d < lists_len THEN Ahead(curr, LastList(d)) = d
                             ELSE Ahead(curr, LastList(d)) \in {0, lists_len - 1}
<1>1. CASE d < lists_len
  <2>1. d \in 1..(lists_len - 1) BY <1>1, Length
  <2>2. LastList(d) = (curr + d) % lists_len BY <1>1 DEF LastList
  <2>. QED BY <1>1, <2>1, <2>2, AheadOf
<1>2. CASE ~(d < lists_len) /\ curr > 0
  <2>1. LastList(d) = curr - 1 BY <1>2 DEF LastList
  <2>2. curr - 1 \in Slots /\ curr - 1 < curr /\ lists_len \in Nat BY <1>2, Length
  <2>3. Ahead(curr, curr - 1) = curr - 1 - curr + lists_len BY <2>2, AheadIs
  <2>. QED BY <1>2, <2>1, <2>2, <2>3
<1>3. CASE ~(d < lists_len) /\ ~(curr > 0)
  <2>1. LastList(d) = lists_len - 1 BY <1>3 DEF LastList
  <2>2. lists_len - 1 \in Slots /\ ~(lists_len - 1 < curr) /\ lists_len \in Nat BY <1>3, Length
  <2>3. Ahead(curr, lists_len - 1) = IF curr = -1 THEN 0 ELSE lists_len - 1 - curr BY <2>2, AheadIs
  <2>4. curr = -1 \/ curr = 0 BY <1>3, Length
  <2>. QED BY <1>3, <2>1, <2>2, <2>3, <2>4
<1>. QED BY <1>1, <1>2, <1>3

LEMMA InitInv == Init => WheelInv
<1>. SUFFICES ASSUME Init PROVE WheelInv OBVIOUS
<1>1. 0 \in Slots /\ NoTimer \notin Slots BY Length, NoTimerAssumption
<1>2. <<>> \in Seq(Players) /\ DOMAIN <<>> = {} OBVIOUS
<1>3. TypeOK BY <1>1, <1>2, Length DEF Init, TypeOK
<1>4. OneTimer BY <1>1, <1>2 DEF Init, OneTimer, Lacks
<1>5. DueInv /\ SweepInv BY DEF Init, DueInv, SweepInv
<1>. QED BY <1>3, <1>4, <1>5 DEF WheelInv

\* The timer of one player goes.
LEMMA OneGoes ==
  ASSUME WheelInv, NEW p \in Players, lists' = Without(p),
         timer' = [timer EXCEPT ![p] = NoTimer], UNCHANGED <<curr, lastCheck, clock, run>>
  PROVE  WheelInv'
<1>1. TypeOK /\ OneTimer /\ DueInv /\ SweepInv BY DEF WheelInv
<1>2. timer \in [Players -> Slots \cup {NoTimer}] BY <1>1 DEF TypeOK
<1>3. timer'[p] = NoTimer /\ \A q \in Players \ {p} : timer'[q] = timer[q] BY <1>2
<1>4. TypeOK'
  <2>1. lists' \in [Slots -> Seq(Players)] BY <1>1, WithoutIs
  <2>2. timer' \in [Players -> Slots \cup {NoTimer}] BY <1>2
  <2>. QED BY <1>1, <2>1, <2>2 DEF TypeOK, run, Slots, lists_len
<1>5. OneTimer'
  <2>1. ASSUME NEW i \in Slots, NEW q \in Players
        PROVE  IF timer'[q] = i THEN Has(lists'[i], q) ELSE Lacks(lists'[i], q)
    <3>1. CASE q = p
      <4>1. timer'[q] # i BY <1>3, <3>1, NoTimerAssumption, Length
      <4>2. Lacks(lists'[i], p) BY <1>1, WithoutIs
      <4>. QED BY <3>1, <4>1, <4>2
    <3>2. CASE q # p
      <4>1. IF timer[q] = i THEN Has(lists'[i], q) ELSE Lacks(lists'[i], q)
        BY <1>1, <3>2, WithoutIs
      <4>. QED BY <1>3, <3>2, <4>1
    <3>. QED BY <3>1, <3>2
  <2>. QED BY <2>1 DEF OneTimer, Slots, lists_len, Has, Lacks
<1>6. \A q \in Players : timer'[q] # NoTimer => timer'[q] = timer[q] /\ timer[q] # NoTimer
  BY <1>3
<1>7. curr' = curr /\ UNCHANGED <<pc, now, lastCheck, at, idx>> BY DEF run
<1>8. DueInv' BY <1>1, <1>6, <1>7 DEF DueInv
<1>9. SweepInv'
  <2>1. LastList(now - lastCheck)' = LastList(now - lastCheck) BY <1>7 DEF LastList, lists_len
  <2>. QED BY <1>1, <1>6, <1>7, <2>1 DEF SweepInv, lists_len
<1>. QED BY <1>4, <1>5, <1>8, <1>9 DEF WheelInv

\* A timer starts HeartbeatInterval ahead.
LEMMA InsertIs ==
  ASSUME TypeOK
  PROVE  InsertIndex \in Slots /\ Ahead(curr, InsertIndex) = HeartbeatInterval
<1>1. HeartbeatInterval \in 1..(lists_len - 1) BY Length
<1>. QED BY <1>1, AheadOf DEF TypeOK, InsertIndex

LEMMA InsertInv == ASSUME WheelInv, NEW p \in Players, Insert(p) PROVE WheelInv'
<1>1. TypeOK /\ OneTimer /\ DueInv BY DEF WheelInv
<1>2. PICK j \in Slots : j = InsertIndex /\ Ahead(curr, j) = HeartbeatInterval BY <1>1, InsertIs
<1>3. PICK ls \in [Slots -> Seq(Players)] : ls = Without(p) BY <1>1, WithoutIs
<1>4. \A i \in Slots : /\ Lacks(ls[i], p)
                       /\ \A q \in Players \ {p} :
                            IF timer[q] = i THEN Has(ls[i], q) ELSE Lacks(ls[i], q)
  BY <1>1, <1>3, WithoutIs
<1>5. /\ lists' = [ls EXCEPT ![j] = Append(ls[j], p)] /\ timer' = [timer EXCEPT ![p] = j]
      /\ UNCHANGED <<curr, lastCheck, clock, pc, now, at, idx>> /\ pc = "ops"
  BY <1>2, <1>3 DEF Insert, run
<1>6. PICK list \in Seq(Players) : list = Append(ls[j], p) BY <1>4, Appended
<1>7. /\ Has(list, p)
      /\ \A q \in Players \ {p} : /\ Has(ls[j], q) => Has(list, q)
                                  /\ Lacks(ls[j], q) => Lacks(list, q)
  BY <1>4, <1>6, Appended
<1>8. /\ lists' \in [Slots -> Seq(Players)] /\ lists'[j] = list
      /\ \A i \in Slots \ {j} : lists'[i] = ls[i]
  BY <1>5, <1>6
<1>9. /\ timer' \in [Players -> Slots \cup {NoTimer}] /\ timer'[p] = j
      /\ \A q \in Players \ {p} : timer'[q] = timer[q]
  BY <1>1, <1>5 DEF TypeOK
<1>10. TypeOK' BY <1>1, <1>5, <1>8, <1>9 DEF TypeOK, Slots, lists_len
<1>11. OneTimer'
  <2>1. ASSUME NEW i \in Slots, NEW q \in Players
        PROVE  IF timer'[q] = i THEN Has(lists'[i], q) ELSE Lacks(lists'[i], q)
    <3>1. CASE q = p /\ i = j BY <1>7, <1>8, <1>9, <3>1
    <3>2. CASE q = p /\ i # j BY <1>4, <1>8, <1>9, <3>2
    <3>3. CASE q # p
      <4>1. IF timer'[q] = i THEN Has(ls[i], q) ELSE Lacks(ls[i], q) BY <1>4, <1>9, <3>3
      <4>2. CASE i = j BY <1>7, <1>8, <3>3, <4>1, <4>2
      <4>3. CASE i # j BY <1>8, <4>1, <4>3
      <4>. QED BY <4>2, <4>3
    <3>. QED BY <3>1, <3>2, <3>3
  <2>. QED BY <2>1 DEF OneTimer, Slots, lists_len, Has, Lacks
<1>12. DueInv'
  <2>1. ASSUME NEW q \in Players, timer'[q] # NoTimer
        PROVE  Ahead(curr', timer'[q]) \in 1..HeartbeatInterval
    <3>1. CASE q = p BY <1>2, <1>5, <1>9, <3>1, Length
    <3>2. CASE q # p BY <1>1, <1>5, <1>9, <2>1, <3>2 DEF DueInv
    <3>. QED BY <3>1, <3>2
  <2>. QED BY <2>1 DEF DueInv
<1>13. SweepInv' BY <1>5 DEF SweepInv
<1>. QED BY <1>10, <1>11, <1>12, <1>13 DEF WheelInv

\* A round starts at the list after the index.
LEMMA ReadClockInv == ASSUME WheelInv, ReadClock PROVE WheelInv'
<1>1. TypeOK /\ OneTimer /\ DueInv BY DEF WheelInv
<1>2. UNCHANGED <<lists, curr, timer, clock>> /\ now' = clock /\ lastCheck' \in {lastCheck, clock}
  BY DEF ReadClock
<1>3. OneTimer' /\ DueInv' BY <1>1, <1>2 DEF OneTimer, DueInv, Slots, lists_len
<1>4. CASE ~(lastCheck' < clock)
  <2>1. pc' = "sleep" /\ UNCHANGED <<at, idx>> BY <1>4 DEF ReadClock
  <2>2. TypeOK' BY <1>1, <1>2, <2>1 DEF TypeOK, Slots, lists_len
  <2>. QED BY <1>3, <2>1, <2>2 DEF WheelInv, SweepInv
<1>5. CASE lastCheck' < clock
  <2>1. /\ pc' = "sweep" /\ at' = (curr + 1) % lists_len
        /\ idx' = LastList(clock - lastCheck')
    BY <1>5 DEF ReadClock
  <2>2. curr \in -1..(lists_len - 1) /\ clock - lastCheck' \in Nat \ {0} /\ 1 \in 1..(lists_len - 1)
    <3>1. curr \in -1..(lists_len - 1) /\ clock \in Nat /\ lastCheck \in Nat BY <1>1 DEF TypeOK
    <3>2. PICK last \in Nat : last = lastCheck' BY <1>2, <3>1
    <3>3. last < clock BY <1>5, <3>2
    <3>4. clock - last \in Nat \ {0} BY <3>1, <3>3, Later
    <3>5. clock - lastCheck' \in Nat \ {0} BY <3>2, <3>4
    <3>6. 1 \in 1..(lists_len - 1) BY Length
    <3>. QED BY <3>1, <3>5, <3>6
  <2>3. at' \in Slots /\ Ahead(curr, at') = 1 BY <2>1, <2>2, AheadOf
  <2>4. idx' \in Slots BY <2>1, <2>2, LastListIs
  <2>5. TypeOK' BY <1>1, <1>2, <2>1, <2>3, <2>4 DEF TypeOK, Slots, lists_len
  <2>6. \A p \in Players : timer[p] # NoTimer => 1 \in 1..Ahead(curr, timer[p]) BY <1>1 DEF DueInv
  <2>7. 1 \in 1..(clock - lastCheck') BY <2>2
  <2>8. LastList(now - lastCheck)' = LastList(clock - lastCheck') BY <1>2 DEF LastList, lists_len
  <2>9. SweepInv' BY <1>2, <1>5, <2>1, <2>3, <2>6, <2>7, <2>8 DEF SweepInv
  <2>. QED BY <1>3, <2>5, <2>9 DEF WheelInv
<1>. QED BY <1>4, <1>5

\* Timers are in none of the lists the sweep left, nor, at its end, in its last.
LEMMA Beyond ==
  ASSUME WheelInv, pc = "sweep", lists[at] = <<>>, NEW p \in Players, timer[p] # NoTimer
  PROVE  /\ timer[p] \in Slots /\ Ahead(curr, at) \in Nat \ {0}
         /\ Ahead(curr, at) < Ahead(curr, timer[p]) /\ Ahead(curr, timer[p]) \in 1..HeartbeatInterval
<1>1. TypeOK /\ OneTimer /\ DueInv /\ SweepInv BY DEF WheelInv
<1>2. timer[p] \in Slots /\ at \in Slots /\ curr \in -1..(lists_len - 1) BY <1>1 DEF TypeOK
<1>3. timer[p] # at
  <2>1. DOMAIN lists[at] = {} OBVIOUS
  <2>. QED BY <1>1, <1>2, <2>1 DEF OneTimer, Has
<1>4. Ahead(curr, timer[p]) # Ahead(curr, at) BY <1>2, <1>3, AheadApart
<1>5. Ahead(curr, timer[p]) \in 1..HeartbeatInterval BY <1>1 DEF DueInv
<1>6. Ahead(curr, at) \in 1..Ahead(curr, timer[p]) BY <1>1 DEF SweepInv
<1>. QED BY <1>2, <1>4, <1>5, <1>6, Length

LEMMA NextListInv == ASSUME WheelInv, NextList PROVE WheelInv'
<1>1. TypeOK /\ OneTimer /\ DueInv /\ SweepInv BY DEF WheelInv
<1>2. /\ pc = "sweep" /\ lists[at] = <<>> /\ at # idx /\ at' = (at + 1) % lists_len
      /\ UNCHANGED <<lists, curr, lastCheck, timer, clock, pc, now, idx>>
  BY DEF NextList
<1>3. at \in Slots /\ idx \in Slots /\ curr \in -1..(lists_len - 1) BY <1>1 DEF TypeOK
<1>4. at' \in Slots
  <2>1. at \in -1..(lists_len - 1) /\ 1 \in 1..(lists_len - 1) BY <1>3, Length
  <2>. QED BY <1>2, <2>1, StepIs
<1>5. TypeOK' BY <1>1, <1>2, <1>4 DEF TypeOK, Slots, lists_len
<1>6. OneTimer' /\ DueInv' BY <1>1, <1>2 DEF OneTimer, DueInv, Slots, lists_len
<1>7. Ahead(curr, at) \in 0..(lists_len - 1) /\ Ahead(curr, at) # Ahead(curr, idx)
  BY <1>2, <1>3, AheadApart
<1>8. ASSUME Ahead(curr, at) # 0, Ahead(curr, at) < lists_len - 1
      PROVE  Ahead(curr, at') = Ahead(curr, at) + 1
  BY <1>2, <1>3, <1>8, AheadNext
<1>9. ASSUME NEW p \in Players, timer'[p] # NoTimer PROVE Ahead(curr', at') \in 1..Ahead(curr', timer'[p])
  <2>1. /\ Ahead(curr, at) \in Nat \ {0} /\ Ahead(curr, at) < Ahead(curr, timer[p])
        /\ Ahead(curr, timer[p]) \in 1..HeartbeatInterval
    BY <1>2, <1>9, Beyond
  <2>2. Ahead(curr, at') = Ahead(curr, at) + 1 BY <1>8, <2>1, Length
  <2>. QED BY <1>2, <2>1, <2>2
<1>10. ASSUME now' - lastCheck' < lists_len PROVE Ahead(curr', at') \in 1..(now' - lastCheck')
  <2>1. PICK d \in Nat \ {0} : d = now - lastCheck BY <1>1, <1>2 DEF TypeOK, SweepInv
  <2>2. idx = LastList(d) /\ d < lists_len /\ Ahead(curr, at) \in 1..d
    BY <1>1, <1>2, <1>10, <2>1 DEF SweepInv
  <2>3. Ahead(curr, idx) = d BY <1>3, <2>2, LastListIs
  <2>4. Ahead(curr, at) # 0 /\ Ahead(curr, at) < lists_len - 1 BY <1>7, <2>2, <2>3, Length
  <2>5. Ahead(curr, at') = Ahead(curr, at) + 1 BY <1>8, <2>4
  <2>. QED BY <1>2, <1>7, <2>1, <2>2, <2>3, <2>5
<1>11. LastList(now - lastCheck)' = LastList(now - lastCheck) BY <1>2 DEF LastList, lists_len
<1>12. SweepInv' BY <1>1, <1>2, <1>9, <1>10, <1>11 DEF SweepInv, lists_len
<1>. QED BY <1>5, <1>6, <1>12 DEF WheelInv

\* The sweep ends: whoever is left is further ahead than the round was late,
\* and nobody is after a full turn.
LEMMA SweepEnds ==
  ASSUME WheelInv, EndSweep, NEW p \in Players, timer[p] # NoTimer
  PROVE  /\ now - lastCheck \in Nat \ {0} /\ now - lastCheck < Ahead(curr, timer[p])
         /\ Ahead(curr', timer[p]) = Ahead(curr, timer[p]) - (now - lastCheck)
         /\ Ahead(curr, timer[p]) \in 1..HeartbeatInterval
<1>1. TypeOK /\ SweepInv BY DEF WheelInv
<1>2. pc = "sweep" /\ lists[at] = <<>> /\ at = idx /\ curr' = idx BY DEF EndSweep
<1>3. at \in Slots /\ curr \in -1..(lists_len - 1) BY <1>1 DEF TypeOK
<1>4. /\ timer[p] \in Slots /\ Ahead(curr, at) \in Nat \ {0}
      /\ Ahead(curr, at) < Ahead(curr, timer[p]) /\ Ahead(curr, timer[p]) \in 1..HeartbeatInterval
  BY <1>2, Beyond
<1>5. PICK d \in Nat \ {0} : d = now - lastCheck BY <1>1, <1>2 DEF TypeOK, SweepInv
<1>6. at = LastList(d) BY <1>1, <1>2, <1>5 DEF SweepInv
<1>7. d < lists_len
  <2>1. SUFFICES ASSUME ~(d < lists_len) PROVE FALSE OBVIOUS
  <2>2. Ahead(curr, at) \in {0, lists_len - 1} BY <1>3, <1>6, <2>1, LastListIs
  <2>. QED BY <1>4, <2>2, Length
<1>8. Ahead(curr, at) = d BY <1>3, <1>6, <1>7, LastListIs
<1>9. Ahead(at, timer[p]) = Ahead(curr, timer[p]) - d BY <1>3, <1>4, <1>8, AheadMoves
<1>. QED BY <1>2, <1>4, <1>5, <1>8, <1>9

LEMMA EndSweepInv == ASSUME WheelInv, EndSweep PROVE WheelInv'
<1>1. TypeOK /\ OneTimer BY DEF WheelInv
<1>2. /\ curr' = idx /\ lastCheck' = now /\ pc' = "sleep"
      /\ UNCHANGED <<lists, timer, clock, now, at, idx>>
  BY DEF EndSweep
<1>3. idx \in -1..(lists_len - 1) BY <1>1, Length DEF TypeOK
<1>4. TypeOK' BY <1>1, <1>2, <1>3 DEF TypeOK, Slots, lists_len
<1>5. OneTimer' BY <1>1, <1>2 DEF OneTimer, Slots, lists_len
<1>6. ASSUME NEW p \in Players, timer'[p] # NoTimer
      PROVE  Ahead(curr', timer'[p]) \in 1..HeartbeatInterval
  BY <1>2, <1>6, SweepEnds, Length
<1>7. DueInv' BY <1>6 DEF DueInv
<1>8. SweepInv' BY <1>2 DEF SweepInv
<1>. QED BY <1>4, <1>5, <1>7, <1>8 DEF WheelInv

\* Steps that look at no list.
LEMMA OtherInv ==
  ASSUME WheelInv, Tick \/ Wake \/ UNCHANGED vars
  PROVE  WheelInv' /\ UNCHANGED <<timer, curr, lastCheck, now>> /\ (pc' = "sweep" <=> pc = "sweep")
<1>1. TypeOK /\ OneTimer /\ DueInv /\ SweepInv BY DEF WheelInv
<1>2. UNCHANGED <<lists, curr, lastCheck, timer, now, at, idx>> BY DEF Tick, Wake, vars, run
<1>3. clock' \in {clock, clock + 1} BY DEF Tick, Wake, vars
<1>4. pc' = pc \/ (pc = "sleep" /\ pc' = "ops") BY DEF Tick, Wake, vars, run
<1>5. TypeOK' BY <1>1, <1>2, <1>3, <1>4 DEF TypeOK, Slots, lists_len
<1>6. OneTimer' /\ DueInv' BY <1>1, <1>2 DEF OneTimer, DueInv, Slots, lists_len
<1>7. LastList(now - lastCheck)' = LastList(now - lastCheck) BY <1>2 DEF LastList, lists_len
<1>8. SweepInv' BY <1>1, <1>2, <1>4, <1>7 DEF SweepInv, lists_len
<1>. QED BY <1>2, <1>4, <1>5, <1>6, <1>8 DEF WheelInv

LEMMA NextInv == ASSUME WheelInv, [Next]_vars PROVE WheelInv'
<1>1. CASE Tick \/ Wake \/ UNCHANGED vars BY <1>1, OtherInv
<1>2. CASE ReadClock BY <1>2, ReadClockInv
<1>3. CASE NextList BY <1>3, NextListInv
<1>4. CASE EndSweep BY <1>4, EndSweepInv
<1>5. ASSUME NEW p \in Players, Insert(p) PROVE WheelInv' BY <1>5, InsertInv
<1>6. ASSUME NEW p \in Players, Remove(p) \/ Expire(p) PROVE WheelInv'
  <2>1. /\ lists' = Without(p) /\ timer' = [timer EXCEPT ![p] = NoTimer]
        /\ UNCHANGED <<curr, lastCheck, clock, run>>
    BY <1>6 DEF Remove, Expire
  <2>. QED BY <2>1, OneGoes
<1>. QED BY <1>1, <1>2, <1>3, <1>4, <1>5, <1>6 DEF Next

-----------------------------------------------------------------------------
(* Every step is a step of the queue or leaves it as it is. *)

\* The countdowns read off the lists.
LEMMA DueIs ==
  /\ Due = [p \in Players |-> IF timer[p] = NoTimer THEN NoTimer ELSE Ahead(curr, timer[p])]
  /\ Due' = [p \in Players |-> IF timer'[p] = NoTimer THEN NoTimer ELSE Ahead(curr', timer'[p])]
BY DEF Due

LEMMA QueueSame ==
  ASSUME UNCHANGED <<timer, curr>>, Elapsed' = Elapsed PROVE UNCHANGED Queue!vars
<1>1. Due' = Due BY DueIs
<1>. QED BY <1>1 DEF Queue!vars

\* Removing a timer takes the countdown away.
LEMMA QueueOneGoes ==
  ASSUME TypeOK, NEW p \in Players, timer' = [timer EXCEPT ![p] = NoTimer],
         UNCHANGED <<curr, lastCheck, run>>
  PROVE  Due' = [Due EXCEPT ![p] = NoTimer] /\ Elapsed' = Elapsed
<1>1. /\ timer'[p] = NoTimer /\ \A q \in Players \ {p} : timer'[q] = timer[q]
      /\ curr' = curr
  BY DEF TypeOK
<1>2. Due' = [Due EXCEPT ![p] = NoTimer] BY <1>1, DueIs
<1>3. Elapsed' = Elapsed BY DEF Elapsed, run
<1>. QED BY <1>2, <1>3

LEMMA NextIsQueue == ASSUME WheelInv, [Next]_vars PROVE [Queue!Next]_Queue!vars
<1>1. TypeOK /\ OneTimer /\ DueInv /\ SweepInv BY DEF WheelInv
<1>2. CASE Tick \/ Wake \/ UNCHANGED vars
  <2>1. Elapsed' = Elapsed BY <1>2, OtherInv DEF Elapsed
  <2>. QED BY <1>2, <2>1, OtherInv, QueueSame
<1>3. CASE ReadClock
  <2>1. UNCHANGED <<timer, curr>> /\ pc = "ops" /\ now' = clock BY <1>3 DEF ReadClock
  <2>2. Elapsed = 0 BY <2>1 DEF Elapsed
  <2>3. CASE ~(lastCheck' < clock)
    <3>1. pc' = "sleep" BY <1>3, <2>3 DEF ReadClock
    <3>2. Elapsed' = Elapsed BY <2>2, <3>1 DEF Elapsed
    <3>. QED BY <2>1, <3>2, QueueSame
  <2>4. CASE lastCheck' < clock
    <3>1. pc' = "sweep" /\ lastCheck' \in {lastCheck, clock} BY <1>3, <2>4 DEF ReadClock
    <3>2. clock \in Nat /\ lastCheck \in Nat BY <1>1 DEF TypeOK
    <3>3. Elapsed' = clock - lastCheck' BY <2>1, <3>1 DEF Elapsed
    <3>4. Elapsed' \in Nat \ {0}
      <4>1. PICK last \in Nat : last = lastCheck' BY <3>1, <3>2
      <4>2. last < clock BY <2>4, <4>1
      <4>. QED BY <3>2, <3>3, <4>1, <4>2, Later
    <3>5. Due' = Due BY <2>1, DueIs
    <3>. QED BY <2>2, <3>4, <3>5 DEF Queue!Next, Queue!Check
  <2>. QED BY <2>3, <2>4
<1>4. CASE NextList
  <2>1. UNCHANGED <<timer, curr, pc, now, lastCheck>> BY <1>4 DEF NextList
  <2>2. Elapsed' = Elapsed BY <2>1 DEF Elapsed
  <2>. QED BY <2>1, <2>2, QueueSame
<1>5. CASE EndSweep
  <2>1. pc = "sweep" /\ pc' = "sleep" /\ timer' = timer BY <1>5 DEF EndSweep
  <2>2. Elapsed = now - lastCheck /\ Elapsed' = 0 BY <2>1 DEF Elapsed
  <2>3. ASSUME NEW p \in Players, Due[p] # NoTimer
        PROVE  Due[p] > Elapsed /\ Due'[p] = Due[p] - Elapsed
    <3>1. timer[p] # NoTimer /\ Due[p] = Ahead(curr, timer[p]) /\ Due'[p] = Ahead(curr', timer[p])
      BY <2>1, <2>3, DueIs
    <3>2. /\ now - lastCheck \in Nat \ {0} /\ now - lastCheck < Ahead(curr, timer[p])
          /\ Ahead(curr', timer[p]) = Ahead(curr, timer[p]) - (now - lastCheck)
          /\ Ahead(curr, timer[p]) \in 1..HeartbeatInterval
      BY <1>5, <3>1, SweepEnds
    <3>. QED BY <2>2, <3>1, <3>2, Length
  <2>4. ASSUME NEW p \in Players, Due[p] = NoTimer PROVE Due'[p] = NoTimer
    <3>1. timer[p] = NoTimer
      <4>1. SUFFICES ASSUME timer[p] # NoTimer PROVE FALSE OBVIOUS
      <4>2. Ahead(curr, timer[p]) \in Int BY <1>1, <4>1 DEF DueInv
      <4>. QED BY <2>4, <4>1, <4>2, DueIs, NoTimerAssumption
    <3>. QED BY <2>1, <3>1, DueIs
  <2>5. Due' = [p \in Players |-> IF p \in Queue!Watched THEN Due[p] - Elapsed ELSE NoTimer]
    BY <2>3, <2>4, DueIs DEF Queue!Watched
  <2>6. \A p \in Queue!Watched : Due[p] > Elapsed BY <2>3 DEF Queue!Watched
  <2>. QED BY <2>2, <2>5, <2>6 DEF Queue!Next, Queue!EndCheck
<1>6. ASSUME NEW p \in Players, Insert(p) PROVE [Queue!Next]_Queue!vars
  <2>1. /\ timer' = [timer EXCEPT ![p] = InsertIndex] /\ curr' = curr /\ pc = "ops" /\ pc' = pc
    BY <1>6 DEF Insert, run
  <2>2. InsertIndex \in Slots /\ Ahead(curr, InsertIndex) = HeartbeatInterval BY <1>1, InsertIs
  <2>3. InsertIndex # NoTimer BY <2>2, NoTimerAssumption, Length
  <2>4. timer'[p] = InsertIndex /\ \A q \in Players \ {p} : timer'[q] = timer[q]
    BY <1>1, <2>1 DEF TypeOK
  <2>5. Due' = [Due EXCEPT ![p] = HeartbeatInterval] BY <2>1, <2>2, <2>3, <2>4, DueIs
  <2>6. Elapsed = 0 /\ Elapsed' = 0 BY <2>1 DEF Elapsed
  <2>. QED BY <2>5, <2>6 DEF Queue!Next, Queue!Insert
<1>7. ASSUME NEW p \in Players, Remove(p) PROVE [Queue!Next]_Queue!vars
  <2>1. /\ pc = "ops" /\ timer' = [timer EXCEPT ![p] = NoTimer]
        /\ UNCHANGED <<curr, lastCheck, run>>
    BY <1>7 DEF Remove
  <2>2. Due' = [Due EXCEPT ![p] = NoTimer] /\ Elapsed' = Elapsed BY <1>1, <2>1, QueueOneGoes
  <2>3. Elapsed = 0 BY <2>1 DEF Elapsed
  <2>. QED BY <2>2, <2>3 DEF Queue!Next, Queue!Remove
<1>8. ASSUME NEW p \in Players, Expire(p) PROVE [Queue!Next]_Queue!vars
  <2>1. /\ pc = "sweep" /\ lists[at] # <<>> /\ p = Head(lists[at])
        /\ timer' = [timer EXCEPT ![p] = NoTimer] /\ UNCHANGED <<curr, lastCheck, run>>
    BY <1>8 DEF Expire
  <2>2. at \in Slots /\ curr \in -1..(lists_len - 1) /\ lists[at] \in Seq(Players)
    BY <1>1 DEF TypeOK
  <2>3. timer[p] = at
    <3>1. 1 \in DOMAIN lists[at] /\ lists[at][1] = p BY <2>1, <2>2
    <3>. QED BY <1>1, <2>2, <3>1 DEF OneTimer, Lacks
  <2>4. timer[p] # NoTimer BY <2>2, <2>3, NoTimerAssumption, Length
  <2>5. PICK d \in Nat \ {0} : d = now - lastCheck BY <1>1, <2>1 DEF TypeOK, SweepInv
  <2>6. Ahead(curr, at) <= d
    <3>1. CASE d < lists_len BY <1>1, <2>1, <2>5, <3>1 DEF SweepInv
    <3>2. CASE ~(d < lists_len)
      <4>1. Ahead(curr, at) \in 1..HeartbeatInterval BY <1>1, <2>3, <2>4 DEF DueInv
      <4>. QED BY <2>5, <3>2, <4>1, Length
    <3>. QED BY <3>1, <3>2
  <2>7. Due[p] = Ahead(curr, at) /\ Due[p] # NoTimer
    <3>1. Ahead(curr, at) \in 1..HeartbeatInterval BY <1>1, <2>3, <2>4 DEF DueInv
    <3>. QED BY <2>3, <2>4, <3>1, DueIs, NoTimerAssumption
  <2>8. Elapsed = d BY <2>1, <2>5 DEF Elapsed
  <2>9. Due' = [Due EXCEPT ![p] = NoTimer] /\ Elapsed' = Elapsed BY <1>1, <2>1, QueueOneGoes
  <2>. QED BY <2>6, <2>7, <2>8, <2>9 DEF Queue!Next, Queue!Expire, Queue!Watched
<1>. QED BY <1>2, <1>3, <1>4, <1>5, <1>6, <1>7, <1>8 DEF Next

\* The wheel starts as an empty queue.
LEMMA InitIsQueue == Init => Queue!Init
<1>. SUFFICES ASSUME Init PROVE Queue!Init OBVIOUS
<1>1. Due = [p \in Players |-> NoTimer] BY DueIs DEF Init
<1>2. Elapsed = 0 BY DEF Init, Elapsed
<1>. QED BY <1>1, <1>2 DEF Queue!Init

-----------------------------------------------------------------------------
(* The theorems *)

\* players and the lists agree, whatever is unlinked and when (insert, _remove,
\* the walk of Run).
THEOREM OneTimerAlways == Spec => []OneTimer
<1>1. WheelInv /\ [Next]_vars => WheelInv' BY NextInv
<1>2. WheelInv => OneTimer BY DEF WheelInv
<1>. QED BY InitInv, <1>1, <1>2, PTL DEF Spec

\* A round of Run expires the players whose seconds are over, all of them and
\* no others, however late it is.
THEOREM WheelIsQueue == Spec => IsQueue
<1>1. WheelInv /\ [Next]_vars => WheelInv' BY NextInv
<1>2. WheelInv /\ [Next]_vars => [Queue!Next]_Queue!vars BY NextIsQueue
<1>. QED BY InitInv, InitIsQueue, <1>1, <1>2, PTL DEF Spec, IsQueue, Queue!Spec

=============================================================================
