----------------------------- MODULE MonthCard -----------------------------
(***************************************************************************)
(* Month cards of one player: a card is bought with                        *)
(* _charge_with_bundle_id, by a request of the player or by a command of a *)
(* game master (which takes no lock of the player), and paid out by the    *)
(* goroutine of ChargeMonthCardManager, one mail a day for                 *)
(* MONTH_CARD_DAYS_NUM days.  Both work on the Pays column of the player's *)
(* row, each call under the row's lock and nothing across calls.  The      *)
(* manager treats its players one by one, each in the same way.            *)
(*                                                                         *)
(* Days are those of MonthCardSendRewardTime.  A pass of DbTable stores    *)
(* the whole row at once.  Orders, receipts and the diamonds and items of  *)
(* a purchase are left out.                                                *)
(***************************************************************************)
EXTENDS Integers, FiniteSets

CONSTANTS
  NumCards,            \* the month cards of the pay table
  MONTH_CARD_DAYS_NUM, \* the mails a card pays
  Chargers,            \* goroutines that buy cards for the player
  ChanCap,             \* capacity of player_ids_chan (for this player's id)
  MaxDay,              \* bound on the days
  MaxCharges,          \* bound on the purchases
  MaxCrashes           \* bound on the crashes

ASSUME CardsAssumption == NumCards \in Nat \ {0} /\ MONTH_CARD_DAYS_NUM \in Nat \ {0}
ASSUME BoundsAssumption ==
  ChanCap \in Nat \ {0} /\ MaxDay \in Nat \ {0} /\ MaxCharges \in Nat /\ MaxCrashes \in Nat

VARIABLES
  pays,     \* db.Pays: the row of each card
  mails,    \* history: the mails each card sent (in the Mails column)
  charger,  \* where each purchase is
  queued,   \* how often player_ids_chan holds the player
  watched,  \* players_map has the player
  round,    \* the round of the manager
  day,      \* today
  stored,   \* the row in MySQL
  started,  \* history: the day of each card's first mail since it was bought
  raced,    \* history: cards bought while the manager was in a round
  charges,  \* history: purchases
  crashes   \* history: crashes

row     == <<pays, mails, started>>
history == <<raced, charges, crashes>>
vars    == <<row, charger, queued, watched, round, day, stored, history>>

Cards == 1..NumCards

\* dbPlayerPayData: ChargeNum counts renewals, LastAwardTime is 0 or a day.
Pay   == [has : BOOLEAN, ChargeNum : Nat, SendMailNum : Nat, LastAwardTime : 0..MaxDay]
NoPay == [has |-> FALSE, ChargeNum |-> 0, SendMailNum |-> 0, LastAwardTime |-> 0]

Active(p, c) == p[c].has /\ p[c].SendMailNum < MONTH_CARD_DAYS_NUM
charge_has_month_card(p) == \E c \in Cards : Active(p, c)

Idle       == [step |-> "idle", card |-> 1, has |-> FALSE]
ChargeStep == {"idle", "verify", "reset", "resetLast", "insert"}
RoundStep  == {"drain", "check", "delete", "last", "send", "mail", "inc", "set"}
Places     == [step : ChargeStep, card : Cards, has : BOOLEAN]
Rounds     == [step : RoundStep, card : Cards, now : 0..MaxDay, last : 0..MaxDay, num : Int]
Rows       == [pays : [Cards -> Pay], mails : [Cards -> Nat], started : [Cards -> 0..MaxDay]]

TypeOK ==
  /\ pays \in [Cards -> Pay] /\ mails \in [Cards -> Nat] /\ started \in [Cards -> 0..MaxDay]
  /\ charger \in [Chargers -> Places]
  /\ queued \in 0..ChanCap /\ watched \in BOOLEAN
  /\ round \in Rounds /\ day \in 1..MaxDay
  /\ stored \in Rows
  /\ raced \in SUBSET Cards /\ charges \in Nat /\ crashes \in Nat

Init ==
  /\ pays = [c \in Cards |-> NoPay] /\ mails = [c \in Cards |-> 0]
  /\ charger = [g \in Chargers |-> Idle]
  /\ queued = 0 /\ watched = FALSE
  /\ round = [step |-> "drain", card |-> 1, now |-> 0, last |-> 0, num |-> 0]
  /\ day = 1
  /\ started = [c \in Cards |-> 0]
  /\ stored = [pays |-> pays, mails |-> mails, started |-> started]
  /\ raced = {} /\ charges = 0 /\ crashes = 0

-----------------------------------------------------------------------------
(* A purchase *)

InRound == round.step # "drain"
Race(c) == raced' = IF InRound THEN raced \cup {c} ELSE raced

To(g, step) == charger' = [charger EXCEPT ![g].step = step]

\* A card in use is refused, E_ERR_CHARGE_MONTH_CARD_ALREADY_PAYED.
CanBuy(c) == ~pays[c].has \/ pays[c].SendMailNum >= MONTH_CARD_DAYS_NUM

\* Whether the card has a row is read here, before the receipt is verified.
Charge(g, c) ==
  /\ charger[g].step = "idle" /\ charges < MaxCharges
  /\ CanBuy(c)
  /\ charger' = [charger EXCEPT ![g] = [step |-> "verify", card |-> c, has |-> pays[c].has]]
  /\ charges' = charges + 1
  /\ UNCHANGED <<row, queued, watched, round, day, stored, raced, crashes>>

NotVerified(g) ==
  /\ charger[g].step = "verify"
  /\ To(g, "idle")
  /\ UNCHANGED <<row, queued, watched, round, day, stored, history>>

\* IncbyChargeNum for a card bought before.
Renew(g) ==
  /\ charger[g].step = "verify" /\ charger[g].has
  /\ pays' = [pays EXCEPT ![charger[g].card].ChargeNum = @ + 1]
  /\ To(g, "reset")
  /\ UNCHANGED <<mails, started, queued, watched, round, day, stored, history>>

ResetSendMailNum(g) ==
  /\ charger[g].step = "reset"
  /\ LET c == charger[g].card IN
     /\ pays' = [pays EXCEPT ![c].SendMailNum = 0]
     /\ Race(c)
  /\ To(g, "resetLast")
  /\ UNCHANGED <<mails, started, queued, watched, round, day, stored, charges, crashes>>

ResetLastAwardTime(g) ==
  /\ charger[g].step = "resetLast"
  /\ LET c == charger[g].card IN
     /\ pays' = [pays EXCEPT ![c].LastAwardTime = 0]
     /\ Race(c)
  /\ To(g, "insert")
  /\ UNCHANGED <<mails, started, queued, watched, round, day, stored, charges, crashes>>

\* Pays.Add for a card never bought; it is refused when the row is there by now.
AddCard(g) ==
  /\ charger[g].step = "verify" /\ ~charger[g].has
  /\ LET c == charger[g].card IN
     IF pays[c].has THEN UNCHANGED <<pays, raced>>
     ELSE /\ pays' = [pays EXCEPT ![c] = [NoPay EXCEPT !.has = TRUE]]
          /\ Race(c)
  /\ To(g, "insert")
  /\ UNCHANGED <<mails, started, queued, watched, round, day, stored, charges, crashes>>

\* Mutant of InsertPlayer: only a player that is not in players_map is sent.
InsertPlayerUnwatched(g) ==
  /\ charger[g].step = "insert"
  /\ queued < ChanCap
  /\ queued' = IF watched THEN queued ELSE queued + 1
  /\ To(g, "idle")
  /\ UNCHANGED <<row, watched, round, day, stored, history>>

\* InsertPlayer blocks while player_ids_chan is full.
InsertPlayer(g) ==
  /\ charger[g].step = "insert"
  /\ queued < ChanCap
  /\ queued' = queued + 1
  /\ To(g, "idle")
  /\ UNCHANGED <<row, watched, round, day, stored, history>>

-----------------------------------------------------------------------------
(* The manager *)

\* Run takes an id from player_ids_chan.
Drain ==
  /\ round.step = "drain" /\ queued > 0
  /\ queued' = queued - 1
  /\ watched' = TRUE
  /\ UNCHANGED <<row, charger, round, day, stored, history>>

\* Cards between the two resets of a purchase.
HalfReset == {charger[g].card : g \in {h \in Chargers : charger[h].step = "resetLast"}}

\* The chan is empty: _process_send_mails reads the time.
StartRound ==
  /\ round.step = "drain" /\ queued = 0 /\ watched
  /\ round' = [round EXCEPT !.step = "check", !.now = day]
  /\ raced' = raced \cup HalfReset
  /\ UNCHANGED <<row, charger, queued, watched, day, stored, charges, crashes>>

\* A player without an active card is noted for deletion; else the cards in order.
CheckCards ==
  /\ round.step = "check"
  /\ round' = IF charge_has_month_card(pays) THEN [round EXCEPT !.step = "last", !.card = 1]
              ELSE [round EXCEPT !.step = "delete"]
  /\ UNCHANGED <<row, charger, queued, watched, day, stored, history>>

\* He leaves players_map when all players were treated.
DeletePlayer ==
  /\ round.step = "delete"
  /\ watched' = FALSE
  /\ round' = [round EXCEPT !.step = "drain"]
  /\ UNCHANGED <<row, charger, queued, day, stored, history>>

\* The round after its card: the next one, or sleep.
NextCard == IF round.card < NumCards
            THEN [round EXCEPT !.step = "last", !.card = @ + 1]
            ELSE [round EXCEPT !.step = "drain"]

ReadLastAwardTime ==
  /\ round.step = "last"
  /\ round' = IF pays[round.card].has
              THEN [round EXCEPT !.step = "send", !.last = pays[round.card].LastAwardTime]
              ELSE NextCard
  /\ UNCHANGED <<row, charger, queued, watched, day, stored, history>>

\* Mutant of DaysNum: the days before are forgotten.
DaysNumToday(last, now) == IF last = 0 THEN 1 ELSE IF last > now THEN -1 ELSE IF now > last THEN 1 ELSE 0

\* GetDaysNumToLastSaveTime, in days.
DaysNum(last, now) == IF last = 0 THEN 1 ELSE IF last > now THEN -1 ELSE now - last

ReadSendMailNum ==
  /\ round.step = "send"
  /\ LET num == DaysNum(round.last, round.now) IN
     round' = IF pays[round.card].SendMailNum < MONTH_CARD_DAYS_NUM /\ num > 0
              THEN [round EXCEPT !.step = "mail", !.num = num]
              ELSE NextCard
  /\ UNCHANGED <<row, charger, queued, watched, day, stored, history>>

\* _charge_month_card_award: the mail, then the count.
SendMail ==
  /\ round.step = "mail"
  /\ mails' = [mails EXCEPT ![round.card] = @ + 1]
  /\ round' = [round EXCEPT !.step = "inc"]
  /\ UNCHANGED <<pays, started, charger, queued, watched, day, stored, history>>

\* The first mail of a card starts its days.
Count(c) ==
  /\ pays' = [pays EXCEPT ![c].SendMailNum = @ + 1]
  /\ started' = IF pays[c].SendMailNum = 0 THEN [started EXCEPT ![c] = round.now] ELSE started

\* Mutant of CountMail: the loop does not stop at MONTH_CARD_DAYS_NUM.
CountMailOn ==
  /\ round.step = "inc"
  /\ Count(round.card)
  /\ round' = IF round.num = 1 THEN [round EXCEPT !.step = "set"]
              ELSE [round EXCEPT !.step = "mail", !.num = @ - 1]
  /\ UNCHANGED <<mails, charger, queued, watched, day, stored, history>>

CountMail ==
  /\ round.step = "inc"
  /\ Count(round.card)
  /\ round' = IF pays[round.card].SendMailNum + 1 >= MONTH_CARD_DAYS_NUM \/ round.num = 1
              THEN [round EXCEPT !.step = "set"]
              ELSE [round EXCEPT !.step = "mail", !.num = @ - 1]
  /\ UNCHANGED <<mails, charger, queued, watched, day, stored, history>>

SetLastAwardTime ==
  /\ round.step = "set"
  /\ pays' = [pays EXCEPT ![round.card].LastAwardTime = round.now]
  /\ round' = NextCard
  /\ UNCHANGED <<mails, started, charger, queued, watched, day, stored, history>>

-----------------------------------------------------------------------------
(* Time, the database and crashes *)

NextDay ==
  /\ day < MaxDay
  /\ day' = day + 1
  /\ UNCHANGED <<row, charger, queued, watched, round, stored, history>>

\* A pass of the cache stores the row (only a crash can tell).
SaveRow ==
  /\ crashes < MaxCrashes
  /\ stored' = [pays |-> pays, mails |-> mails, started |-> started]
  /\ UNCHANGED <<row, charger, queued, watched, round, day, history>>

\* Mutant of QueuedAtBoot: preloading forgets the manager.
QueuedAtBootNot(p) == 0

\* new_player_with_db sends a player that has an active card.
QueuedAtBoot(p) == IF charge_has_month_card(p) THEN 1 ELSE 0

Restart ==
  /\ crashes < MaxCrashes
  /\ crashes' = crashes + 1
  /\ pays' = stored.pays /\ mails' = stored.mails /\ started' = stored.started
  /\ charger' = [g \in Chargers |-> Idle]
  /\ queued' = QueuedAtBoot(stored.pays)
  /\ watched' = FALSE
  /\ round' = [round EXCEPT !.step = "drain"]
  /\ UNCHANGED <<day, stored, raced, charges>>

\* Nothing is left to buy or to pay until the next day, which the bound cuts off.
Quiet == day = MaxDay /\ UNCHANGED vars

ChargerStep(g) ==
  \/ NotVerified(g) \/ Renew(g) \/ ResetSendMailNum(g) \/ ResetLastAwardTime(g)
  \/ AddCard(g) \/ InsertPlayer(g)

ManagerStep ==
  \/ Drain \/ StartRound \/ CheckCards \/ DeletePlayer \/ ReadLastAwardTime
  \/ ReadSendMailNum \/ SendMail \/ CountMail \/ SetLastAwardTime

Next ==
  \/ \E g \in Chargers : ChargerStep(g) \/ \E c \in Cards : Charge(g, c)
  \/ ManagerStep \/ NextDay \/ SaveRow \/ Restart \/ Quiet

Spec == Init /\ [][Next]_vars

(***************************************************************************)
(* A purchase that began goes on, and the manager wakes every minute; days *)
(* may stop, nobody has to buy and nothing has to crash.                   *)
(***************************************************************************)
FairSpec == Spec /\ WF_vars(ManagerStep) /\ \A g \in Chargers : WF_vars(ChargerStep(g))

-----------------------------------------------------------------------------
(* Properties *)

(***************************************************************************)
(* A card that still has mails to pay is never forgotten: its player is in *)
(* players_map or on the way there, although the manager takes players     *)
(* without a card out while purchases go on beside it, and also after a    *)
(* restart.                                                                *)
(***************************************************************************)
OnTheWay == \E g \in Chargers : charger[g].step \in {"resetLast", "insert"}

ActiveIsWatched == charge_has_month_card(pays) => watched \/ queued > 0 \/ OnTheWay

(***************************************************************************)
(* A card never sends more mails than were bought, MONTH_CARD_DAYS_NUM for *)
(* each purchase, but for one per crash (a row stored between the mail and *)
(* its count): a purchase resets the count in the middle of the manager's  *)
(* round, and two purchases at once, or one during a round, may only cost  *)
(* the player mails.                                                       *)
(***************************************************************************)
NeverOverpaid ==
  \A c \in Cards : mails[c] <= MONTH_CARD_DAYS_NUM * (pays[c].ChargeNum + 1) + crashes

(***************************************************************************)
(* Between rounds a card has paid one mail for each day from its first     *)
(* mail to LastAwardTime, also for those on which no round was run, up to  *)
(* MONTH_CARD_DAYS_NUM, unless it was bought while the manager was in a    *)
(* round.                                                                  *)
(***************************************************************************)
Capped(n) == IF n < MONTH_CARD_DAYS_NUM THEN n ELSE MONTH_CARD_DAYS_NUM

PaysByTheDay ==
  crashes = 0 /\ ~InRound =>
    \A c \in Cards \ raced : pays[c].SendMailNum > 0 =>
      pays[c].SendMailNum = Capped(pays[c].LastAwardTime - started[c] + 1)

(***************************************************************************)
(* Whatever is bought, and whenever the server restarts, an active card is *)
(* paid up to the present day in the end.                                  *)
(***************************************************************************)
PaidUpToDate ==
  \A c \in Cards : Active(pays, c) ~> (~Active(pays, c) \/ pays[c].LastAwardTime = day)

-----------------------------------------------------------------------------
(* The inductive invariant behind NeverOverpaid *)

\* The purchases that renewed c and did not reset its count yet.
Unreset(c) == {g \in Chargers : charger[g].step = "reset" /\ charger[g].card = c}

\* 1 when the manager is about to send or count a mail of c; when it sent one it
\* did not count yet.
Sending(c)   == IF round.step \in {"mail", "inc"} /\ round.card = c THEN 1 ELSE 0
Uncounted(c) == IF round.step = "inc" /\ round.card = c THEN 1 ELSE 0

\* A row counts no more mails than the card pays, nothing before it was bought.
Sound(pay, sending) ==
  /\ pay.SendMailNum + sending <= MONTH_CARD_DAYS_NUM
  /\ ~pay.has => pay.ChargeNum = 0 /\ pay.SendMailNum = 0

RowsAreSound ==
  /\ \A c \in Cards : Sound(pays[c], Sending(c)) /\ Sound(stored.pays[c], 0)
  /\ \A g \in Chargers :
       charger[g].step = "verify" /\ charger[g].has => pays[charger[g].card].has
  /\ round.step \in {"send", "mail", "inc"} => pays[round.card].has

\* What the purchases of a card and its count allow it to have sent.
Bought(pay) == MONTH_CARD_DAYS_NUM * pay.ChargeNum + pay.SendMailNum

MailsAreBought ==
  \A c \in Cards :
    /\ IsFiniteSet(Unreset(c))
    /\ mails[c] + MONTH_CARD_DAYS_NUM * Cardinality(Unreset(c))
         <= Bought(pays[c]) + Uncounted(c) + crashes
    /\ stored.mails[c] <= Bought(stored.pays[c]) + 1 + crashes

-----------------------------------------------------------------------------
(* The inductive invariant behind PaysByTheDay: until a crash, *)

\* no card is paid beyond today, nor a round beyond its day;
TimeIsOrdered ==
  /\ \A c \in Cards : pays[c].LastAwardTime <= day
  /\ InRound => /\ round.now \in 1..day
                /\ \A c \in Cards : pays[c].LastAwardTime <= round.now

\* c has paid a mail for each day from its first to d;
PaidTo(c, d) ==
  started[c] \in 1..d /\ pays[c].SendMailNum = Capped(d - started[c] + 1)

\* the mails of c that were sent and those the round still owes make its days.
Owes(c) ==
  /\ round.num > 0 /\ pays[c].SendMailNum < MONTH_CARD_DAYS_NUM
  /\ IF pays[c].SendMailNum = 0 THEN round.num = 1
     ELSE /\ started[c] \in 1..round.now
          /\ pays[c].SendMailNum + round.num = round.now - started[c] + 1

Settled(c) ==
  IF pays[c].SendMailNum = 0 THEN pays[c].LastAwardTime = 0 \/ c \in HalfReset
  ELSE PaidTo(c, pays[c].LastAwardTime)

DaysArePaid(c) ==
  /\ c \in HalfReset => ~InRound /\ pays[c].SendMailNum = 0
  /\ IF round.card # c THEN Settled(c)
     ELSE CASE round.step \in {"mail", "inc"} -> Owes(c)
            [] round.step = "set" -> pays[c].SendMailNum > 0 /\ PaidTo(c, round.now)
            [] round.step = "send" -> Settled(c) /\ round.last = pays[c].LastAwardTime
            [] OTHER -> Settled(c)

DaysInv == crashes = 0 => TimeIsOrdered /\ \A c \in Cards \ raced : DaysArePaid(c)

=============================================================================
