-------------------------- MODULE MonthCardProofs --------------------------
(***************************************************************************)
(* What MonthCard promises for any number of cards, days and purchases.    *)
(***************************************************************************)
EXTENDS MonthCard, FiniteSetTheorems, TLAPS

\* A write to one field of a card's row.
LEMMA PayWritten ==
  ASSUME NEW p \in [Cards -> Pay], NEW c \in Cards, NEW n \in Nat, NEW d \in 0..MaxDay
  PROVE  /\ [p EXCEPT ![c].ChargeNum = n] \in [Cards -> Pay]
         /\ [p EXCEPT ![c].SendMailNum = n] \in [Cards -> Pay]
         /\ [p EXCEPT ![c].LastAwardTime = d] \in [Cards -> Pay]
<1>1. /\ [p[c] EXCEPT !.ChargeNum = n] \in Pay
      /\ [p[c] EXCEPT !.SendMailNum = n] \in Pay
      /\ [p[c] EXCEPT !.LastAwardTime = d] \in Pay
  <2>1. p[c] \in Pay OBVIOUS
  <2>. QED BY <2>1 DEF Pay
<1>. QED BY <1>1

\* A row's fields.
LEMMA PayFields ==
  ASSUME NEW q \in Pay
  PROVE  /\ q.has \in BOOLEAN /\ q.ChargeNum \in Nat
         /\ q.SendMailNum \in Nat /\ q.LastAwardTime \in 0..MaxDay
BY DEF Pay

\* The rows of a card never bought and of one just added.
LEMMA NewPays == NoPay \in Pay /\ [NoPay EXCEPT !.has = TRUE] \in Pay
<1>1. 0 \in Nat /\ 0 \in 0..MaxDay BY BoundsAssumption
<1>2. NoPay \in Pay BY <1>1 DEF NoPay, Pay
<1>. QED BY <1>2 DEF Pay

\* A purchase moves on; its card is one of the pay table's.
LEMMA ToKeeps ==
  ASSUME charger \in [Chargers -> Places], NEW g \in Chargers, NEW step \in ChargeStep, To(g, step)
  PROVE  charger' \in [Chargers -> Places]
<1>1. charger[g] \in Places OBVIOUS
<1>2. [charger[g] EXCEPT !.step = step] \in Places BY <1>1 DEF Places
<1>. QED BY <1>2 DEF To

LEMMA ChargerFields ==
  ASSUME TypeOK, NEW g \in Chargers
  PROVE  charger[g].card \in Cards /\ charger[g].has \in BOOLEAN
<1>1. charger[g] \in Places BY DEF TypeOK
<1>. QED BY <1>1 DEF Places

\* The fields of a round, and the ways it moves on.
LEMMA RoundFields ==
  ASSUME TypeOK
  PROVE  /\ round.card \in Cards /\ round.now \in 0..MaxDay /\ round.last \in 0..MaxDay
         /\ round.num \in Int /\ round.step \in RoundStep
BY DEF TypeOK, Rounds

LEMMA RoundMoves ==
  ASSUME TypeOK
  PROVE  /\ \A step \in RoundStep : [round EXCEPT !.step = step] \in Rounds
         /\ \A c \in Cards : [round EXCEPT !.step = "last", !.card = c] \in Rounds
         /\ \A d \in 0..MaxDay : [round EXCEPT !.step = "check", !.now = d] \in Rounds
         /\ \A d \in 0..MaxDay : [round EXCEPT !.step = "send", !.last = d] \in Rounds
         /\ \A n \in Int : [round EXCEPT !.step = "mail", !.num = n] \in Rounds
<1>1. {"check", "last", "send", "mail"} \subseteq RoundStep BY DEF RoundStep
<1>. QED BY <1>1 DEF TypeOK, Rounds

LEMMA NextCardType == ASSUME TypeOK PROVE NextCard \in Rounds
<1>1. round.card < NumCards => round.card + 1 \in Cards
  BY RoundFields, CardsAssumption DEF Cards
<1>2. "last" \in RoundStep /\ "drain" \in RoundStep BY DEF RoundStep
<1>. QED BY <1>1, <1>2 DEF NextCard, TypeOK, Rounds

-----------------------------------------------------------------------------
(* Types *)

LEMMA InitType == ASSUME Init PROVE TypeOK
<1>1. 1 \in Cards /\ 0 \in 0..MaxDay /\ 1 \in 1..MaxDay /\ 0 \in 0..ChanCap
  BY CardsAssumption, BoundsAssumption DEF Cards
<1>2. Idle \in Places BY <1>1 DEF Idle, Places, ChargeStep
<1>3. round \in Rounds BY <1>1 DEF Init, Rounds, RoundStep
<1>4. stored \in Rows /\ pays \in [Cards -> Pay] /\ mails \in [Cards -> Nat]
      /\ started \in [Cards -> 0..MaxDay]
  BY <1>1, NewPays DEF Init, Rows
<1>. QED BY <1>1, <1>2, <1>3, <1>4 DEF Init, TypeOK

\* A purchase keeps the types.
LEMMA ChargeType ==
  ASSUME TypeOK, NEW g \in Chargers, NEW c \in Cards, Charge(g, c) PROVE TypeOK'
<1>1. pays[c].has \in BOOLEAN BY PayFields DEF TypeOK
<1>2. [step |-> "verify", card |-> c, has |-> pays[c].has] \in Places
  BY <1>1 DEF Places, ChargeStep
<1>. QED BY <1>2 DEF Charge, TypeOK, row, history

LEMMA ChargerType ==
  ASSUME TypeOK, NEW g \in Chargers, ChargerStep(g) PROVE TypeOK'
<1>. DEFINE c == charger[g].card
<1>1. c \in Cards BY ChargerFields
<1>2. pays[c] \in Pay /\ pays[c].ChargeNum + 1 \in Nat /\ 0 \in Nat /\ 0 \in 0..MaxDay
  BY <1>1, PayFields, BoundsAssumption DEF TypeOK
<1>3. raced \cup {c} \in SUBSET Cards BY <1>1 DEF TypeOK
<1>4. \A step \in ChargeStep : To(g, step) => charger' \in [Chargers -> Places]
  BY ToKeeps DEF TypeOK
<1>5. {"idle", "reset", "resetLast", "insert"} \subseteq ChargeStep BY DEF ChargeStep
<1>6. CASE NotVerified(g)
  BY <1>4, <1>5, <1>6 DEF NotVerified, TypeOK, row, history
<1>7. CASE Renew(g)
  <2>1. pays' \in [Cards -> Pay] BY <1>1, <1>2, <1>7, PayWritten DEF Renew, TypeOK
  <2>. QED BY <1>4, <1>5, <1>7, <2>1 DEF Renew, TypeOK, history
<1>8. CASE ResetSendMailNum(g)
  <2>1. pays' \in [Cards -> Pay] BY <1>1, <1>2, <1>8, PayWritten DEF ResetSendMailNum, TypeOK
  <2>. QED BY <1>3, <1>4, <1>5, <1>8, <2>1 DEF ResetSendMailNum, TypeOK, Race
<1>9. CASE ResetLastAwardTime(g)
  <2>1. pays' \in [Cards -> Pay] BY <1>1, <1>2, <1>9, PayWritten DEF ResetLastAwardTime, TypeOK
  <2>. QED BY <1>3, <1>4, <1>5, <1>9, <2>1 DEF ResetLastAwardTime, TypeOK, Race
<1>10. CASE AddCard(g)
  <2>1. pays' \in [Cards -> Pay] BY <1>1, <1>10, NewPays DEF AddCard, TypeOK
  <2>2. raced' \in SUBSET Cards BY <1>3, <1>10 DEF AddCard, TypeOK, Race
  <2>. QED BY <1>4, <1>5, <1>10, <2>1, <2>2 DEF AddCard, TypeOK
<1>11. CASE InsertPlayer(g)
  <2>1. queued' \in 0..ChanCap BY <1>11, BoundsAssumption DEF InsertPlayer, TypeOK
  <2>. QED BY <1>4, <1>5, <1>11, <2>1 DEF InsertPlayer, TypeOK, row, history
<1>. QED BY <1>6, <1>7, <1>8, <1>9, <1>10, <1>11 DEF ChargerStep

\* A step of the manager keeps them.
LEMMA ManagerType == ASSUME TypeOK, ManagerStep PROVE TypeOK'
<1>. DEFINE c == round.card
<1>1. c \in Cards /\ pays[c] \in Pay /\ NextCard \in Rounds
  BY RoundFields, NextCardType DEF TypeOK
<1>2. /\ pays[c].SendMailNum \in Nat /\ pays[c].SendMailNum + 1 \in Nat
      /\ pays[c].LastAwardTime \in 0..MaxDay
  BY <1>1, PayFields
<1>3. RoundStep = {"drain", "check", "delete", "last", "send", "mail", "inc", "set"} /\ 1 \in Cards
  BY CardsAssumption DEF RoundStep, Cards
<1>4. CASE Drain
  <2>1. queued' \in 0..ChanCap BY <1>4, BoundsAssumption DEF Drain, TypeOK
  <2>. QED BY <1>4, <2>1 DEF Drain, TypeOK, row, history
<1>5. CASE StartRound
  <2>1. day \in 0..MaxDay BY DEF TypeOK
  <2>2. round' \in Rounds BY <1>3, <1>5, <2>1, RoundMoves DEF StartRound, TypeOK
  <2>3. \A g \in Chargers : charger[g].card \in Cards BY ChargerFields
  <2>4. raced \cup HalfReset \in SUBSET Cards BY <2>3 DEF HalfReset, TypeOK
  <2>. QED BY <1>5, <2>2, <2>4 DEF StartRound, TypeOK, row
<1>6. CASE CheckCards
  <2>1. round' \in Rounds BY <1>3, <1>6, RoundMoves DEF CheckCards
  <2>. QED BY <1>6, <2>1 DEF CheckCards, TypeOK, row, history
<1>7. CASE DeletePlayer
  <2>1. round' \in Rounds BY <1>3, <1>7, RoundMoves DEF DeletePlayer
  <2>. QED BY <1>7, <2>1 DEF DeletePlayer, TypeOK, row, history
<1>8. CASE ReadLastAwardTime
  <2>1. round' \in Rounds BY <1>1, <1>2, <1>3, <1>8, RoundMoves DEF ReadLastAwardTime
  <2>. QED BY <1>8, <2>1 DEF ReadLastAwardTime, TypeOK, row, history
<1>9. CASE ReadSendMailNum
  <2>1. DaysNum(round.last, round.now) \in Int BY RoundFields DEF DaysNum
  <2>2. round' \in Rounds BY <1>1, <1>3, <1>9, <2>1, RoundMoves DEF ReadSendMailNum
  <2>. QED BY <1>9, <2>2 DEF ReadSendMailNum, TypeOK, row, history
<1>10. CASE SendMail
  <2>1. round' \in Rounds BY <1>3, <1>10, RoundMoves DEF SendMail
  <2>2. mails' \in [Cards -> Nat] BY <1>1, <1>10 DEF SendMail, TypeOK
  <2>. QED BY <1>10, <2>1, <2>2 DEF SendMail, TypeOK, history
<1>11. CASE CountMail
  <2>1. pays' \in [Cards -> Pay] BY <1>1, <1>2, <1>11, BoundsAssumption, PayWritten
    DEF CountMail, Count, TypeOK
  <2>2. started' \in [Cards -> 0..MaxDay] BY <1>1, <1>11, RoundFields DEF CountMail, Count, TypeOK
  <2>3. round.num - 1 \in Int BY RoundFields
  <2>4. round' \in Rounds BY <1>3, <1>11, <2>3, RoundMoves DEF CountMail
  <2>. QED BY <1>11, <2>1, <2>2, <2>4 DEF CountMail, TypeOK, history
<1>12. CASE SetLastAwardTime
  <2>1. pays' \in [Cards -> Pay] BY <1>1, <1>12, RoundFields, PayWritten
    DEF SetLastAwardTime, TypeOK
  <2>. QED BY <1>1, <1>12, <2>1 DEF SetLastAwardTime, TypeOK, history
<1>. QED BY <1>4, <1>5, <1>6, <1>7, <1>8, <1>9, <1>10, <1>11, <1>12 DEF ManagerStep

\* A restart reads back what had its type.
LEMMA RestartType == ASSUME TypeOK, Restart PROVE TypeOK'
<1>1. Idle \in Places BY CardsAssumption DEF Idle, Places, ChargeStep, Cards
<1>2. round' \in Rounds BY RoundMoves DEF Restart, RoundStep, TypeOK, Rounds
<1>3. pays' \in [Cards -> Pay] /\ mails' \in [Cards -> Nat] /\ started' \in [Cards -> 0..MaxDay]
  BY DEF Restart, TypeOK, Rows
<1>4. queued' \in 0..ChanCap BY BoundsAssumption DEF Restart, QueuedAtBoot
<1>5. crashes' \in Nat BY DEF Restart, TypeOK
<1>. QED BY <1>1, <1>2, <1>3, <1>4, <1>5 DEF Restart, TypeOK

LEMMA NextType == ASSUME TypeOK, [Next]_vars PROVE TypeOK'
<1>1. CASE NextDay BY <1>1, BoundsAssumption DEF NextDay, TypeOK, row, history
<1>2. CASE SaveRow BY <1>2 DEF SaveRow, TypeOK, row, history, Rows
<1>3. CASE UNCHANGED vars BY <1>3 DEF vars, row, history, TypeOK
<1>. QED BY <1>1, <1>2, <1>3, ChargeType, ChargerType, ManagerType, RestartType DEF Next, Quiet

(***************************************************************************)
(* Type correctness: chan, counters and the manager's round stay in their  *)
(* ranges whatever is bought, paid, saved or restarted.                    *)
(***************************************************************************)
THEOREM TypeCorrect == Spec => []TypeOK
<1>1. Init => TypeOK BY InitType
<1>2. TypeOK /\ [Next]_vars => TypeOK' BY NextType
<1>. QED BY <1>1, <1>2, PTL DEF Spec

-----------------------------------------------------------------------------
(* No active card is forgotten *)

(***************************************************************************)
(* ActiveIsWatched alone is not inductive: when the manager deletes a      *)
(* player it found without an active card, a purchase that came meanwhile  *)
(* must still bring him back.                                              *)
(***************************************************************************)
DeleteIsSafe ==
  round.step = "delete" /\ charge_has_month_card(pays) => queued > 0 \/ OnTheWay

IInv == TypeOK /\ ActiveIsWatched /\ DeleteIsSafe

\* A step that makes no card active and loses nothing keeps the invariant.
LEMMA QuietStep ==
  ASSUME ActiveIsWatched, DeleteIsSafe,
         charge_has_month_card(pays') => charge_has_month_card(pays),
         watched' = watched, queued' = queued,
         OnTheWay => OnTheWay', round'.step = "delete" => round.step = "delete"
  PROVE  ActiveIsWatched' /\ DeleteIsSafe'
BY DEF ActiveIsWatched, DeleteIsSafe

\* Only the field SendMailNum and the rows themselves make a card active.
LEMMA ActiveOnlyBy ==
  ASSUME \A c \in Cards : Active(pays', c) => Active(pays, c)
  PROVE  charge_has_month_card(pays') => charge_has_month_card(pays)
BY DEF charge_has_month_card

\* A purchase that moves on to "insert", or to the second reset, is on the way.
LEMMA ToOnTheWay ==
  ASSUME charger \in [Chargers -> Places], NEW g \in Chargers, NEW step \in {"resetLast", "insert"}, To(g, step)
  PROVE  OnTheWay'
<1>1. charger'[g].step = step BY DEF To, Places
<1>. QED BY <1>1 DEF OnTheWay

\* A purchase that was not on the way hides none that was by moving.
LEMMA ToKeepsOthers ==
  ASSUME charger \in [Chargers -> Places], NEW g \in Chargers, NEW step, To(g, step),
         charger[g].step \notin {"resetLast", "insert"}
  PROVE  OnTheWay => OnTheWay'
<1>1. \A h \in Chargers \ {g} : charger'[h] = charger[h] BY DEF To
<1>. QED BY <1>1 DEF OnTheWay

LEMMA ChargeKeeps ==
  ASSUME IInv, NEW g \in Chargers, NEW c \in Cards, Charge(g, c)
  PROVE  ActiveIsWatched' /\ DeleteIsSafe'
<1>1. UNCHANGED <<pays, watched, queued, round>> /\ charger[g].step = "idle" BY DEF Charge, row
<1>2. \A h \in Chargers \ {g} : charger'[h] = charger[h] BY DEF Charge
<1>3. OnTheWay => OnTheWay' BY <1>1, <1>2 DEF OnTheWay
<1>. QED BY <1>1, <1>3, QuietStep DEF IInv

LEMMA ChargerKeeps ==
  ASSUME IInv, NEW g \in Chargers, ChargerStep(g)
  PROVE  ActiveIsWatched' /\ DeleteIsSafe'
<1>. DEFINE c == charger[g].card
<1>. USE DEF IInv
<1>1. c \in Cards /\ charger \in [Chargers -> Places] /\ pays \in [Cards -> Pay]
  BY ChargerFields DEF TypeOK
<1>2. CASE NotVerified(g)
  <2>1. OnTheWay => OnTheWay' BY <1>1, <1>2, ToKeepsOthers DEF NotVerified
  <2>. QED BY <1>2, <2>1, QuietStep DEF NotVerified, row
<1>3. CASE Renew(g)
  <2>1. OnTheWay => OnTheWay' BY <1>1, <1>3, ToKeepsOthers DEF Renew
  <2>2. pays' = [pays EXCEPT ![c].ChargeNum = @ + 1] BY <1>3 DEF Renew
  <2>3. /\ pays'[c].has = pays[c].has /\ pays'[c].SendMailNum = pays[c].SendMailNum
        /\ \A d \in Cards \ {c} : pays'[d] = pays[d]
    BY <1>1, <2>2 DEF Pay
  <2>4. charge_has_month_card(pays') => charge_has_month_card(pays)
    BY <2>3, ActiveOnlyBy DEF Active
  <2>. QED BY <1>3, <2>1, <2>4, QuietStep DEF Renew
<1>4. CASE ResetSendMailNum(g)
  <2>1. OnTheWay' BY <1>1, <1>4, ToOnTheWay DEF ResetSendMailNum
  <2>. QED BY <2>1 DEF ActiveIsWatched, DeleteIsSafe
<1>5. CASE ResetLastAwardTime(g)
  <2>1. OnTheWay' BY <1>1, <1>5, ToOnTheWay DEF ResetLastAwardTime
  <2>. QED BY <2>1 DEF ActiveIsWatched, DeleteIsSafe
<1>6. CASE AddCard(g)
  <2>1. OnTheWay' BY <1>1, <1>6, ToOnTheWay DEF AddCard
  <2>. QED BY <2>1 DEF ActiveIsWatched, DeleteIsSafe
<1>7. CASE InsertPlayer(g)
  <2>1. queued' > 0 BY <1>7, BoundsAssumption DEF InsertPlayer, TypeOK
  <2>. QED BY <2>1 DEF ActiveIsWatched, DeleteIsSafe
<1>. QED BY <1>2, <1>3, <1>4, <1>5, <1>6, <1>7 DEF ChargerStep

\* A step of a round past its check neither makes a card active nor deletes.
LEMMA RoundKeeps ==
  ASSUME IInv,
         \A c \in Cards : Active(pays', c) => Active(pays, c),
         UNCHANGED <<charger, queued, watched>>, round'.step # "delete"
  PROVE  ActiveIsWatched' /\ DeleteIsSafe'
<1>1. OnTheWay' <=> OnTheWay BY DEF OnTheWay
<1>. QED BY <1>1, QuietStep, ActiveOnlyBy DEF IInv

LEMMA ManagerKeeps == ASSUME IInv, ManagerStep PROVE ActiveIsWatched' /\ DeleteIsSafe'
<1>. DEFINE c == round.card
<1>. USE DEF IInv
<1>1. c \in Cards /\ pays \in [Cards -> Pay] /\ NextCard.step \in {"last", "drain"}
  BY RoundFields DEF TypeOK, NextCard, Rounds
<1>2. pays[c].SendMailNum \in Nat BY <1>1, PayFields
<1>4. CASE Drain
  BY <1>4 DEF Drain, ActiveIsWatched, DeleteIsSafe
<1>5. CASE StartRound
  <2>1. round'.step = "check" BY <1>5 DEF StartRound, TypeOK, Rounds
  <2>. QED BY <1>5, <2>1, RoundKeeps DEF StartRound, row
<1>6. CASE CheckCards
  <2>1. round'.step = "delete" => ~charge_has_month_card(pays)
    BY <1>6 DEF CheckCards, TypeOK, Rounds
  <2>2. UNCHANGED <<pays, charger, queued, watched>> BY <1>6 DEF CheckCards, row
  <2>. QED BY <2>1, <2>2 DEF ActiveIsWatched, DeleteIsSafe, OnTheWay
<1>7. CASE DeletePlayer
  <2>1. round'.step = "drain" BY <1>7 DEF DeletePlayer, TypeOK, Rounds
  <2>. QED BY <1>7, <2>1 DEF DeletePlayer, ActiveIsWatched, DeleteIsSafe, OnTheWay, row
<1>8. CASE ReadLastAwardTime
  <2>1. round'.step # "delete" BY <1>1, <1>8 DEF ReadLastAwardTime, TypeOK, Rounds
  <2>. QED BY <1>8, <2>1, RoundKeeps DEF ReadLastAwardTime, row
<1>9. CASE ReadSendMailNum
  <2>1. round'.step # "delete" BY <1>1, <1>9 DEF ReadSendMailNum, TypeOK, Rounds
  <2>. QED BY <1>9, <2>1, RoundKeeps DEF ReadSendMailNum, row
<1>10. CASE SendMail
  <2>1. round'.step # "delete" BY <1>10 DEF SendMail, TypeOK, Rounds
  <2>. QED BY <1>10, <2>1, RoundKeeps DEF SendMail
<1>11. CASE CountMail
  <2>1. round'.step # "delete" BY <1>11 DEF CountMail, TypeOK, Rounds
  <2>2. pays' = [pays EXCEPT ![c].SendMailNum = @ + 1] BY <1>11 DEF CountMail, Count
  <2>3. /\ pays'[c].has = pays[c].has /\ pays'[c].SendMailNum = pays[c].SendMailNum + 1
        /\ \A d \in Cards \ {c} : pays'[d] = pays[d]
    BY <1>1, <2>2 DEF Pay
  <2>4. \A d \in Cards : Active(pays', d) => Active(pays, d)
    BY <1>2, <2>3, CardsAssumption DEF Active
  <2>. QED BY <1>11, <2>1, <2>4, RoundKeeps DEF CountMail
<1>12. CASE SetLastAwardTime
  <2>1. round'.step # "delete" BY <1>1, <1>12 DEF SetLastAwardTime
  <2>2. pays' = [pays EXCEPT ![c].LastAwardTime = round.now] BY <1>12 DEF SetLastAwardTime
  <2>3. /\ pays'[c].has = pays[c].has /\ pays'[c].SendMailNum = pays[c].SendMailNum
        /\ \A d \in Cards \ {c} : pays'[d] = pays[d]
    BY <1>1, <2>2 DEF Pay
  <2>4. \A d \in Cards : Active(pays', d) => Active(pays, d) BY <2>3 DEF Active
  <2>. QED BY <1>12, <2>1, <2>4, RoundKeeps DEF SetLastAwardTime
<1>. QED BY <1>4, <1>5, <1>6, <1>7, <1>8, <1>9, <1>10, <1>11, <1>12 DEF ManagerStep

\* After a restart the player is queued again if a stored card is active.
LEMMA RestartKeeps == ASSUME IInv, Restart PROVE ActiveIsWatched' /\ DeleteIsSafe'
<1>1. charge_has_month_card(pays') => queued' > 0
  BY DEF Restart, QueuedAtBoot
<1>. QED BY <1>1 DEF ActiveIsWatched, DeleteIsSafe

LEMMA NextKeeps == ASSUME IInv, [Next]_vars PROVE IInv'
<1>1. ASSUME UNCHANGED <<pays, charger, queued, watched, round>>
      PROVE  ActiveIsWatched' /\ DeleteIsSafe'
  BY <1>1 DEF IInv, ActiveIsWatched, DeleteIsSafe, OnTheWay
<1>2. CASE NextDay BY <1>1, <1>2, NextType DEF NextDay, row, IInv
<1>3. CASE SaveRow BY <1>1, <1>3, NextType DEF SaveRow, row, IInv
<1>4. CASE UNCHANGED vars BY <1>1, <1>4, NextType DEF vars, row, IInv
<1>. QED BY <1>2, <1>3, <1>4, NextType, ChargeKeeps, ChargerKeeps, ManagerKeeps, RestartKeeps
  DEF Next, Quiet, IInv

LEMMA InitKeeps == ASSUME Init PROVE IInv
<1>1. \A c \in Cards : ~pays[c].has BY DEF Init, NoPay
<1>2. ~charge_has_month_card(pays) BY <1>1 DEF charge_has_month_card, Active
<1>. QED BY <1>2, InitType DEF IInv, ActiveIsWatched, DeleteIsSafe

(***************************************************************************)
(* A card that still has mails to pay is watched by the manager, or will   *)
(* be, whatever the interleaving of purchases, the manager's rounds and    *)
(* restarts, for any number of cards.                                      *)
(***************************************************************************)
THEOREM ActiveNotForgotten == Spec => []ActiveIsWatched
<1>1. Init => IInv BY InitKeeps
<1>2. IInv /\ [Next]_vars => IInv' BY NextKeeps
<1>3. IInv => ActiveIsWatched BY DEF IInv
<1>. QED BY <1>1, <1>2, <1>3, PTL DEF Spec

-----------------------------------------------------------------------------
(* No card pays more than was bought *)

LEMMA DaysTimes ==
  \A n \in Nat : /\ MONTH_CARD_DAYS_NUM * (n + 1) = MONTH_CARD_DAYS_NUM * n + MONTH_CARD_DAYS_NUM
                 /\ MONTH_CARD_DAYS_NUM * n \in Nat
BY CardsAssumption

LEMMA BoughtNat == ASSUME NEW pay \in Pay PROVE Bought(pay) \in Nat
BY PayFields, DaysTimes DEF Bought

\* A step between two places of a purchase other than "reset".
LEMMA ToUnreset ==
  ASSUME charger \in [Chargers -> Places], NEW g \in Chargers, NEW place \in Places,
         charger' = [charger EXCEPT ![g] = place],
         charger[g].step # "reset", place.step # "reset"
  PROVE  \A c \in Cards : Unreset(c)' = Unreset(c)
<1>1. charger'[g] = place /\ \A h \in Chargers \ {g} : charger'[h] = charger[h] OBVIOUS
<1>. QED BY <1>1 DEF Unreset

\* A step that changes neither what was bought nor what was sent.
LEMMA MailsKept ==
  ASSUME MailsAreBought, UNCHANGED <<mails, stored, crashes>>,
         \A c \in Cards : /\ Bought(pays'[c]) = Bought(pays[c])
                          /\ Unreset(c)' = Unreset(c) /\ Uncounted(c)' = Uncounted(c)
  PROVE  MailsAreBought'
BY DEF MailsAreBought

\* A step that counts no mail and leaves the purchases' places and the round alone.
LEMMA SoundKept ==
  ASSUME RowsAreSound, UNCHANGED stored,
         \A c \in Cards : /\ pays'[c].has = pays[c].has
                          /\ pays'[c].SendMailNum = pays[c].SendMailNum
                          /\ pays'[c].ChargeNum = pays[c].ChargeNum
                          /\ Sending(c)' = Sending(c),
         \A g \in Chargers : charger'[g].step = "verify" /\ charger'[g].has =>
            pays[charger'[g].card].has /\ charger'[g].card \in Cards,
         round'.step \in {"send", "mail", "inc"} => pays[round'.card].has /\ round'.card \in Cards
  PROVE  RowsAreSound'
BY DEF RowsAreSound, Sound

BoughtInv == TypeOK /\ RowsAreSound /\ MailsAreBought

\* What a purchase does to the places of the others.
LEMMA ToPlaces ==
  ASSUME TypeOK, NEW g \in Chargers, NEW step \in ChargeStep, To(g, step)
  PROVE  /\ charger' = [charger EXCEPT ![g] = [charger[g] EXCEPT !.step = step]]
         /\ [charger[g] EXCEPT !.step = step] \in Places
         /\ charger'[g] = [charger[g] EXCEPT !.step = step]
         /\ charger'[g].step = step
         /\ \A h \in Chargers \ {g} : charger'[h] = charger[h]
<1>1. charger[g] \in Places BY DEF TypeOK
<1>2. [charger[g] EXCEPT !.step = step] \in Places BY <1>1 DEF Places
<1>3. charger' = [charger EXCEPT ![g] = [charger[g] EXCEPT !.step = step]] BY DEF To
<1>. QED BY <1>1, <1>2, <1>3 DEF TypeOK, Places

LEMMA ChargeBought ==
  ASSUME BoughtInv, NEW g \in Chargers, NEW c \in Cards, Charge(g, c)
  PROVE  RowsAreSound' /\ MailsAreBought'
<1>. DEFINE place == [step |-> "verify", card |-> c, has |-> pays[c].has]
<1>1. place \in Places /\ charger' = [charger EXCEPT ![g] = place] /\ charger[g].step # "reset"
  <2>1. pays[c].has \in BOOLEAN BY PayFields DEF TypeOK, BoughtInv
  <2>. QED BY <2>1 DEF Places, ChargeStep, Charge
<1>2. UNCHANGED <<pays, mails, stored, crashes, round>> BY DEF Charge, row
<1>3. \A d \in Cards : Unreset(d)' = Unreset(d)
  BY <1>1, ToUnreset DEF BoughtInv, TypeOK
<1>4. \A d \in Cards : Uncounted(d)' = Uncounted(d) /\ Sending(d)' = Sending(d)
  BY <1>2 DEF Uncounted, Sending
<1>5. MailsAreBought' BY <1>2, <1>3, <1>4, MailsKept DEF BoughtInv
<1>6. charger'[g] = place /\ \A h \in Chargers \ {g} : charger'[h] = charger[h]
  BY <1>1 DEF BoughtInv, TypeOK
<1>7. \A h \in Chargers : charger'[h].step = "verify" /\ charger'[h].has =>
        pays[charger'[h].card].has /\ charger'[h].card \in Cards
  BY <1>6, ChargerFields DEF BoughtInv, RowsAreSound
<1>. QED BY <1>2, <1>4, <1>5, <1>7, SoundKept, RoundFields DEF BoughtInv, RowsAreSound

LEMMA ChargerBought ==
  ASSUME BoughtInv, NEW g \in Chargers, ChargerStep(g)
  PROVE  RowsAreSound' /\ MailsAreBought'
<1>1. TypeOK /\ RowsAreSound /\ MailsAreBought BY DEF BoughtInv
<1>0. PICK c \in Cards : c = charger[g].card BY <1>1, ChargerFields
<1>. USE <1>0
<1>2. c \in Cards /\ pays \in [Cards -> Pay] /\ pays[c] \in Pay BY <1>1 DEF TypeOK
<1>3. UNCHANGED <<mails, stored, crashes, round>>
  BY DEF ChargerStep, NotVerified, Renew, ResetSendMailNum, ResetLastAwardTime, AddCard,
         InsertPlayer, row, history
<1>4. \A d \in Cards : Uncounted(d)' = Uncounted(d) /\ Sending(d)' = Sending(d)
  BY <1>3 DEF Uncounted, Sending
<1>5. PICK step \in {"idle", "reset", "resetLast", "insert"} : To(g, step)
  BY DEF ChargerStep, NotVerified, Renew, ResetSendMailNum, ResetLastAwardTime, AddCard, InsertPlayer
<1>6. /\ charger'[g].step = step /\ \A h \in Chargers \ {g} : charger'[h] = charger[h]
      /\ charger' = [charger EXCEPT ![g] = [charger[g] EXCEPT !.step = step]]
      /\ [charger[g] EXCEPT !.step = step] \in Places
      /\ charger'[g] = [charger[g] EXCEPT !.step = step]
  BY <1>1, <1>5, ToPlaces DEF ChargeStep
<1>7. \A h \in Chargers : charger'[h].step = "verify" /\ charger'[h].has =>
        pays[charger'[h].card].has /\ charger'[h].card \in Cards
  BY <1>1, <1>5, <1>6, ChargerFields DEF RowsAreSound
<1>8. round'.step \in {"send", "mail", "inc"} => pays[round'.card].has /\ round'.card \in Cards
  BY <1>1, <1>3, RoundFields DEF RowsAreSound
<1>9. charger[g].step # "reset" /\ step # "reset" => \A d \in Cards : Unreset(d)' = Unreset(d)
  BY <1>1, <1>6, ToUnreset, ToPlaces DEF TypeOK, Places
<1>10. CASE NotVerified(g) \/ InsertPlayer(g)
  <2>1. pays' = pays /\ step # "reset" /\ charger[g].step # "reset"
    BY <1>5, <1>6, <1>10, <1>1, ToPlaces DEF NotVerified, InsertPlayer, row, ChargeStep
  <2>. QED BY <1>1, <1>3, <1>4, <1>7, <1>8, <1>9, <2>1, SoundKept, MailsKept
<1>11. CASE Renew(g)
  <2>1. pays' = [pays EXCEPT ![c].ChargeNum = @ + 1] /\ charger[g].step = "verify" /\ charger[g].has
    BY <1>11 DEF Renew
  <2>2. /\ pays'[c].ChargeNum = pays[c].ChargeNum + 1 /\ pays'[c].SendMailNum = pays[c].SendMailNum
        /\ pays'[c].has = pays[c].has /\ \A d \in Cards \ {c} : pays'[d] = pays[d]
    BY <1>2, <2>1 DEF Pay
  <2>3. pays[c].has BY <1>1, <2>1 DEF RowsAreSound
  <2>4. charger'[g].step = "reset" /\ charger'[g].card = c
    <3>1. To(g, "reset") /\ "reset" \in ChargeStep BY <1>11 DEF Renew, ChargeStep
    <3>2. charger'[g] = [charger[g] EXCEPT !.step = "reset"] BY <1>1, <3>1, ToPlaces
    <3>3. charger[g] \in Places BY <1>1 DEF TypeOK
    <3>4. charger[g].card = c BY <1>1
    <3>. QED BY <3>2, <3>3, <3>4 DEF Places
  <2>5. RowsAreSound'
    <3>1. \A d \in Cards : pays'[d].has = pays[d].has BY <2>2
    <3>2. \A d \in Cards : Sound(pays'[d], Sending(d)')
      BY <1>1, <1>4, <2>2, <2>3 DEF RowsAreSound, Sound
    <3>3. \A d \in Cards : Sound(stored'.pays[d], 0) BY <1>1, <1>3 DEF RowsAreSound
    <3>. QED BY <1>7, <1>8, <3>1, <3>2, <3>3 DEF RowsAreSound
  <2>6. Unreset(c)' = Unreset(c) \cup {g} /\ g \notin Unreset(c)
        /\ \A d \in Cards \ {c} : Unreset(d)' = Unreset(d)
    BY <1>6, <2>1, <2>4 DEF Unreset
  <2>7. IsFiniteSet(Unreset(c)') /\ Cardinality(Unreset(c)') = Cardinality(Unreset(c)) + 1
        /\ Cardinality(Unreset(c)) \in Nat
    BY <1>1, <1>2, <2>6, FS_AddElement, FS_CardinalityType DEF MailsAreBought
  <2>8. Bought(pays'[c]) = Bought(pays[c]) + MONTH_CARD_DAYS_NUM
    <3>1. pays[c].ChargeNum \in Nat /\ pays[c].SendMailNum \in Nat BY <1>2, PayFields
    <3>2. MONTH_CARD_DAYS_NUM * pays'[c].ChargeNum
            = MONTH_CARD_DAYS_NUM * pays[c].ChargeNum + MONTH_CARD_DAYS_NUM
      BY <2>2, <3>1, DaysTimes
    <3>3. MONTH_CARD_DAYS_NUM * pays[c].ChargeNum \in Nat BY <3>1, DaysTimes
    <3>. QED BY <2>2, <3>1, <3>2, <3>3, CardsAssumption DEF Bought
  <2>9. mails'[c] + MONTH_CARD_DAYS_NUM * Cardinality(Unreset(c)')
          <= Bought(pays'[c]) + Uncounted(c)' + crashes'
    <3>1. mails[c] + MONTH_CARD_DAYS_NUM * Cardinality(Unreset(c))
            <= Bought(pays[c]) + Uncounted(c) + crashes
      BY <1>1, <1>2 DEF MailsAreBought
    <3>2. PICK n \in Nat : n = MONTH_CARD_DAYS_NUM * Cardinality(Unreset(c)) BY <2>7, DaysTimes
    <3>3. MONTH_CARD_DAYS_NUM * Cardinality(Unreset(c)') = n + MONTH_CARD_DAYS_NUM
      BY <2>7, <3>2, DaysTimes
    <3>4. PICK b \in Nat : b = Bought(pays[c]) BY <1>2, BoughtNat
    <3>5. PICK u \in {0, 1} : u = Uncounted(c) BY DEF Uncounted
    <3>6. mails[c] \in Nat /\ crashes \in Nat BY <1>1, <1>2 DEF TypeOK
    <3>7. mails[c] + (n + MONTH_CARD_DAYS_NUM) <= (b + MONTH_CARD_DAYS_NUM) + u + crashes
      BY <3>1, <3>2, <3>4, <3>5, <3>6, CardsAssumption
    <3>. QED BY <1>2, <1>3, <1>4, <2>8, <3>3, <3>4, <3>5, <3>7
  <2>10. MailsAreBought'
    <3>1. \A d \in Cards \ {c} : Bought(pays'[d]) = Bought(pays[d]) BY <2>2
    <3>. QED BY <1>1, <1>3, <1>4, <2>6, <2>7, <2>9, <3>1 DEF MailsAreBought
  <2>. QED BY <2>5, <2>10
<1>12. CASE ResetSendMailNum(g)
  <2>1. pays' = [pays EXCEPT ![c].SendMailNum = 0] /\ charger[g].step = "reset"
    BY <1>12 DEF ResetSendMailNum
  <2>2. /\ pays'[c].ChargeNum = pays[c].ChargeNum /\ pays'[c].SendMailNum = 0
        /\ pays'[c].has = pays[c].has /\ \A d \in Cards \ {c} : pays'[d] = pays[d]
    BY <1>2, <2>1 DEF Pay
  <2>3. pays[c].SendMailNum \in Nat /\ pays[c].SendMailNum <= MONTH_CARD_DAYS_NUM
    <3>1. pays[c].SendMailNum \in Nat BY <1>2, PayFields
    <3>2. pays[c].SendMailNum + Sending(c) <= MONTH_CARD_DAYS_NUM /\ Sending(c) \in {0, 1}
      BY <1>1, <1>2 DEF RowsAreSound, Sound, Sending
    <3>. QED BY <3>1, <3>2, CardsAssumption
  <2>4. charger'[g].step # "reset"
    BY <1>1, <1>12, ToPlaces DEF ResetSendMailNum, ChargeStep, TypeOK, Places
  <2>5. RowsAreSound'
    <3>1. \A d \in Cards : pays'[d].has = pays[d].has BY <2>2
    <3>2. Sound(pays'[c], Sending(c)')
      <4>1. 0 + Sending(c) <= MONTH_CARD_DAYS_NUM BY CardsAssumption DEF Sending
      <4>. QED BY <1>1, <1>2, <1>4, <2>2, <4>1 DEF RowsAreSound, Sound
    <3>3. \A d \in Cards \ {c} : Sound(pays'[d], Sending(d)')
      BY <1>1, <1>4, <2>2 DEF RowsAreSound
    <3>4. \A d \in Cards : Sound(stored'.pays[d], 0) BY <1>1, <1>3 DEF RowsAreSound
    <3>. QED BY <1>7, <1>8, <3>1, <3>2, <3>3, <3>4 DEF RowsAreSound
  <2>6. Unreset(c)' = Unreset(c) \ {g} /\ g \in Unreset(c)
        /\ \A d \in Cards \ {c} : Unreset(d)' = Unreset(d)
    BY <1>6, <2>1, <2>4 DEF Unreset
  <2>7. IsFiniteSet(Unreset(c)') /\ Cardinality(Unreset(c)') = Cardinality(Unreset(c)) - 1
        /\ Cardinality(Unreset(c)') \in Nat /\ Cardinality(Unreset(c)) \in Nat
    BY <1>1, <1>2, <2>6, FS_RemoveElement, FS_CardinalityType DEF MailsAreBought
  <2>8. Bought(pays[c]) = Bought(pays'[c]) + pays[c].SendMailNum
    <3>1. pays[c].ChargeNum \in Nat BY <1>2, PayFields
    <3>2. MONTH_CARD_DAYS_NUM * pays[c].ChargeNum \in Nat BY <3>1, DaysTimes
    <3>. QED BY <2>2, <2>3, <3>2 DEF Bought
  <2>9. mails'[c] + MONTH_CARD_DAYS_NUM * Cardinality(Unreset(c)')
          <= Bought(pays'[c]) + Uncounted(c)' + crashes'
    <3>1. mails[c] + MONTH_CARD_DAYS_NUM * Cardinality(Unreset(c))
            <= Bought(pays[c]) + Uncounted(c) + crashes
      BY <1>1, <1>2 DEF MailsAreBought
    <3>2. PICK n \in Nat : n = MONTH_CARD_DAYS_NUM * Cardinality(Unreset(c)') BY <2>7, DaysTimes
    <3>3. PICK k \in Nat : k = Cardinality(Unreset(c)') BY <2>7
    <3>4. Cardinality(Unreset(c)) = k + 1 BY <2>7, <3>3
    <3>5. MONTH_CARD_DAYS_NUM * Cardinality(Unreset(c)) = n + MONTH_CARD_DAYS_NUM
      BY <3>2, <3>3, <3>4, DaysTimes
    <3>6. PICK b : b = Bought(pays'[c]) OBVIOUS
    <3>7. b \in Nat
      <4>1. pays[c].ChargeNum \in Nat BY <1>2, PayFields
      <4>2. MONTH_CARD_DAYS_NUM * pays[c].ChargeNum \in Nat BY <4>1, DaysTimes
      <4>. QED BY <2>2, <3>6, <4>2 DEF Bought
    <3>8. PICK u \in {0, 1} : u = Uncounted(c) BY DEF Uncounted
    <3>9. mails[c] \in Nat /\ crashes \in Nat BY <1>1, <1>2 DEF TypeOK
    <3>10. mails[c] + n <= b + u + crashes
      BY <2>3, <2>8, <3>1, <3>5, <3>6, <3>7, <3>8, <3>9, CardsAssumption
    <3>. QED BY <1>2, <1>3, <1>4, <3>2, <3>6, <3>8, <3>10
  <2>10. MailsAreBought'
    <3>1. \A d \in Cards \ {c} : Bought(pays'[d]) = Bought(pays[d]) BY <2>2
    <3>. QED BY <1>1, <1>3, <1>4, <2>6, <2>7, <2>9, <3>1 DEF MailsAreBought
  <2>. QED BY <2>5, <2>10
<1>13. CASE ResetLastAwardTime(g)
  <2>1. pays' = [pays EXCEPT ![c].LastAwardTime = 0] /\ charger[g].step # "reset"
    BY <1>13 DEF ResetLastAwardTime
  <2>2. \A d \in Cards : pays'[d].has = pays[d].has /\ pays'[d].SendMailNum = pays[d].SendMailNum
                         /\ pays'[d].ChargeNum = pays[d].ChargeNum
    BY <1>2, <2>1 DEF Pay
  <2>3. charger'[g].step # "reset"
    BY <1>1, <1>13, ToPlaces DEF ResetLastAwardTime, ChargeStep, TypeOK, Places
  <2>4. \A d \in Cards : Bought(pays'[d]) = Bought(pays[d]) BY <2>2 DEF Bought
  <2>. QED BY <1>1, <1>3, <1>4, <1>6, <1>7, <1>8, <1>9, <2>1, <2>2, <2>3, <2>4, SoundKept, MailsKept
<1>14. CASE AddCard(g)
  <2>1. charger[g].step # "reset" BY <1>14 DEF AddCard
  <2>2. charger'[g].step # "reset"
    BY <1>1, <1>14, ToPlaces DEF AddCard, ChargeStep, TypeOK, Places
  <2>3. \A d \in Cards : /\ pays[d].has => pays'[d].has
                         /\ pays'[d].SendMailNum = pays[d].SendMailNum
                         /\ pays'[d].ChargeNum = pays[d].ChargeNum
    <3>1. CASE pays[c].has BY <1>14, <3>1 DEF AddCard
    <3>2. CASE ~pays[c].has
      <4>1. pays'[c] = [NoPay EXCEPT !.has = TRUE] /\ \A d \in Cards \ {c} : pays'[d] = pays[d]
        BY <1>2, <1>14, <3>2 DEF AddCard
      <4>2. pays[c].SendMailNum = 0 /\ pays[c].ChargeNum = 0
        BY <1>1, <1>2, <3>2 DEF RowsAreSound, Sound
      <4>. QED BY <3>2, <4>1, <4>2 DEF NoPay
    <3>. QED BY <3>1, <3>2
  <2>4. \A d \in Cards : Bought(pays'[d]) = Bought(pays[d]) BY <2>3 DEF Bought
  <2>5. RowsAreSound'
    <3>1. \A d \in Cards : Sound(pays'[d], Sending(d)')
      BY <1>1, <1>4, <2>3 DEF RowsAreSound, Sound
    <3>2. \A d \in Cards : Sound(stored'.pays[d], 0) BY <1>1, <1>3 DEF RowsAreSound
    <3>. QED BY <1>7, <1>8, <2>3, <3>1, <3>2 DEF RowsAreSound
  <2>. QED BY <1>1, <1>3, <1>4, <1>6, <1>9, <2>1, <2>2, <2>4, <2>5, MailsKept
<1>. QED BY <1>10, <1>11, <1>12, <1>13, <1>14 DEF ChargerStep

\* A step of the manager that neither sends nor counts.
LEMMA RoundBought ==
  ASSUME BoughtInv, UNCHANGED <<mails, stored, crashes, charger>>, TypeOK',
         \A c \in Cards : /\ pays'[c].has = pays[c].has
                          /\ pays'[c].SendMailNum = pays[c].SendMailNum
                          /\ pays'[c].ChargeNum = pays[c].ChargeNum,
         round.step # "inc" /\ round'.step # "inc",
         round'.step = "mail" => pays[round'.card].SendMailNum < MONTH_CARD_DAYS_NUM,
         round'.step \in {"send", "mail"} => pays[round'.card].has
  PROVE  RowsAreSound' /\ MailsAreBought'
<1>1. TypeOK /\ RowsAreSound /\ MailsAreBought BY DEF BoughtInv
<1>2. \A c \in Cards : Bought(pays'[c]) = Bought(pays[c]) /\ Unreset(c)' = Unreset(c)
                       /\ Uncounted(c)' = Uncounted(c)
  BY DEF Bought, Unreset, Uncounted
<1>3. \A c \in Cards : Sound(pays'[c], Sending(c)')
  <2>1. SUFFICES ASSUME NEW c \in Cards PROVE Sound(pays'[c], Sending(c)') OBVIOUS
  <2>2. pays[c].SendMailNum \in Nat BY <1>1, PayFields DEF TypeOK
  <2>3. Sound(pays[c], Sending(c)) /\ Sending(c) \in {0, 1} BY <1>1 DEF RowsAreSound, Sending
  <2>4. Sending(c)' = 1 => pays[c].SendMailNum < MONTH_CARD_DAYS_NUM BY DEF Sending
  <2>5. Sending(c)' \in {0, 1} BY DEF Sending
  <2>6. pays[c].SendMailNum + Sending(c)' <= MONTH_CARD_DAYS_NUM
    BY <2>2, <2>3, <2>4, <2>5, CardsAssumption DEF Sound
  <2>. QED BY <2>3, <2>6 DEF Sound
<1>4. round'.card \in Cards BY RoundFields DEF TypeOK, Rounds
<1>5. \A g \in Chargers : charger[g].card \in Cards BY <1>1, ChargerFields
<1>6. RowsAreSound' BY <1>1, <1>3, <1>4, <1>5 DEF RowsAreSound
<1>. QED BY <1>1, <1>2, <1>6, MailsKept

LEMMA ManagerBought ==
  ASSUME BoughtInv, ManagerStep PROVE RowsAreSound' /\ MailsAreBought'
<1>1. TypeOK /\ RowsAreSound /\ MailsAreBought /\ TypeOK' BY ManagerType DEF BoughtInv
<1>0. PICK c \in Cards : c = round.card BY <1>1, RoundFields
<1>. USE <1>0
<1>2. c \in Cards /\ pays \in [Cards -> Pay] /\ pays[c] \in Pay /\ round \in Rounds
  BY <1>1, RoundFields DEF TypeOK
<1>3. NextCard.step \in {"last", "drain"} BY <1>2 DEF NextCard, Rounds
<1>4. CASE Drain
  BY <1>4, <1>1, RoundBought DEF Drain, BoughtInv, row, history
<1>5. CASE StartRound
  <2>1. round'.step = "check" /\ round.step = "drain" BY <1>2, <1>5 DEF StartRound, Rounds
  <2>. QED BY <1>1, <1>5, <2>1, RoundBought DEF StartRound, BoughtInv, row
<1>6. CASE CheckCards
  <2>1. round'.step \in {"last", "delete"} /\ round.step = "check" BY <1>2, <1>6 DEF CheckCards, Rounds
  <2>. QED BY <1>1, <1>6, <2>1, RoundBought DEF CheckCards, BoughtInv, row, history
<1>7. CASE DeletePlayer
  <2>1. round'.step = "drain" /\ round.step = "delete" BY <1>2, <1>7 DEF DeletePlayer, Rounds
  <2>. QED BY <1>1, <1>7, <2>1, RoundBought DEF DeletePlayer, BoughtInv, row, history
<1>8. CASE ReadLastAwardTime
  <2>1. CASE pays[c].has
    <3>1. round'.step = "send" /\ round'.card = c /\ round.step = "last"
      BY <1>2, <1>8, <2>1 DEF ReadLastAwardTime, Rounds
    <3>. QED BY <1>1, <1>8, <2>1, <3>1, RoundBought DEF ReadLastAwardTime, BoughtInv, row, history
  <2>2. CASE ~pays[c].has
    <3>1. round' = NextCard /\ round.step = "last" BY <1>8, <2>2 DEF ReadLastAwardTime
    <3>. QED BY <1>1, <1>3, <1>8, <3>1, RoundBought DEF ReadLastAwardTime, BoughtInv, row, history
  <2>. QED BY <2>1, <2>2
<1>9. CASE ReadSendMailNum
  <2>. DEFINE num == DaysNum(round.last, round.now)
  <2>0. pays[c].has BY <1>1, <1>9 DEF ReadSendMailNum, RowsAreSound
  <2>1. CASE pays[c].SendMailNum < MONTH_CARD_DAYS_NUM /\ num > 0
    <3>1. round'.step = "mail" /\ round'.card = c /\ round.step = "send"
      BY <1>2, <1>9, <2>1 DEF ReadSendMailNum, Rounds
    <3>. QED BY <1>1, <1>9, <2>0, <2>1, <3>1, RoundBought DEF ReadSendMailNum, BoughtInv, row, history
  <2>2. CASE ~(pays[c].SendMailNum < MONTH_CARD_DAYS_NUM /\ num > 0)
    <3>1. round' = NextCard /\ round.step = "send" BY <1>9, <2>2 DEF ReadSendMailNum
    <3>. QED BY <1>1, <1>3, <1>9, <3>1, RoundBought DEF ReadSendMailNum, BoughtInv, row, history
  <2>. QED BY <2>1, <2>2
<1>10. CASE SendMail
  <2>1. round.step = "mail" /\ round'.step = "inc" /\ round'.card = c BY <1>2, <1>10 DEF SendMail, Rounds
  <2>2. UNCHANGED <<pays, stored, crashes, charger>> BY <1>10 DEF SendMail, history
  <2>3. mails'[c] = mails[c] + 1 /\ \A d \in Cards \ {c} : mails'[d] = mails[d]
    BY <1>1, <1>2, <1>10 DEF SendMail, TypeOK
  <2>4. \A d \in Cards : Sending(d)' = Sending(d) /\ Unreset(d)' = Unreset(d) BY <2>1, <2>2 DEF Sending, Unreset
  <2>5. RowsAreSound' BY <1>1, <1>2, <2>1, <2>2, <2>4 DEF RowsAreSound
  <2>6. Uncounted(c) = 0 /\ Uncounted(c)' = 1 /\ \A d \in Cards \ {c} : Uncounted(d)' = Uncounted(d)
    BY <2>1 DEF Uncounted
  <2>7. mails'[c] + MONTH_CARD_DAYS_NUM * Cardinality(Unreset(c)) <= Bought(pays[c]) + 1 + crashes
    <3>1. mails[c] + MONTH_CARD_DAYS_NUM * Cardinality(Unreset(c)) <= Bought(pays[c]) + 0 + crashes
      BY <1>1, <1>2, <2>6 DEF MailsAreBought
    <3>2. PICK n : n = MONTH_CARD_DAYS_NUM * Cardinality(Unreset(c)) OBVIOUS
    <3>3. n \in Nat BY <1>1, <1>2, <3>2, FS_CardinalityType, DaysTimes DEF MailsAreBought
    <3>4. PICK b \in Nat : b = Bought(pays[c]) BY <1>2, BoughtNat
    <3>5. mails[c] \in Nat /\ crashes \in Nat BY <1>1, <1>2 DEF TypeOK
    <3>. QED BY <2>3, <3>1, <3>2, <3>3, <3>4, <3>5
  <2>8. MailsAreBought' BY <1>1, <2>2, <2>3, <2>4, <2>6, <2>7 DEF MailsAreBought
  <2>. QED BY <2>5, <2>8
<1>11. CASE CountMail
  <2>1. pays' = [pays EXCEPT ![c].SendMailNum = @ + 1] /\ round.step = "inc"
        /\ UNCHANGED <<mails, stored, crashes, charger>>
    BY <1>11 DEF CountMail, Count, history
  <2>2. /\ pays'[c].ChargeNum = pays[c].ChargeNum /\ pays'[c].SendMailNum = pays[c].SendMailNum + 1
        /\ pays'[c].has = pays[c].has /\ \A d \in Cards \ {c} : pays'[d] = pays[d]
    BY <1>2, <2>1 DEF Pay
  <2>3. /\ round'.card = c /\ round'.step \in {"mail", "set"}
        /\ round'.step = "mail" => pays[c].SendMailNum + 1 < MONTH_CARD_DAYS_NUM
    <3>1. pays[c].SendMailNum \in Nat BY <1>2, PayFields
    <3>2. CASE pays[c].SendMailNum + 1 >= MONTH_CARD_DAYS_NUM \/ round.num = 1
      BY <1>2, <1>11, <3>2 DEF CountMail, Rounds
    <3>3. CASE ~(pays[c].SendMailNum + 1 >= MONTH_CARD_DAYS_NUM \/ round.num = 1)
      <4>1. round' = [round EXCEPT !.step = "mail", !.num = @ - 1] BY <1>11, <3>3 DEF CountMail
      <4>2. pays[c].SendMailNum + 1 < MONTH_CARD_DAYS_NUM BY <3>1, <3>3, CardsAssumption
      <4>. QED BY <1>2, <4>1, <4>2 DEF Rounds
    <3>. QED BY <3>2, <3>3
  <2>4. pays[c].SendMailNum \in Nat /\ pays[c].SendMailNum + 1 <= MONTH_CARD_DAYS_NUM /\ pays[c].has
    <3>1. Sending(c) = 1 BY <2>1 DEF Sending
    <3>. QED BY <1>1, <1>2, <2>1, <3>1, PayFields DEF RowsAreSound, Sound
  <2>5. Sound(pays'[c], Sending(c)')
    <3>1. Sending(c)' = 0 \/ (Sending(c)' = 1 /\ round'.step = "mail")
      BY <2>3 DEF Sending
    <3>. QED BY <2>2, <2>3, <2>4, <3>1, CardsAssumption DEF Sound
  <2>6. \A d \in Cards \ {c} : Sound(pays'[d], Sending(d)')
    BY <1>1, <2>1, <2>2, <2>3 DEF RowsAreSound, Sending
  <2>7. RowsAreSound' BY <1>1, <1>2, <2>1, <2>2, <2>3, <2>4, <2>5, <2>6 DEF RowsAreSound
  <2>8. Uncounted(c) = 1 /\ Uncounted(c)' = 0 /\ \A d \in Cards \ {c} : Uncounted(d)' = Uncounted(d)
    BY <2>1, <2>3 DEF Uncounted
  <2>9. \A d \in Cards : Unreset(d)' = Unreset(d) BY <2>1 DEF Unreset
  <2>10. Bought(pays'[c]) = Bought(pays[c]) + 1
    <3>1. pays[c].ChargeNum \in Nat BY <1>2, PayFields
    <3>2. MONTH_CARD_DAYS_NUM * pays[c].ChargeNum \in Nat BY <3>1, DaysTimes
    <3>. QED BY <2>2, <2>4, <3>2 DEF Bought
  <2>11. \A d \in Cards \ {c} : Bought(pays'[d]) = Bought(pays[d]) BY <2>2
  <2>12. mails[c] + MONTH_CARD_DAYS_NUM * Cardinality(Unreset(c))
           <= Bought(pays'[c]) + Uncounted(c)' + crashes
    <3>1. mails[c] + MONTH_CARD_DAYS_NUM * Cardinality(Unreset(c)) <= Bought(pays[c]) + 1 + crashes
      BY <1>1, <1>2, <2>8 DEF MailsAreBought
    <3>2. PICK b \in Nat : b = Bought(pays[c]) BY <1>2, BoughtNat
    <3>3. crashes \in Nat BY <1>1 DEF TypeOK
    <3>4. Bought(pays'[c]) + 0 + crashes = b + 1 + crashes BY <2>10, <3>2, <3>3
    <3>. QED BY <2>8, <3>1, <3>2, <3>4
  <2>13. MailsAreBought' BY <1>1, <2>1, <2>8, <2>9, <2>11, <2>12 DEF MailsAreBought
  <2>. QED BY <2>7, <2>13
<1>12. CASE SetLastAwardTime
  <2>1. pays' = [pays EXCEPT ![c].LastAwardTime = round.now] /\ round.step = "set" /\ round' = NextCard
    BY <1>12 DEF SetLastAwardTime
  <2>2. \A d \in Cards : pays'[d].has = pays[d].has /\ pays'[d].SendMailNum = pays[d].SendMailNum
                         /\ pays'[d].ChargeNum = pays[d].ChargeNum
    BY <1>2, <2>1 DEF Pay
  <2>. QED BY <1>1, <1>3, <1>12, <2>1, <2>2, RoundBought DEF SetLastAwardTime, BoughtInv, history
<1>. QED BY <1>4, <1>5, <1>6, <1>7, <1>8, <1>9, <1>10, <1>11, <1>12 DEF ManagerStep

\* The row in MySQL may have a mail that is not counted.
LEMMA SaveBought ==
  ASSUME BoughtInv, SaveRow PROVE RowsAreSound' /\ MailsAreBought'
<1>1. TypeOK /\ RowsAreSound /\ MailsAreBought BY DEF BoughtInv
<1>2. stored'.pays = pays /\ stored'.mails = mails /\ UNCHANGED <<pays, mails, charger, round, crashes>>
  BY DEF SaveRow, row, history
<1>3. \A c \in Cards : Unreset(c)' = Unreset(c) /\ Uncounted(c)' = Uncounted(c) /\ Sending(c)' = Sending(c)
  BY <1>2 DEF Unreset, Uncounted, Sending
<1>4. \A c \in Cards : Sound(pays[c], 0)
  <2>1. SUFFICES ASSUME NEW c \in Cards PROVE Sound(pays[c], 0) OBVIOUS
  <2>2. pays[c].SendMailNum \in Nat BY <1>1, PayFields DEF TypeOK
  <2>3. Sound(pays[c], Sending(c)) /\ Sending(c) \in {0, 1} BY <1>1 DEF RowsAreSound, Sending
  <2>. QED BY <2>2, <2>3, CardsAssumption DEF Sound
<1>5. RowsAreSound' BY <1>1, <1>2, <1>3, <1>4 DEF RowsAreSound
<1>6. \A c \in Cards : mails[c] <= Bought(pays[c]) + 1 + crashes
  <2>1. SUFFICES ASSUME NEW c \in Cards PROVE mails[c] <= Bought(pays[c]) + 1 + crashes OBVIOUS
  <2>2. mails[c] + MONTH_CARD_DAYS_NUM * Cardinality(Unreset(c))
          <= Bought(pays[c]) + Uncounted(c) + crashes
    BY <1>1 DEF MailsAreBought
  <2>3. PICK n : n = MONTH_CARD_DAYS_NUM * Cardinality(Unreset(c)) OBVIOUS
  <2>4. n \in Nat BY <1>1, <2>3, FS_CardinalityType, DaysTimes DEF MailsAreBought
  <2>5. PICK b \in Nat : b = Bought(pays[c]) BY <1>1, BoughtNat DEF TypeOK
  <2>6. PICK u \in {0, 1} : u = Uncounted(c) BY DEF Uncounted
  <2>7. mails[c] \in Nat /\ crashes \in Nat BY <1>1 DEF TypeOK
  <2>8. mails[c] + n <= b + u + crashes BY <2>2, <2>3, <2>5, <2>6
  <2>. QED BY <2>4, <2>5, <2>6, <2>7, <2>8
<1>7. MailsAreBought' BY <1>1, <1>2, <1>3, <1>6 DEF MailsAreBought
<1>. QED BY <1>5, <1>7

\* After a restart no purchase is under way and the crash counts.
LEMMA RestartBought ==
  ASSUME BoughtInv, Restart PROVE RowsAreSound' /\ MailsAreBought'
<1>1. TypeOK /\ RowsAreSound /\ MailsAreBought BY DEF BoughtInv
<1>2. /\ pays' = stored.pays /\ mails' = stored.mails /\ stored' = stored /\ crashes' = crashes + 1
      /\ \A g \in Chargers : charger'[g] = Idle
  BY DEF Restart
<1>3. round'.step = "drain" BY <1>1 DEF Restart, TypeOK, Rounds
<1>4. \A c \in Cards : Unreset(c)' = {} /\ Uncounted(c)' = 0 /\ Sending(c)' = 0
  BY <1>2, <1>3 DEF Unreset, Uncounted, Sending, Idle
<1>5. RowsAreSound' BY <1>1, <1>2, <1>3, <1>4 DEF RowsAreSound, Idle
<1>6. MailsAreBought'
  <2>1. SUFFICES ASSUME NEW c \in Cards
        PROVE  /\ IsFiniteSet(Unreset(c)')
               /\ mails'[c] + MONTH_CARD_DAYS_NUM * Cardinality(Unreset(c)')
                    <= Bought(pays'[c]) + Uncounted(c)' + crashes'
               /\ stored'.mails[c] <= Bought(stored'.pays[c]) + 1 + crashes'
    BY DEF MailsAreBought
  <2>2. IsFiniteSet({}) /\ Cardinality({}) = 0 BY FS_EmptySet
  <2>3. MONTH_CARD_DAYS_NUM * 0 = 0 BY CardsAssumption
  <2>4. stored.mails[c] <= Bought(stored.pays[c]) + 1 + crashes BY <1>1 DEF MailsAreBought
  <2>5. stored.mails[c] \in Nat /\ stored.pays[c] \in Pay /\ crashes \in Nat BY <1>1 DEF TypeOK, Rows
  <2>6. PICK b \in Nat : b = Bought(stored.pays[c]) BY <2>5, BoughtNat
  <2>7. stored.mails[c] + 0 <= b + 0 + (crashes + 1) /\ stored.mails[c] <= b + 1 + (crashes + 1)
    BY <2>4, <2>5, <2>6
  <2>. QED BY <1>2, <1>4, <2>2, <2>3, <2>6, <2>7
<1>. QED BY <1>5, <1>6

LEMMA InitBought == ASSUME Init PROVE BoughtInv
<1>1. TypeOK BY InitType
<1>2. round.step = "drain" /\ \A g \in Chargers : charger[g] = Idle BY DEF Init
<1>3. \A c \in Cards : pays[c] = NoPay /\ stored.pays[c] = NoPay /\ mails[c] = 0 /\ stored.mails[c] = 0
  BY DEF Init
<1>4. \A c \in Cards : Unreset(c) = {} /\ Uncounted(c) = 0 /\ Sending(c) = 0
  BY <1>2 DEF Unreset, Uncounted, Sending, Idle
<1>5. RowsAreSound
  <2>1. 0 + 0 <= MONTH_CARD_DAYS_NUM BY CardsAssumption
  <2>. QED BY <1>2, <1>3, <1>4, <2>1 DEF RowsAreSound, Sound, NoPay, Idle
<1>6. MailsAreBought
  <2>1. IsFiniteSet({}) /\ Cardinality({}) = 0 BY FS_EmptySet
  <2>2. MONTH_CARD_DAYS_NUM * 0 = 0 BY CardsAssumption
  <2>3. Bought(NoPay) = 0 BY <2>2 DEF Bought, NoPay
  <2>4. crashes = 0 BY DEF Init
  <2>. QED BY <1>3, <1>4, <2>1, <2>2, <2>3, <2>4 DEF MailsAreBought
<1>. QED BY <1>1, <1>5, <1>6 DEF BoughtInv

LEMMA NextBought == ASSUME BoughtInv, [Next]_vars PROVE BoughtInv'
<1>1. ASSUME UNCHANGED <<pays, mails, stored, charger, round, crashes>>
      PROVE  RowsAreSound' /\ MailsAreBought'
  BY <1>1 DEF BoughtInv, RowsAreSound, MailsAreBought, Unreset, Uncounted, Sending
<1>2. CASE NextDay BY <1>1, <1>2, NextType DEF NextDay, row, history, BoughtInv
<1>3. CASE UNCHANGED vars BY <1>1, <1>3, NextType DEF vars, row, history, BoughtInv
<1>. QED BY <1>2, <1>3, NextType, ChargeBought, ChargerBought, ManagerBought, SaveBought, RestartBought
  DEF Next, Quiet, BoughtInv

(***************************************************************************)
(* A card sends at most the mails its purchases pay for, and one more for  *)
(* each crash: neither a purchase in the manager's round nor two at once   *)
(* make it pay twice.                                                      *)
(***************************************************************************)
THEOREM NoMailForFree == Spec => []NeverOverpaid
<1>1. Init => BoughtInv BY InitBought
<1>2. BoughtInv /\ [Next]_vars => BoughtInv' BY NextBought
<1>3. BoughtInv => NeverOverpaid
  <2>. SUFFICES ASSUME BoughtInv, NEW c \in Cards
       PROVE  mails[c] <= MONTH_CARD_DAYS_NUM * (pays[c].ChargeNum + 1) + crashes
    BY DEF NeverOverpaid
  <2>2. TypeOK /\ RowsAreSound /\ MailsAreBought BY DEF BoughtInv
  <2>3. pays[c] \in Pay /\ mails[c] \in Nat /\ crashes \in Nat BY <2>2 DEF TypeOK
  <2>4. mails[c] + MONTH_CARD_DAYS_NUM * Cardinality(Unreset(c))
          <= Bought(pays[c]) + Uncounted(c) + crashes
    BY <2>2 DEF MailsAreBought
  <2>5. PICK n : n = MONTH_CARD_DAYS_NUM * Cardinality(Unreset(c)) OBVIOUS
  <2>6. n \in Nat BY <2>2, <2>5, FS_CardinalityType, DaysTimes DEF MailsAreBought
  <2>7. PICK s \in Nat : s = pays[c].SendMailNum BY <2>3, PayFields
  <2>8. s + Uncounted(c) <= MONTH_CARD_DAYS_NUM /\ Uncounted(c) \in {0, 1}
    <3>1. Sound(pays[c], Sending(c)) BY <2>2 DEF RowsAreSound
    <3>2. s + Sending(c) <= MONTH_CARD_DAYS_NUM BY <2>7, <3>1 DEF Sound
    <3>. QED BY <2>7, <3>2, CardsAssumption DEF Sending, Uncounted
  <2>9. PICK u \in {0, 1} : u = Uncounted(c) BY <2>8
  <2>10. PICK k \in Nat : k = MONTH_CARD_DAYS_NUM * pays[c].ChargeNum BY <2>3, PayFields, DaysTimes
  <2>11. MONTH_CARD_DAYS_NUM * (pays[c].ChargeNum + 1) = k + MONTH_CARD_DAYS_NUM
    BY <2>3, <2>10, PayFields, DaysTimes
  <2>12. Bought(pays[c]) = k + s BY <2>7, <2>10 DEF Bought
  <2>13. mails[c] + n <= (k + s) + u + crashes BY <2>4, <2>5, <2>9, <2>12
  <2>14. s + u <= MONTH_CARD_DAYS_NUM BY <2>8, <2>9
  <2>15. mails[c] <= k + MONTH_CARD_DAYS_NUM + crashes
    BY <2>3, <2>6, <2>13, <2>14, CardsAssumption
  <2>. QED BY <2>11, <2>15
<1>. QED BY <1>1, <1>2, <1>3, PTL DEF Spec

-----------------------------------------------------------------------------
(* Paid by the day *)

\* The step of a round, and of a purchase, that says what is half done.
LEMMA HalfKept ==
  ASSUME \A g \in Chargers :
           \/ charger'[g] = charger[g]
           \/ charger'[g].step # "resetLast" /\ charger[g].step # "resetLast"
  PROVE  \A c \in Cards : c \in HalfReset' <=> c \in HalfReset
BY DEF HalfReset

LEMMA CardFields ==
  ASSUME TypeOK, NEW c \in Cards
  PROVE  /\ pays[c].SendMailNum \in Nat /\ pays[c].LastAwardTime \in Nat
         /\ started[c] \in Nat /\ day \in Nat
BY PayFields, BoundsAssumption DEF TypeOK

\* A step beside the rounds that changes no card's days.
LEMMA FrameKeeps ==
  ASSUME DaysInv, UNCHANGED <<round, started, day, crashes>>, raced \subseteq raced',
         \A c \in Cards : /\ pays'[c].SendMailNum = pays[c].SendMailNum
                          /\ pays'[c].LastAwardTime = pays[c].LastAwardTime
                          /\ c \in HalfReset' <=> c \in HalfReset
  PROVE  DaysInv'
<1>. SUFFICES ASSUME crashes = 0 PROVE TimeIsOrdered' /\ \A c \in Cards \ raced' : DaysArePaid(c)'
  BY DEF DaysInv
<1>1. TimeIsOrdered' BY DEF DaysInv, TimeIsOrdered, InRound
<1>2. ASSUME NEW c \in Cards, c \notin raced' PROVE DaysArePaid(c)'
  <2>1. DaysArePaid(c) BY <1>2 DEF DaysInv
  <2>2. \A d : PaidTo(c, d)' <=> PaidTo(c, d) BY <1>2 DEF PaidTo
  <2>3. PaidTo(c, pays[c].LastAwardTime)' <=> PaidTo(c, pays[c].LastAwardTime) BY <1>2 DEF PaidTo
  <2>4. Settled(c)' <=> Settled(c) BY <1>2, <2>3 DEF Settled
  <2>5. Owes(c)' <=> Owes(c) BY <1>2 DEF Owes
  <2>6. InRound' <=> InRound BY DEF InRound
  <2>7. PaidTo(c, round.now)' <=> PaidTo(c, round.now) BY DEF PaidTo
  <2>. QED BY <1>2, <2>1, <2>4, <2>5, <2>6, <2>7 DEF DaysArePaid
<1>. QED BY <1>1, <1>2

\* A purchase that sets back card c: in a round it races.
LEMMA ResetKeeps ==
  ASSUME TypeOK, DaysInv, NEW c \in Cards, UNCHANGED <<round, started, day, crashes>>,
         raced \subseteq raced', InRound => c \in raced',
         \A d \in Cards : pays'[d].LastAwardTime \in {pays[d].LastAwardTime, 0},
         \A d \in Cards \ {c} : pays'[d] = pays[d] /\ (d \in HalfReset' <=> d \in HalfReset),
         c \notin raced' => /\ pays'[c].SendMailNum = 0
                            /\ pays'[c].LastAwardTime = 0 \/ c \in HalfReset'
  PROVE  DaysInv'
<1>. SUFFICES ASSUME crashes = 0 PROVE TimeIsOrdered' /\ \A d \in Cards \ raced' : DaysArePaid(d)'
  BY DEF DaysInv
<1>0. InRound' <=> InRound BY DEF InRound
<1>1. TimeIsOrdered'
  <2>1. TimeIsOrdered BY DEF DaysInv
  <2>2. day \in Nat /\ round.now \in Nat BY BoundsAssumption, RoundFields DEF TypeOK
  <2>. QED BY <1>0, <2>1, <2>2 DEF TimeIsOrdered
<1>2. ASSUME NEW d \in Cards \ {c}, d \notin raced' PROVE DaysArePaid(d)'
  <2>1. DaysArePaid(d) BY <1>2 DEF DaysInv
  <2>2. pays'[d] = pays[d] /\ (d \in HalfReset' <=> d \in HalfReset) BY <1>2
  <2>3. Settled(d)' <=> Settled(d) BY <2>2 DEF Settled, PaidTo
  <2>4. Owes(d)' <=> Owes(d) BY <2>2 DEF Owes
  <2>5. PaidTo(d, round.now)' <=> PaidTo(d, round.now) BY <2>2 DEF PaidTo
  <2>. QED BY <1>0, <2>1, <2>2, <2>3, <2>4, <2>5 DEF DaysArePaid
<1>3. ASSUME c \notin raced' PROVE DaysArePaid(c)'
  <2>1. ~InRound /\ round'.step = "drain" BY <1>3 DEF InRound
  <2>2. Settled(c)' BY <1>3 DEF Settled
  <2>. QED BY <1>0, <1>3, <2>1, <2>2 DEF DaysArePaid
<1>. QED BY <1>1, <1>2, <1>3

LEMMA ChargeDays ==
  ASSUME TypeOK, DaysInv, NEW g \in Chargers, NEW c \in Cards, Charge(g, c) PROVE DaysInv'
<1>1. charger'[g].step = "verify" /\ \A h \in Chargers \ {g} : charger'[h] = charger[h]
  BY DEF Charge, TypeOK
<1>2. charger[g].step = "idle" /\ UNCHANGED <<pays, round, started, day, crashes, raced>>
  BY DEF Charge, row
<1>3. \A d \in Cards : d \in HalfReset' <=> d \in HalfReset BY <1>1, <1>2, HalfKept
<1>. QED BY <1>2, <1>3, FrameKeeps

\* Where a purchase is after its step.
LEMMA ToStep ==
  ASSUME TypeOK, NEW g \in Chargers, NEW step, To(g, step)
  PROVE  /\ charger'[g].step = step /\ charger'[g].card = charger[g].card
         /\ \A h \in Chargers \ {g} : charger'[h] = charger[h]
<1>1. charger \in [Chargers -> Places] BY DEF TypeOK
<1>2. charger[g] \in Places BY <1>1
<1>. QED BY <1>1, <1>2 DEF To, Places

LEMMA ChargerDays ==
  ASSUME TypeOK, RowsAreSound, DaysInv, NEW g \in Chargers, ChargerStep(g) PROVE DaysInv'
<1>. DEFINE c == charger[g].card
<1>0. c \in Cards /\ pays \in [Cards -> Pay] BY ChargerFields DEF TypeOK
<1>1. CASE NotVerified(g) \/ Renew(g) \/ InsertPlayer(g)
  <2>1. \E step : To(g, step) /\ step # "resetLast" /\ charger[g].step # "resetLast"
    BY <1>1 DEF NotVerified, Renew, InsertPlayer
  <2>2. \A d \in Cards : d \in HalfReset' <=> d \in HalfReset BY <2>1, ToStep, HalfKept
  <2>3. UNCHANGED <<round, started, day, crashes, raced>>
    BY <1>1 DEF NotVerified, Renew, InsertPlayer, row, history
  <2>4. \A d \in Cards : /\ pays'[d].SendMailNum = pays[d].SendMailNum
                         /\ pays'[d].LastAwardTime = pays[d].LastAwardTime
    BY <1>0, <1>1 DEF NotVerified, Renew, InsertPlayer, row, Pay
  <2>. QED BY <2>2, <2>3, <2>4, FrameKeeps
<1>2. CASE ResetSendMailNum(g)
  <2>1. To(g, "resetLast") /\ UNCHANGED <<round, started, day, crashes>> /\ Race(c)
        /\ pays' = [pays EXCEPT ![c].SendMailNum = 0] /\ charger[g].step = "reset"
    BY <1>2 DEF ResetSendMailNum
  <2>2. /\ \A d \in Cards \ {c} : pays'[d] = pays[d]
        /\ pays'[c].SendMailNum = 0 /\ pays'[c].LastAwardTime = pays[c].LastAwardTime
    BY <1>0, <2>1 DEF Pay
  <2>3. c \in HalfReset' BY <2>1, ToStep DEF HalfReset
  <2>4. \A d \in Cards \ {c} : d \in HalfReset' <=> d \in HalfReset
    BY <2>1, ToStep DEF HalfReset
  <2>5. raced \subseteq raced' /\ (InRound => c \in raced') BY <2>1 DEF Race
  <2>. QED BY <1>0, <2>1, <2>2, <2>3, <2>4, <2>5, ResetKeeps
<1>3. CASE ResetLastAwardTime(g)
  <2>1. To(g, "insert") /\ UNCHANGED <<round, started, day, crashes>> /\ Race(c)
        /\ pays' = [pays EXCEPT ![c].LastAwardTime = 0] /\ charger[g].step = "resetLast"
    BY <1>3 DEF ResetLastAwardTime
  <2>2. /\ \A d \in Cards \ {c} : pays'[d] = pays[d]
        /\ pays'[c].SendMailNum = pays[c].SendMailNum /\ pays'[c].LastAwardTime = 0
    BY <1>0, <2>1 DEF Pay
  <2>3. c \in HalfReset BY <2>1 DEF HalfReset
  <2>4. \A d \in Cards \ {c} : d \in HalfReset' <=> d \in HalfReset
    BY <2>1, ToStep DEF HalfReset
  <2>5. raced \subseteq raced' /\ (InRound => c \in raced') BY <2>1 DEF Race
  <2>6. crashes = 0 /\ c \notin raced' => pays[c].SendMailNum = 0
    BY <1>0, <2>3, <2>5 DEF DaysInv, DaysArePaid
  <2>7. CASE crashes = 0
    BY <1>0, <2>1, <2>2, <2>4, <2>5, <2>6, <2>7, ResetKeeps
  <2>8. CASE crashes # 0 BY <2>1, <2>8 DEF DaysInv
  <2>. QED BY <2>7, <2>8
<1>4. CASE AddCard(g)
  <2>1. To(g, "insert") /\ UNCHANGED <<round, started, day, crashes>> /\ charger[g].step = "verify"
    BY <1>4 DEF AddCard
  <2>2. \A d \in Cards : d \in HalfReset' <=> d \in HalfReset BY <2>1, ToStep, HalfKept
  <2>3. CASE pays[c].has
    <3>1. UNCHANGED <<pays, raced>> BY <1>4, <2>3 DEF AddCard
    <3>. QED BY <2>1, <2>2, <3>1, FrameKeeps
  <2>4. CASE ~pays[c].has
    <3>1. pays' = [pays EXCEPT ![c] = [NoPay EXCEPT !.has = TRUE]] /\ Race(c)
      BY <1>4, <2>4 DEF AddCard
    <3>2. /\ \A d \in Cards \ {c} : pays'[d] = pays[d]
          /\ pays'[c].SendMailNum = 0 /\ pays'[c].LastAwardTime = 0
      BY <1>0, <3>1 DEF NoPay
    <3>3. raced \subseteq raced' /\ (InRound => c \in raced') BY <3>1 DEF Race
    <3>. QED BY <1>0, <2>1, <2>2, <3>2, <3>3, ResetKeeps
  <2>. QED BY <2>3, <2>4
<1>. QED BY <1>1, <1>2, <1>3, <1>4 DEF ChargerStep

\* A step of a round outside the mails: all cards stay settled.
LEMMA SettledRound ==
  ASSUME DaysInv, UNCHANGED <<pays, started, charger, day, crashes, raced>>,
         InRound, round.step \notin {"mail", "inc", "set"},
         round'.step \notin {"mail", "inc", "set"}, round'.now = round.now,
         round'.step = "send" => round'.last = pays[round'.card].LastAwardTime
  PROVE  DaysInv'
<1>. SUFFICES ASSUME crashes = 0 PROVE TimeIsOrdered' /\ \A c \in Cards \ raced : DaysArePaid(c)'
  BY DEF DaysInv
<1>1. TimeIsOrdered' BY DEF DaysInv, TimeIsOrdered
<1>2. ASSUME NEW c \in Cards, c \notin raced PROVE DaysArePaid(c)'
  <2>1. DaysArePaid(c) BY <1>2 DEF DaysInv
  <2>2. Settled(c) /\ c \notin HalfReset BY <2>1 DEF DaysArePaid
  <2>3. Settled(c)' /\ c \notin HalfReset' BY <2>2 DEF Settled, PaidTo, HalfReset
  <2>. QED BY <2>3 DEF DaysArePaid
<1>. QED BY <1>1, <1>2

\* The cards a round is not at.
LEMMA OtherCards ==
  ASSUME NEW c, NEW d, c # d, c = round.card, InRound, DaysArePaid(d),
         pays'[d] = pays[d], started'[d] = started[d], charger' = charger,
         round'.card = c \/ round'.step \in {"last", "drain"}
  PROVE  DaysArePaid(d)'
<1>1. Settled(d) /\ d \notin HalfReset BY DEF DaysArePaid
<1>2. Settled(d)' /\ d \notin HalfReset' BY <1>1 DEF Settled, PaidTo, HalfReset
<1>. QED BY <1>2 DEF DaysArePaid

\* A step of a round that pays its card.
LEMMA PayingRound ==
  ASSUME TypeOK, DaysInv, NEW c \in Cards, c = round.card, InRound,
         UNCHANGED <<charger, day, crashes, raced>>,
         \A d \in Cards \ {c} : pays'[d] = pays[d] /\ started'[d] = started[d],
         round'.now = round.now, round'.card = c \/ round'.step \in {"last", "drain"},
         pays'[c].LastAwardTime \in {pays[c].LastAwardTime, round.now},
         crashes = 0 /\ TimeIsOrdered /\ DaysArePaid(c) => DaysArePaid(c)'
  PROVE  DaysInv'
<1>. SUFFICES ASSUME crashes = 0 PROVE TimeIsOrdered' /\ \A d \in Cards \ raced : DaysArePaid(d)'
  BY DEF DaysInv
<1>0. TimeIsOrdered BY DEF DaysInv
<1>1. TimeIsOrdered'
  <2>1. \A d \in Cards : pays'[d].LastAwardTime \in {pays[d].LastAwardTime, round.now} OBVIOUS
  <2>2. round.now \in 1..day /\ day \in Nat BY <1>0, CardFields DEF TimeIsOrdered
  <2>. QED BY <1>0, <2>1, <2>2 DEF TimeIsOrdered
<1>2. ASSUME NEW d \in Cards, d \notin raced PROVE DaysArePaid(d)'
  <2>1. DaysArePaid(d) BY <1>2 DEF DaysInv
  <2>2. CASE d = c BY <1>0, <2>1, <2>2
  <2>3. CASE d # c BY <1>2, <2>1, <2>3, OtherCards
  <2>. QED BY <2>2, <2>3
<1>. QED BY <1>1, <1>2

LEMMA StartDays == ASSUME TypeOK, DaysInv, StartRound PROVE DaysInv'
<1>1. /\ round.step = "drain" /\ round' = [round EXCEPT !.step = "check", !.now = day]
      /\ raced' = raced \cup HalfReset
      /\ UNCHANGED <<pays, started, charger, day, crashes>>
  BY DEF StartRound, row
<1>2. round'.step = "check" /\ round'.now = day /\ round'.card = round.card
  BY <1>1 DEF TypeOK, Rounds
<1>. SUFFICES ASSUME crashes = 0 PROVE TimeIsOrdered' /\ \A c \in Cards \ raced' : DaysArePaid(c)'
  BY <1>1 DEF DaysInv
<1>3. TimeIsOrdered' BY <1>1, <1>2, BoundsAssumption DEF DaysInv, TimeIsOrdered, TypeOK
<1>4. ASSUME NEW c \in Cards, c \notin raced' PROVE DaysArePaid(c)'
  <2>1. DaysArePaid(c) /\ c \notin HalfReset BY <1>1, <1>4 DEF DaysInv
  <2>2. Settled(c) BY <1>1, <2>1 DEF DaysArePaid
  <2>3. Settled(c)' /\ c \notin HalfReset' BY <1>1, <2>1, <2>2 DEF Settled, PaidTo, HalfReset
  <2>. QED BY <1>2, <2>3 DEF DaysArePaid
<1>. QED BY <1>3, <1>4

LEMMA ManagerDays == ASSUME TypeOK, DaysInv, ManagerStep PROVE DaysInv'
<1>c. PICK c \in Cards : c = round.card BY RoundFields
<1>0. c = round.card /\ c \in Cards /\ pays \in [Cards -> Pay] /\ round.now \in Nat /\ round.num \in Int
      /\ round.last \in Nat /\ pays[c] \in Pay
  BY <1>c, RoundFields, BoundsAssumption DEF TypeOK
<1>1. /\ pays[c].SendMailNum \in Nat /\ pays[c].LastAwardTime \in Nat /\ started[c] \in Nat
      /\ day \in Nat
  BY <1>0, CardFields
<1>2. NextCard.now = round.now /\ NextCard.step \in {"last", "drain"}
  BY DEF NextCard, TypeOK, Rounds
<1>3. MONTH_CARD_DAYS_NUM \in Nat /\ MONTH_CARD_DAYS_NUM > 0 BY CardsAssumption
<1>4. CASE Drain
  <2>1. \A d \in Cards : d \in HalfReset' <=> d \in HalfReset BY <1>4 DEF Drain, HalfReset
  <2>. QED BY <1>4, <2>1, FrameKeeps DEF Drain, row, history
<1>5. CASE StartRound BY <1>5, StartDays
<1>6. CASE CheckCards
  <2>1. round'.step \in {"last", "delete"} /\ round'.now = round.now
    BY <1>6 DEF CheckCards, TypeOK, Rounds
  <2>. QED BY <1>6, <2>1, SettledRound DEF CheckCards, row, history, InRound
<1>7. CASE DeletePlayer
  <2>1. round'.step = "drain" /\ round'.now = round.now BY <1>7 DEF DeletePlayer, TypeOK, Rounds
  <2>. QED BY <1>7, <2>1, SettledRound DEF DeletePlayer, row, history, InRound
<1>8. CASE ReadLastAwardTime
  <2>1. /\ round'.now = round.now /\ round'.step \in {"send", "last", "drain"}
        /\ round'.step = "send" => round'.last = pays[round'.card].LastAwardTime
    BY <1>2, <1>8 DEF ReadLastAwardTime, TypeOK, Rounds
  <2>. QED BY <1>8, <2>1, SettledRound DEF ReadLastAwardTime, row, history, InRound
<1>9. CASE ReadSendMailNum
  <2>. DEFINE num == DaysNum(round.last, round.now)
  <2>0. round.step = "send" /\ UNCHANGED <<pays, started, charger, day, crashes, raced>>
    BY <1>9 DEF ReadSendMailNum, row, history
  <2>1. CASE pays[c].SendMailNum < MONTH_CARD_DAYS_NUM /\ num > 0
    <3>1. /\ round'.step = "mail" /\ round'.num = num /\ round'.now = round.now /\ round'.card = c
      BY <1>0, <1>9, <2>1 DEF ReadSendMailNum, TypeOK, Rounds
    <3>2. ASSUME TimeIsOrdered, DaysArePaid(c) PROVE DaysArePaid(c)'
      <4>1. /\ Settled(c) /\ round.last = pays[c].LastAwardTime /\ c \notin HalfReset
            /\ pays[c].LastAwardTime <= round.now
        BY <1>0, <2>0, <3>2 DEF DaysArePaid, InRound, TimeIsOrdered
      <4>2. c \notin HalfReset' BY <2>0, <4>1 DEF HalfReset
      <4>3. Owes(c)'
        <5>1. CASE pays[c].SendMailNum = 0
          <6>1. pays[c].LastAwardTime = 0 BY <4>1, <5>1 DEF Settled
          <6>2. num = 1 BY <4>1, <6>1 DEF DaysNum
          <6>. QED BY <1>3, <2>0, <3>1, <5>1, <6>2 DEF Owes
        <5>2. CASE pays[c].SendMailNum # 0
          <6>1. /\ started[c] \in 1..pays[c].LastAwardTime
                /\ pays[c].SendMailNum = Capped(pays[c].LastAwardTime - started[c] + 1)
            BY <4>1, <5>2 DEF Settled, PaidTo
          <6>2. pays[c].SendMailNum = pays[c].LastAwardTime - started[c] + 1
            BY <1>1, <1>3, <2>1, <6>1 DEF Capped
          <6>3. num = round.now - pays[c].LastAwardTime
            BY <1>0, <1>1, <4>1, <6>1 DEF DaysNum
          <6>. QED BY <1>0, <1>1, <2>0, <2>1, <3>1, <4>1, <5>2, <6>1, <6>2, <6>3 DEF Owes
        <5>. QED BY <5>1, <5>2
      <4>. QED BY <3>1, <4>2, <4>3 DEF DaysArePaid
    <3>. QED BY <1>0, <2>0, <3>1, <3>2, PayingRound DEF InRound
  <2>2. CASE ~(pays[c].SendMailNum < MONTH_CARD_DAYS_NUM /\ num > 0)
    <3>1. round' = NextCard BY <1>0, <1>9, <2>2 DEF ReadSendMailNum
    <3>. QED BY <1>2, <2>0, <3>1, SettledRound DEF InRound
  <2>. QED BY <2>1, <2>2
<1>10. CASE SendMail
  <2>1. /\ round.step = "mail" /\ round'.step = "inc" /\ round'.card = c /\ round'.now = round.now
        /\ round'.num = round.num
        /\ UNCHANGED <<pays, started, charger, day, crashes, raced>>
    BY <1>0, <1>10 DEF SendMail, history, TypeOK, Rounds
  <2>2. ASSUME DaysArePaid(c) PROVE DaysArePaid(c)'
    <3>1. Owes(c) /\ c \notin HalfReset BY <1>0, <2>1, <2>2 DEF DaysArePaid, InRound
    <3>2. Owes(c)' /\ c \notin HalfReset' BY <2>1, <3>1 DEF Owes, HalfReset
    <3>. QED BY <2>1, <3>2 DEF DaysArePaid
  <2>. QED BY <1>0, <2>1, <2>2, PayingRound DEF InRound
<1>11. CASE CountMail
  <2>. DEFINE n == pays[c].SendMailNum
  <2>1. /\ round.step = "inc" /\ Count(c) /\ UNCHANGED <<charger, day, crashes, raced>>
        /\ round'.card = c /\ round'.now = round.now
        /\ IF n + 1 >= MONTH_CARD_DAYS_NUM \/ round.num = 1 THEN round'.step = "set"
           ELSE round'.step = "mail" /\ round'.num = round.num - 1
    BY <1>0, <1>11 DEF CountMail, history, TypeOK, Rounds
  <2>2. /\ pays'[c].SendMailNum = n + 1 /\ pays'[c].LastAwardTime = pays[c].LastAwardTime
        /\ \A d \in Cards \ {c} : pays'[d] = pays[d]
    BY <1>0, <2>1 DEF Count, Pay
  <2>3. /\ started'[c] = IF n = 0 THEN round.now ELSE started[c]
        /\ \A d \in Cards \ {c} : started'[d] = started[d]
    BY <1>0, <2>1 DEF Count, TypeOK
  <2>4. ASSUME TimeIsOrdered, DaysArePaid(c) PROVE DaysArePaid(c)'
    <3>1. Owes(c) /\ c \notin HalfReset /\ round.now \in 1..day
      BY <1>0, <2>1, <2>4 DEF DaysArePaid, InRound, TimeIsOrdered
    <3>2. c \notin HalfReset' BY <2>1, <3>1 DEF HalfReset
    <3>3. started'[c] \in 1..round.now /\ n + round.num = round.now - started'[c] + 1
      BY <1>0, <1>1, <2>3, <3>1 DEF Owes
    <3>4. round.num > 0 /\ n < MONTH_CARD_DAYS_NUM BY <3>1 DEF Owes
    <3>5. CASE n + 1 >= MONTH_CARD_DAYS_NUM \/ round.num = 1
      <4>1. n + 1 = Capped(round.now - started'[c] + 1)
        BY <1>0, <1>1, <1>3, <3>3, <3>4, <3>5 DEF Capped
      <4>2. PaidTo(c, round.now)' BY <2>1, <2>2, <3>3, <4>1 DEF PaidTo, Capped
      <4>. QED BY <1>1, <2>1, <2>2, <3>2, <3>5, <4>2 DEF DaysArePaid
    <3>6. CASE ~(n + 1 >= MONTH_CARD_DAYS_NUM \/ round.num = 1)
      <4>1. round.num - 1 > 0 /\ n + 1 < MONTH_CARD_DAYS_NUM /\ n + 1 # 0
        BY <1>0, <1>1, <1>3, <3>4, <3>6
      <4>2. (n + 1) + (round.num - 1) = round.now - started'[c] + 1
        BY <1>0, <1>1, <3>3
      <4>3. Owes(c)' BY <2>1, <2>2, <3>3, <3>6, <4>1, <4>2 DEF Owes
      <4>. QED BY <2>1, <3>2, <3>6, <4>3 DEF DaysArePaid
    <3>. QED BY <3>5, <3>6
  <2>. QED BY <1>0, <2>1, <2>2, <2>3, <2>4, PayingRound DEF InRound
<1>12. CASE SetLastAwardTime
  <2>1. /\ round.step = "set" /\ round' = NextCard
        /\ UNCHANGED <<started, charger, day, crashes, raced>>
    BY <1>12 DEF SetLastAwardTime, history
  <2>2. /\ pays'[c].SendMailNum = pays[c].SendMailNum /\ pays'[c].LastAwardTime = round.now
        /\ \A d \in Cards \ {c} : pays'[d] = pays[d]
    BY <1>0, <1>12 DEF SetLastAwardTime, Pay
  <2>3. ASSUME DaysArePaid(c) PROVE DaysArePaid(c)'
    <3>1. pays[c].SendMailNum > 0 /\ PaidTo(c, round.now) /\ c \notin HalfReset
      BY <1>0, <2>1, <2>3 DEF DaysArePaid, InRound
    <3>2. c \notin HalfReset' BY <2>1, <3>1 DEF HalfReset
    <3>3. Settled(c)' BY <1>1, <2>1, <2>2, <3>1 DEF Settled, PaidTo
    <3>. QED BY <1>2, <2>1, <3>2, <3>3 DEF DaysArePaid
  <2>. QED BY <1>0, <1>2, <2>1, <2>2, <2>3, PayingRound DEF InRound
<1>. QED BY <1>4, <1>5, <1>6, <1>7, <1>8, <1>9, <1>10, <1>11, <1>12 DEF ManagerStep

LEMMA NextDays == ASSUME TypeOK, RowsAreSound, DaysInv, [Next]_vars PROVE DaysInv'
<1>1. CASE NextDay
  <2>1. UNCHANGED <<pays, started, charger, round, crashes, raced>> /\ day' = day + 1
    BY <1>1 DEF NextDay, row, history
  <2>2. day \in Nat /\ \A c \in Cards : pays[c].LastAwardTime \in Nat
    BY CardFields, CardsAssumption, BoundsAssumption DEF TypeOK
  <2>3. TimeIsOrdered => TimeIsOrdered' BY <2>1, <2>2 DEF TimeIsOrdered, InRound
  <2>4. \A c \in Cards : DaysArePaid(c) => DaysArePaid(c)'
    BY <2>1 DEF DaysArePaid, Settled, Owes, PaidTo, HalfReset, InRound
  <2>. QED BY <2>1, <2>3, <2>4 DEF DaysInv
<1>2. CASE SaveRow \/ UNCHANGED vars
  <2>1. UNCHANGED <<pays, started, charger, round, day, crashes, raced>>
    BY <1>2 DEF SaveRow, vars, row, history
  <2>2. \A d \in Cards : d \in HalfReset' <=> d \in HalfReset BY <2>1 DEF HalfReset
  <2>. QED BY <2>1, <2>2, FrameKeeps
<1>3. CASE Restart
  <2>1. crashes' # 0 BY <1>3 DEF Restart, TypeOK
  <2>. QED BY <2>1 DEF DaysInv
<1>. QED BY <1>1, <1>2, <1>3, ChargeDays, ChargerDays, ManagerDays DEF Next, Quiet

(***************************************************************************)
(* _process_send_mails: until a crash, a card that was not bought in the   *)
(* manager's round has paid a mail for each day from its first to its      *)
(* LastAwardTime, the days without a round included.                       *)
(***************************************************************************)
THEOREM EveryDayIsPaid == Spec => []PaysByTheDay
<1>1. Init => DaysInv
  <2>. SUFFICES ASSUME Init PROVE DaysInv OBVIOUS
  <2>1. TimeIsOrdered BY DEF Init, TimeIsOrdered, InRound, NoPay
  <2>2. HalfReset = {} BY DEF Init, HalfReset, Idle
  <2>3. \A c \in Cards : Settled(c) BY DEF Init, Settled, NoPay
  <2>4. \A c \in Cards : DaysArePaid(c) BY <2>2, <2>3 DEF Init, DaysArePaid
  <2>. QED BY <2>1, <2>4 DEF DaysInv
<1>2. BoughtInv /\ DaysInv /\ [Next]_vars => DaysInv' BY NextDays DEF BoughtInv
<1>3. DaysInv => PaysByTheDay
  <2>. SUFFICES ASSUME DaysInv, crashes = 0, ~InRound, NEW c \in Cards \ raced,
                       pays[c].SendMailNum > 0
       PROVE  pays[c].SendMailNum = Capped(pays[c].LastAwardTime - started[c] + 1)
    BY DEF PaysByTheDay
  <2>1. Settled(c) BY DEF DaysInv, DaysArePaid, InRound
  <2>. QED BY <2>1 DEF Settled, PaidTo
<1>4. Init => BoughtInv BY InitBought
<1>5. BoughtInv /\ [Next]_vars => BoughtInv' BY NextBought
<1>. QED BY <1>1, <1>2, <1>3, <1>4, <1>5, PTL DEF Spec

=============================================================================
