------------------------------ MODULE PayProofs ------------------------------
(***************************************************************************)
(* The safety of purchases, for any number of players, requests and orders *)
(* and any number of breaks and crashes.                                   *)
(***************************************************************************)
EXTENDS Pay, TLAPS

Jobs == {Idle} \cup [step : Steps, player : Players, order : Orders]

-----------------------------------------------------------------------------
(* What an action does to the requests.                                    *)

LEMMA ActiveJob ==
  ASSUME TypeOK, NEW r \in Requests, req[r].step # "idle"
  PROVE  /\ req[r] \in [step : Steps, player : Players, order : Orders]
         /\ Order(r) \in Orders /\ Payer(r) \in Players
BY DEF TypeOK, Idle, Order, Payer

LEMMA GoToJob ==
  ASSUME TypeOK, NEW r \in Requests, req[r].step # "idle", NEW step \in Steps, GoTo(r, step)
  PROVE  /\ req' \in [Requests -> Jobs]
         /\ req'[r].step = step /\ Order(r)' = Order(r) /\ Payer(r)' = Payer(r)
         /\ \A s \in Requests \ {r} : req'[s] = req[s]
<1>1. req[r] \in [step : Steps, player : Players, order : Orders] BY ActiveJob
<1>2. req' = [req EXCEPT ![r] = [req[r] EXCEPT !.step = step]] BY DEF GoTo
<1>3. [req[r] EXCEPT !.step = step] \in [step : Steps, player : Players, order : Orders] BY <1>1
<1>4. req \in [Requests -> Jobs] BY DEF TypeOK, Jobs
<1>. QED BY <1>1, <1>2, <1>3, <1>4 DEF Jobs, Order, Payer

LEMMA IdleJob ==
  ASSUME TypeOK, NEW r \in Requests, req' = [req EXCEPT ![r] = Idle]
  PROVE  /\ req' \in [Requests -> Jobs] /\ req'[r] = Idle /\ Idle.step = "idle"
         /\ \A s \in Requests \ {r} : req'[s] = req[s]
BY DEF TypeOK, Jobs, Idle

LEMMA RequestJob ==
  ASSUME TypeOK, NEW r \in Requests, Request(r)
  PROVE  /\ req' \in [Requests -> Jobs]
         /\ \A s \in Requests \ {r} : req'[s] = req[s]
<1>1. CASE Charge(r)
  <2>1. PICK p \in Players, o \in Orders :
             req' = [req EXCEPT ![r] = [step |-> "take", player |-> p, order |-> o]]
    BY <1>1 DEF Charge
  <2>. QED BY <2>1 DEF TypeOK, Jobs, Steps
<1>2. CASE ~Charge(r)
  <2>1. req[r].step # "idle"
    BY <1>2 DEF Request, TakePaying, WrongProduct, CheckExists, CheckFails, Verified,
                NotVerified, SaveOrder, SaveFails, ChargeSave, ReleasePaying, PostTalkingData,
                PostPanics, Reward, At, LookingUp
  <2>2. (\E step \in Steps : GoTo(r, step)) \/ req' = [req EXCEPT ![r] = Idle]
    BY <1>2 DEF Request, TakePaying, WrongProduct, CheckExists, CheckFails, Verified,
                NotVerified, SaveOrder, SaveFails, ChargeSave, ReleasePaying, PostTalkingData,
                PostPanics, Reward, Refuse, Unused, Steps
  <2>. QED BY <2>1, <2>2, GoToJob, IdleJob
<1>. QED BY <1>1, <1>2

-----------------------------------------------------------------------------
(* Every variable keeps its type.                                          *)

LEMMA InitType == Init => TypeOK
BY BoundsAssumption DEF Init, TypeOK

LEMMA RequestType == ASSUME TypeOK, NEW r \in Requests, Request(r) PROVE TypeOK'
<1>1. req' \in [Requests -> Jobs] BY RequestJob
<1>2. req[r].step # "idle" => Order(r) \in Orders /\ Payer(r) \in Players BY ActiveJob
<1>3. \A v \in {0, 1} : [is_paying EXCEPT ![Payer(r)] = v] \in [Players -> {0, 1}]
  BY DEF TypeOK
<1>4. Charge(r) \/ req[r].step # "idle"
  BY DEF Request, TakePaying, WrongProduct, CheckExists, CheckFails, Verified, NotVerified,
         SaveOrder, SaveFails, ChargeSave, ReleasePaying, PostTalkingData, PostPanics, Reward,
         At, LookingUp
<1>5. is_paying' \in [Players -> {0, 1}]
  BY <1>3 DEF TypeOK, Request, Charge, TakePaying, WrongProduct, CheckExists, CheckFails,
         Verified, NotVerified, SaveOrder, SaveFails, ChargeSave, ReleasePaying, PostTalkingData,
         PostPanics, Reward, Refuse, Release, Unused
<1>6. given' \in [Players -> [Orders -> Nat]]
  <2>1. CASE Reward(r)
    <3>1. Order(r) \in Orders /\ Payer(r) \in Players BY <1>2, <2>1 DEF Reward, At
    <3>2. [given[Payer(r)] EXCEPT ![Order(r)] = @ + 1] \in [Orders -> Nat]
      BY <3>1 DEF TypeOK
    <3>3. given' = [given EXCEPT ![Payer(r)] = [given[Payer(r)] EXCEPT ![Order(r)] = @ + 1]]
      BY <2>1 DEF Reward
    <3>. QED BY <3>1, <3>2, <3>3 DEF TypeOK
  <2>2. CASE ~Reward(r)
    BY <2>2 DEF TypeOK, Request, Charge, TakePaying, WrongProduct, CheckExists, CheckFails,
         Verified, NotVerified, SaveOrder, SaveFails, ChargeSave, ReleasePaying, PostTalkingData,
         PostPanics, history
  <2>. QED BY <2>1, <2>2
<1>7. /\ redis' \subseteq Orders /\ payRows' \subseteq Orders
      /\ unsure' \subseteq Orders /\ shared' \subseteq Orders /\ panicked' \subseteq Orders
  BY <1>2, <1>4 DEF TypeOK, Request, Charge, TakePaying, WrongProduct, CheckExists, CheckFails,
         Verified, NotVerified, SaveOrder, SaveFails, ChargeSave, ReleasePaying, PostTalkingData,
         PostPanics, Reward, history
<1>8. stuck' \subseteq Players /\ made' \in 0..MaxRequests
  BY <1>2, <1>4, BoundsAssumption DEF TypeOK, Request, Charge, TakePaying, WrongProduct,
         CheckExists, CheckFails, Verified, NotVerified, SaveOrder, SaveFails, ChargeSave,
         ReleasePaying, PostTalkingData, PostPanics, Reward, history
<1>9. UNCHANGED <<link, stored, lost, breaks, crashes>>
  BY DEF Request, Charge, TakePaying, WrongProduct, CheckExists, CheckFails, Verified,
         NotVerified, SaveOrder, SaveFails, ChargeSave, ReleasePaying, PostTalkingData,
         PostPanics, Reward, history
<1>. QED BY <1>1, <1>5, <1>6, <1>7, <1>8, <1>9 DEF TypeOK, Jobs

LEMMA OutsideType ==
  ASSUME TypeOK, (\E p \in Players : SaveRow(p)) \/ Break \/ Reconnect \/ Crash
  PROVE  TypeOK'
<1>1. CASE \E p \in Players : SaveRow(p) BY <1>1 DEF SaveRow, TypeOK, history
<1>2. CASE Break
  <2>1. link' \in BOOLEAN BY <1>2 DEF Break
  <2>2. breaks' \in 0..MaxBreaks BY <1>2, BoundsAssumption DEF Break, TypeOK
  <2>. QED BY <1>2, <2>1, <2>2 DEF Break, TypeOK
<1>3. CASE Reconnect BY <1>3 DEF Reconnect, TypeOK, history
<1>4. CASE Crash
  <2>1. req' \in [Requests -> Jobs] BY <1>4 DEF Crash, Jobs
  <2>. QED BY <1>4, <2>1, BoundsAssumption DEF Crash, TypeOK, Jobs
<1>. QED BY <1>1, <1>2, <1>3, <1>4

LEMMA NextType == ASSUME TypeOK, [Next]_vars PROVE TypeOK'
<1>1. CASE UNCHANGED vars BY <1>1 DEF vars, history, TypeOK
<1>. QED BY <1>1, RequestType, OutsideType DEF Next

\* Every variable keeps its type (TypeOK): a request in verify_google_purchase_
\* data or verify_apple_purchase_data always has a player and an order.
THEOREM TypeCorrect == Spec => []TypeOK
BY InitType, NextType, PTL DEF Spec

-----------------------------------------------------------------------------
(* is_paying is held exactly by one request between look-up and record.    *)

\* A request that is inside before and after, or outside before and after.
LEMMA StaysHeld ==
  ASSUME HeldInv, NEW r \in Requests, \A s \in Requests \ {r} : req'[s] = req[s],
         Between(r) <=> Between(r)', Between(r) => Payer(r)' = Payer(r),
         UNCHANGED <<is_paying, stuck>>
  PROVE  PayingIsHeld' /\ StuckIsAlone'
<1>1. \A s \in Requests : Between(s)' <=> Between(s) BY DEF Between
<1>2. \A s \in Requests : Between(s) => Payer(s)' = Payer(s) BY DEF Payer, Order
<1>. QED BY <1>1, <1>2 DEF HeldInv, PayingIsHeld, StuckIsAlone

\* A request that goes inside takes the flag.
LEMMA TakesHeld ==
  ASSUME HeldInv, NEW r \in Requests, \A s \in Requests \ {r} : req'[s] = req[s],
         Payer(r) \in Players, is_paying[Payer(r)] = 0, ~Between(r),
         is_paying' = [is_paying EXCEPT ![Payer(r)] = 1],
         \/ Between(r)' /\ Payer(r)' = Payer(r) /\ stuck' = stuck
         \/ ~Between(r)' /\ stuck' = stuck \cup {Payer(r)}
  PROVE  PayingIsHeld' /\ StuckIsAlone'
<1>1. \A s \in Requests \ {r} : (Between(s)' <=> Between(s)) /\ Payer(s)' = Payer(s)
  BY DEF Between, Payer, Order
<1>2. Payer(r) \notin stuck /\ \A s \in Requests : Between(s) => Payer(s) # Payer(r)
  BY DEF HeldInv, PayingIsHeld
<1>3. is_paying'[Payer(r)] = 1 /\ \A p \in Players \ {Payer(r)} : is_paying'[p] = is_paying[p]
  BY DEF HeldInv, TypeOK
<1>. QED BY <1>1, <1>2, <1>3 DEF HeldInv, PayingIsHeld, StuckIsAlone

\* A request that goes outside gives it back.
LEMMA LeavesHeld ==
  ASSUME HeldInv, NEW r \in Requests, \A s \in Requests \ {r} : req'[s] = req[s],
         Between(r), ~Between(r)', Payer(r) \in Players, Release(r), stuck' = stuck
  PROVE  PayingIsHeld' /\ StuckIsAlone'
<1>1. \A s \in Requests \ {r} : (Between(s)' <=> Between(s)) /\ Payer(s)' = Payer(s)
  BY DEF Between, Payer, Order
<1>2. Payer(r) \notin stuck /\ \A s \in Requests \ {r} : Between(s) => Payer(s) # Payer(r)
  BY DEF HeldInv, PayingIsHeld, StuckIsAlone
<1>3. is_paying'[Payer(r)] = 0 /\ \A p \in Players \ {Payer(r)} : is_paying'[p] = is_paying[p]
  BY DEF HeldInv, TypeOK, Release
<1>. QED BY <1>1, <1>2, <1>3 DEF HeldInv, PayingIsHeld, StuckIsAlone

\* The places in a request that a step leads to.
LEMMA InsideSteps ==
  ASSUME TypeOK, NEW r \in Requests, req[r].step \notin {"idle", "take", "post", "reward"}
  PROVE  Between(r)
<1>1. req[r] \in [step : Steps, player : Players, order : Orders] BY ActiveJob
<1>. QED BY <1>1 DEF Between, Steps

LEMMA RequestHeld ==
  ASSUME HeldInv, NEW r \in Requests, Request(r) PROVE PayingIsHeld' /\ StuckIsAlone'
<1>. USE DEF At
<1>1. TypeOK /\ \A s \in Requests \ {r} : req'[s] = req[s] BY RequestJob DEF HeldInv
<1>2. CASE Charge(r)
  <2>1. PICK p \in Players, o \in Orders :
             req' = [req EXCEPT ![r] = [step |-> "take", player |-> p, order |-> o]]
    BY <1>2 DEF Charge
  <2>2. ~Between(r) /\ ~Between(r)' BY <1>1, <1>2, <2>1 DEF Charge, Between, TypeOK, Steps
  <2>. QED BY <1>1, <1>2, <2>2, StaysHeld DEF Charge
<1>3. CASE TakePaying(r)
  <2>1. req[r].step # "idle" /\ ~Between(r) BY <1>3 DEF TakePaying, Between
  <2>2. Payer(r) \in Players BY <1>1, <2>1, ActiveJob
  <2>3. CASE is_paying[Payer(r)] = 1
    <3>1. ~Between(r)' BY <1>1, <1>3, <2>3, IdleJob DEF TakePaying, Between, Steps
    <3>. QED BY <1>1, <1>3, <2>1, <2>3, <3>1, StaysHeld DEF TakePaying, history
  <2>4. CASE is_paying[Payer(r)] # 1
    <3>1. is_paying[Payer(r)] = 0 BY <1>1, <2>2, <2>4 DEF TypeOK
    <3>2. PICK step \in {"exists", "verify"} : GoTo(r, step)
      BY <1>3, <2>4 DEF TakePaying
    <3>3. step \in Steps BY <3>2 DEF Steps
    <3>4. Between(r)' /\ Payer(r)' = Payer(r)
      BY <1>1, <2>1, <3>2, <3>3, GoToJob DEF Between, Steps
    <3>. QED BY <1>1, <1>3, <2>1, <2>2, <2>4, <3>1, <3>4, TakesHeld DEF TakePaying, history
  <2>. QED BY <2>3, <2>4
<1>4. CASE WrongProduct(r)
  <2>1. req[r].step # "idle" /\ ~Between(r) BY <1>4 DEF WrongProduct, Between
  <2>2. Payer(r) \in Players BY <1>1, <2>1, ActiveJob
  <2>3. ~Between(r)' BY <1>1, <1>4, IdleJob DEF WrongProduct, Between, Steps
  <2>. QED BY <1>1, <1>4, <2>1, <2>2, <2>3, TakesHeld DEF WrongProduct
<1>5. CASE CheckExists(r) \/ CheckFails(r) \/ Verified(r) \/ NotVerified(r) \/ SaveOrder(r)
           \/ SaveFails(r) \/ ChargeSave(r)
  <2>1. Between(r)
    BY <1>1, <1>5, InsideSteps
    DEF CheckExists, CheckFails, Verified, NotVerified, SaveOrder, SaveFails, ChargeSave, LookingUp
  <2>2. req[r].step # "idle" /\ stuck' = stuck
    BY <1>5 DEF CheckExists, CheckFails, Verified, NotVerified, SaveOrder, SaveFails, ChargeSave,
                LookingUp, history
  <2>3. \/ Refuse(r)
        \/ /\ is_paying' = is_paying
           /\ \E step \in Steps \ {"take", "post", "reward"} : GoTo(r, step)
    BY <1>5 DEF CheckExists, CheckFails, Verified, NotVerified, SaveOrder, SaveFails, ChargeSave,
                Unused, Steps
  <2>4. CASE Refuse(r)
    <3>1. ~Between(r)' BY <1>1, <2>4, IdleJob DEF Refuse, Between, Steps
    <3>2. Payer(r) \in Players BY <1>1, <2>2, ActiveJob
    <3>. QED BY <1>1, <2>1, <2>2, <2>4, <3>1, <3>2, LeavesHeld DEF Refuse
  <2>5. CASE /\ is_paying' = is_paying
             /\ \E step \in Steps \ {"take", "post", "reward"} : GoTo(r, step)
    <3>1. PICK step \in Steps \ {"take", "post", "reward"} : GoTo(r, step) BY <2>5
    <3>2. Between(r)' /\ Payer(r)' = Payer(r) BY <1>1, <2>2, <3>1, GoToJob DEF Between
    <3>. QED BY <1>1, <2>1, <2>2, <2>5, <3>2, StaysHeld
  <2>. QED BY <2>3, <2>4, <2>5
<1>6. CASE ReleasePaying(r)
  <2>1. req[r].step # "idle" /\ Between(r) BY <1>6 DEF ReleasePaying, Between, Steps
  <2>2. Payer(r) \in Players BY <1>1, <2>1, ActiveJob
  <2>3. ~Between(r)'
    BY <1>1, <1>6, <2>1, GoToJob DEF ReleasePaying, Between, Steps
  <2>. QED BY <1>1, <1>6, <2>1, <2>2, <2>3, LeavesHeld DEF ReleasePaying, history
<1>7. CASE PostTalkingData(r) \/ PostPanics(r) \/ Reward(r)
  <2>1. ~Between(r) BY <1>7 DEF PostTalkingData, PostPanics, Reward, Between
  <2>2. ~Between(r)'
    <3>1. CASE PostTalkingData(r)
      BY <1>1, <3>1, GoToJob DEF PostTalkingData, Between, Steps
    <3>2. CASE PostPanics(r) \/ Reward(r)
      BY <1>1, <3>2, IdleJob DEF PostPanics, Reward, Between, Steps
    <3>. QED BY <1>7, <3>1, <3>2
  <2>. QED BY <1>1, <1>7, <2>1, <2>2, StaysHeld DEF PostTalkingData, PostPanics, Reward, history
<1>. QED BY <1>2, <1>3, <1>4, <1>5, <1>6, <1>7 DEF Request

LEMMA NextHeld == ASSUME HeldInv, [Next]_vars PROVE HeldInv'
<1>. USE DEF HeldInv
<1>1. TypeOK' BY NextType
<1>2. CASE Crash
  <2>1. \A r \in Requests : req'[r].step = "idle" BY <1>2 DEF Crash, Idle
  <2>2. \A r \in Requests : ~Between(r)' BY <2>1 DEF Between, Steps
  <2>3. stuck' = {} /\ \A p \in Players : is_paying'[p] # 1 BY <1>2 DEF Crash
  <2>. QED BY <1>1, <2>2, <2>3 DEF PayingIsHeld, StuckIsAlone
<1>3. CASE (\E p \in Players : SaveRow(p)) \/ Break \/ Reconnect \/ UNCHANGED vars
  <2>1. UNCHANGED <<req, is_paying, stuck>>
    BY <1>3 DEF SaveRow, Break, Reconnect, vars, history
  <2>. QED BY <1>1, <2>1 DEF PayingIsHeld, StuckIsAlone, Between, Payer, Order
<1>. QED BY <1>1, <1>2, <1>3, RequestHeld DEF Next

LEMMA InitHeld == Init => HeldInv
<1>. SUFFICES ASSUME Init PROVE HeldInv OBVIOUS
<1>1. \A r \in Requests : req[r].step = "idle" BY DEF Init, Idle
<1>2. \A r \in Requests : ~Between(r) BY <1>1 DEF Between, Steps
<1>. QED BY <1>2, InitType DEF Init, HeldInv, PayingIsHeld, StuckIsAlone

\* At most one request of a player is past is_paying, and the flag is set for
\* nothing else but a receipt of another product (PayingIsHeld).
THEOREM FlagIsHeld == Spec => []PayingIsHeld
<1>1. HeldInv => PayingIsHeld BY DEF HeldInv
<1>. QED BY <1>1, InitHeld, NextHeld, PTL DEF Spec

-----------------------------------------------------------------------------
(* An order is rewarded once, or by two players who met on it.             *)

\* Steps that neither record an order nor reward one.
LEMMA QuietOrder ==
  ASSUME NEW o \in Orders, OrderInv(o), NEW r \in Requests,
         \A s \in Requests \ {r} : req'[s] = req[s],
         UNCHANGED <<redis, given, stored, shared>>,
         Cleared(r)' /\ Order(r)' = o =>
           o \notin redis \/ (Cleared(r) /\ Order(r) = o /\ Payer(r)' = Payer(r)),
         Bought(r)' /\ Order(r)' = o => Bought(r) /\ Order(r) = o /\ Payer(r)' = Payer(r)
  PROVE  OrderInv(o)'
<1>1. \A s \in Requests \ {r} : /\ Cleared(s)' <=> Cleared(s)
                                /\ Bought(s)' <=> Bought(s)
                                /\ Order(s)' = Order(s) /\ Payer(s)' = Payer(s)
  BY DEF Cleared, Bought, Order, Payer, At
<1>2. \A s \in Requests : Bought(s)' /\ Order(s)' = o =>
                           Bought(s) /\ Order(s) = o /\ Payer(s)' = Payer(s)
  BY <1>1
<1>3. \A s \in Requests : Cleared(s)' /\ Order(s)' = o =>
        o \notin redis \/ (Cleared(s) /\ Order(s) = o /\ Payer(s)' = Payer(s))
  BY <1>1
<1>4. \A p \in Players : Claims(p, o)' => Claims(p, o) BY <1>2 DEF Claims
<1>5. ASSUME NEW p \in Players PROVE PlayerInv(p, o)'
  <2>1. PlayerInv(p, o) BY DEF OrderInv
  <2>. QED BY <1>2, <1>3, <1>4, <2>1 DEF PlayerInv
<1>6. o \notin shared' => AloneInv(o)' BY <1>3, <1>4 DEF OrderInv, AloneInv
<1>. QED BY <1>5, <1>6 DEF OrderInv

LEMMA LooksUp ==
  ASSUME HeldInv, NEW o \in Orders, OrderInv(o), NEW r \in Requests, o \notin unsure',
         \A s \in Requests \ {r} : req'[s] = req[s],
         CheckExists(r) \/ CheckFails(r) \/ Verified(r) \/ SaveFails(r)
  PROVE  OrderInv(o)'
<1>. USE DEF At
<1>1. req[r].step # "idle" /\ ~Bought(r)
  BY DEF CheckExists, CheckFails, Verified, SaveFails, LookingUp, Bought
<1>2. TypeOK /\ Order(r) \in Orders BY <1>1, ActiveJob DEF HeldInv
<1>3. UNCHANGED <<redis, given, stored, shared>>
  BY DEF CheckExists, CheckFails, Verified, SaveFails, history
<1>4. CASE Refuse(r)
  <2>1. ~Cleared(r)' /\ ~Bought(r)' BY <1>2, <1>4, IdleJob DEF Refuse, Cleared, Bought
  <2>. QED BY <1>3, <2>1, QuietOrder
<1>5. CASE ~Refuse(r)
  <2>1. PICK step \in Steps : GoTo(r, step)
    BY <1>5 DEF CheckExists, CheckFails, Verified, SaveFails, Unused, Steps
  <2>2. req'[r].step = step /\ Order(r)' = Order(r) /\ Payer(r)' = Payer(r)
    BY <1>1, <1>2, <2>1, GoToJob
  <2>3. CASE Order(r) # o BY <1>3, <2>2, <2>3, QuietOrder
  <2>4. CASE Order(r) = o
    <3>1. CheckExists(r) \/ Verified(r) BY <2>4 DEF CheckFails, SaveFails
    <3>2. ~Bought(r)'
      <4>1. step \in {"verify", "save", "sandbox", "exists", "again"}
        BY <1>1, <1>2, <1>5, <2>1, <2>2, <3>1, GoToJob DEF CheckExists, Verified, Unused, Steps
      <4>. QED BY <2>2, <4>1 DEF Bought
    <3>3. Cleared(r)' => o \notin redis \/ Cleared(r)
      <4>1. CASE CheckExists(r) BY <1>5, <2>4, <4>1 DEF CheckExists
      <4>2. CASE Verified(r)
        BY <1>1, <1>2, <2>1, <2>2, <4>2, GoToJob DEF Verified, Cleared, Steps
      <4>. QED BY <3>1, <4>1, <4>2
    <3>. QED BY <1>3, <2>2, <2>4, <3>2, <3>3, QuietOrder
  <2>. QED BY <2>3, <2>4
<1>. QED BY <1>4, <1>5

\* The order is recorded: no other request of the player looked it up, and
\* one of another player only where the two met.
LEMMA Records ==
  ASSUME HeldInv, NEW o \in Orders, OrderInv(o), NEW r \in Requests,
         \A s \in Requests \ {r} : req'[s] = req[s], SaveOrder(r)
  PROVE  OrderInv(o)'
<1>1. TypeOK /\ req[r].step = "save" BY DEF HeldInv, SaveOrder, At
<1>2. req'[r].step = "charge_save" /\ Order(r)' = Order(r) /\ Payer(r)' = Payer(r)
  BY <1>1, GoToJob DEF SaveOrder, Steps
<1>3. \A s \in Requests \ {r} : /\ Cleared(s)' <=> Cleared(s)
                                /\ Bought(s)' <=> Bought(s)
                                /\ Order(s)' = Order(s) /\ Payer(s)' = Payer(s)
  BY DEF Cleared, Bought, Order, Payer, At
<1>4. ~Cleared(r)' /\ Bought(r)' /\ Cleared(r) /\ ~Bought(r)
  BY <1>1, <1>2 DEF Cleared, Bought, At
<1>5. /\ redis' = redis \cup {Order(r)} /\ given' = given /\ stored' = stored
      /\ shared' = IF Met(r) THEN shared \cup {Order(r)} ELSE shared
  BY DEF SaveOrder
<1>6. \A q \in Players : q # Payer(r) \/ Order(r) # o => (Claims(q, o)' <=> Claims(q, o))
  BY <1>2, <1>3, <1>4, <1>5 DEF Claims
<1>7. CASE Order(r) # o
  <2>1. (o \in redis' <=> o \in redis) /\ (o \in shared' <=> o \in shared) BY <1>5, <1>7
  <2>2. ASSUME NEW p \in Players PROVE PlayerInv(p, o)'
    <3>1. PlayerInv(p, o) BY DEF OrderInv
    <3>. QED BY <1>2, <1>3, <1>5, <1>6, <1>7, <2>1, <3>1 DEF PlayerInv
  <2>3. o \notin shared' => AloneInv(o)'
    BY <1>2, <1>3, <1>6, <1>7, <2>1 DEF OrderInv, AloneInv
  <2>. QED BY <2>2, <2>3 DEF OrderInv
<1>8. CASE Order(r) = o
  <2>1. o \in redis' /\ Payer(r) \in Players BY <1>1, <1>5, <1>8, ActiveJob
  <2>2. \A s \in Requests \ {r} : Cleared(s) => Payer(s) # Payer(r)
    <3>1. \A s \in Requests : Cleared(s) => Between(s) BY DEF Cleared, Between, Steps, At
    <3>. QED BY <1>4, <3>1 DEF HeldInv, PayingIsHeld
  <2>3. ~Claims(Payer(r), o)
    BY <1>4, <1>8, <2>1 DEF OrderInv, PlayerInv
  <2>4. ASSUME NEW p \in Players PROVE PlayerInv(p, o)'
    <3>1. PlayerInv(p, o) BY DEF OrderInv
    <3>2. CASE p # Payer(r)
      BY <1>2, <1>3, <1>4, <1>5, <1>6, <2>1, <3>1, <3>2 DEF PlayerInv
    <3>3. CASE p = Payer(r)
      <4>1. given[p][o] = 0 BY <1>1, <2>3, <3>3 DEF Claims, TypeOK
      <4>2. \A s \in Requests : Bought(s) /\ Payer(s) = p => Order(s) # o BY <2>3, <3>3 DEF Claims
      <4>3. \A s \in Requests : ~(Cleared(s)' /\ Payer(s)' = p) BY <1>3, <1>4, <2>2, <3>3
      <4>4. \A s \in Requests : Bought(s)' /\ Payer(s)' = p /\ Order(s)' = o => s = r
        BY <1>3, <4>2
      <4>. QED BY <1>5, <2>1, <3>1, <4>1, <4>3, <4>4 DEF PlayerInv
    <3>. QED BY <3>2, <3>3
  <2>5. o \notin shared' => AloneInv(o)'
    <3>. SUFFICES ASSUME o \notin shared' PROVE AloneInv(o)' OBVIOUS
    <3>1. ~Met(r) /\ AloneInv(o) BY <1>5, <1>8 DEF OrderInv
    <3>2. \A s \in Requests : ~(Cleared(s)' /\ Order(s)' = o)
      BY <1>3, <1>4, <1>8, <2>2, <3>1 DEF Met
    <3>3. o \notin redis BY <1>4, <1>8, <3>1 DEF AloneInv
    <3>4. \A q \in Players : ~Claims(q, o) BY <3>3 DEF OrderInv, PlayerInv
    <3>. QED BY <1>6, <3>2, <3>4 DEF AloneInv
  <2>. QED BY <2>4, <2>5 DEF OrderInv
<1>. QED BY <1>7, <1>8

\* The player's only request that recorded the order is rewarded for it.
LEMMA Rewards ==
  ASSUME HeldInv, NEW o \in Orders, OrderInv(o), NEW r \in Requests,
         \A s \in Requests \ {r} : req'[s] = req[s], Reward(r)
  PROVE  OrderInv(o)'
<1>1. TypeOK /\ Bought(r) /\ req[r].step # "idle" BY DEF HeldInv, Reward, At, Bought
<1>2. Order(r) \in Orders /\ Payer(r) \in Players BY <1>1, ActiveJob
<1>3. ~Cleared(r)' /\ ~Bought(r)' BY <1>1, IdleJob DEF Reward, Cleared, Bought, At
<1>4. \A s \in Requests \ {r} : /\ Cleared(s)' <=> Cleared(s)
                                /\ Bought(s)' <=> Bought(s)
                                /\ Order(s)' = Order(s) /\ Payer(s)' = Payer(s)
  BY DEF Cleared, Bought, Order, Payer, At
<1>5. UNCHANGED <<redis, stored, shared>> BY DEF Reward, history
<1>6. \A q \in Players :
        given'[q][o] = IF q = Payer(r) /\ Order(r) = o THEN given[q][o] + 1 ELSE given[q][o]
  BY <1>1, <1>2 DEF Reward, TypeOK
<1>7. \A q \in Players : given[q][o] \in Nat /\ stored[q][o] \in Nat BY <1>1 DEF TypeOK
<1>8. \A q \in Players : Claims(q, o)' => Claims(q, o) BY <1>1, <1>4, <1>3, <1>6 DEF Claims
<1>9. ASSUME NEW p \in Players PROVE PlayerInv(p, o)'
  <2>1. PlayerInv(p, o) BY DEF OrderInv
  <2>2. CASE p = Payer(r) /\ Order(r) = o
    <3>1. given[p][o] = 0 /\ Claims(p, o) BY <1>1, <2>1, <2>2 DEF PlayerInv, Claims
    <3>2. o \in redis /\ given'[p][o] = 1 /\ stored'[p][o] <= 1
      BY <1>5, <1>6, <1>7, <2>1, <2>2, <3>1 DEF PlayerInv
    <3>3. \A s \in Requests : Payer(s)' = p /\ Order(s)' = o => ~Cleared(s)' /\ ~Bought(s)'
      BY <1>1, <1>3, <1>4, <2>1, <2>2, <3>1 DEF PlayerInv
    <3>. QED BY <1>5, <3>2, <3>3 DEF PlayerInv
  <2>3. CASE ~(p = Payer(r) /\ Order(r) = o)
    <3>1. given'[p][o] = given[p][o] BY <1>6, <2>3
    <3>. QED BY <1>3, <1>4, <1>5, <1>8, <2>1, <3>1 DEF PlayerInv
  <2>. QED BY <2>2, <2>3
<1>10. o \notin shared' => AloneInv(o)' BY <1>3, <1>4, <1>5, <1>8 DEF OrderInv, AloneInv
<1>. QED BY <1>9, <1>10 DEF OrderInv

LEMMA RequestOrder ==
  ASSUME HeldInv, NEW o \in Orders, OrderInv(o), o \notin unsure', NEW r \in Requests, Request(r)
  PROVE  OrderInv(o)'
<1>. USE DEF At
<1>1. TypeOK /\ \A s \in Requests \ {r} : req'[s] = req[s] BY RequestJob DEF HeldInv
<1>2. CASE Charge(r) \/ TakePaying(r) \/ WrongProduct(r) \/ NotVerified(r) \/ PostPanics(r)
  <2>1. UNCHANGED <<redis, given, stored, shared>>
    BY <1>2 DEF Charge, TakePaying, WrongProduct, NotVerified, PostPanics, history
  <2>2. ~Cleared(r)' /\ ~Bought(r)'
    <3>1. CASE Charge(r)
      <4>1. req'[r].step = "take" BY <1>1, <3>1 DEF Charge, TypeOK
      <4>. QED BY <4>1 DEF Cleared, Bought
    <3>2. CASE req' = [req EXCEPT ![r] = Idle]
      BY <1>1, <3>2, IdleJob DEF Cleared, Bought
    <3>3. CASE TakePaying(r) /\ req' # [req EXCEPT ![r] = Idle]
      <4>1. GoTo(r, IF Order(r) \in Google THEN "exists" ELSE "verify") /\ req[r].step # "idle"
        BY <3>3 DEF TakePaying
      <4>2. CASE Order(r) \in Google
        <5>1. req'[r].step = "exists" BY <1>1, <4>1, <4>2, GoToJob DEF Steps
        <5>. QED BY <5>1 DEF Cleared, Bought
      <4>3. CASE Order(r) \notin Google
        <5>1. req'[r].step = "verify" /\ Order(r)' = Order(r)
          BY <1>1, <4>1, <4>3, GoToJob DEF Steps
        <5>. QED BY <4>3, <5>1 DEF Cleared, Bought
      <4>. QED BY <4>2, <4>3
    <3>. QED BY <1>2, <3>1, <3>2, <3>3 DEF WrongProduct, NotVerified, PostPanics, Refuse
  <2>. QED BY <1>1, <2>1, <2>2, QuietOrder
<1>3. CASE CheckExists(r) \/ CheckFails(r) \/ Verified(r) \/ SaveFails(r)
  BY <1>1, <1>3, LooksUp
<1>4. CASE SaveOrder(r) BY <1>1, <1>4, Records
<1>5. CASE ChargeSave(r) \/ ReleasePaying(r) \/ PostTalkingData(r)
  <2>1. /\ Bought(r) /\ req[r].step # "idle"
        /\ UNCHANGED <<redis, given, stored, shared>>
    BY <1>5 DEF ChargeSave, ReleasePaying, PostTalkingData, Bought, history
  <2>2. PICK step \in {"release", "post", "reward"} : GoTo(r, step)
    BY <1>5 DEF ChargeSave, ReleasePaying, PostTalkingData
  <2>3. ~Cleared(r)' /\ Order(r)' = Order(r) /\ Payer(r)' = Payer(r)
    BY <1>1, <2>1, <2>2, GoToJob DEF Cleared, Steps
  <2>. QED BY <1>1, <2>1, <2>3, QuietOrder
<1>6. CASE Reward(r) BY <1>1, <1>6, Rewards
<1>. QED BY <1>2, <1>3, <1>4, <1>5, <1>6 DEF Request

LEMMA OutsideOrder ==
  ASSUME TypeOK, NEW o \in Orders, OrderInv(o),
         (\E p \in Players : SaveRow(p)) \/ Break \/ Reconnect \/ Crash \/ UNCHANGED vars
  PROVE  OrderInv(o)'
<1>1. CASE \E p \in Players : SaveRow(p)
  <2>1. UNCHANGED <<req, redis, given, shared>> BY <1>1 DEF SaveRow, history
  <2>2. \A q \in Players : stored'[q][o] \in {given[q][o], stored[q][o]}
    BY <1>1 DEF SaveRow, TypeOK
  <2>3. \A q \in Players : given[q][o] \in Nat BY DEF TypeOK
  <2>4. \A q \in Players : PlayerInv(q, o)'
    BY <2>1, <2>2, <2>3 DEF OrderInv, PlayerInv, Claims, Cleared, Bought, Order, Payer, At
  <2>5. o \notin shared' => AloneInv(o)'
    BY <2>1 DEF OrderInv, AloneInv, Claims, Cleared, Bought, Order, Payer, At
  <2>. QED BY <2>4, <2>5 DEF OrderInv
<1>2. CASE Break \/ Reconnect \/ UNCHANGED vars
  <2>1. UNCHANGED <<req, redis, given, stored, shared>>
    BY <1>2 DEF Break, Reconnect, vars, history
  <2>. QED BY <2>1
    DEF OrderInv, PlayerInv, AloneInv, Claims, Cleared, Bought, Order, Payer, At
<1>3. CASE Crash
  <2>1. \A r \in Requests : req'[r].step = "idle" BY <1>3 DEF Crash, Idle
  <2>2. \A r \in Requests : ~Cleared(r)' /\ ~Bought(r)' BY <2>1 DEF Cleared, Bought, At
  <2>3. given' = stored /\ UNCHANGED <<redis, stored, shared>> BY <1>3 DEF Crash
  <2>4. \A q \in Players : given[q][o] \in Nat /\ stored[q][o] \in Nat BY DEF TypeOK
  <2>5. \A q \in Players : Claims(q, o)' => Claims(q, o)
    BY <2>2, <2>3, <2>4 DEF OrderInv, PlayerInv, Claims
  <2>6. ASSUME NEW p \in Players PROVE PlayerInv(p, o)'
    <3>1. PlayerInv(p, o) BY DEF OrderInv
    <3>. QED BY <2>2, <2>3, <2>4, <2>5, <3>1 DEF PlayerInv
  <2>7. o \notin shared' => AloneInv(o)' BY <2>2, <2>3, <2>5 DEF OrderInv, AloneInv
  <2>. QED BY <2>6, <2>7 DEF OrderInv
<1>. QED BY <1>1, <1>2, <1>3

LEMMA NextOnce == ASSUME OnceInv, [Next]_vars PROVE OnceInv'
<1>1. HeldInv /\ HeldInv' BY NextHeld DEF OnceInv
<1>2. unsure \subseteq unsure'
  BY DEF Next, Request, Charge, TakePaying, WrongProduct, CheckExists, CheckFails, Verified,
         NotVerified, SaveOrder, SaveFails, ChargeSave, ReleasePaying, PostTalkingData,
         PostPanics, Reward, SaveRow, Break, Reconnect, Crash, vars, history
<1>3. ASSUME NEW o \in Orders, o \notin unsure' PROVE OrderInv(o)'
  <2>1. OrderInv(o) BY <1>2, <1>3 DEF OnceInv
  <2>. QED BY <1>1, <1>3, <2>1, RequestOrder, OutsideOrder DEF Next, HeldInv
<1>. QED BY <1>1, <1>3 DEF OnceInv

LEMMA InitOnce == Init => OnceInv
<1>. SUFFICES ASSUME Init PROVE OnceInv OBVIOUS
<1>1. \A r \in Requests : req[r].step = "idle" BY DEF Init, Idle
<1>2. \A r \in Requests : ~Cleared(r) /\ ~Bought(r) BY <1>1 DEF Cleared, Bought, At
<1>3. \A p \in Players, o \in Orders : given[p][o] = 0 /\ stored[p][o] = 0 BY DEF Init
<1>4. \A p \in Players, o \in Orders : ~Claims(p, o) BY <1>2, <1>3 DEF Claims
<1>5. \A p \in Players, o \in Orders : PlayerInv(p, o) BY <1>2, <1>3, <1>4 DEF PlayerInv
<1>6. \A o \in Orders : AloneInv(o) BY <1>2, <1>4 DEF AloneInv
<1>. QED BY <1>5, <1>6, InitHeld DEF OnceInv, OrderInv

\* A player is rewarded once for an order, and two players only where they met
\* between look-up and record (PaidOnce), at whatever speed it is sent again,
\* and whatever crashes: of the services, redis alone has to answer.
THEOREM OrdersPayOnce == Spec => []PaidOnce
<1>1. OnceInv => PaidOnce
  BY DEF OnceInv, OrderInv, PlayerInv, AloneInv, Claims, PaidOnce
<1>. QED BY <1>1, InitOnce, NextOnce, PTL DEF Spec

-----------------------------------------------------------------------------
(* What is recorded is rewarded.                                           *)

\* Steps of a request that record no order and reward none.
LEMMA QuietRecord ==
  ASSUME RecordedIsGiven, NEW r \in Requests, \A s \in Requests \ {r} : req'[s] = req[s],
         UNCHANGED <<redis, payRows, given, lost, panicked>>,
         Bought(r) => Bought(r)' /\ Order(r)' = Order(r)
  PROVE  RecordedIsGiven'
<1>1. \A s \in Requests : Bought(s) => Bought(s)' /\ Order(s)' = Order(s) BY DEF Bought, Order
<1>. QED BY <1>1 DEF RecordedIsGiven

LEMMA RequestRecord ==
  ASSUME TypeOK, RecordedIsGiven, NEW r \in Requests, Request(r) PROVE RecordedIsGiven'
<1>. USE DEF At
<1>1. \A s \in Requests \ {r} : req'[s] = req[s] BY RequestJob
<1>2. CASE Charge(r) \/ TakePaying(r) \/ WrongProduct(r) \/ CheckExists(r) \/ CheckFails(r)
           \/ Verified(r) \/ NotVerified(r) \/ SaveFails(r)
  <2>1. ~Bought(r) /\ UNCHANGED <<redis, payRows, given, lost, panicked>>
    BY <1>2 DEF Charge, TakePaying, WrongProduct, CheckExists, CheckFails, Verified, NotVerified,
                SaveFails, LookingUp, Bought, history
  <2>. QED BY <1>1, <2>1, QuietRecord
<1>3. CASE SaveOrder(r) \/ ChargeSave(r)
  <2>1. Bought(r)' /\ Order(r)' = Order(r)
    BY <1>3, GoToJob DEF SaveOrder, ChargeSave, Bought, Steps
  <2>2. \A s \in Requests : Bought(s) => Bought(s)' /\ Order(s)' = Order(s)
    BY <1>1, <2>1 DEF Bought, Order
  <2>3. /\ redis' \cup payRows' \subseteq redis \cup payRows \cup {Order(r)}
        /\ given' = given /\ lost' = lost /\ panicked' = panicked
    BY <1>3 DEF SaveOrder, ChargeSave, history
  <2>. QED BY <2>1, <2>2, <2>3 DEF RecordedIsGiven
<1>4. CASE ReleasePaying(r) \/ PostTalkingData(r)
  <2>1. UNCHANGED <<redis, payRows, given, lost, panicked>>
    BY <1>4 DEF ReleasePaying, PostTalkingData, history
  <2>2. PICK step \in {"post", "reward"} : GoTo(r, step)
    BY <1>4 DEF ReleasePaying, PostTalkingData
  <2>3. Bought(r)' /\ Order(r)' = Order(r)
    BY <1>4, <2>2, GoToJob DEF ReleasePaying, PostTalkingData, Bought, Steps
  <2>. QED BY <1>1, <2>1, <2>3, QuietRecord
<1>5. CASE PostPanics(r)
  <2>1. UNCHANGED <<redis, payRows, given, lost>> /\ panicked' = panicked \cup {Order(r)}
    BY <1>5 DEF PostPanics
  <2>2. \A s \in Requests \ {r} : Bought(s) => Bought(s)' /\ Order(s)' = Order(s)
    BY <1>1 DEF Bought, Order
  <2>. QED BY <2>1, <2>2 DEF RecordedIsGiven
<1>6. CASE Reward(r)
  <2>1. Order(r) \in Orders /\ Payer(r) \in Players BY <1>6, ActiveJob DEF Reward
  <2>2. /\ given'[Payer(r)][Order(r)] > 0
        /\ \A p \in Players, o \in Orders : given[p][o] > 0 => given'[p][o] > 0
    BY <1>6, <2>1 DEF Reward, TypeOK
  <2>3. \A s \in Requests \ {r} : Bought(s) => Bought(s)' /\ Order(s)' = Order(s)
    BY <1>1 DEF Bought, Order
  <2>4. UNCHANGED <<redis, payRows, lost, panicked>> /\ redis \cup payRows \subseteq Orders
    BY <1>6 DEF Reward, TypeOK, history
  <2>. QED BY <2>1, <2>2, <2>3, <2>4 DEF RecordedIsGiven
<1>. QED BY <1>2, <1>3, <1>4, <1>5, <1>6 DEF Request

LEMMA NextRecord == ASSUME TypeOK, RecordedIsGiven, [Next]_vars PROVE RecordedIsGiven'
<1>1. CASE (\E p \in Players : SaveRow(p)) \/ Break \/ Reconnect \/ UNCHANGED vars
  <2>1. UNCHANGED <<req, redis, payRows, given, lost, panicked>>
    BY <1>1 DEF SaveRow, Break, Reconnect, vars, history
  <2>. QED BY <2>1 DEF RecordedIsGiven, Bought, Order
<1>2. CASE Crash
  <2>1. \A o \in (redis \cup payRows) \ lost' : \E p \in Players : stored[p][o] > 0
    BY <1>2 DEF Crash, TypeOK
  <2>. QED BY <1>2, <2>1 DEF Crash, RecordedIsGiven
<1>. QED BY <1>1, <1>2, RequestRecord DEF Next

\* A recorded order is rewarded or about to be (RecordedIsGiven): of what the
\* code does between the two, only the panic of _post_talking_data loses it,
\* and besides a crash.
THEOREM RecordsAreGiven == Spec => []RecordedIsGiven
<1>1. Init => RecordedIsGiven BY DEF Init, RecordedIsGiven
<1>. QED BY <1>1, TypeCorrect, NextRecord, PTL DEF Spec

=============================================================================
