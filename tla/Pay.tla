-------------------------------- MODULE Pay --------------------------------
(***************************************************************************)
(* Purchases with a receipt of Google or of Apple: verify_google_purchase_ *)
(* data and verify_apple_purchase_data with the rest of the request, the   *)
(* hash of used orders in redis behind a connection that may break         *)
(* (RedisConn), the row kept by the rpc server, and the player's own row,  *)
(* which a pass of the cache saves later (DbTable).  A client that got no  *)
(* answer sends the same order again, perhaps while the first request is   *)
(* still under way: is_lock does not always keep the two apart (Session),  *)
(* is_paying does.  Nothing ties an order to a player: any player may send *)
(* any receipt, and is_paying keeps requests of two players apart in       *)
(* nothing.                                                                *)
(*                                                                         *)
(* What is bought is one abstract reward per order; month cards have a     *)
(* module of their own (MonthCard).                                        *)
(***************************************************************************)
EXTENDS Naturals

CONSTANTS
  Players,      \* the players of the server
  Requests,     \* requests to buy that may be under way at once
  Google,       \* orders paid with Google
  Apple,        \* orders paid with Apple
  Sandbox,      \*   of them, those of its sandbox
  MaxRequests,  \* bound on requests
  MaxBreaks,    \* bound on broken connections to redis
  MaxCrashes    \* bound on crashes

ASSUME OrdersAssumption == Google \cap Apple = {} /\ Sandbox \subseteq Apple
ASSUME BoundsAssumption == MaxRequests \in Nat /\ MaxBreaks \in Nat /\ MaxCrashes \in Nat

VARIABLES
  is_paying,  \* the flag of each player
  req,        \* what each request is doing
  redis,      \* the orders in the two hashes of redis
  link,       \* whether the connection to redis works
  payRows,    \* GooglePays and ApplePays of the rpc server
  given,      \* how often a player was rewarded for an order, in memory
  stored,     \*   and in the player's row in MySQL
  \* What happened, for the properties:
  unsure,     \* orders that redis was asked about, or told of, in vain
  shared,     \* orders recorded while a request of another player was between
              \* its look-up and its record of the same order
  lost,       \* orders whose reward a crash took back
  panicked,   \* orders whose request ended in a panic after the record
  stuck,      \* players a request left with is_paying set
  made,       \* requests so far
  breaks,     \* breaks so far
  crashes     \* crashes so far

history == <<unsure, shared, lost, panicked, stuck, made, breaks, crashes>>
vars    == <<is_paying, req, redis, link, payRows, given, stored, history>>

Orders == Google \cup Apple
Idle   == [step |-> "idle"]
Steps  == {"take", "exists", "verify", "sandbox", "again",
           "save", "charge_save", "release", "post", "reward"}

TypeOK ==
  /\ is_paying \in [Players -> {0, 1}]
  /\ req \in [Requests -> {Idle} \cup [step : Steps, player : Players, order : Orders]]
  /\ redis \subseteq Orders /\ payRows \subseteq Orders
  /\ link \in BOOLEAN
  /\ given \in [Players -> [Orders -> Nat]] /\ stored \in [Players -> [Orders -> Nat]]
  /\ unsure \subseteq Orders /\ shared \subseteq Orders
  /\ lost \subseteq Orders /\ panicked \subseteq Orders /\ stuck \subseteq Players
  /\ made \in 0..MaxRequests /\ breaks \in 0..MaxBreaks /\ crashes \in 0..MaxCrashes

Init ==
  /\ is_paying = [p \in Players |-> 0]
  /\ req = [r \in Requests |-> Idle]
  /\ redis = {} /\ payRows = {} /\ link = TRUE
  /\ given = [p \in Players |-> [o \in Orders |-> 0]] /\ stored = given
  /\ unsure = {} /\ shared = {} /\ lost = {} /\ panicked = {} /\ stuck = {}
  /\ made = 0 /\ breaks = 0 /\ crashes = 0

At(r, step) == req[r].step = step
GoTo(r, step) == req' = [req EXCEPT ![r].step = step]
Order(r) == req[r].order
Payer(r) == req[r].player
Release(r) == is_paying' = [is_paying EXCEPT ![Payer(r)] = 0]

\* A refused request: the flag is cleared and the error returned.
Refuse(r) == Release(r) /\ req' = [req EXCEPT ![r] = Idle]

-----------------------------------------------------------------------------

\* C2SCharge with a receipt, from whoever has it.
Charge(r) ==
  /\ At(r, "idle")
  /\ made < MaxRequests
  /\ made' = made + 1
  /\ \E p \in Players, o \in Orders :
       req' = [req EXCEPT ![r] = [step |-> "take", player |-> p, order |-> o]]
  /\ UNCHANGED <<is_paying, redis, link, payRows, given, stored,
                 unsure, shared, lost, panicked, stuck, breaks, crashes>>

\* Mutant of TakePaying: the flag is set without a look at it.
TakePayingBlindly(r) ==
  /\ At(r, "take")
  /\ is_paying' = [is_paying EXCEPT ![Payer(r)] = 1]
  /\ GoTo(r, IF Order(r) \in Google THEN "exists" ELSE "verify")
  /\ UNCHANGED <<redis, link, payRows, given, stored, history>>

\* Google's receipt is looked up first, Apple's is sent to Apple first.
TakePaying(r) ==
  /\ At(r, "take")
  /\ IF is_paying[Payer(r)] = 1
     THEN req' = [req EXCEPT ![r] = Idle] /\ UNCHANGED is_paying
     ELSE /\ is_paying' = [is_paying EXCEPT ![Payer(r)] = 1]
          /\ GoTo(r, IF Order(r) \in Google THEN "exists" ELSE "verify")
  /\ UNCHANGED <<redis, link, payRows, given, stored, history>>

\* bundle_id is not the product of the receipt: this return of
\* verify_google_purchase_data leaves the flag set.
WrongProduct(r) ==
  /\ At(r, "take")
  /\ Order(r) \in Google /\ is_paying[Payer(r)] = 0
  /\ is_paying' = [is_paying EXCEPT ![Payer(r)] = 1]
  /\ stuck' = stuck \cup {Payer(r)}
  /\ req' = [req EXCEPT ![r] = Idle]
  /\ UNCHANGED <<redis, link, payRows, given, stored,
                 unsure, shared, lost, panicked, made, breaks, crashes>>

\* Apple has answered that the receipt belongs to its sandbox.
ToSandbox(r) == At(r, "exists") /\ Order(r) \in Sandbox

\* On with a receipt that was not used: Google's signature is next; Apple has
\* answered, for its sandbox, with a pass, or with a refusal.
Unused(r) ==
  \/ Order(r) \in Google /\ GoTo(r, "verify") /\ UNCHANGED is_paying
  \/ ToSandbox(r) /\ GoTo(r, "sandbox") /\ UNCHANGED is_paying
  \/ Order(r) \in Apple /\ ~ToSandbox(r) /\ GoTo(r, "save") /\ UNCHANGED is_paying
  \/ Order(r) \in Apple /\ At(r, "exists") /\ Refuse(r)

LookingUp(r) == req[r].step \in {"exists", "again"}

\* Mutant of CheckExists: the order is recorded as it is looked up.
CheckAndRecord(r) ==
  /\ LookingUp(r) /\ link
  /\ IF Order(r) \in redis THEN Refuse(r) ELSE Unused(r)
  /\ redis' = redis \cup {Order(r)}
  /\ UNCHANGED <<link, payRows, given, stored, history>>

\* check_google_order_exist and check_apple_order_exist: HEXISTS.
CheckExists(r) ==
  /\ LookingUp(r) /\ link
  /\ IF Order(r) \in redis THEN Refuse(r) ELSE Unused(r)
  /\ UNCHANGED <<redis, link, payRows, given, stored, history>>

\* An error of redis counts as "no such order".
CheckFails(r) ==
  /\ LookingUp(r) /\ ~link
  /\ Unused(r)
  /\ unsure' = unsure \cup {Order(r)}
  /\ UNCHANGED <<redis, link, payRows, given, stored,
                 shared, lost, panicked, stuck, made, breaks, crashes>>

\* The signature of Google's receipt is right; Apple, or its sandbox, answers.
Verified(r) ==
  /\ \/ At(r, "verify")  /\ GoTo(r, IF Order(r) \in Google THEN "save" ELSE "exists")
     \/ At(r, "sandbox") /\ GoTo(r, "again")
  /\ UNCHANGED <<is_paying, redis, link, payRows, given, stored, history>>

\* Mutant of NotVerified: the flag stays set.
NotVerifiedHeld(r) ==
  /\ req[r].step \in {"verify", "sandbox"}
  /\ req' = [req EXCEPT ![r] = Idle]
  /\ UNCHANGED <<is_paying, redis, link, payRows, given, stored, history>>

\* A signature that is wrong, or no answer of Apple.
NotVerified(r) ==
  /\ req[r].step \in {"verify", "sandbox"}
  /\ Refuse(r)
  /\ UNCHANGED <<redis, link, payRows, given, stored, history>>

\* The order was looked up and is not recorded yet.
Cleared(r) == At(r, "save") \/ (At(r, "verify") /\ Order(r) \in Google)

\* A request of another player is there too, with the same order.
Met(r) ==
  \E s \in Requests : Cleared(s) /\ Order(s) = Order(r) /\ Payer(s) # Payer(r)

\* google_pay_save and apple_pay_save: HSET, which nobody asks whether the
\* order was new.
SaveOrder(r) ==
  /\ At(r, "save") /\ link
  /\ redis' = redis \cup {Order(r)}
  /\ GoTo(r, "charge_save")
  /\ shared' = IF Met(r) THEN shared \cup {Order(r)} ELSE shared
  /\ UNCHANGED <<is_paying, link, payRows, given, stored,
                 unsure, lost, panicked, stuck, made, breaks, crashes>>

\* Over a broken connection the command fails, and the rest of the record is
\* skipped, or it is written and never arrives.  The purchase goes on.
SaveFails(r) ==
  /\ At(r, "save") /\ ~link
  /\ \/ GoTo(r, "release") \/ GoTo(r, "charge_save")
  /\ unsure' = unsure \cup {Order(r)}
  /\ UNCHANGED <<is_paying, redis, link, payRows, given, stored,
                 shared, lost, panicked, stuck, made, breaks, crashes>>

\* rpc_charge_save; an error is only logged.
ChargeSave(r) ==
  /\ At(r, "charge_save")
  /\ \/ payRows' = payRows \cup {Order(r)}
     \/ UNCHANGED payRows
  /\ GoTo(r, "release")
  /\ UNCHANGED <<is_paying, redis, link, given, stored, history>>

ReleasePaying(r) ==
  /\ At(r, "release")
  /\ Release(r)
  /\ GoTo(r, IF Order(r) \in Apple \ Sandbox THEN "post" ELSE "reward")
  /\ UNCHANGED <<redis, link, payRows, given, stored, history>>

\* _post_talking_data: what the service of statistics answers is only logged.
PostTalkingData(r) ==
  /\ At(r, "post")
  /\ GoTo(r, "reward")
  /\ UNCHANGED <<is_paying, redis, link, payRows, given, stored, history>>

\* It does not answer: the body of resp, which is nil, is closed before err is
\* looked at.  _process_one_client_msg recovers from the panic; the request
\* is over, the order recorded, and the reward not given.
PostPanics(r) ==
  /\ At(r, "post")
  /\ req' = [req EXCEPT ![r] = Idle]
  /\ panicked' = panicked \cup {Order(r)}
  /\ UNCHANGED <<is_paying, redis, link, payRows, given, stored,
                 unsure, shared, lost, stuck, made, breaks, crashes>>

\* The rest of _charge_with_bundle_id.
Reward(r) ==
  /\ At(r, "reward")
  /\ given' = [given EXCEPT ![Payer(r)][Order(r)] = @ + 1]
  /\ req' = [req EXCEPT ![r] = Idle]
  /\ UNCHANGED <<is_paying, redis, link, payRows, stored, history>>

-----------------------------------------------------------------------------

\* A pass of the cache saves a player's row.
SaveRow(p) ==
  /\ stored[p] # given[p]
  /\ stored' = [stored EXCEPT ![p] = given[p]]
  /\ UNCHANGED <<is_paying, req, redis, link, payRows, given, history>>

\* The connection to redis breaks, and RedisConn.Run connects again.
Break ==
  /\ link /\ breaks < MaxBreaks
  /\ link' = FALSE /\ breaks' = breaks + 1
  /\ UNCHANGED <<is_paying, req, redis, payRows, given, stored,
                 unsure, shared, lost, panicked, stuck, made, crashes>>

Reconnect ==
  /\ ~link
  /\ link' = TRUE
  /\ UNCHANGED <<is_paying, req, redis, payRows, given, stored, history>>

\* The game server stops where it is and starts again from MySQL.
Crash ==
  /\ crashes < MaxCrashes
  /\ crashes' = crashes + 1
  /\ is_paying' = [p \in Players |-> 0]
  /\ req' = [r \in Requests |-> Idle]
  /\ given' = stored
  /\ link' = TRUE
  /\ lost' = lost \cup {o \in redis \cup payRows : \A p \in Players : stored[p][o] = 0}
  /\ stuck' = {}
  /\ UNCHANGED <<redis, payRows, stored, unsure, shared, panicked, made, breaks>>

Request(r) ==
  \/ Charge(r) \/ TakePaying(r) \/ WrongProduct(r) \/ CheckExists(r) \/ CheckFails(r)
  \/ Verified(r) \/ NotVerified(r) \/ SaveOrder(r) \/ SaveFails(r) \/ ChargeSave(r)
  \/ ReleasePaying(r) \/ PostTalkingData(r) \/ PostPanics(r) \/ Reward(r)

Next ==
  \/ \E r \in Requests : Request(r)
  \/ \E p \in Players : SaveRow(p)
  \/ Break \/ Reconnect \/ Crash

Spec == Init /\ [][Next]_vars

-----------------------------------------------------------------------------

\* Unless redis failed when it was asked about an order, a player is rewarded
\* for it once, however often and however fast it is sent and through
\* crashes; and two players are rewarded for it only if one's request was
\* between look-up and record when the other's recorded it.
PaidOnce ==
  \A o \in Orders \ unsure, p \in Players :
    /\ given[p][o] <= 1
    /\ \A q \in Players : given[p][o] > 0 /\ given[q][o] > 0 => p = q \/ o \in shared

Between(r) == req[r].step \in Steps \ {"take", "post", "reward"}

\* At most one request of a player is between the look-up of an order and
\* its record, and without one is_paying is clear, unless a receipt for
\* another product left it set.
PayingIsHeld ==
  /\ \A r, s \in Requests : Between(r) /\ Between(s) /\ Payer(r) = Payer(s) => r = s
  /\ \A p \in Players :
       is_paying[p] = 1 <=> (p \in stuck \/ \E r \in Requests : Between(r) /\ Payer(r) = p)

\* The order is recorded, and the reward is to come.
Bought(r) == req[r].step \in {"charge_save", "release", "post", "reward"}

\* What redis or the rpc server has as bought was rewarded or is about to
\* be, unless a crash took the reward back, or the request ended in the panic
\* of _post_talking_data, between record and reward.
RecordedIsGiven ==
  \A o \in (redis \cup payRows) \ (lost \cup panicked) :
     \/ \E p \in Players : given[p][o] > 0
     \/ \E r \in Requests : Bought(r) /\ Order(r) = o

-----------------------------------------------------------------------------
(* The inductive invariants behind them.                                   *)

\* A flag that was left set keeps every request of the player out.
StuckIsAlone == \A p \in stuck, r \in Requests : Between(r) => Payer(r) # p

HeldInv == TypeOK /\ PayingIsHeld /\ StuckIsAlone

\* The player has the reward of an order, or a request that is to give it.
Claims(p, o) ==
  \/ given[p][o] > 0
  \/ \E r \in Requests : Bought(r) /\ Payer(r) = p /\ Order(r) = o

\* While redis answers, each player has with an order either nothing, or a
\* request that found it unused, or one request that is to give the reward,
\* or the reward.  The last two need the record in redis; a crash only takes
\* the reward back.
PlayerInv(p, o) ==
  /\ stored[p][o] <= given[p][o] /\ given[p][o] <= 1
  /\ Claims(p, o) => o \in redis
  /\ \A r \in Requests : Cleared(r) /\ Payer(r) = p /\ Order(r) = o => ~Claims(p, o)
  /\ \A r \in Requests : Bought(r) /\ Payer(r) = p /\ Order(r) = o => given[p][o] = 0
  /\ \A r, s \in Requests : Bought(r) /\ Bought(s) /\ Payer(r) = p /\ Payer(s) = p
                            /\ Order(r) = o /\ Order(s) = o => r = s

\* Unless two players met on it, nobody who looked up an order is still to
\* record it once it is recorded, and one player has it.
AloneInv(o) ==
  /\ \A r \in Requests : Cleared(r) /\ Order(r) = o => o \notin redis
  /\ \A p, q \in Players : Claims(p, o) /\ Claims(q, o) => p = q

OrderInv(o) ==
  /\ \A p \in Players : PlayerInv(p, o)
  /\ o \notin shared => AloneInv(o)

OnceInv == HeldInv /\ \A o \in Orders \ unsure : OrderInv(o)

=============================================================================
