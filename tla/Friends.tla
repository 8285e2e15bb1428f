------------------------------ MODULE Friends -------------------------------
(***************************************************************************)
(* Friends and friend points.  Whatever concerns two players is in two     *)
(* rows, and the handler of one of them changes both, one after the other: *)
(* his own row directly and the other's either directly, when the other is *)
(* of the same server, or by a call to the other server.  A call may fail  *)
(* before it reached the other row or after it changed it.  The other      *)
(* player's handlers run at the same time.  Friend points are given once a *)
(* day, when it is past the hour of refreshing, and lie in the row of the  *)
(* player they are given to until he takes them.                           *)
(*                                                                         *)
(* A step is what the code does in one row.  Left out: what friends are    *)
(* told of each other; IsTodayGive and Friends.LastGivePointsTime, which   *)
(* decide nothing.                                                         *)
(***************************************************************************)
EXTENDS Integers, Sequences, FiniteSets

CONSTANTS
  Players,      \* the players
  Active,       \* bound: those of them who send requests
  Server,       \* the server of each player
  GiveLists,    \* the lists of friends in a request to give or take points
  MaxGiveNum,   \* global_config.FriendGivePointsPlayerNumOneDay
  MaxRequests,  \* bound: requests in a behaviour
  MaxDay        \* bound: days

ASSUME ListsAssumption   == GiveLists \subseteq Seq(Players) \ {<<>>}
ASSUME NumbersAssumption == MaxGiveNum \in Nat
ASSUME ActiveAssumption  == Active \subseteq Players /\ Server \in [Players -> Nat]

VARIABLES
  friends,     \* db.Friends
  reqs,        \* db.FriendReqs
  points,      \* db.FriendPoints: GivePoints, in gifts, and the day of LastGiveTime
  giveNum,     \* FriendRelative.GiveNumToday
  refreshDay,  \* the day of FriendRelative.LastRefreshTime
  job,         \* what the handler of each player is doing
  day, late,   \* the day; whether FriendGivePointsRefreshTime is past
  requests,    \* how many requests there were
  \* What happened, for the properties:
  torn,        \* pairs of players a call failed for half-way, or who both
               \*   acted on their friendship at the same time, whatever they did
  gifts,       \* how often a player gave points to another one on this day
  owed,        \* how many gifts of a player another one has not taken
  rewarded,    \* how often a player was rewarded for giving on this day
  belated      \* the players with a gift of this day counted as of an earlier one

relation == <<friends, reqs, torn>>
giving   == <<points, giveNum, refreshDay, gifts, owed, rewarded, belated>>
time     == <<day, late>>
vars     == <<relation, giving, job, time, requests>>

Idle == [at |-> "idle"]
At(p, at) == job[p].at = at
Does(p, what) == job' = [job EXCEPT ![p] = what]
SameServer(p, q) == Server[p] = Server[q]

Lists == Seq(Players) \ {<<>>}
Jobs ==
  {Idle} \cup [at : {"agree", "own", "remove", "leave"}, whom : Players]
         \cup [at : {"give", "given"}, list : Lists, num : Nat]
         \cup [at : {"take", "credit", "clear"}, list : Lists]

TypeOK ==
  /\ friends \in [Players -> SUBSET Players] /\ reqs \in [Players -> SUBSET Players]
  /\ points \in [Players -> [Players -> [num : 0..1, given : Nat]]]
  /\ giveNum \in [Players -> Nat] /\ rewarded \in [Players -> Nat]
  /\ refreshDay \in [Players -> Nat]
  /\ job \in [Players -> Jobs]
  /\ day \in Nat /\ late \in BOOLEAN /\ requests \in Nat
  /\ gifts \in [Players -> [Players -> Nat]] /\ owed \in [Players -> [Players -> Int]]

Init ==
  /\ friends = [p \in Players |-> {}]
  /\ reqs = [p \in Players |-> {}]
  /\ points = [p \in Players |-> [q \in Players |-> [num |-> 0, given |-> 0]]]
  /\ giveNum = [p \in Players |-> 0]
  /\ refreshDay = [p \in Players |-> 0]
  /\ job = [p \in Players |-> Idle]
  /\ day = 1 /\ late = TRUE
  /\ requests = 0
  /\ torn = {}
  /\ gifts = [p \in Players |-> [q \in Players |-> 0]]
  /\ owed = [p \in Players |-> [q \in Players |-> 0]]
  /\ rewarded = [p \in Players |-> 0]
  /\ belated = {}

\* A handler makes or ends the friendship of two players.
Relates(p, q) == job[p].at \in {"agree", "own", "remove", "leave"} /\ job[p].whom = q

\* A request of p is taken up.
Request(p, what) ==
  /\ At(p, "idle") /\ requests < MaxRequests
  /\ requests' = requests + 1
  /\ Does(p, what)

\* A request that is about a friendship; the other one may be at it too.
RelateRequest(p, q, at) ==
  /\ Request(p, [at |-> at, whom |-> q])
  /\ torn' = IF Relates(q, p) THEN torn \cup {{p, q}} ELSE torn
  /\ UNCHANGED <<friends, reqs, giving, time>>

-----------------------------------------------------------------------------
(* Requests and friendships.                                               *)

\* add_friend_by_id: CheckAndAdd in the other's row; nothing else is done
\* with the answer of a call that failed.
Ask(p, q) ==
  /\ q # p /\ q \notin friends[p]
  /\ At(p, "idle") /\ requests < MaxRequests
  /\ requests' = requests + 1
  /\ reqs' = [reqs EXCEPT ![q] = @ \cup {p}]
  /\ UNCHANGED <<friends, torn, giving, job, time>>

Refuse(p, q) ==
  /\ q \in reqs[p]
  /\ At(p, "idle") /\ requests < MaxRequests
  /\ requests' = requests + 1
  /\ reqs' = [reqs EXCEPT ![p] = @ \ {q}]
  /\ UNCHANGED <<friends, torn, giving, job, time>>

\* agree_add_friend: no request is asked for, and nobody else than oneself.
Agree(p, q) == q \notin friends[p] /\ RelateRequest(p, q, "agree")

AgreeOther(p) ==
  LET q == job[p].whom IN
  /\ At(p, "agree")
  /\ friends' = [friends EXCEPT ![q] = @ \cup {p}]
  /\ Does(p, [at |-> "own", whom |-> q])
  /\ UNCHANGED <<reqs, torn, giving, time, requests>>

AgreeOwn(p) ==
  LET q == job[p].whom IN
  /\ At(p, "own")
  /\ friends' = [friends EXCEPT ![p] = @ \cup {q}]
  /\ reqs' = [reqs EXCEPT ![p] = @ \ {q}]
  /\ Does(p, Idle)
  /\ UNCHANGED <<torn, giving, time, requests>>

\* remove_friend: the other's row first.
Remove(p, q) == q \in friends[p] /\ RelateRequest(p, q, "remove")

RemoveOther(p) ==
  LET q == job[p].whom IN
  /\ At(p, "remove")
  /\ friends' = [friends EXCEPT ![q] = @ \ {p}]
  /\ Does(p, [at |-> "leave", whom |-> q])
  /\ UNCHANGED <<reqs, torn, giving, time, requests>>

\* Mutant of RemoveOwn: the points a friend gave go with the friendship.
RemoveOwnAll(p) ==
  LET q == job[p].whom IN
  /\ At(p, "leave")
  /\ friends' = [friends EXCEPT ![p] = @ \ {q}]
  /\ points' = [points EXCEPT ![p][q] = [num |-> 0, given |-> 0]]
  /\ Does(p, Idle)
  /\ UNCHANGED <<reqs, torn, giveNum, refreshDay, gifts, owed, rewarded, belated,
                 time, requests>>

\* remove_friend_data leaves FriendPoints, so that ending and making a
\* friendship again is no way to more points.
RemoveOwn(p) ==
  LET q == job[p].whom IN
  /\ At(p, "leave")
  /\ friends' = [friends EXCEPT ![p] = @ \ {q}]
  /\ Does(p, Idle)
  /\ UNCHANGED <<reqs, torn, giving, time, requests>>

\* Mutant of CallFails: one's own row is changed although the call failed.
CallFailsUnseen(p) ==
  LET q == job[p].whom IN
  /\ job[p].at \in {"agree", "remove"} /\ ~SameServer(p, q)
  /\ Does(p, [at |-> IF At(p, "agree") THEN "own" ELSE "leave", whom |-> q])
  /\ UNCHANGED <<relation, giving, time, requests>>

\* The call to the other's server fails: one's own row is left alone.
CallFails(p) ==
  LET q == job[p].whom IN
  /\ job[p].at \in {"agree", "remove"} /\ ~SameServer(p, q)
  /\ \/ UNCHANGED <<friends, torn>>
     \/ /\ friends' = [friends EXCEPT
                         ![q] = IF At(p, "agree") THEN @ \cup {p} ELSE @ \ {p}]
        /\ torn' = torn \cup {{p, q}}
  /\ Does(p, Idle)
  /\ UNCHANGED <<reqs, giving, time, requests>>

-----------------------------------------------------------------------------
(* Friend points.                                                          *)

\* check_friends_give_points_refresh, which the lists of points begin with.
Due(p) == friends[p] # {} /\ late /\ refreshDay[p] < day

Refresh(p) ==
  /\ refreshDay' = IF Due(p) THEN [refreshDay EXCEPT ![p] = day] ELSE refreshDay
  /\ giveNum' = IF Due(p) THEN [giveNum EXCEPT ![p] = 0] ELSE giveNum

\* give_friend_points, up to the first friend of the list.
Give(p, list) ==
  /\ Refresh(p)
  /\ Request(p, IF giveNum'[p] >= MaxGiveNum THEN Idle
                ELSE [at |-> "give", list |-> list, num |-> giveNum'[p]])
  /\ UNCHANGED <<relation, points, gifts, owed, rewarded, belated, time>>

\* Where the handler goes from one player of the list.
Rest(p) == IF Len(job[p].list) = 1 THEN Idle
           ELSE [job[p] EXCEPT !.list = Tail(@)]

\* Oneself and those who are no friends are passed over; the last gift of
\* the day ends the list.
Given(p) == LET q == Head(job[p].list) IN q # p /\ q \in friends[p]

GivePasses(p) ==
  /\ At(p, "give")
  /\ \/ ~Given(p) /\ Does(p, Rest(p))
     \/ Given(p) /\ job[p].num >= MaxGiveNum /\ Does(p, Idle)
  /\ UNCHANGED <<relation, giving, time, requests>>

Giving(p) == At(p, "give") /\ Given(p) /\ job[p].num < MaxGiveNum

\* store_friend_points in the row of the friend: once a day, and not between
\* midnight and the hour.  Points that were not taken are written over.
MayStore(p, q) == late /\ points[q][p].given < day
Store(p, q) ==
  /\ points' = [points EXCEPT ![q][p] = [num |-> 1, given |-> day]]
  /\ gifts' = [gifts EXCEPT ![p][q] = @ + 1]
  /\ owed' = [owed EXCEPT ![p][q] = @ + 1]

GiveStores(p) ==
  LET q == Head(job[p].list) IN
  /\ Giving(p)
  /\ \/ MayStore(p, q) /\ Store(p, q) /\ Does(p, [job[p] EXCEPT !.at = "given"])
     \/ ~MayStore(p, q) /\ Does(p, Rest(p)) /\ UNCHANGED <<points, gifts, owed>>
  /\ UNCHANGED <<relation, giveNum, refreshDay, rewarded, belated, time, requests>>

\* Mutant of GiveCounts: today_num is what it was at the beginning.
GiveCountsLate(p) ==
  /\ At(p, "given")
  /\ giveNum' = [giveNum EXCEPT ![p] = @ + 1]
  /\ rewarded' = [rewarded EXCEPT ![p] = @ + 1]
  /\ belated' = IF refreshDay[p] = day THEN belated ELSE belated \cup {p}
  /\ Does(p, IF Rest(p) = Idle THEN Idle ELSE [Rest(p) EXCEPT !.at = "give"])
  /\ UNCHANGED <<relation, points, refreshDay, gifts, owed, time, requests>>

\* The gift is counted, and the giver gets points of his own for it.
GiveCounts(p) ==
  /\ At(p, "given")
  /\ giveNum' = [giveNum EXCEPT ![p] = @ + 1]
  /\ rewarded' = [rewarded EXCEPT ![p] = @ + 1]
  /\ belated' = IF refreshDay[p] = day THEN belated ELSE belated \cup {p}
  /\ Does(p, IF Rest(p) = Idle THEN Idle
             ELSE [Rest(p) EXCEPT !.at = "give", !.num = giveNum'[p]])
  /\ UNCHANGED <<relation, points, refreshDay, gifts, owed, time, requests>>

\* A call that failed is no gift, even if the friend has it.
GiveFails(p) ==
  LET q == Head(job[p].list) IN
  /\ Giving(p) /\ ~SameServer(p, q)
  /\ \/ MayStore(p, q) /\ Store(p, q)
     \/ UNCHANGED <<points, gifts, owed>>
  /\ Does(p, Rest(p))
  /\ UNCHANGED <<relation, giveNum, refreshDay, rewarded, belated, time, requests>>

\* get_friend_points; whether they are from a friend is not asked.
Take(p, list) ==
  /\ Refresh(p)
  /\ Request(p, [at |-> "take", list |-> list])
  /\ UNCHANGED <<relation, points, gifts, owed, rewarded, belated, time>>

TakeReads(p) ==
  /\ At(p, "take")
  /\ Does(p, IF points[p][Head(job[p].list)].num = 0 THEN Rest(p)
             ELSE [job[p] EXCEPT !.at = "credit"])
  /\ UNCHANGED <<relation, giving, time, requests>>

TakeCredits(p) ==
  /\ At(p, "credit")
  /\ owed' = [owed EXCEPT ![Head(job[p].list)][p] = @ - 1]
  /\ Does(p, [job[p] EXCEPT !.at = "clear"])
  /\ UNCHANGED <<relation, points, giveNum, refreshDay, gifts, rewarded, belated,
                 time, requests>>

\* Mutant of TakeClears: the points are still there afterwards.
TakeClearsNothing(p) ==
  /\ At(p, "clear")
  /\ Does(p, IF Rest(p) = Idle THEN Idle ELSE [Rest(p) EXCEPT !.at = "take"])
  /\ UNCHANGED <<relation, giving, time, requests>>

TakeClears(p) ==
  /\ At(p, "clear")
  /\ points' = [points EXCEPT ![p][Head(job[p].list)].num = 0]
  /\ Does(p, IF Rest(p) = Idle THEN Idle ELSE [Rest(p) EXCEPT !.at = "take"])
  /\ UNCHANGED <<relation, giveNum, refreshDay, gifts, owed, rewarded, belated,
                 time, requests>>

-----------------------------------------------------------------------------
(* The time: midnight, and the hour of refreshing with which a day begins. *)

Midnight ==
  /\ late /\ day < MaxDay
  /\ late' = FALSE
  /\ UNCHANGED <<relation, giving, job, day, requests>>

NewDay ==
  /\ ~late
  /\ late' = TRUE /\ day' = day + 1
  /\ gifts' = [p \in Players |-> [q \in Players |-> 0]]
  /\ rewarded' = [p \in Players |-> 0]
  /\ belated' = {}
  /\ UNCHANGED <<relation, points, giveNum, refreshDay, owed, job, requests>>

Next ==
  \/ Midnight \/ NewDay
  \/ \E p \in Active :
       \/ \E q \in Players : Ask(p, q) \/ Refuse(p, q) \/ Agree(p, q) \/ Remove(p, q)
       \/ \E list \in GiveLists : Give(p, list) \/ Take(p, list)
       \/ AgreeOther(p) \/ AgreeOwn(p) \/ RemoveOther(p) \/ RemoveOwn(p) \/ CallFails(p)
       \/ GivePasses(p) \/ GiveStores(p) \/ GiveCounts(p) \/ GiveFails(p)
       \/ TakeReads(p) \/ TakeCredits(p) \/ TakeClears(p)

Spec == Init /\ [][Next]_vars

-----------------------------------------------------------------------------
(* What is wanted of it.                                                   *)

\* Two players whose friendship no handler is changing are friends of each
\* other or neither is the other's, although their rows are changed one after
\* the other, unless a call failed after it changed the other row or the one
\* ended the friendship while the other made it (agree_add_friend,
\* remove_friend).
FriendsBothWays ==
  \A p, q \in Players :
    {p, q} \in torn \/ Relates(p, q) \/ Relates(q, p)
      \/ (p \in friends[q] <=> q \in friends[p])

\* A player gives another one points once a day at most, however often they
\* end their friendship and make it again (remove_friend_data: "so that friend
\* points are not made by removing and adding friends again and again").
OneGiftADay == \A p, q \in Players : gifts[p][q] <= 1

\* Points that were given once are taken once, though taking is to read, to
\* credit and to clear, and the next gift may come at any time between
\* (get_friend_points, store_friend_points).
TakenOnce == \A p, q \in Players : owed[p][q] >= 0

\* A player is rewarded for no more gifts a day than
\* FriendGivePointsPlayerNumOneDay, unless gifts of this day were counted as of
\* an earlier one: the request came before the hour, or before he had friends
\* (check_friends_give_points_refresh, give_friend_points).
GiftsAreLimited == \A p \in Players : p \in belated \/ rewarded[p] <= MaxGiveNum

-----------------------------------------------------------------------------
(* The inductive invariants behind them.                                   *)

\* The handler of p has changed the row of q and not yet its own.
Halfway(p, q) == job[p].at \in {"own", "leave"} /\ job[p].whom = q

\* What holds of two players until their friendship is torn: one of them at
\* most is changing it, and who is halfway did what he does to his own row.
PairInv(p, q) ==
  /\ p # q => ~(Relates(p, q) /\ Relates(q, p))
  /\ Halfway(p, q) => (p \in friends[q] <=> At(p, "own"))
  /\ ~Halfway(p, q) /\ ~Halfway(q, p) => (p \in friends[q] <=> q \in friends[p])

RelationInv == TypeOK /\ \A p, q \in Players : {p, q} \in torn \/ PairInv(p, q)

\* A gift of this day has its date in the row of the friend.
DateInv == \A p, q \in Players : gifts[p][q] > 0 => gifts[p][q] = 1 /\ points[q][p].given = day

GiftInv == TypeOK /\ DateInv

\* A handler between crediting and clearing the points of p.
Clears(q, p)  == At(q, "clear")  /\ Head(job[q].list) = p
Credits(q, p) == At(q, "credit") /\ Head(job[q].list) = p

\* Points that are there are owed, until they are credited.
OwedInv ==
  TypeOK /\ \A p, q \in Players :
    /\ owed[p][q] >= IF Clears(q, p) THEN 0 ELSE points[q][p].num
    /\ Credits(q, p) => points[q][p].num = 1

\* today_num is GiveNumToday, which counts the gifts of the day.
CountInv ==
  TypeOK /\ \A p \in Players :
    /\ job[p].at \in {"give", "given"} => job[p].num = giveNum[p]
    /\ At(p, "given") => job[p].num < MaxGiveNum
    /\ refreshDay[p] <= day
    /\ p \in belated \/ /\ rewarded[p] <= MaxGiveNum /\ rewarded[p] <= giveNum[p]
                        /\ rewarded[p] > 0 => refreshDay[p] = day
=============================================================================
