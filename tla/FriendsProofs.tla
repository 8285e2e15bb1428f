--------------------------- MODULE FriendsProofs ----------------------------
(***************************************************************************)
(* The safety of friendships and friend points, for any number of players, *)
(* servers and days, and lists of any length.                              *)
(***************************************************************************)
EXTENDS Friends, TLAPS

-----------------------------------------------------------------------------
(* What the handlers are doing.                                            *)

LEMMA ListHead ==
  ASSUME NEW list \in Lists
  PROVE  Head(list) \in Players /\ (Len(list) # 1 => Tail(list) \in Lists)
<1>1. list \in Seq(Players) /\ list # <<>> BY DEF Lists
<1>2. Head(list) \in Players BY <1>1
<1>3. Len(list) # 1 => Tail(list) # <<>>
  <2>1. Len(list) \in Nat /\ Len(list) # 0 BY <1>1
  <2>2. Len(Tail(list)) = Len(list) - 1 BY <1>1
  <2>3. Len(<<>>) = 0 OBVIOUS
  <2>. QED BY <2>1, <2>2, <2>3
<1>. QED BY <1>1, <1>2, <1>3 DEF Lists

LEMMA JobShape ==
  ASSUME TypeOK, NEW p \in Players
  PROVE  /\ job[p].at \in {"agree", "own", "remove", "leave"} => job[p].whom \in Players
         /\ job[p].at \in {"give", "given"} =>
              /\ job[p] \in [at : {"give", "given"}, list : Lists, num : Nat]
              /\ job[p].list \in Lists /\ job[p].num \in Nat
              /\ Head(job[p].list) \in Players
         /\ job[p].at \in {"take", "credit", "clear"} =>
              /\ job[p] \in [at : {"take", "credit", "clear"}, list : Lists]
              /\ job[p].list \in Lists /\ Head(job[p].list) \in Players
<1>1. job[p] \in Jobs BY DEF TypeOK
<1>2. job[p].at \in {"agree", "own", "remove", "leave"} => job[p].whom \in Players
  BY <1>1 DEF Jobs, Idle
<1>3. job[p].at \in {"give", "given"} =>
        job[p] \in [at : {"give", "given"}, list : Lists, num : Nat]
  BY <1>1 DEF Jobs, Idle
<1>4. job[p].at \in {"take", "credit", "clear"} =>
        job[p] \in [at : {"take", "credit", "clear"}, list : Lists]
  BY <1>1 DEF Jobs, Idle
<1>. QED BY <1>2, <1>3, <1>4, ListHead

LEMMA DoesJob ==
  ASSUME TypeOK, NEW p \in Players, NEW what \in Jobs, Does(p, what)
  PROVE  /\ job' \in [Players -> Jobs] /\ job'[p] = what
         /\ \A s \in Players \ {p} : job'[s] = job[s]
BY DEF Does, TypeOK

LEMMA RestJob ==
  ASSUME TypeOK, NEW p \in Players
  PROVE  /\ job[p].at \in {"give", "given"} =>
              \/ Rest(p) = Idle
              \/ /\ Rest(p) \in [at : {"give", "given"}, list : Lists, num : Nat]
                 /\ Rest(p).at = job[p].at /\ Rest(p).num = job[p].num
         /\ job[p].at \in {"take", "credit", "clear"} =>
              \/ Rest(p) = Idle
              \/ /\ Rest(p) \in [at : {"take", "credit", "clear"}, list : Lists]
                 /\ Rest(p).at = job[p].at
BY JobShape, ListHead DEF Rest

\* What the handler of p does next, for each of its actions.
LEMMA RelateStep ==
  ASSUME TypeOK, NEW p \in Players, NEW q \in Players, NEW at \in {"agree", "remove"},
         RelateRequest(p, q, at)
  PROVE  /\ job' \in [Players -> Jobs] /\ job'[p].at = at /\ job'[p].whom = q
         /\ job[p].at = "idle" /\ \A s \in Players \ {p} : job'[s] = job[s]
<1>1. [at |-> at, whom |-> q] \in Jobs BY DEF Jobs
<1>. QED BY <1>1, DoesJob DEF RelateRequest, Request, At

\* The handlers of friend points.
Points(p) ==
  \/ \E list \in GiveLists : Give(p, list) \/ Take(p, list)
  \/ GivePasses(p) \/ GiveStores(p) \/ GiveCounts(p) \/ GiveFails(p)
  \/ TakeReads(p) \/ TakeCredits(p) \/ TakeClears(p)

\* The handlers of friendships, after the first step.
Relating(p) ==
  AgreeOther(p) \/ AgreeOwn(p) \/ RemoveOther(p) \/ RemoveOwn(p) \/ CallFails(p)

LEMMA RelatingStep ==
  ASSUME TypeOK, NEW p \in Players, Relating(p)
  PROVE  /\ job' \in [Players -> Jobs] /\ \A s \in Players \ {p} : job'[s] = job[s]
         /\ job[p].whom \in Players
         /\ AgreeOther(p) => job'[p].at = "own" /\ job'[p].whom = job[p].whom
         /\ RemoveOther(p) => job'[p].at = "leave" /\ job'[p].whom = job[p].whom
         /\ AgreeOwn(p) \/ RemoveOwn(p) \/ CallFails(p) => job'[p] = Idle
<1>1. job[p].whom \in Players BY JobShape DEF Relating, AgreeOther, AgreeOwn, RemoveOther,
                                  RemoveOwn, CallFails, At
<1>2. /\ [at |-> "own", whom |-> job[p].whom] \in Jobs
      /\ [at |-> "leave", whom |-> job[p].whom] \in Jobs /\ Idle \in Jobs
  BY <1>1 DEF Jobs
<1>3. CASE AgreeOther(p)
  BY <1>1, <1>2, <1>3, DoesJob DEF AgreeOther, AgreeOwn, RemoveOther, RemoveOwn, CallFails, At
<1>4. CASE RemoveOther(p)
  BY <1>1, <1>2, <1>4, DoesJob DEF AgreeOther, AgreeOwn, RemoveOther, RemoveOwn, CallFails, At
<1>5. CASE AgreeOwn(p) \/ RemoveOwn(p) \/ CallFails(p)
  BY <1>1, <1>2, <1>5, DoesJob DEF AgreeOther, AgreeOwn, RemoveOther, RemoveOwn, CallFails, At
<1>. QED BY <1>3, <1>4, <1>5 DEF Relating

LEMMA PointsStep ==
  ASSUME TypeOK, NEW p \in Players, Points(p)
  PROVE  /\ job' \in [Players -> Jobs] /\ \A s \in Players \ {p} : job'[s] = job[s]
         /\ job[p].at \in {"idle", "give", "given", "take", "credit", "clear"}
         /\ job'[p].at \in {"idle", "give", "given", "take", "credit", "clear"}
         /\ UNCHANGED <<relation, time>>
<1>1. UNCHANGED <<relation, time>>
  BY DEF Points, Give, Take, GivePasses, GiveStores, GiveCounts, GiveFails, TakeReads,
         TakeCredits, TakeClears, Store
<1>2. job[p].at \in {"idle", "give", "given", "take", "credit", "clear"}
  BY DEF Points, Give, Take, GivePasses, GiveStores, GiveCounts, GiveFails, TakeReads,
         TakeCredits, TakeClears, Request, Giving, At
<1>. DEFINE Given1 == [at : {"give", "given"}, list : Lists, num : Nat]
            Taken1 == [at : {"take", "credit", "clear"}, list : Lists]
<1>3. \E what \in {Idle} \cup Given1 \cup Taken1 : Does(p, what)
  <2>1. CASE \E list \in GiveLists : Give(p, list) \/ Take(p, list)
    <3>1. PICK list \in GiveLists : Give(p, list) \/ Take(p, list) BY <2>1
    <3>2. list \in Lists BY ListsAssumption DEF Lists
    <3>3. giveNum'[p] \in Nat BY <3>1 DEF Give, Take, Refresh, TypeOK
    <3>. QED BY <3>1, <3>2, <3>3 DEF Give, Take, Request
  <2>2. CASE GivePasses(p) \/ GiveStores(p) \/ GiveCounts(p) \/ GiveFails(p)
    <3>1. job[p].at \in {"give", "given"}
      BY <2>2 DEF GivePasses, GiveStores, GiveCounts, GiveFails, Giving, At
    <3>2. job[p] \in Given1 /\ (Rest(p) = Idle \/ Rest(p) \in Given1) BY <3>1, JobShape, RestJob
    <3>3. CASE GivePasses(p) BY <3>2, <3>3 DEF GivePasses
    <3>4. CASE GiveStores(p) BY <3>2, <3>4 DEF GiveStores
    <3>5. CASE GiveCounts(p)
      <4>1. giveNum'[p] \in Nat BY <3>5 DEF GiveCounts, TypeOK
      <4>. QED BY <3>2, <3>5, <4>1 DEF GiveCounts
    <3>6. CASE GiveFails(p) BY <3>2, <3>6 DEF GiveFails
    <3>. QED BY <2>2, <3>3, <3>4, <3>5, <3>6
  <2>3. CASE TakeReads(p) \/ TakeCredits(p) \/ TakeClears(p)
    <3>1. job[p].at \in {"take", "credit", "clear"}
      BY <2>3 DEF TakeReads, TakeCredits, TakeClears, At
    <3>2. job[p] \in Taken1 /\ (Rest(p) = Idle \/ Rest(p) \in Taken1) BY <3>1, JobShape, RestJob
    <3>. QED BY <2>3, <3>2 DEF TakeReads, TakeCredits, TakeClears
  <2>. QED BY <2>1, <2>2, <2>3 DEF Points
<1>4. PICK what \in {Idle} \cup Given1 \cup Taken1 : Does(p, what) BY <1>3
<1>5. what \in Jobs BY <1>4 DEF Jobs
<1>6. what.at \in {"idle", "give", "given", "take", "credit", "clear"} BY <1>4 DEF Idle
<1>7. job' \in [Players -> Jobs] /\ job'[p] = what /\ \A s \in Players \ {p} : job'[s] = job[s]
  BY <1>4, <1>5, DoesJob
<1>. QED BY <1>1, <1>2, <1>6, <1>7

-----------------------------------------------------------------------------
(* Every variable keeps its type.                                          *)

LEMMA InitType == Init => TypeOK
BY DEF Init, TypeOK, Jobs, Idle

LEMMA PointsType == ASSUME TypeOK, NEW p \in Players, Points(p) PROVE TypeOK'
<1>1. job' \in [Players -> Jobs] /\ UNCHANGED <<relation, time>> BY PointsStep
<1>2. requests' \in Nat
  <2>1. requests' = requests + 1 \/ requests' = requests
    BY DEF Points, Give, Take, GivePasses, GiveStores, GiveCounts, GiveFails, TakeReads,
           TakeCredits, TakeClears, Request
  <2>. QED BY <2>1 DEF TypeOK
<1>3. giveNum' \in [Players -> Nat] /\ refreshDay' \in [Players -> Nat]
      /\ rewarded' \in [Players -> Nat]
  <2>1. Refresh(p) => giveNum' \in [Players -> Nat] /\ refreshDay' \in [Players -> Nat]
    BY DEF Refresh, TypeOK
  <2>2. CASE \E list \in GiveLists : Give(p, list) \/ Take(p, list)
    BY <2>1, <2>2 DEF Give, Take, TypeOK
  <2>3. CASE GiveCounts(p) BY <2>3 DEF GiveCounts, TypeOK
  <2>4. CASE UNCHANGED <<giveNum, refreshDay, rewarded>> BY <2>4 DEF TypeOK
  <2>. QED BY <2>2, <2>3, <2>4
       DEF Points, GivePasses, GiveStores, GiveFails, TakeReads, TakeCredits, TakeClears, giving
<1>. DEFINE Row == [num : 0..1, given : Nat]
<1>4. \A q \in Players : Store(p, q) =>
        /\ points' \in [Players -> [Players -> Row]]
        /\ gifts' \in [Players -> [Players -> Nat]] /\ owed' \in [Players -> [Players -> Int]]
  BY DEF Store, TypeOK
<1>5. /\ points' \in [Players -> [Players -> Row]]
      /\ gifts' \in [Players -> [Players -> Nat]] /\ owed' \in [Players -> [Players -> Int]]
  <2>1. CASE GiveStores(p) \/ GiveFails(p)
    <3>1. Head(job[p].list) \in Players
      BY <2>1, JobShape DEF GiveStores, GiveFails, Giving, At
    <3>. QED BY <2>1, <3>1, <1>4 DEF GiveStores, GiveFails, TypeOK
  <2>2. CASE TakeCredits(p)
    <3>1. Head(job[p].list) \in Players BY <2>2, JobShape DEF TakeCredits, At
    <3>. QED BY <2>2, <3>1 DEF TakeCredits, TypeOK
  <2>3. CASE TakeClears(p)
    <3>1. Head(job[p].list) \in Players BY <2>3, JobShape DEF TakeClears, At
    <3>2. points[p][Head(job[p].list)] \in Row BY <3>1 DEF TypeOK
    <3>6. [points[p][Head(job[p].list)] EXCEPT !.num = 0] \in Row BY <3>2
    <3>3. points' = [points EXCEPT ![p][Head(job[p].list)].num = 0] BY <2>3 DEF TakeClears
    <3>4. points' \in [Players -> [Players -> Row]] BY <3>1, <3>6, <3>3 DEF TypeOK
    <3>. QED BY <2>3, <3>4 DEF TakeClears, TypeOK
  <2>4. CASE UNCHANGED <<points, gifts, owed>> BY <2>4 DEF TypeOK
  <2>. QED BY <2>1, <2>2, <2>3, <2>4
       DEF Points, Give, Take, GivePasses, GiveCounts, TakeReads, giving
<1>. QED BY <1>1, <1>2, <1>3, <1>5 DEF TypeOK, relation, time

\* A player is put into, or taken out of, the set of another one.
LEMMA SetUpdate ==
  ASSUME NEW f \in [Players -> SUBSET Players], NEW g, NEW x \in Players, NEW y \in Players,
         g = [f EXCEPT ![x] = f[x] \cup {y}] \/ g = [f EXCEPT ![x] = f[x] \ {y}]
  PROVE  g \in [Players -> SUBSET Players]
<1>. DEFINE Sets == SUBSET Players
<1>1. f[x] \cup {y} \in Sets /\ f[x] \ {y} \in Sets OBVIOUS
<1>2. f \in [Players -> Sets] OBVIOUS
<1>. HIDE DEF Sets
<1>3. g \in [Players -> Sets] BY <1>1, <1>2
<1>. QED BY <1>3 DEF Sets

LEMMA RelatingType == ASSUME TypeOK, NEW p \in Players, Relating(p) PROVE TypeOK'
<1>1. job' \in [Players -> Jobs] /\ job[p].whom \in Players BY RelatingStep
<1>2. friends' \in [Players -> SUBSET Players]
  <2>1. friends' = friends \/ \E x, y \in Players :
          \/ friends' = [friends EXCEPT ![x] = friends[x] \cup {y}]
          \/ friends' = [friends EXCEPT ![x] = friends[x] \ {y}]
    BY <1>1 DEF Relating, AgreeOther, AgreeOwn, RemoveOther, RemoveOwn, CallFails
  <2>2. friends \in [Players -> SUBSET Players] BY DEF TypeOK
  <2>3. CASE friends' = friends BY <2>2, <2>3
  <2>4. CASE friends' # friends
    <3>1. PICK x \in Players, y \in Players :
            \/ friends' = [friends EXCEPT ![x] = friends[x] \cup {y}]
            \/ friends' = [friends EXCEPT ![x] = friends[x] \ {y}]
      BY <2>1, <2>4
    <3>. QED BY <2>2, <3>1, SetUpdate, Zenon
  <2>. QED BY <2>3, <2>4
<1>4. reqs' \in [Players -> SUBSET Players]
  <2>1. reqs' = reqs \/ reqs' = [reqs EXCEPT ![p] = reqs[p] \ {job[p].whom}]
    BY DEF Relating, AgreeOther, AgreeOwn, RemoveOther, RemoveOwn, CallFails
  <2>2. reqs \in [Players -> SUBSET Players] BY DEF TypeOK
  <2>. QED BY <1>1, <2>1, <2>2, SetUpdate, Zenon
<1>3. UNCHANGED <<giving, time, requests>>
  BY DEF Relating, AgreeOther, AgreeOwn, RemoveOther, RemoveOwn, CallFails
<1>. QED BY <1>1, <1>2, <1>3, <1>4 DEF TypeOK, giving, time

LEMMA RequestType ==
  ASSUME TypeOK, NEW p \in Players, NEW q \in Players,
         Ask(p, q) \/ Refuse(p, q) \/ Agree(p, q) \/ Remove(p, q)
  PROVE  TypeOK'
<1>1. CASE Ask(p, q) \/ Refuse(p, q)
  <2>1. \/ reqs' = [reqs EXCEPT ![q] = reqs[q] \cup {p}]
        \/ reqs' = [reqs EXCEPT ![p] = reqs[p] \ {q}]
    BY <1>1 DEF Ask, Refuse
  <2>2. reqs \in [Players -> SUBSET Players] BY DEF TypeOK
  <2>3. reqs' \in [Players -> SUBSET Players] BY <2>1, <2>2, SetUpdate, Zenon
  <2>. QED BY <1>1, <2>3 DEF Ask, Refuse, giving, time, TypeOK
<1>2. CASE Agree(p, q) \/ Remove(p, q)
  <2>1. PICK at \in {"agree", "remove"} : RelateRequest(p, q, at)
    BY <1>2 DEF Agree, Remove
  <2>2. job' \in [Players -> Jobs] BY <2>1, RelateStep
  <2>. QED BY <2>1, <2>2 DEF RelateRequest, Request, giving, time, TypeOK
<1>. QED BY <1>1, <1>2

LEMMA TimeType == ASSUME TypeOK, Midnight \/ NewDay PROVE TypeOK'
<1>1. CASE Midnight
  <2>1. late' \in BOOLEAN BY <1>1 DEF Midnight
  <2>. QED BY <1>1, <2>1 DEF Midnight, relation, giving, TypeOK
<1>2. CASE NewDay
  <2>1. late' \in BOOLEAN BY <1>2 DEF NewDay
  <2>2. gifts' \in [Players -> [Players -> Nat]] /\ rewarded' \in [Players -> Nat]
    BY <1>2 DEF NewDay
  <2>. QED BY <1>2, <2>1, <2>2 DEF NewDay, relation, giving, TypeOK
<1>. QED BY <1>1, <1>2

\* What a step is, by what it is about.
LEMMA StepCases ==
  ASSUME Next
  PROVE  \/ Midnight \/ NewDay
         \/ \E p, q \in Players : Ask(p, q) \/ Refuse(p, q) \/ Agree(p, q) \/ Remove(p, q)
         \/ \E p \in Players : Relating(p)
         \/ \E p \in Players : Points(p)
BY ActiveAssumption DEF Next, Relating, Points

LEMMA NextType == ASSUME TypeOK, [Next]_vars PROVE TypeOK'
<1>1. CASE UNCHANGED vars BY <1>1 DEF vars, relation, giving, time, TypeOK
<1>. QED BY <1>1, StepCases, TimeType, RequestType, RelatingType, PointsType

\* Every variable keeps its type (TypeOK): a handler that goes from one player
\* of a list to the next (give_friends_points, get_friend_points) always has
\* one, and today_num and the gifts of the day never go below nothing.
THEOREM TypeCorrect == Spec => []TypeOK
BY InitType, NextType, PTL DEF Spec

-----------------------------------------------------------------------------
(* Friends are friends of each other.                                      *)

\* A step of p that is about q says nothing of other pairs.
LEMMA OtherPairs ==
  ASSUME NEW p \in Players, NEW q \in Players,
         \A s \in Players \ {p} : job'[s] = job[s],
         \A x \in Players : Relates(p, x) \/ Relates(p, x)' => x = q,
         \A x, y \in Players : {x, y} # {p, q} => (x \in friends'[y] <=> x \in friends[y]),
         NEW a \in Players, NEW b \in Players, {a, b} # {p, q}, PairInv(a, b)
  PROVE  PairInv(a, b)'
<1>1. ~(a = p /\ b = q) /\ ~(a = q /\ b = p) OBVIOUS
<1>2. {b, a} # {p, q} OBVIOUS
<1>3. (a \in friends'[b] <=> a \in friends[b]) /\ (b \in friends'[a] <=> b \in friends[a])
  BY <1>2
<1>4. Relates(a, b)' <=> Relates(a, b) BY <1>1 DEF Relates
<1>5. Relates(b, a)' <=> Relates(b, a) BY <1>1 DEF Relates
<1>6. Halfway(a, b)' <=> Halfway(a, b) BY <1>1 DEF Relates, Halfway
<1>7. Halfway(b, a)' <=> Halfway(b, a) BY <1>1 DEF Relates, Halfway
<1>8. Halfway(a, b) => (At(a, "own")' <=> At(a, "own")) BY <1>1 DEF Relates, Halfway, At
<1>. QED BY <1>3, <1>4, <1>5, <1>6, <1>7, <1>8 DEF PairInv

\* A step of p that does not concern friendships.
LEMMA NoPair ==
  ASSUME RelationInv, TypeOK', NEW p \in Players, UNCHANGED <<friends, torn>>,
         \A s \in Players \ {p} : job'[s] = job[s],
         job'[p] = job[p] \/ \A x \in Players : ~Relates(p, x) /\ ~Relates(p, x)'
  PROVE  RelationInv'
<1>1. \A x, y \in Players : /\ Relates(x, y)' <=> Relates(x, y)
                            /\ Halfway(x, y)' <=> Halfway(x, y)
                            /\ Halfway(x, y) => (At(x, "own")' <=> At(x, "own"))
  BY DEF Relates, Halfway, At
<1>2. \A x, y \in Players : PairInv(x, y) => PairInv(x, y)' BY <1>1 DEF PairInv
<1>. QED BY <1>2 DEF RelationInv

LEMMA RequestPair ==
  ASSUME RelationInv, TypeOK', NEW p \in Players, NEW q \in Players,
         NEW at \in {"agree", "remove"}, RelateRequest(p, q, at)
  PROVE  RelationInv'
<1>1. /\ job'[p].at = at /\ job'[p].whom = q /\ job[p].at = "idle"
      /\ \A s \in Players \ {p} : job'[s] = job[s]
  BY RelateStep DEF RelationInv
<1>2. friends' = friends /\ torn' = IF Relates(q, p) THEN torn \cup {{p, q}} ELSE torn
  BY DEF RelateRequest
<1>3. ASSUME NEW a \in Players, NEW b \in Players, {a, b} \notin torn'
      PROVE  PairInv(a, b)'
  <2>1. {a, b} \notin torn /\ PairInv(a, b) BY <1>2, <1>3 DEF RelationInv
  <2>2. CASE {a, b} # {p, q}
    <3>1. \A x \in Players : Relates(p, x) \/ Relates(p, x)' => x = q BY <1>1 DEF Relates
    <3>. QED BY <1>1, <1>2, <2>1, <2>2, <3>1, OtherPairs
  <2>3. CASE {a, b} = {p, q}
    <3>1. ~Relates(q, p) BY <1>2, <1>3, <2>3
    <3>2. (a = p /\ b = q) \/ (a = q /\ b = p) BY <2>3
    <3>3. p # q => ~Relates(q, p)' BY <3>1, <1>1 DEF Relates
    <3>4. \A x, y \in Players : /\ Halfway(x, y)' <=> Halfway(x, y)
                                /\ Halfway(x, y) => (At(x, "own")' <=> At(x, "own"))
      BY <1>1 DEF Halfway, At
    <3>. QED BY <1>2, <2>1, <3>2, <3>3, <3>4 DEF PairInv
  <2>. QED BY <2>2, <2>3
<1>. QED BY <1>3 DEF RelationInv

LEMMA RelatingPair ==
  ASSUME RelationInv, TypeOK', NEW p \in Players, Relating(p)
  PROVE  RelationInv'
<1>. PICK q \in Players : q = job[p].whom BY RelatingStep DEF RelationInv
<1>1. /\ \A s \in Players \ {p} : job'[s] = job[s]
      /\ AgreeOther(p) => job'[p].at = "own" /\ job'[p].whom = q
      /\ RemoveOther(p) => job'[p].at = "leave" /\ job'[p].whom = q
      /\ AgreeOwn(p) \/ RemoveOwn(p) \/ CallFails(p) => job'[p].at = "idle"
  BY RelatingStep DEF RelationInv, Idle
<1>2. Relates(p, q) /\ \A x \in Players : Relates(p, x) \/ Relates(p, x)' => x = q
  BY <1>1 DEF Relating, AgreeOther, AgreeOwn, RemoveOther, RemoveOwn, CallFails, Relates, At
<1>3. torn \subseteq torn'
  BY DEF Relating, AgreeOther, AgreeOwn, RemoveOther, RemoveOwn, CallFails, relation
<1>4. friends \in [Players -> SUBSET Players] BY DEF RelationInv, TypeOK
<1>5. \A x, y \in Players : {x, y} # {p, q} => (x \in friends'[y] <=> x \in friends[y])
  BY <1>1, <1>4 DEF Relating, AgreeOther, AgreeOwn, RemoveOther, RemoveOwn, CallFails
<1>6. ASSUME {p, q} \notin torn'
      PROVE  PairInv(p, q)' /\ PairInv(q, p)'
  <2>1. {p, q} = {q, p} /\ {p, q} \notin torn BY <1>3, <1>6
  <2>2. PairInv(p, q) /\ PairInv(q, p) BY <1>1, <2>1 DEF RelationInv
  <2>3. p # q => ~Relates(q, p) /\ ~Relates(q, p)' BY <1>1, <1>2, <2>2 DEF PairInv, Relates
  <2>4. p # q => ~Halfway(q, p) /\ ~Halfway(q, p)' BY <2>3 DEF Relates, Halfway
  <2>5. CASE AgreeOther(p)
    <3>1. p \in friends'[q] BY <1>1, <1>4, <2>5 DEF AgreeOther
    <3>2. Halfway(p, q)' /\ At(p, "own")' BY <1>1, <2>5 DEF Halfway, At
    <3>. QED BY <2>3, <2>4, <3>1, <3>2 DEF PairInv
  <2>6. CASE RemoveOther(p)
    <3>1. p \notin friends'[q] BY <1>1, <1>4, <2>6 DEF RemoveOther
    <3>2. Halfway(p, q)' /\ ~At(p, "own")' BY <1>1, <2>6 DEF Halfway, At
    <3>. QED BY <2>3, <2>4, <3>1, <3>2 DEF PairInv
  <2>7. CASE AgreeOwn(p)
    <3>1. p \in friends[q] BY <2>2, <2>7, <1>1 DEF PairInv, Halfway, AgreeOwn, At
    <3>2. q \in friends'[p] /\ p \in friends'[q] BY <1>1, <1>4, <2>7, <3>1 DEF AgreeOwn
    <3>3. ~Relates(p, q)' /\ ~Halfway(p, q)' BY <1>1, <2>7 DEF Halfway, Relates
    <3>. QED BY <2>3, <2>4, <3>2, <3>3 DEF PairInv
  <2>8. CASE RemoveOwn(p)
    <3>1. p \notin friends[q] BY <2>2, <2>8, <1>1 DEF PairInv, Halfway, RemoveOwn, At
    <3>2. q \notin friends'[p] /\ p \notin friends'[q] BY <1>1, <1>4, <2>8, <3>1 DEF RemoveOwn
    <3>3. ~Relates(p, q)' /\ ~Halfway(p, q)' BY <1>1, <2>8 DEF Halfway, Relates
    <3>. QED BY <2>3, <2>4, <3>2, <3>3 DEF PairInv
  <2>9. CASE CallFails(p)
    <3>1. friends' = friends BY <1>6, <2>9 DEF CallFails
    <3>2. ~Halfway(p, q) BY <2>9 DEF CallFails, Halfway, At
    <3>3. p \in friends[q] <=> q \in friends[p] BY <2>2, <2>4, <3>2 DEF PairInv
    <3>4. ~Relates(p, q)' /\ ~Halfway(p, q)' BY <1>1, <2>9 DEF Halfway, Relates
    <3>. QED BY <2>3, <2>4, <3>1, <3>3, <3>4 DEF PairInv
  <2>. QED BY <2>5, <2>6, <2>7, <2>8, <2>9 DEF Relating
<1>7. ASSUME NEW a \in Players, NEW b \in Players, {a, b} \notin torn'
      PROVE  PairInv(a, b)'
  <2>1. PairInv(a, b) BY <1>3, <1>7 DEF RelationInv
  <2>2. CASE {a, b} = {p, q}
    <3>1. (a = p /\ b = q) \/ (a = q /\ b = p) BY <2>2
    <3>. QED BY <1>6, <1>7, <2>2, <3>1
  <2>3. CASE {a, b} # {p, q} BY <1>1, <1>2, <1>5, <2>1, <2>3, OtherPairs
  <2>. QED BY <2>2, <2>3
<1>. QED BY <1>7 DEF RelationInv

LEMMA InitPair == Init => RelationInv
<1>1. Init => \A p, q \in Players : PairInv(p, q)
  BY DEF Init, PairInv, Relates, Halfway, Idle
<1>. QED BY <1>1, InitType DEF RelationInv

LEMMA NextPair == ASSUME RelationInv, [Next]_vars PROVE RelationInv'
<1>1. TypeOK' BY NextType DEF RelationInv
<1>2. CASE UNCHANGED <<friends, torn, job>>
  BY <1>1, <1>2 DEF RelationInv, PairInv, Relates, Halfway, At
<1>3. CASE \E p, q \in Players : Ask(p, q) \/ Refuse(p, q) \/ Agree(p, q) \/ Remove(p, q)
  <2>1. PICK p \in Players, q \in Players :
          Ask(p, q) \/ Refuse(p, q) \/ Agree(p, q) \/ Remove(p, q)
    BY <1>3
  <2>2. CASE Ask(p, q) \/ Refuse(p, q) BY <1>2, <2>2 DEF Ask, Refuse
  <2>3. CASE Agree(p, q) \/ Remove(p, q) BY <1>1, <2>3, RequestPair DEF Agree, Remove
  <2>. QED BY <2>1, <2>2, <2>3
<1>4. CASE \E p \in Players : Relating(p) BY <1>1, <1>4, RelatingPair
<1>5. CASE \E p \in Players : Points(p)
  <2>1. PICK p \in Players : Points(p) BY <1>5
  <2>2. /\ \A s \in Players \ {p} : job'[s] = job[s]
        /\ \A x \in Players : ~Relates(p, x) /\ ~Relates(p, x)'
        /\ UNCHANGED <<friends, torn>>
    BY <2>1, PointsStep DEF RelationInv, Relates, relation
  <2>. QED BY <1>1, <2>2, NoPair
<1>6. CASE Midnight \/ NewDay \/ UNCHANGED vars
  BY <1>2, <1>6 DEF Midnight, NewDay, vars, relation
<1>. QED BY <1>3, <1>4, <1>5, <1>6, StepCases

LEMMA PairsBothWays == RelationInv => FriendsBothWays
<1>1. ASSUME RelationInv, NEW p \in Players, NEW q \in Players, {p, q} \notin torn,
             ~Relates(p, q), ~Relates(q, p)
      PROVE  p \in friends[q] <=> q \in friends[p]
  <2>1. PairInv(p, q) BY <1>1 DEF RelationInv
  <2>2. ~Halfway(p, q) /\ ~Halfway(q, p) BY <1>1 DEF Relates, Halfway
  <2>. QED BY <2>1, <2>2 DEF PairInv
<1>. QED BY <1>1 DEF FriendsBothWays

\* Two players whose friendship no handler is changing are friends of each
\* other or not at all, however many handlers change rows one after the other
\* (agree_add_friend, remove_friend), until a call fails half-way or one ends
\* the friendship while the other makes it.
THEOREM BothRowsAgree == Spec => []FriendsBothWays
<1>1. Spec => []RelationInv BY InitPair, NextPair, PTL DEF Spec
<1>. QED BY <1>1, PairsBothWays, PTL

-----------------------------------------------------------------------------
(* Friend points: what the actions do to the rows.                         *)

\* store_friend_points gives a day to a gift and its points to the friend.
LEMMA StoreRows ==
  ASSUME TypeOK, NEW p \in Players, NEW q \in Players, Store(p, q)
  PROVE  /\ points'[q][p].num = 1 /\ points'[q][p].given = day
         /\ gifts'[p][q] = gifts[p][q] + 1 /\ owed'[p][q] = owed[p][q] + 1
         /\ \A a, b \in Players : ~(a = p /\ b = q) =>
              /\ points'[b][a] = points[b][a]
              /\ gifts'[a][b] = gifts[a][b] /\ owed'[a][b] = owed[a][b]
<1>1. points' = [points EXCEPT ![q] = [points[q] EXCEPT ![p] = [num |-> 1, given |-> day]]]
  BY DEF Store
<1>2. gifts' = [gifts EXCEPT ![p] = [gifts[p] EXCEPT ![q] = gifts[p][q] + 1]] BY DEF Store
<1>3. owed' = [owed EXCEPT ![p] = [owed[p] EXCEPT ![q] = owed[p][q] + 1]] BY DEF Store
<1>4. /\ points'[q][p] = [num |-> 1, given |-> day]
      /\ \A a, b \in Players : ~(a = p /\ b = q) => points'[b][a] = points[b][a]
  BY <1>1 DEF TypeOK
<1>5. /\ gifts'[p][q] = gifts[p][q] + 1
      /\ \A a, b \in Players : ~(a = p /\ b = q) => gifts'[a][b] = gifts[a][b]
  BY <1>2 DEF TypeOK
<1>6. /\ owed'[p][q] = owed[p][q] + 1
      /\ \A a, b \in Players : ~(a = p /\ b = q) => owed'[a][b] = owed[a][b]
  BY <1>3 DEF TypeOK
<1>. QED BY <1>4, <1>5, <1>6

\* The points of a friend are cleared.
LEMMA ClearRows ==
  ASSUME TypeOK, NEW p \in Players, NEW q \in Players,
         points' = [points EXCEPT ![p][q].num = 0]
  PROVE  /\ points'[p][q].num = 0
         /\ \A a, b \in Players : /\ points'[b][a].given = points[b][a].given
                                  /\ ~(a = q /\ b = p) => points'[b][a] = points[b][a]
<1>1. points' = [points EXCEPT ![p] = [points[p] EXCEPT ![q] =
                   [points[p][q] EXCEPT !.num = 0]]]
  OBVIOUS
<1>2. points[p][q] \in [num : 0..1, given : Nat] BY DEF TypeOK
<1>3. PICK row : row = [points[p][q] EXCEPT !.num = 0] OBVIOUS
<1>4. points' = [points EXCEPT ![p] = [points[p] EXCEPT ![q] = row]] BY <1>1, <1>3
<1>5. /\ points'[p][q] = row
      /\ \A a, b \in Players : ~(a = q /\ b = p) => points'[b][a] = points[b][a]
  BY <1>4 DEF TypeOK
<1>6. row.num = 0 /\ row.given = points[p][q].given BY <1>2, <1>3
<1>. QED BY <1>5, <1>6

\* A step that is not about points leaves them alone, with the day.
LEMMA PointsKept ==
  ASSUME Midnight \/ (\E p, q \in Players : Ask(p, q) \/ Refuse(p, q) \/ Agree(p, q) \/ Remove(p, q))
                  \/ (\E p \in Players : Relating(p)) \/ UNCHANGED vars
  PROVE  UNCHANGED <<giving, day>>
BY DEF Midnight, Ask, Refuse, Agree, Remove, RelateRequest, Relating, AgreeOther, AgreeOwn,
       RemoveOther, RemoveOwn, CallFails, vars, time

-----------------------------------------------------------------------------
(* One gift a day.                                                         *)

LEMMA InitGift == Init => GiftInv
<1>1. Init => DateInv BY DEF Init, DateInv
<1>. QED BY <1>1, InitType DEF GiftInv

LEMMA PointsGift == ASSUME GiftInv, NEW p \in Players, Points(p) PROVE DateInv'
<1>1. TypeOK /\ DateInv /\ day' = day BY PointsStep DEF GiftInv, time
<1>2. CASE \E q \in Players : MayStore(p, q) /\ Store(p, q)
  <2>1. PICK q \in Players : MayStore(p, q) /\ Store(p, q) BY <1>2
  <2>2. points[q][p].given < day /\ points[q][p].given \in Nat /\ gifts[p][q] \in Nat /\ day \in Nat
    BY <1>1, <2>1 DEF MayStore, TypeOK
  <2>3. gifts[p][q] = 0 BY <1>1, <2>2 DEF DateInv
  <2>4. gifts'[p][q] = 1 /\ points'[q][p].given = day BY <1>1, <2>1, <2>3, StoreRows
  <2>5. \A a, b \in Players : ~(a = p /\ b = q) =>
          points'[b][a] = points[b][a] /\ gifts'[a][b] = gifts[a][b]
    BY <1>1, <2>1, StoreRows
  <2>6. ASSUME NEW a \in Players, NEW b \in Players, gifts'[a][b] > 0
        PROVE  gifts'[a][b] = 1 /\ points'[b][a].given = day
    <3>1. CASE a = p /\ b = q BY <2>4, <3>1
    <3>2. CASE ~(a = p /\ b = q)
      <4>1. points'[b][a] = points[b][a] /\ gifts'[a][b] = gifts[a][b] BY <2>5, <3>2
      <4>. QED BY <1>1, <2>6, <4>1 DEF DateInv
    <3>. QED BY <3>1, <3>2
  <2>. QED BY <1>1, <2>6 DEF DateInv
<1>3. CASE TakeClears(p)
  <2>1. PICK q \in Players : q = Head(job[p].list) BY <1>1, <1>3, JobShape DEF TakeClears, At
  <2>2. points' = [points EXCEPT ![p][q].num = 0] /\ gifts' = gifts
    BY <1>3, <2>1 DEF TakeClears
  <2>3. \A a, b \in Players : points'[b][a].given = points[b][a].given
    BY <1>1, <2>2, ClearRows
  <2>. QED BY <1>1, <2>2, <2>3 DEF DateInv
<1>4. CASE UNCHANGED <<points, gifts>> BY <1>1, <1>4 DEF DateInv
<1>5. CASE GiveStores(p) \/ GiveFails(p)
  <2>1. Head(job[p].list) \in Players
    BY <1>1, <1>5, JobShape DEF GiveStores, GiveFails, Giving, At
  <2>. QED BY <1>2, <1>4, <1>5, <2>1 DEF GiveStores, GiveFails
<1>. QED BY <1>3, <1>4, <1>5
     DEF Points, Give, Take, GivePasses, GiveCounts, TakeReads, TakeCredits, giving

LEMMA NextGift == ASSUME GiftInv, [Next]_vars PROVE GiftInv'
<1>1. TypeOK' BY NextType DEF GiftInv
<1>2. CASE NewDay BY <1>1, <1>2 DEF NewDay, GiftInv, DateInv
<1>3. CASE UNCHANGED <<giving, day>> BY <1>1, <1>3 DEF GiftInv, DateInv, giving
<1>. QED BY <1>1, <1>2, <1>3, PointsKept, PointsGift, StepCases DEF GiftInv

LEMMA GiftIsOne == GiftInv => OneGiftADay
<1>1. ASSUME GiftInv, NEW p \in Players, NEW q \in Players PROVE gifts[p][q] <= 1
  <2>1. gifts[p][q] \in Nat BY <1>1 DEF GiftInv, TypeOK
  <2>. QED BY <1>1, <2>1 DEF GiftInv, DateInv
<1>. QED BY <1>1 DEF OneGiftADay

\* However friendships are ended and made again, and whatever calls fail, a
\* player gives another one points once a day (store_friend_points and
\* remove_friend_data, which leaves the date of the last gift).
THEOREM GiftsAreDated == Spec => []OneGiftADay
<1>1. Spec => []GiftInv BY InitGift, NextGift, PTL DEF Spec
<1>. QED BY <1>1, GiftIsOne, PTL

-----------------------------------------------------------------------------
(* Points are taken once.                                                  *)

LEMMA DoesIt ==
  ASSUME TypeOK, NEW p \in Players, NEW what, Does(p, what)
  PROVE  job'[p] = what /\ \A s \in Players \ {p} : job'[s] = job[s]
BY DEF Does, TypeOK

\* Who is giving points is crediting and clearing none.
LEMMA GivingJob ==
  ASSUME TypeOK, NEW p \in Players,
         \/ \E list \in GiveLists : Give(p, list) \/ Take(p, list)
         \/ GivePasses(p) \/ GiveStores(p) \/ GiveCounts(p) \/ GiveFails(p)
  PROVE  job[p].at \notin {"credit", "clear"} /\ job'[p].at \notin {"credit", "clear"}
<1>1. CASE \E list \in GiveLists : Give(p, list) \/ Take(p, list)
  <2>1. PICK list \in GiveLists : Give(p, list) \/ Take(p, list) BY <1>1
  <2>2. CASE Give(p, list)
    <3>1. job[p].at = "idle" BY <2>2 DEF Give, Request, At
    <3>2. \/ job'[p] = Idle \/ job'[p] = [at |-> "give", list |-> list, num |-> giveNum'[p]]
      BY <2>2, DoesIt DEF Give, Request
    <3>. QED BY <3>1, <3>2 DEF Idle
  <2>3. CASE Take(p, list)
    <3>1. job'[p] = [at |-> "take", list |-> list] /\ job[p].at = "idle"
      BY <2>3, DoesIt DEF Take, Request, At
    <3>. QED BY <3>1
  <2>. QED BY <2>1, <2>2, <2>3
<1>2. CASE GivePasses(p) \/ GiveStores(p) \/ GiveCounts(p) \/ GiveFails(p)
  <2>1. job[p].at \in {"give", "given"}
    BY <1>2 DEF GivePasses, GiveStores, GiveCounts, GiveFails, Giving, At
  <2>2. /\ job[p] \in [at : {"give", "given"}, list : Lists, num : Nat]
        /\ \/ Rest(p) = Idle
           \/ Rest(p) \in [at : {"give", "given"}, list : Lists, num : Nat]
    BY <2>1, JobShape, RestJob
  <2>3. \/ job'[p] = Idle \/ job'[p] = Rest(p) \/ job'[p] = [job[p] EXCEPT !.at = "given"]
        \/ Rest(p) # Idle /\ job'[p] = [Rest(p) EXCEPT !.at = "give", !.num = giveNum'[p]]
    BY <1>2, DoesIt DEF GivePasses, GiveStores, GiveCounts, GiveFails
  <2>4. CASE job'[p] = Idle BY <2>1, <2>4 DEF Idle
  <2>5. CASE job'[p] = [job[p] EXCEPT !.at = "given"] BY <2>1, <2>2, <2>5
  <2>6. CASE Rest(p) # Idle /\ job'[p] = Rest(p) BY <2>1, <2>2, <2>6
  <2>7. CASE Rest(p) # Idle /\ job'[p] = [Rest(p) EXCEPT !.at = "give", !.num = giveNum'[p]]
    BY <2>1, <2>2, <2>7
  <2>. QED BY <2>3, <2>4, <2>5, <2>6, <2>7
<1>. QED BY <1>1, <1>2

\* Taking the points of a friend goes from reading to crediting to clearing.
LEMMA TakingJob ==
  ASSUME TypeOK, NEW p \in Players, TakeReads(p) \/ TakeCredits(p) \/ TakeClears(p)
  PROVE  /\ Head(job[p].list) \in Players
         /\ TakeReads(p) => /\ job[p].at = "take"
                            /\ \/ job'[p].at \in {"idle", "take"}
                               \/ /\ job'[p].at = "credit" /\ job'[p].list = job[p].list
                                  /\ points[p][Head(job[p].list)].num # 0
         /\ TakeCredits(p) => /\ job[p].at = "credit"
                              /\ job'[p].at = "clear" /\ job'[p].list = job[p].list
         /\ TakeClears(p) => job[p].at = "clear" /\ job'[p].at \in {"idle", "take"}
<1>. DEFINE Taking == [at : {"take", "credit", "clear"}, list : Lists]
<1>1. job[p].at \in {"take", "credit", "clear"} BY DEF TakeReads, TakeCredits, TakeClears, At
<1>2. /\ job[p] \in Taking /\ Head(job[p].list) \in Players
      /\ Rest(p) = Idle \/ (Rest(p) \in Taking /\ Rest(p).at = job[p].at)
  BY <1>1, JobShape, RestJob
<1>3. CASE TakeReads(p)
  <2>1. \/ job'[p] = Rest(p)
        \/ job'[p] = [job[p] EXCEPT !.at = "credit"] /\ points[p][Head(job[p].list)].num # 0
    BY <1>3, DoesIt DEF TakeReads
  <2>2. job[p].at = "take" BY <1>3 DEF TakeReads, At
  <2>. QED BY <1>2, <1>3, <2>1, <2>2 DEF Idle, TakeCredits, TakeClears, At
<1>4. CASE TakeCredits(p)
  <2>1. job'[p] = [job[p] EXCEPT !.at = "clear"] /\ job[p].at = "credit"
    BY <1>4, DoesIt DEF TakeCredits, At
  <2>. QED BY <1>2, <1>4, <2>1 DEF TakeReads, TakeClears, At
<1>5. CASE TakeClears(p)
  <2>1. job'[p] = Idle \/ (Rest(p) # Idle /\ job'[p] = [Rest(p) EXCEPT !.at = "take"])
    BY <1>5, DoesIt DEF TakeClears
  <2>2. job[p].at = "clear" BY <1>5 DEF TakeClears, At
  <2>. QED BY <1>2, <1>5, <2>1, <2>2 DEF Idle, TakeReads, TakeCredits, At
<1>. QED BY <1>3, <1>4, <1>5

\* What is wanted of two players.
Owes(a, b) ==
  /\ owed[a][b] >= IF Clears(b, a) THEN 0 ELSE points[b][a].num
  /\ Credits(b, a) => points[b][a].num = 1

LEMMA InitOwed == Init => OwedInv
<1>1. Init => \A a, b \in Players : Owes(a, b) BY DEF Init, Owes, Clears, Credits, At, Idle
<1>. QED BY <1>1, InitType DEF OwedInv, Owes

LEMMA OwedStays ==
  ASSUME NEW a \in Players, NEW b \in Players, Owes(a, b), Clears(b, a)' <=> Clears(b, a),
         Credits(b, a)' => Credits(b, a), points'[b][a] = points[b][a], owed'[a][b] = owed[a][b]
  PROVE  Owes(a, b)'
BY DEF Owes

LEMMA PointsOwed ==
  ASSUME OwedInv, NEW p \in Players, Points(p), NEW a \in Players, NEW b \in Players
  PROVE  Owes(a, b)'
<1>. DEFINE h == Head(job[p].list)
<1>1. TypeOK /\ Owes(a, b) /\ \A s \in Players \ {p} : job'[s] = job[s]
  BY PointsStep DEF OwedInv, Owes
<1>2. b # p => (Clears(b, a)' <=> Clears(b, a)) /\ (Credits(b, a)' <=> Credits(b, a))
  BY <1>1 DEF Clears, Credits, At
<1>3. points[b][a].num \in 0..1 /\ owed[a][b] \in Int BY <1>1 DEF TypeOK
<1>4. CASE \/ \E list \in GiveLists : Give(p, list) \/ Take(p, list)
           \/ GivePasses(p) \/ GiveStores(p) \/ GiveCounts(p) \/ GiveFails(p)
  <2>1. ~Clears(p, a) /\ ~Clears(p, a)' /\ ~Credits(p, a) /\ ~Credits(p, a)'
    BY <1>1, <1>4, GivingJob DEF Clears, Credits, At
  <2>2. (Clears(b, a)' <=> Clears(b, a)) /\ (Credits(b, a)' <=> Credits(b, a)) BY <1>2, <2>1
  <2>3. CASE UNCHANGED <<points, owed>> BY <1>1, <2>2, <2>3, OwedStays
  <2>4. CASE \E q \in Players : Store(p, q)
    <3>1. PICK q \in Players : Store(p, q) BY <2>4
    <3>2. CASE a = p /\ b = q
      <4>1. points'[b][a].num = 1 /\ owed'[a][b] = owed[a][b] + 1
        BY <1>1, <3>1, <3>2, StoreRows
      <4>2. owed[a][b] >= 0 BY <1>1, <1>3 DEF Owes
      <4>. QED BY <1>3, <2>2, <4>1, <4>2 DEF Owes
    <3>3. CASE ~(a = p /\ b = q)
      <4>1. points'[b][a] = points[b][a] /\ owed'[a][b] = owed[a][b]
        BY <1>1, <3>1, <3>3, StoreRows
      <4>. QED BY <1>1, <2>2, <4>1, OwedStays
    <3>. QED BY <3>2, <3>3
  <2>5. CASE GiveStores(p) \/ GiveFails(p)
    <3>1. h \in Players BY <1>1, <2>5, JobShape DEF GiveStores, GiveFails, Giving, At
    <3>. QED BY <2>3, <2>4, <2>5, <3>1 DEF GiveStores, GiveFails
  <2>. QED BY <1>4, <2>3, <2>5 DEF Give, Take, GivePasses, GiveCounts, giving
<1>5. CASE TakeReads(p) \/ TakeCredits(p) \/ TakeClears(p)
  <2>1. h \in Players BY <1>1, <1>5, TakingJob
  <2>2. CASE ~(b = p /\ a = h)
    <3>1. points'[b][a] = points[b][a] /\ owed'[a][b] = owed[a][b]
      <4>1. CASE TakeReads(p) BY <4>1 DEF TakeReads, giving
      <4>2. CASE TakeCredits(p)
        <5>1. owed' = [owed EXCEPT ![h] = [owed[h] EXCEPT ![p] = owed[h][p] - 1]]
          BY <4>2 DEF TakeCredits
        <5>2. points' = points BY <4>2 DEF TakeCredits
        <5>3. owed \in [Players -> [Players -> Int]] BY <1>1 DEF TypeOK
        <5>4. CASE a # h
          <6>1. owed'[a] = owed[a] BY <5>1, <5>3, <5>4
          <6>. QED BY <5>2, <6>1
        <5>5. CASE a = h
          <6>1. owed'[a] = [owed[a] EXCEPT ![p] = owed[a][p] - 1] BY <2>1, <5>1, <5>3, <5>5
          <6>2. b # p BY <2>2, <5>5
          <6>. QED BY <5>2, <6>1, <6>2
        <5>. QED BY <5>4, <5>5
      <4>3. CASE TakeClears(p)
        <5>1. points' = [points EXCEPT ![p][h].num = 0] /\ owed' = owed BY <4>3 DEF TakeClears
        <5>2. PICK q \in Players : q = h BY <2>1
        <5>3. points' = [points EXCEPT ![p][q].num = 0] BY <5>1, <5>2
        <5>4. \A x, y \in Players : ~(x = q /\ y = p) => points'[y][x] = points[y][x]
          BY <1>1, <5>3, ClearRows
        <5>. QED BY <2>2, <5>1, <5>2, <5>4
      <4>. QED BY <1>5, <4>1, <4>2, <4>3
    <3>2. CASE b # p BY <1>1, <1>2, <3>1, <3>2, OwedStays
    <3>3. CASE b = p
      <4>1. ~Clears(p, a) /\ ~Credits(p, a) BY <2>2, <3>3 DEF Clears, Credits
      <4>2. ~Clears(p, a)' /\ ~Credits(p, a)'
        BY <1>1, <1>5, <2>2, <3>3, TakingJob DEF Clears, Credits, At
      <4>. QED BY <1>1, <3>1, <3>3, <4>1, <4>2, OwedStays
    <3>. QED BY <3>2, <3>3
  <2>3. CASE b = p /\ a = h
    <3>1. CASE TakeReads(p)
      <4>1. points' = points /\ owed' = owed BY <3>1 DEF TakeReads, giving
      <4>2. ~Clears(b, a) /\ ~Clears(b, a)' /\ (Credits(b, a)' => points[b][a].num # 0)
        BY <1>1, <2>3, <3>1, TakingJob DEF Clears, Credits, At
      <4>. QED BY <1>1, <1>3, <4>1, <4>2 DEF Owes
    <3>2. CASE TakeCredits(p)
      <4>1. points' = points /\ owed'[a][b] = owed[a][b] - 1
        BY <1>1, <2>1, <2>3, <3>2 DEF TakeCredits, TypeOK
      <4>2. Credits(b, a) /\ ~Clears(b, a) /\ Clears(b, a)' /\ ~Credits(b, a)'
        BY <1>1, <2>3, <3>2, TakingJob DEF Clears, Credits, At
      <4>3. owed[a][b] >= 1 BY <1>1, <4>2 DEF Owes
      <4>. QED BY <1>3, <4>1, <4>2, <4>3 DEF Owes
    <3>3. CASE TakeClears(p)
      <4>1. points'[b][a].num = 0 /\ owed'[a][b] = owed[a][b]
        BY <1>1, <2>1, <2>3, <3>3, ClearRows DEF TakeClears
      <4>2. ~Credits(b, a)' BY <1>1, <2>3, <3>3, TakingJob DEF Credits, At
      <4>3. owed[a][b] >= 0 BY <1>1, <1>3 DEF Owes
      <4>. QED BY <1>3, <4>1, <4>2, <4>3 DEF Owes
    <3>. QED BY <1>5, <3>1, <3>2, <3>3
  <2>. QED BY <2>2, <2>3
<1>. QED BY <1>4, <1>5 DEF Points

\* Other steps are no part of giving and taking points.
LEMMA JobsAside ==
  ASSUME TypeOK, [Next]_vars, ~\E p \in Players : Points(p), NEW s \in Players
  PROVE  \/ job'[s] = job[s]
         \/ /\ job[s].at \in {"idle", "agree", "own", "remove", "leave"}
            /\ job'[s].at \in {"idle", "agree", "own", "remove", "leave"}
<1>1. CASE \E p \in Players : Relating(p)
  <2>1. PICK p \in Players : Relating(p) BY <1>1
  <2>2. job[p].at \in {"idle", "agree", "own", "remove", "leave"}
    BY <2>1 DEF Relating, AgreeOther, AgreeOwn, RemoveOther, RemoveOwn, CallFails, At
  <2>3. job'[p].at \in {"idle", "agree", "own", "remove", "leave"}
    BY <2>1, RelatingStep DEF Relating, Idle
  <2>. QED BY <2>1, <2>2, <2>3, RelatingStep
<1>2. CASE \E p, q \in Players : Agree(p, q) \/ Remove(p, q)
  <2>1. PICK p \in Players, q \in Players, at \in {"agree", "remove"} : RelateRequest(p, q, at)
    BY <1>2 DEF Agree, Remove
  <2>. QED BY <2>1, RelateStep
<1>3. CASE job' = job BY <1>3
<1>. QED BY <1>1, <1>2, <1>3, StepCases DEF Midnight, NewDay, Ask, Refuse, vars

LEMMA NextOwed == ASSUME OwedInv, [Next]_vars PROVE OwedInv'
<1>1. TypeOK /\ TypeOK' BY NextType DEF OwedInv
<1>2. CASE \E p \in Players : Points(p) BY <1>1, <1>2, PointsOwed DEF OwedInv, Owes
<1>3. CASE ~\E p \in Players : Points(p)
  <2>1. ASSUME NEW a \in Players, NEW b \in Players PROVE Owes(a, b)'
    <3>1. Owes(a, b) BY DEF OwedInv, Owes
    <3>2. UNCHANGED <<points, owed>>
      BY <1>3, PointsKept, StepCases DEF NewDay, giving
    <3>3. (Clears(b, a)' <=> Clears(b, a)) /\ (Credits(b, a)' <=> Credits(b, a))
      BY <1>1, <1>3, JobsAside DEF Clears, Credits, At
    <3>. QED BY <3>1, <3>2, <3>3, OwedStays
  <2>. QED BY <1>1, <2>1 DEF OwedInv, Owes
<1>. QED BY <1>2, <1>3

LEMMA NothingOwed == OwedInv => TakenOnce
<1>1. ASSUME OwedInv, NEW a \in Players, NEW b \in Players PROVE owed[a][b] >= 0
  <2>1. points[b][a].num \in 0..1 /\ owed[a][b] \in Int BY <1>1 DEF OwedInv, TypeOK
  <2>. QED BY <1>1, <2>1 DEF OwedInv
<1>. QED BY <1>1 DEF TakenOnce

\* A gift is credited once: between reading, crediting and clearing the points
\* of a friend (get_friend_points) nothing comes but the next gift of the
\* friend (store_friend_points), which adds to what is owed.
THEOREM GiftsAreTakenOnce == Spec => []TakenOnce
<1>1. Spec => []OwedInv BY InitOwed, NextOwed, PTL DEF Spec
<1>. QED BY <1>1, NothingOwed, PTL

-----------------------------------------------------------------------------
(* The gifts of a day are limited.                                         *)

\* What is wanted of one player.
Counts(p) ==
  /\ job[p].at \in {"give", "given"} => job[p].num = giveNum[p]
  /\ At(p, "given") => job[p].num < MaxGiveNum
  /\ refreshDay[p] <= day
  /\ p \in belated \/ /\ rewarded[p] <= MaxGiveNum /\ rewarded[p] <= giveNum[p]
                      /\ rewarded[p] > 0 => refreshDay[p] = day

LEMMA InitCount == Init => CountInv
<1>1. Init => \A p \in Players : Counts(p)
  BY NumbersAssumption DEF Init, Counts, At, Idle
<1>. QED BY <1>1, InitType DEF CountInv, Counts

\* The refresh of a new day counts from nothing, and nothing was given yet.
LEMMA RefreshCount ==
  ASSUME CountInv, NEW p \in Players, Refresh(p), UNCHANGED <<rewarded, belated, day>>
  PROVE  /\ refreshDay'[p] <= day
         /\ p \in belated \/ /\ rewarded'[p] <= MaxGiveNum /\ rewarded'[p] <= giveNum'[p]
                             /\ rewarded'[p] > 0 => refreshDay'[p] = day
<1>1. CASE Due(p)
  <2>1. giveNum'[p] = 0 /\ refreshDay'[p] = day BY <1>1 DEF Refresh, CountInv, TypeOK
  <2>2. refreshDay[p] # day /\ rewarded[p] \in Nat /\ day \in Nat
    BY <1>1 DEF Due, CountInv, TypeOK
  <2>3. p \in belated \/ rewarded[p] = 0 BY <2>2 DEF CountInv
  <2>. QED BY <2>1, <2>2, <2>3, NumbersAssumption
<1>2. CASE ~Due(p) BY <1>2 DEF Refresh, CountInv
<1>. QED BY <1>1, <1>2

LEMMA PointsCount == ASSUME CountInv, NEW p \in Players, Points(p) PROVE Counts(p)'
<1>1. TypeOK /\ Counts(p) /\ UNCHANGED <<day, late>> BY PointsStep DEF CountInv, Counts, time
<1>2. giveNum[p] \in Nat /\ rewarded[p] \in Nat /\ refreshDay[p] \in Nat /\ day \in Nat
  BY <1>1 DEF TypeOK
<1>3. CASE \E list \in GiveLists : Give(p, list)
  <2>1. PICK list \in GiveLists : Give(p, list) BY <1>3
  <2>2. \/ job'[p] = Idle
        \/ job'[p] = [at |-> "give", list |-> list, num |-> giveNum'[p]]
    BY <1>1, <2>1, DoesIt DEF Give, Request
  <2>3. /\ refreshDay'[p] <= day
        /\ p \in belated \/ /\ rewarded'[p] <= MaxGiveNum /\ rewarded'[p] <= giveNum'[p]
                            /\ rewarded'[p] > 0 => refreshDay'[p] = day
    BY <1>1, <2>1, RefreshCount DEF Give
  <2>. QED BY <1>1, <2>1, <2>2, <2>3 DEF Counts, At, Idle, Give
<1>4. CASE \E list \in GiveLists : Take(p, list)
  <2>1. PICK list \in GiveLists : Take(p, list) BY <1>4
  <2>2. job'[p] = [at |-> "take", list |-> list] BY <1>1, <2>1, DoesIt DEF Take, Request
  <2>3. /\ refreshDay'[p] <= day
        /\ p \in belated \/ /\ rewarded'[p] <= MaxGiveNum /\ rewarded'[p] <= giveNum'[p]
                            /\ rewarded'[p] > 0 => refreshDay'[p] = day
    BY <1>1, <2>1, RefreshCount DEF Take
  <2>. QED BY <1>1, <2>1, <2>2, <2>3 DEF Counts, At, Take
<1>5. CASE GivePasses(p) \/ GiveStores(p) \/ GiveFails(p)
  <2>1. job[p].at = "give" BY <1>5 DEF GivePasses, GiveStores, GiveFails, Giving, At
  <2>2. job[p] \in [at : {"give", "given"}, list : Lists, num : Nat] BY <1>1, <2>1, JobShape
  <2>3. \/ job'[p] = Idle \/ job'[p] = Rest(p)
        \/ job'[p] = [job[p] EXCEPT !.at = "given"] /\ job[p].num < MaxGiveNum
    BY <1>1, <1>5, DoesIt DEF GivePasses, GiveStores, GiveFails, Giving
  <2>4. \/ job'[p].at = "idle"
        \/ job'[p].at = "give" /\ job'[p].num = job[p].num
        \/ job'[p].at = "given" /\ job'[p].num = job[p].num /\ job[p].num < MaxGiveNum
    BY <1>1, <2>1, <2>2, <2>3, RestJob DEF Idle
  <2>5. UNCHANGED <<giveNum, refreshDay, rewarded, belated>>
    BY <1>5 DEF GivePasses, GiveStores, GiveFails, giving
  <2>. QED BY <1>1, <2>1, <2>4, <2>5 DEF Counts, At
<1>6. CASE GiveCounts(p)
  <2>1. job[p].at = "given" BY <1>6 DEF GiveCounts, At
  <2>2. /\ job[p] \in [at : {"give", "given"}, list : Lists, num : Nat]
        /\ \/ Rest(p) = Idle
           \/ Rest(p) \in [at : {"give", "given"}, list : Lists, num : Nat]
    BY <1>1, <2>1, JobShape, RestJob
  <2>3. \/ job'[p] = Idle
        \/ Rest(p) # Idle /\ job'[p] = [Rest(p) EXCEPT !.at = "give", !.num = giveNum'[p]]
    BY <1>1, <1>6, DoesIt DEF GiveCounts
  <2>4. job'[p].at = "idle" \/ (job'[p].at = "give" /\ job'[p].num = giveNum'[p])
    <3>1. CASE job'[p] = Idle BY <3>1 DEF Idle
    <3>2. CASE Rest(p) # Idle /\ job'[p] = [Rest(p) EXCEPT !.at = "give", !.num = giveNum'[p]]
      <4>1. PICK n : n = giveNum'[p] OBVIOUS
      <4>2. job'[p] = [[Rest(p) EXCEPT !.at = "give"] EXCEPT !.num = n] BY <3>2, <4>1
      <4>. QED BY <2>2, <3>2, <4>1, <4>2
    <3>. QED BY <2>3, <3>1, <3>2
  <2>5. /\ giveNum'[p] = giveNum[p] + 1 /\ rewarded'[p] = rewarded[p] + 1
        /\ UNCHANGED refreshDay
    BY <1>1, <1>6 DEF GiveCounts, TypeOK
  <2>9. p \in belated' \/ (p \notin belated /\ refreshDay[p] = day)
    BY <1>6 DEF GiveCounts
  <2>6. giveNum[p] < MaxGiveNum /\ giveNum[p] \in Nat BY <1>1, <1>2, <2>1 DEF Counts, At
  <2>7. p \notin belated => rewarded[p] <= giveNum[p] BY <1>1 DEF Counts
  <2>8. p \in belated' \/ (rewarded'[p] <= MaxGiveNum /\ rewarded'[p] <= giveNum'[p])
    BY <1>2, <2>5, <2>6, <2>7, <2>9, NumbersAssumption
  <2>. QED BY <1>1, <1>2, <2>4, <2>5, <2>8, <2>9 DEF Counts, At
<1>7. CASE TakeReads(p) \/ TakeCredits(p) \/ TakeClears(p)
  <2>1. job'[p].at \notin {"give", "given"} BY <1>1, <1>7, TakingJob
  <2>2. UNCHANGED <<giveNum, refreshDay, rewarded, belated>>
    BY <1>7 DEF TakeReads, TakeCredits, TakeClears, giving
  <2>. QED BY <1>1, <2>1, <2>2 DEF Counts, At
<1>. QED BY <1>3, <1>4, <1>5, <1>6, <1>7 DEF Points

\* The counts of the other players are their own.
LEMMA OtherCounts ==
  ASSUME CountInv, NEW p \in Players, Points(p), NEW s \in Players \ {p}
  PROVE  Counts(s)'
<1>1. TypeOK /\ Counts(s) /\ job'[s] = job[s] /\ day' = day
  BY PointsStep DEF CountInv, Counts, time
<1>2. giveNum'[s] = giveNum[s] /\ refreshDay'[s] = refreshDay[s] /\ rewarded'[s] = rewarded[s]
  <2>1. \/ Refresh(p) /\ rewarded' = rewarded
        \/ UNCHANGED <<giveNum, refreshDay, rewarded>>
        \/ GiveCounts(p)
    BY DEF Points, Give, Take, GivePasses, GiveStores, GiveFails, TakeReads, TakeCredits,
           TakeClears, giving
  <2>. QED BY <1>1, <2>1 DEF Refresh, GiveCounts, TypeOK
<1>3. s \in belated' <=> s \in belated
  BY DEF Points, Give, Take, GivePasses, GiveStores, GiveCounts, GiveFails, TakeReads,
         TakeCredits, TakeClears, giving
<1>. QED BY <1>1, <1>2, <1>3 DEF Counts, At

LEMMA NextCount == ASSUME CountInv, [Next]_vars PROVE CountInv'
<1>1. TypeOK /\ TypeOK' /\ \A s \in Players : Counts(s) BY NextType DEF CountInv, Counts
<1>2. CASE \E p \in Players : Points(p)
  <2>1. PICK p \in Players : Points(p) BY <1>2
  <2>2. \A s \in Players : Counts(s)' BY <2>1, PointsCount, OtherCounts
  <2>. QED BY <1>1, <2>2 DEF CountInv, Counts
<1>3. CASE NewDay
  <2>1. ASSUME NEW s \in Players PROVE Counts(s)'
    <3>1. /\ job' = job /\ giveNum' = giveNum /\ refreshDay' = refreshDay
          /\ rewarded'[s] = 0 /\ day' = day + 1
      BY <1>3 DEF NewDay
    <3>2. giveNum[s] \in Nat /\ refreshDay[s] \in Nat /\ day \in Nat BY <1>1 DEF TypeOK
    <3>. QED BY <1>1, <3>1, <3>2, NumbersAssumption DEF Counts, At
  <2>. QED BY <1>1, <2>1 DEF CountInv, Counts
<1>4. CASE ~(\E p \in Players : Points(p)) /\ ~NewDay
  <2>1. UNCHANGED <<giving, day>> BY <1>4, PointsKept, StepCases
  <2>2. ASSUME NEW s \in Players PROVE Counts(s)'
    <3>1. \/ job'[s] = job[s] \/ job'[s].at \notin {"give", "given"} BY <1>1, <1>4, JobsAside
    <3>. QED BY <1>1, <2>1, <3>1 DEF Counts, At, giving
  <2>. QED BY <1>1, <2>2 DEF CountInv, Counts
<1>. QED BY <1>2, <1>3, <1>4

LEMMA GiftsAreCounted == CountInv => GiftsAreLimited
BY DEF CountInv, GiftsAreLimited

\* A player is rewarded for FriendGivePointsPlayerNumOneDay gifts a day at
\* most, though the number is checked against a copy (today_num) made when the
\* request came and friends are given points one after the other
\* (give_friend_points), unless gifts were counted as of an earlier day.
THEOREM RewardsAreLimited == Spec => []GiftsAreLimited
<1>1. Spec => []CountInv BY InitCount, NextCount, PTL DEF Spec
<1>. QED BY <1>1, GiftsAreCounted, PTL
=============================================================================
