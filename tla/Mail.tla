-------------------------------- MODULE Mail --------------------------------
(***************************************************************************)
(* The mail boxes of the players of a game server.  Three kinds of         *)
(* goroutine write to a box at once: a player who sends a mail, with items *)
(* of his own; the administrator's commands, which come over rpc, each in  *)
(* a goroutine of its own; and the owner, who lists, takes from and        *)
(* deletes his mails, and fetches the mails meant for everybody with each  *)
(* heartbeat.  A step is what the code does under one lock; a player's     *)
(* requests are handled one at a time (Session).                           *)
(*                                                                         *)
(* Left out: IsRead and IsGetAttached, which no handler reads; titles and  *)
(* texts; the cooldown of personal mails (a refused mail changes nothing); *)
(* gold and the other resources, of which get_item finds none, so that a   *)
(* mail of a player cannot carry a positive number of them; the width of   *)
(* numbers.                                                                *)
(***************************************************************************)
EXTENDS Integers, Sequences, FiniteSets, FiniteSetsExt

CONSTANTS
  Players,       \* the players of the server
  Receivers,     \* bound: the players who are sent mails
  Gms,           \* administrators' commands under way at once
  Items,         \* kinds of item
  Timed,         \* those with a ValidTime: a player has one or none
  Orders,        \* lists of attachments a player may send
  SysOrder,      \* the attachments of a mail to everybody
  Stock,         \* what a player has of each other item at first
  MaxNumber,     \* item.MaxNumber: a player has no more of an item
  MailMaxCount,  \* global_config.MailMaxCount
  MaxMails,      \* bound: mails a box is ever given
  MaxRows,       \* bound: rows of SysMails
  MaxDebt,       \* bound: who has less than this below nothing takes no attachments
  Nobody         \* no sender; a lock that is free

\* An attachment: the number is whatever the client sent.
Attachments == [item : Items, num : Int]

ASSUME CountAssumption  == /\ MailMaxCount \in Nat \ {0} /\ MaxMails \in Nat
                           /\ MaxRows \in Nat /\ MaxDebt \in Nat
ASSUME OrdersAssumption == Orders \subseteq Seq(Attachments) /\ SysOrder \in Seq(Attachments)
ASSUME StockAssumption  == /\ Timed \subseteq Items /\ Stock \in Nat
                           /\ MaxNumber \in Nat /\ Stock <= MaxNumber
ASSUME ActorsAssumption == /\ Receivers \subseteq Players /\ Players \cap Gms = {}
                           /\ Nobody \notin Players \cup Gms

VARIABLES
  mails,       \* db.Mails: the box of each player, by mail id
  currId,      \* db.MailCommon.CurrId
  newIds,      \* new_mail_ids, what the owner was not told of yet
  locker,      \* receive_mail_locker
  bag,         \* db.Items
  job,         \* what each goroutine is doing
  rows,        \* dbc.SysMails: a row is absent, drawn by AddRow or filled
  currMailId,  \* SysMailCommon.CurrMailId
  sysId,       \* db.SysMail.CurrId, the last of them a player has
  scan,        \* mail_id and sys_mail_id in CheckSystemMail
  \* What happened, for the properties:
  told,        \* the mails that were in an answer to their owner
  cut,         \* the mails whose sending failed half-way
  ledger,      \* the attachments ordered with a mail, and by how many items
               \*   the sender's bag shrank for each of them
  published,   \* the rows that were made CurrMailId, and of these
  overtaken,   \*   those after a later row
  reached      \* the rows a player was sent

boxes   == <<mails, currId, newIds, locker, bag>>
sys     == <<rows, currMailId, sysId, scan>>
history == <<told, cut, ledger, published, overtaken, reached>>
vars    == <<boxes, job, sys, history>>

Threads == Players \cup Gms
MailIds == 1..MaxMails
RowIds  == 1..MaxRows

Idle == [at |-> "idle"]
Sending(at, to, from, order) ==
  [at |-> at, to |-> to, from |-> from, order |-> order, id |-> 0, k |-> 1]

At(t, at) == job[t].at = at
GoTo(t, at) == job' = [job EXCEPT ![t].at = at]

\* Where a goroutine goes after RealSendMail: a heartbeat on with its loop,
\* another request to its answer.
After(t) == IF t \in Gms THEN Idle
            ELSE IF scan[t].row > 0 THEN [at |-> "scan"] ELSE [at |-> "reply"]

IsBox(box) ==
  /\ box = [id \in DOMAIN box |-> box[id]] /\ DOMAIN box \subseteq MailIds
  /\ \A id \in DOMAIN box : box[id] \in Seq(Attachments)

\* A goroutine inside RealSendMail.
Deliveries ==
  [at : {"lock", "count", "evict", "add", "attach", "pay", "cache"}, to : Players,
   from : Players \cup {Nobody}, order : Seq(Attachments), id : Nat, k : Nat \ {0}]

Jobs == {Idle} \cup [at : {"list", "reply", "scan"}] \cup Deliveries
        \cup [at : {"fill", "publish"}, row : RowIds]
        \cup [at : {"take"}, order : Seq(Attachments), k : Nat \ {0}]

TypeOK ==
  /\ mails = [p \in Players |-> mails[p]] /\ \A p \in Players : IsBox(mails[p])
  /\ currId \in [Players -> Nat]
  /\ newIds \in [Players -> SUBSET Nat]
  /\ locker \in [Players -> Threads \cup {Nobody}]
  /\ bag \in [Players -> [Items -> Int]]
  /\ job \in [Threads -> Jobs]
  /\ rows \in [RowIds -> {"absent", "drawn", "filled"}]
  /\ currMailId \in 0..MaxRows /\ sysId \in [Players -> 0..MaxRows]
  /\ scan \in [Players -> [row : Nat, last : 0..MaxRows]]
  /\ told \in [Players -> SUBSET Nat] /\ cut \in [Players -> SUBSET Nat]
  /\ ledger \in [Players -> Seq([order : Seq(Attachments), free : BOOLEAN, paid : Seq(Int)])]
  /\ published \in SUBSET RowIds /\ overtaken \in SUBSET RowIds
  /\ reached \in [Players -> SUBSET Nat]

Init ==
  /\ mails = [p \in Players |-> <<>>]
  /\ currId = [p \in Players |-> 0]
  /\ newIds = [p \in Players |-> {}]
  /\ locker = [p \in Players |-> Nobody]
  /\ bag = [p \in Players |-> [i \in Items |-> IF i \in Timed THEN 1 ELSE Stock]]
  /\ job = [t \in Threads |-> Idle]
  /\ rows = [r \in RowIds |-> "absent"]
  /\ currMailId = 0
  /\ sysId = [p \in Players |-> 0]
  /\ scan = [p \in Players |-> [row |-> 0, last |-> 0]]
  /\ told = [p \in Players |-> {}]
  /\ cut = [p \in Players |-> {}]
  /\ ledger = [p \in Players |-> <<>>]
  /\ published = {} /\ overtaken = {}
  /\ reached = [p \in Players |-> {}]

-----------------------------------------------------------------------------
(* RealSendMail *)

\* C2SMailSend of a player, to anyone, himself too.
SendMail(p) ==
  /\ At(p, "idle")
  /\ \E q \in Receivers, o \in Orders :
       job' = [job EXCEPT ![p] = Sending("lock", q, p, o)]
  /\ UNCHANGED <<boxes, sys, history>>

\* The command SysMail for one player.
GmMail(g) ==
  /\ At(g, "idle")
  /\ \E q \in Receivers :
       job' = [job EXCEPT ![g] = Sending("lock", q, Nobody, SysOrder)]
  /\ UNCHANGED <<boxes, sys, history>>

\* Mutant of LockReceiver: the lock is taken without waiting for it.
LockReceiverAtOnce(t) ==
  /\ At(t, "lock")
  /\ locker' = [locker EXCEPT ![job[t].to] = t]
  /\ GoTo(t, "count")
  /\ UNCHANGED <<mails, currId, newIds, bag, sys, history>>

LockReceiver(t) ==
  LET q == job[t].to IN
  /\ At(t, "lock")
  /\ locker[q] = Nobody
  /\ locker' = [locker EXCEPT ![q] = t]
  /\ GoTo(t, "count")
  /\ UNCHANGED <<mails, currId, newIds, bag, sys, history>>

\* new_mail: a full box first loses its oldest mail.
CountMails(t) ==
  LET q == job[t].to IN
  /\ At(t, "count")
  /\ GoTo(t, IF Cardinality(DOMAIN mails[q]) >= MailMaxCount THEN "evict" ELSE "add")
  /\ UNCHANGED <<boxes, sys, history>>

Without(box, ids) == [i \in DOMAIN box \ ids |-> box[i]]

RemoveOldest(t) ==
  LET q == job[t].to
      box == mails[q]
  IN
  /\ At(t, "evict")
  /\ \/ DOMAIN box = {} /\ UNCHANGED mails
     \/ \E oldest \in DOMAIN box :
          /\ \A id \in DOMAIN box : oldest <= id
          /\ mails' = [mails EXCEPT ![q] = Without(box, {oldest})]
  /\ GoTo(t, "add")
  /\ UNCHANGED <<currId, newIds, locker, bag, sys, history>>

AddMail(t) ==
  LET q == job[t].to
      id == currId[q] + 1
  IN
  /\ At(t, "add")
  /\ id <= MaxMails
  /\ currId' = [currId EXCEPT ![q] = id]
  /\ mails' = [mails EXCEPT ![q] =
                 [i \in DOMAIN @ \cup {id} |-> IF i = id THEN <<>> ELSE @[i]]]
  /\ job' = [job EXCEPT ![t].at = "attach", ![t].id = id]
  /\ ledger' = [ledger EXCEPT ![q] =
                  Append(@, [order |-> job[t].order, free |-> job[t].from = Nobody,
                             paid |-> <<>>])]
  /\ UNCHANGED <<newIds, locker, bag, sys, told, cut, published, overtaken, reached>>

\* get_item: a number of nothing, or below, is always there.
Enough(t) ==
  LET a == job[t].order[job[t].k] IN
  job[t].from # Nobody => bag[job[t].from][a.item] >= a.num

\* attach_mail_item, which takes the items and the numbers of the mail and
\* puts them back, longer by one.  One step, although it is five calls: only
\* the owner's deletion can come in between, and then the calls that are left
\* find no mail and do nothing, as if it had come after the last.
AttachItem(t) ==
  LET j == job[t] IN
  /\ At(t, "attach")
  /\ j.k <= Len(j.order)
  /\ Enough(t)
  /\ j.id \in DOMAIN mails[j.to]
  /\ mails' = [mails EXCEPT ![j.to][j.id] = Append(@, j.order[j.k])]
  /\ job' = [job EXCEPT ![t].k = @ + 1]
  /\ UNCHANGED <<currId, newIds, locker, bag, sys, history>>

\* The sender has too few, or the mail is gone: the mail stays as it is.
AttachFails(t) ==
  LET j == job[t] IN
  /\ At(t, "attach")
  /\ j.k <= Len(j.order)
  /\ ~Enough(t) \/ j.id \notin DOMAIN mails[j.to]
  /\ locker' = [locker EXCEPT ![j.to] = Nobody]
  /\ job' = [job EXCEPT ![t] = After(t)]
  /\ cut' = [cut EXCEPT ![j.to] = @ \cup {j.id}]
  /\ scan' = IF t \in Players /\ scan[t].row > 0
             THEN [scan EXCEPT ![t].row = @ + 1] ELSE scan
  /\ UNCHANGED <<mails, currId, newIds, bag, rows, currMailId, sysId, told, ledger,
                 published, overtaken, reached>>

\* add_resource, down to ChkAddItemByNum: an ordinary item is counted, up to
\* its MaxNumber, a timed one is renewed whatever the number.
AddResource(b, i, n) ==
  [b EXCEPT ![i] = IF i \in Timed THEN 1 ELSE Min({@ + n, MaxNumber})]

\* All is attached; the sender, if there is one, pays from the first on.
AllAttached(t) ==
  /\ At(t, "attach")
  /\ job[t].k > Len(job[t].order)
  /\ job' = [job EXCEPT ![t].at = "pay", ![t].k = 1]
  /\ UNCHANGED <<boxes, sys, history>>

\* Mutant of PayItem: the number is not negated.
PayItemWithAGift(t) ==
  LET j == job[t]
      a == j.order[j.k]
  IN
  /\ At(t, "pay")
  /\ j.from # Nobody /\ j.k <= Len(j.order)
  /\ bag' = [bag EXCEPT ![j.from] = AddResource(@, a.item, a.num)]
  /\ ledger' = [ledger EXCEPT ![j.to][j.id].paid =
                  Append(@, bag[j.from][a.item] - bag'[j.from][a.item])]
  /\ job' = [job EXCEPT ![t].k = @ + 1]
  /\ UNCHANGED <<mails, currId, newIds, locker, sys, told, cut, published, overtaken, reached>>

\* One of add_resource's calls for the sender, whose result is ignored.
PayItem(t) ==
  LET j == job[t]
      a == j.order[j.k]
  IN
  /\ At(t, "pay")
  /\ j.from # Nobody /\ j.k <= Len(j.order)
  /\ bag' = [bag EXCEPT ![j.from] = AddResource(@, a.item, -a.num)]
  /\ ledger' = [ledger EXCEPT ![j.to][j.id].paid =
                  Append(@, bag[j.from][a.item] - bag'[j.from][a.item])]
  /\ job' = [job EXCEPT ![t].k = @ + 1]
  /\ UNCHANGED <<mails, currId, newIds, locker, sys, told, cut, published, overtaken, reached>>

Unlock(t) ==
  LET j == job[t] IN
  /\ At(t, "pay")
  /\ j.from = Nobody \/ j.k > Len(j.order)
  /\ locker' = [locker EXCEPT ![j.to] = Nobody]
  /\ GoTo(t, "cache")
  /\ UNCHANGED <<mails, currId, newIds, bag, sys, history>>

\* Mutant of CacheNewMail: the list is replaced instead of extended.
CacheNewMailOnly(t) ==
  LET j == job[t] IN
  /\ At(t, "cache")
  /\ newIds' = [newIds EXCEPT ![j.to] = {j.id}]
  /\ job' = [job EXCEPT ![t] = After(t)]
  /\ UNCHANGED <<mails, currId, locker, bag, sys, history>>

\* cache_new_mail.  In CheckSystemMail the loop goes on.
CacheNewMail(t) ==
  LET j == job[t] IN
  /\ At(t, "cache")
  /\ newIds' = [newIds EXCEPT ![j.to] = @ \cup {j.id}]
  /\ job' = [job EXCEPT ![t] = After(t)]
  /\ IF t \in Players /\ scan[t].row > 0
     THEN /\ scan' = [scan EXCEPT ![t].row = @ + 1]
          /\ reached' = [reached EXCEPT ![t] = @ \cup {scan[t].row}]
     ELSE UNCHANGED <<scan, reached>>
  /\ UNCHANGED <<mails, currId, locker, bag, rows, currMailId, sysId,
                 told, cut, ledger, published, overtaken>>

-----------------------------------------------------------------------------
(* The owner's requests *)

\* GetMailList: what is in the answer anyway need not be told again.
ClearNewMails(p) ==
  /\ At(p, "idle") /\ p \in Receivers
  /\ newIds' = [newIds EXCEPT ![p] = {}]
  /\ job' = [job EXCEPT ![p] = [at |-> "list"]]
  /\ UNCHANGED <<mails, currId, locker, bag, sys, history>>

\* Mails.GetMailList, which deletes the mails that have expired: any may have.
ReadMailList(p) ==
  /\ At(p, "list")
  /\ \E expired \in SUBSET DOMAIN mails[p] :
       /\ mails' = [mails EXCEPT ![p] = Without(@, expired)]
       /\ told' = [told EXCEPT ![p] = @ \cup (DOMAIN mails[p] \ expired)]
  /\ GoTo(p, "reply")
  /\ UNCHANGED <<currId, newIds, locker, bag, sys, cut, ledger, published, overtaken, reached>>

\* GetMailAttachedItems gives the attachments however often it is asked: it
\* reads them, and adds them one by one.
GetMailAttachedItems(p) ==
  /\ At(p, "idle")
  /\ \A i \in Items : bag[p][i] >= -MaxDebt
  /\ \E id \in DOMAIN mails[p] :
       /\ mails[p][id] # <<>>
       /\ job' = [job EXCEPT ![p] = [at |-> "take", order |-> mails[p][id], k |-> 1]]
  /\ UNCHANGED <<boxes, sys, history>>

TakeItem(p) ==
  LET j == job[p]
      a == j.order[j.k]
  IN
  /\ At(p, "take")
  /\ j.k <= Len(j.order)
  /\ bag' = [bag EXCEPT ![p] = AddResource(@, a.item, a.num)]
  /\ job' = [job EXCEPT ![p] = IF j.k = Len(j.order) THEN [at |-> "reply"]
                               ELSE [j EXCEPT !.k = j.k + 1]]
  /\ UNCHANGED <<mails, currId, newIds, locker, sys, history>>

DeleteMail(p) ==
  /\ At(p, "idle")
  /\ \E id \in DOMAIN mails[p] :
       mails' = [mails EXCEPT ![p] = Without(@, {id})]
  /\ job' = [job EXCEPT ![p] = [at |-> "reply"]]
  /\ UNCHANGED <<currId, newIds, locker, bag, sys, history>>

\* CheckNewMail, in PopCurMsgData at the end of each request.
CheckNewMail(p) ==
  /\ At(p, "reply")
  /\ told' = [told EXCEPT ![p] = @ \cup (newIds[p] \cap DOMAIN mails[p])]
  /\ newIds' = [newIds EXCEPT ![p] = {}]
  /\ job' = [job EXCEPT ![p] = Idle]
  /\ UNCHANGED <<mails, currId, locker, bag, sys, cut, ledger, published, overtaken, reached>>

-----------------------------------------------------------------------------
(* Mails to everybody *)

\* The command SysMail for all players: AddRow.  Without a mail of that
\* subtype the row stays as it is.
AddSysMail(g) ==
  /\ At(g, "idle")
  /\ \E r \in RowIds :
       /\ rows[r] = "absent" /\ \A s \in 1..(r - 1) : rows[s] # "absent"
       /\ rows' = [rows EXCEPT ![r] = "drawn"]
       /\ \/ job' = [job EXCEPT ![g] = [at |-> "fill", row |-> r]]
          \/ UNCHANGED job
  /\ UNCHANGED <<boxes, currMailId, sysId, scan, history>>

\* SetTableId, SetItemList and, last, SetSendTime, which the others look at.
FillSysMail(g) ==
  /\ At(g, "fill")
  /\ rows' = [rows EXCEPT ![job[g].row] = "filled"]
  /\ GoTo(g, "publish")
  /\ UNCHANGED <<boxes, currMailId, sysId, scan, history>>

SetCurrMailId(g) ==
  LET r == job[g].row IN
  /\ At(g, "publish")
  /\ currMailId' = r
  /\ published' = published \cup {r}
  /\ overtaken' = IF \E s \in published : s > r THEN overtaken \cup {r} ELSE overtaken
  /\ job' = [job EXCEPT ![g] = Idle]
  /\ UNCHANGED <<boxes, rows, sysId, scan, told, cut, ledger, reached>>

\* CheckSystemMail, in each heartbeat, starts with the last one he has.
CheckSystemMail(p) ==
  /\ At(p, "idle") /\ p \in Receivers
  /\ sysId[p] < currMailId
  /\ scan' = [scan EXCEPT ![p] = [row |-> Max({sysId[p], 1}), last |-> currMailId]]
  /\ job' = [job EXCEPT ![p] = [at |-> "scan"]]
  /\ UNCHANGED <<boxes, rows, currMailId, sysId, history>>

\* A row without a SendTime was "sent" before the player was created.
SendSysMail(p) ==
  LET s == scan[p] IN
  /\ At(p, "scan")
  /\ s.row <= s.last
  /\ IF rows[s.row] = "filled"
     THEN job' = [job EXCEPT ![p] = Sending("lock", p, Nobody, SysOrder)] /\ UNCHANGED scan
     ELSE scan' = [scan EXCEPT ![p].row = @ + 1] /\ UNCHANGED job
  /\ UNCHANGED <<boxes, rows, currMailId, sysId, history>>

\* Mutant of SetCurrId: the last mail is read again at the end.
SetCurrIdAgain(p) ==
  /\ At(p, "scan")
  /\ scan[p].row > scan[p].last
  /\ sysId' = [sysId EXCEPT ![p] = currMailId]
  /\ scan' = [scan EXCEPT ![p] = [row |-> 0, last |-> 0]]
  /\ job' = [job EXCEPT ![p] = [at |-> "reply"]]
  /\ UNCHANGED <<boxes, rows, currMailId, history>>

SetCurrId(p) ==
  LET s == scan[p] IN
  /\ At(p, "scan")
  /\ s.row > s.last
  /\ sysId' = [sysId EXCEPT ![p] = s.last]
  /\ scan' = [scan EXCEPT ![p] = [row |-> 0, last |-> 0]]
  /\ job' = [job EXCEPT ![p] = [at |-> "reply"]]
  /\ UNCHANGED <<boxes, rows, currMailId, history>>

-----------------------------------------------------------------------------

RealSendMail(t) ==
  \/ LockReceiver(t) \/ CountMails(t) \/ RemoveOldest(t) \/ AddMail(t)
  \/ AttachItem(t) \/ AttachFails(t)
  \/ AllAttached(t) \/ PayItem(t) \/ Unlock(t) \/ CacheNewMail(t)

Player(p) ==
  \/ SendMail(p) \/ ClearNewMails(p) \/ ReadMailList(p) \/ GetMailAttachedItems(p)
  \/ TakeItem(p) \/ DeleteMail(p) \/ CheckNewMail(p)
  \/ CheckSystemMail(p) \/ SendSysMail(p) \/ SetCurrId(p)

Gm(g) == GmMail(g) \/ AddSysMail(g) \/ FillSysMail(g) \/ SetCurrMailId(g)

Next ==
  \/ \E t \in Threads : RealSendMail(t)
  \/ \E p \in Players : Player(p)
  \/ \E g \in Gms : Gm(g)

Spec == Init /\ [][Next]_vars

-----------------------------------------------------------------------------

\* However many send to a player at once, his box is never over its size
\* (the lock is held from the count to the new mail).
CapacityKept == \A p \in Players : Cardinality(DOMAIN mails[p]) <= MailMaxCount

SendingTo(p, id) ==
  \E t \in Threads : job[t].at \in {"attach", "pay", "cache"} /\ job[t].to = p /\ job[t].id = id

\* A mail in a box was in an answer to its owner, will be in the next one,
\* or is not all there: none is forgotten between the box and new_mail_ids.
EveryMailIsSeen ==
  \A p \in Players : \A id \in DOMAIN mails[p] :
     \/ id \in told[p] \cup newIds[p] \cup cut[p]
     \/ SendingTo(p, id)
     \/ At(p, "list")

\* What the sender's bag lost for each attachment so far is what was ordered.
\* Not so for a timed item, which he keeps, and a number of nothing or below,
\* which he does not lose.
PaysInFull(l) ==
  \A k \in 1..Len(l.paid) :
     l.order[k].item \notin Timed /\ l.order[k].num > 0 => l.paid[k] = l.order[k].num

\* A mail with all its attachments, none of which the sender kept.
Complete(p, id) ==
  LET l == ledger[p][id] IN
  /\ l.free \/ (Len(l.paid) = Len(l.order) /\ PaysInFull(l))
  /\ id \in DOMAIN mails[p] => mails[p][id] = l.order

\* The owner is told of a mail when all its attachments are there and each
\* has gone from the bag of its sender: positive numbers of ordinary items,
\* the others the code lets through.
AnnouncedIsPaid ==
  \A p \in Players : \A id \in newIds[p] : Complete(p, id)

\* A player who has the mails to everybody up to one has each of them,
\* but for a mail that was published after a later one.
SysMailsArrive ==
  \A p \in Players, r \in published \ overtaken : r <= sysId[p] => r \in reached[p]

-----------------------------------------------------------------------------
(* The inductive invariants behind them.                                   *)

\* receive_mail_locker of the receiver is held from the count to the payment.
LockHeld ==
  \A t \in Threads : job[t].at \in {"count", "evict", "add", "attach", "pay"} => locker[job[t].to] = t

CapacityInv ==
  /\ TypeOK /\ LockHeld /\ CapacityKept
  /\ \A t \in Threads : At(t, "add") => Cardinality(DOMAIN mails[job[t].to]) < MailMaxCount

SeenInv == TypeOK /\ EveryMailIsSeen

\* A goroutine that has made a mail and not yet told of it.
Delivers(t) == job[t].at \in {"attach", "pay", "cache"}

\* Ids are drawn once; who delivers a mail is alone with it.
IdsInv ==
  /\ \A p \in Players : /\ Len(ledger[p]) = currId[p]
                        /\ newIds[p] \subseteq 1..currId[p]
                        /\ DOMAIN mails[p] \subseteq 1..currId[p]
  /\ \A t \in Threads :
       Delivers(t) => job[t].id \in 1..currId[job[t].to] /\ job[t].id \notin newIds[job[t].to]
  /\ \A t, u \in Threads :
       t # u /\ Delivers(t) /\ Delivers(u) /\ job[t].to = job[u].to => job[t].id # job[u].id

\* The attachments before the k-th are in the mail, and then paid for.
AttachedInv ==
  \A t \in Threads :
    LET j == job[t]
        l == ledger[j.to][j.id]
    IN
    /\ j.at \in {"lock", "count", "evict", "add"} => j.k = 1
    /\ j.at \in {"attach", "pay"} =>
         l.order = j.order /\ l.free = (j.from = Nobody) /\ j.k <= Len(j.order) + 1
    /\ At(t, "attach") =>
         /\ l.paid = <<>>
         /\ j.id \in DOMAIN mails[j.to] =>
              /\ Len(mails[j.to][j.id]) = j.k - 1
              /\ \A i \in 1..(j.k - 1) : mails[j.to][j.id][i] = j.order[i]
    /\ At(t, "pay") =>
         /\ j.id \in DOMAIN mails[j.to] => mails[j.to][j.id] = j.order
         /\ Len(l.paid) = j.k - 1 /\ PaysInFull(l)
    /\ At(t, "cache") => Complete(j.to, j.id)

\* No bag holds more of an ordinary item than it may, or a payment would
\* be cut down to what it may hold.
BagInv == \A p \in Players : \A i \in Items \ Timed : bag[p][i] <= MaxNumber

LedgerInv == TypeOK /\ LockHeld /\ IdsInv /\ BagInv /\ AttachedInv /\ AnnouncedIsPaid

\* A row is filled by one goroutine, and published after that.
RowsInv ==
  /\ \A g \in Gms : /\ At(g, "fill") => rows[job[g].row] = "drawn"
                    /\ At(g, "publish") => rows[job[g].row] = "filled"
                    /\ job[g].at \in {"fill", "publish"} => job[g].row \notin published
  /\ \A g, h \in Gms : g # h /\ job[g].at \in {"fill", "publish"}
                         /\ job[h].at \in {"fill", "publish"} => job[g].row # job[h].row
  /\ \A r \in published : rows[r] = "filled"
  /\ currMailId \in published \cup {0} /\ \A p \in Players : sysId[p] \in published \cup {0}

\* Who is in CheckSystemMail is at a row up to the last, or sends himself one.
Scanning(p) ==
  /\ scan[p].last \in published /\ scan[p].row <= scan[p].last + 1
  /\ \/ At(p, "scan")
     \/ /\ job[p] \in Deliveries /\ job[p].to = p /\ job[p].from = Nobody
        /\ scan[p].row <= scan[p].last
        /\ At(p, "attach") => job[p].id \in DOMAIN mails[p]

ScanInv ==
  /\ \A p \in Players : IF scan[p].row > 0 THEN Scanning(p) ELSE ~At(p, "scan")
  /\ \A p \in Players, r \in published \ overtaken :
       r <= sysId[p] \/ r < scan[p].row => r \in reached[p]

SysMailInv == TypeOK /\ LockHeld /\ RowsInv /\ ScanInv
=============================================================================
