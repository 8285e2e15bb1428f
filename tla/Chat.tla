-------------------------------- MODULE Chat --------------------------------
(***************************************************************************)
(* A chat channel: a list of the messages that did not expire, in items of *)
(* a pool, linked by prev and next.  When the pool is empty the oldest     *)
(* message makes room.  Each player keeps a pointer to the item he was     *)
(* last shown and the time it was sent at, and reads on from there; the    *)
(* item may meanwhile be back in the pool or hold another message, and is  *)
(* taken to be the same while its time is.  A push holds the lock of the   *)
(* channel, pulls share it; one step is one turn of their loops.           *)
(*                                                                         *)
(* A message is its number.  Left out: the cooldowns and the longest       *)
(* message of Player.chat, whose refusals change nothing of the channel; a *)
(* clock of the machine that is set back.                                  *)
(***************************************************************************)
EXTENDS Integers, Sequences, Functions

CONSTANTS
  Readers,     \* the players who pull
  PoolSize,    \* MaxMsgNum of the channel: items in the pool
  Exist,       \* MsgExistTime: how long a message lives
  OnceGet,     \* MAX_CHAT_ONCE_GET: items looked at in one pull
  MaxMsgs,     \* bound: messages ever pushed
  MaxTime      \* bound: the clock

\* A pool of one item: the list becomes a ring when its message makes room.
ASSUME PoolAssumption  == PoolSize \in Nat \ {0, 1}
ASSUME LimitAssumption == Exist \in Nat \ {0} /\ OnceGet \in Nat \ {0}

VARIABLES
  head, tail,              \* chat_msg_head, chat_msg_tail
  free,                    \* items_pool: the items at hand
  next, prev, time, text,  \* of each item: links, send_time, the message
  num,                     \* msg_num, the messages ever pushed
  writer,                  \* push_chat_msg: its place, msg and now_time
  reader,                  \* pull_chat of each player: msg, the turns left, now_time
  curr,                    \* curr_msg and curr_send_time of each player
  now,                     \* the clock
  \* What happened, for the properties:
  list,                    \* the items that hold messages, oldest first
  stale,                   \* the players whose curr_msg went back to the pool
  shown,                   \* the message each player was last shown
  answer                   \* each pull: its messages, the one shown before it, if not stale

links    == <<head, tail, free, next, prev>>
texts    == <<time, text, num>>
pulls    == <<reader, curr, shown, answer>>
chatVars == <<links, texts, writer, pulls, now, list, stale>>

Items == 1..PoolSize
Nil   == 0

ChatInit ==
  /\ head = Nil /\ tail = Nil /\ free = [i \in Items |-> i]
  /\ next = [i \in Items |-> Nil] /\ prev = [i \in Items |-> Nil]
  /\ time = [i \in Items |-> 0] /\ text = [i \in Items |-> 0]
  /\ num = 0 /\ now = 1
  /\ writer = [at |-> "unlocked", msg |-> Nil, now |-> 0]
  /\ reader = [p \in Readers |-> [in |-> FALSE, msg |-> Nil, left |-> 0, now |-> 0]]
  /\ curr = [p \in Readers |-> [item |-> Nil, time |-> 0]]
  /\ list = <<>> /\ stale = {} /\ shown = [p \in Readers |-> 0]
  /\ answer = [p \in Readers |-> [msgs |-> <<>>, after |-> 0, fresh |-> TRUE]]

-----------------------------------------------------------------------------
(* push_chat_msg, with the lock held.                                      *)

\* SimpleItemPool.Recycle: the items at hand are the end of an array.
Recycle(i) == IF Len(free) = PoolSize THEN free ELSE <<i>> \o free

PushLock ==
  /\ writer.at = "unlocked" /\ num < MaxMsgs
  /\ \A p \in Readers : ~reader[p].in
  /\ writer' = [at |-> "recycle", msg |-> head, now |-> now]
  /\ UNCHANGED <<links, texts, pulls, now, list, stale>>

\* The item that goes back to the pool is the one of the oldest message, for the
\* properties.
Forget(i) ==
  /\ list' = Tail(list)
  /\ stale' = stale \cup {p \in Readers : curr[p].item = i}

\* Mutant of RecycleExpired: an expired last item stays the last.
RecycleKeepTail ==
  LET i == writer.msg IN
  /\ writer.at = "recycle" /\ i # Nil /\ writer.now - time[i] >= Exist
  /\ head' = IF i = head THEN next[i] ELSE head
  /\ UNCHANGED tail
  /\ free' = Recycle(i)
  /\ next' = IF prev[i] = Nil THEN next ELSE [next EXCEPT ![prev[i]] = next[i]]
  /\ prev' = IF next[i] = Nil THEN prev ELSE [prev EXCEPT ![next[i]] = prev[i]]
  /\ writer' = [writer EXCEPT !.msg = next'[i]]
  /\ Forget(i)
  /\ UNCHANGED <<texts, pulls, now>>

\* recycle_old, an item that expired.
RecycleExpired ==
  LET i == writer.msg IN
  /\ writer.at = "recycle" /\ i # Nil /\ writer.now - time[i] >= Exist
  /\ head' = IF i = head THEN next[i] ELSE head
  /\ tail' = IF i = tail THEN Nil ELSE tail
  /\ free' = Recycle(i)
  /\ next' = IF prev[i] = Nil THEN next ELSE [next EXCEPT ![prev[i]] = next[i]]
  /\ prev' = IF next[i] = Nil THEN prev ELSE [prev EXCEPT ![next[i]] = prev[i]]
  /\ writer' = [writer EXCEPT !.msg = next'[i]]
  /\ Forget(i)
  /\ UNCHANGED <<texts, pulls, now>>

\* recycle_old, one that did not.
RecyclePasses ==
  /\ writer.at = "recycle" /\ writer.msg # Nil /\ writer.now - time[writer.msg] < Exist
  /\ writer' = [writer EXCEPT !.msg = next[writer.msg]]
  /\ UNCHANGED <<links, texts, pulls, now, list, stale>>

\* Mutant of MakeRoom: the head is left where it was.
MakeRoomKeepHead ==
  /\ writer.at = "recycle" /\ writer.msg = Nil
  /\ writer' = [writer EXCEPT !.at = "add"]
  /\ IF free # <<>> THEN UNCHANGED <<links, list, stale>>
     ELSE /\ free' = Recycle(head)
          /\ UNCHANGED <<head, next, prev, tail>>
          /\ Forget(head)
  /\ UNCHANGED <<texts, pulls, now>>

\* With no item free the oldest message makes room.
MakeRoom ==
  /\ writer.at = "recycle" /\ writer.msg = Nil
  /\ writer' = [writer EXCEPT !.at = "add"]
  /\ IF free # <<>> THEN UNCHANGED <<links, list, stale>>
     ELSE /\ free' = Recycle(head)
          /\ head' = next[head]
          /\ prev' = IF next[head] = Nil THEN prev ELSE [prev EXCEPT ![next[head]] = Nil]
          /\ UNCHANGED <<tail, next>>
          /\ Forget(head)
  /\ UNCHANGED <<texts, pulls, now>>

\* A free item becomes the last one of the list, and the lock is released.
AddLast ==
  LET i == Head(free) IN
  /\ writer.at = "add"
  /\ free' = Tail(free)
  /\ text' = [text EXCEPT ![i] = num + 1] /\ time' = [time EXCEPT ![i] = now]
  /\ prev' = [prev EXCEPT ![i] = tail]
  /\ next' = [j \in Items |-> IF j = tail THEN i ELSE IF j = i THEN Nil ELSE next[j]]
  /\ head' = IF head = Nil THEN i ELSE head
  /\ tail' = i
  /\ num' = num + 1
  /\ list' = Append(list, i)
  /\ writer' = [writer EXCEPT !.at = "unlocked"]
  /\ UNCHANGED <<pulls, now, stale>>

Push == PushLock \/ RecycleExpired \/ RecyclePasses \/ MakeRoom \/ AddLast

-----------------------------------------------------------------------------
(* pull_chat, with the lock shared.                                        *)

\* Mutant of CurrMsg: he is shown the last one again.
CurrMsgAgain(p) ==
  LET c == curr[p] IN
  IF c.item = Nil \/ time[c.item] # c.time THEN head ELSE c.item

\* get_curr_msg: where a player reads on.
CurrMsg(p) ==
  LET c == curr[p] IN
  IF c.item = Nil \/ time[c.item] # c.time THEN head ELSE next[c.item]

Looks == IF OnceGet < num THEN OnceGet ELSE num

PullLock(p) ==
  /\ writer.at = "unlocked" /\ ~reader[p].in /\ num > 0
  /\ reader' = [reader EXCEPT ![p] = [in |-> TRUE, msg |-> CurrMsg(p), left |-> Looks, now |-> now]]
  /\ answer' = [answer EXCEPT ![p] = [msgs |-> <<>>, after |-> shown[p], fresh |-> p \notin stale]]
  /\ UNCHANGED <<links, texts, writer, curr, shown, now, list, stale>>

\* The loop looks at the next item, unless there is none or it looked at enough.
Looking(p) == reader[p].in /\ reader[p].msg # Nil /\ reader[p].left > 0

Expired(p, i) == reader[p].now - time[i] >= Exist

Skip(p) ==
  /\ Looking(p) /\ Expired(p, reader[p].msg)
  /\ reader' = [reader EXCEPT ![p].msg = next[@], ![p].left = @ - 1]
  /\ UNCHANGED <<links, texts, writer, curr, shown, answer, now, list, stale>>

Show(p) ==
  LET i == reader[p].msg IN
  /\ Looking(p) /\ ~Expired(p, i)
  /\ answer' = [answer EXCEPT ![p].msgs = Append(@, text[i])]
  /\ curr' = [curr EXCEPT ![p] = [item |-> i, time |-> time[i]]]
  /\ reader' = [reader EXCEPT ![p].msg = next[i], ![p].left = @ - 1]
  /\ shown' = [shown EXCEPT ![p] = text[i]]
  /\ stale' = stale \ {p}
  /\ UNCHANGED <<links, texts, writer, now, list>>

\* The answer is complete; the lock is released.
Answered(p) == reader[p].in /\ ~Looking(p)

PullUnlock(p) ==
  /\ Answered(p)
  /\ reader' = [reader EXCEPT ![p].in = FALSE]
  /\ UNCHANGED <<links, texts, writer, curr, shown, answer, now, list, stale>>

Tick == now < MaxTime /\ now' = now + 1 /\ UNCHANGED <<links, texts, writer, pulls, list, stale>>

ChatNext == Push \/ Tick \/ \E p \in Readers : PullLock(p) \/ Skip(p) \/ Show(p) \/ PullUnlock(p)
ChatSpec == ChatInit /\ [][ChatNext]_chatVars

-----------------------------------------------------------------------------
(* What is wanted of it.                                                   *)

\* What goes back to the pool is always the oldest message, the pool and the list
\* share the items, each in one place, and the list is linked both ways from the
\* oldest message to the last (recycle_old, push_chat_msg, SimpleItemPool).
Linked ==
  /\ head = IF list = <<>> THEN Nil ELSE list[1]
  /\ tail = IF list = <<>> THEN Nil ELSE list[Len(list)]
  /\ \A k \in DOMAIN list :
       /\ next[list[k]] = IF k = Len(list) THEN Nil ELSE list[k + 1]
       /\ prev[list[k]] = IF k = 1 THEN Nil ELSE list[k - 1]

Shared ==
  /\ Len(list) + Len(free) = PoolSize
  /\ \A i \in Items : \/ i \in Range(list) /\ i \notin Range(free)
                      \/ i \in Range(free) /\ i \notin Range(list)

ListAndPool == Linked /\ Shared

\* An answer has messages of the channel in the order they were pushed, none of
\* them twice, whatever became of the item the player was last shown
\* (get_curr_msg, pull_chat).
InOrder(p) ==
  LET given == answer[p].msgs IN
  /\ \A j, k \in DOMAIN given : j < k => given[j] < given[k]
  /\ \A k \in DOMAIN given : \E i \in Range(list) : text[i] = given[k]

AnswersInOrder == \A p \in Readers : reader[p].in => InOrder(p)

\* While the item a player was last shown is not back in the pool, the next
\* answer has every message after it, up to the number of items it looks at,
\* and none the player was shown before (get_curr_msg).
ReadsOn ==
  \A p \in Readers : Answered(p) /\ answer[p].fresh =>
    /\ \A m \in Range(answer[p].msgs) : m > answer[p].after
    /\ \/ reader[p].left = 0
       \/ \A i \in Range(list) :
            ~Expired(p, i) /\ text[i] > answer[p].after => text[i] \in Range(answer[p].msgs)

-----------------------------------------------------------------------------
(* Why it holds: the invariant of the channel.                             *)

ChatTypeOK ==
  /\ head \in Items \cup {Nil} /\ tail \in Items \cup {Nil}
  /\ free \in Seq(Items) /\ list \in Seq(Items)
  /\ next \in [Items -> Items \cup {Nil}] /\ prev \in [Items -> Items \cup {Nil}]
  /\ time \in [Items -> Nat] /\ text \in [Items -> Nat]
  /\ num \in Nat /\ now \in Nat \ {0}
  /\ writer \in [at : {"unlocked", "recycle", "add"}, msg : Items \cup {Nil}, now : Nat]
  /\ reader \in [Readers -> [in : BOOLEAN, msg : Items \cup {Nil}, left : Nat, now : Nat]]
  /\ curr \in [Readers -> [item : Items \cup {Nil}, time : Nat]]
  /\ stale \subseteq Readers /\ shown \in [Readers -> Nat]
  /\ answer \in [Readers -> [msgs : Seq(Nat), after : Nat, fresh : BOOLEAN]]

\* The list holds the last messages, in the order of their times.
Numbered ==
  /\ Len(list) <= num
  /\ \A k \in DOMAIN list : /\ text[list[k]] = num - Len(list) + k
                            /\ 0 < time[list[k]] /\ time[list[k]] <= now
  /\ \A j, k \in DOMAIN list : j <= k => time[list[j]] <= time[list[k]]

\* An item that was never used, or whose message expired by t.
Spent(i, t) == time[i] = 0 \/ t - time[i] >= Exist

\* No item is in the pool twice, and only the one that made room, which is used
\* at once, may have a message that lives.
PoolInv ==
  /\ \A j, k \in DOMAIN free : free[j] = free[k] => j = k
  /\ \A k \in DOMAIN free : (writer.at = "add" /\ k = 1) \/ Spent(free[k], now)

\* Links and pointers lead to items that were used.
Used == /\ \A i \in Items : next[i] # Nil => time[next[i]] > 0
        /\ \A p \in Readers : curr[p].item # Nil => time[curr[p].item] > 0

\* recycle_old has passed only messages that live: what it drops is the first one.
WriterInv ==
  /\ writer.now <= now
  /\ writer.at # "unlocked" => \A p \in Readers : ~reader[p].in
  /\ writer.at = "add" => free # <<>>
  /\ writer.at = "recycle" /\ writer.msg # Nil =>
       \E k \in DOMAIN list :
         /\ list[k] = writer.msg
         /\ \A j \in 1..(k - 1) : writer.now - time[list[j]] < Exist

\* The item a player was last shown, while it was not recycled.
CurrInv ==
  \A p \in Readers :
    /\ curr[p].item = Nil => shown[p] = 0
    /\ curr[p].item # Nil /\ p \notin stale =>
         /\ curr[p].item \in Range(list)
         /\ time[curr[p].item] = curr[p].time /\ text[curr[p].item] = shown[p]

\* A pull is at an item of the list whose message is after those of the answer, or
\* still at items of the pool, none of which it shows.
CursorAt(p) ==
  /\ \A k \in DOMAIN free : Spent(free[k], reader[p].now)
  /\ reader[p].msg # Nil => time[reader[p].msg] > 0
  /\ reader[p].msg \in Range(list) =>
       \A k \in DOMAIN answer[p].msgs : answer[p].msgs[k] < text[reader[p].msg]
  /\ reader[p].msg # Nil /\ reader[p].msg \notin Range(list) => answer[p].msgs = <<>>

\* What was after the item last shown is in the answer or still ahead.
AheadAt(p) ==
  /\ \A m \in Range(answer[p].msgs) : m > answer[p].after
  /\ reader[p].msg # Nil => reader[p].msg \in Range(list) /\ text[reader[p].msg] > answer[p].after
  /\ \A i \in Range(list) :
       ~Expired(p, i) /\ text[i] > answer[p].after =>
         \/ text[i] \in Range(answer[p].msgs)
         \/ reader[p].msg # Nil /\ text[reader[p].msg] <= text[i]

ReadersInv ==
  \A p \in Readers : reader[p].in => CursorAt(p) /\ (answer[p].fresh => AheadAt(p))

ChannelInv ==
  /\ ChatTypeOK /\ ListAndPool /\ Numbered /\ PoolInv /\ Used
  /\ WriterInv /\ CurrInv /\ ReadersInv /\ AnswersInOrder
=============================================================================
