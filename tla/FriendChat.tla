----------------------------- MODULE FriendChat -----------------------------
(***************************************************************************)
(* The messages one player, the sender, leaves with a friend, the          *)
(* receiver: db.FriendChatUnreadIds keeps the ids of the unread messages   *)
(* in order, db.FriendChatUnreadMessages the message of each id, and the   *)
(* handlers change first the one and then the other.  The sender's         *)
(* goroutine writes in the receiver's row while the receiver's own reads   *)
(* and confirms, and either of them may end the friendship, which clears   *)
(* both columns.  A step is what the code does under one lock of a row.    *)
(*                                                                         *)
(* A message is its number in the order of sending.  Left out: the length  *)
(* of a message, SendTime and IsRead; the messages the other way round,    *)
(* which are in the sender's row under the same rules; a friend on another *)
(* server, to whom no message gets: the call for it is in no table of the  *)
(* server that is called (id2rpc_funcs), fails, and changes nothing.       *)
(***************************************************************************)
EXTENDS Integers, Sequences, FiniteSets, SequencesExt

CONSTANTS
  Sender, Receiver,  \* the two players
  UnreadMax,         \* FRIEND_UNREAD_MESSAGE_MAX_NUM
  MaxSent,           \* bound: messages ever sent
  None               \* no entry of FriendChatUnreadIds

ASSUME UnreadAssumption  == UnreadMax \in Nat \ {0}
ASSUME PlayersAssumption == Sender # Receiver
ASSUME NoneAssumption    == None \notin [ids : Seq(1..UnreadMax), curr : 0..UnreadMax]

VARIABLES
  friends,  \* db.Friends: whether a player has the other as a friend
  unread,   \* FriendChatUnreadIds[sender]: MessageIds and CurrMessageId
  msgs,     \* FriendChatUnreadMessages: the message of each id, 0 for none
  job,      \* what the goroutine of each player is doing
  \* What happened, for the properties:
  sent,     \* how many messages were sent
  kept,     \* those answered with success and neither confirmed nor cleared
  told,     \* how many of the unread ones the receiver was last shown
  seen,     \* the messages the receiver was ever shown
  dropped,  \* those he confirmed by the number he was shown
  overlap   \* a friendship was ended while the other one's request was handled

vars == <<friends, unread, msgs, job, sent, kept, told, seen, dropped, overlap>>
history == <<kept, told, seen, dropped>>

Players == {Sender, Receiver}
Other(p) == IF p = Sender THEN Receiver ELSE Sender
Ids == 1..UnreadMax

Idle == [at |-> "idle"]
At(p, at) == job[p].at = at
Does(p, what) == job' = [job EXCEPT ![p] = what] /\ UNCHANGED overlap

\* One of the players is ending the friendship.
Ends == {"unfriend", "list", "clear", "forget"}
Unfriending == \E p \in Players : job[p].at \in Ends

\* A request of p is taken up, by the step that gives it to its handler.
Starts(p, what) ==
  /\ At(p, "idle")
  /\ job' = [job EXCEPT ![p] = what]
  /\ overlap' = (\/ overlap \/ Unfriending
                 \/ what.at = "unfriend" /\ ~At(Other(p), "idle"))

Init ==
  /\ friends = [p \in Players |-> TRUE]
  /\ unread = None
  /\ msgs = [i \in Ids |-> 0]
  /\ job = [p \in Players |-> Idle]
  /\ sent = 0
  /\ kept = {} /\ told = 0 /\ seen = {} /\ dropped = {}
  /\ overlap = FALSE

-----------------------------------------------------------------------------
(* The sender: friend_chat and friend_chat_add.                            *)

\* The sender has the receiver as a friend.
Chat ==
  /\ friends[Sender] /\ sent < MaxSent
  /\ sent' = sent + 1
  /\ Starts(Sender, [at |-> "check", text |-> sent + 1])
  /\ UNCHANGED <<friends, unread, msgs, history>>

\* The id of the next message; after the last one comes the first again.
NextId == IF unread = None \/ unread.curr >= UnreadMax THEN 1 ELSE unread.curr + 1

Full == unread # None /\ Len(unread.ids) >= UnreadMax

CheckUnreadNumFull ==
  /\ At(Sender, "check")
  /\ \/ /\ ~Full
        /\ unread' = IF unread = None THEN None ELSE [unread EXCEPT !.curr = NextId]
        /\ Does(Sender, [at |-> "add", text |-> job[Sender].text, id |-> NextId])
     \/ /\ Full
        /\ Does(Sender, Idle)
        /\ UNCHANGED unread
  /\ UNCHANGED <<friends, msgs, sent, history>>

\* Mutant of AddMessage: an id that is taken gets the new message.
AddMessageOver ==
  LET me == job[Sender] IN
  /\ At(Sender, "add")
  /\ msgs' = [msgs EXCEPT ![me.id] = me.text]
  /\ Does(Sender, [me EXCEPT !.at = "id"])
  /\ UNCHANGED <<friends, unread, sent, history>>

\* FriendChatUnreadMessages.Add refuses an id that is taken.
AddMessage ==
  LET me == job[Sender] IN
  /\ At(Sender, "add")
  /\ \/ /\ msgs[me.id] = 0
        /\ msgs' = [msgs EXCEPT ![me.id] = me.text]
        /\ Does(Sender, [me EXCEPT !.at = "id"])
     \/ /\ msgs[me.id] # 0
        /\ Does(Sender, [me EXCEPT !.at = "failed"])
        /\ UNCHANGED msgs
  /\ UNCHANGED <<friends, unread, sent, history>>

\* Mutant of AddNewMessageId: the ids start again with the message.
AddNewMessageIdAlone ==
  LET me == job[Sender] IN
  /\ At(Sender, "id")
  /\ unread' = [ids |-> <<me.id>>, curr |-> IF unread = None THEN 0 ELSE unread.curr]
  /\ kept' = kept \cup {me.text}
  /\ Does(Sender, Idle)
  /\ UNCHANGED <<friends, msgs, sent, told, seen, dropped>>

\* A new entry does not note the id it starts with.
AddNewMessageId ==
  LET me == job[Sender] IN
  /\ At(Sender, "id")
  /\ unread' = IF unread = None THEN [ids |-> <<me.id>>, curr |-> 0]
               ELSE [unread EXCEPT !.ids = Append(@, me.id)]
  /\ kept' = kept \cup {me.text}
  /\ Does(Sender, Idle)
  /\ UNCHANGED <<friends, msgs, sent, told, seen, dropped>>

\* The answer is -1: the message is not stored.
ChatFailed ==
  /\ At(Sender, "failed")
  /\ Does(Sender, Idle)
  /\ UNCHANGED <<friends, unread, msgs, sent, history>>

-----------------------------------------------------------------------------
(* The receiver: friend_pull_unread_message and                            *)
(* friend_confirm_unread_message.                                          *)

\* Both check that the sender is a friend; 0 messages stand for all of them.
Pull ==
  /\ friends[Receiver]
  /\ Starts(Receiver, [at |-> "ids"])
  /\ UNCHANGED <<friends, unread, msgs, sent, history>>

Confirm ==
  /\ friends[Receiver]
  /\ \E n \in 0..UnreadMax : Starts(Receiver, [at |-> "confirm", n |-> n])
  /\ UNCHANGED <<friends, unread, msgs, sent, history>>

GetMessageIds ==
  /\ At(Receiver, "ids")
  /\ Does(Receiver, [at   |-> "read",
                     ids  |-> IF unread = None THEN <<>> ELSE unread.ids,
                     data |-> <<>>])
  /\ UNCHANGED <<friends, unread, msgs, sent, history>>

\* An id without a message is passed over.
GetMessage ==
  LET me == job[Receiver] IN
  /\ At(Receiver, "read") /\ me.ids # <<>>
  /\ LET text == msgs[Head(me.ids)] IN
     Does(Receiver, [me EXCEPT !.ids  = Tail(@),
                               !.data = IF text = 0 THEN @ ELSE Append(@, text)])
  /\ UNCHANGED <<friends, unread, msgs, sent, history>>

PullAnswer ==
  LET me == job[Receiver] IN
  /\ At(Receiver, "read") /\ me.ids = <<>>
  /\ told' = Len(me.data)
  /\ seen' = seen \cup ToSet(me.data)
  /\ Does(Receiver, Idle)
  /\ UNCHANGED <<friends, unread, msgs, sent, kept, dropped>>

\* Mutant of Confirmed: one id more than the number goes with it.
ConfirmedMore(ids, n) == IF n = 0 \/ Len(ids) <= n + 1 THEN Len(ids) ELSE n

\* How many ids are confirmed.
Confirmed(ids, n) == IF n = 0 \/ Len(ids) <= n THEN Len(ids) ELSE n

ConfirmUnreadIds ==
  LET me == job[Receiver] IN
  /\ At(Receiver, "confirm")
  /\ \/ /\ unread # None
        /\ LET k    == Confirmed(unread.ids, me.n)
               gone == SubSeq(unread.ids, 1, k)
               text == {msgs[i] : i \in ToSet(gone)} \ {0}
           IN
           /\ unread' = [unread EXCEPT !.ids = SubSeq(@, k + 1, Len(@))]
           /\ Does(Receiver, [at |-> "drop", ids |-> gone])
           /\ kept' = kept \ text
           /\ dropped' = IF me.n \in 1..told THEN dropped \cup text ELSE dropped
           /\ told' = IF me.n \in 1..told THEN told - me.n ELSE 0
     \/ /\ unread = None
        /\ Does(Receiver, Idle)
        /\ UNCHANGED <<unread, kept, told, dropped>>
  /\ UNCHANGED <<friends, msgs, sent, seen>>

\* msgs without the messages of some ids.
Without(ids) == [i \in Ids |-> IF i \in ToSet(ids) THEN 0 ELSE msgs[i]]

ConfirmRemoves ==
  /\ At(Receiver, "drop")
  /\ msgs' = Without(job[Receiver].ids)
  /\ Does(Receiver, Idle)
  /\ UNCHANGED <<friends, unread, sent, history>>

-----------------------------------------------------------------------------
(* Either player ends the friendship, or makes it again.                   *)

\* remove_friend: the other one's data first, then one's own.
RemoveFriend(p) ==
  /\ friends[p]
  /\ Starts(p, [at |-> "unfriend", whose |-> Other(p), mine |-> FALSE])
  /\ UNCHANGED <<friends, unread, msgs, sent, history>>

\* Where remove_friend goes from the data of one of them.
NextOf(me, p) ==
  IF me.mine THEN Idle ELSE [at |-> "unfriend", whose |-> p, mine |-> TRUE]

\* remove_friend_data; only the receiver's row has these messages.
RemoveFriendIndex(p) ==
  LET me == job[p] IN
  /\ At(p, "unfriend")
  /\ friends' = [friends EXCEPT ![me.whose] = FALSE]
  /\ Does(p, IF me.whose = Receiver THEN [me EXCEPT !.at = "list"] ELSE NextOf(me, p))
  /\ kept' = {} /\ told' = 0
  /\ UNCHANGED <<unread, msgs, sent, seen, dropped>>

RemoveListIds(p) ==
  LET me == job[p] IN
  /\ At(p, "list")
  /\ Does(p, IF unread = None THEN NextOf(me, p)
             ELSE [at |-> "clear", whose |-> me.whose, mine |-> me.mine, ids |-> unread.ids])
  /\ UNCHANGED <<friends, unread, msgs, sent, history>>

RemoveMessages(p) ==
  /\ At(p, "clear")
  /\ msgs' = Without(job[p].ids)
  /\ Does(p, [job[p] EXCEPT !.at = "forget"])
  /\ UNCHANGED <<friends, unread, sent, history>>

RemoveUnread(p) ==
  /\ At(p, "forget")
  /\ unread' = None
  /\ Does(p, NextOf(job[p], p))
  /\ UNCHANGED <<friends, msgs, sent, history>>

\* agree_add_friend asks for no request: the other one's Friends, then one's own.
Agree(p) ==
  /\ ~friends[p]
  /\ friends' = [friends EXCEPT ![Other(p)] = TRUE]
  /\ Starts(p, [at |-> "agreed"])
  /\ UNCHANGED <<unread, msgs, sent, history>>

AddToOwn(p) ==
  /\ At(p, "agreed")
  /\ friends' = [friends EXCEPT ![p] = TRUE]
  /\ Does(p, Idle)
  /\ UNCHANGED <<unread, msgs, sent, history>>

Next ==
  \/ Chat \/ CheckUnreadNumFull \/ AddMessage \/ AddNewMessageId \/ ChatFailed
  \/ Pull \/ Confirm \/ GetMessageIds \/ GetMessage \/ PullAnswer
  \/ ConfirmUnreadIds \/ ConfirmRemoves
  \/ \E p \in Players :
       \/ RemoveFriend(p) \/ RemoveFriendIndex(p) \/ RemoveListIds(p)
       \/ RemoveMessages(p) \/ RemoveUnread(p) \/ Agree(p) \/ AddToOwn(p)

Spec == Init /\ [][Next]_vars

-----------------------------------------------------------------------------
(* What is wanted of it.                                                   *)

\* A message whose sender was answered with success stays among the unread
\* ones, under an id that has its text, until it is confirmed or one of the
\* players ends the friendship, although ids and messages are two columns
\* that several goroutines change one after the other (friend_chat_add,
\* friend_confirm_unread_message).
AcceptedIsUnread ==
  ~overlap => \A m \in kept : unread # None /\ \E i \in ToSet(unread.ids) : msgs[i] = m

\* An answer to the receiver has the messages in the order they were sent,
\* none of them twice, although ids are used again (friend_pull_unread_message).
PulledInOrder ==
  ~overlap /\ At(Receiver, "read") =>
    LET data == job[Receiver].data IN
    \A i, j \in 1..Len(data) : i < j => data[i] < data[j]

\* A receiver who confirms as many messages as he was shown loses none he has
\* not seen, whatever arrives in between (ConfirmUnreadIds).
SeenBeforeConfirmed == ~overlap => dropped \subseteq seen

-----------------------------------------------------------------------------
(* The inductive invariant behind them.                                    *)

Texts == Nat \ {0}
\* The ids of the unread messages, in order.
Unread == IF unread = None THEN <<>> ELSE unread.ids

Unfriends == [at : {"unfriend", "list"}, whose : Players, mine : BOOLEAN]
             \cup [at : {"clear", "forget"}, whose : Players, mine : BOOLEAN, ids : Seq(Ids)]
Chats     == [at : {"check"}, text : Texts] \cup [at : {"add", "id", "failed"}, text : Texts, id : Ids]
Readings  == [at : {"ids"}] \cup [at : {"confirm"}, n : 0..UnreadMax]
             \cup [at : {"read"}, ids : Seq(Ids), data : Seq(Texts)] \cup [at : {"drop"}, ids : Seq(Ids)]
InHand    == {"check", "add", "id", "failed"}
Common    == [at : {"idle", "agreed"}] \cup Unfriends

TypeOK ==
  /\ sent \in Nat /\ told \in Nat /\ overlap \in BOOLEAN
  /\ unread = None \/ unread \in [ids : Seq(Ids), curr : 0..UnreadMax]
  /\ msgs \in [Ids -> Nat] /\ \A i \in Ids : msgs[i] <= sent
  /\ DOMAIN job = Players
  /\ job[Sender] \in Common \cup Chats /\ job[Receiver] \in Common \cup Readings
  /\ job[Sender].at \in InHand => job[Sender].text <= sent

\* The unread ids have texts, in the order of sending and sent before the one in hand.
UnreadInOrder ==
  /\ \A i, j \in 1..Len(Unread) : i < j => msgs[Unread[i]] < msgs[Unread[j]]
  /\ \A i \in 1..Len(Unread) :
       /\ msgs[Unread[i]] # 0
       /\ job[Sender].at \in InHand => msgs[Unread[i]] < job[Sender].text

\* The message the sender stored whose id he has yet to note.
StoredApart ==
  At(Sender, "id") => msgs[job[Sender].id] = job[Sender].text

\* The ids the receiver confirmed are nobody's, and still taken.
GoneApart ==
  At(Receiver, "drop") => \A i \in ToSet(job[Receiver].ids) :
    /\ msgs[i] # 0 /\ i \notin ToSet(Unread)
    /\ At(Sender, "id") => job[Sender].id # i

\* An answer begins as the unread messages do, and its ids are those that follow.
ReadsUnread ==
  At(Receiver, "read") =>
    LET me == job[Receiver] IN
    /\ Len(me.data) + Len(me.ids) <= Len(Unread)
    /\ \A j \in 1..Len(me.data) : me.data[j] = msgs[Unread[j]]
    /\ \A j \in 1..Len(me.ids)  : me.ids[j] = Unread[Len(me.data) + j]

KeptIsUnread == \A m \in kept : \E i \in 1..Len(Unread) : msgs[Unread[i]] = m

ToldIsSeen == told <= Len(Unread) /\ \A j \in 1..told : msgs[Unread[j]] \in seen

\* While one ends the friendship the other is idle, and the row forgets in order.
Forgetting ==
  \A p \in Players :
    /\ job[p].at \in Ends => At(Other(p), "idle")
    /\ job[p].at \in {"list", "clear", "forget"} => kept = {} /\ told = 0
    /\ At(p, "clear") => job[p].ids = Unread

RowIsSound ==
  UnreadInOrder /\ StoredApart /\ GoneApart /\ ReadsUnread /\ KeptIsUnread /\ ToldIsSeen

ChatInv ==
  /\ Forgetting
  /\ RowIsSound \/ \E p \in Players : At(p, "forget")
  /\ dropped \subseteq seen

IInv == TypeOK /\ (~overlap => ChatInv)

=============================================================================
