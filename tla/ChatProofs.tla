----------------------------- MODULE ChatProofs -----------------------------
(***************************************************************************)
(* What the two chats promise: FriendChat for any number of ids and        *)
(* messages, Chat for any number of players, items and messages.  The two  *)
(* parts share nothing but this module.                                    *)
(***************************************************************************)
EXTENDS FriendChat, Chat, SequenceTheorems, TLAPS


-----------------------------------------------------------------------------
(* Types *)

LEMMA UnreadType == ASSUME TypeOK PROVE Unread \in Seq(Ids)
<1>1. <<>> \in Seq(Ids) OBVIOUS
<1>. QED BY <1>1 DEF TypeOK, Unread

LEMMA Both == /\ Sender \in Players /\ Receiver \in Players
              /\ \A p \in Players : Other(p) \in Players /\ Other(p) # p /\ Other(Other(p)) = p
              /\ Other(Sender) = Receiver /\ Other(Receiver) = Sender
              /\ \A p, q \in Players : q = p \/ q = Other(p)
BY PlayersAssumption DEF Players, Other

\* A job changes alone.
LEMMA JobMoves ==
  ASSUME TypeOK, NEW p \in Players, NEW what, job' = [job EXCEPT ![p] = what]
  PROVE  job'[p] = what /\ job'[Other(p)] = job[Other(p)] /\ DOMAIN job' = Players
BY Both DEF TypeOK

\* What a job of each kind has.
LEMMA SenderFields ==
  ASSUME TypeOK
  PROVE  /\ job[Sender].at \in InHand => job[Sender].text \in Texts
         /\ job[Sender].at \in {"add", "id", "failed"} => job[Sender].id \in Ids
BY DEF TypeOK, Common, Unfriends, Chats, InHand

LEMMA ReceiverFields ==
  ASSUME TypeOK
  PROVE  /\ At(Receiver, "confirm") => job[Receiver].n \in 0..UnreadMax
         /\ At(Receiver, "read") => job[Receiver].ids \in Seq(Ids) /\ job[Receiver].data \in Seq(Texts)
         /\ At(Receiver, "drop") => job[Receiver].ids \in Seq(Ids)
BY DEF TypeOK, Common, Unfriends, Readings, At

LEMMA EndFields ==
  ASSUME TypeOK, NEW p \in Players, job[p].at \in Ends
  PROVE  /\ job[p] \in Unfriends /\ job[p].whose \in Players /\ job[p].mine \in BOOLEAN
         /\ job[p].at \in {"clear", "forget"} => job[p].ids \in Seq(Ids)
<1>1. job[p] \in Unfriends
  BY DEF TypeOK, Players, Ends, Common, Chats, Readings
<1>. QED BY <1>1 DEF Unfriends, Ends

\* Only the kind of the new job matters to the types.
LEMMA JobType ==
  ASSUME TypeOK, NEW p \in Players, NEW what, job' = [job EXCEPT ![p] = what],
         what \in Common \/ (p = Sender /\ what \in Chats) \/ (p = Receiver /\ what \in Readings),
         UNCHANGED sent, what.at \in InHand => what.text <= sent
  PROVE  /\ DOMAIN job' = Players
         /\ job'[Sender] \in Common \cup Chats /\ job'[Receiver] \in Common \cup Readings
         /\ job'[Sender].at \in InHand => job'[Sender].text <= sent'
<1>1. job'[p] = what /\ job'[Other(p)] = job[Other(p)] /\ DOMAIN job' = Players BY JobMoves
<1>. QED BY <1>1, Both, PlayersAssumption DEF TypeOK, Other, Players

\* A step that touches the jobs and nothing else that has a type.
LEMMA JobOnly ==
  ASSUME TypeOK, UNCHANGED <<unread, msgs, sent>>, told' \in Nat, overlap' \in BOOLEAN,
         DOMAIN job' = Players,
         job'[Sender] \in Common \cup Chats, job'[Receiver] \in Common \cup Readings,
         job'[Sender].at \in InHand => job'[Sender].text <= sent'
  PROVE  TypeOK'
BY DEF TypeOK, Common, Unfriends, Chats, Readings

LEMMA Plain ==
  /\ Idle \in Common /\ [at |-> "agreed"] \in Common /\ [at |-> "ids"] \in Readings
  /\ Idle.at \notin InHand /\ "agreed" \notin InHand /\ "unfriend" \notin InHand
  /\ \A n \in 0..UnreadMax : [at |-> "confirm", n |-> n] \in Readings
  /\ \A p \in Players, m \in BOOLEAN : [at |-> "unfriend", whose |-> p, mine |-> m] \in Common
BY DEF Idle, Common, Unfriends, Readings, InHand

LEMMA StartType ==
  ASSUME TypeOK, NEW p \in Players, NEW what, Starts(p, what), UNCHANGED <<unread, msgs, sent, history>>,
         what \in Common \/ (p = Receiver /\ what \in Readings), what.at \notin InHand
  PROVE  TypeOK'
<1>1. job' = [job EXCEPT ![p] = what] /\ overlap' \in BOOLEAN BY DEF Starts
<1>2. UNCHANGED <<unread, msgs, sent>> /\ told' \in Nat BY DEF history, TypeOK
<1>. QED BY <1>1, <1>2, JobType, JobOnly

LEMMA ChatType == ASSUME TypeOK, Chat PROVE TypeOK'
<1>1. job' = [job EXCEPT ![Sender] = [at |-> "check", text |-> sent + 1]] /\ overlap' \in BOOLEAN
  BY DEF Chat, Starts
<1>2. job'[Sender] = [at |-> "check", text |-> sent + 1] /\ job'[Receiver] = job[Receiver]
      /\ DOMAIN job' = Players
  BY <1>1, JobMoves, Both
<1>3. sent' = sent + 1 /\ sent' \in Nat /\ UNCHANGED <<unread, msgs, told>> BY DEF Chat, TypeOK, history
<1>4. job'[Sender] \in Chats /\ job'[Sender].text <= sent' BY <1>2, <1>3 DEF Chats, Texts, TypeOK
<1>5. \A i \in Ids : msgs'[i] <= sent' BY <1>3 DEF TypeOK
<1>. QED BY <1>1, <1>2, <1>3, <1>4, <1>5 DEF TypeOK

LEMMA SenderType ==
  ASSUME TypeOK, CheckUnreadNumFull \/ AddMessage \/ AddNewMessageId \/ ChatFailed PROVE TypeOK'
<1>0. /\ job[Sender].at \in InHand => job[Sender].text \in Texts /\ job[Sender].text <= sent
      /\ job[Sender].at \in {"add", "id", "failed"} => job[Sender].id \in Ids
  BY SenderFields DEF TypeOK
<1>. USE DEF Does, history
<1>1. CASE CheckUnreadNumFull
  <2>1. NextId \in Ids BY UnreadAssumption DEF NextId, Ids, TypeOK
  <2>2. job[Sender].at = "check" /\ UNCHANGED <<msgs, sent, told, overlap>>
    BY <1>1 DEF CheckUnreadNumFull, At
  <2>3. PICK what \in Common \cup Chats : /\ job' = [job EXCEPT ![Sender] = what]
                                          /\ what.at \in InHand => what.text <= sent
    <3>1. [at |-> "add", text |-> job[Sender].text, id |-> NextId] \in Chats
      BY <1>0, <2>1, <2>2 DEF Chats, InHand
    <3>. QED BY <1>0, <1>1, <2>2, <3>1, Plain DEF CheckUnreadNumFull, InHand
  <2>4. unread' = None \/ unread' \in [ids : Seq(Ids), curr : 0..UnreadMax]
    BY <1>1, <2>1 DEF CheckUnreadNumFull, TypeOK, Ids
  <2>5. /\ DOMAIN job' = Players /\ job'[Sender] \in Common \cup Chats
        /\ job'[Receiver] \in Common \cup Readings
        /\ job'[Sender].at \in InHand => job'[Sender].text <= sent'
    BY <2>2, <2>3, JobType, Both
  <2>. QED BY <2>2, <2>4, <2>5 DEF TypeOK
<1>2. CASE AddMessage
  <2>1. job[Sender].at = "add" /\ UNCHANGED <<unread, sent, told, overlap>>
    BY <1>2 DEF AddMessage, At
  <2>2. PICK what \in Chats : job' = [job EXCEPT ![Sender] = what] /\ what.text = job[Sender].text
    <3>1. job[Sender] \in [at : {"add", "id", "failed"}, text : Texts, id : Ids]
      BY <2>1 DEF TypeOK, Common, Unfriends, Chats
    <3>2. [job[Sender] EXCEPT !.at = "id"] \in Chats /\ [job[Sender] EXCEPT !.at = "failed"] \in Chats
          /\ [job[Sender] EXCEPT !.at = "id"].text = job[Sender].text
          /\ [job[Sender] EXCEPT !.at = "failed"].text = job[Sender].text
      BY <3>1 DEF Chats
    <3>. QED BY <1>2, <3>2 DEF AddMessage
  <2>3. msgs' \in [Ids -> Nat] /\ \A i \in Ids : msgs'[i] <= sent'
    <3>1. CASE msgs' = msgs BY <2>1, <3>1 DEF TypeOK
    <3>2. CASE msgs' = [msgs EXCEPT ![job[Sender].id] = job[Sender].text]
      BY <1>0, <2>1, <3>2 DEF TypeOK, InHand, Texts
    <3>. QED BY <1>2, <3>1, <3>2 DEF AddMessage
  <2>4. /\ DOMAIN job' = Players /\ job'[Sender] \in Common \cup Chats
        /\ job'[Receiver] \in Common \cup Readings
        /\ job'[Sender].at \in InHand => job'[Sender].text <= sent'
    BY <1>0, <2>1, <2>2, JobType, Both DEF InHand
  <2>. QED BY <2>1, <2>3, <2>4 DEF TypeOK
<1>3. CASE AddNewMessageId
  <2>1. job[Sender].at = "id" /\ UNCHANGED <<msgs, sent, told, overlap>>
        /\ job' = [job EXCEPT ![Sender] = Idle]
    BY <1>3 DEF AddNewMessageId, At
  <2>2. unread' \in [ids : Seq(Ids), curr : 0..UnreadMax]
    <3>1. CASE unread = None
      <4>1. <<job[Sender].id>> \in Seq(Ids) /\ 0 \in 0..UnreadMax BY <1>0, <2>1, UnreadAssumption
      <4>. QED BY <1>3, <3>1, <4>1 DEF AddNewMessageId
    <3>2. CASE unread # None
      <4>1. unread \in [ids : Seq(Ids), curr : 0..UnreadMax] BY <3>2 DEF TypeOK
      <4>2. Append(unread.ids, job[Sender].id) \in Seq(Ids) BY <1>0, <2>1, <4>1, AppendProperties
      <4>. QED BY <1>3, <3>2, <4>1, <4>2 DEF AddNewMessageId
    <3>. QED BY <3>1, <3>2
  <2>3. /\ DOMAIN job' = Players /\ job'[Sender] \in Common \cup Chats
        /\ job'[Receiver] \in Common \cup Readings
        /\ job'[Sender].at \in InHand => job'[Sender].text <= sent'
    BY <2>1, Plain, JobType, Both
  <2>. QED BY <2>1, <2>2, <2>3 DEF TypeOK
<1>4. CASE ChatFailed
  <2>1. job' = [job EXCEPT ![Sender] = Idle] /\ UNCHANGED <<unread, msgs, sent, told, overlap>>
    BY <1>4 DEF ChatFailed
  <2>. QED BY <2>1, Plain, JobType, JobOnly, Both DEF TypeOK
<1>. QED BY <1>1, <1>2, <1>3, <1>4

\* msgs without some of its messages.
LEMMA WithoutType ==
  ASSUME TypeOK, NEW ids, UNCHANGED sent, msgs' = Without(ids)
  PROVE  msgs' \in [Ids -> Nat] /\ \A i \in Ids : msgs'[i] <= sent'
BY DEF TypeOK, Without

LEMMA ReceiverType ==
  ASSUME TypeOK, GetMessageIds \/ GetMessage \/ PullAnswer \/ ConfirmUnreadIds \/ ConfirmRemoves
  PROVE  TypeOK'
<1>. USE DEF Does, history
<1>1. CASE GetMessageIds
  <2>1. PICK what \in Readings : job' = [job EXCEPT ![Receiver] = what] /\ what.at \notin InHand
    <3>1. Unread \in Seq(Ids) /\ <<>> \in Seq(Texts) BY UnreadType
    <3>2. [at |-> "read", ids |-> Unread, data |-> <<>>] \in Readings BY <3>1 DEF Readings
    <3>. QED BY <1>1, <3>2 DEF GetMessageIds, Unread, InHand
  <2>2. UNCHANGED <<unread, msgs, sent, told, overlap>> BY <1>1 DEF GetMessageIds
  <2>. QED BY <2>1, <2>2, JobType, JobOnly, Both DEF TypeOK
<1>2. CASE GetMessage
  <2>0. At(Receiver, "read") /\ job[Receiver].ids # <<>> /\ UNCHANGED <<unread, msgs, sent, told, overlap>>
    BY <1>2 DEF GetMessage
  <2>1. job[Receiver].ids \in Seq(Ids) /\ job[Receiver].data \in Seq(Texts)
        /\ job[Receiver] \in [at : {"read"}, ids : Seq(Ids), data : Seq(Texts)]
    BY <2>0 DEF TypeOK, Common, Unfriends, Readings, At
  <2>2. Head(job[Receiver].ids) \in Ids /\ Tail(job[Receiver].ids) \in Seq(Ids)
    BY <2>0, <2>1, HeadTailProperties
  <2>3. PICK words \in Nat : words = msgs[Head(job[Receiver].ids)] BY <2>2 DEF TypeOK
  <2>4. PICK data : data = IF words = 0 THEN job[Receiver].data ELSE Append(job[Receiver].data, words) OBVIOUS
  <2>5. data \in Seq(Texts) BY <2>1, <2>3, <2>4, AppendProperties DEF Texts
  <2>6. job' = [job EXCEPT ![Receiver] =
                  [job[Receiver] EXCEPT !.ids = Tail(job[Receiver].ids), !.data = data]]
    BY <1>2, <2>1, <2>3, <2>4 DEF GetMessage
  <2>7. [job[Receiver] EXCEPT !.ids = Tail(job[Receiver].ids), !.data = data] \in Readings
        /\ [job[Receiver] EXCEPT !.ids = Tail(job[Receiver].ids), !.data = data].at = "read"
    BY <2>1, <2>2, <2>5 DEF Readings
  <2>. QED BY <2>0, <2>6, <2>7, JobType, JobOnly, Both DEF TypeOK, InHand
<1>3. CASE PullAnswer
  <2>1. job' = [job EXCEPT ![Receiver] = Idle] /\ UNCHANGED <<unread, msgs, sent, overlap>>
    BY <1>3 DEF PullAnswer
  <2>2. told' \in Nat BY <1>3, ReceiverFields, LenProperties DEF PullAnswer
  <2>. QED BY <2>1, <2>2, Plain, JobType, JobOnly, Both DEF TypeOK
<1>4. CASE ConfirmUnreadIds
  <2>1. CASE unread = None
    <3>1. job' = [job EXCEPT ![Receiver] = Idle] /\ UNCHANGED <<unread, msgs, sent, told, overlap>>
      BY <1>4, <2>1 DEF ConfirmUnreadIds
    <3>. QED BY <3>1, Plain, JobType, JobOnly, Both DEF TypeOK
  <2>2. CASE unread # None
    <3>1. unread \in [ids : Seq(Ids), curr : 0..UnreadMax] /\ job[Receiver].n \in 0..UnreadMax
      BY <1>4, <2>2, ReceiverFields DEF ConfirmUnreadIds, TypeOK
    <3>2. PICK k \in 0..Len(unread.ids) : k = Confirmed(unread.ids, job[Receiver].n)
      BY <3>1, LenProperties, UnreadAssumption DEF Confirmed
    <3>3. SubSeq(unread.ids, 1, k) \in Seq(Ids) /\ SubSeq(unread.ids, k + 1, Len(unread.ids)) \in Seq(Ids)
      BY <3>1, <3>2, LenProperties, SubSeqProperties
    <3>4. unread' = [unread EXCEPT !.ids = SubSeq(unread.ids, k + 1, Len(unread.ids))]
          /\ job' = [job EXCEPT ![Receiver] = [at |-> "drop", ids |-> SubSeq(unread.ids, 1, k)]]
          /\ UNCHANGED <<msgs, sent, overlap>>
          /\ told' = IF job[Receiver].n \in 1..told THEN told - job[Receiver].n ELSE 0
      BY <1>4, <2>2, <3>1, <3>2 DEF ConfirmUnreadIds
    <3>5. unread' \in [ids : Seq(Ids), curr : 0..UnreadMax] /\ told' \in Nat
      <4>1. unread' \in [ids : Seq(Ids), curr : 0..UnreadMax] BY <3>1, <3>3, <3>4
      <4>2. job[Receiver].n \in Int BY <3>1, UnreadAssumption
      <4>. QED BY <3>4, <4>1, <4>2 DEF TypeOK
    <3>6. [at |-> "drop", ids |-> SubSeq(unread.ids, 1, k)] \in Readings BY <3>3 DEF Readings
    <3>7. /\ DOMAIN job' = Players /\ job'[Sender] \in Common \cup Chats
          /\ job'[Receiver] \in Common \cup Readings
          /\ job'[Sender].at \in InHand => job'[Sender].text <= sent'
      BY <3>4, <3>6, JobType, Both DEF InHand
    <3>. QED BY <3>4, <3>5, <3>7 DEF TypeOK
  <2>. QED BY <2>1, <2>2
<1>5. CASE ConfirmRemoves
  <2>1. job' = [job EXCEPT ![Receiver] = Idle] /\ UNCHANGED <<unread, sent, told, overlap>>
        /\ msgs' = Without(job[Receiver].ids)
    BY <1>5 DEF ConfirmRemoves
  <2>2. /\ DOMAIN job' = Players /\ job'[Sender] \in Common \cup Chats
        /\ job'[Receiver] \in Common \cup Readings
        /\ job'[Sender].at \in InHand => job'[Sender].text <= sent'
    BY <2>1, Plain, JobType, Both
  <2>. QED BY <2>1, <2>2, WithoutType DEF TypeOK
<1>. QED BY <1>1, <1>2, <1>3, <1>4, <1>5

LEMMA NextOfType ==
  ASSUME NEW me, me.mine \in BOOLEAN, NEW p \in Players
  PROVE  NextOf(me, p) \in Common /\ NextOf(me, p).at \in {"idle", "unfriend"}
BY Plain DEF NextOf, Idle, InHand

LEMMA EndType ==
  ASSUME TypeOK, NEW p \in Players,
         RemoveFriendIndex(p) \/ RemoveListIds(p) \/ RemoveMessages(p) \/ RemoveUnread(p) \/ AddToOwn(p)
  PROVE  TypeOK'
<1>. USE DEF Does, history
<1>1. CASE AddToOwn(p)
  <2>1. job' = [job EXCEPT ![p] = Idle] /\ UNCHANGED <<unread, msgs, sent, told, overlap>>
    BY <1>1 DEF AddToOwn
  <2>. QED BY <2>1, Plain, JobType, JobOnly DEF TypeOK
<1>2. CASE RemoveFriendIndex(p) \/ RemoveListIds(p) \/ RemoveMessages(p) \/ RemoveUnread(p)
  <2>0. job[p].at \in Ends /\ UNCHANGED <<sent, overlap>> /\ told' \in Nat
    BY <1>2 DEF RemoveFriendIndex, RemoveListIds, RemoveMessages, RemoveUnread, At, Ends, TypeOK
  <2>1. job[p] \in Unfriends /\ job[p].whose \in Players /\ job[p].mine \in BOOLEAN
    BY <2>0, EndFields
  <2>2. NextOf(job[p], p) \in Common /\ NextOf(job[p], p).at \in {"idle", "unfriend"}
    BY <2>1, NextOfType
  <2>3. PICK what \in Common : job' = [job EXCEPT ![p] = what] /\ what.at \notin InHand
    <3>1. CASE RemoveFriendIndex(p)
      <4>1. job[p] \in [at : {"unfriend", "list"}, whose : Players, mine : BOOLEAN]
        BY <2>1, <3>1 DEF RemoveFriendIndex, At, Unfriends
      <4>2. [job[p] EXCEPT !.at = "list"] \in Common /\ [job[p] EXCEPT !.at = "list"].at = "list"
        BY <4>1 DEF Common, Unfriends
      <4>. QED BY <2>2, <3>1, <4>2 DEF RemoveFriendIndex, InHand
    <3>2. CASE RemoveListIds(p)
      <4>1. unread # None => unread.ids \in Seq(Ids) BY DEF TypeOK
      <4>2. unread # None =>
              [at |-> "clear", whose |-> job[p].whose, mine |-> job[p].mine, ids |-> unread.ids] \in Common
        BY <2>1, <4>1 DEF Common, Unfriends
      <4>. QED BY <2>2, <3>2, <4>2 DEF RemoveListIds, InHand
    <3>3. CASE RemoveMessages(p)
      <4>1. job[p] \in [at : {"clear", "forget"}, whose : Players, mine : BOOLEAN, ids : Seq(Ids)]
        BY <2>1, <3>3 DEF RemoveMessages, At, Unfriends
      <4>2. [job[p] EXCEPT !.at = "forget"] \in Common /\ [job[p] EXCEPT !.at = "forget"].at = "forget"
        BY <4>1 DEF Common, Unfriends
      <4>. QED BY <3>3, <4>2 DEF RemoveMessages, InHand
    <3>4. CASE RemoveUnread(p)
      BY <2>2, <3>4 DEF RemoveUnread, InHand
    <3>. QED BY <1>2, <3>1, <3>2, <3>3, <3>4
  <2>4. /\ DOMAIN job' = Players /\ job'[Sender] \in Common \cup Chats
        /\ job'[Receiver] \in Common \cup Readings
        /\ job'[Sender].at \in InHand => job'[Sender].text <= sent'
    BY <2>0, <2>3, JobType
  <2>5. msgs' \in [Ids -> Nat] /\ \A i \in Ids : msgs'[i] <= sent'
    <3>1. CASE msgs' = msgs BY <2>0, <3>1 DEF TypeOK
    <3>2. CASE RemoveMessages(p) BY <2>0, <3>2, WithoutType DEF RemoveMessages
    <3>. QED BY <1>2, <3>1, <3>2 DEF RemoveFriendIndex, RemoveListIds, RemoveUnread
  <2>6. unread' = unread \/ unread' = None
    BY <1>2 DEF RemoveFriendIndex, RemoveListIds, RemoveMessages, RemoveUnread
  <2>7. unread' = None \/ unread' \in [ids : Seq(Ids), curr : 0..UnreadMax] BY <2>6 DEF TypeOK
  <2>. QED BY <2>0, <2>4, <2>5, <2>7 DEF TypeOK
<1>. QED BY <1>1, <1>2

LEMMA NextType == ASSUME TypeOK, [Next]_vars PROVE TypeOK'
<1>1. CASE Pull \/ Confirm
  <2>1. PICK what \in Readings : Starts(Receiver, what) /\ what.at \notin InHand
    BY <1>1, Plain DEF Pull, Confirm, InHand
  <2>. QED BY <1>1, <2>1, StartType, Both DEF Pull, Confirm
<1>2. ASSUME NEW p \in Players, RemoveFriend(p) \/ Agree(p) PROVE TypeOK'
  <2>1. PICK what \in Common : Starts(p, what) /\ what.at \notin InHand
    BY <1>2, Plain, Both DEF RemoveFriend, Agree
  <2>. QED BY <1>2, <2>1, StartType DEF RemoveFriend, Agree
<1>3. CASE UNCHANGED vars BY <1>3 DEF vars, history, TypeOK, Common, Unfriends, Chats, Readings
<1>. QED BY <1>1, <1>2, <1>3, ChatType, SenderType, ReceiverType, EndType DEF Next

-----------------------------------------------------------------------------
(* The unread messages *)

\* Who is busy with something else than the end of the friendship is alone with the other.
LEMMA BusyIsSound ==
  ASSUME ChatInv, NEW p \in Players, ~At(p, "idle"), job[p].at \notin Ends
  PROVE  ~Unfriending /\ RowIsSound
<1>1. \A q \in Players : job[q].at \notin Ends
  <2>1. SUFFICES ASSUME NEW q \in Players, job[q].at \in Ends PROVE FALSE OBVIOUS
  <2>2. At(Other(q), "idle") /\ q # p BY <2>1 DEF ChatInv, Forgetting
  <2>3. Other(q) = p BY <2>2, Both
  <2>. QED BY <2>2, <2>3
<1>2. ~\E q \in Players : At(q, "forget") BY <1>1 DEF At, Ends
<1>. QED BY <1>1, <1>2 DEF ChatInv, Unfriending

\* As is every request that is not in the way of the end of the friendship.
LEMMA StartIsSound ==
  ASSUME TypeOK, ChatInv, NEW p \in Players, NEW what, Starts(p, what), ~overlap'
  PROVE  /\ ~Unfriending /\ RowIsSound /\ At(p, "idle") /\ ~overlap
         /\ job'[p] = what /\ job'[Other(p)] = job[Other(p)]
         /\ what.at = "unfriend" => At(Other(p), "idle")
<1>1. ~Unfriending /\ ~overlap /\ At(p, "idle") /\ (what.at = "unfriend" => At(Other(p), "idle"))
  BY DEF Starts
<1>2. ~\E q \in Players : At(q, "forget") BY <1>1 DEF At, Unfriending, Ends
<1>. QED BY <1>1, <1>2, JobMoves DEF ChatInv, Starts

\* Nobody ends the friendship after a step of one who does not.
LEMMA StillTogether ==
  ASSUME ~Unfriending, NEW p \in Players, job'[p].at \notin Ends, job'[Other(p)] = job[Other(p)]
  PROVE  Forgetting'
<1>1. \A q \in Players : job'[q].at \notin Ends BY Both DEF Unfriending
<1>. QED BY <1>1 DEF Forgetting, At, Ends

\* A step that leaves the row alone and the two players' hands empty.
LEMMA RowKept ==
  ASSUME RowIsSound, UNCHANGED <<unread, msgs, kept, told, seen>>,
         job'[Sender] = job[Sender] \/ job'[Sender].at \notin InHand,
         job'[Receiver] = job[Receiver] \/ job'[Receiver].at \notin {"read", "drop"}
  PROVE  RowIsSound'
<1>1. Unread' = Unread BY DEF Unread
<1>2. UnreadInOrder' BY <1>1 DEF RowIsSound, UnreadInOrder
<1>3. StoredApart' BY DEF RowIsSound, StoredApart, At, InHand
<1>4. GoneApart' BY <1>1 DEF RowIsSound, GoneApart, At, InHand
<1>5. ReadsUnread' BY <1>1 DEF RowIsSound, ReadsUnread, At
<1>6. KeptIsUnread' BY <1>1 DEF RowIsSound, KeptIsUnread
<1>7. ToldIsSeen' BY <1>1 DEF RowIsSound, ToldIsSeen
<1>. QED BY <1>2, <1>3, <1>4, <1>5, <1>6, <1>7 DEF RowIsSound

LEMMA ChatSound ==
  ASSUME TypeOK, ChatInv, Chat, ~overlap' PROVE ChatInv'
<1>1. PICK what : what = [at |-> "check", text |-> sent + 1] OBVIOUS
<1>2. Starts(Sender, what) /\ UNCHANGED <<unread, msgs, kept, told, seen, dropped>>
  BY <1>1 DEF Chat, history
<1>3. ~Unfriending /\ RowIsSound /\ job'[Sender] = what /\ job'[Receiver] = job[Receiver]
  BY <1>2, StartIsSound, Both
<1>4. Forgetting' BY <1>1, <1>3, StillTogether, Both DEF Ends
<1>5. Unread' = Unread /\ Unread \in Seq(Ids) BY <1>2, UnreadType DEF Unread
<1>6. \A i \in 1..Len(Unread) : msgs[Unread[i]] < sent + 1
  <2>1. \A i \in 1..Len(Unread) : Unread[i] \in Ids BY <1>5, ElementOfSeq
  <2>. QED BY <2>1 DEF TypeOK
<1>7. UnreadInOrder' BY <1>1, <1>2, <1>3, <1>5, <1>6 DEF RowIsSound, UnreadInOrder
<1>8. StoredApart' /\ GoneApart' BY <1>1, <1>2, <1>3, <1>5 DEF RowIsSound, StoredApart, GoneApart, At
<1>9. ReadsUnread' /\ KeptIsUnread' /\ ToldIsSeen'
  BY <1>2, <1>3, <1>5 DEF RowIsSound, ReadsUnread, KeptIsUnread, ToldIsSeen, At
<1>. QED BY <1>2, <1>4, <1>7, <1>8, <1>9 DEF ChatInv, RowIsSound

LEMMA StartSound ==
  ASSUME TypeOK, ChatInv, NEW p \in Players, NEW what, Starts(p, what),
         UNCHANGED <<unread, msgs, history>>, ~overlap',
         what.at \in {"ids", "confirm", "agreed", "unfriend"}
  PROVE  ChatInv'
<1>1. /\ ~Unfriending /\ RowIsSound /\ job'[p] = what /\ job'[Other(p)] = job[Other(p)]
      /\ what.at = "unfriend" => At(Other(p), "idle")
  BY StartIsSound
<1>2. RowIsSound'
  BY <1>1, RowKept, Both DEF InHand, history
<1>3. Forgetting'
  <2>1. CASE what.at # "unfriend" BY <1>1, <2>1, StillTogether DEF Ends
  <2>2. CASE what.at = "unfriend"
    <3>1. job'[Other(p)].at = "idle" /\ job'[p].at = "unfriend" BY <1>1, <2>2 DEF At
    <3>. QED BY <3>1, Both DEF Forgetting, At, Ends
  <2>. QED BY <2>1, <2>2
<1>. QED BY <1>2, <1>3 DEF ChatInv, history

\* The sender's steps.
LEMMA CheckSound ==
  ASSUME TypeOK, ChatInv, CheckUnreadNumFull PROVE ChatInv'
<1>1. job[Sender].at = "check" /\ UNCHANGED <<msgs, kept, told, seen, dropped>>
  BY DEF CheckUnreadNumFull, At, history
<1>2. ~Unfriending /\ RowIsSound BY <1>1, BusyIsSound, Both DEF At, Ends
<1>3. /\ job'[Receiver] = job[Receiver]
      /\ \/ job'[Sender].at = "idle"
         \/ job'[Sender].at = "add" /\ job'[Sender].text = job[Sender].text
  BY JobMoves, Both DEF CheckUnreadNumFull, Does, Idle
<1>4. Forgetting' BY <1>2, <1>3, StillTogether, Both DEF Ends
<1>5. Unread' = Unread
  <2>1. unread # None => unread \in [ids : Seq(Ids), curr : 0..UnreadMax] BY DEF TypeOK
  <2>2. unread # None /\ unread' # unread => unread' \in [ids : Seq(Ids), curr : 0..UnreadMax] /\ unread'.ids = unread.ids
    <3>1. NextId \in 0..UnreadMax BY UnreadAssumption DEF NextId, Ids, TypeOK
    <3>. QED BY <2>1, <3>1 DEF CheckUnreadNumFull
  <2>3. unread = None => unread' = None BY DEF CheckUnreadNumFull
  <2>. QED BY <2>2, <2>3, NoneAssumption DEF Unread, Ids
<1>6. UnreadInOrder' BY <1>1, <1>2, <1>3, <1>5 DEF RowIsSound, UnreadInOrder, InHand
<1>7. StoredApart' /\ GoneApart'
  BY <1>1, <1>2, <1>3, <1>5 DEF RowIsSound, StoredApart, GoneApart, At
<1>8. ReadsUnread' /\ KeptIsUnread' /\ ToldIsSeen'
  BY <1>1, <1>2, <1>3, <1>5 DEF RowIsSound, ReadsUnread, KeptIsUnread, ToldIsSeen, At
<1>. QED BY <1>1, <1>4, <1>6, <1>7, <1>8 DEF ChatInv, RowIsSound

LEMMA AddSound ==
  ASSUME TypeOK, ChatInv, AddMessage PROVE ChatInv'
<1>1. job[Sender].at = "add" /\ UNCHANGED <<unread, kept, told, seen, dropped>>
  BY DEF AddMessage, At, history
<1>2. ~Unfriending /\ RowIsSound BY <1>1, BusyIsSound, Both DEF At, Ends
<1>3. PICK id \in Ids, words \in Texts : id = job[Sender].id /\ words = job[Sender].text
  BY <1>1, SenderFields DEF InHand
<1>4. Unread' = Unread /\ Unread \in Seq(Ids) BY <1>1, UnreadType DEF Unread
<1>5. \A i \in 1..Len(Unread) : Unread[i] \in Ids BY <1>4, ElementOfSeq
<1>6. job[Sender] \in [at : {"add", "id", "failed"}, text : Texts, id : Ids]
  BY <1>1 DEF TypeOK, Common, Unfriends, Chats
<1>7. CASE msgs[id] = 0
  <2>1. msgs' = [msgs EXCEPT ![id] = words] BY <1>3, <1>7 DEF AddMessage
  <2>2. job'[Sender] = [job[Sender] EXCEPT !.at = "id"] /\ job'[Receiver] = job[Receiver]
    BY <1>3, <1>7, JobMoves, Both DEF AddMessage, Does
  <2>3. job'[Sender].at = "id" /\ job'[Sender].id = id /\ job'[Sender].text = words
    BY <1>3, <1>6, <2>2
  <2>4. msgs'[id] = words /\ \A i \in Ids \ {id} : msgs'[i] = msgs[i] BY <2>1 DEF TypeOK
  <2>5. \A i \in 1..Len(Unread) : Unread[i] # id /\ msgs'[Unread[i]] = msgs[Unread[i]]
    BY <1>2, <1>5, <1>7, <2>4 DEF RowIsSound, UnreadInOrder
  <2>6. Forgetting' BY <1>2, <2>2, <2>3, StillTogether, Both DEF Ends
  <2>7. UnreadInOrder'
    BY <1>1, <1>2, <1>3, <1>4, <2>3, <2>5 DEF RowIsSound, UnreadInOrder, InHand
  <2>8. StoredApart' BY <2>3, <2>4 DEF StoredApart
  <2>9. GoneApart'
    <3>1. SUFFICES ASSUME At(Receiver, "drop"), NEW i \in ToSet(job[Receiver].ids)
                   PROVE  msgs'[i] # 0 /\ i \notin ToSet(Unread) /\ id # i
      BY <1>4, <2>2, <2>3 DEF GoneApart, At
    <3>2. msgs[i] # 0 /\ i \notin ToSet(Unread) BY <1>2, <3>1 DEF RowIsSound, GoneApart
    <3>3. job[Receiver].ids \in Seq(Ids) BY <3>1, ReceiverFields
    <3>4. i \in Ids BY <3>1, <3>3, ElementOfSeq DEF ToSet
    <3>. QED BY <1>7, <2>4, <3>2, <3>4
  <2>10. ReadsUnread'
    <3>1. SUFFICES ASSUME At(Receiver, "read") PROVE ReadsUnread' BY <2>2 DEF ReadsUnread, At
    <3>2. job[Receiver].data \in Seq(Texts) /\ job[Receiver].ids \in Seq(Ids) BY <3>1, ReceiverFields
    <3>3. /\ Len(job[Receiver].data) + Len(job[Receiver].ids) <= Len(Unread)
          /\ \A j \in 1..Len(job[Receiver].data) : job[Receiver].data[j] = msgs[Unread[j]]
          /\ \A j \in 1..Len(job[Receiver].ids) :
                job[Receiver].ids[j] = Unread[Len(job[Receiver].data) + j]
      BY <1>2, <3>1 DEF RowIsSound, ReadsUnread
    <3>4. \A j \in 1..Len(job[Receiver].data) : j \in 1..Len(Unread)
      <4>1. PICK n \in Nat, m \in Nat, d \in Nat :
              n = Len(Unread) /\ m = Len(job[Receiver].ids) /\ d = Len(job[Receiver].data)
        BY <1>4, <3>2, LenProperties
      <4>2. d + m <= n BY <3>3, <4>1
      <4>3. \A j \in 1..d : j \in 1..n BY <4>2
      <4>. QED BY <4>1, <4>3
    <3>. QED BY <1>4, <2>2, <2>5, <3>3, <3>4 DEF ReadsUnread
  <2>11. KeptIsUnread' BY <1>1, <1>2, <1>4, <2>5 DEF RowIsSound, KeptIsUnread
  <2>12. ToldIsSeen'
    <3>1. \A j \in 1..told : j \in 1..Len(Unread)
      BY <1>2, <1>4, LenProperties DEF RowIsSound, ToldIsSeen, TypeOK
    <3>. QED BY <1>1, <1>2, <1>4, <2>5, <3>1 DEF RowIsSound, ToldIsSeen
  <2>. QED BY <1>1, <2>6, <2>7, <2>8, <2>9, <2>10, <2>11, <2>12 DEF ChatInv, RowIsSound
<1>8. CASE msgs[id] # 0
  <2>1. msgs' = msgs BY <1>3, <1>8 DEF AddMessage
  <2>2. job'[Sender] = [job[Sender] EXCEPT !.at = "failed"] /\ job'[Receiver] = job[Receiver]
    BY <1>3, <1>8, JobMoves, Both DEF AddMessage, Does
  <2>3. job'[Sender].at = "failed" /\ job'[Sender].text = words BY <1>3, <1>6, <2>2
  <2>4. Forgetting' BY <1>2, <2>2, <2>3, StillTogether, Both DEF Ends
  <2>5. UnreadInOrder'
    BY <1>1, <1>2, <1>3, <1>4, <2>1, <2>3 DEF RowIsSound, UnreadInOrder, InHand
  <2>6. StoredApart' /\ GoneApart'
    BY <1>2, <1>4, <2>1, <2>2, <2>3 DEF RowIsSound, StoredApart, GoneApart, At
  <2>7. ReadsUnread' /\ KeptIsUnread' /\ ToldIsSeen'
    BY <1>1, <1>2, <1>4, <2>1, <2>2 DEF RowIsSound, ReadsUnread, KeptIsUnread, ToldIsSeen, At
  <2>. QED BY <1>1, <2>4, <2>5, <2>6, <2>7 DEF ChatInv, RowIsSound
<1>. QED BY <1>7, <1>8

LEMMA IdSound ==
  ASSUME TypeOK, ChatInv, AddNewMessageId PROVE ChatInv'
<1>1. job[Sender].at = "id" /\ UNCHANGED <<msgs, told, seen, dropped>>
  BY DEF AddNewMessageId, At
<1>2. ~Unfriending /\ RowIsSound BY <1>1, BusyIsSound, Both DEF At, Ends
<1>3. PICK id \in Ids, words \in Texts : id = job[Sender].id /\ words = job[Sender].text
  BY <1>1, SenderFields DEF InHand
<1>4. job'[Sender].at = "idle" /\ job'[Receiver] = job[Receiver]
  BY JobMoves, Both DEF AddNewMessageId, Does, Idle
<1>5. Unread \in Seq(Ids) BY UnreadType
<1>6. Unread' = Append(Unread, id)
  <2>1. CASE unread = None
    <3>1. unread' = [ids |-> <<id>>, curr |-> 0] BY <1>3, <2>1 DEF AddNewMessageId
    <3>2. <<id>> \in Seq(Ids) /\ 0 \in 0..UnreadMax BY UnreadAssumption
    <3>3. unread' \in [ids : Seq(Ids), curr : 0..UnreadMax] BY <3>1, <3>2
    <3>4. unread' # None BY <3>3, NoneAssumption DEF Ids
    <3>5. Append(<<>>, id) = <<id>> OBVIOUS
    <3>. QED BY <2>1, <3>1, <3>4, <3>5 DEF Unread
  <2>2. CASE unread # None
    <3>1. unread' = [unread EXCEPT !.ids = Append(unread.ids, id)] BY <1>3, <2>2 DEF AddNewMessageId
    <3>2. unread \in [ids : Seq(Ids), curr : 0..UnreadMax] BY <2>2 DEF TypeOK
    <3>3. Append(unread.ids, id) \in Seq(Ids) BY <3>2, AppendProperties
    <3>4. unread' \in [ids : Seq(Ids), curr : 0..UnreadMax] /\ unread'.ids = Append(unread.ids, id)
      BY <3>1, <3>2, <3>3
    <3>5. unread' # None BY <3>4, NoneAssumption DEF Ids
    <3>. QED BY <2>2, <3>4, <3>5 DEF Unread
  <2>. QED BY <2>1, <2>2
<1>7. PICK n \in Nat : n = Len(Unread) BY <1>5, LenProperties
<1>8. /\ Len(Unread') = n + 1 /\ Unread'[n + 1] = id
      /\ \A i \in 1..n : Unread'[i] = Unread[i]
      /\ ToSet(Unread') = ToSet(Unread) \cup {id}
  <2>1. Len(Unread') = n + 1 /\ Unread'[n + 1] = id /\ \A i \in 1..n : Unread'[i] = Unread[i]
    BY <1>5, <1>6, <1>7, AppendProperties
  <2>2. ToSet(Unread') = ToSet(Unread) \cup {id}
    <3>1. DOMAIN Unread = 1..n /\ DOMAIN Unread' = 1..(n + 1)
      BY <1>5, <1>6, <1>7, AppendProperties, LenProperties
    <3>2. 1..(n + 1) = (1..n) \cup {n + 1} OBVIOUS
    <3>. QED BY <2>1, <3>1, <3>2 DEF ToSet
  <2>. QED BY <2>1, <2>2
<1>9. msgs[id] = words /\ \A i \in 1..n : msgs[Unread[i]] < words
  BY <1>1, <1>2, <1>3, <1>7 DEF RowIsSound, StoredApart, UnreadInOrder, At, InHand
<1>10. Forgetting' BY <1>2, <1>4, StillTogether, Both DEF Ends
<1>11. UnreadInOrder'
  <2>1. \A i, j \in 1..n : i < j => msgs[Unread[i]] < msgs[Unread[j]]
    BY <1>2, <1>7 DEF RowIsSound, UnreadInOrder
  <2>2. \A i \in 1..n : msgs[Unread[i]] # 0 BY <1>2, <1>7 DEF RowIsSound, UnreadInOrder
  <2>3. \A i \in 1..(n + 1) : i \in 1..n \/ i = n + 1 OBVIOUS
  <2>4. words # 0 BY DEF Texts
  <2>5. \A i, j \in 1..(n + 1) : i < j => msgs[Unread'[i]] < msgs[Unread'[j]]
    <3>1. SUFFICES ASSUME NEW i \in 1..(n + 1), NEW j \in 1..(n + 1), i < j
                   PROVE  msgs[Unread'[i]] < msgs[Unread'[j]]
      OBVIOUS
    <3>2. i \in 1..n BY <3>1
    <3>3. CASE j \in 1..n BY <1>8, <2>1, <3>1, <3>2, <3>3
    <3>4. CASE j = n + 1 BY <1>8, <1>9, <3>2, <3>4
    <3>. QED BY <2>3, <3>3, <3>4
  <2>6. \A i \in 1..(n + 1) : msgs[Unread'[i]] # 0 BY <1>8, <1>9, <2>2, <2>3, <2>4
  <2>7. job'[Sender].at \notin InHand BY <1>4 DEF InHand
  <2>8. Len(Unread') = n + 1 /\ msgs' = msgs BY <1>1, <1>8
  <2>. QED BY <2>5, <2>6, <2>7, <2>8 DEF UnreadInOrder
<1>12. StoredApart' BY <1>4 DEF StoredApart, At
<1>13. GoneApart' BY <1>1, <1>2, <1>3, <1>4, <1>8 DEF RowIsSound, GoneApart, At
<1>14. ReadsUnread'
  <2>1. SUFFICES ASSUME At(Receiver, "read") PROVE ReadsUnread' BY <1>4 DEF ReadsUnread, At
  <2>2. PICK data \in Seq(Texts), ids \in Seq(Ids) : data = job[Receiver].data /\ ids = job[Receiver].ids
    BY <2>1, ReceiverFields
  <2>3. /\ Len(data) + Len(ids) <= n
        /\ \A j \in 1..Len(data) : data[j] = msgs[Unread[j]]
        /\ \A j \in 1..Len(ids) : ids[j] = Unread[Len(data) + j]
    BY <1>2, <1>7, <2>1, <2>2 DEF RowIsSound, ReadsUnread
  <2>4. Len(data) \in Nat /\ Len(ids) \in Nat BY LenProperties
  <2>5. \A j \in 1..Len(data) : data[j] = msgs[Unread'[j]] BY <1>8, <2>3, <2>4
  <2>6. \A j \in 1..Len(ids) : ids[j] = Unread'[Len(data) + j] BY <1>8, <2>3, <2>4
  <2>7. Len(data) + Len(ids) <= Len(Unread') BY <1>8, <2>3, <2>4
  <2>. QED BY <1>1, <1>4, <2>2, <2>5, <2>6, <2>7 DEF ReadsUnread
<1>15. KeptIsUnread'
  <2>1. kept' = kept \cup {words} BY <1>3 DEF AddNewMessageId
  <2>2. \A m \in kept : \E i \in 1..n : msgs[Unread[i]] = m BY <1>2, <1>7 DEF RowIsSound, KeptIsUnread
  <2>3. \A m \in kept' : \E i \in 1..(n + 1) : msgs[Unread'[i]] = m
    <3>1. \A m \in kept : \E i \in 1..(n + 1) : msgs[Unread'[i]] = m
      <4>1. \A i \in 1..n : i \in 1..(n + 1) OBVIOUS
      <4>. QED BY <1>8, <2>2, <4>1
    <3>2. n + 1 \in 1..(n + 1) /\ msgs[Unread'[n + 1]] = words BY <1>8, <1>9
    <3>. QED BY <2>1, <3>1, <3>2
  <2>. QED BY <1>1, <1>8, <2>3 DEF KeptIsUnread
<1>16. ToldIsSeen'
  <2>1. told \in Nat /\ told <= n /\ \A j \in 1..told : msgs[Unread[j]] \in seen
    BY <1>2, <1>7 DEF RowIsSound, ToldIsSeen, TypeOK
  <2>2. \A j \in 1..told : j \in 1..n BY <2>1
  <2>3. told <= n + 1 BY <2>1
  <2>. QED BY <1>1, <1>8, <2>1, <2>2, <2>3 DEF ToldIsSeen
<1>. QED BY <1>1, <1>10, <1>11, <1>12, <1>13, <1>14, <1>15, <1>16 DEF ChatInv, RowIsSound

LEMMA FailSound ==
  ASSUME TypeOK, ChatInv, ChatFailed PROVE ChatInv'
<1>1. job[Sender].at = "failed" /\ UNCHANGED <<unread, msgs, kept, told, seen, dropped>>
  BY DEF ChatFailed, At, history
<1>2. ~Unfriending /\ RowIsSound BY <1>1, BusyIsSound, Both DEF At, Ends
<1>3. job'[Sender].at = "idle" /\ job'[Receiver] = job[Receiver]
  BY JobMoves, Both DEF ChatFailed, Does, Idle
<1>4. Forgetting' BY <1>2, <1>3, StillTogether, Both DEF Ends
<1>5. RowIsSound' BY <1>1, <1>2, <1>3, RowKept DEF InHand
<1>. QED BY <1>1, <1>4, <1>5 DEF ChatInv

\* The receiver's steps.
LEMMA IdsSound ==
  ASSUME TypeOK, ChatInv, GetMessageIds PROVE ChatInv'
<1>1. job[Receiver].at = "ids" /\ UNCHANGED <<unread, msgs, kept, told, seen, dropped>>
  BY DEF GetMessageIds, At, history
<1>2. ~Unfriending /\ RowIsSound BY <1>1, BusyIsSound, Both DEF At, Ends
<1>3. job'[Receiver] = [at |-> "read", ids |-> Unread, data |-> <<>>] /\ job'[Sender] = job[Sender]
  BY JobMoves, Both DEF GetMessageIds, Does, Unread
<1>4. Forgetting' BY <1>2, <1>3, StillTogether, Both DEF Ends
<1>5. Unread' = Unread BY <1>1 DEF Unread
<1>6. ReadsUnread'
  <2>1. PICK n \in Nat : n = Len(Unread) BY UnreadType, LenProperties
  <2>2. 0 + n <= n /\ \A j \in 1..n : Unread[j] = Unread[0 + j] OBVIOUS
  <2>3. Len(<<>>) = 0 /\ 1..0 = {} OBVIOUS
  <2>. QED BY <1>3, <1>5, <2>1, <2>2, <2>3 DEF ReadsUnread
<1>7. UnreadInOrder' BY <1>1, <1>2, <1>3, <1>5 DEF RowIsSound, UnreadInOrder
<1>8. StoredApart' /\ GoneApart' BY <1>1, <1>2, <1>3, <1>5 DEF RowIsSound, StoredApart, GoneApart, At
<1>9. KeptIsUnread' /\ ToldIsSeen' BY <1>1, <1>2, <1>5 DEF RowIsSound, KeptIsUnread, ToldIsSeen
<1>. QED BY <1>1, <1>4, <1>6, <1>7, <1>8, <1>9 DEF ChatInv, RowIsSound

LEMMA GetSound ==
  ASSUME TypeOK, ChatInv, GetMessage PROVE ChatInv'
<1>1. At(Receiver, "read") /\ UNCHANGED <<unread, msgs, kept, told, seen, dropped>>
  BY DEF GetMessage, history
<1>2. ~Unfriending /\ RowIsSound BY <1>1, BusyIsSound, Both DEF At, Ends
<1>3. PICK data \in Seq(Texts), ids \in Seq(Ids) : data = job[Receiver].data /\ ids = job[Receiver].ids
  BY <1>1, ReceiverFields
<1>4. PICK n \in Nat, m \in Nat, d \in Nat : n = Len(Unread) /\ m = Len(ids) /\ d = Len(data)
  BY UnreadType, LenProperties
<1>5. /\ d + m <= n
      /\ \A j \in 1..d : data[j] = msgs[Unread[j]]
      /\ \A j \in 1..m : ids[j] = Unread[d + j]
  BY <1>1, <1>2, <1>3, <1>4 DEF RowIsSound, ReadsUnread
<1>6. ids # <<>> BY <1>3 DEF GetMessage
<1>7. /\ m >= 1 /\ Head(ids) = ids[1] /\ Tail(ids) \in Seq(Ids) /\ Len(Tail(ids)) = m - 1
      /\ \A j \in 1..(m - 1) : Tail(ids)[j] = ids[j + 1]
  <2>1. m # 0 BY <1>4, <1>6, EmptySeq
  <2>. QED BY <1>4, <1>6, <2>1, HeadTailProperties
<1>8. PICK words : words = msgs[ids[1]] OBVIOUS
<1>9. words # 0 /\ words \in Texts /\ words = msgs[Unread[d + 1]]
  <2>1. ids[1] = Unread[d + 1] /\ d + 1 \in 1..n BY <1>4, <1>5, <1>7
  <2>2. msgs[Unread[d + 1]] # 0 BY <1>2, <1>4, <2>1 DEF RowIsSound, UnreadInOrder
  <2>3. Unread[d + 1] \in Ids BY <1>4, <2>1, UnreadType, ElementOfSeq
  <2>. QED BY <1>8, <2>1, <2>2, <2>3 DEF TypeOK, Texts
<1>10. /\ Len(Append(data, words)) = d + 1 /\ Append(data, words)[d + 1] = words
       /\ \A j \in 1..d : Append(data, words)[j] = data[j]
  BY <1>4, <1>9, AppendProperties
<1>11. job'[Receiver] = [job[Receiver] EXCEPT !.ids = Tail(ids), !.data = Append(data, words)]
       /\ job'[Sender] = job[Sender]
  BY <1>3, <1>7, <1>8, <1>9, JobMoves, Both DEF GetMessage, Does
<1>12. job'[Receiver].at = "read" /\ job'[Receiver].ids = Tail(ids)
       /\ job'[Receiver].data = Append(data, words)
  <2>1. job[Receiver] \in [at : {"read"}, ids : Seq(Ids), data : Seq(Texts)]
    BY <1>1 DEF TypeOK, Common, Unfriends, Readings, At
  <2>. QED BY <1>11, <2>1
<1>13. Forgetting' BY <1>2, <1>11, <1>12, StillTogether, Both DEF Ends
<1>14. Unread' = Unread BY <1>1 DEF Unread
<1>15. ReadsUnread'
  <2>1. (d + 1) + (m - 1) <= n BY <1>5
  <2>2. \A j \in 1..(d + 1) : Append(data, words)[j] = msgs[Unread[j]]
    <3>1. \A j \in 1..(d + 1) : j \in 1..d \/ j = d + 1 OBVIOUS
    <3>. QED BY <1>5, <1>9, <1>10, <3>1
  <2>3. \A j \in 1..(m - 1) : Tail(ids)[j] = Unread[(d + 1) + j]
    <3>1. \A j \in 1..(m - 1) : j + 1 \in 1..m /\ (d + 1) + j = d + (j + 1) OBVIOUS
    <3>. QED BY <1>5, <1>7, <3>1
  <2>. QED BY <1>1, <1>4, <1>7, <1>10, <1>12, <1>14, <2>1, <2>2, <2>3 DEF ReadsUnread
<1>16. UnreadInOrder' BY <1>1, <1>2, <1>11, <1>14 DEF RowIsSound, UnreadInOrder
<1>17. StoredApart' /\ GoneApart'
  BY <1>1, <1>2, <1>11, <1>12, <1>14 DEF RowIsSound, StoredApart, GoneApart, At
<1>18. KeptIsUnread' /\ ToldIsSeen' BY <1>1, <1>2, <1>14 DEF RowIsSound, KeptIsUnread, ToldIsSeen
<1>. QED BY <1>1, <1>13, <1>15, <1>16, <1>17, <1>18 DEF ChatInv, RowIsSound

LEMMA AnswerSound ==
  ASSUME TypeOK, ChatInv, PullAnswer PROVE ChatInv'
<1>1. At(Receiver, "read") /\ UNCHANGED <<unread, msgs, kept, dropped>> BY DEF PullAnswer
<1>2. ~Unfriending /\ RowIsSound BY <1>1, BusyIsSound, Both DEF At, Ends
<1>3. job'[Receiver].at = "idle" /\ job'[Sender] = job[Sender]
  BY JobMoves, Both DEF PullAnswer, Does, Idle
<1>4. PICK data \in Seq(Texts), ids \in Seq(Ids) : data = job[Receiver].data /\ ids = job[Receiver].ids
  BY <1>1, ReceiverFields
<1>5. PICK n \in Nat, m \in Nat, d \in Nat : n = Len(Unread) /\ m = Len(ids) /\ d = Len(data)
  BY UnreadType, LenProperties
<1>6. d + m <= n /\ \A j \in 1..d : data[j] = msgs[Unread[j]]
  BY <1>1, <1>2, <1>4, <1>5 DEF RowIsSound, ReadsUnread
<1>7. told' = d /\ seen' = seen \cup ToSet(data) BY <1>4, <1>5 DEF PullAnswer
<1>8. Forgetting' BY <1>2, <1>3, StillTogether, Both DEF Ends
<1>9. Unread' = Unread BY <1>1 DEF Unread
<1>10. ToldIsSeen'
  <2>1. \A j \in 1..d : data[j] \in ToSet(data) BY <1>5, LenProperties DEF ToSet
  <2>2. \A j \in 1..d : msgs[Unread[j]] \in seen' BY <1>6, <1>7, <2>1
  <2>3. d <= n BY <1>6
  <2>. QED BY <1>1, <1>5, <1>7, <1>9, <2>2, <2>3 DEF ToldIsSeen
<1>11. UnreadInOrder' BY <1>1, <1>2, <1>3, <1>9 DEF RowIsSound, UnreadInOrder
<1>12. StoredApart' /\ GoneApart' /\ ReadsUnread'
  BY <1>1, <1>2, <1>3, <1>9 DEF RowIsSound, StoredApart, GoneApart, ReadsUnread, At
<1>13. KeptIsUnread' BY <1>1, <1>2, <1>9 DEF RowIsSound, KeptIsUnread
<1>14. dropped' \subseteq seen' BY <1>1, <1>7 DEF ChatInv
<1>. QED BY <1>8, <1>10, <1>11, <1>12, <1>13, <1>14 DEF ChatInv, RowIsSound

LEMMA ConfirmSound ==
  ASSUME TypeOK, ChatInv, ConfirmUnreadIds PROVE ChatInv'
<1>1. At(Receiver, "confirm") /\ UNCHANGED <<msgs, seen>> BY DEF ConfirmUnreadIds
<1>2. ~Unfriending /\ RowIsSound BY <1>1, BusyIsSound, Both DEF At, Ends
<1>3. job'[Receiver].at \in {"drop", "idle"} /\ job'[Sender] = job[Sender]
  BY JobMoves, Both DEF ConfirmUnreadIds, Does, Idle
<1>4. Forgetting' BY <1>2, <1>3, StillTogether, Both DEF Ends
<1>5. CASE unread = None
  <2>1. UNCHANGED <<unread, kept, told, dropped>> /\ job'[Receiver].at = "idle"
    BY <1>5, JobMoves, Both DEF ConfirmUnreadIds, Does, Idle
  <2>2. RowIsSound' BY <1>1, <1>2, <1>3, <2>1, RowKept
  <2>. QED BY <1>1, <1>4, <2>1, <2>2 DEF ChatInv
<1>6. CASE unread # None
  <2>1. unread \in [ids : Seq(Ids), curr : 0..UnreadMax] BY <1>6 DEF TypeOK
  <2>2. Unread = unread.ids /\ Unread \in Seq(Ids) BY <1>6, <2>1 DEF Unread
  <2>3. PICK n \in Nat : n = Len(Unread) BY <2>2, LenProperties
  <2>4. PICK x \in 0..UnreadMax : x = job[Receiver].n BY <1>1, ReceiverFields
  <2>5. PICK k \in 0..n : k = Confirmed(Unread, x)
    BY <2>3, <2>4, UnreadAssumption DEF Confirmed
  <2>6. PICK gone : gone = SubSeq(Unread, 1, k) OBVIOUS
  <2>7. PICK rest : rest = SubSeq(Unread, k + 1, n) OBVIOUS
  <2>8. /\ Len(rest) = n - k /\ rest \in Seq(Ids)
        /\ \A j \in 1..(n - k) : rest[j] = Unread[k + j]
    <3>1. CASE k = n
      BY <2>2, <2>3, <2>7, <3>1, SubSeqProperties
    <3>2. CASE k < n
      <4>1. k + 1 \in 1..n /\ (n - (k + 1)) + 1 = n - k BY <3>2
      <4>2. \A j \in 1..(n - k) : (k + 1) + j - 1 = k + j OBVIOUS
      <4>. QED BY <2>2, <2>3, <2>7, <4>1, <4>2, SubSeqProperties
    <3>. QED BY <3>1, <3>2
  <2>9. /\ Len(gone) = k /\ gone \in Seq(Ids)
        /\ \A j \in 1..k : gone[j] = Unread[j]
    BY <2>2, <2>3, <2>6, SubSeqProperties
  <2>10. PICK words : words = {msgs[i] : i \in ToSet(gone)} \ {0} OBVIOUS
  <2>11. /\ unread' = [unread EXCEPT !.ids = rest]
         /\ job' = [job EXCEPT ![Receiver] = [at |-> "drop", ids |-> gone]]
         /\ kept' = kept \ words
         /\ dropped' = IF x \in 1..told THEN dropped \cup words ELSE dropped
         /\ told' = IF x \in 1..told THEN told - x ELSE 0
    <3>1. SubSeq(unread.ids, 1, Confirmed(unread.ids, job[Receiver].n)) = gone
      BY <2>2, <2>4, <2>5, <2>6
    <3>2. SubSeq(unread.ids, Confirmed(unread.ids, job[Receiver].n) + 1, Len(unread.ids)) = rest
      BY <2>2, <2>3, <2>4, <2>5, <2>7
    <3>3. {msgs[i] : i \in ToSet(SubSeq(unread.ids, 1, Confirmed(unread.ids, job[Receiver].n)))} \ {0} = words
      BY <2>10, <3>1
    <3>. QED BY <1>6, <2>4, <3>1, <3>2, <3>3 DEF ConfirmUnreadIds, Does
  <2>12. Unread' = rest
    <3>1. unread' \in [ids : Seq(Ids), curr : 0..UnreadMax] /\ unread'.ids = rest
      BY <2>1, <2>8, <2>11
    <3>. QED BY <3>1, NoneAssumption DEF Unread, Ids
  <2>13. job'[Receiver] = [at |-> "drop", ids |-> gone] BY <2>11, JobMoves, Both
  <2>14. /\ \A i, j \in 1..n : i < j => msgs[Unread[i]] < msgs[Unread[j]]
         /\ \A i \in 1..n : msgs[Unread[i]] # 0 /\ Unread[i] \in Ids /\ msgs[Unread[i]] \in Nat
    <3>1. \A i \in 1..n : Unread[i] \in Ids BY <2>2, <2>3, ElementOfSeq
    <3>. QED BY <1>2, <2>3, <3>1 DEF RowIsSound, UnreadInOrder, TypeOK
  <2>15. \A j \in 1..(n - k) : k + j \in 1..n OBVIOUS
  <2>16. UnreadInOrder'
    <3>1. \A i, j \in 1..(n - k) : i < j => k + i < k + j OBVIOUS
    <3>2. \A i, j \in 1..(n - k) : i < j => msgs[rest[i]] < msgs[rest[j]]
      BY <2>8, <2>14, <2>15, <3>1
    <3>3. \A i \in 1..(n - k) : msgs[rest[i]] # 0 BY <2>8, <2>14, <2>15
    <3>4. job[Sender].at \in InHand => \A i \in 1..(n - k) : msgs[rest[i]] < job[Sender].text
      BY <1>2, <2>3, <2>8, <2>15 DEF RowIsSound, UnreadInOrder
    <3>. QED BY <1>1, <1>3, <2>8, <2>12, <3>2, <3>3, <3>4 DEF UnreadInOrder
  <2>17. StoredApart' BY <1>1, <1>2, <1>3 DEF RowIsSound, StoredApart, At
  <2>18. GoneApart'
    <3>1. SUFFICES ASSUME NEW i \in ToSet(gone)
                   PROVE  /\ msgs[i] # 0 /\ i \notin ToSet(rest)
                          /\ At(Sender, "id") => job[Sender].id # i
      BY <1>1, <1>3, <2>12, <2>13 DEF GoneApart, At
    <3>2. DOMAIN gone = 1..k /\ DOMAIN rest = 1..(n - k) BY <2>8, <2>9, LenProperties
    <3>3. PICK j \in 1..k : i = Unread[j] BY <2>9, <3>1, <3>2 DEF ToSet
    <3>4. j \in 1..n OBVIOUS
    <3>5. msgs[i] # 0 /\ msgs[i] \in Nat BY <2>14, <3>3, <3>4
    <3>6. \A h \in 1..(n - k) : rest[h] # i
      <4>1. SUFFICES ASSUME NEW h \in 1..(n - k) PROVE rest[h] # i OBVIOUS
      <4>2. j < k + h /\ k + h \in 1..n OBVIOUS
      <4>3. msgs[Unread[j]] < msgs[Unread[k + h]] BY <2>14, <3>4, <4>2
      <4>4. msgs[i] < msgs[rest[h]] BY <2>8, <3>3, <4>3
      <4>. QED BY <3>5, <4>4
    <3>7. i \notin ToSet(rest) BY <3>2, <3>6 DEF ToSet
    <3>8. At(Sender, "id") => job[Sender].id # i
      <4>1. SUFFICES ASSUME At(Sender, "id") PROVE job[Sender].id # i OBVIOUS
      <4>2. msgs[job[Sender].id] = job[Sender].text BY <1>2, <4>1 DEF RowIsSound, StoredApart
      <4>3. msgs[i] < job[Sender].text
        BY <1>2, <2>3, <3>3, <3>4, <4>1 DEF RowIsSound, UnreadInOrder, At, InHand
      <4>. QED BY <3>5, <4>2, <4>3
    <3>. QED BY <3>5, <3>7, <3>8
  <2>19. ReadsUnread' BY <2>13 DEF ReadsUnread, At
  <2>20. KeptIsUnread'
    <3>1. SUFFICES ASSUME NEW m \in kept' PROVE \E i \in 1..(n - k) : msgs[rest[i]] = m
      BY <1>1, <2>8, <2>12 DEF KeptIsUnread
    <3>2. PICK i \in 1..n : msgs[Unread[i]] = m
      BY <1>2, <2>3, <2>11 DEF RowIsSound, KeptIsUnread
    <3>3. i > k
      <4>1. SUFFICES ASSUME i \in 1..k PROVE FALSE OBVIOUS
      <4>2. gone[i] \in ToSet(gone) /\ gone[i] = Unread[i] BY <2>9, <4>1, LenProperties DEF ToSet
      <4>3. m \in words BY <2>10, <2>14, <3>2, <4>2
      <4>. QED BY <2>11, <3>1, <4>3
    <3>4. i - k \in 1..(n - k) /\ k + (i - k) = i BY <3>3
    <3>. QED BY <2>8, <3>2, <3>4
  <2>21. told \in Nat /\ told <= n /\ \A j \in 1..told : msgs[Unread[j]] \in seen
    BY <1>2, <2>3 DEF RowIsSound, ToldIsSeen, TypeOK
  <2>22. x \in 1..told => k = x
    BY <2>3, <2>4, <2>5, <2>21 DEF Confirmed
  <2>23. ToldIsSeen'
    <3>1. CASE x \in 1..told
      <4>1. told' = told - k BY <2>11, <2>22, <3>1
      <4>2. told - k <= n - k /\ \A j \in 1..(told - k) : k + j \in 1..told /\ j \in 1..(n - k)
        BY <2>21
      <4>3. \A j \in 1..(told - k) : msgs[rest[j]] \in seen BY <2>8, <2>21, <4>2
      <4>. QED BY <1>1, <2>8, <2>12, <4>1, <4>2, <4>3 DEF ToldIsSeen
    <3>2. CASE x \notin 1..told
      <4>1. told' = 0 /\ 0 <= n - k /\ 1..0 = {} BY <2>11, <3>2
      <4>. QED BY <2>8, <2>12, <4>1 DEF ToldIsSeen
    <3>. QED BY <3>1, <3>2
  <2>24. dropped' \subseteq seen'
    <3>1. CASE x \in 1..told
      <4>1. SUFFICES ASSUME NEW m \in words PROVE m \in seen BY <1>1, <2>11 DEF ChatInv
      <4>2. PICK i \in ToSet(gone) : m = msgs[i] BY <2>10
      <4>3. PICK j \in 1..k : i = Unread[j] BY <2>9, <4>2, LenProperties DEF ToSet
      <4>4. j \in 1..told BY <2>21, <2>22, <3>1
      <4>. QED BY <2>21, <4>2, <4>3, <4>4
    <3>2. CASE x \notin 1..told BY <1>1, <2>11, <3>2 DEF ChatInv
    <3>. QED BY <3>1, <3>2
  <2>. QED BY <1>4, <2>16, <2>17, <2>18, <2>19, <2>20, <2>23, <2>24 DEF ChatInv, RowIsSound
<1>. QED BY <1>5, <1>6

LEMMA DropSound ==
  ASSUME TypeOK, ChatInv, ConfirmRemoves PROVE ChatInv'
<1>1. At(Receiver, "drop") /\ UNCHANGED <<unread, kept, told, seen, dropped>>
      /\ msgs' = Without(job[Receiver].ids)
  BY DEF ConfirmRemoves, history
<1>2. ~Unfriending /\ RowIsSound BY <1>1, BusyIsSound, Both DEF At, Ends
<1>3. job'[Receiver].at = "idle" /\ job'[Sender] = job[Sender]
  BY JobMoves, Both DEF ConfirmRemoves, Does, Idle
<1>4. Forgetting' BY <1>2, <1>3, StillTogether, Both DEF Ends
<1>5. Unread' = Unread /\ Unread \in Seq(Ids) BY <1>1, UnreadType DEF Unread
<1>6. PICK n \in Nat : n = Len(Unread) BY <1>5, LenProperties
<1>7. \A i \in Ids \ ToSet(job[Receiver].ids) : msgs'[i] = msgs[i] BY <1>1 DEF Without
<1>8. \A i \in 1..n : msgs'[Unread[i]] = msgs[Unread[i]]
  <2>1. SUFFICES ASSUME NEW i \in 1..n PROVE msgs'[Unread[i]] = msgs[Unread[i]] OBVIOUS
  <2>2. Unread[i] \in ToSet(Unread) /\ Unread[i] \in Ids
    BY <1>5, <1>6, LenProperties, ElementOfSeq DEF ToSet
  <2>3. Unread[i] \notin ToSet(job[Receiver].ids) BY <1>1, <1>2, <2>2 DEF RowIsSound, GoneApart
  <2>. QED BY <1>7, <2>2, <2>3
<1>9. UnreadInOrder' BY <1>2, <1>3, <1>5, <1>6, <1>8 DEF RowIsSound, UnreadInOrder
<1>10. StoredApart'
  <2>1. SUFFICES ASSUME At(Sender, "id") PROVE msgs'[job[Sender].id] = job[Sender].text
    BY <1>3 DEF StoredApart, At
  <2>2. job[Sender].id \in Ids BY <2>1, SenderFields DEF At
  <2>3. job[Sender].id \notin ToSet(job[Receiver].ids) BY <1>1, <1>2, <2>1 DEF RowIsSound, GoneApart
  <2>. QED BY <1>2, <1>7, <2>1, <2>2, <2>3 DEF RowIsSound, StoredApart
<1>11. GoneApart' /\ ReadsUnread' BY <1>3 DEF GoneApart, ReadsUnread, At
<1>12. KeptIsUnread' BY <1>1, <1>2, <1>5, <1>6, <1>8 DEF RowIsSound, KeptIsUnread
<1>13. ToldIsSeen'
  <2>1. told \in Nat /\ told <= n /\ \A j \in 1..told : msgs[Unread[j]] \in seen
    BY <1>2, <1>6 DEF RowIsSound, ToldIsSeen, TypeOK
  <2>2. \A j \in 1..told : j \in 1..n BY <2>1
  <2>. QED BY <1>1, <1>5, <1>6, <1>8, <2>1, <2>2 DEF ToldIsSeen
<1>. QED BY <1>1, <1>4, <1>9, <1>10, <1>11, <1>12, <1>13 DEF ChatInv, RowIsSound

-----------------------------------------------------------------------------
(* The end of the friendship *)

\* While p ends it, the other one does nothing.
LEMMA Alone ==
  ASSUME ChatInv, NEW p \in Players, job[p].at \in Ends
  PROVE  At(Other(p), "idle") /\ \A q \in Players : q # p => At(q, "idle")
BY Both DEF ChatInv, Forgetting

\* A row of which nobody has anything in hand.
LEMMA EmptyHands ==
  ASSUME \A q \in Players : job'[q].at \in Ends \cup {"idle"},
         \A i, j \in 1..Len(Unread') : i < j => msgs'[Unread'[i]] < msgs'[Unread'[j]],
         \A i \in 1..Len(Unread') : msgs'[Unread'[i]] # 0,
         kept' = {} /\ told' = 0, Len(Unread') \in Nat
  PROVE  RowIsSound'
<1>1. job'[Sender].at \notin InHand /\ job'[Receiver].at \notin {"read", "drop"}
  BY Both DEF InHand, Ends
<1>2. UnreadInOrder' BY <1>1 DEF UnreadInOrder
<1>3. StoredApart' /\ GoneApart' /\ ReadsUnread' BY <1>1 DEF StoredApart, GoneApart, ReadsUnread, At, InHand
<1>4. KeptIsUnread' BY DEF KeptIsUnread
<1>5. ToldIsSeen' BY DEF ToldIsSeen
<1>. QED BY <1>2, <1>3, <1>4, <1>5 DEF RowIsSound

LEMMA EndSound ==
  ASSUME TypeOK, ChatInv, NEW p \in Players,
         RemoveFriendIndex(p) \/ RemoveListIds(p) \/ RemoveMessages(p) \/ RemoveUnread(p)
  PROVE  ChatInv'
<1>1. job[p].at \in Ends /\ UNCHANGED <<seen, dropped>>
  BY DEF RemoveFriendIndex, RemoveListIds, RemoveMessages, RemoveUnread, At, Ends, history
<1>2. PICK what : job' = [job EXCEPT ![p] = what]
  BY DEF RemoveFriendIndex, RemoveListIds, RemoveMessages, RemoveUnread, Does
<1>3. job'[p] = what /\ job'[Other(p)] = job[Other(p)] /\ job'[Other(p)].at = "idle"
  BY <1>1, <1>2, JobMoves, Alone DEF At
<1>4. job[p].whose \in Players /\ job[p].mine \in BOOLEAN /\ job[p] \in Unfriends BY <1>1, EndFields
<1>5. NextOf(job[p], p).at \in {"idle", "unfriend"} BY <1>4, NextOfType
<1>6. Len(Unread) \in Nat BY UnreadType, LenProperties
<1>7. At(p, "forget") \/ RowIsSound
  <2>1. \A q \in Players : At(q, "forget") => q = p BY <1>1, Alone DEF At
  <2>. QED BY <2>1 DEF ChatInv
<1>8. dropped' \subseteq seen' BY <1>1 DEF ChatInv
<1>9. kept' = {} /\ told' = 0
  BY <1>1 DEF ChatInv, Forgetting, RemoveFriendIndex, RemoveListIds, RemoveMessages, RemoveUnread, At, history
<1>10. CASE RemoveFriendIndex(p) \/ RemoveListIds(p)
  <2>1. UNCHANGED <<unread, msgs>> /\ ~At(p, "forget") BY <1>10 DEF RemoveFriendIndex, RemoveListIds, At
  <2>2. what.at \in {"idle", "unfriend", "list", "clear"} /\ (what.at = "clear" => what.ids = Unread)
    <3>1. CASE RemoveFriendIndex(p)
      <4>1. job[p] \in [at : {"unfriend", "list"}, whose : Players, mine : BOOLEAN]
        BY <1>4, <3>1 DEF RemoveFriendIndex, At, Unfriends
      <4>2. [job[p] EXCEPT !.at = "list"].at = "list" BY <4>1
      <4>3. job'[p] = [job[p] EXCEPT !.at = "list"] \/ job'[p] = NextOf(job[p], p)
        BY <3>1, JobMoves DEF RemoveFriendIndex, Does
      <4>. QED BY <1>3, <1>5, <4>2, <4>3
    <3>2. CASE RemoveListIds(p)
      <4>1. \/ job'[p] = NextOf(job[p], p)
            \/ unread # None /\ job'[p] = [at |-> "clear", whose |-> job[p].whose, mine |-> job[p].mine,
                                           ids |-> unread.ids]
        BY <3>2, JobMoves DEF RemoveListIds, Does
      <4>. QED BY <1>3, <1>5, <4>1 DEF Unread
    <3>. QED BY <1>10, <3>1, <3>2
  <2>3. Unread' = Unread BY <2>1 DEF Unread
  <2>4. Forgetting'
    BY <1>3, <1>9, <2>2, <2>3, Both DEF Forgetting, At, Ends
  <2>5. \A q \in Players : job'[q].at \in Ends \cup {"idle"} BY <1>3, <2>2, Both DEF Ends
  <2>6. RowIsSound' BY <1>6, <1>7, <1>9, <2>1, <2>3, <2>5, EmptyHands DEF RowIsSound, UnreadInOrder
  <2>. QED BY <1>8, <2>4, <2>6 DEF ChatInv
<1>11. CASE RemoveMessages(p)
  <2>1. job[p] \in [at : {"clear", "forget"}, whose : Players, mine : BOOLEAN, ids : Seq(Ids)]
    BY <1>4, <1>11 DEF RemoveMessages, At, Unfriends
  <2>2. job'[p].at = "forget" BY <1>11, <2>1, JobMoves DEF RemoveMessages, Does
  <2>3. Forgetting' BY <1>3, <1>9, <2>2, Both DEF Forgetting, At, Ends
  <2>. QED BY <1>8, <2>2, <2>3 DEF ChatInv, At
<1>12. CASE RemoveUnread(p)
  <2>1. job'[p].at \in {"idle", "unfriend"} BY <1>5, <1>12, JobMoves DEF RemoveUnread, Does
  <2>2. Unread' = <<>> BY <1>12 DEF RemoveUnread, Unread
  <2>3. Forgetting' BY <1>3, <1>9, <2>1, Both DEF Forgetting, At, Ends
  <2>4. \A q \in Players : job'[q].at \in Ends \cup {"idle"} BY <1>3, <2>1, Both DEF Ends
  <2>5. Len(<<>>) = 0 /\ 1..0 = {} OBVIOUS
  <2>6. RowIsSound' BY <1>9, <2>2, <2>4, <2>5, EmptyHands
  <2>. QED BY <1>8, <2>3, <2>6 DEF ChatInv
<1>. QED BY <1>10, <1>11, <1>12

LEMMA AgreedSound ==
  ASSUME TypeOK, ChatInv, NEW p \in Players, AddToOwn(p) PROVE ChatInv'
<1>1. job[p].at = "agreed" /\ UNCHANGED <<unread, msgs, kept, told, seen, dropped>>
  BY DEF AddToOwn, At, history
<1>2. ~Unfriending /\ RowIsSound BY <1>1, BusyIsSound DEF At, Ends
<1>3. job'[p].at = "idle" /\ job'[Other(p)] = job[Other(p)]
  BY JobMoves DEF AddToOwn, Does, Idle
<1>4. Forgetting' BY <1>2, <1>3, StillTogether DEF Ends
<1>5. RowIsSound' BY <1>1, <1>2, <1>3, RowKept, Both DEF InHand
<1>. QED BY <1>1, <1>4, <1>5 DEF ChatInv

-----------------------------------------------------------------------------

LEMMA InitInv == Init => IInv
<1>. SUFFICES ASSUME Init PROVE IInv OBVIOUS
<1>1. \A p \in Players : job[p] = Idle BY DEF Init
<1>2. Unread = <<>> /\ unread = None BY DEF Init, Unread
<1>3. TypeOK
  <2>1. DOMAIN job = Players /\ job[Sender] = Idle /\ job[Receiver] = Idle BY Both DEF Init
  <2>2. msgs \in [Ids -> Nat] /\ \A i \in Ids : msgs[i] <= sent BY DEF Init
  <2>. QED BY <1>2, <2>1, <2>2, Plain DEF Init, TypeOK
<1>4. Forgetting BY <1>1 DEF Forgetting, Idle, Ends, At
<1>5. RowIsSound
  <2>1. Len(<<>>) = 0 /\ 1..0 = {} /\ Idle.at = "idle" BY DEF Idle
  <2>2. job[Sender].at = "idle" /\ job[Receiver].at = "idle" BY <1>1, <2>1, Both
  <2>3. kept = {} /\ told = 0 BY DEF Init
  <2>. QED BY <1>2, <2>1, <2>2, <2>3
       DEF RowIsSound, UnreadInOrder, StoredApart, GoneApart, ReadsUnread, KeptIsUnread, ToldIsSeen, At, InHand
<1>6. dropped \subseteq seen BY DEF Init
<1>. QED BY <1>3, <1>4, <1>5, <1>6 DEF IInv, ChatInv

LEMMA NextInv == IInv /\ [Next]_vars => IInv'
<1>. SUFFICES ASSUME IInv, [Next]_vars PROVE IInv' OBVIOUS
<1>1. TypeOK /\ TypeOK' BY NextType DEF IInv
<1>2. SUFFICES ASSUME ~overlap' PROVE ChatInv' BY <1>1 DEF IInv
<1>3. overlap => overlap'
  BY DEF Next, Chat, CheckUnreadNumFull, AddMessage, AddNewMessageId, ChatFailed, Pull, Confirm,
         GetMessageIds, GetMessage, PullAnswer, ConfirmUnreadIds, ConfirmRemoves, RemoveFriend,
         RemoveFriendIndex, RemoveListIds, RemoveMessages, RemoveUnread, Agree, AddToOwn,
         Starts, Does, vars
<1>4. ChatInv BY <1>2, <1>3 DEF IInv
<1>5. CASE Pull \/ Confirm
  <2>1. PICK what : Starts(Receiver, what) /\ what.at \in {"ids", "confirm"}
    <3>1. CASE Pull BY <3>1 DEF Pull
    <3>2. CASE Confirm
      <4>1. PICK n \in 0..UnreadMax : Starts(Receiver, [at |-> "confirm", n |-> n])
        BY <3>2 DEF Confirm
      <4>. QED BY <4>1
    <3>. QED BY <1>5, <3>1, <3>2
  <2>2. UNCHANGED <<unread, msgs, history>> BY <1>5 DEF Pull, Confirm
  <2>. QED BY <1>1, <1>2, <1>4, <2>1, <2>2, StartSound, Both
<1>6. ASSUME NEW p \in Players, RemoveFriend(p) \/ Agree(p) PROVE ChatInv'
  <2>1. PICK what : Starts(p, what) /\ what.at \in {"unfriend", "agreed"}
    BY <1>6 DEF RemoveFriend, Agree
  <2>2. UNCHANGED <<unread, msgs, history>> BY <1>6 DEF RemoveFriend, Agree
  <2>. QED BY <1>1, <1>2, <1>4, <2>1, <2>2, StartSound
<1>7. CASE UNCHANGED vars
  <2>1. UNCHANGED <<unread, msgs, kept, told, seen, dropped, job>> BY <1>7 DEF vars, history
  <2>2. Unread' = Unread BY <2>1 DEF Unread
  <2>3. Forgetting' BY <1>4, <2>1, <2>2 DEF ChatInv, Forgetting, At
  <2>4. RowIsSound => RowIsSound' BY <2>1, RowKept
  <2>. QED BY <1>4, <2>1, <2>3, <2>4 DEF ChatInv, At
<1>. QED BY <1>1, <1>2, <1>4, <1>5, <1>6, <1>7, ChatSound, CheckSound, AddSound, IdSound, FailSound,
         IdsSound, GetSound, AnswerSound, ConfirmSound, DropSound, EndSound, AgreedSound
     DEF Next

LEMMA Inductive == Spec => []IInv
BY InitInv, NextInv, PTL DEF Spec

(***************************************************************************)
(* friend_chat_add and friend_confirm_unread_message: an accepted message  *)
(* is among the unread ones until it is confirmed or the friendship ends,  *)
(* for any number of ids and messages.                                     *)
(***************************************************************************)
THEOREM AcceptedStaysUnread == Spec => []AcceptedIsUnread
<1>1. IInv => AcceptedIsUnread
  <2>. SUFFICES ASSUME IInv, ~overlap, NEW m \in kept
       PROVE  unread # None /\ \E i \in ToSet(unread.ids) : msgs[i] = m
    BY DEF AcceptedIsUnread
  <2>1. TypeOK /\ ChatInv BY DEF IInv
  <2>2. RowIsSound
    <3>1. \A p \in Players : ~At(p, "forget") BY <2>1 DEF ChatInv, Forgetting, At
    <3>. QED BY <2>1, <3>1 DEF ChatInv
  <2>3. PICK i \in 1..Len(Unread) : msgs[Unread[i]] = m BY <2>2 DEF RowIsSound, KeptIsUnread
  <2>4. unread # None
    <3>1. Len(<<>>) = 0 /\ 1..0 = {} OBVIOUS
    <3>. QED BY <2>3, <3>1 DEF Unread
  <2>5. Unread[i] \in ToSet(Unread) BY <2>1, <2>3, UnreadType, LenProperties DEF ToSet
  <2>. QED BY <2>3, <2>4, <2>5 DEF Unread
<1>. QED BY <1>1, Inductive, PTL

(***************************************************************************)
(* friend_pull_unread_message: an answer has messages in the order of      *)
(* sending, none twice, however often their ids were used before.          *)
(***************************************************************************)
THEOREM AnswerIsInOrder == Spec => []PulledInOrder
<1>1. IInv => PulledInOrder
  <2>. SUFFICES ASSUME IInv, ~overlap, At(Receiver, "read")
       PROVE  \A i, j \in 1..Len(job[Receiver].data) :
                i < j => job[Receiver].data[i] < job[Receiver].data[j]
    BY DEF PulledInOrder
  <2>1. TypeOK /\ ChatInv BY DEF IInv
  <2>2. RowIsSound BY <2>1, BusyIsSound, Both DEF At, Ends
  <2>3. PICK data \in Seq(Texts), ids \in Seq(Ids) : data = job[Receiver].data /\ ids = job[Receiver].ids
    BY <2>1, ReceiverFields
  <2>4. PICK n \in Nat, m \in Nat, d \in Nat : n = Len(Unread) /\ m = Len(ids) /\ d = Len(data)
    BY <2>1, UnreadType, LenProperties
  <2>5. d + m <= n /\ \A j \in 1..d : data[j] = msgs[Unread[j]]
    BY <2>2, <2>3, <2>4 DEF RowIsSound, ReadsUnread
  <2>6. \A i, j \in 1..n : i < j => msgs[Unread[i]] < msgs[Unread[j]]
    BY <2>2, <2>4 DEF RowIsSound, UnreadInOrder
  <2>7. \A j \in 1..d : j \in 1..n BY <2>5
  <2>. QED BY <2>3, <2>4, <2>5, <2>6, <2>7
<1>. QED BY <1>1, Inductive, PTL

(***************************************************************************)
(* ConfirmUnreadIds: confirming as many messages as one was shown never    *)
(* confirms one that was not shown, whatever came in between.              *)
(***************************************************************************)
THEOREM ConfirmedWasSeen == Spec => []SeenBeforeConfirmed
<1>1. IInv => SeenBeforeConfirmed BY DEF IInv, ChatInv, SeenBeforeConfirmed
<1>. QED BY <1>1, Inductive, PTL

-----------------------------------------------------------------------------
(* The channel: Chat                                                       *)

LEMMA ItemsFacts == PoolSize \in Nat /\ PoolSize > 1 /\ Nil \notin Items /\ Items \subseteq Nat
BY PoolAssumption DEF Items, Nil

LEMMA ItemSeq ==
  ASSUME NEW s \in Seq(Items)
  PROVE  /\ Len(s) \in Nat /\ DOMAIN s = 1..Len(s)
         /\ \A k \in 1..Len(s) : s[k] \in Items
         /\ s = <<>> <=> Len(s) = 0
         /\ \A i : i \in Range(s) <=> \E k \in 1..Len(s) : s[k] = i
<1>1. Len(s) \in Nat /\ DOMAIN s = 1..Len(s) BY LenProperties
<1>2. \A k \in 1..Len(s) : s[k] \in Items BY ElementOfSeq
<1>3. s = <<>> <=> Len(s) = 0 BY EmptySeq
<1>4. \A i : i \in Range(s) <=> \E k \in 1..Len(s) : s[k] = i BY <1>1 DEF Range
<1>. QED BY <1>1, <1>2, <1>3, <1>4

LEMMA TailOf ==
  ASSUME NEW s \in Seq(Items), s # <<>>
  PROVE  /\ Tail(s) \in Seq(Items) /\ Len(Tail(s)) = Len(s) - 1 /\ Head(s) = s[1]
         /\ \A k \in 1..(Len(s) - 1) : Tail(s)[k] = s[k + 1]
<1>1. Head(s) = s[1] OBVIOUS
<1>. QED BY <1>1, HeadTailProperties

LEMMA PutFirst ==
  ASSUME NEW s \in Seq(Items), NEW i \in Items
  PROVE  LET t == <<i>> \o s IN
         /\ t \in Seq(Items) /\ Len(t) = Len(s) + 1 /\ t[1] = i
         /\ \A k \in 1..Len(t) : k # 1 => t[k] = s[k - 1]
<1>1. <<i>> \in Seq(Items) /\ Len(<<i>>) = 1 /\ <<i>>[1] = i OBVIOUS
<1>2. Len(s) \in Nat BY ItemSeq
<1>. QED BY <1>1, <1>2, ConcatProperties

\* The items of the list are apart from each other and from those of the pool.
LEMMA Apart ==
  ASSUME ChatTypeOK, Shared, Numbered
  PROVE  /\ \A j, k \in 1..Len(list) : list[j] = list[k] => j = k
         /\ \A j \in 1..Len(free), k \in 1..Len(list) : free[j] # list[k]
         /\ Len(list) \in Nat /\ Len(free) \in Nat /\ Len(list) + Len(free) = PoolSize
<1>1. list \in Seq(Items) /\ free \in Seq(Items) /\ num \in Nat BY DEF ChatTypeOK
<1>2. \A k \in 1..Len(list) : text[list[k]] = num - Len(list) + k
  BY <1>1, ItemSeq DEF Numbered
<1>3. Len(list) \in Nat /\ Len(free) \in Nat BY <1>1, ItemSeq
<1>4. \A j, k \in 1..Len(list) : list[j] = list[k] => j = k
  BY <1>1, <1>2, <1>3
<1>5. ASSUME NEW j \in 1..Len(free), NEW k \in 1..Len(list), free[j] = list[k] PROVE FALSE
  <2>1. free[j] \in Items /\ free[j] \in Range(free) BY <1>1, ItemSeq
  <2>2. free[j] \in Range(list) BY <1>1, <1>5, ItemSeq
  <2>. QED BY <2>1, <2>2 DEF Shared
<1>. QED BY <1>3, <1>4, <1>5 DEF Shared

\* The oldest message goes back to the pool: recycle_old, and the room push_chat_msg
\* makes.
DropsFirst ==
  /\ list # <<>>
  /\ list' = Tail(list)
  /\ free' = <<list[1]>> \o free
  /\ head' = next[list[1]]
  /\ tail' = IF list[1] = tail THEN Nil ELSE tail
  /\ next' = next
  /\ prev' = IF next[list[1]] = Nil THEN prev ELSE [prev EXCEPT ![next[list[1]]] = Nil]
  /\ stale' = stale \cup {p \in Readers : curr[p].item = list[1]}
  /\ UNCHANGED <<texts, pulls, now>>

\* What the sequences become.
LEMMA DropSeqs ==
  ASSUME ChatTypeOK, DropsFirst
  PROVE  /\ Len(list') = Len(list) - 1 /\ \A k \in 1..Len(list') : list'[k] = list[k + 1]
         /\ Len(free') = Len(free) + 1 /\ free'[1] = list[1]
         /\ \A k \in 1..Len(free') : k # 1 => free'[k] = free[k - 1]
         /\ list' \in Seq(Items) /\ free' \in Seq(Items)
         /\ Len(list) \in Nat \ {0} /\ Len(free) \in Nat /\ list[1] \in Items
<1>1. list \in Seq(Items) /\ free \in Seq(Items) BY DEF ChatTypeOK
<1>2. Len(list) \in Nat \ {0} /\ Len(free) \in Nat /\ list[1] \in Items
  BY <1>1, ItemSeq DEF DropsFirst
<1>3. /\ Len(list') = Len(list) - 1 /\ list' \in Seq(Items)
      /\ \A k \in 1..Len(list') : list'[k] = list[k + 1]
  BY <1>1, TailOf DEF DropsFirst
<1>4. /\ Len(free') = Len(free) + 1 /\ free'[1] = list[1] /\ free' \in Seq(Items)
      /\ \A k \in 1..Len(free') : k # 1 => free'[k] = free[k - 1]
  BY <1>1, <1>2, PutFirst DEF DropsFirst
<1>. QED BY <1>2, <1>3, <1>4

LEMMA DropType ==
  ASSUME ChatTypeOK, DropsFirst, writer' \in [at : {"unlocked", "recycle", "add"}, msg : Items \cup {Nil}, now : Nat]
  PROVE  ChatTypeOK'
<1>1. list[1] \in Items /\ list' \in Seq(Items) /\ free' \in Seq(Items) BY DropSeqs
<1>2. next[list[1]] \in Items \cup {Nil} BY <1>1 DEF ChatTypeOK
<1>3. head' \in Items \cup {Nil} /\ tail' \in Items \cup {Nil} /\ next' = next
  BY <1>2 DEF ChatTypeOK, DropsFirst
<1>4. prev' \in [Items -> Items \cup {Nil}]
  BY <1>2 DEF ChatTypeOK, DropsFirst
<1>5. stale' \subseteq Readers BY DEF ChatTypeOK, DropsFirst
<1>. QED BY <1>1, <1>3, <1>4, <1>5 DEF ChatTypeOK, DropsFirst, texts, pulls

LEMMA DropLinked ==
  ASSUME ChatTypeOK, Linked, Shared, Numbered, DropsFirst
  PROVE  Linked'
<1>1. /\ list \in Seq(Items) /\ list' \in Seq(Items)
      /\ prev \in [Items -> Items \cup {Nil}]
  BY DropSeqs DEF ChatTypeOK
<1>2. /\ Len(list) \in Nat \ {0} /\ Len(list') = Len(list) - 1 /\ list[1] \in Items
      /\ \A k \in 1..Len(list') : list'[k] = list[k + 1]
  BY DropSeqs
<1>3. /\ DOMAIN list = 1..Len(list) /\ DOMAIN list' = 1..Len(list')
      /\ list = <<>> <=> Len(list) = 0
      /\ list' = <<>> <=> Len(list') = 0
      /\ \A k \in 1..Len(list) : list[k] \in Items
  BY <1>1, ItemSeq
<1>4. \A j, k \in 1..Len(list) : list[j] = list[k] => j = k BY Apart
<1>5. \A k \in 1..Len(list) :
        /\ next[list[k]] = IF k = Len(list) THEN Nil ELSE list[k + 1]
        /\ prev[list[k]] = IF k = 1 THEN Nil ELSE list[k - 1]
  BY <1>3 DEF Linked
<1>6. next[list[1]] = IF Len(list) = 1 THEN Nil ELSE list[2] BY <1>2, <1>5
<1>7. head' = IF list' = <<>> THEN Nil ELSE list'[1]
  BY <1>2, <1>3, <1>6 DEF DropsFirst
<1>8. tail' = IF list' = <<>> THEN Nil ELSE list'[Len(list')]
  <2>1. tail = list[Len(list)] BY <1>2, <1>3 DEF Linked
  <2>2. tail' = IF Len(list) = 1 THEN Nil ELSE list[Len(list)]
    BY <2>1, <1>2, <1>4 DEF DropsFirst
  <2>. QED BY <2>2, <1>2, <1>3
<1>9. ASSUME NEW k \in 1..Len(list')
      PROVE  /\ next'[list'[k]] = IF k = Len(list') THEN Nil ELSE list'[k + 1]
             /\ prev'[list'[k]] = IF k = 1 THEN Nil ELSE list'[k - 1]
  <2>1. list'[k] = list[k + 1] /\ k + 1 \in 1..Len(list) /\ k + 1 # 1 BY <1>2
  <2>2. next'[list'[k]] = IF k = Len(list') THEN Nil ELSE list'[k + 1]
    <3>1. next'[list'[k]] = IF k + 1 = Len(list) THEN Nil ELSE list[k + 2]
      BY <2>1, <1>5 DEF DropsFirst
    <3>2. k # Len(list') => list'[k + 1] = list[k + 2] BY <1>2
    <3>. QED BY <3>1, <3>2, <1>2
  <2>3. Len(list) > 1 /\ next[list[1]] = list[2] /\ list[2] \in Items /\ list[2] # Nil
    BY <1>2, <1>3, <1>6, ItemsFacts
  <2>4. prev' = [prev EXCEPT ![list[2]] = Nil] BY <2>3 DEF DropsFirst
  <2>5. CASE k = 1 BY <2>1, <2>2, <2>3, <2>4, <2>5, <1>1
  <2>6. CASE k # 1
    <3>1. list[k + 1] # list[2] /\ list[k + 1] \in Items BY <2>1, <2>3, <2>6, <1>2, <1>3, <1>4
    <3>2. prev'[list'[k]] = prev[list[k + 1]] BY <3>1, <2>1, <2>4, <1>1
    <3>3. prev[list[k + 1]] = list[k] BY <2>1, <1>5
    <3>4. list'[k - 1] = list[k] BY <2>6, <1>2
    <3>. QED BY <3>2, <3>3, <3>4, <2>2, <2>6
  <2>. QED BY <2>2, <2>5, <2>6
<1>. QED BY <1>3, <1>7, <1>8, <1>9 DEF Linked

LEMMA DropShared ==
  ASSUME ChatTypeOK, Shared, Numbered, DropsFirst
  PROVE  /\ Shared'
         /\ (\A j, k \in DOMAIN free : free[j] = free[k] => j = k)
              => (\A m, n \in DOMAIN free' : free'[m] = free'[n] => m = n)
         /\ \A i : i \in Range(list') <=> i \in Range(list) /\ i # list[1]
<1>1. list \in Seq(Items) /\ free \in Seq(Items) /\ list' \in Seq(Items) /\ free' \in Seq(Items)
  BY DropSeqs DEF ChatTypeOK
<1>2. /\ Len(list') = Len(list) - 1 /\ \A k \in 1..Len(list') : list'[k] = list[k + 1]
      /\ Len(free') = Len(free) + 1 /\ free'[1] = list[1]
      /\ \A k \in 1..Len(free') : k # 1 => free'[k] = free[k - 1]
      /\ Len(list) \in Nat \ {0} /\ Len(free) \in Nat
  BY DropSeqs
<1>3. /\ \A j, k \in 1..Len(list) : list[j] = list[k] => j = k
      /\ \A j \in 1..Len(free), k \in 1..Len(list) : free[j] # list[k]
  BY Apart
<1>4. \A i : i \in Range(list) <=> \E k \in 1..Len(list) : list[k] = i BY <1>1, ItemSeq
<1>5. \A i : i \in Range(list') <=> \E k \in 1..Len(list') : list'[k] = i BY <1>1, ItemSeq
<1>6. \A i : i \in Range(free) <=> \E k \in 1..Len(free) : free[k] = i BY <1>1, ItemSeq
<1>7. \A i : i \in Range(free') <=> \E k \in 1..Len(free') : free'[k] = i BY <1>1, ItemSeq
<1>8. ASSUME NEW i PROVE i \in Range(list') <=> i \in Range(list) /\ i # list[1]
  <2>1. ASSUME i \in Range(list') PROVE i \in Range(list) /\ i # list[1]
    <3>1. PICK k \in 1..Len(list') : list'[k] = i BY <2>1, <1>5
    <3>2. k + 1 \in 1..Len(list) /\ list[k + 1] = i /\ k + 1 # 1 /\ 1 \in 1..Len(list) BY <3>1, <1>2
    <3>. QED BY <3>2, <1>3, <1>4
  <2>2. ASSUME i \in Range(list), i # list[1] PROVE i \in Range(list')
    <3>1. PICK k \in 1..Len(list) : list[k] = i BY <2>2, <1>4
    <3>2. k # 1 BY <3>1, <2>2
    <3>3. k - 1 \in 1..Len(list') /\ list'[k - 1] = i BY <3>1, <3>2, <1>2
    <3>. QED BY <3>3, <1>5
  <2>. QED BY <2>1, <2>2
<1>9. ASSUME NEW i PROVE i \in Range(free') <=> i \in Range(free) \/ i = list[1]
  <2>1. ASSUME i \in Range(free') PROVE i \in Range(free) \/ i = list[1]
    <3>1. PICK k \in 1..Len(free') : free'[k] = i BY <2>1, <1>7
    <3>2. k # 1 => k - 1 \in 1..Len(free) /\ free[k - 1] = i BY <3>1, <1>2
    <3>. QED BY <3>1, <3>2, <1>2, <1>6
  <2>2. ASSUME i \in Range(free) PROVE i \in Range(free')
    <3>1. PICK k \in 1..Len(free) : free[k] = i BY <2>2, <1>6
    <3>2. k + 1 \in 1..Len(free') /\ free'[k + 1] = i BY <3>1, <1>2
    <3>. QED BY <3>2, <1>7
  <2>3. list[1] \in Range(free')
    <3>1. 1 \in 1..Len(free') BY <1>2
    <3>. QED BY <3>1, <1>2, <1>7
  <2>. QED BY <2>1, <2>2, <2>3
<1>10. Len(list') + Len(free') = PoolSize BY <1>2, ItemsFacts DEF Shared
<1>11. list[1] \in Range(list) /\ list[1] \in Items
  <2>1. 1 \in 1..Len(list) BY <1>2
  <2>. QED BY <2>1, <1>1, <1>4, ItemSeq
<1>12. Shared'
  <2>1. ASSUME NEW i \in Items
        PROVE \/ i \in Range(list') /\ i \notin Range(free')
              \/ i \in Range(free') /\ i \notin Range(list')
    BY <1>8, <1>9, <1>11 DEF Shared
  <2>. QED BY <2>1, <1>10 DEF Shared
<1>13. ASSUME \A j, k \in DOMAIN free : free[j] = free[k] => j = k,
              NEW m \in DOMAIN free', NEW n \in DOMAIN free', free'[m] = free'[n]
       PROVE  m = n
  <2>1. m \in 1..Len(free') /\ n \in 1..Len(free') /\ DOMAIN free = 1..Len(free)
    BY <1>1, <1>13, ItemSeq
  <2>2. 1 \in 1..Len(list) BY <1>2
  <2>3. ASSUME m # 1, n # 1 PROVE m = n
    <3>1. m - 1 \in 1..Len(free) /\ n - 1 \in 1..Len(free) /\ free[m - 1] = free[n - 1]
      BY <2>1, <2>3, <1>2, <1>13
    <3>2. m - 1 = n - 1 BY <3>1, <2>1, <1>13
    <3>. QED BY <3>2, <2>1
  <2>4. \A k \in 1..Len(free') : k # 1 => free'[k] # list[1]
    <3>1. ASSUME NEW k \in 1..Len(free'), k # 1 PROVE free'[k] # list[1]
      <4>1. k - 1 \in 1..Len(free) /\ free'[k] = free[k - 1] BY <3>1, <1>2
      <4>. QED BY <4>1, <2>2, <1>3
    <3>. QED BY <3>1
  <2>. QED BY <2>1, <2>3, <2>4, <1>2, <1>13
<1>. QED BY <1>8, <1>12, <1>13

LEMMA DropNumbered ==
  ASSUME ChatTypeOK, Numbered, DropsFirst
  PROVE  Numbered'
<1>1. /\ Len(list') = Len(list) - 1 /\ \A k \in 1..Len(list') : list'[k] = list[k + 1]
      /\ Len(list) \in Nat \ {0} /\ list' \in Seq(Items) /\ list \in Seq(Items)
  BY DropSeqs DEF ChatTypeOK
<1>2. DOMAIN list = 1..Len(list) /\ DOMAIN list' = 1..Len(list') BY <1>1, ItemSeq
<1>3. time' = time /\ text' = text /\ num' = num /\ now' = now /\ num \in Nat
  BY DEF DropsFirst, texts, ChatTypeOK
<1>4. \A k \in 1..Len(list') : k + 1 \in 1..Len(list) BY <1>1
<1>5. Len(list') <= num' BY <1>1, <1>3 DEF Numbered
<1>6. ASSUME NEW k \in 1..Len(list')
      PROVE /\ text'[list'[k]] = num' - Len(list') + k
            /\ 0 < time'[list'[k]] /\ time'[list'[k]] <= now'
  <2>1. /\ text[list[k + 1]] = num - Len(list) + (k + 1)
        /\ 0 < time[list[k + 1]] /\ time[list[k + 1]] <= now
    BY <1>2, <1>4 DEF Numbered
  <2>2. num - Len(list) + (k + 1) = num - Len(list') + k BY <1>1, <1>3
  <2>. QED BY <2>1, <2>2, <1>1, <1>3
<1>7. ASSUME NEW j \in 1..Len(list'), NEW k \in 1..Len(list'), j <= k
      PROVE  time'[list'[j]] <= time'[list'[k]]
  <2>1. j + 1 <= k + 1 BY <1>7
  <2>2. time[list[j + 1]] <= time[list[k + 1]] BY <2>1, <1>2, <1>4 DEF Numbered
  <2>. QED BY <2>2, <1>1, <1>3
<1>. QED BY <1>2, <1>5, <1>6, <1>7 DEF Numbered

LEMMA DropPool ==
  ASSUME ChatTypeOK, Shared, Numbered, PoolInv, DropsFirst,
         writer.at = "recycle",
         writer'.at = "add" \/ now - time[list[1]] >= Exist
  PROVE  PoolInv'
<1>1. /\ free \in Seq(Items) /\ free' \in Seq(Items) /\ Len(free') = Len(free) + 1
      /\ \A k \in 1..Len(free') : k # 1 => free'[k] = free[k - 1]
      /\ free'[1] = list[1] /\ Len(free) \in Nat
  BY DropSeqs DEF ChatTypeOK
<1>2. DOMAIN free = 1..Len(free) /\ DOMAIN free' = 1..Len(free') BY <1>1, ItemSeq
<1>3. \A j, k \in DOMAIN free' : free'[j] = free'[k] => j = k BY DropShared DEF PoolInv
<1>4. ASSUME NEW k \in DOMAIN free'
      PROVE  (writer'.at = "add" /\ k = 1) \/ Spent(free'[k], now)
  <2>1. CASE k = 1
    <3>1. free'[k] = list[1] BY <2>1, <1>1
    <3>2. CASE writer'.at = "add" BY <3>2, <2>1
    <3>3. CASE now - time[list[1]] >= Exist BY <3>1, <3>3 DEF Spent
    <3>. QED BY <3>2, <3>3
  <2>2. CASE k # 1
    <3>1. k - 1 \in 1..Len(free) /\ free'[k] = free[k - 1] BY <2>2, <1>1, <1>2
    <3>. QED BY <3>1, <1>2 DEF PoolInv
  <2>. QED BY <2>1, <2>2
<1>5. time' = time /\ now' = now BY DEF DropsFirst, texts
<1>. QED BY <1>3, <1>4, <1>5 DEF PoolInv, Spent

LEMMA DropRest ==
  ASSUME ChatTypeOK, Shared, Numbered, Used, CurrInv, DropsFirst
  PROVE  Used' /\ CurrInv'
<1>1. time' = time /\ text' = text /\ curr' = curr /\ shown' = shown /\ next' = next
      /\ stale' = stale \cup {p \in Readers : curr[p].item = list[1]}
  BY DEF DropsFirst, texts, pulls
<1>2. \A i : i \in Range(list') <=> i \in Range(list) /\ i # list[1] BY DropShared
<1>3. Used' BY <1>1 DEF Used
<1>4. ASSUME NEW p \in Readers, curr[p].item # Nil, p \notin stale'
      PROVE  curr[p].item \in Range(list') /\ time[curr[p].item] = curr[p].time
             /\ text[curr[p].item] = shown[p]
  <2>1. p \notin stale /\ curr[p].item # list[1] BY <1>1, <1>4
  <2>. QED BY <2>1, <1>2, <1>4 DEF CurrInv
<1>5. CurrInv' BY <1>1, <1>4 DEF CurrInv
<1>. QED BY <1>3, <1>5

-----------------------------------------------------------------------------
(* push_chat_msg                                                           *)

\* While there is no reader in, nothing is said of the answers.
NoneIn == \A p \in Readers : ~reader[p].in

LEMMA NoneInInv == ASSUME NoneIn' PROVE ReadersInv' /\ AnswersInOrder'
BY DEF NoneIn, ReadersInv, AnswersInOrder

LEMMA LockInv == ASSUME ChannelInv, PushLock PROVE ChannelInv'
<1>1. UNCHANGED <<links, texts, pulls, now, list, stale>> BY DEF PushLock
<1>2. ChatTypeOK /\ writer' = [at |-> "recycle", msg |-> head, now |-> now] /\ NoneIn
      /\ writer.at = "unlocked" /\ Linked /\ Shared /\ Numbered
  BY DEF ChannelInv, PushLock, NoneIn, ListAndPool
<1>3. ChatTypeOK' BY <1>1, <1>2 DEF ChatTypeOK, links, texts, pulls
<1>4. ListAndPool' BY <1>1 DEF ChannelInv, ListAndPool, Linked, Shared, links
<1>5. Numbered' BY <1>1 DEF ChannelInv, Numbered, texts
<1>6. PoolInv' BY <1>1, <1>2 DEF ChannelInv, PoolInv, links, texts, Spent
<1>7. Used' /\ CurrInv' BY <1>1 DEF ChannelInv, Used, CurrInv, texts, links, pulls
<1>8. NoneIn' BY <1>1, <1>2 DEF NoneIn, pulls
<1>9. WriterInv'
  <2>1. list \in Seq(Items) /\ now \in Nat BY <1>2 DEF ChatTypeOK
  <2>2. head # Nil => 1 \in DOMAIN list /\ list[1] = head
    BY <2>1, <1>2, ItemSeq DEF Linked
  <2>3. head # Nil => \E k \in DOMAIN list :
          list[k] = head /\ \A j \in 1..(k - 1) : now - time[list[j]] < Exist
    BY <2>2
  <2>4. list' = list /\ time' = time /\ now' = now /\ now <= now BY <2>1, <1>1 DEF texts
  <2>. QED BY <2>3, <2>4, <1>2, <1>8 DEF WriterInv, NoneIn
<1>10. ReadersInv' /\ AnswersInOrder' BY <1>8, NoneInInv
<1>. QED BY <1>3, <1>4, <1>5, <1>6, <1>7, <1>9, <1>10 DEF ChannelInv

\* The message recycle_old drops is the oldest one.
LEMMA ExpiredIsFirst ==
  ASSUME ChannelInv, writer.at = "recycle", writer.msg # Nil, writer.now - time[writer.msg] >= Exist
  PROVE  list # <<>> /\ writer.msg = list[1]
<1>1. list \in Seq(Items) /\ time \in [Items -> Nat] /\ writer.now \in Nat
  BY DEF ChannelInv, ChatTypeOK
<1>2. DOMAIN list = 1..Len(list) /\ Len(list) \in Nat /\ (list = <<>> <=> Len(list) = 0)
      /\ \A k \in 1..Len(list) : list[k] \in Items
  BY <1>1, ItemSeq
<1>3. PICK k \in DOMAIN list :
        list[k] = writer.msg /\ \A j \in 1..(k - 1) : writer.now - time[list[j]] < Exist
  BY DEF ChannelInv, WriterInv
<1>4. k = 1
  <2>1. SUFFICES ASSUME k # 1 PROVE FALSE OBVIOUS
  <2>2. 1 \in 1..(k - 1) /\ 1 \in DOMAIN list /\ 1 <= k BY <1>2, <2>1
  <2>3. writer.now - time[list[1]] < Exist BY <2>2, <1>3
  <2>4. time[list[1]] <= time[list[k]] BY <2>2 DEF ChannelInv, Numbered
  <2>5. time[list[1]] \in Nat /\ time[list[k]] \in Nat BY <1>1, <1>2, <2>2
  <2>6. Exist \in Nat BY LimitAssumption
  <2>. QED BY <2>3, <2>4, <2>5, <2>6, <1>1, <1>3
<1>. QED BY <1>2, <1>3, <1>4

LEMMA RecycleOf ==
  ASSUME ChannelInv, list # <<>>
  PROVE  /\ head = list[1] /\ Recycle(list[1]) = <<list[1]>> \o free
         /\ prev[list[1]] = Nil /\ list[1] \in Items
<1>1. list \in Seq(Items) /\ Linked /\ Shared /\ ChatTypeOK /\ Numbered
  BY DEF ChannelInv, ChatTypeOK, ListAndPool
<1>2. DOMAIN list = 1..Len(list) /\ Len(list) \in Nat \ {0} /\ 1 \in DOMAIN list /\ list[1] \in Items
  BY <1>1, ItemSeq
<1>3. head = list[1] /\ prev[list[1]] = Nil BY <1>1, <1>2 DEF Linked
<1>4. Len(free) # PoolSize BY <1>1, <1>2, Apart, ItemsFacts
<1>. QED BY <1>2, <1>3, <1>4 DEF Recycle

\* What a drop leaves, the writer apart.
LEMMA DropInv ==
  ASSUME ChannelInv, DropsFirst, writer.at = "recycle",
         writer'.at = "add" \/ now - time[list[1]] >= Exist,
         writer' \in [at : {"unlocked", "recycle", "add"}, msg : Items \cup {Nil}, now : Nat],
         WriterInv'
  PROVE  ChannelInv'
<1>1. ChatTypeOK /\ Linked /\ Shared /\ Numbered /\ PoolInv /\ Used /\ CurrInv
  BY DEF ChannelInv, ListAndPool
<1>2. ChatTypeOK' BY <1>1, DropType
<1>3. ListAndPool' BY <1>1, DropLinked, DropShared DEF ListAndPool
<1>4. Numbered' /\ PoolInv' /\ Used' /\ CurrInv' BY <1>1, DropNumbered, DropPool, DropRest
<1>5. NoneIn' BY DEF NoneIn, ChannelInv, WriterInv, DropsFirst, pulls
<1>. QED BY <1>2, <1>3, <1>4, <1>5, NoneInInv DEF ChannelInv

LEMMA RecycleInv == ASSUME ChannelInv, RecycleExpired PROVE ChannelInv'
<1>1. /\ writer.at = "recycle" /\ writer.msg # Nil /\ writer.now - time[writer.msg] >= Exist
      /\ ChatTypeOK /\ Linked /\ Shared /\ Numbered /\ WriterInv
  BY DEF RecycleExpired, ChannelInv, ListAndPool
<1>2. list # <<>> /\ writer.msg = list[1] BY <1>1, ExpiredIsFirst
<1>3. /\ head = list[1] /\ Recycle(list[1]) = <<list[1]>> \o free
      /\ prev[list[1]] = Nil /\ list[1] \in Items
  BY <1>2, RecycleOf
<1>4. next' = next /\ writer' = [writer EXCEPT !.msg = next[list[1]]]
  BY <1>2, <1>3 DEF RecycleExpired
<1>5. DropsFirst BY <1>2, <1>3, <1>4 DEF RecycleExpired, DropsFirst, Forget
<1>6. writer' \in [at : {"unlocked", "recycle", "add"}, msg : Items \cup {Nil}, now : Nat]
      /\ writer'.at = "recycle" /\ writer'.msg = next[list[1]] /\ writer'.now = writer.now
  BY <1>1, <1>3, <1>4 DEF ChatTypeOK
<1>7. now - time[list[1]] >= Exist
  <2>1. time[list[1]] \in Nat /\ now \in Nat /\ writer.now \in Nat /\ writer.now <= now /\ Exist \in Nat
    BY <1>1, <1>3, LimitAssumption DEF ChatTypeOK, WriterInv
  <2>. QED BY <2>1, <1>1, <1>2
<1>8. WriterInv'
  <2>1. head' = next[list[1]] /\ pulls' = pulls /\ now' = now /\ list' \in Seq(Items) /\ Linked'
    BY <1>1, <1>5, DropSeqs, DropLinked DEF DropsFirst
  <2>2. head' # Nil => 1 \in DOMAIN list' /\ list'[1] = head'
    BY <2>1, ItemSeq DEF Linked
  <2>3. writer'.msg # Nil => \E k \in DOMAIN list' :
          list'[k] = writer'.msg /\ \A j \in 1..(k - 1) : writer'.now - time'[list'[j]] < Exist
    BY <2>1, <2>2, <1>6
  <2>. QED BY <2>1, <2>3, <1>1, <1>6 DEF WriterInv, pulls
<1>. QED BY <1>1, <1>5, <1>6, <1>7, <1>8, DropInv

LEMMA PassInv == ASSUME ChannelInv, RecyclePasses PROVE ChannelInv'
<1>1. UNCHANGED <<links, texts, pulls, now, list, stale>> BY DEF RecyclePasses
<1>2. /\ ChatTypeOK /\ Linked /\ WriterInv /\ writer.at = "recycle" /\ writer.msg # Nil
      /\ writer.now - time[writer.msg] < Exist /\ writer' = [writer EXCEPT !.msg = next[writer.msg]]
  BY DEF ChannelInv, RecyclePasses, ListAndPool
<1>3. writer.msg \in Items /\ next[writer.msg] \in Items \cup {Nil} BY <1>2 DEF ChatTypeOK
<1>4. writer' \in [at : {"unlocked", "recycle", "add"}, msg : Items \cup {Nil}, now : Nat]
      /\ writer'.at = "recycle" /\ writer'.msg = next[writer.msg] /\ writer'.now = writer.now
  BY <1>2, <1>3 DEF ChatTypeOK
<1>5. ChatTypeOK' BY <1>1, <1>2, <1>4 DEF ChatTypeOK, links, texts, pulls
<1>6. ListAndPool' BY <1>1 DEF ChannelInv, ListAndPool, Linked, Shared, links
<1>7. Numbered' BY <1>1 DEF ChannelInv, Numbered, texts
<1>8. PoolInv' BY <1>1, <1>2, <1>4 DEF ChannelInv, PoolInv, links, texts, Spent
<1>9. Used' /\ CurrInv' BY <1>1 DEF ChannelInv, Used, CurrInv, texts, links, pulls
<1>10. NoneIn' BY <1>1, <1>2 DEF NoneIn, pulls, WriterInv
<1>11. WriterInv'
  <2>1. list \in Seq(Items) /\ list' = list /\ time' = time /\ now' = now
    BY <1>1, <1>2 DEF ChatTypeOK, texts
  <2>2. DOMAIN list = 1..Len(list) /\ Len(list) \in Nat BY <2>1, ItemSeq
  <2>3. PICK k \in DOMAIN list :
          list[k] = writer.msg /\ \A j \in 1..(k - 1) : writer.now - time[list[j]] < Exist
    BY <1>2 DEF WriterInv
  <2>4. next[writer.msg] # Nil => k + 1 \in DOMAIN list /\ list[k + 1] = next[writer.msg]
    BY <1>2, <2>2, <2>3 DEF Linked
  <2>5. \A j \in 1..((k + 1) - 1) : writer.now - time[list[j]] < Exist
    <3>1. ASSUME NEW j \in 1..((k + 1) - 1) PROVE writer.now - time[list[j]] < Exist
      <4>1. j = k \/ j \in 1..(k - 1) BY <2>2, <2>3
      <4>. QED BY <4>1, <2>3, <1>2
    <3>. QED BY <3>1
  <2>6. writer'.msg # Nil => \E n \in DOMAIN list :
          list[n] = writer'.msg /\ \A j \in 1..(n - 1) : writer'.now - time[list[j]] < Exist
    BY <2>4, <2>5, <1>4
  <2>. QED BY <2>1, <2>6, <1>2, <1>4, <1>10 DEF WriterInv, NoneIn
<1>. QED BY <1>5, <1>6, <1>7, <1>8, <1>9, <1>10, <1>11, NoneInInv DEF ChannelInv

LEMMA RoomInv == ASSUME ChannelInv, MakeRoom PROVE ChannelInv'
<1>1. /\ writer.at = "recycle" /\ writer' = [writer EXCEPT !.at = "add"]
      /\ ChatTypeOK /\ Linked /\ Shared /\ Numbered /\ WriterInv
      /\ UNCHANGED <<texts, pulls, now>>
  BY DEF MakeRoom, ChannelInv, ListAndPool
<1>2. writer' \in [at : {"unlocked", "recycle", "add"}, msg : Items \cup {Nil}, now : Nat]
      /\ writer'.at = "add" /\ writer'.msg = writer.msg /\ writer'.now = writer.now
  BY <1>1 DEF ChatTypeOK
<1>3. NoneIn' BY <1>1 DEF NoneIn, pulls, WriterInv
<1>4. CASE free # <<>>
  <2>1. UNCHANGED <<links, list, stale>> BY <1>4 DEF MakeRoom
  <2>2. ChatTypeOK' BY <1>1, <1>2, <2>1 DEF ChatTypeOK, links, texts, pulls
  <2>3. ListAndPool' BY <2>1 DEF ChannelInv, ListAndPool, Linked, Shared, links
  <2>4. Numbered' BY <1>1, <2>1 DEF ChannelInv, Numbered, texts
  <2>5. PoolInv' BY <1>1, <1>2, <2>1 DEF ChannelInv, PoolInv, links, texts, Spent
  <2>6. Used' /\ CurrInv' BY <1>1, <2>1 DEF ChannelInv, Used, CurrInv, texts, links, pulls
  <2>7. WriterInv' BY <1>1, <1>2, <1>3, <1>4, <2>1 DEF WriterInv, NoneIn, links
  <2>. QED BY <1>3, <2>2, <2>3, <2>4, <2>5, <2>6, <2>7, NoneInInv DEF ChannelInv
<1>5. CASE free = <<>>
  <2>1. Len(free) = 0 /\ Len(list) = PoolSize /\ PoolSize > 1 /\ list \in Seq(Items)
    BY <1>1, <1>5, Apart, ItemsFacts, ItemSeq DEF ChatTypeOK
  <2>2. list # <<>> /\ 1 \in DOMAIN list /\ Len(list) \in DOMAIN list
        /\ DOMAIN list = 1..Len(list)
    BY <2>1, ItemSeq, ItemsFacts
  <2>3. head = list[1] /\ Recycle(list[1]) = <<list[1]>> \o free BY <2>2, RecycleOf
  <2>4. tail = list[Len(list)] /\ list[1] # tail
    <3>1. tail = list[Len(list)] BY <1>1, <2>2 DEF Linked
    <3>2. 1 # Len(list) BY <2>1
    <3>. QED BY <1>1, <3>1, <3>2, <2>2, Apart
  <2>5. DropsFirst BY <1>1, <1>5, <2>2, <2>3, <2>4 DEF MakeRoom, DropsFirst, Forget
  <2>6. free' # <<>> BY <1>1, <2>5, DropSeqs, EmptySeq
  <2>7. WriterInv' BY <1>1, <1>2, <1>3, <2>6 DEF WriterInv, NoneIn
  <2>. QED BY <1>1, <1>2, <2>5, <2>7, DropInv
<1>. QED BY <1>4, <1>5

\* What the sequences become when a free item is taken.
LEMMA AddSeqs ==
  ASSUME ChannelInv, AddLast
  PROVE  /\ free[1] \in Items /\ Head(free) = free[1] /\ Len(free) \in Nat \ {0} /\ Len(list) \in Nat
         /\ list' \in Seq(Items) /\ Len(list') = Len(list) + 1 /\ list'[Len(list')] = free[1]
         /\ \A k \in 1..Len(list) : list'[k] = list[k] /\ list[k] # free[1] /\ list[k] \in Items
         /\ free' \in Seq(Items) /\ Len(free') = Len(free) - 1
         /\ \A k \in 1..Len(free') : free'[k] = free[k + 1] /\ free[k + 1] # free[1]
         /\ \A i : i \in Range(list') <=> i \in Range(list) \/ i = free[1]
         /\ free[1] \notin Range(list)
<1>1. /\ list \in Seq(Items) /\ free \in Seq(Items) /\ free # <<>>
      /\ ChatTypeOK /\ Shared /\ Numbered /\ PoolInv
      /\ list' = Append(list, Head(free)) /\ free' = Tail(free)
  BY DEF ChannelInv, ListAndPool, ChatTypeOK, WriterInv, AddLast
<1>2. /\ Len(free) \in Nat \ {0} /\ Len(list) \in Nat /\ DOMAIN free = 1..Len(free)
      /\ \A k \in 1..Len(free) : free[k] \in Items
      /\ \A k \in 1..Len(list) : list[k] \in Items
      /\ \A i : i \in Range(list) <=> \E k \in 1..Len(list) : list[k] = i
  BY <1>1, ItemSeq
<1>3. /\ Head(free) = free[1] /\ free' \in Seq(Items) /\ Len(free') = Len(free) - 1
      /\ \A k \in 1..(Len(free) - 1) : free'[k] = free[k + 1]
  BY <1>1, TailOf
<1>4. 1 \in 1..Len(free) /\ free[1] \in Items BY <1>2
<1>5. /\ list' \in Seq(Items) /\ Len(list') = Len(list) + 1 /\ list'[Len(list) + 1] = free[1]
      /\ \A k \in 1..Len(list) : list'[k] = list[k]
  BY <1>1, <1>3, <1>4, AppendProperties
<1>6. \A k \in 1..Len(list) : list[k] # free[1] BY <1>1, <1>4, Apart
<1>7. \A k \in 1..Len(free') : free[k + 1] # free[1]
  <2>1. ASSUME NEW k \in 1..Len(free') PROVE free[k + 1] # free[1]
    <3>1. k + 1 \in 1..Len(free) /\ k + 1 # 1 BY <1>2, <1>3
    <3>. QED BY <3>1, <1>1, <1>2, <1>4 DEF PoolInv
  <2>. QED BY <2>1
<1>8. ASSUME NEW i PROVE i \in Range(list') <=> i \in Range(list) \/ i = free[1]
  <2>1. i \in Range(list') <=> \E k \in 1..Len(list') : list'[k] = i BY <1>5, ItemSeq
  <2>2. \A k \in 1..Len(list') : k \in 1..Len(list) \/ k = Len(list) + 1 BY <1>2, <1>5
  <2>3. \A k \in 1..Len(list) : k \in 1..Len(list') BY <1>2, <1>5
  <2>4. Len(list) + 1 \in 1..Len(list') BY <1>2, <1>5
  <2>. QED BY <2>1, <2>2, <2>3, <2>4, <1>2, <1>5
<1>9. free[1] \notin Range(list) BY <1>2, <1>6
<1>. QED BY <1>2, <1>3, <1>4, <1>5, <1>6, <1>7, <1>8, <1>9

\* What else it changes.
LEMMA AddFields ==
  ASSUME ChannelInv, AddLast
  PROVE  /\ text' = [text EXCEPT ![free[1]] = num + 1] /\ time' = [time EXCEPT ![free[1]] = now]
         /\ prev' = [prev EXCEPT ![free[1]] = tail]
         /\ next' = [j \in Items |-> IF j = tail THEN free[1] ELSE IF j = free[1] THEN Nil ELSE next[j]]
         /\ head' = IF head = Nil THEN free[1] ELSE head
         /\ tail' = free[1] /\ num' = num + 1
         /\ writer' = [writer EXCEPT !.at = "unlocked"]
         /\ UNCHANGED <<pulls, now, stale>> /\ writer.at = "add"
<1>1. Head(free) = free[1] BY AddSeqs
<1>. QED BY <1>1 DEF AddLast

LEMMA AddType == ASSUME ChannelInv, AddLast PROVE ChatTypeOK'
<1>1. ChatTypeOK BY DEF ChannelInv
<1>2. free[1] \in Items /\ list' \in Seq(Items) /\ free' \in Seq(Items) BY AddSeqs
<1>3. text' \in [Items -> Nat] /\ time' \in [Items -> Nat] /\ num' \in Nat
  <2>1. num \in Nat /\ now \in Nat /\ text \in [Items -> Nat] /\ time \in [Items -> Nat]
    BY <1>1 DEF ChatTypeOK
  <2>2. text' = [text EXCEPT ![free[1]] = num + 1] /\ time' = [time EXCEPT ![free[1]] = now]
        /\ num' = num + 1
    BY AddFields
  <2>. QED BY <1>2, <2>1, <2>2
<1>4. /\ next' \in [Items -> Items \cup {Nil}] /\ prev' \in [Items -> Items \cup {Nil}]
      /\ head' \in Items \cup {Nil} /\ tail' \in Items \cup {Nil}
  <2>1. /\ next \in [Items -> Items \cup {Nil}] /\ prev \in [Items -> Items \cup {Nil}]
        /\ head \in Items \cup {Nil} /\ tail \in Items \cup {Nil}
    BY <1>1 DEF ChatTypeOK
  <2>2. next' = [j \in Items |-> IF j = tail THEN free[1] ELSE IF j = free[1] THEN Nil ELSE next[j]]
    BY AddFields
  <2>3. prev' = [prev EXCEPT ![free[1]] = tail] BY AddFields
  <2>4. head' = (IF head = Nil THEN free[1] ELSE head) /\ tail' = free[1] BY AddFields
  <2>5. next' \in [Items -> Items \cup {Nil}] BY <1>2, <2>1, <2>2
  <2>6. prev' \in [Items -> Items \cup {Nil}] BY <1>2, <2>1, <2>3
  <2>. QED BY <1>2, <2>1, <2>4, <2>5, <2>6
<1>5. writer' \in [at : {"unlocked", "recycle", "add"}, msg : Items \cup {Nil}, now : Nat]
  <2>1. writer' = [writer EXCEPT !.at = "unlocked"] BY AddFields
  <2>. QED BY <1>1, <2>1 DEF ChatTypeOK
<1>6. UNCHANGED <<reader, curr, shown, answer, now, stale>> BY AddFields DEF pulls
<1>. QED BY <1>1, <1>2, <1>3, <1>4, <1>5, <1>6 DEF ChatTypeOK

LEMMA AddLinked == ASSUME ChannelInv, AddLast PROVE Linked'
<1>1. /\ free[1] \in Items /\ Len(list) \in Nat
      /\ list' \in Seq(Items) /\ Len(list') = Len(list) + 1 /\ list'[Len(list')] = free[1]
      /\ \A k \in 1..Len(list) : list'[k] = list[k] /\ list[k] # free[1] /\ list[k] \in Items
  BY AddSeqs
<1>2. ChatTypeOK /\ Linked /\ Shared /\ Numbered /\ list \in Seq(Items)
  BY DEF ChannelInv, ListAndPool, ChatTypeOK
<1>3. DOMAIN list = 1..Len(list) /\ DOMAIN list' = 1..Len(list') /\ (list = <<>> <=> Len(list) = 0)
      /\ list' # <<>>
  BY <1>1, <1>2, ItemSeq
<1>4. \A j, k \in 1..Len(list) : list[j] = list[k] => j = k BY <1>2, Apart
<1>5. ASSUME NEW k \in 1..Len(list) PROVE list[k] = tail <=> k = Len(list)
  <2>1. Len(list) \in 1..Len(list) /\ list # <<>> BY <1>1, <1>3
  <2>2. tail = list[Len(list)] BY <2>1, <1>2 DEF Linked
  <2>. QED BY <2>1, <2>2, <1>4
<1>6. tail # free[1] /\ (list = <<>> => tail = Nil) /\ (list # <<>> => tail = list[Len(list)])
  BY <1>1, <1>2, <1>3, ItemsFacts DEF Linked
<1>7. head' = list'[1]
  <2>1. CASE list = <<>>
    <3>1. head = Nil BY <2>1, <1>2 DEF Linked
    <3>. QED BY <2>1, <3>1, <1>1, <1>3, AddFields
  <2>2. CASE list # <<>>
    <3>1. 1 \in 1..Len(list) BY <2>2, <1>1, <1>3
    <3>2. head = list[1] /\ head # Nil BY <2>2, <3>1, <1>1, <1>2, ItemsFacts DEF Linked
    <3>. QED BY <3>1, <3>2, <1>1, AddFields
  <2>. QED BY <2>1, <2>2
<1>8. tail' = list'[Len(list')] BY <1>1, AddFields
<1>9. ASSUME NEW k \in 1..Len(list')
      PROVE  /\ next'[list'[k]] = IF k = Len(list') THEN Nil ELSE list'[k + 1]
             /\ prev'[list'[k]] = IF k = 1 THEN Nil ELSE list'[k - 1]
  <2>1. CASE k = Len(list')
    <3>1. list'[k] = free[1] BY <2>1, <1>1
    <3>2. next'[free[1]] = Nil BY <1>1, <1>6, AddFields
    <3>3. prev'[free[1]] = tail BY <1>1, <1>2, AddFields DEF ChatTypeOK
    <3>4. CASE list = <<>> BY <2>1, <3>1, <3>2, <3>3, <3>4, <1>1, <1>3, <1>6
    <3>5. CASE list # <<>>
      <4>1. k # 1 /\ k - 1 = Len(list) /\ Len(list) \in 1..Len(list) BY <2>1, <3>5, <1>1, <1>3
      <4>2. list'[k - 1] = tail BY <4>1, <3>5, <1>1, <1>6
      <4>. QED BY <2>1, <3>1, <3>2, <3>3, <4>1, <4>2
    <3>. QED BY <3>4, <3>5
  <2>2. CASE k # Len(list')
    <3>1. k \in 1..Len(list) /\ list'[k] = list[k] /\ list[k] # free[1] /\ list[k] \in Items
      BY <2>2, <1>1
    <3>2. /\ next[list[k]] = IF k = Len(list) THEN Nil ELSE list[k + 1]
          /\ prev[list[k]] = IF k = 1 THEN Nil ELSE list[k - 1]
      BY <3>1, <1>2, <1>3 DEF Linked
    <3>3. next'[list[k]] = IF k = Len(list) THEN free[1] ELSE next[list[k]]
      BY <3>1, <1>5, AddFields
    <3>4. prev'[list[k]] = prev[list[k]] BY <3>1, <1>2, AddFields DEF ChatTypeOK
    <3>5. k = Len(list) => list'[k + 1] = free[1] BY <1>1
    <3>6. k # Len(list) => list'[k + 1] = list[k + 1] BY <3>1, <1>1
    <3>7. k # 1 => list'[k - 1] = list[k - 1] BY <3>1, <1>1
    <3>. QED BY <2>2, <3>1, <3>2, <3>3, <3>4, <3>5, <3>6, <3>7
  <2>. QED BY <2>1, <2>2
<1>. QED BY <1>3, <1>7, <1>8, <1>9 DEF Linked

LEMMA AddShared == ASSUME ChannelInv, AddLast PROVE Shared' /\ PoolInv'
<1>1. /\ free[1] \in Items /\ Len(free) \in Nat \ {0} /\ Len(list) \in Nat
      /\ Len(list') = Len(list) + 1 /\ free' \in Seq(Items) /\ Len(free') = Len(free) - 1
      /\ \A k \in 1..Len(free') : free'[k] = free[k + 1] /\ free[k + 1] # free[1]
      /\ \A i : i \in Range(list') <=> i \in Range(list) \/ i = free[1]
      /\ free[1] \notin Range(list)
  BY AddSeqs
<1>2. ChatTypeOK /\ Shared /\ PoolInv /\ free \in Seq(Items)
  BY DEF ChannelInv, ListAndPool, ChatTypeOK
<1>3. /\ DOMAIN free = 1..Len(free) /\ DOMAIN free' = 1..Len(free')
      /\ \A i : i \in Range(free) <=> \E k \in 1..Len(free) : free[k] = i
      /\ \A i : i \in Range(free') <=> \E k \in 1..Len(free') : free'[k] = i
      /\ \A k \in 1..Len(free) : free[k] \in Items
  BY <1>1, <1>2, ItemSeq
<1>4. \A k \in 1..Len(free') : k + 1 \in 1..Len(free) /\ k + 1 # 1 BY <1>1
<1>5. ASSUME NEW i PROVE i \in Range(free') <=> i \in Range(free) /\ i # free[1]
  <2>1. ASSUME i \in Range(free') PROVE i \in Range(free) /\ i # free[1]
    <3>1. PICK k \in 1..Len(free') : free'[k] = i BY <2>1, <1>3
    <3>. QED BY <3>1, <1>1, <1>3, <1>4
  <2>2. ASSUME i \in Range(free), i # free[1] PROVE i \in Range(free')
    <3>1. PICK k \in 1..Len(free) : free[k] = i BY <2>2, <1>3
    <3>2. k - 1 \in 1..Len(free') /\ (k - 1) + 1 = k BY <3>1, <2>2, <1>1
    <3>3. free'[k - 1] = i BY <3>1, <3>2, <1>1
    <3>. QED BY <3>2, <3>3, <1>3
  <2>. QED BY <2>1, <2>2
<1>6. Len(list') + Len(free') = PoolSize BY <1>1, <1>2, ItemsFacts DEF Shared
<1>7. ASSUME NEW i \in Items
      PROVE  \/ i \in Range(list') /\ i \notin Range(free')
             \/ i \in Range(free') /\ i \notin Range(list')
  BY <1>1, <1>2, <1>5 DEF Shared
<1>8. Shared' BY <1>6, <1>7 DEF Shared
<1>9. ASSUME NEW j \in 1..Len(free'), NEW k \in 1..Len(free'), free'[j] = free'[k] PROVE j = k
  <2>1. free[j + 1] = free[k + 1] BY <1>1, <1>9
  <2>2. j + 1 = k + 1 BY <2>1, <1>2, <1>3, <1>4 DEF PoolInv
  <2>. QED BY <2>2
<1>10. ASSUME NEW k \in 1..Len(free') PROVE Spent(free[k], now)'
  <2>1. free'[k] = free[k + 1] /\ free[k + 1] # free[1] /\ free[k + 1] \in Items BY <1>1, <1>3, <1>4
  <2>2. Spent(free[k + 1], now) BY <1>2, <1>3, <1>4 DEF PoolInv
  <2>3. time'[free[k + 1]] = time[free[k + 1]] BY <2>1, <1>1, <1>2, AddFields DEF ChatTypeOK
  <2>4. now' = now BY AddFields
  <2>5. time'[free'[k]] = time[free[k + 1]] BY <2>1, <2>3
  <2>. QED BY <2>2, <2>4, <2>5 DEF Spent
<1>11. PoolInv' BY <1>3, <1>9, <1>10 DEF PoolInv, Spent
<1>. QED BY <1>8, <1>11

LEMMA AddNumbered == ASSUME ChannelInv, AddLast PROVE Numbered'
<1>1. /\ free[1] \in Items /\ Len(list) \in Nat
      /\ list' \in Seq(Items) /\ Len(list') = Len(list) + 1 /\ list'[Len(list')] = free[1]
      /\ \A k \in 1..Len(list) : list'[k] = list[k] /\ list[k] # free[1] /\ list[k] \in Items
  BY AddSeqs
<1>2. ChatTypeOK /\ Numbered /\ list \in Seq(Items) /\ num \in Nat /\ now \in Nat \ {0}
      /\ time \in [Items -> Nat] /\ text \in [Items -> Nat]
  BY DEF ChannelInv, ChatTypeOK
<1>3. DOMAIN list = 1..Len(list) /\ DOMAIN list' = 1..Len(list') BY <1>1, <1>2, ItemSeq
<1>4. time'[free[1]] = now /\ text'[free[1]] = num + 1 /\ now' = now /\ num' = num + 1
  BY <1>1, <1>2, AddFields
<1>5. \A k \in 1..Len(list) : time'[list'[k]] = time[list[k]] /\ text'[list'[k]] = text[list[k]]
  <2>1. text' = [text EXCEPT ![free[1]] = num + 1] /\ time' = [time EXCEPT ![free[1]] = now]
    BY AddFields
  <2>2. \A i \in Items : i # free[1] => time'[i] = time[i] /\ text'[i] = text[i]
    BY <2>1, <1>1, <1>2
  <2>. QED BY <2>2, <1>1
<1>6. Len(list') <= num' BY <1>1, <1>2, <1>4 DEF Numbered
<1>7. ASSUME NEW k \in 1..Len(list')
      PROVE  /\ text'[list'[k]] = num' - Len(list') + k
             /\ 0 < time'[list'[k]] /\ time'[list'[k]] <= now'
  <2>1. CASE k = Len(list') BY <2>1, <1>1, <1>2, <1>4
  <2>2. CASE k # Len(list')
    <3>1. k \in 1..Len(list) BY <2>2, <1>1
    <3>2. /\ text[list[k]] = num - Len(list) + k
          /\ 0 < time[list[k]] /\ time[list[k]] <= now
      BY <3>1, <1>2, <1>3 DEF Numbered
    <3>3. num - Len(list) + k = num' - Len(list') + k BY <1>1, <1>2, <1>4
    <3>. QED BY <3>1, <3>2, <3>3, <1>4, <1>5
  <2>. QED BY <2>1, <2>2
<1>8. ASSUME NEW j \in 1..Len(list'), NEW k \in 1..Len(list'), j <= k
      PROVE  time'[list'[j]] <= time'[list'[k]]
  <2>1. CASE k = Len(list') BY <2>1, <1>1, <1>4, <1>7
  <2>2. CASE k # Len(list')
    <3>1. j \in 1..Len(list) /\ k \in 1..Len(list) BY <2>2, <1>1, <1>8
    <3>2. time[list[j]] <= time[list[k]] BY <3>1, <1>2, <1>3, <1>8 DEF Numbered
    <3>. QED BY <3>1, <3>2, <1>5
  <2>. QED BY <2>1, <2>2
<1>. QED BY <1>3, <1>6, <1>7, <1>8 DEF Numbered

LEMMA AddRest == ASSUME ChannelInv, AddLast PROVE Used' /\ CurrInv' /\ WriterInv' /\ NoneIn'
<1>1. /\ free[1] \in Items /\ free[1] \notin Range(list)
      /\ \A i : i \in Range(list') <=> i \in Range(list) \/ i = free[1]
  BY AddSeqs
<1>2. /\ ChatTypeOK /\ Used /\ CurrInv /\ WriterInv /\ now \in Nat \ {0}
      /\ time \in [Items -> Nat] /\ text \in [Items -> Nat] /\ next \in [Items -> Items \cup {Nil}]
      /\ curr \in [Readers -> [item : Items \cup {Nil}, time : Nat]]
  BY DEF ChannelInv, ChatTypeOK
<1>3. UNCHANGED <<reader, curr, shown, answer, now, stale>> BY AddFields DEF pulls
<1>4. \A i \in Items : i # free[1] => time'[i] = time[i] /\ text'[i] = text[i]
  BY <1>1, <1>2, AddFields
<1>5. time'[free[1]] = now BY <1>1, <1>2, AddFields
<1>6. \A i \in Items : time[i] > 0 => time'[i] > 0
  <2>1. now > 0 BY <1>2
  <2>. QED BY <2>1, <1>4, <1>5
<1>7. ASSUME NEW i \in Items, next'[i] # Nil PROVE time'[next'[i]] > 0
  <2>1. next'[i] = IF i = tail THEN free[1] ELSE IF i = free[1] THEN Nil ELSE next[i]
    BY AddFields
  <2>2. CASE i = tail BY <2>1, <2>2, <1>2, <1>5
  <2>3. CASE i # tail
    <3>1. next'[i] = next[i] /\ next[i] # Nil /\ next[i] \in Items BY <2>1, <2>3, <1>2, <1>7
    <3>. QED BY <3>1, <1>2, <1>6 DEF Used
  <2>. QED BY <2>2, <2>3
<1>8. ASSUME NEW p \in Readers, curr[p].item # Nil PROVE time'[curr[p].item] > 0
  <2>1. curr[p].item \in Items BY <1>2, <1>8
  <2>2. time[curr[p].item] > 0 BY <1>2, <1>8 DEF Used
  <2>. QED BY <2>1, <2>2, <1>6
<1>9. Used' BY <1>3, <1>7, <1>8 DEF Used
<1>10. ASSUME NEW p \in Readers, curr[p].item # Nil, p \notin stale
       PROVE  curr[p].item \in Range(list') /\ time'[curr[p].item] = curr[p].time
              /\ text'[curr[p].item] = shown[p]
  <2>1. curr[p].item \in Range(list) /\ time[curr[p].item] = curr[p].time
        /\ text[curr[p].item] = shown[p]
    BY <1>2, <1>10 DEF CurrInv
  <2>2. curr[p].item \in Items /\ curr[p].item # free[1] BY <2>1, <1>1, <1>2, <1>10
  <2>. QED BY <2>1, <2>2, <1>1, <1>4
<1>11. CurrInv' BY <1>2, <1>3, <1>10 DEF CurrInv
<1>12. NoneIn' BY <1>2, <1>3, AddFields DEF NoneIn, WriterInv
<1>13. WriterInv'
  <2>1. writer'.at = "unlocked" /\ writer'.now = writer.now BY <1>2, AddFields DEF ChatTypeOK
  <2>. QED BY <2>1, <1>2, <1>3 DEF WriterInv
<1>. QED BY <1>9, <1>11, <1>12, <1>13

LEMMA AddInv == ASSUME ChannelInv, AddLast PROVE ChannelInv'
<1>1. ListAndPool' BY AddLinked, AddShared DEF ListAndPool
<1>2. ReadersInv' /\ AnswersInOrder' BY AddRest, NoneInInv
<1>. QED BY <1>1, <1>2, AddType, AddShared, AddNumbered, AddRest DEF ChannelInv

-----------------------------------------------------------------------------
(* The clock and pull_chat                                                 *)

LEMMA TickInv == ASSUME ChannelInv, Tick PROVE ChannelInv'
<1>1. UNCHANGED <<links, texts, writer, pulls, list, stale>> /\ now' = now + 1 BY DEF Tick
<1>2. /\ ChatTypeOK /\ Numbered /\ PoolInv /\ WriterInv
      /\ now \in Nat \ {0} /\ time \in [Items -> Nat] /\ list \in Seq(Items) /\ free \in Seq(Items)
  BY DEF ChannelInv, ChatTypeOK
<1>3. ChatTypeOK' BY <1>1, <1>2 DEF ChatTypeOK, links, texts, pulls
<1>4. ListAndPool' BY <1>1 DEF ChannelInv, ListAndPool, Linked, Shared, links
<1>5. Numbered'
  <2>1. \A k \in DOMAIN list : list[k] \in Items BY <1>2, ItemSeq
  <2>2. \A k \in DOMAIN list : time[list[k]] <= now' BY <1>1, <1>2, <2>1 DEF Numbered
  <2>3. time' = time /\ text' = text /\ num' = num /\ list' = list BY <1>1 DEF texts
  <2>. QED BY <1>2, <2>2, <2>3 DEF Numbered
<1>6. PoolInv'
  <2>1. \A k \in DOMAIN free : free[k] \in Items BY <1>2, ItemSeq
  <2>2. Exist \in Nat BY LimitAssumption
  <2>3. \A i \in Items : Spent(i, now) => Spent(i, now + 1) BY <1>2, <2>2 DEF Spent
  <2>4. \A k \in DOMAIN free : (writer.at = "add" /\ k = 1) \/ Spent(free[k], now + 1)
    BY <1>2, <2>1, <2>3 DEF PoolInv
  <2>5. time' = time /\ free' = free /\ writer' = writer BY <1>1 DEF links, texts
  <2>. QED BY <1>1, <1>2, <2>4, <2>5 DEF PoolInv, Spent
<1>7. Used' /\ CurrInv' BY <1>1 DEF ChannelInv, Used, CurrInv, texts, links, pulls
<1>8. WriterInv'
  <2>1. writer.now <= now + 1 BY <1>2 DEF WriterInv, ChatTypeOK
  <2>2. time' = time /\ free' = free /\ writer' = writer /\ reader' = reader /\ list' = list
    BY <1>1 DEF links, texts, pulls
  <2>. QED BY <1>1, <1>2, <2>1, <2>2 DEF WriterInv
<1>9. ReadersInv' /\ AnswersInOrder'
  BY <1>1 DEF ChannelInv, ReadersInv, CursorAt, AheadAt, Spent, Expired, AnswersInOrder, InOrder,
              links, texts, pulls
<1>. QED BY <1>3, <1>4, <1>5, <1>6, <1>7, <1>8, <1>9 DEF ChannelInv

\* What is next of an item of the list.
LEMMA NextInList ==
  ASSUME ChannelInv, NEW i \in Range(list)
  PROVE  /\ i \in Items /\ text[i] \in Nat \ {0}
         /\ \/ next[i] = Nil /\ \A j \in Range(list) : text[j] <= text[i]
            \/ next[i] \in Range(list) /\ text[next[i]] = text[i] + 1
         /\ \A j \in Range(list) : text[j] = text[i] => j = i
<1>1. /\ ChatTypeOK /\ Linked /\ Numbered /\ list \in Seq(Items) /\ num \in Nat
      /\ text \in [Items -> Nat]
  BY DEF ChannelInv, ChatTypeOK, ListAndPool
<1>2. /\ DOMAIN list = 1..Len(list) /\ Len(list) \in Nat
      /\ \A k \in 1..Len(list) : list[k] \in Items
      /\ \A j : j \in Range(list) <=> \E k \in 1..Len(list) : list[k] = j
  BY <1>1, ItemSeq
<1>3. PICK k \in 1..Len(list) : list[k] = i BY <1>2
<1>4. Len(list) <= num /\ \A n \in 1..Len(list) : text[list[n]] = num - Len(list) + n
  BY <1>1, <1>2 DEF Numbered
<1>5. i \in Items /\ text[i] \in Nat \ {0} BY <1>1, <1>2, <1>3, <1>4
<1>6. ASSUME k = Len(list)
      PROVE  \/ next[i] = Nil /\ \A j \in Range(list) : text[j] <= text[i]
             \/ next[i] \in Range(list) /\ text[next[i]] = text[i] + 1
  <2>1. next[i] = Nil BY <1>1, <1>2, <1>3, <1>6 DEF Linked
  <2>2. ASSUME NEW j \in Range(list) PROVE text[j] <= text[i]
    <3>1. PICK n \in 1..Len(list) : list[n] = j BY <1>2
    <3>. QED BY <3>1, <1>1, <1>2, <1>3, <1>4, <1>6
  <2>. QED BY <2>1, <2>2
<1>7. ASSUME k # Len(list)
      PROVE  \/ next[i] = Nil /\ \A j \in Range(list) : text[j] <= text[i]
             \/ next[i] \in Range(list) /\ text[next[i]] = text[i] + 1
  <2>1. k + 1 \in 1..Len(list)
    <3>1. k \in 1..Len(list) /\ Len(list) \in Nat BY <1>2, <1>3
    <3>. QED BY <3>1, <1>7
  <2>2. next[i] = list[k + 1] BY <1>1, <1>2, <1>3, <1>7 DEF Linked
  <2>3. text[list[k + 1]] = text[i] + 1 BY <2>1, <1>1, <1>2, <1>3, <1>4
  <2>4. list[k + 1] \in Range(list) BY <2>1, <1>2
  <2>. QED BY <2>2, <2>3, <2>4
<1>8. ASSUME NEW j \in Range(list), text[j] = text[i] PROVE j = i
  <2>1. PICK n \in 1..Len(list) : list[n] = j BY <1>2
  <2>2. n = k BY <2>1, <1>1, <1>2, <1>3, <1>4, <1>8
  <2>. QED BY <2>1, <2>2, <1>3
<1>. QED BY <1>5, <1>6, <1>7, <1>8

LEMMA HeadOfList ==
  ASSUME ChannelInv
  PROVE  /\ head = Nil => Range(list) = {}
         /\ head # Nil => /\ head \in Range(list) /\ time[head] > 0
                          /\ \A j \in Range(list) : text[head] <= text[j]
<1>1. ChatTypeOK /\ Linked /\ Numbered /\ list \in Seq(Items) /\ num \in Nat
  BY DEF ChannelInv, ChatTypeOK, ListAndPool
<1>2. /\ DOMAIN list = 1..Len(list) /\ Len(list) \in Nat /\ (list = <<>> <=> Len(list) = 0)
      /\ \A k \in 1..Len(list) : list[k] \in Items
      /\ \A j : j \in Range(list) <=> \E k \in 1..Len(list) : list[k] = j
  BY <1>1, ItemSeq
<1>3. CASE list = <<>>
  <2>1. head = Nil BY <1>1, <1>3 DEF Linked
  <2>2. 1..Len(list) = {} BY <1>2, <1>3
  <2>. QED BY <2>1, <2>2, <1>2
<1>4. CASE list # <<>>
  <2>1. 1 \in 1..Len(list) /\ head = list[1] /\ head # Nil
    BY <1>1, <1>2, <1>4, ItemsFacts DEF Linked
  <2>2. time[head] > 0 BY <2>1, <1>1, <1>2 DEF Numbered, ChatTypeOK
  <2>3. ASSUME NEW j \in Range(list) PROVE text[head] <= text[j]
    <3>1. PICK n \in 1..Len(list) : list[n] = j BY <1>2
    <3>2. text[list[n]] = num - Len(list) + n /\ text[list[1]] = num - Len(list) + 1
      BY <2>1, <1>1, <1>2 DEF Numbered
    <3>. QED BY <3>1, <3>2, <2>1, <1>1, <1>2
  <2>. QED BY <2>1, <2>2, <2>3, <1>2
<1>. QED BY <1>3, <1>4

\* A pull leaves the channel as it is, and the other pulls.
LEMMA PullKeeps ==
  ASSUME ChannelInv, UNCHANGED <<links, texts, writer, now, list>>, NEW p \in Readers,
         writer.at = "unlocked",
         \A q \in Readers \ {p} : reader'[q] = reader[q] /\ answer'[q] = answer[q]
  PROVE  /\ ListAndPool' /\ Numbered' /\ PoolInv' /\ WriterInv'
         /\ \A q \in Readers \ {p} : reader'[q].in =>
              InOrder(q)' /\ CursorAt(q)' /\ (answer[q].fresh => AheadAt(q))'
<1>1. ListAndPool' BY DEF ChannelInv, ListAndPool, Linked, Shared, links
<1>2. Numbered' BY DEF ChannelInv, Numbered, texts
<1>3. PoolInv' BY DEF ChannelInv, PoolInv, links, texts, Spent
<1>4. WriterInv' BY DEF ChannelInv, WriterInv
<1>5. ASSUME NEW q \in Readers \ {p}, reader'[q].in
      PROVE  InOrder(q)' /\ CursorAt(q)' /\ (answer[q].fresh => AheadAt(q))'
  <2>1. reader[q].in /\ reader'[q] = reader[q] /\ answer'[q] = answer[q] BY <1>5
  <2>2. list' = list /\ text' = text /\ time' = time /\ free' = free BY DEF links, texts
  <2>3. InOrder(q)' BY <2>1, <2>2 DEF ChannelInv, AnswersInOrder, InOrder
  <2>4. CursorAt(q)' BY <2>1, <2>2 DEF ChannelInv, ReadersInv, CursorAt, Spent
  <2>5. ASSUME answer'[q].fresh PROVE AheadAt(q)'
    BY <2>1, <2>2, <2>5 DEF ChannelInv, ReadersInv, AheadAt, Expired
  <2>. QED BY <2>3, <2>4, <2>5
<1>. QED BY <1>1, <1>2, <1>3, <1>4, <1>5

\* It remains to look at the pull itself.
LEMMA PullStep ==
  ASSUME ChannelInv, UNCHANGED <<links, texts, writer, now, list>>, NEW p \in Readers,
         writer.at = "unlocked",
         \A q \in Readers \ {p} : reader'[q] = reader[q] /\ answer'[q] = answer[q],
         reader'[p].in => InOrder(p)' /\ CursorAt(p)' /\ (answer[p].fresh => AheadAt(p))',
         ChatTypeOK', Used', CurrInv'
  PROVE  ChannelInv'
<1>1. \A q \in Readers : reader'[q].in =>
        InOrder(q)' /\ CursorAt(q)' /\ (answer'[q].fresh => AheadAt(q)')
  BY PullKeeps
<1>2. ReadersInv' BY <1>1 DEF ReadersInv
<1>3. AnswersInOrder' BY <1>1 DEF AnswersInOrder
<1>. QED BY <1>2, <1>3, PullKeeps DEF ChannelInv

\* A reader that is in has the lock.
LEMMA HasLock == ASSUME ChannelInv, NEW p \in Readers, reader[p].in PROVE writer.at = "unlocked"
BY DEF ChannelInv, WriterInv

\* The items of the pool hold nothing for a reader.
LEMMA LivesInList ==
  ASSUME ChannelInv, NEW p \in Readers, reader[p].in, reader[p].msg # Nil, ~Expired(p, reader[p].msg)
  PROVE  reader[p].msg \in Range(list)
<1>1. reader[p].msg \in Items /\ free \in Seq(Items) BY DEF ChannelInv, ChatTypeOK
<1>2. SUFFICES ASSUME reader[p].msg \in Range(free) PROVE FALSE
  BY <1>1 DEF ChannelInv, ListAndPool, Shared
<1>3. PICK k \in DOMAIN free : free[k] = reader[p].msg BY <1>1, <1>2, ItemSeq
<1>4. CursorAt(p) BY DEF ChannelInv, ReadersInv
<1>5. Spent(reader[p].msg, reader[p].now) /\ time[reader[p].msg] > 0 BY <1>3, <1>4 DEF CursorAt
<1>. QED BY <1>5 DEF Spent, Expired

\* Where a pull begins.
LEMMA CurrMsgIs ==
  ASSUME ChannelInv, NEW p \in Readers
  PROVE  /\ CurrMsg(p) \in Items \cup {Nil}
         /\ CurrMsg(p) # Nil => time[CurrMsg(p)] > 0
         /\ p \notin stale =>
              /\ CurrMsg(p) # Nil => CurrMsg(p) \in Range(list) /\ text[CurrMsg(p)] > shown[p]
              /\ \A i \in Range(list) :
                   text[i] > shown[p] => CurrMsg(p) # Nil /\ text[CurrMsg(p)] <= text[i]
<1>1. /\ ChatTypeOK /\ Used /\ CurrInv /\ next \in [Items -> Items \cup {Nil}]
      /\ head \in Items \cup {Nil} /\ curr[p].item \in Items \cup {Nil} /\ shown[p] \in Nat
  BY DEF ChannelInv, ChatTypeOK
<1>2. CASE curr[p].item = Nil \/ time[curr[p].item] # curr[p].time
  <2>1. CurrMsg(p) = head BY <1>2 DEF CurrMsg
  <2>2. head # Nil => time[head] > 0 BY HeadOfList
  <2>3. ASSUME p \notin stale PROVE shown[p] = 0
    BY <2>3, <1>1, <1>2 DEF CurrInv
  <2>4. \A i \in Range(list) : text[i] \in Nat \ {0} BY NextInList
  <2>5. head # Nil => head \in Range(list) /\ text[head] > 0 BY <2>4, HeadOfList
  <2>6. \A i \in Range(list) : head # Nil /\ text[head] <= text[i] BY HeadOfList
  <2>. QED BY <1>1, <2>1, <2>2, <2>3, <2>5, <2>6
<1>3. CASE curr[p].item # Nil /\ time[curr[p].item] = curr[p].time
  <2>1. CurrMsg(p) = next[curr[p].item] /\ curr[p].item \in Items BY <1>1, <1>3 DEF CurrMsg
  <2>2. next[curr[p].item] \in Items \cup {Nil} BY <1>1, <2>1
  <2>3. next[curr[p].item] # Nil => time[next[curr[p].item]] > 0 BY <1>1, <2>1 DEF Used
  <2>4. ASSUME p \notin stale
        PROVE  /\ CurrMsg(p) # Nil => CurrMsg(p) \in Range(list) /\ text[CurrMsg(p)] > shown[p]
               /\ \A i \in Range(list) :
                    text[i] > shown[p] => CurrMsg(p) # Nil /\ text[CurrMsg(p)] <= text[i]
    <3>1. curr[p].item \in Range(list) /\ text[curr[p].item] = shown[p]
      BY <2>4, <1>1, <1>3 DEF CurrInv
    <3>2. \/ CurrMsg(p) = Nil /\ \A j \in Range(list) : text[j] <= shown[p]
          \/ CurrMsg(p) \in Range(list) /\ text[CurrMsg(p)] = shown[p] + 1
      BY <2>1, <3>1, NextInList
    <3>3. \A i \in Range(list) : text[i] \in Nat /\ i \in Items BY NextInList
    <3>4. CASE CurrMsg(p) = Nil /\ \A j \in Range(list) : text[j] <= shown[p]
      BY <3>3, <3>4, <1>1
    <3>5. CASE CurrMsg(p) \in Range(list) /\ text[CurrMsg(p)] = shown[p] + 1
      BY <3>3, <3>5, <1>1, ItemsFacts
    <3>. QED BY <3>2, <3>4, <3>5
  <2>. QED BY <2>1, <2>2, <2>3, <2>4
<1>. QED BY <1>2, <1>3

LEMMA PullLockInv == ASSUME ChannelInv, NEW p \in Readers, PullLock(p) PROVE ChannelInv'
<1>1. /\ UNCHANGED <<links, texts, writer, curr, shown, now, list, stale>>
      /\ writer.at = "unlocked"
      /\ reader' = [reader EXCEPT ![p] = [in |-> TRUE, msg |-> CurrMsg(p), left |-> Looks, now |-> now]]
      /\ answer' = [answer EXCEPT ![p] = [msgs |-> <<>>, after |-> shown[p], fresh |-> p \notin stale]]
  BY DEF PullLock
<1>2. ChatTypeOK BY DEF ChannelInv
<1>3. /\ reader'[p] = [in |-> TRUE, msg |-> CurrMsg(p), left |-> Looks, now |-> now]
      /\ answer'[p] = [msgs |-> <<>>, after |-> shown[p], fresh |-> p \notin stale]
      /\ \A q \in Readers \ {p} : reader'[q] = reader[q] /\ answer'[q] = answer[q]
  BY <1>1, <1>2 DEF ChatTypeOK
<1>4. /\ list' = list /\ text' = text /\ time' = time /\ free' = free /\ next' = next
      /\ curr' = curr /\ shown' = shown /\ stale' = stale
  BY <1>1 DEF links, texts
<1>5. reader' \in [Readers -> [in : BOOLEAN, msg : Items \cup {Nil}, left : Nat, now : Nat]]
  <2>1. Looks \in Nat BY <1>2, LimitAssumption DEF Looks, ChatTypeOK
  <2>2. [in |-> TRUE, msg |-> CurrMsg(p), left |-> Looks, now |-> now]
          \in [in : BOOLEAN, msg : Items \cup {Nil}, left : Nat, now : Nat]
    BY <2>1, <1>2, CurrMsgIs DEF ChatTypeOK
  <2>3. reader \in [Readers -> [in : BOOLEAN, msg : Items \cup {Nil}, left : Nat, now : Nat]]
    BY <1>2 DEF ChatTypeOK
  <2>. QED BY <1>1, <2>2, <2>3
<1>6. answer' \in [Readers -> [msgs : Seq(Nat), after : Nat, fresh : BOOLEAN]]
  <2>1. [msgs |-> <<>>, after |-> shown[p], fresh |-> p \notin stale]
          \in [msgs : Seq(Nat), after : Nat, fresh : BOOLEAN]
    <3>1. shown[p] \in Nat /\ (p \notin stale) \in BOOLEAN BY <1>2 DEF ChatTypeOK
    <3>2. <<>> \in Seq(Nat) OBVIOUS
    <3>. QED BY <3>1, <3>2
  <2>2. answer \in [Readers -> [msgs : Seq(Nat), after : Nat, fresh : BOOLEAN]] BY <1>2 DEF ChatTypeOK
  <2>. QED BY <1>1, <2>1, <2>2
<1>7. ChatTypeOK' BY <1>1, <1>2, <1>5, <1>6 DEF ChatTypeOK, links, texts
<1>8. Used' /\ CurrInv' BY <1>4 DEF ChannelInv, Used, CurrInv
<1>9. InOrder(p)'
  <2>1. answer'[p].msgs = <<>> BY <1>3
  <2>. QED BY <2>1 DEF InOrder
<1>10. CursorAt(p)'
  <2>1. reader'[p].msg = CurrMsg(p) /\ reader'[p].now = now /\ answer'[p].msgs = <<>> BY <1>3
  <2>2. \A k \in DOMAIN free : Spent(free[k], now) BY <1>1 DEF ChannelInv, PoolInv
  <2>. QED BY <2>1, <2>2, <1>4, CurrMsgIs DEF CursorAt, Spent
<1>11. ASSUME p \notin stale PROVE AheadAt(p)'
  <2>1. reader'[p].msg = CurrMsg(p) /\ answer'[p].msgs = <<>> /\ answer'[p].after = shown[p] BY <1>3
  <2>2. Range(answer'[p].msgs) = {} BY <2>1 DEF Range
  <2>. QED BY <2>1, <2>2, <1>4, <1>11, CurrMsgIs DEF AheadAt
<1>12. answer'[p].fresh = (p \notin stale) BY <1>3
<1>13. (answer[p].fresh => AheadAt(p))' BY <1>11, <1>12
<1>. QED BY <1>1, <1>3, <1>7, <1>8, <1>9, <1>10, <1>13, PullStep

\* Where a pull goes on after the item it is at.
LEMMA Onward ==
  ASSUME ChannelInv, NEW p \in Readers, Looking(p), NEW i, i = reader[p].msg
  PROVE  /\ i \in Items /\ next[i] \in Items \cup {Nil}
         /\ next[i] # Nil => time[next[i]] > 0
         /\ i \in Range(list) =>
              /\ next[i] # Nil => next[i] \in Range(list) /\ text[next[i]] > text[i]
              /\ \A j \in Range(list) \ {i} :
                   text[i] <= text[j] => next[i] # Nil /\ text[next[i]] <= text[j]
<1>1. i \in Items /\ next[i] \in Items \cup {Nil} BY DEF ChannelInv, ChatTypeOK, Looking
<1>2. next[i] # Nil => time[next[i]] > 0 BY <1>1 DEF ChannelInv, Used
<1>3. ASSUME i \in Range(list)
      PROVE  /\ next[i] # Nil => next[i] \in Range(list) /\ text[next[i]] > text[i]
             /\ \A j \in Range(list) \ {i} :
                  text[i] <= text[j] => next[i] # Nil /\ text[next[i]] <= text[j]
  <2>1. \/ next[i] = Nil /\ \A j \in Range(list) : text[j] <= text[i]
        \/ next[i] \in Range(list) /\ text[next[i]] = text[i] + 1
    BY <1>3, NextInList
  <2>2. \A j \in Range(list) : text[j] \in Nat /\ (text[j] = text[i] => j = i)
    BY <1>3, NextInList
  <2>3. next[i] \in Range(list) => next[i] # Nil BY NextInList, ItemsFacts
  <2>. QED BY <2>1, <2>2, <2>3, <1>3
<1>. QED BY <1>1, <1>2, <1>3

\* The item a pull leaves behind.
LEMMA Moves ==
  ASSUME ChannelInv, NEW p \in Readers, Looking(p),
         reader' = [reader EXCEPT ![p].msg = next[reader[p].msg], ![p].left = @ - 1]
  PROVE  /\ reader'[p].in /\ reader'[p].msg = next[reader[p].msg] /\ reader'[p].now = reader[p].now
         /\ \A q \in Readers \ {p} : reader'[q] = reader[q]
         /\ reader' \in [Readers -> [in : BOOLEAN, msg : Items \cup {Nil}, left : Nat, now : Nat]]
         /\ writer.at = "unlocked"
<1>1. /\ reader \in [Readers -> [in : BOOLEAN, msg : Items \cup {Nil}, left : Nat, now : Nat]]
      /\ reader[p].in /\ reader[p].left > 0
  BY DEF ChannelInv, ChatTypeOK, Looking
<1>2. next[reader[p].msg] \in Items \cup {Nil} BY Onward
<1>3. reader[p].left - 1 \in Nat BY <1>1
<1>4. writer.at = "unlocked" BY <1>1, HasLock
<1>5. reader'[p].in /\ reader'[p].msg = next[reader[p].msg] /\ reader'[p].now = reader[p].now
      /\ reader'[p].left = reader[p].left - 1
  BY <1>1
<1>6. \A q \in Readers \ {p} : reader'[q] = reader[q] BY <1>1
<1>7. reader' \in [Readers -> [in : BOOLEAN, msg : Items \cup {Nil}, left : Nat, now : Nat]]
  BY <1>1, <1>2, <1>3
<1>. QED BY <1>4, <1>5, <1>6, <1>7

LEMMA SkipInv == ASSUME ChannelInv, NEW p \in Readers, Skip(p) PROVE ChannelInv'
<1>. DEFINE i == reader[p].msg
<1>1. /\ UNCHANGED <<links, texts, writer, curr, shown, answer, now, list, stale>>
      /\ reader' = [reader EXCEPT ![p].msg = next[i], ![p].left = @ - 1]
      /\ Looking(p) /\ Expired(p, i) /\ reader[p].in /\ i # Nil
  <2>1. reader' = [reader EXCEPT ![p].msg = next[i], ![p].left = @ - 1] BY DEF Skip
  <2>. QED BY <2>1 DEF Skip, Looking
<1>2. /\ reader'[p].in /\ reader'[p].msg = next[i] /\ reader'[p].now = reader[p].now
      /\ \A q \in Readers \ {p} : reader'[q] = reader[q]
      /\ reader' \in [Readers -> [in : BOOLEAN, msg : Items \cup {Nil}, left : Nat, now : Nat]]
      /\ writer.at = "unlocked"
  BY <1>1, Moves
<1>3. /\ list' = list /\ text' = text /\ time' = time /\ free' = free /\ next' = next
      /\ curr' = curr /\ shown' = shown /\ stale' = stale /\ answer' = answer
  BY <1>1 DEF links, texts
<1>4. ChatTypeOK'
  <2>1. ChatTypeOK BY DEF ChannelInv
  <2>. QED BY <2>1, <1>1, <1>2 DEF ChatTypeOK, links, texts
<1>5. Used' /\ CurrInv' BY <1>3 DEF ChannelInv, Used, CurrInv
<1>6. InOrder(p) /\ CursorAt(p) /\ (answer[p].fresh => AheadAt(p))
  BY <1>1 DEF ChannelInv, AnswersInOrder, ReadersInv
<1>7. InOrder(p)' BY <1>3, <1>6 DEF InOrder
<1>8. /\ i \in Items
      /\ next[i] # Nil => time[next[i]] > 0
      /\ i \in Range(list) =>
           /\ next[i] # Nil => next[i] \in Range(list) /\ text[next[i]] > text[i]
           /\ \A j \in Range(list) \ {i} :
                text[i] <= text[j] => next[i] # Nil /\ text[next[i]] <= text[j]
  BY <1>1, Onward
<1>9. answer[p].msgs \in Seq(Nat) /\ (\A j \in Range(list) : text[j] \in Nat) /\ answer[p].after \in Nat
  BY NextInList DEF ChannelInv, ChatTypeOK
<1>10. CursorAt(p)'
  <2>1. \A k \in DOMAIN free : Spent(free[k], reader[p].now) BY <1>6 DEF CursorAt
  <2>2. ASSUME next[i] \in Range(list)
        PROVE  \A k \in DOMAIN answer[p].msgs : answer[p].msgs[k] < text[next[i]]
    <3>1. CASE i \in Range(list)
      <4>1. \A k \in DOMAIN answer[p].msgs : answer[p].msgs[k] < text[i] BY <3>1, <1>6 DEF CursorAt
      <4>2. \A k \in DOMAIN answer[p].msgs : answer[p].msgs[k] \in Nat BY <1>9
      <4>3. next[i] # Nil BY <2>2, NextInList, ItemsFacts
      <4>. QED BY <3>1, <4>1, <4>2, <4>3, <1>8, <1>9
    <3>2. CASE i \notin Range(list)
      <4>1. answer[p].msgs = <<>> BY <3>2, <1>1, <1>6 DEF CursorAt
      <4>. QED BY <4>1
    <3>. QED BY <3>1, <3>2
  <2>3. next[i] # Nil /\ next[i] \notin Range(list) => answer[p].msgs = <<>>
    BY <1>1, <1>6, <1>8 DEF CursorAt
  <2>. QED BY <2>1, <2>2, <2>3, <1>2, <1>3, <1>8 DEF CursorAt, Spent
<1>11. ASSUME answer[p].fresh PROVE AheadAt(p)'
  <2>1. AheadAt(p) /\ i \in Range(list) /\ text[i] > answer[p].after
    BY <1>1, <1>6, <1>11 DEF AheadAt
  <2>2. next[i] # Nil => next[i] \in Range(list) /\ text[next[i]] > answer[p].after
    <3>1. next[i] # Nil => next[i] \in Range(list) /\ text[next[i]] > text[i] BY <2>1, <1>8
    <3>. QED BY <2>1, <3>1, <1>9
  <2>3. ASSUME NEW j \in Range(list), ~Expired(p, j), text[j] > answer[p].after
        PROVE  \/ text[j] \in Range(answer[p].msgs)
               \/ next[i] # Nil /\ text[next[i]] <= text[j]
    <3>1. j # i BY <1>1, <2>3
    <3>2. text[j] \in Range(answer[p].msgs) \/ text[i] <= text[j] BY <2>1, <2>3 DEF AheadAt
    <3>. QED BY <2>1, <2>3, <3>1, <3>2, <1>8
  <2>4. \A j : Expired(p, j)' <=> Expired(p, j) BY <1>2, <1>3 DEF Expired
  <2>5. \A m \in Range(answer[p].msgs) : m > answer[p].after BY <2>1 DEF AheadAt
  <2>. QED BY <2>2, <2>3, <2>4, <2>5, <1>2, <1>3 DEF AheadAt
<1>12. (answer[p].fresh => AheadAt(p))' BY <1>3, <1>11
<1>. QED BY <1>1, <1>2, <1>3, <1>4, <1>5, <1>7, <1>10, <1>12, PullStep

LEMMA ShowInv == ASSUME ChannelInv, NEW p \in Readers, Show(p) PROVE ChannelInv'
<1>. DEFINE i == reader[p].msg
            new == Append(answer[p].msgs, text[i])
<1>1. /\ UNCHANGED <<links, texts, writer, now, list>>
      /\ reader' = [reader EXCEPT ![p].msg = next[i], ![p].left = @ - 1]
      /\ answer' = [answer EXCEPT ![p].msgs = new]
      /\ curr' = [curr EXCEPT ![p] = [item |-> i, time |-> time[i]]]
      /\ shown' = [shown EXCEPT ![p] = text[i]]
      /\ stale' = stale \ {p}
      /\ Looking(p) /\ ~Expired(p, i) /\ reader[p].in /\ i # Nil
  BY DEF Show, Looking
<1>2. /\ reader'[p].in /\ reader'[p].msg = next[i] /\ reader'[p].now = reader[p].now
      /\ \A q \in Readers \ {p} : reader'[q] = reader[q]
      /\ reader' \in [Readers -> [in : BOOLEAN, msg : Items \cup {Nil}, left : Nat, now : Nat]]
      /\ writer.at = "unlocked"
  BY <1>1, Moves
<1>3. list' = list /\ text' = text /\ time' = time /\ free' = free /\ next' = next
  BY <1>1 DEF links, texts
<1>4. i \in Range(list) BY <1>1, LivesInList
<1>5. /\ answer \in [Readers -> [msgs : Seq(Nat), after : Nat, fresh : BOOLEAN]]
      /\ answer[p].msgs \in Seq(Nat) /\ answer[p].after \in Nat
      /\ time \in [Items -> Nat] /\ i \in Items /\ text[i] \in Nat /\ time[i] > 0
  <2>1. time[i] > 0 BY <1>1 DEF ChannelInv, ReadersInv, CursorAt
  <2>2. ChatTypeOK BY DEF ChannelInv
  <2>. QED BY <2>1, <2>2, <1>4, NextInList DEF ChatTypeOK
<1>6. /\ new \in Seq(Nat) /\ Len(new) = Len(answer[p].msgs) + 1 /\ new[Len(new)] = text[i]
      /\ \A k \in 1..Len(answer[p].msgs) : new[k] = answer[p].msgs[k]
      /\ DOMAIN new = 1..Len(new) /\ DOMAIN answer[p].msgs = 1..Len(answer[p].msgs)
      /\ Len(answer[p].msgs) \in Nat
      /\ \A k \in 1..Len(answer[p].msgs) : answer[p].msgs[k] \in Nat
  <2>1. /\ new \in Seq(Nat) /\ Len(new) = Len(answer[p].msgs) + 1
        /\ new[Len(answer[p].msgs) + 1] = text[i]
        /\ \A k \in 1..Len(answer[p].msgs) : new[k] = answer[p].msgs[k]
    BY <1>5, AppendProperties
  <2>2. DOMAIN new = 1..Len(new) BY <2>1, LenProperties
  <2>3. DOMAIN answer[p].msgs = 1..Len(answer[p].msgs) /\ Len(answer[p].msgs) \in Nat
    BY <1>5, LenProperties
  <2>4. \A k \in 1..Len(answer[p].msgs) : answer[p].msgs[k] \in Nat BY <1>5, ElementOfSeq
  <2>. QED BY <2>1, <2>2, <2>3, <2>4
<1>. HIDE DEF new
<1>7. /\ answer'[p].msgs = new /\ answer'[p].after = answer[p].after /\ answer'[p].fresh = answer[p].fresh
      /\ \A q \in Readers \ {p} : answer'[q] = answer[q]
      /\ answer' \in [Readers -> [msgs : Seq(Nat), after : Nat, fresh : BOOLEAN]]
  BY <1>1, <1>5, <1>6
<1>8. InOrder(p) /\ CursorAt(p) /\ (answer[p].fresh => AheadAt(p))
  BY <1>1 DEF ChannelInv, AnswersInOrder, ReadersInv
<1>9. ChatTypeOK'
  <2>1. ChatTypeOK BY DEF ChannelInv
  <2>2. curr' \in [Readers -> [item : Items \cup {Nil}, time : Nat]] BY <2>1, <1>1, <1>5 DEF ChatTypeOK
  <2>3. shown' \in [Readers -> Nat] BY <2>1, <1>1, <1>5 DEF ChatTypeOK
  <2>4. stale' \subseteq Readers BY <2>1, <1>1 DEF ChatTypeOK
  <2>. QED BY <2>1, <2>2, <2>3, <2>4, <1>1, <1>2, <1>7 DEF ChatTypeOK, links, texts
<1>10. /\ curr'[p] = [item |-> i, time |-> time[i]] /\ shown'[p] = text[i]
       /\ \A q \in Readers \ {p} : curr'[q] = curr[q] /\ shown'[q] = shown[q]
  BY <1>1 DEF ChannelInv, ChatTypeOK
<1>11. Used'
  <2>1. ASSUME NEW q \in Readers, curr'[q].item # Nil PROVE time[curr'[q].item] > 0
    <3>1. CASE q = p BY <3>1, <1>5, <1>10
    <3>2. CASE q # p BY <3>2, <2>1, <1>10 DEF ChannelInv, Used
    <3>. QED BY <3>1, <3>2
  <2>. QED BY <2>1, <1>3 DEF ChannelInv, Used
<1>12. CurrInv'
  <2>1. ASSUME NEW q \in Readers
        PROVE  /\ curr'[q].item = Nil => shown'[q] = 0
               /\ curr'[q].item # Nil /\ q \notin stale' =>
                    /\ curr'[q].item \in Range(list)
                    /\ time[curr'[q].item] = curr'[q].time /\ text[curr'[q].item] = shown'[q]
    <3>1. CASE q = p BY <3>1, <1>1, <1>4, <1>10
    <3>2. CASE q # p BY <3>2, <1>1, <1>10 DEF ChannelInv, CurrInv
    <3>. QED BY <3>1, <3>2
  <2>. QED BY <2>1, <1>3 DEF CurrInv
<1>13. \A k \in 1..Len(answer[p].msgs) : answer[p].msgs[k] < text[i]
  BY <1>4, <1>6, <1>8 DEF CursorAt
<1>14. InOrder(p)'
  <2>1. ASSUME NEW j \in DOMAIN new, NEW k \in DOMAIN new, j < k PROVE new[j] < new[k]
    <3>1. j \in 1..Len(answer[p].msgs) BY <2>1, <1>6
    <3>2. CASE k = Len(new) BY <3>1, <3>2, <1>6, <1>13
    <3>3. CASE k # Len(new)
      <4>1. k \in 1..Len(answer[p].msgs) BY <3>3, <1>6
      <4>2. answer[p].msgs[j] < answer[p].msgs[k] BY <2>1, <3>1, <4>1, <1>6, <1>8 DEF InOrder
      <4>. QED BY <3>1, <4>1, <4>2, <1>6
    <3>. QED BY <3>2, <3>3
  <2>2. ASSUME NEW k \in DOMAIN new PROVE \E j \in Range(list) : text[j] = new[k]
    <3>1. CASE k = Len(new) BY <3>1, <1>4, <1>6
    <3>2. CASE k # Len(new)
      <4>1. k \in 1..Len(answer[p].msgs) BY <3>2, <1>6
      <4>2. \E j \in Range(list) : text[j] = answer[p].msgs[k] BY <4>1, <1>6, <1>8 DEF InOrder
      <4>. QED BY <4>1, <4>2, <1>6
    <3>. QED BY <3>1, <3>2
  <2>. QED BY <2>1, <2>2, <1>3, <1>7 DEF InOrder
<1>15. /\ next[i] # Nil => time[next[i]] > 0
       /\ next[i] # Nil => next[i] \in Range(list) /\ text[next[i]] > text[i]
       /\ \A j \in Range(list) \ {i} :
            text[i] <= text[j] => next[i] # Nil /\ text[next[i]] <= text[j]
  BY <1>1, <1>4, Onward
<1>16. (\A j \in Range(list) : text[j] \in Nat) /\ Nil \notin Range(list)
  BY NextInList, ItemsFacts
<1>17. CursorAt(p)'
  <2>1. \A k \in DOMAIN free : Spent(free[k], reader[p].now) BY <1>8 DEF CursorAt
  <2>2. ASSUME next[i] \in Range(list), NEW k \in DOMAIN new PROVE new[k] < text[next[i]]
    <3>1. text[next[i]] > text[i] /\ text[next[i]] \in Nat BY <2>2, <1>15, <1>16
    <3>2. CASE k = Len(new) BY <3>1, <3>2, <1>5, <1>6
    <3>3. CASE k # Len(new)
      <4>1. k \in 1..Len(answer[p].msgs) BY <3>3, <1>6
      <4>2. new[k] = answer[p].msgs[k] /\ new[k] \in Nat /\ new[k] < text[i] BY <4>1, <1>6, <1>13
      <4>. QED BY <3>1, <4>2, <1>5
    <3>. QED BY <3>2, <3>3
  <2>. QED BY <2>1, <2>2, <1>2, <1>3, <1>7, <1>15 DEF CursorAt, Spent
<1>18. Range(new) = Range(answer[p].msgs) \cup {text[i]}
  <2>1. \A m : m \in Range(new) <=> \E k \in 1..Len(new) : new[k] = m BY <1>6 DEF Range
  <2>2. \A m : m \in Range(answer[p].msgs) <=> \E k \in 1..Len(answer[p].msgs) : answer[p].msgs[k] = m
    BY <1>6 DEF Range
  <2>3. \A k \in 1..Len(new) : k \in 1..Len(answer[p].msgs) \/ k = Len(new) BY <1>6
  <2>4. Len(new) \in 1..Len(new) /\ \A k \in 1..Len(answer[p].msgs) : k \in 1..Len(new) BY <1>6
  <2>5. ASSUME NEW m \in Range(new) PROVE m \in Range(answer[p].msgs) \/ m = text[i]
    <3>1. PICK k \in 1..Len(new) : new[k] = m BY <2>1
    <3>. QED BY <3>1, <2>2, <2>3, <1>6
  <2>6. ASSUME NEW m \in Range(answer[p].msgs) PROVE m \in Range(new)
    <3>1. PICK k \in 1..Len(answer[p].msgs) : answer[p].msgs[k] = m BY <2>2
    <3>2. k \in 1..Len(new) /\ new[k] = m BY <3>1, <2>4, <1>6
    <3>. QED BY <3>2, <2>1
  <2>7. text[i] \in Range(new) BY <2>1, <2>4, <1>6
  <2>. QED BY <2>5, <2>6, <2>7
<1>19. ASSUME answer[p].fresh PROVE AheadAt(p)'
  <2>1. AheadAt(p) /\ text[i] > answer[p].after BY <1>1, <1>8, <1>19 DEF AheadAt
  <2>2. next[i] # Nil => next[i] \in Range(list) /\ text[next[i]] > answer[p].after
    <3>1. text[next[i]] > text[i] /\ text[next[i]] \in Nat => text[next[i]] > answer[p].after
      BY <2>1, <1>5
    <3>. QED BY <3>1, <1>15, <1>16
  <2>3. ASSUME NEW j \in Range(list), ~Expired(p, j), text[j] > answer[p].after
        PROVE  \/ text[j] \in Range(new)
               \/ next[i] # Nil /\ text[next[i]] <= text[j]
    <3>1. text[j] \in Range(answer[p].msgs) \/ text[i] <= text[j] BY <2>1, <2>3, <1>1 DEF AheadAt
    <3>2. CASE j = i BY <3>2, <1>18
    <3>3. CASE j # i BY <2>3, <3>1, <3>3, <1>15, <1>18
    <3>. QED BY <3>2, <3>3
  <2>4. \A j : Expired(p, j)' <=> Expired(p, j) BY <1>2, <1>3 DEF Expired
  <2>5. \A m \in Range(new) : m > answer[p].after BY <2>1, <1>18 DEF AheadAt
  <2>. QED BY <2>2, <2>3, <2>4, <2>5, <1>2, <1>3, <1>7 DEF AheadAt
<1>20. (answer[p].fresh => AheadAt(p))' BY <1>7, <1>19
<1>. QED BY <1>1, <1>2, <1>7, <1>9, <1>11, <1>12, <1>14, <1>17, <1>20, PullStep

LEMMA UnlockInv == ASSUME ChannelInv, NEW p \in Readers, PullUnlock(p) PROVE ChannelInv'
<1>1. /\ UNCHANGED <<links, texts, writer, curr, shown, answer, now, list, stale>>
      /\ reader' = [reader EXCEPT ![p].in = FALSE] /\ reader[p].in
  BY DEF PullUnlock, Answered
<1>2. ChatTypeOK BY DEF ChannelInv
<1>3. /\ ~reader'[p].in
      /\ \A q \in Readers \ {p} : reader'[q] = reader[q]
      /\ reader' \in [Readers -> [in : BOOLEAN, msg : Items \cup {Nil}, left : Nat, now : Nat]]
  <2>1. reader \in [Readers -> [in : BOOLEAN, msg : Items \cup {Nil}, left : Nat, now : Nat]]
    BY <1>2 DEF ChatTypeOK
  <2>2. ~reader'[p].in BY <1>1, <2>1
  <2>3. \A q \in Readers \ {p} : reader'[q] = reader[q] BY <1>1, <2>1
  <2>4. reader' \in [Readers -> [in : BOOLEAN, msg : Items \cup {Nil}, left : Nat, now : Nat]]
    BY <1>1, <2>1
  <2>. QED BY <2>2, <2>3, <2>4
<1>4. ChatTypeOK' BY <1>1, <1>2, <1>3 DEF ChatTypeOK, links, texts
<1>5. Used' /\ CurrInv' BY <1>1 DEF ChannelInv, Used, CurrInv, links, texts
<1>6. writer.at = "unlocked" BY <1>1, HasLock
<1>. QED BY <1>1, <1>3, <1>4, <1>5, <1>6, PullStep

-----------------------------------------------------------------------------
(* The invariant, and what follows                                         *)

LEMMA ChannelInit == ChatInit => ChannelInv
<1>. SUFFICES ASSUME ChatInit PROVE ChannelInv OBVIOUS
<1>1. free = [i \in Items |-> i] /\ Items = 1..PoolSize /\ PoolSize \in Nat
  BY ItemsFacts DEF ChatInit, Items
<1>2. free \in Seq(Items) /\ Len(free) = PoolSize /\ DOMAIN free = Items
  <2>1. free = [i \in 1..PoolSize |-> i] BY <1>1
  <2>2. \A i \in 1..PoolSize : i \in Items BY <1>1
  <2>. QED BY <1>1, <2>1, <2>2
<1>3. list = <<>> /\ <<>> \in Seq(Items) /\ <<>> \in Seq(Nat) /\ Len(<<>>) = 0 /\ DOMAIN list = {}
      /\ Range(list) = {}
  BY DEF ChatInit, Range
<1>4. ChatTypeOK BY <1>2, <1>3, ItemsFacts DEF ChatInit, ChatTypeOK, Nil
<1>5. Linked BY <1>3 DEF ChatInit, Linked
<1>6. Shared
  <2>1. \A i \in Items : i \in Range(free) BY <1>1, <1>2 DEF Range
  <2>. QED BY <2>1, <1>1, <1>2, <1>3 DEF Shared
<1>7. Numbered BY <1>3 DEF ChatInit, Numbered
<1>8. PoolInv BY <1>1, <1>2 DEF ChatInit, PoolInv, Spent
<1>9. Used /\ CurrInv BY DEF ChatInit, Used, CurrInv
<1>10. WriterInv BY DEF ChatInit, WriterInv
<1>11. ReadersInv /\ AnswersInOrder BY DEF ChatInit, ReadersInv, AnswersInOrder
<1>. QED BY <1>4, <1>5, <1>6, <1>7, <1>8, <1>9, <1>10, <1>11 DEF ChannelInv, ListAndPool

LEMMA ChannelNext == ChannelInv /\ [ChatNext]_chatVars => ChannelInv'
<1>. SUFFICES ASSUME ChannelInv, [ChatNext]_chatVars PROVE ChannelInv' OBVIOUS
<1>1. CASE Push BY <1>1, LockInv, RecycleInv, PassInv, RoomInv, AddInv DEF Push
<1>2. CASE Tick BY <1>2, TickInv
<1>3. CASE \E p \in Readers : PullLock(p) \/ Skip(p) \/ Show(p) \/ PullUnlock(p)
  BY <1>3, PullLockInv, SkipInv, ShowInv, UnlockInv
<1>4. CASE UNCHANGED chatVars
  BY <1>4 DEF chatVars, links, texts, pulls, ChannelInv, ChatTypeOK, ListAndPool, Linked, Shared,
              Numbered, PoolInv, Spent, Used, WriterInv, CurrInv, ReadersInv, CursorAt, AheadAt,
              Expired, AnswersInOrder, InOrder
<1>. QED BY <1>1, <1>2, <1>3, <1>4 DEF ChatNext

LEMMA ChannelAlways == ChatSpec => []ChannelInv
<1>. QED BY ChannelInit, ChannelNext, PTL DEF ChatSpec

\* Whatever expires and whatever makes room, the items are in the list or in the pool
\* and the list is linked from the oldest message to the last (recycle_old,
\* push_chat_msg).
THEOREM ListStaysWhole == ChatSpec => []ListAndPool
<1>1. ChannelInv => ListAndPool BY DEF ChannelInv
<1>. QED BY <1>1, ChannelAlways, PTL

\* A pull answers messages of the channel in the order of the pushes, though the item
\* it begins after may be in the pool, or hold another message (pull_chat).
THEOREM PullIsInOrder == ChatSpec => []AnswersInOrder
<1>1. ChannelInv => AnswersInOrder BY DEF ChannelInv
<1>. QED BY <1>1, ChannelAlways, PTL

\* As long as his item is not recycled a player misses no message that lives and sees
\* none again (get_curr_msg, pull_chat).
THEOREM NothingIsMissed == ChatSpec => []ReadsOn
<1>1. ASSUME ChannelInv PROVE ReadsOn
  <2>1. SUFFICES ASSUME NEW p \in Readers, Answered(p), answer[p].fresh
                 PROVE  /\ \A m \in Range(answer[p].msgs) : m > answer[p].after
                        /\ \/ reader[p].left = 0
                           \/ \A i \in Range(list) :
                                ~Expired(p, i) /\ text[i] > answer[p].after
                                  => text[i] \in Range(answer[p].msgs)
    BY DEF ReadsOn
  <2>2. AheadAt(p) BY <1>1, <2>1 DEF Answered, ChannelInv, ReadersInv
  <2>3. reader[p].left \in Nat BY <1>1 DEF ChannelInv, ChatTypeOK
  <2>4. reader[p].msg = Nil \/ reader[p].left = 0 BY <2>1, <2>3 DEF Answered, Looking
  <2>. QED BY <2>2, <2>4 DEF AheadAt
<1>. QED BY <1>1, ChannelAlways, PTL
=============================================================================
