--------------------------- MODULE SessionProofs ---------------------------
(***************************************************************************)
(* What Session promises for any number of players, requests and messages. *)
(***************************************************************************)
EXTENDS Session, TLAPS, SequenceTheorems

LEMMA InitType == Init => TypeOK
<1>. SUFFICES ASSUME Init PROVE TypeOK OBVIOUS
<1>. USE DEF Init
<1>1. isLock \in [Players -> {0, 1}] /\ isLogin \in [Players -> {0, 1}] OBVIOUS
<1>2. token \in [Players -> Nat] /\ sessions \in [Players -> Nat] /\ notices \in [Players -> Nat]
  OBVIOUS
<1>3. banned \in [Players -> BOOLEAN] OBVIOUS
<1>4. pc \in [Requests -> PCs] BY DEF PCs
<1>5. who \in [Requests -> Players \cup {Nobody}] OBVIOUS
<1>6. left \in [Requests -> 0..MaxMsgs] BY BoundsAssumption
<1>7. ops \in Seq(Ops) /\ Len(ops) <= OpCap BY BoundsAssumption
<1>8. gm \in Bans BY DEF NoBan, Bans
<1>9. bans \in 0..MaxBans BY BoundsAssumption
<1>10. \A r \in Requests : pc[r] \in Locked \cup Entering => who[r] # Nobody
  BY DEF Locked, Handlers, Entering
<1>. QED BY <1>1, <1>2, <1>3, <1>4, <1>5, <1>6, <1>7, <1>8, <1>9, <1>10 DEF TypeOK

-----------------------------------------------------------------------------
(* Type correctness, in parts: the places of requests, the flags, op_chan, *)
(* the game master's command.                                              *)

Places ==
  /\ pc   \in [Requests -> PCs]
  /\ who  \in [Requests -> Players \cup {Nobody}]
  /\ left \in [Requests -> 0..MaxMsgs]
  /\ \A r \in Requests : pc[r] \in Locked \cup Entering => who[r] # Nobody

Flags ==
  /\ isLock   \in [Players -> {0, 1}]
  /\ isLogin  \in [Players -> {0, 1}]
  /\ sessions \in [Players -> Nat]
  /\ notices  \in [Players -> Nat]

Timers ==
  /\ ops \in Seq(Ops) /\ Len(ops) <= OpCap
  /\ watched  \in SUBSET Players
  /\ expiring \in Players \cup {Nobody}

LEMMA GotoPlaces ==
  ASSUME Places, NEW r \in Requests, NEW place \in PCs, Goto(r, place), UNCHANGED <<who, left>>,
         place \in Locked \cup Entering => who[r] # Nobody
  PROVE  Places'
BY DEF Places, Goto

LEMMA NextMsgPlaces ==
  ASSUME Places, NEW r \in Requests, NEW place \in PCs, NextMsg(r), Goto(r, place), UNCHANGED who,
         place \in Locked \cup Entering => who[r] # Nobody
  PROVE  Places'
BY BoundsAssumption DEF Places, Goto, NextMsg

LEMMA PostTimers ==
  ASSUME Timers, NEW p \in Players, NEW op \in {"insert", "remove"}, Post(op, p)
  PROVE  Timers'
<1>1. [op |-> op, player |-> p] \in Ops BY DEF Ops
<1>2. ops' = Append(ops, [op |-> op, player |-> p]) /\ Len(ops) < OpCap BY DEF Post
<1>3. ops' \in Seq(Ops) /\ Len(ops') = Len(ops) + 1 BY <1>1, <1>2, AppendProperties DEF Timers
<1>4. Len(ops) \in Nat BY LenProperties DEF Timers
<1>5. Len(ops') <= OpCap BY <1>2, <1>3, <1>4, BoundsAssumption
<1>. QED BY <1>3, <1>5 DEF Timers, Post

LEMMA WheelOpTimers == ASSUME Timers, WheelOp PROVE Timers'
<1>1. ops \in Seq(Ops) /\ ops # <<>> BY DEF Timers, WheelOp
<1>2. Head(ops) \in Ops /\ Tail(ops) \in Seq(Ops) /\ Len(Tail(ops)) = Len(ops) - 1
  BY <1>1, HeadTailProperties
<1>3. Len(ops) \in Nat BY <1>1, LenProperties
<1>4. Len(ops') <= OpCap BY <1>2, <1>3, BoundsAssumption DEF Timers, WheelOp
<1>5. watched' \in SUBSET Players BY <1>2 DEF WheelOp, Ops, Timers
<1>. QED BY <1>2, <1>4, <1>5 DEF WheelOp, Timers

LEMMA LogFlags ==
  ASSUME Flags, NEW p \in Players, LogIn(p) \/ LogOut(p), UNCHANGED isLock
  PROVE  Flags'
BY DEF Flags, LogIn, LogOut

Rest ==
  /\ token  \in [Players -> Nat]
  /\ banned \in [Players -> BOOLEAN]
  /\ gm     \in Bans
  /\ bans   \in 0..MaxBans
  /\ tainted \in SUBSET Players /\ dropped \in SUBSET Players /\ raced \in SUBSET Players

LEMMA TypeParts == TypeOK => Places /\ Flags /\ Timers /\ Rest
BY DEF TypeOK, Places, Flags, Timers, Rest

LEMMA TypePartsNext == ASSUME Places', Flags', Timers', Rest' PROVE TypeOK'
BY DEF TypeOK, Places, Flags, Timers, Rest

\* A request leaves the game master's command and the bans alone.
LEMMA RequestRest ==
  ASSUME TypeOK, NEW r \in Requests, RequestStep(r) PROVE Rest'
<1>0. Rest /\ who[r] \in Players \cup {Nobody} BY TypeParts DEF TypeOK
<1>. USE DEF Rest, ban
<1>1. CASE \E p \in Players : \E t \in 0..token[p] : Admit(r, p, t) BY <1>0, <1>1 DEF Admit
<1>2. CASE \E q \in Players : EnterGame(r, q) BY <1>0, <1>2 DEF EnterGame
<1>3. CASE EnterRefused(r) BY <1>0, <1>3 DEF EnterRefused
<1>4. CASE OnLoginUnlock(r)
  <2>1. who[r] \in Players BY <1>4, <1>0 DEF OnLoginUnlock, TypeOK, Entering
  <2>. QED BY <1>0, <1>4, <2>1 DEF OnLoginUnlock
<1>5. CASE OnLoginOnline(r) BY <1>0, <1>5 DEF OnLoginOnline
<1>6. CASE Entered(r) BY <1>0, <1>6 DEF Entered
<1>7. CASE EnterPanic(r)
  <2>1. who[r] \in Players BY <1>7, <1>0 DEF EnterPanic, TypeOK
  <2>. QED BY <1>0, <1>7, <2>1 DEF EnterPanic
<1>8. CASE Lock(r) BY <1>0, <1>8 DEF Lock
<1>9. CASE \E h \in {"plain", "leave", "reconnect"} : Dispatch(r, h) BY <1>0, <1>9 DEF Dispatch
<1>10. CASE Plain(r) \/ LeaveTimer(r) \/ LeaveOffline(r)
  BY <1>0, <1>10 DEF Plain, LeaveTimer, LeaveOffline
<1>11. CASE ReconnectToken(r)
  <2>0. who[r] \in Players BY <1>11, <1>0 DEF ReconnectToken, TypeOK, Locked, Handlers
  <2>1. token' \in [Players -> Nat] BY <1>0, <1>11, <2>0 DEF ReconnectToken
  <2>2. UNCHANGED <<banned, gm, bans, tainted, dropped, raced>> BY <1>11 DEF ReconnectToken
  <2>. QED BY <1>0, <2>1, <2>2
<1>12. CASE ReconnectTimer(r) \/ ReconnectOnline(r)
  BY <1>0, <1>12 DEF ReconnectTimer, ReconnectOnline
<1>13. CASE Unlock(r) \/ Panic(r) BY <1>0, <1>13 DEF Unlock, Panic
<1>14. CASE Close(r) BY <1>0, <1>14 DEF Close
<1>. QED BY <1>1, <1>2, <1>3, <1>4, <1>5, <1>6, <1>7, <1>8, <1>9, <1>10, <1>11, <1>12, <1>13, <1>14
         DEF RequestStep

LEMMA RequestFlags ==
  ASSUME TypeOK, NEW r \in Requests, RequestStep(r) PROVE Flags'
<1>0. Flags BY TypeParts
<1>. USE DEF online
<1>1. ASSUME pc[r] \in Locked \cup Entering PROVE who[r] \in Players BY <1>1 DEF TypeOK
<1>2. CASE UNCHANGED <<isLock, online>> BY <1>0, <1>2 DEF Flags
<1>3. CASE UNCHANGED online /\ \E v \in {0, 1} : isLock' = [isLock EXCEPT ![who[r]] = v]
  BY <1>0, <1>3 DEF Flags
<1>4. CASE who[r] \in Players /\ UNCHANGED isLock /\ (LogIn(who[r]) \/ LogOut(who[r]))
  BY <1>0, <1>4, LogFlags
<1>5. CASE OnLoginOnline(r) BY <1>1, <1>4, <1>5 DEF OnLoginOnline, Entering
<1>6. CASE LeaveOffline(r) BY <1>1, <1>4, <1>6 DEF LeaveOffline, Locked, Handlers
<1>7. CASE ReconnectOnline(r) BY <1>1, <1>4, <1>7 DEF ReconnectOnline, Locked, Handlers
<1>8. CASE OnLoginUnlock(r) \/ Lock(r) \/ Unlock(r) \/ Panic(r)
  BY <1>3, <1>8 DEF OnLoginUnlock, Lock, Unlock, Panic
<1>. QED BY <1>2, <1>5, <1>6, <1>7, <1>8
         DEF RequestStep, Admit, EnterGame, EnterRefused, Entered, EnterPanic, Dispatch, Plain,
             LeaveTimer, ReconnectToken, ReconnectTimer, Close

LEMMA RequestTimers ==
  ASSUME TypeOK, NEW r \in Requests, RequestStep(r) PROVE Timers'
<1>0. Timers BY TypeParts
<1>1. who[r] \in Players \cup {Nobody} BY DEF TypeOK
<1>2. CASE UNCHANGED wheel BY <1>0, <1>2 DEF Timers, wheel
<1>3. CASE who[r] # Nobody /\ (Post("insert", who[r]) \/ Post("remove", who[r]))
  BY <1>0, <1>1, <1>3, PostTimers
<1>4. CASE LeaveTimer(r) \/ ReconnectTimer(r)
  <2>1. who[r] # Nobody BY <1>4 DEF LeaveTimer, ReconnectTimer, TypeOK, Locked, Handlers
  <2>. QED BY <1>3, <1>4, <2>1 DEF LeaveTimer, ReconnectTimer
<1>5. CASE Close(r) BY <1>2, <1>3, <1>5 DEF Close
<1>. QED BY <1>2, <1>4, <1>5
         DEF RequestStep, Admit, EnterGame, EnterRefused, OnLoginUnlock, OnLoginOnline, Entered,
             EnterPanic, Lock, Dispatch, Plain, LeaveOffline, ReconnectToken, ReconnectOnline,
             Unlock, Panic

LEMMA RequestPlaces ==
  ASSUME TypeOK, NEW r \in Requests, RequestStep(r) PROVE Places'
<1>0. Places BY TypeParts
<1>. USE DEF PCs, Locked, Handlers, Entering
<1>1. CASE \E p \in Players : \E t \in 0..token[p] : Admit(r, p, t)
  BY <1>0, <1>1 DEF Admit, Places, Goto
<1>2. CASE \E q \in Players : EnterGame(r, q)
  BY <1>0, <1>2, NobodyAssumption, BoundsAssumption DEF EnterGame, NextMsg, Places, Goto
<1>3. CASE EnterRefused(r)
  BY <1>0, <1>3, BoundsAssumption DEF EnterRefused, NextMsg, Places
<1>4. CASE OnLoginUnlock(r) BY <1>0, <1>4, GotoPlaces DEF OnLoginUnlock, Places
<1>5. CASE OnLoginOnline(r) BY <1>0, <1>5, GotoPlaces DEF OnLoginOnline, Places
<1>6. CASE Entered(r) BY <1>0, <1>6, GotoPlaces DEF Entered
<1>7. CASE EnterPanic(r) BY <1>0, <1>7, GotoPlaces DEF EnterPanic
<1>8. CASE Lock(r) BY <1>0, <1>8, NextMsgPlaces DEF Lock
<1>9. CASE \E h \in {"plain", "leave", "reconnect"} : Dispatch(r, h)
  BY <1>0, <1>9, GotoPlaces DEF Dispatch, Places
<1>10. CASE Plain(r) \/ LeaveTimer(r) \/ LeaveOffline(r)
  BY <1>0, <1>10, GotoPlaces DEF Plain, LeaveTimer, LeaveOffline, Places
<1>11. CASE ReconnectToken(r) \/ ReconnectTimer(r) \/ ReconnectOnline(r)
  BY <1>0, <1>11, GotoPlaces DEF ReconnectToken, ReconnectTimer, ReconnectOnline, Places
<1>12. CASE Unlock(r) \/ Panic(r) BY <1>0, <1>12, GotoPlaces DEF Unlock, Panic
<1>13. CASE Close(r) BY <1>0, <1>13, GotoPlaces DEF Close
<1>. QED BY <1>1, <1>2, <1>3, <1>4, <1>5, <1>6, <1>7, <1>8, <1>9, <1>10, <1>11, <1>12, <1>13
         DEF RequestStep

LEMMA WheelType == ASSUME TypeOK, WheelStep PROVE TypeOK'
<1>0. Places /\ Flags /\ Timers /\ Rest BY TypeParts
<1>. USE DEF request, ban, online
<1>1. CASE WheelOp
  <2>1. Timers' BY <1>0, <1>1, WheelOpTimers
  <2>2. UNCHANGED <<pc, who, left, isLock, isLogin, sessions, notices, token, banned, gm, bans,
                    tainted, dropped, raced>>
    BY <1>1 DEF WheelOp
  <2>. QED BY <1>0, <2>1, <2>2, TypePartsNext DEF Places, Flags, Rest
<1>2. CASE ExpireOffline
  <2>1. expiring \in Players /\ LogOut(expiring) /\ UNCHANGED isLock
    BY <1>0, <1>2 DEF ExpireOffline, Timers
  <2>2. Flags' BY <1>0, <2>1, LogFlags
  <2>3. Timers' BY <1>0, <1>2 DEF ExpireOffline, Timers
  <2>4. UNCHANGED <<pc, who, left, token, banned, gm, bans, tainted, dropped, raced>>
    BY <1>2 DEF ExpireOffline
  <2>. QED BY <1>0, <2>2, <2>3, <2>4, TypePartsNext DEF Places, Rest
<1>3. ASSUME NEW p \in Players, Expire(p) PROVE TypeOK'
  <2>1. Timers' BY <1>0, <1>3 DEF Expire, Timers
  <2>2. UNCHANGED <<pc, who, left, isLock, isLogin, sessions, notices, token, banned, gm, bans,
                    tainted, dropped, raced>>
    BY <1>3 DEF Expire
  <2>. QED BY <1>0, <2>1, <2>2, TypePartsNext DEF Places, Flags, Rest
<1>. QED BY <1>1, <1>2, <1>3 DEF WheelStep

LEMMA GmType ==
  ASSUME TypeOK, gm # NoBan => gm.player \in Players, GmStep
  PROVE  TypeOK' /\ (gm' # NoBan => gm'.player \in Players)
<1>0. Places /\ Flags /\ Timers /\ Rest BY TypeParts
<1>. USE DEF request, online, wheel
<1>1. ASSUME NEW p \in Players, NEW b \in BOOLEAN, GmCommand(p, b)
      PROVE  TypeOK' /\ gm'.player \in Players
  <2>1. Timers' BY <1>0, <1>1, PostTimers DEF GmCommand
  <2>2. gm' \in Bans /\ gm'.player = p BY <1>1 DEF GmCommand, Bans
  <2>3. bans' \in 0..MaxBans BY <1>0, <1>1, BoundsAssumption DEF GmCommand, Rest
  <2>4. UNCHANGED <<pc, who, left, isLock, isLogin, sessions, notices, token, banned, tainted,
                    dropped, raced>>
    BY <1>1 DEF GmCommand
  <2>. QED BY <1>0, <2>1, <2>2, <2>3, <2>4, TypePartsNext DEF Places, Flags, Rest
<1>2. CASE GmOffline
  <2>1. gm # NoBan BY <1>2 DEF GmOffline, NoBan
  <2>2. Flags' BY <1>0, <1>2, <2>1, LogFlags DEF GmOffline
  <2>3. gm' \in Bans /\ gm'.player = gm.player BY <1>0, <1>2 DEF GmOffline, Rest, Bans
  <2>4. UNCHANGED <<pc, who, left, ops, watched, expiring, token, banned, bans, tainted, dropped,
                    raced>>
    BY <1>2 DEF GmOffline
  <2>. QED BY <1>0, <2>1, <2>2, <2>3, <2>4, TypePartsNext DEF Places, Timers, Rest
<1>3. CASE GmRecord
  <2>1. gm # NoBan /\ gm.ban \in BOOLEAN BY <1>0, <1>3 DEF GmRecord, NoBan, Rest, Bans
  <2>2. banned' \in [Players -> BOOLEAN] BY <1>0, <1>3, <2>1 DEF GmRecord, Rest
  <2>3. raced' \in SUBSET Players BY <1>0, <1>3, <2>1 DEF GmRecord, Rest
  <2>4. gm' = NoBan /\ NoBan \in Bans BY <1>3 DEF GmRecord, NoBan, Bans
  <2>5. UNCHANGED <<pc, who, left, ops, watched, expiring, isLock, isLogin, sessions, notices,
                    token, bans, tainted, dropped>>
    BY <1>3 DEF GmRecord
  <2>. QED BY <1>0, <2>2, <2>3, <2>4, <2>5, TypePartsNext DEF Places, Flags, Timers, Rest
<1>. QED BY <1>1, <1>2, <1>3 DEF GmStep

-----------------------------------------------------------------------------
(* The inductive invariant *)

LockInv == HolderHasLock /\ OneHandler /\ LockIsHeld

LEMMA InitInv == Init => IInv
<1>. SUFFICES ASSUME Init PROVE IInv OBVIOUS
<1>1. TypeOK BY InitType
<1>2. \A r \in Requests, p \in Players : ~Holds(r, p)
  BY DEF Init, Holds, Locked, Handlers
<1>3. LockInv BY <1>2 DEF LockInv, HolderHasLock, OneHandler, LockIsHeld, Init
<1>4. NoticePerSession BY DEF Init, NoticePerSession
<1>. QED BY <1>1, <1>3, <1>4 DEF IInv, LockInv, GmNamed, Init

\* A step that neither takes nor gives back a lock.
LEMMA LocksKept ==
  ASSUME LockInv, isLock' = isLock, tainted' = tainted,
         \A r \in Requests, p \in Players : Holds(r, p)' = Holds(r, p)
  PROVE  LockInv'
BY DEF LockInv, HolderHasLock, OneHandler, LockIsHeld

\* A request that moves between two places of the same side of the lock.
LEMMA SameSide ==
  ASSUME TypeOK, NEW r \in Requests, NEW place, Goto(r, place),
         (place \in Locked) = (pc[r] \in Locked), pc[r] \in Locked => who' = who,
         \A s \in Requests \ {r} : who'[s] = who[s]
  PROVE  \A s \in Requests, p \in Players : Holds(s, p)' = Holds(s, p)
<1>1. pc'[r] = place /\ \A s \in Requests \ {r} : pc'[s] = pc[s] BY DEF Goto, TypeOK
<1>. QED BY <1>1 DEF Holds

LEMMA LockLocks == ASSUME TypeOK, LockInv, NEW r \in Requests, Lock(r) PROVE LockInv'
<1>. DEFINE p == who[r]
<1>1. p \in Players /\ pc[r] = "open" /\ pc[r] \notin Locked
  BY DEF Lock, NextMsg, TypeOK, Locked, Handlers
<1>2. isLock' = [isLock EXCEPT ![p] = 1] /\ who' = who /\ tainted' = tainted BY DEF Lock
<1>3. isLock'[p] = 1 /\ \A q \in Players \ {p} : isLock'[q] = isLock[q] BY <1>1, <1>2 DEF TypeOK
<1>4. \A s \in Requests \ {r} : pc'[s] = pc[s] BY DEF Lock, Goto, TypeOK
<1>5. \A s \in Requests \ {r}, q \in Players : Holds(s, q)' = Holds(s, q) BY <1>2, <1>4 DEF Holds
<1>6. CASE isLock[p] = 1
  <2>1. isLock' = isLock BY <1>2, <1>6 DEF TypeOK
  <2>2. Goto(r, "open") BY <1>6 DEF Lock
  <2>3. \A s \in Requests, q \in Players : Holds(s, q)' = Holds(s, q)
    BY <1>1, <1>2, <2>2, SameSide DEF Locked, Handlers
  <2>. QED BY <1>2, <2>1, <2>3, LocksKept
<1>7. CASE isLock[p] # 1
  <2>1. isLock[p] = 0 BY <1>1, <1>7 DEF TypeOK
  <2>2. pc'[r] = "locked" BY <2>1 DEF Lock, Goto, TypeOK
  <2>3. \A q \in Players : Holds(r, q)' = (q = p) BY <1>1, <1>2, <2>2 DEF Holds, Locked
  <2>4. p \notin tainted => \A s \in Requests : ~Holds(s, p)
    BY <1>1, <2>1 DEF LockInv, HolderHasLock
  <2>5. HolderHasLock' BY <1>1, <1>2, <1>3, <1>5, <2>3 DEF LockInv, HolderHasLock
  <2>6. OneHandler'
    <3>. SUFFICES ASSUME NEW q \in Players \ tainted, NEW s1 \in Requests, NEW s2 \in Requests,
                         Holds(s1, q)', Holds(s2, q)'
                  PROVE  s1 = s2
      BY <1>2 DEF OneHandler
    <3>1. CASE q = p BY <1>5, <2>4, <3>1
    <3>2. CASE q # p
      <4>1. s1 # r /\ s2 # r BY <2>3, <3>2
      <4>2. Holds(s1, q) /\ Holds(s2, q) BY <1>5, <4>1
      <4>. QED BY <4>2 DEF LockInv, OneHandler
    <3>. QED BY <3>1, <3>2
  <2>7. LockIsHeld'
    <3>. SUFFICES ASSUME NEW q \in Players, isLock'[q] = 1
                  PROVE  \E s \in Requests : Holds(s, q)'
      BY DEF LockIsHeld
    <3>1. CASE q = p BY <2>3, <3>1
    <3>2. CASE q # p
      <4>1. PICK s \in Requests : Holds(s, q) BY <1>3, <3>2 DEF LockInv, LockIsHeld
      <4>2. s # r BY <1>1, <4>1 DEF Holds
      <4>. QED BY <1>5, <4>1, <4>2
    <3>. QED BY <3>1, <3>2
  <2>. QED BY <2>5, <2>6, <2>7 DEF LockInv
<1>. QED BY <1>6, <1>7

\* A handler that ends clears is_lock, be it its own or not.
LEMMA UnlockLocks ==
  ASSUME TypeOK, LockInv, NEW r \in Requests, Unlock(r) \/ Panic(r) PROVE LockInv'
<1>. DEFINE p == who[r]
<1>1. pc[r] \in Locked /\ p \in Players /\ Holds(r, p)
  BY DEF Unlock, Panic, TypeOK, Locked, Handlers, Holds
<1>2. isLock' = [isLock EXCEPT ![p] = 0] /\ who' = who /\ tainted' = tainted /\ Goto(r, "open")
  BY DEF Unlock, Panic
<1>3. isLock'[p] = 0 /\ \A q \in Players \ {p} : isLock'[q] = isLock[q] BY <1>1, <1>2 DEF TypeOK
<1>4. pc'[r] = "open" /\ \A s \in Requests \ {r} : pc'[s] = pc[s] BY <1>2 DEF Goto, TypeOK
<1>5. \A s \in Requests \ {r}, q \in Players : Holds(s, q)' = Holds(s, q) BY <1>2, <1>4 DEF Holds
<1>6. \A q \in Players : ~Holds(r, q)' BY <1>4 DEF Holds, Locked, Handlers
<1>7. p \notin tainted => \A s \in Requests \ {r} : ~Holds(s, p)
  BY <1>1 DEF LockInv, OneHandler
<1>8. \A q \in Players \ {p} : ~Holds(r, q) BY DEF Holds
<1>9. HolderHasLock' BY <1>1, <1>2, <1>3, <1>5, <1>6, <1>7 DEF LockInv, HolderHasLock
<1>10. OneHandler' BY <1>2, <1>5, <1>6 DEF LockInv, OneHandler
<1>11. LockIsHeld' BY <1>3, <1>5, <1>8 DEF LockInv, LockIsHeld
<1>. QED BY <1>9, <1>10, <1>11 DEF LockInv

\* A login clears is_lock; the player is tainted if a handler was running.
LEMMA LoginLocks ==
  ASSUME TypeOK, LockInv, NEW r \in Requests, OnLoginUnlock(r) PROVE LockInv'
<1>. DEFINE p == who[r]
<1>1. p \in Players BY DEF OnLoginUnlock, TypeOK, Entering
<1>2. isLock' = [isLock EXCEPT ![p] = 0] /\ who' = who /\ Goto(r, "unlocked") BY DEF OnLoginUnlock
<1>3. isLock'[p] = 0 /\ \A q \in Players \ {p} : isLock'[q] = isLock[q] BY <1>1, <1>2 DEF TypeOK
<1>4. pc[r] = "enter" BY DEF OnLoginUnlock
<1>5. \A s \in Requests, q \in Players : Holds(s, q)' = Holds(s, q)
  BY <1>2, <1>4, SameSide DEF Locked, Handlers
<1>6. p \notin tainted' => \A s \in Requests : ~Holds(s, p) BY DEF OnLoginUnlock
<1>7. tainted \subseteq tainted' BY DEF OnLoginUnlock
<1>8. HolderHasLock' BY <1>3, <1>5, <1>6, <1>7 DEF LockInv, HolderHasLock
<1>9. OneHandler' BY <1>5, <1>7 DEF LockInv, OneHandler
<1>10. LockIsHeld' BY <1>3, <1>5 DEF LockInv, LockIsHeld
<1>. QED BY <1>8, <1>9, <1>10 DEF LockInv

\* The other steps of a request move it on one side of the lock.
LEMMA OtherLocks ==
  ASSUME TypeOK, LockInv, NEW r \in Requests, RequestStep(r),
         ~Lock(r), ~Unlock(r), ~Panic(r), ~OnLoginUnlock(r)
  PROVE  LockInv'
<1>. USE DEF Locked, Handlers, Entering
<1>1. CASE \E p \in Players : \E t \in 0..token[p] : Admit(r, p, t)
  <2>1. PICK p \in Players : \E t \in 0..token[p] : Admit(r, p, t) BY <1>1
  <2>2. pc[r] \notin Locked /\ \E place \in {"open", "done"} : Goto(r, place)
    BY <2>1 DEF Admit
  <2>3. \A s \in Requests \ {r} : who'[s] = who[s] BY <2>1 DEF Admit, TypeOK
  <2>4. UNCHANGED <<isLock, tainted>> BY <2>1 DEF Admit
  <2>. QED BY <2>2, <2>3, <2>4, SameSide, LocksKept
<1>2. CASE \E q \in Players : EnterGame(r, q)
  <2>1. PICK q \in Players : EnterGame(r, q) BY <1>2
  <2>2. pc[r] \notin Locked /\ Goto(r, "enter") BY <2>1 DEF EnterGame, NextMsg
  <2>3. \A s \in Requests \ {r} : who'[s] = who[s] BY <2>1 DEF EnterGame, TypeOK
  <2>4. UNCHANGED <<isLock, tainted>> BY <2>1 DEF EnterGame
  <2>. QED BY <2>2, <2>3, <2>4, SameSide, LocksKept
<1>3. CASE EnterRefused(r)
  <2>1. pc[r] \notin Locked /\ pc' = pc BY <1>3 DEF EnterRefused, NextMsg
  <2>2. \A s \in Requests \ {r} : who'[s] = who[s] BY <1>3 DEF EnterRefused, TypeOK
  <2>3. \A s \in Requests, p \in Players : Holds(s, p)' = Holds(s, p) BY <2>1, <2>2 DEF Holds
  <2>. QED BY <1>3, <2>3, LocksKept DEF EnterRefused
<1>4. CASE OnLoginOnline(r) BY <1>4, SameSide, LocksKept DEF OnLoginOnline
<1>5. CASE Entered(r) BY <1>5, SameSide, LocksKept DEF Entered
<1>6. CASE EnterPanic(r) BY <1>6, SameSide, LocksKept DEF EnterPanic
<1>7. CASE \E h \in {"plain", "leave", "reconnect"} : Dispatch(r, h)
  <2>1. \E place \in Locked : Goto(r, place) BY <1>7 DEF Dispatch
  <2>2. pc[r] \in Locked /\ UNCHANGED <<who, isLock, tainted>> BY <1>7 DEF Dispatch
  <2>. QED BY <2>1, <2>2, SameSide, LocksKept
<1>8. CASE Plain(r) BY <1>8, SameSide, LocksKept DEF Plain
<1>9. CASE LeaveTimer(r) BY <1>9, SameSide, LocksKept DEF LeaveTimer
<1>10. CASE LeaveOffline(r) BY <1>10, SameSide, LocksKept DEF LeaveOffline
<1>11. CASE ReconnectToken(r) BY <1>11, SameSide, LocksKept DEF ReconnectToken
<1>12. CASE ReconnectTimer(r) BY <1>12, SameSide, LocksKept DEF ReconnectTimer
<1>13. CASE ReconnectOnline(r) BY <1>13, SameSide, LocksKept DEF ReconnectOnline
<1>14. CASE Close(r) BY <1>14, SameSide, LocksKept DEF Close
<1>. QED BY <1>1, <1>2, <1>3, <1>4, <1>5, <1>6, <1>7, <1>8, <1>9, <1>10, <1>11, <1>12, <1>13, <1>14
         DEF RequestStep

LEMMA RequestLocks ==
  ASSUME TypeOK, LockInv, NEW r \in Requests, RequestStep(r) PROVE LockInv'
BY LockLocks, UnlockLocks, LoginLocks, OtherLocks

\* The wheel and the game masters do not look at locks.
LEMMA OutsideLocks ==
  ASSUME LockInv, WheelStep \/ GmStep PROVE LockInv'
<1>1. UNCHANGED <<pc, who, isLock, tainted>>
  BY DEF WheelStep, GmStep, WheelOp, ExpireOffline, Expire, GmOffline, GmRecord, GmCommand, request
<1>2. \A s \in Requests, p \in Players : Holds(s, p)' = Holds(s, p) BY <1>1 DEF Holds
<1>. QED BY <1>1, <1>2, LocksKept

-----------------------------------------------------------------------------
(* Logout notices *)

\* Whoever logs a player in or out keeps the count.
LEMMA LogNotices ==
  ASSUME TypeOK, NoticePerSession, NEW p \in Players, LogIn(p) \/ LogOut(p)
  PROVE  NoticePerSession'
<1>0. /\ isLogin[p] \in {0, 1} /\ sessions[p] \in Nat /\ notices[p] \in Nat
      /\ sessions[p] = notices[p] + isLogin[p]
  BY DEF TypeOK, NoticePerSession
<1>1. \A q \in Players \ {p} :
        isLogin'[q] = isLogin[q] /\ sessions'[q] = sessions[q] /\ notices'[q] = notices[q]
  BY DEF TypeOK, LogIn, LogOut
<1>2. sessions'[p] = notices'[p] + isLogin'[p]
  <2>1. CASE LogIn(p)
    <3>1. isLogin'[p] = 1 /\ sessions'[p] = sessions[p] + (1 - isLogin[p]) /\ notices'[p] = notices[p]
      BY <2>1 DEF LogIn, TypeOK
    <3>. QED BY <1>0, <3>1
  <2>2. CASE LogOut(p)
    <3>1. isLogin'[p] = 0 /\ sessions'[p] = sessions[p] /\ notices'[p] = notices[p] + isLogin[p]
      BY <2>2 DEF LogOut, TypeOK
    <3>. QED BY <1>0, <3>1
  <2>. QED BY <2>1, <2>2
<1>. QED BY <1>1, <1>2 DEF NoticePerSession

LEMMA RequestNotices ==
  ASSUME TypeOK, NoticePerSession, NEW r \in Requests, RequestStep(r) PROVE NoticePerSession'
<1>. USE DEF online
<1>1. ASSUME pc[r] \in Locked \cup Entering PROVE who[r] \in Players BY <1>1 DEF TypeOK
<1>2. CASE UNCHANGED online BY <1>2 DEF NoticePerSession
<1>3. CASE OnLoginOnline(r) BY <1>1, <1>3, LogNotices DEF OnLoginOnline, Entering
<1>4. CASE LeaveOffline(r) BY <1>1, <1>4, LogNotices DEF LeaveOffline, Locked, Handlers
<1>5. CASE ReconnectOnline(r) BY <1>1, <1>5, LogNotices DEF ReconnectOnline, Locked, Handlers
<1>. QED BY <1>2, <1>3, <1>4, <1>5
         DEF RequestStep, Admit, EnterGame, EnterRefused, OnLoginUnlock, Entered, EnterPanic, Lock,
             Dispatch, Plain, LeaveTimer, ReconnectToken, ReconnectTimer, Unlock, Panic, Close

LEMMA WheelNotices ==
  ASSUME TypeOK, NoticePerSession, WheelStep PROVE NoticePerSession'
<1>1. CASE ExpireOffline
  <2>1. expiring \in Players BY <1>1 DEF ExpireOffline, TypeOK
  <2>. QED BY <1>1, <2>1, LogNotices DEF ExpireOffline
<1>2. CASE UNCHANGED online BY <1>2 DEF NoticePerSession, online
<1>. QED BY <1>1, <1>2 DEF WheelStep, WheelOp, Expire

LEMMA GmNotices ==
  ASSUME TypeOK, GmNamed, NoticePerSession, GmStep PROVE NoticePerSession'
<1>1. CASE GmOffline
  <2>1. gm.player \in Players BY <1>1 DEF GmOffline, GmNamed, NoBan
  <2>. QED BY <1>1, <2>1, LogNotices DEF GmOffline
<1>2. CASE UNCHANGED online BY <1>2 DEF NoticePerSession, online
<1>. QED BY <1>1, <1>2 DEF GmStep, GmRecord, GmCommand

-----------------------------------------------------------------------------

LEMMA NextInv == IInv /\ [Next]_vars => IInv'
<1>. SUFFICES ASSUME IInv, [Next]_vars PROVE IInv' OBVIOUS
<1>1. TypeOK /\ LockInv /\ NoticePerSession /\ GmNamed BY DEF IInv, LockInv
<1>2. ASSUME NEW r \in Requests, RequestStep(r) PROVE IInv'
  <2>1. TypeOK'
    BY <1>1, <1>2, RequestPlaces, RequestFlags, RequestTimers, RequestRest, TypePartsNext
  <2>2. gm' = gm
    BY <1>2 DEF RequestStep, Admit, EnterGame, EnterRefused, OnLoginUnlock, OnLoginOnline,
                Entered, EnterPanic, Lock, Dispatch, Plain, LeaveTimer, LeaveOffline,
                ReconnectToken, ReconnectTimer, ReconnectOnline, Unlock, Panic, Close, ban
  <2>3. GmNamed' BY <1>1, <2>2 DEF GmNamed
  <2>. QED BY <1>1, <1>2, <2>1, <2>3, RequestLocks, RequestNotices DEF IInv, LockInv
<1>3. CASE WheelStep
  <2>1. gm' = gm BY <1>3 DEF WheelStep, WheelOp, Expire, ExpireOffline, ban
  <2>2. GmNamed' BY <1>1, <2>1 DEF GmNamed
  <2>. QED BY <1>1, <1>3, <2>2, WheelType, OutsideLocks, WheelNotices DEF IInv, LockInv
<1>4. CASE GmStep
  <2>1. TypeOK' /\ GmNamed' BY <1>1, <1>4, GmType DEF GmNamed
  <2>. QED BY <1>1, <1>4, <2>1, OutsideLocks, GmNotices DEF IInv, LockInv
<1>5. CASE UNCHANGED vars
  BY <1>1, <1>5 DEF vars, request, wheel, ban, online, IInv, TypeOK, GmNamed, HolderHasLock,
     OneHandler, LockIsHeld, NoticePerSession, Holds
<1>. QED BY <1>2, <1>3, <1>4, <1>5 DEF Next, Quiet

LEMMA Inductive == Spec => []IInv
BY InitInv, NextInv, PTL DEF Spec

-----------------------------------------------------------------------------
(* Bans *)

\* A step that lets nobody online and past no ban check, and bans nobody.
LEMMA BansKept ==
  ASSUME BannedHadRaced, UNCHANGED <<banned, raced>>,
         \A p \in Players : isLogin'[p] = 1 => isLogin[p] = 1 \/ \E r \in Requests : Admitted(r, p),
         \A p \in Players, r \in Requests :
           Admitted(r, p)' => Admitted(r, p) \/ ~banned[p]
  PROVE  BannedHadRaced'
BY DEF BannedHadRaced

\* A request that takes its place for the player it already has.
LEMMA PlaceKept ==
  ASSUME TypeOK, NEW r \in Requests, NEW place, Goto(r, place), UNCHANGED who,
         \A p \in Players : who[r] = p =>
           \/ place \notin {"enter", "unlocked", "reconnect", "retimed", "relogin"}
           \/ pc[r] \in {"enter", "unlocked", "reconnect", "retimed", "relogin"}
           \/ ~banned[p]
  PROVE  \A p \in Players, s \in Requests : Admitted(s, p)' => Admitted(s, p) \/ ~banned[p]
<1>1. pc' = [pc EXCEPT ![r] = place] /\ who' = who BY DEF Goto
<1>2. pc'[r] = place /\ \A s \in Requests \ {r} : pc'[s] = pc[s] BY <1>1 DEF TypeOK
<1>. QED BY <1>1, <1>2 DEF Admitted

LEMMA LoggedIn ==
  ASSUME TypeOK, NEW r \in Requests, who[r] \in Players, LogIn(who[r]), Admitted(r, who[r])
  PROVE  \A p \in Players : isLogin'[p] = 1 => isLogin[p] = 1 \/ \E s \in Requests : Admitted(s, p)
BY DEF TypeOK, LogIn

LEMMA LoggedOut ==
  ASSUME TypeOK, NEW q \in Players, LogOut(q)
  PROVE  \A p \in Players : isLogin'[p] = 1 => isLogin[p] = 1
BY DEF TypeOK, LogOut

LEMMA RequestBans ==
  ASSUME TypeOK, BannedHadRaced, NEW r \in Requests, RequestStep(r) PROVE BannedHadRaced'
<1>. USE DEF online, ban
<1>0. ASSUME pc[r] \in Locked \cup Entering PROVE who[r] \in Players BY <1>0 DEF TypeOK
<1>1. CASE \E p \in Players : \E t \in 0..token[p] : Admit(r, p, t)
  <2>1. UNCHANGED <<isLogin, banned, raced>> BY <1>1 DEF Admit
  <2>2. \A s \in Requests, p \in Players : Admitted(s, p)' => Admitted(s, p)
    <3>1. \A s \in Requests \ {r} : pc'[s] = pc[s] /\ who'[s] = who[s]
      BY <1>1 DEF Admit, Goto, TypeOK
    <3>2. pc'[r] \in {"open", "done"} BY <1>1 DEF Admit, Goto, TypeOK
    <3>. QED BY <3>1, <3>2 DEF Admitted
  <2>. QED BY <2>1, <2>2, BansKept
<1>2. CASE \E q \in Players : EnterGame(r, q)
  <2>1. PICK q \in Players : EnterGame(r, q) BY <1>2
  <2>2. UNCHANGED <<isLogin, banned, raced>> /\ ~banned[q] BY <2>1 DEF EnterGame
  <2>3. \A s \in Requests \ {r} : pc'[s] = pc[s] /\ who'[s] = who[s]
    BY <2>1 DEF EnterGame, Goto, TypeOK
  <2>4. who'[r] = q BY <2>1 DEF EnterGame, TypeOK
  <2>5. \A s \in Requests, p \in Players : Admitted(s, p)' => Admitted(s, p) \/ ~banned[p]
    BY <2>2, <2>3, <2>4 DEF Admitted
  <2>. QED BY <2>2, <2>5, BansKept
<1>3. CASE EnterRefused(r)
  <2>1. UNCHANGED <<isLogin, banned, raced, pc>> BY <1>3 DEF EnterRefused
  <2>2. \A s \in Requests \ {r} : who'[s] = who[s] BY <1>3 DEF EnterRefused, TypeOK
  <2>3. who'[r] = Nobody BY <1>3 DEF EnterRefused, TypeOK
  <2>4. \A s \in Requests, p \in Players : Admitted(s, p)' => Admitted(s, p)
    BY <2>1, <2>2, <2>3, NobodyAssumption DEF Admitted
  <2>. QED BY <2>1, <2>4, BansKept
<1>4. CASE OnLoginUnlock(r)
  <2>1. UNCHANGED <<isLogin, banned, raced>> BY <1>4 DEF OnLoginUnlock
  <2>. QED BY <2>1, <1>4, PlaceKept, BansKept DEF OnLoginUnlock
<1>5. CASE OnLoginOnline(r)
  <2>1. who[r] \in Players /\ Admitted(r, who[r])
    BY <1>5, <1>0 DEF OnLoginOnline, Entering, Admitted
  <2>2. LogIn(who[r]) /\ UNCHANGED <<banned, raced>> BY <1>5 DEF OnLoginOnline
  <2>3. \A p \in Players : isLogin'[p] = 1 => isLogin[p] = 1 \/ \E s \in Requests : Admitted(s, p)
    BY <2>1, <2>2, LoggedIn
  <2>. QED BY <2>2, <2>3, <1>5, PlaceKept, BansKept DEF OnLoginOnline
<1>6. CASE ReconnectOnline(r)
  <2>1. who[r] \in Players /\ Admitted(r, who[r])
    BY <1>6, <1>0 DEF ReconnectOnline, Locked, Handlers, Admitted
  <2>2. LogIn(who[r]) /\ UNCHANGED <<banned, raced>> BY <1>6 DEF ReconnectOnline
  <2>3. \A p \in Players : isLogin'[p] = 1 => isLogin[p] = 1 \/ \E s \in Requests : Admitted(s, p)
    BY <2>1, <2>2, LoggedIn
  <2>. QED BY <2>2, <2>3, <1>6, PlaceKept, BansKept DEF ReconnectOnline
<1>7. CASE LeaveOffline(r)
  <2>1. who[r] \in Players BY <1>7, <1>0 DEF LeaveOffline, Locked, Handlers
  <2>2. LogOut(who[r]) /\ UNCHANGED <<banned, raced>> BY <1>7 DEF LeaveOffline
  <2>3. \A p \in Players : isLogin'[p] = 1 => isLogin[p] = 1 BY <2>1, <2>2, LoggedOut
  <2>. QED BY <2>2, <2>3, <1>7, PlaceKept, BansKept DEF LeaveOffline
<1>8. CASE \E h \in {"plain", "leave", "reconnect"} : Dispatch(r, h)
  <2>1. PICK h \in {"plain", "leave", "reconnect"} : Dispatch(r, h) BY <1>8
  <2>2. UNCHANGED <<isLogin, banned, raced>> BY <2>1 DEF Dispatch
  <2>3. PICK place : Goto(r, place) /\ UNCHANGED who
                       /\ (place = "reconnect" => ~banned[who[r]])
                       /\ place \in {"handled", "plain", "leave", "reconnect"}
    BY <2>1 DEF Dispatch
  <2>. QED BY <2>2, <2>3, PlaceKept, BansKept
<1>9. CASE Entered(r) \/ EnterPanic(r) \/ Lock(r) \/ Plain(r) \/ Unlock(r) \/ Panic(r) \/ Close(r)
  <2>1. UNCHANGED <<isLogin, banned, raced, who>>
    BY <1>9 DEF Entered, EnterPanic, Lock, Plain, Unlock, Panic, Close
  <2>2. \E place \in {"open", "done", "locked", "handled"} : Goto(r, place)
    BY <1>9 DEF Entered, EnterPanic, Lock, Plain, Unlock, Panic, Close
  <2>. QED BY <2>1, <2>2, PlaceKept, BansKept
<1>10. CASE LeaveTimer(r) \/ ReconnectToken(r) \/ ReconnectTimer(r)
  <2>1. UNCHANGED <<isLogin, banned, raced, who>>
    BY <1>10 DEF LeaveTimer, ReconnectToken, ReconnectTimer
  <2>2. \E place : Goto(r, place) /\ (place = "leaving" \/ pc[r] \in {"reconnect", "retimed"})
    BY <1>10 DEF LeaveTimer, ReconnectToken, ReconnectTimer
  <2>. QED BY <2>1, <2>2, PlaceKept, BansKept
<1>. QED BY <1>1, <1>2, <1>3, <1>4, <1>5, <1>6, <1>7, <1>8, <1>9, <1>10 DEF RequestStep

\* The wheel bans nobody and lets nobody in.
LEMMA WheelBans ==
  ASSUME TypeOK, BannedHadRaced, WheelStep PROVE BannedHadRaced'
<1>1. UNCHANGED <<banned, raced, pc, who>>
  BY DEF WheelStep, WheelOp, ExpireOffline, Expire, request, ban
<1>2. \A p \in Players : isLogin'[p] = 1 => isLogin[p] = 1
  <2>1. CASE ExpireOffline
    <3>1. expiring \in Players BY <2>1 DEF ExpireOffline, TypeOK
    <3>. QED BY <2>1, <3>1, LoggedOut DEF ExpireOffline
  <2>. QED BY <2>1 DEF WheelStep, WheelOp, Expire, online
<1>3. \A p \in Players, r \in Requests : Admitted(r, p)' => Admitted(r, p) BY <1>1 DEF Admitted
<1>. QED BY <1>1, <1>2, <1>3, BansKept

\* A ban notes whom it found online or on the way in.
LEMMA GmBans ==
  ASSUME TypeOK, GmNamed, BannedHadRaced, GmStep PROVE BannedHadRaced'
<1>1. UNCHANGED <<pc, who>>
  BY DEF GmStep, GmOffline, GmRecord, GmCommand, request
<1>2. \A p \in Players, r \in Requests : Admitted(r, p)' <=> Admitted(r, p) BY <1>1 DEF Admitted
<1>3. CASE GmOffline
  <2>1. gm.player \in Players BY <1>3 DEF GmOffline, GmNamed, NoBan
  <2>2. \A p \in Players : isLogin'[p] = 1 => isLogin[p] = 1
    BY <1>3, <2>1, LoggedOut DEF GmOffline
  <2>. QED BY <1>2, <1>3, <2>2, BansKept DEF GmOffline
<1>4. CASE \E p \in Players, b \in BOOLEAN : GmCommand(p, b)
  BY <1>2, <1>4, BansKept DEF GmCommand, online
<1>5. CASE GmRecord
  <2>1. PICK p : p = gm.player /\ p \in Players BY <1>5 DEF GmRecord, GmNamed, NoBan
  <2>2. isLogin' = isLogin BY <1>5 DEF GmRecord, online
  <2>3. banned'[p] = gm.ban /\ \A q \in Players \ {p} : banned'[q] = banned[q]
    BY <1>5, <2>1 DEF GmRecord, TypeOK
  <2>4. \A q \in Players \ {p} : q \in raced' <=> q \in raced
    BY <1>5, <2>1 DEF GmRecord
  <2>5. \A q \in Players \ {p} :
          banned'[q] /\ (isLogin'[q] = 1 \/ \E r \in Requests : Admitted(r, q)') => q \in raced'
    BY <1>2, <2>2, <2>3, <2>4 DEF BannedHadRaced
  <2>6. banned'[p] /\ (isLogin'[p] = 1 \/ \E r \in Requests : Admitted(r, p)') => p \in raced'
    <3>1. SUFFICES ASSUME gm.ban, isLogin[p] = 1 \/ \E r \in Requests : Admitted(r, p)
                   PROVE  p \in raced'
      BY <1>2, <2>1, <2>2, <2>3
    <3>2. CASE banned[p]
      <4>1. p \in raced BY <2>1, <3>1, <3>2 DEF BannedHadRaced
      <4>. QED BY <1>5, <2>1, <3>2, <4>1 DEF GmRecord
    <3>3. CASE ~banned[p]
      <4>1. raced' = raced \cup {p} BY <1>5, <2>1, <3>1, <3>3 DEF GmRecord
      <4>. QED BY <4>1
    <3>. QED BY <3>2, <3>3
  <2>. QED BY <2>5, <2>6 DEF BannedHadRaced
<1>. QED BY <1>3, <1>4, <1>5 DEF GmStep

LEMMA BansInductive == Spec => []BannedHadRaced
<1>1. Init => BannedHadRaced BY DEF Init, BannedHadRaced, Admitted
<1>2. IInv /\ BannedHadRaced /\ [Next]_vars => BannedHadRaced'
  <2>. SUFFICES ASSUME IInv, BannedHadRaced, [Next]_vars PROVE BannedHadRaced' OBVIOUS
  <2>1. TypeOK /\ GmNamed BY DEF IInv
  <2>2. CASE UNCHANGED vars
    BY <2>2 DEF vars, request, ban, online, BannedHadRaced, Admitted
  <2>. QED BY <2>1, <2>2, RequestBans, WheelBans, GmBans DEF Next, Quiet
<1>. QED BY <1>1, <1>2, Inductive, PTL DEF Spec

-----------------------------------------------------------------------------
(* Timers *)

\* What is posted for one player does not disturb another.
LEMMA PostOther ==
  ASSUME ops \in Seq(Ops), NEW p, NEW q, p # q, NEW op, Post(op, p), Timed(q)
  PROVE  Timed(q)'
<1>. DEFINE n == Len(ops)
<1>1. n \in Nat /\ watched' = watched BY LenProperties DEF Post
<1>2. /\ Len(ops') = n + 1 /\ ops'[n+1] = [op |-> op, player |-> p]
      /\ \A i \in 1..n : ops'[i] = ops[i]
  BY DEF Post
<1>3. ops'[n+1].player # q BY <1>2
<1>4. CASE \E i \in 1..n : ops[i].player = q
  <2>1. PICK i \in 1..n : /\ ops[i].op = "insert" /\ ops[i].player = q
                          /\ \A j \in i+1..n : ops[j].player # q
    BY <1>4 DEF Timed
  <2>2. i \in 1..(n+1) /\ ops'[i].op = "insert" /\ ops'[i].player = q BY <1>1, <1>2, <2>1
  <2>3. \A j \in i+1..(n+1) : ops'[j].player # q
    <3>. TAKE j \in i+1..(n+1)
    <3>1. j = n + 1 \/ j \in i+1..n BY <1>1
    <3>2. j \in i+1..n => j \in 1..n BY <1>1, <2>1
    <3>. QED BY <1>2, <1>3, <2>1, <3>1, <3>2
  <2>. QED BY <1>2, <2>2, <2>3 DEF Timed
<1>5. CASE ~\E i \in 1..n : ops[i].player = q
  <2>1. q \in watched BY <1>5 DEF Timed
  <2>2. ~\E i \in 1..(n+1) : ops'[i].player = q
    <3>. SUFFICES ASSUME NEW i \in 1..(n+1) PROVE ops'[i].player # q OBVIOUS
    <3>1. i = n + 1 \/ i \in 1..n BY <1>1
    <3>. QED BY <1>2, <1>3, <1>5, <3>1
  <2>. QED BY <1>1, <1>2, <2>1, <2>2 DEF Timed
<1>. QED BY <1>4, <1>5

LEMMA PostInsert ==
  ASSUME ops \in Seq(Ops), NEW p, Post("insert", p) PROVE Timed(p)'
<1>. DEFINE n == Len(ops)
<1>1. n \in Nat BY LenProperties
<1>2. Len(ops') = n + 1 /\ ops'[n+1] = [op |-> "insert", player |-> p] BY DEF Post
<1>3. n + 1 \in 1..(n+1) /\ \A j \in (n+1)+1..(n+1) : ops'[j].player # p BY <1>1
<1>4. ops'[n+1].op = "insert" /\ ops'[n+1].player = p BY <1>2
<1>. QED BY <1>2, <1>3, <1>4 DEF Timed

LEMMA WheelOpTimed ==
  ASSUME TypeOK, WheelOp, NEW q, Timed(q) PROVE Timed(q)'
<1>. DEFINE n == Len(ops)
<1>1. ops \in Seq(Ops) /\ ops # <<>> BY DEF TypeOK, WheelOp
<1>2. /\ n \in Nat /\ n >= 1 /\ Len(ops') = n - 1
      /\ \A i \in 1..(n-1) : ops'[i] = ops[i+1]
  BY <1>1 DEF WheelOp
<1>3. Head(ops) = ops[1] /\ ops[1] \in Ops BY <1>1, <1>2
<1>4. watched' = IF ops[1].op = "insert" THEN watched \cup {ops[1].player}
                 ELSE watched \ {ops[1].player}
  BY <1>3 DEF WheelOp
<1>5. CASE \E i \in 1..n : ops[i].player = q
  <2>1. PICK i \in 1..n : /\ ops[i].op = "insert" /\ ops[i].player = q
                          /\ \A j \in i+1..n : ops[j].player # q
    BY <1>5 DEF Timed
  <2>2. CASE i = 1
    <3>1. q \in watched' BY <1>4, <2>1, <2>2
    <3>2. ~\E k \in 1..Len(ops') : ops'[k].player = q
      <4>. SUFFICES ASSUME NEW k \in 1..(n-1) PROVE ops'[k].player # q BY <1>2
      <4>1. k + 1 \in i+1..n BY <1>2, <2>2
      <4>. QED BY <1>2, <2>1, <4>1
    <3>. QED BY <3>1, <3>2 DEF Timed
  <2>3. CASE i # 1
    <3>1. i - 1 \in 1..(n-1) /\ ops'[i-1] = ops[i] BY <1>2, <2>3
    <3>2. \A j \in (i-1)+1..(n-1) : ops'[j].player # q
      <4>. TAKE j \in (i-1)+1..(n-1)
      <4>1. j \in 1..(n-1) /\ j + 1 \in i+1..n BY <1>2, <2>1, <2>3
      <4>. QED BY <1>2, <2>1, <4>1
    <3>. QED BY <1>2, <2>1, <3>1, <3>2 DEF Timed
  <2>. QED BY <2>2, <2>3
<1>6. CASE ~\E i \in 1..n : ops[i].player = q
  <2>1. q \in watched BY <1>6 DEF Timed
  <2>2. ops[1].player # q BY <1>2, <1>6
  <2>3. q \in watched' BY <1>4, <2>1, <2>2
  <2>4. ~\E k \in 1..Len(ops') : ops'[k].player = q
    <3>. SUFFICES ASSUME NEW k \in 1..(n-1) PROVE ops'[k].player # q BY <1>2
    <3>1. k + 1 \in 1..n BY <1>2
    <3>. QED BY <1>2, <1>6, <3>1
  <2>. QED BY <2>3, <2>4 DEF Timed
<1>. QED BY <1>5, <1>6

\* A step of r that leaves op_chan alone and still serves its player.
LEMMA TimersKept ==
  ASSUME TypeOK, OnlineIsTimed, NEW r \in Requests, UNCHANGED <<wheel, gm, who, dropped>>,
         \A s \in Requests \ {r} : pc'[s] = pc[s],
         pc'[r] \notin {"sent", "done"} \/ pc[r] = "sent",
         \A p \in Players : isLogin'[p] = 1 => isLogin[p] = 1 \/ Serves(r, p)'
  PROVE  OnlineIsTimed'
<1>. SUFFICES ASSUME NEW p \in Players, p \notin dropped, isLogin'[p] = 1
              PROVE  \/ Timed(p)' \/ expiring' = p
                     \/ gm'.step = "logout" /\ gm'.player = p
                     \/ \E s \in Requests : Serves(s, p)'
  BY DEF OnlineIsTimed
<1>1. CASE Serves(r, p)' BY <1>1
<1>2. CASE isLogin[p] = 1
  <2>1. Timed(p)' <=> Timed(p) BY DEF Timed, wheel
  <2>2. \A s \in Requests : Serves(s, p) => Serves(s, p)' BY DEF Serves
  <2>. QED BY <1>2, <2>1, <2>2 DEF OnlineIsTimed, wheel
<1>. QED BY <1>1, <1>2

\* A step of r that posts for its own player.
LEMMA PostKept ==
  ASSUME TypeOK, OnlineIsTimed, NEW r \in Requests, NEW op, who[r] \in Players, Post(op, who[r]),
         UNCHANGED <<isLogin, gm, who>>, \A s \in Requests \ {r} : pc'[s] = pc[s],
         \A p \in Players \ {who[r]} : p \in dropped' <=> p \in dropped,
         op = "insert" \/ pc'[r] \notin {"sent", "done"}
  PROVE  OnlineIsTimed'
<1>0. ops \in Seq(Ops) BY DEF TypeOK
<1>. SUFFICES ASSUME NEW p \in Players, p \notin dropped', isLogin'[p] = 1
              PROVE  \/ Timed(p)' \/ expiring' = p
                     \/ gm'.step = "logout" /\ gm'.player = p
                     \/ \E s \in Requests : Serves(s, p)'
  BY DEF OnlineIsTimed
<1>1. CASE p = who[r]
  <2>1. CASE op = "insert" BY <1>0, <1>1, <2>1, PostInsert
  <2>2. CASE pc'[r] \notin {"sent", "done"} BY <1>1, <2>2 DEF Serves
  <2>. QED BY <2>1, <2>2
<1>2. CASE p # who[r]
  <2>1. Timed(p) => Timed(p)' BY <1>0, <1>2, PostOther
  <2>2. \A s \in Requests : Serves(s, p) => Serves(s, p)' BY <1>2 DEF Serves
  <2>3. expiring' = expiring BY DEF Post
  <2>. QED BY <1>2, <2>1, <2>2, <2>3 DEF OnlineIsTimed
<1>. QED BY <1>1, <1>2

\* A step in which r changes its player or gives up on him.
LEMMA DropKept ==
  ASSUME TypeOK, OnlineIsTimed, NEW r \in Requests, UNCHANGED <<wheel, isLogin, gm>>,
         \A s \in Requests \ {r} : pc'[s] = pc[s] /\ who'[s] = who[s],
         dropped \subseteq dropped',
         \A p \in Players : Serves(r, p) => Serves(r, p)' \/ p \in dropped'
  PROVE  OnlineIsTimed'
<1>. SUFFICES ASSUME NEW p \in Players, p \notin dropped', isLogin'[p] = 1
              PROVE  \/ Timed(p)' \/ expiring' = p
                     \/ gm'.step = "logout" /\ gm'.player = p
                     \/ \E s \in Requests : Serves(s, p)'
  BY DEF OnlineIsTimed
<1>1. Timed(p)' <=> Timed(p) BY DEF Timed, wheel
<1>2. \A s \in Requests : Serves(s, p) => Serves(s, p)' BY DEF Serves
<1>3. expiring' = expiring BY DEF wheel
<1>. QED BY <1>1, <1>2, <1>3 DEF OnlineIsTimed

LEMMA RequestTimed ==
  ASSUME TypeOK, OnlineIsTimed, NEW r \in Requests, RequestStep(r) PROVE OnlineIsTimed'
<1>. USE DEF online, ban
<1>0. ASSUME pc[r] \in Locked \cup Entering PROVE who[r] \in Players BY <1>0 DEF TypeOK
<1>1. ASSUME NEW place, Goto(r, place)
      PROVE  pc'[r] = place /\ \A s \in Requests \ {r} : pc'[s] = pc[s]
  BY <1>1 DEF Goto, TypeOK
<1>2. CASE \E p \in Players : \E t \in 0..token[p] : Admit(r, p, t)
  <2>1. UNCHANGED <<wheel, isLogin, gm, dropped>> /\ pc[r] = "sent" BY <1>2 DEF Admit
  <2>2. \A s \in Requests \ {r} : pc'[s] = pc[s] /\ who'[s] = who[s]
    BY <1>2 DEF Admit, Goto, TypeOK
  <2>3. \A p \in Players : ~Serves(r, p) BY <2>1 DEF Serves
  <2>. QED BY <2>1, <2>2, <2>3, DropKept
<1>3. CASE \E q \in Players : EnterGame(r, q)
  <2>1. PICK q \in Players : EnterGame(r, q) BY <1>3
  <2>2. UNCHANGED <<wheel, isLogin, gm>> /\ Goto(r, "enter") BY <2>1 DEF EnterGame
  <2>3. who'[r] = q /\ \A s \in Requests \ {r} : who'[s] = who[s] BY <2>1 DEF EnterGame, TypeOK
  <2>4. dropped' = dropped \cup ({who[r]} \ {q, Nobody}) BY <2>1 DEF EnterGame
  <2>5. Serves(r, q)' BY <1>1, <2>2, <2>3 DEF Serves
  <2>6. \A p \in Players : Serves(r, p) => Serves(r, p)' \/ p \in dropped'
    BY <2>4, <2>5, NobodyAssumption DEF Serves
  <2>7. dropped \subseteq dropped' BY <2>4
  <2>. QED BY <1>1, <2>2, <2>3, <2>6, <2>7, DropKept
<1>4. CASE EnterRefused(r)
  <2>1. UNCHANGED <<wheel, isLogin, gm, pc>> BY <1>4 DEF EnterRefused
  <2>2. \A s \in Requests \ {r} : who'[s] = who[s] BY <1>4 DEF EnterRefused, TypeOK
  <2>3. dropped' = dropped \cup ({who[r]} \ {Nobody}) BY <1>4 DEF EnterRefused
  <2>4. \A p \in Players : Serves(r, p) => Serves(r, p)' \/ p \in dropped'
    BY <2>3, NobodyAssumption DEF Serves
  <2>5. dropped \subseteq dropped' BY <2>3
  <2>. QED BY <2>1, <2>2, <2>4, <2>5, DropKept
<1>5. CASE EnterPanic(r)
  <2>1. UNCHANGED <<wheel, isLogin, gm, who>> /\ Goto(r, "done") BY <1>5 DEF EnterPanic
  <2>2. dropped' = dropped \cup {who[r]} BY <1>5 DEF EnterPanic
  <2>3. \A p \in Players : Serves(r, p) => Serves(r, p)' \/ p \in dropped' BY <2>2 DEF Serves
  <2>4. dropped \subseteq dropped' BY <2>2
  <2>. QED BY <1>1, <2>1, <2>3, <2>4, DropKept
<1>6. CASE OnLoginOnline(r) \/ ReconnectOnline(r)
  <2>1. who[r] \in Players /\ LogIn(who[r]) /\ UNCHANGED <<wheel, gm, who, dropped>>
    BY <1>0, <1>6 DEF OnLoginOnline, ReconnectOnline, Entering, Locked, Handlers
  <2>2. pc'[r] \notin {"sent", "done"} /\ \A s \in Requests \ {r} : pc'[s] = pc[s]
    BY <1>1, <1>6 DEF OnLoginOnline, ReconnectOnline
  <2>3. \A p \in Players \ {who[r]} : isLogin'[p] = isLogin[p] BY <2>1 DEF LogIn, TypeOK
  <2>4. Serves(r, who[r])' BY <2>1, <2>2 DEF Serves
  <2>. QED BY <2>1, <2>2, <2>3, <2>4, TimersKept
<1>7. CASE LeaveOffline(r)
  <2>1. who[r] \in Players /\ LogOut(who[r]) /\ UNCHANGED <<wheel, gm, who, dropped>>
    BY <1>0, <1>7 DEF LeaveOffline, Locked, Handlers
  <2>2. pc'[r] \notin {"sent", "done"} /\ \A s \in Requests \ {r} : pc'[s] = pc[s]
    BY <1>1, <1>7 DEF LeaveOffline
  <2>3. \A p \in Players : isLogin'[p] = 1 => isLogin[p] = 1 BY <2>1, LoggedOut
  <2>. QED BY <2>1, <2>2, <2>3, TimersKept
<1>8. CASE LeaveTimer(r) \/ ReconnectTimer(r)
  <2>1. who[r] \in Players /\ Post("remove", who[r]) /\ UNCHANGED <<isLogin, gm, who, dropped>>
    BY <1>0, <1>8 DEF LeaveTimer, ReconnectTimer, Locked, Handlers
  <2>2. pc'[r] \notin {"sent", "done"} /\ \A s \in Requests \ {r} : pc'[s] = pc[s]
    BY <1>1, <1>8 DEF LeaveTimer, ReconnectTimer
  <2>. QED BY <2>1, <2>2, PostKept
<1>9. CASE Close(r)
  <2>1. /\ UNCHANGED <<isLogin, gm, who>> /\ Goto(r, "done") /\ pc[r] = "open"
        /\ dropped' = dropped \ {who[r]}
    BY <1>9 DEF Close
  <2>2. CASE who[r] = Nobody
    <3>1. UNCHANGED wheel BY <1>9, <2>2 DEF Close
    <3>2. \A p \in Players : p \in dropped' <=> p \in dropped BY <2>1, <2>2, NobodyAssumption
    <3>3. \A p \in Players : ~Serves(r, p) BY <2>2, NobodyAssumption DEF Serves
    <3>4. dropped \subseteq dropped' BY <2>1, <2>2, NobodyAssumption DEF TypeOK
    <3>. QED BY <1>1, <2>1, <3>1, <3>3, <3>4, DropKept
  <2>3. CASE who[r] # Nobody
    <3>1. who[r] \in Players /\ Post("insert", who[r]) BY <1>9, <2>3 DEF Close, TypeOK
    <3>. QED BY <1>1, <2>1, <3>1, PostKept
  <2>. QED BY <2>2, <2>3
<1>10. CASE \/ OnLoginUnlock(r) \/ Entered(r) \/ Lock(r) \/ Plain(r) \/ ReconnectToken(r)
            \/ Unlock(r) \/ Panic(r) \/ \E h \in {"plain", "leave", "reconnect"} : Dispatch(r, h)
  <2>1. UNCHANGED <<wheel, isLogin, gm, who, dropped>>
    BY <1>10 DEF OnLoginUnlock, Entered, Lock, Plain, ReconnectToken, Unlock, Panic, Dispatch
  <2>2. \E place : Goto(r, place) /\ place \notin {"sent", "done"}
    BY <1>10 DEF OnLoginUnlock, Entered, Lock, Plain, ReconnectToken, Unlock, Panic, Dispatch
  <2>. QED BY <1>1, <2>1, <2>2, TimersKept
<1>. QED BY <1>2, <1>3, <1>4, <1>5, <1>6, <1>7, <1>8, <1>9, <1>10 DEF RequestStep

LEMMA WheelTimed == ASSUME TypeOK, OnlineIsTimed, WheelStep PROVE OnlineIsTimed'
<1>0. UNCHANGED <<pc, who, gm, dropped>>
  BY DEF WheelStep, WheelOp, Expire, ExpireOffline, request, ban
<1>1. \A s \in Requests, p \in Players : Serves(s, p)' <=> Serves(s, p) BY <1>0 DEF Serves
<1>2. CASE WheelOp
  <2>1. \A p \in Players : Timed(p) => Timed(p)' BY <1>2, WheelOpTimed
  <2>2. UNCHANGED <<expiring, isLogin>> BY <1>2 DEF WheelOp, online
  <2>. QED BY <1>0, <1>1, <2>1, <2>2 DEF OnlineIsTimed
<1>3. CASE ExpireOffline
  <2>1. expiring \in Players /\ LogOut(expiring) BY <1>3 DEF ExpireOffline, TypeOK
  <2>2. isLogin'[expiring] = 0 BY <2>1 DEF LogOut, TypeOK
  <2>3. \A p \in Players : isLogin'[p] = 1 => isLogin[p] = 1 BY <2>1, LoggedOut
  <2>4. \A p \in Players : Timed(p)' <=> Timed(p) BY <1>3 DEF ExpireOffline, Timed
  <2>. QED BY <1>0, <1>1, <2>2, <2>3, <2>4 DEF OnlineIsTimed
<1>4. ASSUME NEW p \in Players, Expire(p) PROVE OnlineIsTimed'
  <2>1. /\ expiring = Nobody /\ expiring' = p /\ UNCHANGED <<ops, isLogin>>
        /\ watched' = watched \ {p}
    BY <1>4 DEF Expire, online
  <2>2. \A q \in Players \ {p} : Timed(q)' <=> Timed(q) BY <2>1 DEF Timed
  <2>. QED BY <1>0, <1>1, <2>1, <2>2, NobodyAssumption DEF OnlineIsTimed
<1>. QED BY <1>2, <1>3, <1>4 DEF WheelStep

LEMMA GmTimed == ASSUME TypeOK, GmNamed, OnlineIsTimed, GmStep PROVE OnlineIsTimed'
<1>0. UNCHANGED <<pc, who, dropped>> BY DEF GmStep, GmOffline, GmRecord, GmCommand, request
<1>1. \A s \in Requests, p \in Players : Serves(s, p)' <=> Serves(s, p) BY <1>0 DEF Serves
<1>2. ASSUME NEW p \in Players, NEW b \in BOOLEAN, GmCommand(p, b) PROVE OnlineIsTimed'
  <2>1. Post("remove", p) /\ UNCHANGED isLogin /\ gm = NoBan BY <1>2 DEF GmCommand, online
  <2>2. gm'.step = "logout" /\ gm'.player = p BY <1>2 DEF GmCommand
  <2>3. ops \in Seq(Ops) /\ expiring' = expiring BY <2>1 DEF TypeOK, Post
  <2>4. \A q \in Players \ {p} : Timed(q) => Timed(q)' BY <2>1, <2>3, PostOther
  <2>. QED BY <1>0, <1>1, <2>1, <2>2, <2>3, <2>4 DEF OnlineIsTimed, NoBan
<1>3. CASE GmOffline
  <2>1. gm.player \in Players /\ LogOut(gm.player) BY <1>3 DEF GmOffline, GmNamed, NoBan
  <2>2. isLogin'[gm.player] = 0 BY <2>1 DEF LogOut, TypeOK
  <2>3. \A p \in Players : isLogin'[p] = 1 => isLogin[p] = 1 BY <2>1, LoggedOut
  <2>4. UNCHANGED wheel BY <1>3 DEF GmOffline
  <2>5. \A p \in Players : Timed(p)' <=> Timed(p) BY <2>4 DEF wheel, Timed
  <2>. QED BY <1>0, <1>1, <2>2, <2>3, <2>4, <2>5 DEF OnlineIsTimed, wheel
<1>4. CASE GmRecord
  <2>1. UNCHANGED <<isLogin, wheel>> /\ gm.step # "logout" BY <1>4 DEF GmRecord, online
  <2>2. \A p \in Players : Timed(p)' <=> Timed(p) BY <2>1 DEF wheel, Timed
  <2>. QED BY <1>0, <1>1, <2>1, <2>2 DEF OnlineIsTimed, wheel
<1>. QED BY <1>2, <1>3, <1>4 DEF GmStep

LEMMA TimedInductive == Spec => []OnlineIsTimed
<1>1. Init => OnlineIsTimed BY DEF Init, OnlineIsTimed
<1>2. IInv /\ OnlineIsTimed /\ [Next]_vars => OnlineIsTimed'
  <2>. SUFFICES ASSUME IInv, OnlineIsTimed, [Next]_vars PROVE OnlineIsTimed' OBVIOUS
  <2>1. TypeOK /\ GmNamed BY DEF IInv
  <2>2. CASE UNCHANGED vars
    BY <2>2 DEF vars, request, wheel, ban, online, OnlineIsTimed, Timed, Serves
  <2>. QED BY <2>1, <2>2, RequestTimed, WheelTimed, GmTimed DEF Next, Quiet
<1>. QED BY <1>1, <1>2, Inductive, PTL DEF Spec

\* Every variable keeps its type: op_chan never holds more than its capacity and a
\* request inside a handler of _process_one_client_msg has a player.
THEOREM TypeCorrect == Spec => []TypeOK
BY Inductive, PTL DEF IInv

\* _process_one_client_msg: a player that did not log in while a handler of his
\* ran has one handler running at a time.
THEOREM HandlersExclude == Spec => []OneHandler
BY Inductive, PTL DEF IInv

\* is_lock is never left at 1 with nobody to clear it: neither a panic in a handler
\* nor OnLogin locks a player out for good.
THEOREM LockIsAlwaysHeld == Spec => []LockIsHeld
BY Inductive, PTL DEF IInv

\* OnLogin and OnLogout: one logout notice to the login server for each time online.
THEOREM OneNoticePerSession == Spec => []NoticePerSession
BY Inductive, PTL DEF IInv

\* G2G_Proc.BanPlayer: a banned player is offline, unless the ban found him online
\* again or past the ban check of a login.
THEOREM BannedAreOut == Spec => []BannedStaysOut
<1>1. BannedHadRaced => BannedStaysOut BY DEF BannedHadRaced, BannedStaysOut
<1>. QED BY <1>1, BansInductive, PTL

\* _process_client_msgs and the wheel: a player online has a timer, there or on its way,
\* a request that will restart it or a logout under way, unless a request dropped him.
THEOREM OnlineHasTimer == Spec => []OnlineIsTimed
BY TimedInductive, PTL

=============================================================================
