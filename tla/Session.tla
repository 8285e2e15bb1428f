------------------------------ MODULE Session ------------------------------
(***************************************************************************)
(* The online state of players in the game server.  A request is an HTTP   *)
(* request with a list of messages, served by a goroutine of its own       *)
(* (client_msg_handler); the messages of one player are meant to be        *)
(* processed one at a time, guarded by the player's is_lock.  is_login says*)
(* whether the player is online: EnterGame and Reconnect set it, LeaveGame,*)
(* a ban and the timeout wheel clear it.  At its end a request restarts the*)
(* player's timer through the wheel's op_chan.                             *)
(*                                                                         *)
(* The wheel is abstract here: a player it watches may expire at any time  *)
(* (TimerWheel says when).  The players exist already (PlayerIds creates   *)
(* them).                                                                  *)
(***************************************************************************)
EXTENDS Naturals, Sequences, FiniteSets

CONSTANTS
  Players,   \* the players of this server
  Requests,  \* the HTTP requests, each served once
  MaxMsgs,   \* the messages a request carries at most
  MaxBans,   \* bound on the bans and pardons of the game masters
  OpCap,     \* capacity of op_chan (MaxClientConnections)
  Nobody     \* no player

ASSUME BoundsAssumption == MaxMsgs \in Nat \ {0} /\ MaxBans \in Nat /\ OpCap \in Nat \ {0}
ASSUME NobodyAssumption == Nobody \notin Players

VARIABLES
  isLock,    \* Player.is_lock
  isLogin,   \* Player.is_login
  token,     \* the number of the token LoginTokenMgr has for the player
  banned,    \* BanPlayers has a row with a start time for the player
  pc,        \* where each request is
  who,       \* the player each request is served for (p), Nobody for nil
  left,      \* the messages left in each request
  ops,       \* op_chan
  watched,   \* the players with a timer in the wheel
  expiring,  \* the player the wheel is logging out, Nobody if none
  gm,        \* the ban being carried out
  bans,      \* history: bans and pardons
  sessions,  \* history: times a player went online
  notices,   \* history: logout notices sent to the login server
  tainted,   \* history: players that logged in while a handler of theirs ran
  dropped,   \* history: players a request left without restarting their timer
  raced      \* history: players online or about to be when they were banned

request == <<pc, who, left>>
wheel   == <<ops, watched, expiring>>
ban     == <<banned, gm, bans, raced>>
vars    == <<isLock, isLogin, token, request, wheel, ban, sessions, notices, tainted, dropped>>

(***************************************************************************)
(* The places of a request: "open" between two messages, "locked" with     *)
(* is_lock taken, then in a handler, "handled" when the handler returned.  *)
(* The EnterGame handler (enter...) does not take is_lock.                 *)
(***************************************************************************)
Handlers == {"plain", "leave", "leaving", "reconnect", "retimed", "relogin"}
Locked   == Handlers \cup {"locked", "handled"}
Entering == {"enter", "unlocked", "entered"}
PCs      == {"sent", "open", "done"} \cup Locked \cup Entering

\* r holds the is_lock of its player, as far as r knows.
Holds(r, p) == pc[r] \in Locked /\ who[r] = p
\* Past the ban check and not online yet.
Admitted(r, p) == who[r] = p /\ pc[r] \in {"enter", "unlocked", "reconnect", "retimed", "relogin"}

Ops   == [op : {"insert", "remove"}, player : Players]
NoBan == [step |-> "none", player |-> Nobody, ban |-> FALSE]
Bans  == [step : {"none", "logout", "record"}, player : Players \cup {Nobody}, ban : BOOLEAN]

TypeOK ==
  /\ isLock   \in [Players -> {0, 1}]
  /\ isLogin  \in [Players -> {0, 1}]
  /\ token    \in [Players -> Nat]
  /\ banned   \in [Players -> BOOLEAN]
  /\ pc       \in [Requests -> PCs]
  /\ who      \in [Requests -> Players \cup {Nobody}]
  /\ left     \in [Requests -> 0..MaxMsgs]
  /\ ops      \in Seq(Ops) /\ Len(ops) <= OpCap
  /\ watched  \in SUBSET Players
  /\ expiring \in Players \cup {Nobody}
  /\ gm       \in Bans
  /\ bans     \in 0..MaxBans
  /\ sessions \in [Players -> Nat]
  /\ notices  \in [Players -> Nat]
  /\ tainted \in SUBSET Players /\ dropped \in SUBSET Players /\ raced \in SUBSET Players
  /\ \A r \in Requests : pc[r] \in Locked \cup Entering => who[r] # Nobody

Init ==
  /\ isLock = [p \in Players |-> 0]
  /\ isLogin = [p \in Players |-> 0]
  /\ token = [p \in Players |-> 0]
  /\ banned = [p \in Players |-> FALSE]
  /\ pc = [r \in Requests |-> "sent"]
  /\ who = [r \in Requests |-> Nobody]
  /\ left = [r \in Requests |-> MaxMsgs]
  /\ ops = <<>> /\ watched = {} /\ expiring = Nobody
  /\ gm = NoBan /\ bans = 0
  /\ sessions = [p \in Players |-> 0]
  /\ notices = [p \in Players |-> 0]
  /\ tainted = {} /\ dropped = {} /\ raced = {}

-----------------------------------------------------------------------------
(* What several handlers do *)

Goto(r, place) == pc' = [pc EXCEPT ![r] = place]

\* Insert and Remove block while op_chan is full.
Post(op, p) ==
  /\ Len(ops) < OpCap
  /\ ops' = Append(ops, [op |-> op, player |-> p])
  /\ UNCHANGED <<watched, expiring>>

\* Mutant of LogOut: a plain store instead of the compare-and-swap.
LogOutStore(p) ==
  /\ isLogin' = [isLogin EXCEPT ![p] = 0]
  /\ notices' = [notices EXCEPT ![p] = @ + 1]
  /\ UNCHANGED sessions

\* Player.OnLogout after the timer: only who turns is_login off sends the notice.
LogOut(p) ==
  /\ isLogin' = [isLogin EXCEPT ![p] = 0]
  /\ notices' = [notices EXCEPT ![p] = @ + isLogin[p]]
  /\ UNCHANGED sessions

LogIn(p) ==
  /\ isLogin' = [isLogin EXCEPT ![p] = 1]
  /\ sessions' = [sessions EXCEPT ![p] = @ + (1 - isLogin[p])]
  /\ UNCHANGED notices

online == <<isLogin, sessions, notices>>

-----------------------------------------------------------------------------
(* Requests *)

\* client_msg_handler admits a request that carries the player's token, and
\* refuses one with an older token.
Admit(r, p, t) ==
  /\ pc[r] = "sent"
  /\ IF t = token[p]
     THEN Goto(r, "open") /\ who' = [who EXCEPT ![r] = p]
     ELSE Goto(r, "done") /\ UNCHANGED who
  /\ UNCHANGED <<left, isLock, online, token, wheel, ban, tainted, dropped>>

NextMsg(r) ==
  /\ pc[r] = "open" /\ left[r] > 0
  /\ left' = [left EXCEPT ![r] = @ - 1]

\* C2SEnterGameRequestHandler for the account of q: no lock, q becomes the player
\* of the request.  It returns nil for an unknown account or a banned player.
EnterGame(r, q) ==
  /\ NextMsg(r)
  /\ ~banned[q]
  /\ Goto(r, "enter")
  /\ who' = [who EXCEPT ![r] = q]
  /\ dropped' = dropped \cup ({who[r]} \ {q, Nobody})
  /\ UNCHANGED <<isLock, online, token, wheel, ban, tainted>>

EnterRefused(r) ==
  /\ NextMsg(r)
  /\ who' = [who EXCEPT ![r] = Nobody]
  /\ dropped' = dropped \cup ({who[r]} \ {Nobody})
  /\ UNCHANGED <<pc, isLock, online, token, wheel, ban, tainted>>

\* OnLogin, after the player's row is read or made: is_lock, then is_login.
OnLoginUnlock(r) ==
  /\ pc[r] = "enter"
  /\ isLock' = [isLock EXCEPT ![who[r]] = 0]
  /\ tainted' = IF \E s \in Requests : Holds(s, who[r]) THEN tainted \cup {who[r]} ELSE tainted
  /\ Goto(r, "unlocked")
  /\ UNCHANGED <<who, left, online, token, wheel, ban, dropped>>

OnLoginOnline(r) ==
  /\ pc[r] = "unlocked"
  /\ LogIn(who[r])
  /\ Goto(r, "entered")
  /\ UNCHANGED <<who, left, isLock, token, wheel, ban, tainted, dropped>>

Entered(r) ==
  /\ pc[r] = "entered"
  /\ Goto(r, "open")
  /\ UNCHANGED <<who, left, isLock, online, token, wheel, ban, tainted, dropped>>

\* A panic in EnterGame ends the request: nothing is inserted into the wheel.
EnterPanic(r) ==
  /\ pc[r] \in Entering
  /\ Goto(r, "done")
  /\ dropped' = dropped \cup {who[r]}
  /\ UNCHANGED <<who, left, isLock, online, token, wheel, ban, tainted>>

\* Mutant of Lock: the result of the compare-and-swap is ignored.
LockIgnored(r) ==
  /\ who[r] # Nobody /\ NextMsg(r)
  /\ isLock' = [isLock EXCEPT ![who[r]] = 1]
  /\ Goto(r, "locked")
  /\ UNCHANGED <<who, online, token, wheel, ban, tainted, dropped>>

\* _process_one_client_msg: the compare-and-swap on is_lock; a message that finds
\* it taken is answered "too frequently".
Lock(r) ==
  /\ who[r] # Nobody /\ NextMsg(r)
  /\ isLock' = [isLock EXCEPT ![who[r]] = 1]
  /\ Goto(r, IF isLock[who[r]] = 0 THEN "locked" ELSE "open")
  /\ UNCHANGED <<who, online, token, wheel, ban, tainted, dropped>>

\* Mutant of Dispatch: reconnect does not look at the ban.
DispatchBanned(r, handler) ==
  /\ pc[r] = "locked"
  /\ Goto(r, IF handler # "reconnect" /\ isLogin[who[r]] = 0 THEN "handled" ELSE handler)
  /\ UNCHANGED <<who, left, isLock, online, token, wheel, ban, tainted, dropped>>

\* An offline player may only reconnect; a banned one may not.
Dispatch(r, handler) ==
  /\ pc[r] = "locked"
  /\ Goto(r, IF (handler # "reconnect" /\ isLogin[who[r]] = 0)
                \/ (handler = "reconnect" /\ banned[who[r]]) THEN "handled" ELSE handler)
  /\ UNCHANGED <<who, left, isLock, online, token, wheel, ban, tainted, dropped>>

\* A game message: nothing that this module looks at.
Plain(r) ==
  /\ pc[r] = "plain"
  /\ Goto(r, "handled")
  /\ UNCHANGED <<who, left, isLock, online, token, wheel, ban, tainted, dropped>>

\* C2SLeaveGameRequestHandler: OnLogout(true).
LeaveTimer(r) ==
  /\ pc[r] = "leave"
  /\ Post("remove", who[r])
  /\ Goto(r, "leaving")
  /\ UNCHANGED <<who, left, isLock, online, token, ban, tainted, dropped>>

LeaveOffline(r) ==
  /\ pc[r] = "leaving"
  /\ LogOut(who[r])
  /\ Goto(r, "handled")
  /\ UNCHANGED <<who, left, isLock, token, wheel, ban, tainted, dropped>>

\* Player.reconnect after the ban check: a new token, the timer, is_login.
ReconnectToken(r) ==
  /\ pc[r] = "reconnect"
  /\ token' = [token EXCEPT ![who[r]] = @ + 1]
  /\ Goto(r, "retimed")
  /\ UNCHANGED <<who, left, isLock, online, wheel, ban, tainted, dropped>>

ReconnectTimer(r) ==
  /\ pc[r] = "retimed"
  /\ Post("remove", who[r])
  /\ Goto(r, "relogin")
  /\ UNCHANGED <<who, left, isLock, online, token, ban, tainted, dropped>>

ReconnectOnline(r) ==
  /\ pc[r] = "relogin"
  /\ LogIn(who[r])
  /\ Goto(r, "handled")
  /\ UNCHANGED <<who, left, isLock, token, wheel, ban, tainted, dropped>>

\* The compare-and-swap that gives is_lock back.
Unlock(r) ==
  /\ pc[r] = "handled"
  /\ isLock' = [isLock EXCEPT ![who[r]] = 0]
  /\ Goto(r, "open")
  /\ UNCHANGED <<who, left, online, token, wheel, ban, tainted, dropped>>

\* Mutant of Panic: the deferred function does not clear is_lock.
PanicLocked(r) ==
  /\ pc[r] \in {"plain", "handled"}
  /\ Goto(r, "open")
  /\ UNCHANGED <<who, left, isLock, online, token, wheel, ban, tainted, dropped>>

\* A panic in a game handler or while its answer is collected: the deferred
\* recover clears is_lock and the request goes on with its next message.
Panic(r) ==
  /\ pc[r] \in {"plain", "handled"}
  /\ isLock' = [isLock EXCEPT ![who[r]] = 0]
  /\ Goto(r, "open")
  /\ UNCHANGED <<who, left, online, token, wheel, ban, tainted, dropped>>

\* Mutant of Close: the request forgets the timer.
CloseUntimed(r) ==
  /\ pc[r] = "open" /\ left[r] < MaxMsgs
  /\ Goto(r, "done")
  /\ UNCHANGED <<who, left, isLock, online, token, wheel, ban, tainted, dropped>>

\* The end of _process_client_msgs: the player's timer starts anew.  A request
\* whose player is nil restarts none.
Close(r) ==
  /\ pc[r] = "open" /\ left[r] < MaxMsgs
  /\ IF who[r] = Nobody THEN UNCHANGED wheel ELSE Post("insert", who[r])
  /\ dropped' = dropped \ {who[r]}
  /\ Goto(r, "done")
  /\ UNCHANGED <<who, left, isLock, online, token, ban, tainted>>

-----------------------------------------------------------------------------
(* The wheel *)

\* Run takes an operation from op_chan.
WheelOp ==
  /\ expiring = Nobody /\ ops # <<>>
  /\ watched' = IF Head(ops).op = "insert" THEN watched \cup {Head(ops).player}
                ELSE watched \ {Head(ops).player}
  /\ ops' = Tail(ops)
  /\ UNCHANGED <<expiring, request, isLock, online, token, ban, tainted, dropped>>

\* The time of p is over: its timer goes, then OnLogout(false).
Expire(p) ==
  /\ expiring = Nobody /\ p \in watched
  /\ watched' = watched \ {p}
  /\ expiring' = p
  /\ UNCHANGED <<ops, request, isLock, online, token, ban, tainted, dropped>>

\* Mutant of ExpireOffline: the timer goes, the player stays online.
ExpireOnline ==
  /\ expiring # Nobody
  /\ expiring' = Nobody
  /\ UNCHANGED <<ops, watched, request, isLock, online, token, ban, tainted, dropped>>

ExpireOffline ==
  /\ expiring # Nobody
  /\ LogOut(expiring)
  /\ expiring' = Nobody
  /\ UNCHANGED <<ops, watched, request, isLock, token, ban, tainted, dropped>>

-----------------------------------------------------------------------------
(* Game masters: G2G_Proc.BanPlayer logs the player out, then sets the row *)

GmCommand(p, isBan) ==
  /\ gm = NoBan /\ bans < MaxBans
  /\ bans' = bans + 1
  /\ Post("remove", p)
  /\ gm' = [step |-> "logout", player |-> p, ban |-> isBan]
  /\ UNCHANGED <<banned, raced, request, isLock, online, token, tainted, dropped>>

GmOffline ==
  /\ gm.step = "logout"
  /\ LogOut(gm.player)
  /\ gm' = [gm EXCEPT !.step = "record"]
  /\ UNCHANGED <<banned, bans, raced, request, isLock, token, wheel, tainted, dropped>>

GmRecord ==
  /\ gm.step = "record"
  /\ LET p == gm.player IN
     /\ banned' = [banned EXCEPT ![p] = gm.ban]
     /\ raced' = IF gm.ban /\ ~banned[p]
                 THEN IF isLogin[p] = 1 \/ \E r \in Requests : Admitted(r, p)
                      THEN raced \cup {p} ELSE raced \ {p}
                 ELSE raced
  /\ gm' = NoBan
  /\ UNCHANGED <<bans, request, isLock, online, token, wheel, tainted, dropped>>

-----------------------------------------------------------------------------

RequestStep(r) ==
  \/ \E p \in Players : \E t \in 0..token[p] : Admit(r, p, t)
  \/ \E q \in Players : EnterGame(r, q)
  \/ EnterRefused(r) \/ OnLoginUnlock(r) \/ OnLoginOnline(r) \/ Entered(r) \/ EnterPanic(r)
  \/ Lock(r)
  \/ \E h \in {"plain", "leave", "reconnect"} : Dispatch(r, h)
  \/ Plain(r) \/ LeaveTimer(r) \/ LeaveOffline(r)
  \/ ReconnectToken(r) \/ ReconnectTimer(r) \/ ReconnectOnline(r)
  \/ Unlock(r) \/ Panic(r) \/ Close(r)

WheelStep == WheelOp \/ ExpireOffline \/ \E p \in Players : Expire(p)

GmStep == GmOffline \/ GmRecord \/ \E p \in Players, b \in BOOLEAN : GmCommand(p, b)

\* Every request was served and nothing is left to time out.
Quiet ==
  /\ \A r \in Requests : pc[r] = "done"
  /\ ops = <<>> /\ watched = {} /\ expiring = Nobody /\ gm = NoBan
  /\ UNCHANGED vars

Next == (\E r \in Requests : RequestStep(r)) \/ WheelStep \/ GmStep \/ Quiet

Spec == Init /\ [][Next]_vars

(***************************************************************************)
(* Goroutines run on once they started, the wheel takes every operation    *)
(* and, requests being finitely many, each timer that is not restarted     *)
(* runs out (SF because logging out another player may come first).        *)
(***************************************************************************)
Fairness ==
  /\ \A r \in Requests : WF_vars(RequestStep(r))
  /\ WF_vars(WheelOp) /\ WF_vars(ExpireOffline) /\ WF_vars(GmOffline \/ GmRecord)
  /\ \A p \in Players : SF_vars(Expire(p))

FairSpec == Spec /\ Fairness

-----------------------------------------------------------------------------
(* Properties *)

(***************************************************************************)
(* A player's messages are processed one at a time ("prev msg is           *)
(* processing"), unless he logged in while one of his handlers was         *)
(* running: OnLogin stores 0 into is_lock.                                 *)
(***************************************************************************)
OneHandler ==
  \A p \in Players \ tainted, r, s \in Requests : Holds(r, p) /\ Holds(s, p) => r = s

(***************************************************************************)
(* is_lock is never left taken: whoever logs in, panics or releases a lock *)
(* that is not its own, while it is 1 some handler will still release it.  *)
(***************************************************************************)
LockIsHeld == \A p \in Players : isLock[p] = 1 => \E r \in Requests : Holds(r, p)

(***************************************************************************)
(* The login server gets exactly one logout notice for each time a player  *)
(* was online, although a handler, a game master and the wheel may all log *)
(* the player out at once.                                                 *)
(***************************************************************************)
NoticePerSession == \A p \in Players : sessions[p] = notices[p] + isLogin[p]

(***************************************************************************)
(* A player online has a timer in the wheel or one on its way there, a     *)
(* request that will restart it, or a logout under way, whatever the order *)
(* in which requests, the wheel and a game master post to op_chan.  The    *)
(* exceptions are players whose request ended without Insert: a panic in   *)
(* EnterGame, or an EnterGame for another or an unknown account.           *)
(***************************************************************************)
\* The last operation of p on its way is Insert, or p has none there and a timer.
Timed(p) ==
  IF \E i \in 1..Len(ops) : ops[i].player = p
  THEN \E i \in 1..Len(ops) : /\ ops[i].op = "insert" /\ ops[i].player = p
                               /\ \A j \in i+1..Len(ops) : ops[j].player # p
  ELSE p \in watched

\* r is at work for p.
Serves(r, p) == who[r] = p /\ pc[r] \notin {"sent", "done"}

OnlineIsTimed ==
  \A p \in Players \ dropped : isLogin[p] = 1 =>
    \/ Timed(p) \/ expiring = p
    \/ gm.step = "logout" /\ gm.player = p
    \/ \E r \in Requests : Serves(r, p)

(***************************************************************************)
(* A banned player is offline, unless the ban was recorded while the       *)
(* player was online again or past the ban check of a login.               *)
(***************************************************************************)
BannedStaysOut == \A p \in Players : banned[p] /\ isLogin[p] = 1 => p \in raced

(***************************************************************************)
(* A player that sends no more requests goes offline in the end, and with  *)
(* it the login server is told.                                            *)
(***************************************************************************)
SilentGoesOffline ==
  \A p \in Players : isLogin[p] = 1 ~> (isLogin[p] = 0 \/ p \in dropped)

-----------------------------------------------------------------------------
(* The inductive invariant behind OneHandler, LockIsHeld, NoticePerSession *)

\* The handler of a player that is not tainted has is_lock.
HolderHasLock ==
  \A p \in Players \ tainted, r \in Requests : Holds(r, p) => isLock[p] = 1

\* A command of a game master names its player.
GmNamed == gm # NoBan => gm.player \in Players

\* Behind BannedStaysOut: who is online or past the ban check when banned, raced.
BannedHadRaced ==
  \A p \in Players : banned[p] /\ (isLogin[p] = 1 \/ \E r \in Requests : Admitted(r, p)) => p \in raced

IInv == TypeOK /\ GmNamed /\ HolderHasLock /\ OneHandler /\ LockIsHeld /\ NoticePerSession

=============================================================================
