# Verification of mm_server

TLA+ modules, TLC runs and TLAPS proofs about the servers of this repository: a
game server with its clients' sessions and a write-behind cache over MySQL, a
login server, a center server that introduces them to each other, and an rpc
server that forwards calls between game servers. Everything is in Go; there are
no tests, and the only documents are log lines and comments. Names in the modules
are those of the code wherever TLA+ allows it; `PROJECT.json` ("map") gives the
lines that each definition stands for.

## 1. The system

### Processes

    client --HTTP--> login_server --TCP--> game_server <--TCP-- center_server
       \--------------HTTP----------------->   |  ^
                                               |  +--rpc--> rpc_server <--rpc-- other game servers
                                               +--> MySQL (cache a_db_tables.go), redis

* `login_server` registers accounts, checks passwords, binds guests, and gives the
  client a token and the address of a game server, which it tells the token.
* `game_server` serves the client's messages over HTTP requests, each request in
  a goroutine; it keeps all players in memory, loaded at boot.
* `center_server` is the registry through which game and login servers meet.
* `rpc_server` relays calls between game servers and keeps the rank lists.

### Components, their state, their operations

| Component | State | Operations | What is hard | What makes it correct | Module |
|---|---|---|---|---|---|
| Database cache (`a_db_tables.go`, generated; one per server) | `m_rows`, `m_new_rows` per table, a changed flag per column, `m_new` per row, `m_quit`, `m_shutdown_completed`; MySQL | GetRow, AddRow, setters, Save (passes of `DBC.Loop` and of Shutdown), Shutdown, Preload | flags are cleared before the statement runs; two goroutines run passes; passes end early; failed statements; crashes | clean means stored, no duplicate INSERT, nothing goes back, a clean exit loses nothing, every write arrives, a shutdown ends | `DbTable` |
| Player creation (`player_manager.go`, `a_db_ext.go`) | id counter of the Global row, `id2players`, `uid2players`, Players table | EnterGame of a new account, GetNextPlayerId, Add2IdMap, Add2UidMap, on_preload | no lock over check and creation; the counter is saved apart from the players | ids drawn once, a row keeps its owner | `PlayerIds` |
| Client sessions (`msg_handler.go`, `player.go`, `player_manager.go`, `rpc_gm_proc.go`) | `is_lock`, `is_login`, token, BanPlayers, op_chan | messages of a request, EnterGame, LeaveGame, Reconnect, BanPlayer, timeout, panics | several requests of one player, the wheel and game masters at once; defer and recover | one handler per player, the lock is given back, one notice per session, nobody stays online for ever, a ban holds | `Session` |
| Connection timeout wheel (`conn_timer_wheel.go`) | a ring of lists, an index, the time of the last check | Insert, Remove, one round of Run | index arithmetic when a round is late | a countdown per player | `TimerWheel` |
| Month cards (`player_charge.go`) | Pays column, `players_map`, `player_ids_chan` | purchase, rounds of the manager | purchase and manager write the same fields, a game master's purchase takes no lock, crashes | never overpaid, never forgotten, paid to the day | `MonthCard` |
| Purchase verification (`pay.go`) | `is_paying`, orders in redis, rows of the rpc server | verify Google and Apple receipts, record, reward | repeated requests, one receipt from two players, look-up and record apart, a broken redis connection, a panic before the reward, crashes | one reward per order, is_paying given back, what is recorded is rewarded | `Pay` |
| Mail (`player_mail.go`) | Mails, MailCommon, SysMail columns, `new_mail_ids`, `receive_mail_locker`, SysMails table | send, list, take attachments, delete, announce, mails to everybody | many senders to one receiver while the owner lists and deletes | capacity, none forgotten, announced when whole and paid for, each mail to everybody arrives | `Mail` |
| Friends (`player_friend.go`) | Friends, FriendReqs, FriendPoints, FriendRelative on two players | ask, agree, refuse, remove, give and take points | the other side on another server; calls that fail half-way | friendship of both sides, one gift a day, taken once, limited | `Friends` |
| Messages between friends (`player_friend.go`) | FriendChatUnreadIds, FriendChatUnreadMessages | chat, pull, confirm, unfriend | two columns, two goroutines, ids used again | accepted stays unread until confirmed, order, nothing unseen confirmed | `FriendChat` |
| Chat (`chat.go`, `simple_item_pool.go`) | linked list over a pool, a pointer per player | push, pull, recycle | recycled items that players point to | list and pool whole, order, read on without gap | `Chat` |
| Login tokens (`login_token.go`) | `uid2token`, `acc2uid`, redis | add, bind, check, load | restart, rebinding | the token of memory and redis agree | |
| Foster care and the game rules (`player_foster.go`, `player_*.go`) | one player's columns | about a hundred message handlers | timed buildings, crops, expeditions | rules of the game | |
| Login server | Accounts table, agents of game servers | register, bind, login, select server, agents come and go | check then act; reconnects out of order | one row per account, agents are the live ones | |
| Center server | registries of servers and groups | register, get address | reconnects | addresses are those of live servers | |
| Rpc server | connections of game servers, rank lists, ChargeSave | forward calls, update ranks | lost connections | ranks sorted; a call is answered | (`Pay`, `Friends`) |
| Rank lists (`skiplist.go`, `ranklist.go`, `short_ranklist.go`) | skip list with spans; sorted array | insert, delete, rank | spans, ties, full lists | equal to a sorted sequence | |
| Redis connection (`redis_conn.go`) | connection, `disc` | Do, Post, Run, Close | Run and callers, Close | Close returns | (`Pay`) |

### How they interact

Handlers call the cache's setters directly and never wait for MySQL. A request
enters the game through the token that the login server sent to the game server;
the game server notifies the login server of a logout. Requests talk to the timeout
wheel through `op_chan`; purchases to the month card manager through
`player_ids_chan`. Game masters act on players through rpc calls that take no
lock of the player. Calls about a player of another game server go to the rpc
server and, from there, to that game server. Shutdown stops redis, the listener
and the rpc services, then makes a pass of its own over the cache and waits for
the cache's loop.

## 2. The modules

| Module | Stands for | Composes |
|---|---|---|
| `DbTable` | one table of the generated cache with both savers | |
| `PlayerIds` | creation of players, the counter of the Global row, the maps, restart | extends `DbTable` (the Players table) |
| `Session` | requests, is_lock, is_login, logins, logouts, bans, timeouts | abstracts the wheel to "a watched player may expire" |
| `TimerQueue` | what the wheel promises: a countdown per player | |
| `TimerWheel` | `ConnTimerWheel` with its lists and indexes | implements `TimerQueue` |
| `MonthCard` | purchases of month cards beside the manager | abstracts `DbTable` to "a pass stores the row" |
| `Pay` | purchases with a receipt, redis and the rpc server | abstracts `DbTable` the same way, `Session` to "two requests may run at once" |
| `Mail` | the mail boxes and the mails to everybody | owner's requests one at a time (`Session`) |
| `Friends` | friendships and friend points over two rows and two servers | owner's requests one at a time (`Session`) |
| `FriendChat` | unread messages between two friends | the friendship as in `Friends`, on one server |
| `Chat` | a chat channel over a pool of items | |
| `MCDbTable`, `MCPlayerIds`, `MCSession`, `MCTimerWheel`, `MCMonthCard`, `MCPay`, `MCMail`, `MCFriends`, `MCFriendChat`, `MCChat` | instances for TLC: sets, symmetry, constraints | |
| `PlayerIdsProofs` (with `DbTable`), `SessionProofs`, `TimerWheelProofs`, `MonthCardProofs`, `PayProofs`, `MailProofs`, `FriendsProofs`, `ChatProofs` (`FriendChat` and `Chat`) | theorems and their proofs | |

### DbTable

`rows` and `newRows` are `m_rows` and `m_new_rows`; a row has a version per
column, the set of columns with their `m_changed` flag, and `m_new`. A setter
writes the next version. A client that adds a row first looks for it (`CheckRow`)
and then calls AddRow (`AddRow`), as every caller in the code does, with no lock
over the two. A saver (`Loop`, `Stopper`) copies the keys (`BeginPass`), then for each row
builds the statement and clears the flags (`SaveData`, under the row's lock) and
runs it (`ExecOk`, `ExecFail`); then it moves the rows added since
(`FetchNewRows`) and saves those. `m_quit` cuts an ordinary pass short
(`StopSaving`) but not the last one. `SkipPass` is the early return of `DBC.Save`
when the Global table fails. `SetQuit` and `Exit` are `DBC.Shutdown`, `Crash` is
the loss of memory and the Preload that follows.

MySQL is what the code sees of it: a duplicate INSERT is refused, an UPDATE of a
missing row does nothing and is no error, every statement is atomic.

### PlayerIds

The keys are ids. A handler passes through the steps of
`C2SEnterGameRequestHandler`: no player of that unique id (`EnterGame`), the
atomic add on the counter (`NextPlayerId`), its flag (`FlagCounter`), the row
(`AddPlayerRow`), its unique id (`SetUniqueId`), both maps (`Add2IdMap`,
`Add2UidMap`). A save writes the Global row first (`BeginSave`,
`GlobalSaved`, `GlobalFailed`), then is a pass of `DbTable`. `owner` and `newOwner` say whose row is
whose; `Restart` is `on_preload` after a crash, when rows with one unique id come
in any order. `EnterGame` calls AddRow without looking for a row first, so `CheckRow` of `DbTable`
is not used here.

### Session

A request is "sent", admitted with the current token or refused, then goes
through up to `MaxMsgs` messages. A message other than EnterGame takes `is_lock` (`Lock`), is
dispatched (`Dispatch`), handled and unlocked; EnterGame (`EnterGame`,
`OnLoginUnlock`, `OnLoginOnline`, `Entered`) never takes it. `Panic` and
`EnterPanic` are the two deferred functions. The end of a request posts Insert
(`Close`). The wheel takes operations (`WheelOp`) and logs out who expired in two
steps (`Expire`, `ExpireOffline`). A ban is three steps of `BanPlayer`
(`GmCommand`, `GmOffline`, `GmRecord`). What a game handler does to the player's
data is the step `Plain`.

Three history variables name the exceptions of the properties, each defined by an
event of the code and not by the violation: `tainted` (logged in while one of his
handlers ran), `dropped` (a request ended without Insert), `raced` (online, or
past the ban check, at the moment the ban was recorded).

### TimerQueue and TimerWheel

`TimerQueue` has a number of seconds per player. `TimerWheel` has the `3 *
HeartbeatInterval` lists, `curr_timer_index`, `last_check_time`, and a round of
`Run` in its steps: operations, `ReadClock`, then list after list (`Expire`,
`NextList`, `EndSweep`), then sleep. The clock runs on beside it (`Tick`), so a
round may find that more than a full turn went by. A player's node is unlinked at
its place (`Unlink`, `ConnTimerList.remove`), which the entry in `players` points to.
The refinement maps a timer to its distance from the index (`Due`) and the seconds of
a round to those between its two clock readings (`Elapsed`).

### MonthCard

`pays` is the Pays column of one player. A purchase reads whether the card has a
row (`Charge`), verifies the receipt (`NotVerified` when it fails), then either
adds the row (`AddCard`) or renews it with three separate calls (`Renew`,
`ResetSendMailNum`, `ResetLastAwardTime`) and sends the player to the manager
(`InsertPlayer`). The manager drains its channel (`Drain`), reads the time
(`StartRound`), checks for an active card (`CheckCards`) and deletes the player
later (`DeletePlayer`), or goes card by card: `ReadLastAwardTime`, `ReadSendMailNum`, then
`SendMail` and `CountMail` for each day, `SetLastAwardTime`. Days are counted as
`GetDaysNumToLastSaveTime` does. `SaveRow` and `Restart` are the passes of the
cache and a crash. One player is modelled: the manager treats its players alike and
independently.

### Pay

A request is any player with any order (`Charge`): the code ties no receipt to a
player. It tests its player's `is_paying` (`TakePaying`; an order for another
product leaves it set, `WrongProduct`). A Google order is looked up in redis first
(`CheckExists`, `CheckFails` when the connection is down), then verified
(`Verified`, `NotVerified`), then recorded by a Post that is lost while the
connection is down (`SaveOrder`, `SaveFails`); an Apple order is verified first,
perhaps again with the sandbox, and looked up and recorded after it. The row of
the rpc server (`ChargeSave`) and the flag (`ReleasePaying`) follow, for an Apple
order the report to a service of statistics (`PostTalkingData`; `PostPanics` when
the POST fails and the response that is not there is closed, a panic that
`_process_one_client_msg` recovers from), and the reward (`Reward`). `SaveRow` is a
pass of the cache, `Break` and `Reconnect` are the connection to redis, `Crash`
loses memory and what the passes have not stored.

Five history variables name the orders and players for which an event of the code
excuses a property: `unsure` (redis was asked or told in vain), `shared` (recorded
while another player's request was between its look-up and its own record of the
same order: who of the two is first is nowhere decided), `lost` (a crash took the
reward back), `panicked` (the panic above came between record and reward), `stuck`
(the flag was left set). Without `shared` in `PaidOnce` TLC finds two players
rewarded for one receipt with redis answering all the time, and without `panicked`
in `RecordedIsGiven` a recorded order without its reward and without a crash.

### Mail

A goroutine in `RealSendMail` waits for `receive_mail_locker` (`LockReceiver`),
counts (`CountMails`), makes room (`RemoveOldest`), draws an id and adds the
mail (`AddMail`), attaches item after item (`AttachItem`; `AttachFails` when the
sender has too few or the owner deleted the mail meanwhile), then takes from the
sender's bag item after item (`AllAttached`, `PayItem`), unlocks (`Unlock`) and
notes the id for the owner (`CacheNewMail`). Senders are players (`SendMail`), administrators' commands
(`GmMail`) and the owner himself, who is sent the mails to everybody row by row
(`CheckSystemMail`, `SendSysMail`, `SetCurrId`) while the command that publishes
one fills its row (`AddSysMail`, `FillSysMail`, `SetCurrMailId`). The owner lists
(`ClearNewMails`, `ReadMailList`), takes attachments (`GetMailAttachedItems`,
`TakeItem`), deletes, and is told of new mails at the end of each request
(`CheckNewMail`).

An attachment is an item and the number the client sent, which may be negative.
`AddResource` is what ChkAddItemByNum does to a bag: an ordinary item is counted up
to its MaxNumber, one of `Timed` is renewed whatever the number. `ledger` remembers
what was ordered with each mail and, measured in the bag of the sender before and
after each payment, what he lost for it. `AnnouncedIsPaid` compares the two. Its
exceptions are those of the code: a number of nothing or below passes the only
check there is (`Enough`) and a timed item is not deducted. Without either exception
TLC finds a mail that is announced and not paid for. `MaxDebt` bounds how far below
nothing a bag can get by taking negative attachments.

### Friends

A request that concerns two players changes the row of the other and then his
own: `Ask` and `Refuse` are one step; `Agree` is `AgreeOther` and `AgreeOwn`,
`Remove` is `RemoveOther` and `RemoveOwn`. Between servers the first step is a call
that may fail before it ran or after (`CallFails`; then the friendship is
`torn`). Giving takes a list of friends (`Give`), one after the other: looking
(`GivePasses`), storing in the friend's row (`GiveStores`, `GiveFails`), counting
in one's own (`GiveCounts`). Taking is `TakeReads`, `TakeCredits`, `TakeClears`. `Refresh` is the count of the
day, `Midnight` and `NewDay` the clock: gifts are dated by the calendar
day and counted by the hour of refreshing.

### FriendChat

`Chat`, `CheckUnreadNumFull`, `AddNewMessageId`, `AddMessage` are the sender,
`Pull`, `GetMessageIds`, `GetMessage`, `PullAnswer` the receiver who reads, `Confirm`,
`ConfirmUnreadIds`, `ConfirmRemoves` the receiver who confirms, `RemoveFriend` to
`RemoveUnread` whoever ends the friendship, `Agree` and `AddToOwn` its renewal. Each
is what the code does under one lock of one row. `overlap` says that a friendship
ended over a request of the other.

### Chat

`head`, `tail`, `next`, `prev` are the list of `ChatMgr`, `free` its pool, `time` and
`text` what an item holds. A push holds the lock (`PushLock`), walks the list in
`recycle_old` (`RecycleExpired`, `RecyclePasses`), takes back the oldest message when
the pool is empty (`MakeRoom`) and links the new one (`AddLast`). Pulls share the lock:
`PullLock` finds the item after the one the player was last shown (`CurrMsg`), `Skip`
and `Show` are the turns of the loop, `PullUnlock` its end. For the properties, `list`
is what is linked, `stale` the players whose item went back to the pool, `answer`
the messages of a pull and the message shown before it.

## 3. The runs

Twelve runs, each with the question it asks.

| Run | Instance | Asks |
|---|---|---|
| `db` | 1 key, 2 columns, 1 client, 2 writes each, 1 failed statement, 1 crash, fair | `CleanMeansStored`, `ExitSavesAll`, `DbNeverGoesBack`, `WritesReachDb`, `ShutdownEnds`: may a row look saved that is not, does every write arrive? |
| `db_overlap` | 1 key, no faults | violates `LastPassSavesAll` (finding 1) |
| `session` | 1 player, 2 requests of 2 messages, 2 bans or pardons, op_chan of 1, fair | `OneHandler`, `LockIsHeld`, `NoticePerSession`, `OnlineIsTimed`, `BannedStaysOut`, `SilentGoesOffline` |
| `player_ids` | 2 handlers, 2 accounts, 2 ids, at most one of: crash, failed statement, overlap | `InsertIsFirst`, `IdsAreFresh`, `ExitCoversIds`, `RowKeepsItsOwner` |
| `ids_reuse` | 1 handler, 1 crash | violates `NeverReplaced` (finding 2) |
| `timer_wheel` | 2 players, interval 3 (9 lists), clock to 15 | `OneTimer`, `IsQueue` (refinement of `TimerQueue`) |
| `month_card` | 2 cards of 3 mails, 3 days, 2 purchases, 1 crash, fair | `ActiveIsWatched`, `NeverOverpaid`, `PaysByTheDay`, `PaidUpToDate` |
| `pay` | 2 players who send any of 3 orders, 3 requests two at a time, 1 break of redis, 1 crash | `PaidOnce`, `PayingIsHeld`, `RecordedIsGiven` |
| `mail` | 2 players, 1 box of one mail, 2 commands, 2 mails, one with -1 and 1 of an ordinary and 1 of a timed item, 2 mails to everybody | `CapacityKept`, `EveryMailIsSeen`, `AnnouncedIsPaid`, `SysMailsArrive` |
| `friends` | 3 players, 2 of them active and on two servers, 5 requests, 2 days, 1 reward a day | `FriendsBothWays`, `OneGiftADay`, `TakenOnce`, `GiftsAreLimited` |
| `friend_chat` | 5 messages over 3 ids | `AcceptedIsUnread`, `PulledInOrder`, `SeenBeforeConfirmed` |
| `chat` | 8 messages through a pool of 4, looks of 3, messages live 2 of 6 seconds | `ListAndPool`, `AnswersInOrder`, `ReadsOn` |

### The bounds, and why they are enough

* Two of everything that can race: savers, requests of one player, purchases,
  senders, commands. The hazards need two actors (three with the wheel, the owner
  or the game master, who are there in each run).
* Two columns matter where a statement writes some and not others (`db`). Several
  rows and two handlers that add rows are in `player_ids`, which extends
  `DbTable` with two keys. Two versions are one write before and one after the
  copy of a row.
* One fault at a time: a failed statement and a crash are each modelled once; in
  `player_ids` the constraint `OneFault` allows one of crash, failure or overlap,
  since the properties exclude them separately. `db` allows a failure and a crash
  in one behaviour, `pay` a break of redis and a crash.
* A session is of one player: what two players share are the wheel, of which
  `timer_wheel` has two, and op_chan, whose capacity of one makes every post wait.
* The wheel has nine lists and the clock goes to fifteen, past one full turn and
  the special case of `diff_secs >= lists_len`, with every place of the index at
  which a round can stall.
* A card of three mails over three days has a day without a round, a first day, a
  last mail and a renewal in between.
* A box of one mail is full after one, so that the second is evicted or
  refused, by every sender; two mails to everybody are published in and out of
  their order while a player is being sent one of them. The one list of
  attachments has a number below nothing, a positive one that the sender no longer
  has when he sends again, and a timed item, so that each way through a payment is
  taken.
* Three requests for orders are two that overlap and one that comes after them, of
  the same player or another one, for the same order or not.
* Five requests among three players make a friendship, end it, and give and take
  in it, with a torn call anywhere; two days have a midnight, and an hour of
  refreshing after it.
* Five messages over three ids use an id again; eight messages over four items
  recycle by age and by need, under a reader's pointer.
* Counters that the code never bounds are bounded in guards: `MaxVersion`,
  `MaxFailures`, `MaxCrashes`, `MaxMsgs`, `MaxBans`, `MaxId`, `MaxTime`, `MaxDay`,
  `MaxCharges`, `MaxMails`, `MaxRows`, `MaxRequests`, `MaxBreaks`, `MaxSent`.
  `OpCap` and `ChanCap` are capacities of the code's channels.

Symmetry is used in runs without liveness: accounts and handlers in
`player_ids` (`RowKeepsItsOwner` is an action property, which permutations
preserve), players and requests in `pay`, commands in `mail`. Deadlock
is checked except in the runs whose last request may be the end (`pay`,
`mail`, `friends`, `friend_chat`, `chat`).

### Fairness

* `DbTable!FairSpec`: `DBC.Loop` always runs on, with nothing that blocks it for
  ever, and so does the goroutine of Shutdown once it was started. Handlers, the
  beginning of a shutdown and crashes owe nothing. Weak fairness is enough.
* `Session!FairSpec`: a request that was sent runs on (its steps block only on
  `op_chan`), a ban that began too, and the wheel empties `op_chan` and finishes a
  logout (weak fairness). A timer that is not restarted runs out: strong fairness
  for each player, since the logout of others disables the step for a while.
  `TimerWheel` gives the reason: a round leaves out no timer that is due
  (`IsQueue`). Nobody has to send a request, to ban or to leave.
* `MonthCard!FairSpec`: the manager wakes every minute and a purchase that began
  goes on. Days may stop, nobody has to buy. `PaidUpToDate` therefore says that a
  card is paid up to the day on which time stands still, or runs out.

### What the runs found

1. `db_overlap`: GameServer.Shutdown calls `dbc.Save(false)` while the loop may be
   in a pass. The two can run the statements of one row in either order. All flags
   are clear afterwards, so the last `Save(true)`, before which the log says that
   all data is saved, writes nothing. `CleanMeansStored`, `ExitSavesAll` and
   `DbNeverGoesBack` hold as long as no passes overlapped, and say so.
2. `ids_reuse`: a pass stores the counter, later the players. After a crash between,
   ids of stored players are drawn again; `Add2IdMap` replaces the player in
   `id2players`. The stored row is never overwritten (`RowKeepsItsOwner`).

Other behaviours a reader of the code may not expect. Where a property has an
exception, it is named by an event in the model:

* `OnLogin` stores 0 into `is_lock` over a running handler of the same player
  (`tainted`, the exception of `OneHandler`).
* Two EnterGame requests of one new account make two players and two rows for it;
  the later one is in `uid2players`.
* A round of the manager between the two resets of a renewed card takes the old
  LastAwardTime for the new card and pays its days in advance (`raced`, the
  exception of `PaysByTheDay`).
* A crash between the record of an order and the next pass of the cache loses the
  purchase (`lost`), and so does a failed POST of `_post_talking_data` without a
  crash (`panicked`); a receipt for another product leaves `is_paying` set until
  the server restarts (`stuck`). Two players who send one receipt at once may both
  be rewarded (`shared`).
* A mail of a player with a number of nothing or below adds to his bag what it
  should take from it, and a timed item is in the mail and stays in the bag
  (`PaysInFull`).
* Attachments are given each time they are asked for: IsGetAttached is written and
  never read.
* A mail to everybody that is published after a later row is skipped by players
  who have that row already (`overtaken`).
* Agreeing asks for no request and may be to oneself; agreeing with a player of
  whom no server knows counts as done. A message to a friend on another server never
  arrives: the call is not in `id2rpc_funcs`. Points given between the
  read and the clear of the other's request are lost. Between midnight and the
  hour of refreshing nothing can be given.
* `AddNewMessageId`'s answer that the ids are full is never given: the check
  before it comes first. After ids were left without a message by an unfriending,
  a friend's messages may be refused for good.
* When the item a player was last shown is used again in the same second, the
  player may miss messages or see some twice (`stale`); a channel whose pool has
  one item becomes a ring, which `PoolAssumption` excludes.

Every property of a passing run has a mutant: a variant of one definition, a
bug that could plausibly be made there, under which TLC finds the property violated. They stand next to
the definition they vary and are marked "Mutant of".

## 4. The proofs

All constants are arbitrary: any number of keys, columns, clients, players,
requests, cards, orders, mails, friends, days, crashes. The assumptions are the
ASSUMEs of the modules: bounds are naturals (capacities and sizes positive), the
two savers differ, the "none" values are not values, ids are `1..MaxId`, the
players and the commands are different goroutines. Each module has
its inductive invariants at its end, and one lemma per action, or per part of the
invariant, in its proofs.

* `PlayerIdsProofs`, its first part, over `DbTable` alone (no assumption of
  `PlayerIds` is cited there): `TypeCorrect`, `CacheIsFaithful` (`CleanMeansStored`),
  `InsertsAreFirst` (`InsertIsFirst`). Neither property is inductive. `IInv` adds
  `PassesAlone` (a statement exists only inside a pass and, until passes overlap,
  one saver has one), `NewIsUnknown` (MySQL and the savers know nothing of a row
  that is new: what makes the first INSERT the first), `OneInsert` (one INSERT of
  a key under way, and before MySQL has the row), and `PendingCompletes` (the
  statement under way brings MySQL to what memory holds in the clean columns:
  what `SaveData` owes to `ExecOk`). On it rest `DbOnlyAdvances` (`DbNeverGoesBack`, by
  `NeverAhead`: no statement and no row in MySQL is newer than memory) and
  `ExitIsComplete` (`ExitSavesAll`): what memory held when `m_quit` was set it still
  holds (`QuitIsKept`), only the loop runs the last pass, and runs it alone
  (`QuitIsLate`), and that pass saved each row, is saving it or will come to it
  (`LastPassCovers`).
* `PlayerIdsProofs`, its second part: `IdsStayFresh` (`IdsAreFresh`). `IdsIInv` adds that until a
  crash nobody, in a map or in a handler, has an id above the counter.
  `OwnersStay` (`RowKeepsItsOwner`) and `ExitKeepsIdsApart` (`ExitCoversIds`) take the
  invariants of the first part with them. The first adds that an UPDATE writes only
  columns that a handler set (`UpdatesAreSet`); the second that a saver at the Global row
  is alone (`SavingIsAlone`) and that the id of every row is covered by the counter in
  MySQL, on its way there, or flagged (`CounterCovers`).
* `SessionProofs`: `TypeCorrect`, `HandlersExclude` (`OneHandler`),
  `LockIsAlwaysHeld` (`LockIsHeld`), `OneNoticePerSession` (`NoticePerSession`),
  `BannedAreOut` (`BannedStaysOut`), `OnlineHasTimer` (`OnlineIsTimed`, inductive as it
  stands). `IInv` adds `HolderHasLock`: the handler of a player who did not log in over it
  still has `is_lock`. Without it `OneHandler` does not survive `Lock`. `BannedHadRaced`
  says of a player past the ban check what `BannedStaysOut` says of one online.
* `TimerWheelProofs`: `OneTimerAlways` (`OneTimer`) and `WheelIsQueue` (`IsQueue`), that
  is `Spec => Queue!Spec`: an initial state is one of the queue, and each step is its
  Insert, Remove, check or expiry, or leaves `due` and `elapsed` alone. What carries it
  is arithmetic modulo the number of lists: `AheadIs` says how far an index is ahead
  without the modulo. `DueInv`: a timer is at most the interval ahead of the index, a third of
  the ring, so that what lies ahead is never taken for what lies behind.
  `SweepInv`: the sweep has left no timer behind it and has not passed its
  last list, also in the special case of a full turn. `OneTimer` is inductive with the
  types, since a node is unlinked at the only place it has (`Has`, `Lacks`).
* `MonthCardProofs`: `TypeCorrect`, `ActiveNotForgotten` (`ActiveIsWatched`). The
  invariant adds `DeleteIsSafe`: while the manager is between noting a
  player and deleting him, a card that became active has a purchase, or an id in
  the channel, behind it that will bring the player back. `NoMailForFree` (`NeverOverpaid`)
  counts purchases against mails (`MailsAreBought`), a renewal before its reset
  included, over rows that count no mail before they are bought (`RowsAreSound`).
  `EveryDayIsPaid` (`PaysByTheDay`) follows one card through a round (`DaysInv`): between
  its mails, what was sent and what the round owes make its days (`Owes`); before and
  after, it is `Settled`.
* `PayProofs`: `TypeCorrect`, `FlagIsHeld` (`PayingIsHeld`), `OrdersPayOnce`
  (`PaidOnce`), `RecordsAreGiven` (`RecordedIsGiven`). `HeldInv` adds `StuckIsAlone`:
  a flag that was left set keeps the player's requests out. `OnceInv` says in
  which states an order is that redis always answered about (`OrderInv`): not
  recorded, recorded by one request that has yet to reward it, or rewarded, for each
  player and, until the order is `shared`, for all of them together. That two requests
  of one player may not both be past the look-up is what `PayingIsHeld` gives to it;
  requests of two players may, and then the record makes the order `shared`. Nothing
  is assumed about who sends which order.
* `MailProofs`: `TypeCorrect`, `BoxesKeepTheirSize` (`CapacityKept`),
  `NoMailIsForgotten` (`EveryMailIsSeen`), `ToldOfWholeMails` (`AnnouncedIsPaid`),
  `EverybodyGetsThem` (`SysMailsArrive`). `LockHeld` is behind all but the second:
  from the count to the payment the goroutine has the receiver's lock, so that who is about to
  add has made room (`CapacityInv`). `IdsInv` makes a mail its goroutine's alone
  until it is told of, and `AttachedInv` says what is attached so far and, in the
  payment, what of it was paid. `BagInv` is what makes a payment of a positive number the whole
  of it: a bag that held more than MaxNumber would be cut down to it instead.
  `RowsInv` says that rows are filled before they are published, and `ScanInv` that the
  row at which CheckSystemMail is divides what was sent from what was not; a row that is
  published in its turn is above every row a player has or is at.
* `FriendsProofs`: `TypeCorrect`, `BothRowsAgree` (`FriendsBothWays`),
  `GiftsAreDated` (`OneGiftADay`), `GiftsAreTakenOnce` (`TakenOnce`),
  `RewardsAreLimited` (`GiftsAreLimited`). `RelationInv`: until a friendship is torn one
  of the two at most is changing it, and who is halfway has done to the other's
  row what he does to his own next. `GiftInv`: a gift of this day has its date in the
  friend's row. `OwedInv`: points that are there are owed until they are credited.
  `CountInv`: the number a handler counts with is GiveNumToday.
* `ChatProofs`, its first part, over `FriendChat`: `AcceptedStaysUnread` (`AcceptedIsUnread`), `AnswerIsInOrder`
  (`PulledInOrder`), `ConfirmedWasSeen` (`SeenBeforeConfirmed`), over `ChatInv`:
  until a friendship ends over a request, the unread ids have texts in the order of
  sending (`UnreadInOrder`), what a handler has in hand is apart from them
  (`StoredApart`, `GoneApart`), and an answer begins as they do (`ReadsUnread`).

* `ChatProofs`, its second part, over `Chat`: `ListStaysWhole` (`ListAndPool`),
  `PullIsInOrder` (`AnswersInOrder`), `NothingIsMissed` (`ReadsOn`). Their invariant is
  `ChannelInv`. `Numbered`: the list has the last messages, one after the other, and
  their times do not fall, so what `recycle_old` drops is the oldest message though it
  walks the whole list (`WriterInv`, `ExpiredIsFirst`). `PoolInv`: an item of the pool
  was never used or its message expired, but for the one that made room, which is used
  before the lock is released. So a pull that begins at an item of the pool shows
  nothing until it comes to the list (`CursorAt`, `LivesInList`), and from there on
  goes up. `CurrInv` and `AheadAt` say what `ReadsOn` needs: the item of a player who
  is not `stale` still holds the message he saw, and what is after it is in the answer
  or ahead of the pull.

Only model-checked: the liveness properties (`WritesReachDb`, `ShutdownEnds`,
`SilentGoesOffline`, `PaidUpToDate`), since liveness under fairness and ENABLED are out
of the prover's reach. Every safety and action property of a passing run is a theorem.
The models keep induction over data out of the proofs: lists that the code walks are
walked a step at a time (`Chat`, `TimerWheel`), beside a sequence of what is linked
where the links are pointers, and nothing is defined by recursion.

## 5. What is not modelled

In the modelled components: `RemoveRow` of the cache (its only caller,
`ActivityMgr.Run`, is never started); the encoding of columns; MySQL connections
that hang rather than fail; a process that dies between the statement and
MySQL's answer to it, other than as a crash before or after it; the contents of
messages, receipts and tokens; `TimerWheel`'s goroutine dying of a panic in a
logout; what a purchase gives beyond "the reward", and another server of the
group that shares the redis hashes; titles, texts and the cooldown of mails, gold and
the other resources as attachments (`get_item` finds none of them, so that a player
cannot attach a positive number), and the width of numbers; a clock that is set
back; friends of whom no server knows; the bits of a player's id that name the
server; searching, recommending and visiting friends, and the chests of a friend
(`open_local_chest` drops the id it is given and always fails, the call to another
server may open one twice). A call between game servers is one step that runs or
fails, not the connections it goes over. `Session` does not create players and
`PlayerIds` does not log them in: the two share only `EnterGame`, whose creation
part touches none of `Session`'s variables.

Components left out, with the reason: the login and center servers (HTTP handlers
that check and change an account in separate steps without a lock and take nothing
back, and a registry behind connections; their tables are the `DbTable` code
again); login tokens (what they promise depends on the login server); the
connections between servers and the goroutine of the redis connection (I/O); rank
lists (sequential data structures that a unit test against a sorted list
reaches); foster care and the hundred handlers of game rules (one player's row
under `is_lock`, rules rather than control); configuration tables (data without
behaviour), generated protocol code, table generators and test clients,
`ConnTimerMgr` and the old activities (dead code), vendored libraries.

Hazards of this code that no property here is about, beside those in
`PROJECT.json` with a note: `player_ids_chan` holds 10000 ids and is filled at boot
before its reader starts; the settlement of a foster card indexes a list it may
have shortened; tokens loaded from redis have no account; RemoveAgent of a
connection that is lost late deletes the agent that replaced it; RedisConn.Close
waits for a Run that may have returned; binding an account marks the old one before
the new one is added, and takes nothing back when a later step fails; GetMailList
deletes from a map under the read lock, which a pass of the cache may hold at the
same time, so that the process may stop (`Mail` has the deletion as one step).

## 6. What is left

1. Messages between friends in both directions at once. Between servers there is
   nothing to model until the call is registered on the side that answers it.
2. Login tokens with the login server: bind and log in while the game server is
   told of tokens out of order.
3. Rank lists against a sorted sequence, then foster care over the calls of
   `Friends`.
