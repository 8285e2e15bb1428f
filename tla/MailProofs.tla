----------------------------- MODULE MailProofs -----------------------------
(***************************************************************************)
(* The safety of mail boxes, for any number of players, administrators'    *)
(* commands, mails and rows, and boxes of any size.  All four properties   *)
(* rest on TypeOK and, but for EveryMailIsSeen, on LockHeld: a goroutine   *)
(* between the count and the payment has receive_mail_locker.              *)
(*   - CapacityKept: who is about to add a mail has made room for it, and  *)
(*     nobody else adds one (CapacityInv);                                 *)
(*   - EveryMailIsSeen is inductive (SeenInv);                             *)
(*   - AnnouncedIsPaid: a mail is its goroutine's alone until it is told   *)
(*     of (IdsInv), with the attachments, then the payments so far         *)
(*     (AttachedInv), and no payment is cut down to MaxNumber (BagInv);    *)
(*   - SysMailsArrive: the row where CheckSystemMail is divides what was   *)
(*     sent from what was not, and rows published later are above it       *)
(*     (RowsInv, ScanInv).                                                 *)
(***************************************************************************)
EXTENDS Mail, FiniteSetTheorems, TLAPS

-----------------------------------------------------------------------------
(* What the goroutines are doing.                                          *)

SendSteps == {"lock", "count", "evict", "add", "attach", "pay", "cache"}

LEMMA DeliveryShape ==
  ASSUME TypeOK, NEW t \in Threads, job[t].at \in SendSteps
  PROVE  job[t] \in Deliveries
<1>1. job[t] \in Jobs BY DEF TypeOK
<1>. QED BY <1>1 DEF Jobs, Deliveries, Idle, SendSteps

LEMMA NextDeliveryShape ==
  ASSUME TypeOK', NEW t \in Threads, job'[t].at \in SendSteps
  PROVE  job'[t] \in Deliveries
<1>1. job'[t] \in Jobs BY DEF TypeOK
<1>. QED BY <1>1 DEF Jobs, Deliveries, Idle, SendSteps

LEMMA DeliveryParts ==
  ASSUME NEW j \in Deliveries
  PROVE  /\ j.at \in SendSteps /\ j.to \in Players /\ j.from \in Players \cup {Nobody}
         /\ j.order \in Seq(Attachments) /\ j.id \in Nat /\ j.k \in Nat \ {0}
BY DEF Deliveries, SendSteps

LEMMA SendingIsDelivery ==
  ASSUME NEW to \in Players, NEW from \in Players \cup {Nobody}, NEW o \in Seq(Attachments)
  PROVE  /\ Sending("lock", to, from, o) \in Deliveries
         /\ Sending("lock", to, from, o).at = "lock" /\ Sending("lock", to, from, o).k = 1
         /\ Sending("lock", to, from, o).to = to /\ Sending("lock", to, from, o).from = from
         /\ Sending("lock", to, from, o).order = o
BY DEF Sending, Deliveries

LEMMA JobUpdate ==
  ASSUME TypeOK, NEW t \in Threads, NEW j \in Jobs, job' = [job EXCEPT ![t] = j]
  PROVE  /\ job' \in [Threads -> Jobs] /\ job'[t] = j
         /\ \A u \in Threads \ {t} : job'[u] = job[u]
BY DEF TypeOK

\* A step inside RealSendMail to another one.
LEMMA GoToStep ==
  ASSUME TypeOK, NEW t \in Threads, job[t].at \in SendSteps, NEW at \in SendSteps, GoTo(t, at)
  PROVE  /\ job' \in [Threads -> Jobs] /\ job'[t] \in Deliveries
         /\ job'[t].at = at /\ job'[t].to = job[t].to /\ job'[t].from = job[t].from
         /\ job'[t].order = job[t].order /\ job'[t].id = job[t].id /\ job'[t].k = job[t].k
         /\ \A u \in Threads \ {t} : job'[u] = job[u]
<1>1. job[t] \in Deliveries BY DeliveryShape
<1>2. PICK j : j = [job[t] EXCEPT !.at = at] OBVIOUS
<1>3. /\ j \in Deliveries /\ j.at = at /\ j.to = job[t].to /\ j.from = job[t].from
      /\ j.order = job[t].order /\ j.id = job[t].id /\ j.k = job[t].k
  BY <1>1, <1>2 DEF Deliveries, SendSteps
<1>4. job' = [job EXCEPT ![t] = j] BY <1>2 DEF GoTo
<1>5. j \in Jobs BY <1>3 DEF Jobs
<1>. QED BY <1>3, <1>4, <1>5, JobUpdate

LEMMA AfterJob ==
  ASSUME TypeOK, NEW t \in Threads
  PROVE  After(t) \in Jobs /\ After(t).at \in {"idle", "scan", "reply"}
BY DEF After, Jobs, Idle

\* What each step of RealSendMail makes of its goroutine.
LEMMA SendJob ==
  ASSUME TypeOK, NEW t \in Threads, RealSendMail(t)
  PROVE  /\ job[t] \in Deliveries /\ job' \in [Threads -> Jobs]
         /\ \A u \in Threads \ {t} : job'[u] = job[u]
         /\ AttachFails(t) \/ CacheNewMail(t) =>
              job'[t] = After(t) /\ job'[t].at \in {"idle", "scan", "reply"}
         /\ ~(AttachFails(t) \/ CacheNewMail(t)) =>
              /\ job'[t] \in Deliveries /\ job'[t].at \in SendSteps \ {"lock"}
              /\ job'[t].to = job[t].to /\ job'[t].from = job[t].from
              /\ job'[t].order = job[t].order
              /\ ~AddMail(t) => job'[t].id = job[t].id
              /\ ~(AttachItem(t) \/ AllAttached(t) \/ PayItem(t)) => job'[t].k = job[t].k
<1>1. job[t].at \in SendSteps
  BY DEF RealSendMail, LockReceiver, CountMails, RemoveOldest, AddMail, AttachItem, AttachFails,
         AllAttached, PayItem, Unlock, CacheNewMail, At, SendSteps
<1>2. job[t] \in Deliveries BY <1>1, DeliveryShape
<1>3. CASE AttachFails(t) \/ CacheNewMail(t)
  <2>1. job' = [job EXCEPT ![t] = After(t)] BY <1>3 DEF AttachFails, CacheNewMail
  <2>. QED BY <1>2, <1>3, <2>1, AfterJob, JobUpdate
<1>4. CASE ~(AttachFails(t) \/ CacheNewMail(t)) /\ AddMail(t)
  <2>1. PICK j : j = [job[t] EXCEPT !.at = "attach", !.id = currId[job[t].to] + 1] OBVIOUS
  <2>2. job[t].to \in Players BY <1>2, DeliveryParts
  <2>3. currId[job[t].to] + 1 \in Nat BY <2>2 DEF TypeOK
  <2>4. /\ j \in Deliveries /\ j.at = "attach" /\ j.to = job[t].to /\ j.from = job[t].from
        /\ j.order = job[t].order /\ j.k = job[t].k
    BY <1>2, <2>1, <2>3 DEF Deliveries
  <2>5. job' = [job EXCEPT ![t] = j] BY <1>4, <2>1 DEF AddMail
  <2>6. j \in Jobs BY <2>4 DEF Jobs
  <2>. QED BY <1>2, <1>4, <2>4, <2>5, <2>6, JobUpdate DEF SendSteps
<1>5. CASE AttachItem(t) \/ PayItem(t)
  <2>1. PICK j : j = [job[t] EXCEPT !.k = job[t].k + 1] OBVIOUS
  <2>2. /\ j \in Deliveries /\ j.at = job[t].at /\ j.to = job[t].to /\ j.from = job[t].from
        /\ j.order = job[t].order /\ j.id = job[t].id
    BY <1>2, <2>1 DEF Deliveries
  <2>3. job' = [job EXCEPT ![t] = j] BY <1>5, <2>1 DEF AttachItem, PayItem
  <2>4. j \in Jobs BY <2>2 DEF Jobs
  <2>5. job[t].at \in {"attach", "pay"} /\ ~AttachFails(t) /\ ~CacheNewMail(t) /\ ~AddMail(t)
    BY <1>5 DEF AttachItem, PayItem, AttachFails, CacheNewMail, AddMail, At
  <2>. QED BY <1>2, <1>5, <2>2, <2>3, <2>4, <2>5, JobUpdate DEF SendSteps
<1>6. CASE AllAttached(t)
  <2>1. PICK j : j = [job[t] EXCEPT !.at = "pay", !.k = 1] OBVIOUS
  <2>2. /\ j \in Deliveries /\ j.at = "pay" /\ j.to = job[t].to /\ j.from = job[t].from
        /\ j.order = job[t].order /\ j.id = job[t].id
    <3>1. PICK i : i = [job[t] EXCEPT !.at = "pay"] OBVIOUS
    <3>2. i \in Deliveries /\ i.at = "pay" /\ i.to = job[t].to /\ i.from = job[t].from
          /\ i.order = job[t].order /\ i.id = job[t].id
      BY <1>2, <3>1 DEF Deliveries
    <3>3. j = [i EXCEPT !.k = 1] BY <1>2, <2>1, <3>1 DEF Deliveries
    <3>. QED BY <3>2, <3>3 DEF Deliveries
  <2>3. job' = [job EXCEPT ![t] = j] BY <1>6, <2>1 DEF AllAttached
  <2>4. j \in Jobs BY <2>2 DEF Jobs
  <2>5. ~AttachFails(t) /\ ~CacheNewMail(t) /\ ~AddMail(t)
    <3>1. job[t].k > Len(job[t].order) BY <1>6 DEF AllAttached
    <3>2. job[t].k \in Nat /\ Len(job[t].order) \in Nat BY <1>2, DeliveryParts
    <3>3. ~AttachFails(t) BY <3>1, <3>2 DEF AttachFails
    <3>. QED BY <1>6, <3>3 DEF AllAttached, CacheNewMail, AddMail, At
  <2>. QED BY <1>2, <1>6, <2>2, <2>3, <2>4, <2>5, JobUpdate DEF SendSteps
<1>7. CASE /\ ~AttachFails(t) /\ ~CacheNewMail(t) /\ ~AddMail(t) /\ ~AttachItem(t)
           /\ ~AllAttached(t) /\ ~PayItem(t)
  <2>1. \E at \in SendSteps \ {"lock"} : GoTo(t, at)
    BY <1>7 DEF RealSendMail, LockReceiver, CountMails, RemoveOldest, Unlock, SendSteps
  <2>. QED BY <1>1, <1>2, <1>7, <2>1, GoToStep
<1>. QED BY <1>3, <1>4, <1>5, <1>6, <1>7

\* The steps of the owner and of the administrators' commands.
LEMMA PlayerJob ==
  ASSUME TypeOK, NEW p \in Players, Player(p)
  PROVE  /\ job' \in [Threads -> Jobs] /\ \A u \in Threads \ {p} : job'[u] = job[u]
         /\ job[p].at \in {"idle", "list", "take", "reply", "scan"}
         /\ \/ job'[p].at \in {"idle", "list", "take", "reply", "scan"}
            \/ job'[p] \in Deliveries /\ job'[p].at = "lock" /\ job'[p].k = 1
<1>0. p \in Threads BY DEF Threads
<1>1. job[p].at \in {"idle", "list", "take", "reply", "scan"}
  BY DEF Player, SendMail, ClearNewMails, ReadMailList, GetMailAttachedItems, TakeItem,
         DeleteMail, CheckNewMail, CheckSystemMail, SendSysMail, SetCurrId, At
<1>2. job[p] \in Jobs BY <1>0 DEF TypeOK
<1>3. \E j \in Jobs : /\ job' = [job EXCEPT ![p] = j]
                      /\ \/ j.at \in {"idle", "list", "take", "reply", "scan"}
                         \/ j \in Deliveries /\ j.at = "lock" /\ j.k = 1
  <2>1. CASE SendMail(p)
    <3>1. PICK q \in Receivers, o \in Orders :
            job' = [job EXCEPT ![p] = Sending("lock", q, p, o)]
      BY <2>1 DEF SendMail
    <3>2. q \in Players /\ o \in Seq(Attachments) BY ActorsAssumption, OrdersAssumption
    <3>3. PICK j : j = Sending("lock", q, p, o) OBVIOUS
    <3>4. j \in Deliveries /\ j.at = "lock" /\ j.k = 1 BY <3>2, <3>3, SendingIsDelivery
    <3>5. j \in Jobs BY <3>4 DEF Jobs
    <3>. QED BY <3>1, <3>3, <3>4, <3>5
  <2>2. CASE ReadMailList(p)
    <3>1. job[p].at = "list" BY <2>2 DEF ReadMailList, At
    <3>2. job[p] \in Jobs BY <1>0 DEF TypeOK
    <3>3. job[p] \in [at : {"list", "reply", "scan"}]
      BY <3>1, <3>2 DEF Jobs, Idle, Deliveries
    <3>4. PICK j : j = [job[p] EXCEPT !.at = "reply"] OBVIOUS
    <3>5. j \in [at : {"list", "reply", "scan"}] /\ j.at = "reply" BY <3>3, <3>4
    <3>6. job' = [job EXCEPT ![p] = j] BY <2>2, <3>4 DEF ReadMailList, GoTo
    <3>. QED BY <3>5, <3>6 DEF Jobs
  <2>3. CASE SendSysMail(p)
    <3>1. CASE rows[scan[p].row] = "filled"
      <4>1. job' = [job EXCEPT ![p] = Sending("lock", p, Nobody, SysOrder)]
        BY <2>3, <3>1 DEF SendSysMail
      <4>2. PICK j : j = Sending("lock", p, Nobody, SysOrder) OBVIOUS
      <4>3. j \in Deliveries BY <4>2, OrdersAssumption, SendingIsDelivery
      <4>4. j.at = "lock" /\ j.k = 1 BY <4>2 DEF Sending
      <4>5. j \in Jobs BY <4>3 DEF Jobs
      <4>6. job' = [job EXCEPT ![p] = j] BY <4>1, <4>2
      <4>. QED BY <4>3, <4>4, <4>5, <4>6
    <3>2. CASE rows[scan[p].row] # "filled"
      <4>1. job' = [job EXCEPT ![p] = job[p]] BY <1>0, <2>3, <3>2 DEF SendSysMail, TypeOK
      <4>2. job[p] \in Jobs BY <1>0 DEF TypeOK
      <4>. QED BY <1>1, <4>1, <4>2
    <3>. QED BY <3>1, <3>2
  <2>4. CASE \E at \in {"list", "reply", "scan"} : job' = [job EXCEPT ![p] = [at |-> at]]
    <3>1. PICK at \in {"list", "reply", "scan"} : job' = [job EXCEPT ![p] = [at |-> at]] BY <2>4
    <3>2. [at |-> at] \in Jobs BY DEF Jobs
    <3>. QED BY <3>1, <3>2
  <2>5. CASE CheckNewMail(p)
    <3>1. job' = [job EXCEPT ![p] = Idle] BY <2>5 DEF CheckNewMail
    <3>2. Idle \in Jobs /\ Idle.at = "idle" BY DEF Jobs, Idle
    <3>. QED BY <3>1, <3>2
  <2>6. CASE GetMailAttachedItems(p)
    <3>1. PICK id \in DOMAIN mails[p] :
            job' = [job EXCEPT ![p] = [at |-> "take", order |-> mails[p][id], k |-> 1]]
      BY <2>6 DEF GetMailAttachedItems
    <3>2. mails[p][id] \in Seq(Attachments) BY DEF TypeOK, IsBox
    <3>3. PICK j : j = [at |-> "take", order |-> mails[p][id], k |-> 1] OBVIOUS
    <3>4. j \in Jobs /\ j.at = "take" BY <3>2, <3>3 DEF Jobs
    <3>. QED BY <3>1, <3>3, <3>4
  <2>7. CASE TakeItem(p)
    <3>1. job[p] \in [at : {"take"}, order : Seq(Attachments), k : Nat \ {0}]
      <4>1. job[p].at = "take" /\ job[p] \in Jobs BY <1>0, <2>7 DEF TakeItem, At, TypeOK
      <4>. QED BY <4>1 DEF Jobs, Idle, Deliveries
    <3>2. PICK j : j = IF job[p].k = Len(job[p].order) THEN [at |-> "reply"]
                       ELSE [job[p] EXCEPT !.k = job[p].k + 1]
      OBVIOUS
    <3>3. j \in Jobs /\ j.at \in {"take", "reply"} BY <3>1, <3>2 DEF Jobs
    <3>4. job' = [job EXCEPT ![p] = j] BY <2>7, <3>2 DEF TakeItem
    <3>. QED BY <3>3, <3>4
  <2>. QED BY <2>1, <2>2, <2>3, <2>4, <2>5, <2>6, <2>7
       DEF Player, ClearNewMails, DeleteMail, CheckSystemMail, SetCurrId
<1>. QED BY <1>0, <1>1, <1>3, JobUpdate

LEMMA GmJob ==
  ASSUME TypeOK, NEW g \in Gms, Gm(g)
  PROVE  /\ job' \in [Threads -> Jobs] /\ \A u \in Threads \ {g} : job'[u] = job[u]
         /\ job[g].at \in {"idle", "fill", "publish"}
         /\ GmMail(g) => job'[g] \in Deliveries /\ job'[g].at = "lock" /\ job'[g].k = 1
         /\ ~GmMail(g) => job'[g].at \in {"idle", "fill", "publish"}
         /\ job[g].at # "idle" => job[g].row \in RowIds
         /\ FillSysMail(g) => job'[g].at = "publish" /\ job'[g].row = job[g].row
         /\ SetCurrMailId(g) => job'[g].at = "idle"
<1>0. g \in Threads BY DEF Threads
<1>1. job[g] \in Jobs BY <1>0 DEF TypeOK
<1>2. job[g].at \in {"idle", "fill", "publish"} /\ (job[g].at = "idle" <=> At(g, "idle"))
  BY DEF Gm, GmMail, AddSysMail, FillSysMail, SetCurrMailId, At
<1>3. job[g].at \in {"fill", "publish"} => job[g] \in [at : {"fill", "publish"}, row : RowIds]
  BY <1>1 DEF Jobs, Idle, Deliveries
<1>4. CASE GmMail(g)
  <2>1. PICK q \in Receivers : job' = [job EXCEPT ![g] = Sending("lock", q, Nobody, SysOrder)]
    BY <1>4 DEF GmMail
  <2>2. PICK j : j = Sending("lock", q, Nobody, SysOrder) OBVIOUS
  <2>3. j \in Deliveries /\ j.at = "lock" /\ j.k = 1
    BY <2>2, ActorsAssumption, OrdersAssumption, SendingIsDelivery
  <2>4. j \in Jobs BY <2>3 DEF Jobs
  <2>5. At(g, "idle") BY <1>4 DEF GmMail
  <2>6. ~FillSysMail(g) /\ ~SetCurrMailId(g) BY <2>5 DEF FillSysMail, SetCurrMailId, At
  <2>. QED BY <1>0, <1>2, <1>4, <2>1, <2>2, <2>3, <2>4, <2>5, <2>6, JobUpdate
<1>5. CASE AddSysMail(g)
  <2>1. At(g, "idle") BY <1>5 DEF AddSysMail
  <2>2. ~FillSysMail(g) /\ ~SetCurrMailId(g) BY <2>1 DEF FillSysMail, SetCurrMailId, At
  <2>3. PICK r \in RowIds : \/ job' = [job EXCEPT ![g] = [at |-> "fill", row |-> r]]
                            \/ job' = job
    BY <1>5 DEF AddSysMail
  <2>4. [at |-> "fill", row |-> r] \in Jobs BY DEF Jobs
  <2>5. CASE job' = [job EXCEPT ![g] = [at |-> "fill", row |-> r]]
    BY <1>0, <1>2, <1>4, <2>1, <2>2, <2>4, <2>5, JobUpdate
  <2>6. CASE job' = job BY <1>0, <1>2, <1>4, <2>1, <2>2, <2>6 DEF TypeOK
  <2>. QED BY <2>3, <2>5, <2>6
<1>6. CASE FillSysMail(g)
  <2>1. job[g].at = "fill" BY <1>6 DEF FillSysMail, At
  <2>2. PICK j : j = [job[g] EXCEPT !.at = "publish"] OBVIOUS
  <2>3. /\ j \in [at : {"fill", "publish"}, row : RowIds] /\ j.at = "publish"
        /\ j.row = job[g].row
    BY <1>3, <2>1, <2>2
  <2>4. job' = [job EXCEPT ![g] = j] BY <1>6, <2>2 DEF FillSysMail, GoTo
  <2>5. j \in Jobs BY <2>3 DEF Jobs
  <2>6. ~GmMail(g) /\ ~SetCurrMailId(g) BY <2>1 DEF GmMail, SetCurrMailId, At
  <2>. QED BY <1>0, <1>2, <1>3, <2>1, <2>3, <2>4, <2>5, <2>6, JobUpdate
<1>7. CASE SetCurrMailId(g)
  <2>1. job[g].at = "publish" BY <1>7 DEF SetCurrMailId, At
  <2>2. job' = [job EXCEPT ![g] = Idle] BY <1>7 DEF SetCurrMailId
  <2>3. Idle \in Jobs /\ Idle.at = "idle" BY DEF Jobs, Idle
  <2>4. ~GmMail(g) /\ ~FillSysMail(g) BY <2>1 DEF GmMail, FillSysMail, At
  <2>. QED BY <1>0, <1>2, <1>3, <2>1, <2>2, <2>3, <2>4, JobUpdate
<1>. QED BY <1>4, <1>5, <1>6, <1>7 DEF Gm

-----------------------------------------------------------------------------
(* What the actions do to the boxes.                                       *)

BoxesOK == mails = [p \in Players |-> mails[p]] /\ \A p \in Players : IsBox(mails[p])

LEMMA MailsUpdate ==
  ASSUME BoxesOK, NEW q \in Players, NEW b, IsBox(b), mails' = [mails EXCEPT ![q] = b]
  PROVE  BoxesOK' /\ mails'[q] = b /\ \A p \in Players \ {q} : mails'[p] = mails[p]
<1>1. DOMAIN mails = Players BY DEF BoxesOK
<1>2. mails'[q] = b /\ \A p \in Players \ {q} : mails'[p] = mails[p] BY <1>1
<1>3. mails' = [p \in Players |-> mails'[p]] BY <1>1
<1>4. \A p \in Players : IsBox(mails'[p]) BY <1>2 DEF BoxesOK
<1>. QED BY <1>2, <1>3, <1>4 DEF BoxesOK, IsBox

LEMMA TakenOut ==
  ASSUME BoxesOK, NEW q \in Players, NEW ids,
         mails' = [mails EXCEPT ![q] = Without(mails[q], ids)]
  PROVE  /\ BoxesOK' /\ \A p \in Players \ {q} : mails'[p] = mails[p]
         /\ DOMAIN mails'[q] = DOMAIN mails[q] \ ids
         /\ \A id \in DOMAIN mails'[q] : mails'[q][id] = mails[q][id]
<1>1. PICK b : b = Without(mails[q], ids) OBVIOUS
<1>2. DOMAIN b = DOMAIN mails[q] \ ids /\ \A id \in DOMAIN b : b[id] = mails[q][id]
  BY <1>1 DEF Without
<1>3. b = [id \in DOMAIN b |-> b[id]] BY <1>1 DEF Without
<1>4. IsBox(b) BY <1>2, <1>3 DEF BoxesOK, IsBox
<1>5. mails' = [mails EXCEPT ![q] = b] BY <1>1
<1>6. BoxesOK' /\ mails'[q] = b /\ \A p \in Players \ {q} : mails'[p] = mails[p]
  BY <1>4, <1>5, MailsUpdate
<1>. QED BY <1>2, <1>6

LEMMA PutIn ==
  ASSUME TypeOK, NEW t \in Threads, AddMail(t)
  PROVE  LET q == job[t].to  id == currId[q] + 1 IN
         /\ BoxesOK' /\ \A p \in Players \ {q} : mails'[p] = mails[p]
         /\ DOMAIN mails'[q] = DOMAIN mails[q] \cup {id} /\ mails'[q][id] = <<>>
         /\ \A i \in DOMAIN mails[q] \ {id} : mails'[q][i] = mails[q][i]
<1>1. PICK q \in Players : q = job[t].to
  BY DeliveryShape, DeliveryParts DEF AddMail, At, SendSteps
<1>2. PICK id : id = currId[q] + 1 OBVIOUS
<1>3. id \in MailIds
  <2>1. currId \in [Players -> Nat] BY DEF TypeOK
  <2>2. currId[q] + 1 <= MaxMails BY <1>1 DEF AddMail
  <2>3. currId[q] \in Nat BY <2>1
  <2>. QED BY <1>2, <2>2, <2>3, CountAssumption DEF MailIds
<1>4. PICK b : b = [i \in DOMAIN mails[q] \cup {id} |-> IF i = id THEN <<>> ELSE mails[q][i]]
  OBVIOUS
<1>5. /\ DOMAIN b = DOMAIN mails[q] \cup {id} /\ b[id] = <<>>
      /\ \A i \in DOMAIN mails[q] \ {id} : b[i] = mails[q][i]
      /\ b = [i \in DOMAIN b |-> b[i]]
  BY <1>4
<1>6. BoxesOK BY DEF TypeOK, BoxesOK
<1>7. <<>> \in Seq(Attachments) OBVIOUS
<1>8. IsBox(b) BY <1>3, <1>5, <1>6, <1>7 DEF BoxesOK, IsBox
<1>9. mails' = [mails EXCEPT ![q] = b] BY <1>1, <1>2, <1>4 DEF AddMail
<1>10. BoxesOK' /\ mails'[q] = b /\ \A p \in Players \ {q} : mails'[p] = mails[p]
  BY <1>6, <1>8, <1>9, MailsUpdate
<1>. QED BY <1>1, <1>2, <1>5, <1>10

LEMMA Attached ==
  ASSUME TypeOK, NEW t \in Threads, AttachItem(t)
  PROVE  LET j == job[t] IN
         /\ BoxesOK' /\ \A p \in Players \ {j.to} : mails'[p] = mails[p]
         /\ DOMAIN mails'[j.to] = DOMAIN mails[j.to]
         /\ mails'[j.to][j.id] = Append(mails[j.to][j.id], j.order[j.k])
         /\ \A i \in DOMAIN mails[j.to] \ {j.id} : mails'[j.to][i] = mails[j.to][i]
<1>0. job[t] \in Deliveries BY DeliveryShape DEF AttachItem, At, SendSteps
<1>1. PICK q \in Players : q = job[t].to BY <1>0, DeliveryParts
<1>2. PICK id : id = job[t].id OBVIOUS
<1>3. PICK x : x = job[t].order[job[t].k] OBVIOUS
<1>4. x \in Attachments
  <2>1. job[t].order \in Seq(Attachments) /\ job[t].k \in Nat \ {0} BY <1>0, DeliveryParts
  <2>2. job[t].k <= Len(job[t].order) BY DEF AttachItem
  <2>. QED BY <1>3, <2>1, <2>2
<1>5. id \in DOMAIN mails[q] BY <1>1, <1>2 DEF AttachItem
<1>6. BoxesOK BY DEF TypeOK, BoxesOK
<1>7. mails[q][id] \in Seq(Attachments) BY <1>5, <1>6 DEF BoxesOK, IsBox
<1>8. PICK b : b = [mails[q] EXCEPT ![id] = Append(mails[q][id], x)] OBVIOUS
<1>9. Append(mails[q][id], x) \in Seq(Attachments) BY <1>4, <1>7
<1>10. mails[q] = [i \in DOMAIN mails[q] |-> mails[q][i]] BY <1>6 DEF BoxesOK, IsBox
<1>11. /\ DOMAIN b = DOMAIN mails[q] /\ b[id] = Append(mails[q][id], x)
       /\ \A i \in DOMAIN mails[q] \ {id} : b[i] = mails[q][i]
       /\ b = [i \in DOMAIN b |-> b[i]]
  BY <1>5, <1>8, <1>10
<1>12. IsBox(b) BY <1>6, <1>9, <1>11 DEF BoxesOK, IsBox
<1>13. mails' = [mails EXCEPT ![q] = b] BY <1>1, <1>2, <1>3, <1>8 DEF AttachItem
<1>14. BoxesOK' /\ mails'[q] = b /\ \A p \in Players \ {q} : mails'[p] = mails[p]
  BY <1>6, <1>12, <1>13, MailsUpdate
<1>. QED BY <1>1, <1>2, <1>3, <1>11, <1>14

\* What any other step does to the boxes: it takes mails out of one or none.
LEMMA BoxStep ==
  ASSUME TypeOK, [Next]_vars
  PROVE  /\ BoxesOK'
         /\ \A p \in Players : \A id \in DOMAIN mails'[p] :
              \/ id \in DOMAIN mails[p]
              \/ \E t \in Threads : AddMail(t) /\ job[t].to = p /\ id = currId[p] + 1
         /\ \A p \in Players : \A id \in DOMAIN mails'[p] \cap DOMAIN mails[p] :
              \/ mails'[p][id] = mails[p][id]
              \/ \E t \in Threads : /\ job[t].to = p
                                    /\ \/ AddMail(t) /\ id = currId[p] + 1
                                       \/ AttachItem(t) /\ id = job[t].id
<1>0. BoxesOK BY DEF TypeOK, BoxesOK
<1>1. CASE UNCHANGED mails BY <1>0, <1>1 DEF BoxesOK, IsBox
<1>2. CASE \E q \in Players : \E ids : mails' = [mails EXCEPT ![q] = Without(mails[q], ids)]
  <2>1. PICK q \in Players : \E ids : mails' = [mails EXCEPT ![q] = Without(mails[q], ids)]
    BY <1>2
  <2>2. PICK ids : mails' = [mails EXCEPT ![q] = Without(mails[q], ids)] BY <2>1
  <2>. QED BY <1>0, <2>2, TakenOut
<1>3. CASE \E t \in Threads : AddMail(t)
  <2>1. PICK t \in Threads : AddMail(t) BY <1>3
  <2>2. PICK q : q = job[t].to OBVIOUS
  <2>3. PICK id : id = currId[q] + 1 OBVIOUS
  <2>4. /\ BoxesOK' /\ \A p \in Players \ {q} : mails'[p] = mails[p]
        /\ DOMAIN mails'[q] = DOMAIN mails[q] \cup {id}
        /\ \A i \in DOMAIN mails[q] \ {id} : mails'[q][i] = mails[q][i]
    BY <2>1, <2>2, <2>3, PutIn
  <2>5. ASSUME NEW p \in Players, NEW i \in DOMAIN mails'[p]
        PROVE  i \in DOMAIN mails[p] \/ (p = q /\ i = id)
    BY <2>4, <2>5
  <2>6. ASSUME NEW p \in Players, NEW i \in DOMAIN mails'[p] \cap DOMAIN mails[p]
        PROVE  mails'[p][i] = mails[p][i] \/ (p = q /\ i = id)
    BY <2>4, <2>6
  <2>. QED BY <2>1, <2>2, <2>3, <2>4, <2>5, <2>6
<1>4. CASE \E t \in Threads : AttachItem(t)
  <2>1. PICK t \in Threads : AttachItem(t) BY <1>4
  <2>2. PICK q : q = job[t].to OBVIOUS
  <2>3. PICK id : id = job[t].id OBVIOUS
  <2>4. /\ BoxesOK' /\ \A p \in Players \ {q} : mails'[p] = mails[p]
        /\ DOMAIN mails'[q] = DOMAIN mails[q]
        /\ \A i \in DOMAIN mails[q] \ {id} : mails'[q][i] = mails[q][i]
    BY <2>1, <2>2, <2>3, Attached
  <2>5. \A p \in Players : DOMAIN mails'[p] = DOMAIN mails[p] BY <2>4
  <2>6. ASSUME NEW p \in Players, NEW i \in DOMAIN mails'[p] \cap DOMAIN mails[p]
        PROVE  mails'[p][i] = mails[p][i] \/ (p = q /\ i = id)
    BY <2>4, <2>6
  <2>. QED BY <2>1, <2>2, <2>3, <2>4, <2>5, <2>6
<1>5. CASE \E t \in Threads : RealSendMail(t)
  <2>1. PICK t \in Threads : RealSendMail(t) BY <1>5
  <2>2. job[t].to \in Players BY <2>1, SendJob, DeliveryParts
  <2>3. CASE RemoveOldest(t) BY <1>1, <1>2, <2>2, <2>3 DEF RemoveOldest
  <2>. QED BY <1>1, <1>3, <1>4, <2>1, <2>3
       DEF RealSendMail, LockReceiver, CountMails, AttachFails, AllAttached, PayItem,
           Unlock, CacheNewMail, boxes
<1>6. CASE \E p \in Players : Player(p)
  <2>1. PICK p \in Players : Player(p) BY <1>6
  <2>2. CASE ReadMailList(p) \/ DeleteMail(p) BY <1>2, <2>2 DEF ReadMailList, DeleteMail
  <2>. QED BY <1>1, <2>1, <2>2
       DEF Player, SendMail, ClearNewMails, GetMailAttachedItems, TakeItem, CheckNewMail,
           CheckSystemMail, SendSysMail, SetCurrId, boxes
<1>7. CASE \E g \in Gms : Gm(g)
  BY <1>1, <1>7 DEF Gm, GmMail, AddSysMail, FillSysMail, SetCurrMailId, boxes
<1>. QED BY <1>1, <1>5, <1>6, <1>7 DEF Next, vars, boxes

-----------------------------------------------------------------------------
(* Every variable keeps its type.                                          *)

LEMMA LesserOfTwo ==
  ASSUME NEW x \in Int, NEW y \in Int
  PROVE  Min({x, y}) = IF x <= y THEN x ELSE y
<1>1. \E m \in {x, y} : \A n \in {x, y} : m <= n OBVIOUS
<1>. QED BY <1>1 DEF Min

\* What add_resource makes of a bag.
LEMMA Added ==
  ASSUME NEW b \in [Items -> Int], NEW i \in Items, NEW n \in Int
  PROVE  /\ AddResource(b, i, n) \in [Items -> Int]
         /\ \A x \in Items \ {i} : AddResource(b, i, n)[x] = b[x]
         /\ i \notin Timed =>
              AddResource(b, i, n)[i] = IF b[i] + n <= MaxNumber THEN b[i] + n ELSE MaxNumber
<1>1. PICK m : m = IF i \in Timed THEN 1 ELSE Min({b[i] + n, MaxNumber}) OBVIOUS
<1>2. Min({b[i] + n, MaxNumber}) = IF b[i] + n <= MaxNumber THEN b[i] + n ELSE MaxNumber
  BY StockAssumption, LesserOfTwo
<1>3. m \in Int /\ (i \notin Timed => m = IF b[i] + n <= MaxNumber THEN b[i] + n ELSE MaxNumber)
  BY <1>1, <1>2, StockAssumption
<1>4. AddResource(b, i, n) = [b EXCEPT ![i] = m] BY <1>1 DEF AddResource
<1>. QED BY <1>3, <1>4

\* Where CheckSystemMail starts.
LEMMA FirstRow ==
  ASSUME NEW x \in Nat
  PROVE  Max({x, 1}) \in Nat /\ Max({x, 1}) = IF x = 0 THEN 1 ELSE x
<1>1. \E m \in {x, 1} : \A n \in {x, 1} : m >= n OBVIOUS
<1>2. Max({x, 1}) \in {x, 1} /\ Max({x, 1}) >= x /\ Max({x, 1}) >= 1 BY <1>1 DEF Max
<1>. QED BY <1>2

Entries == [order : Seq(Attachments), free : BOOLEAN, paid : Seq(Int)]

LEMMA InitType == Init => TypeOK
<1>. SUFFICES ASSUME Init PROVE TypeOK OBVIOUS
<1>1. /\ mails = [p \in Players |-> mails[p]] /\ \A p \in Players : IsBox(mails[p])
      /\ currId \in [Players -> Nat] /\ newIds \in [Players -> SUBSET Nat]
  BY DEF Init, IsBox
<1>2. /\ locker \in [Players -> Threads \cup {Nobody}] /\ bag \in [Players -> [Items -> Int]]
      /\ job \in [Threads -> Jobs]
  BY StockAssumption DEF Init, Jobs, Idle
<1>3. /\ rows \in [RowIds -> {"absent", "drawn", "filled"}]
      /\ currMailId \in 0..MaxRows /\ sysId \in [Players -> 0..MaxRows]
      /\ scan \in [Players -> [row : Nat, last : 0..MaxRows]]
  BY CountAssumption DEF Init
<1>4. /\ told \in [Players -> SUBSET Nat] /\ cut \in [Players -> SUBSET Nat]
      /\ published \in SUBSET RowIds /\ overtaken \in SUBSET RowIds
      /\ reached \in [Players -> SUBSET Nat]
  BY DEF Init
<1>5. ledger \in [Players -> Seq(Entries)] BY DEF Init
<1>. QED BY <1>1, <1>2, <1>3, <1>4, <1>5 DEF TypeOK, Entries

\* A number, or some numbers, are put into the set of a player.
LEMMA NumberSets ==
  ASSUME NEW f \in [Players -> SUBSET Nat], NEW q \in Players, NEW ids \in SUBSET Nat, NEW g,
         g = [f EXCEPT ![q] = f[q] \cup ids] \/ g = [f EXCEPT ![q] = ids]
  PROVE  g \in [Players -> SUBSET Nat]
<1>. DEFINE Sets == SUBSET Nat
<1>1. f[q] \cup ids \in Sets /\ ids \in Sets OBVIOUS
<1>2. f \in [Players -> Sets] OBVIOUS
<1>. HIDE DEF Sets
<1>3. g \in [Players -> Sets] BY <1>1, <1>2
<1>. QED BY <1>3 DEF Sets

\* The bag of who pays, and of who takes.
LEMMA PaidFrom ==
  ASSUME TypeOK, NEW t \in Threads, PayItem(t)
  PROVE  LET j == job[t]
             a == j.order[j.k]
         IN
         /\ j \in Deliveries /\ j.from \in Players /\ a \in Attachments
         /\ bag'[j.from] = AddResource(bag[j.from], a.item, -a.num)
         /\ bag' \in [Players -> [Items -> Int]]
         /\ \A p \in Players \ {j.from} : bag'[p] = bag[p]
<1>1. PICK j \in Deliveries : j = job[t]
  BY DeliveryShape DEF PayItem, At, SendSteps
<1>2. j.from \in Players /\ j.order \in Seq(Attachments) /\ j.k \in Nat \ {0}
  BY <1>1, DeliveryParts DEF PayItem
<1>3. j.k <= Len(j.order) BY <1>1 DEF PayItem
<1>4. PICK a \in Attachments : a = j.order[j.k] BY <1>2, <1>3
<1>5. a.item \in Items /\ a.num \in Int /\ -a.num \in Int BY DEF Attachments
<1>6. bag \in [Players -> [Items -> Int]] BY DEF TypeOK
<1>7. PICK b : b = AddResource(bag[j.from], a.item, -a.num) OBVIOUS
<1>8. b \in [Items -> Int] BY <1>2, <1>5, <1>6, <1>7, Added
<1>9. bag' = [bag EXCEPT ![j.from] = b] BY <1>1, <1>4, <1>7 DEF PayItem
<1>. QED BY <1>1, <1>2, <1>4, <1>6, <1>7, <1>8, <1>9

LEMMA TakenBy ==
  ASSUME TypeOK, NEW p \in Players, TakeItem(p)
  PROVE  LET a == job[p].order[job[p].k] IN
         /\ a \in Attachments
         /\ bag'[p] = AddResource(bag[p], a.item, a.num)
         /\ bag' \in [Players -> [Items -> Int]]
         /\ \A q \in Players \ {p} : bag'[q] = bag[q]
<1>1. job[p] \in [at : {"take"}, order : Seq(Attachments), k : Nat \ {0}]
  <2>1. job[p].at = "take" /\ job[p] \in Jobs BY DEF TakeItem, At, TypeOK, Threads
  <2>. QED BY <2>1 DEF Jobs, Idle, Deliveries
<1>2. PICK a \in Attachments : a = job[p].order[job[p].k] BY <1>1 DEF TakeItem
<1>3. a.item \in Items /\ a.num \in Int BY DEF Attachments
<1>4. bag \in [Players -> [Items -> Int]] BY DEF TypeOK
<1>5. PICK b : b = AddResource(bag[p], a.item, a.num) OBVIOUS
<1>6. b \in [Items -> Int] BY <1>3, <1>4, <1>5, Added
<1>7. bag' = [bag EXCEPT ![p] = b] BY <1>2, <1>5 DEF TakeItem
<1>. QED BY <1>2, <1>4, <1>5, <1>6, <1>7

LEMMA LedgerType ==
  ASSUME TypeOK, NEW t \in Threads, RealSendMail(t)
  PROVE  ledger' \in [Players -> Seq(Entries)]
<1>0. ledger \in [Players -> Seq(Entries)] BY DEF TypeOK, Entries
<1>1. PICK j \in Deliveries : j = job[t] BY SendJob
<1>2. /\ j.to \in Players /\ j.order \in Seq(Attachments) BY <1>1, DeliveryParts
<1>. DEFINE Ledgers == Seq(Entries)
<1>3. ledger \in [Players -> Ledgers] BY <1>0
<1>4. CASE AddMail(t)
  <2>1. PICK e : e = [order |-> j.order, free |-> j.from = Nobody, paid |-> <<>>] OBVIOUS
  <2>2. (j.from = Nobody) \in BOOLEAN /\ <<>> \in Seq(Int) OBVIOUS
  <2>3. e \in Entries BY <1>2, <2>1, <2>2 DEF Entries
  <2>4. Append(ledger[j.to], e) \in Ledgers BY <1>0, <1>2, <2>3
  <2>5. ledger' = [ledger EXCEPT ![j.to] = Append(ledger[j.to], e)]
    BY <1>1, <1>4, <2>1 DEF AddMail
  <2>. HIDE DEF Ledgers
  <2>6. ledger' \in [Players -> Ledgers] BY <1>2, <1>3, <2>4, <2>5
  <2>. QED BY <2>6 DEF Ledgers
<1>5. CASE PayItem(t)
  <2>1. PICK n : n = bag[j.from][j.order[j.k].item] - bag'[j.from][j.order[j.k].item] OBVIOUS
  <2>2. n \in Int
    <3>1. PICK p \in Players, i \in Items : p = j.from /\ i = j.order[j.k].item
      BY <1>1, <1>5, PaidFrom DEF Attachments
    <3>2. bag' \in [Players -> [Items -> Int]] BY <1>1, <1>5, PaidFrom
    <3>3. bag \in [Players -> [Items -> Int]] BY DEF TypeOK
    <3>4. bag[p][i] \in Int /\ bag'[p][i] \in Int BY <3>2, <3>3
    <3>5. n = bag[p][i] - bag'[p][i] BY <2>1, <3>1, Zenon
    <3>. QED BY <3>4, <3>5
  <2>3. PICK l : l = [ledger[j.to] EXCEPT ![j.id].paid = Append(ledger[j.to][j.id].paid, n)]
    OBVIOUS
  <2>4. ledger' = [ledger EXCEPT ![j.to] = l] BY <1>1, <1>5, <2>1, <2>3 DEF PayItem
  <2>5. l \in Ledgers
    <3>1. ledger[j.to] \in Seq(Entries) BY <1>0, <1>2
    <3>2. CASE j.id \in DOMAIN ledger[j.to]
      <4>1. PICK e : e = [ledger[j.to][j.id] EXCEPT !.paid = Append(ledger[j.to][j.id].paid, n)]
        OBVIOUS
      <4>2. ledger[j.to][j.id] \in Entries BY <3>1, <3>2
      <4>3. Append(ledger[j.to][j.id].paid, n) \in Seq(Int) BY <2>2, <4>2 DEF Entries
      <4>4. e \in Entries BY <4>1, <4>2, <4>3 DEF Entries
      <4>5. l = [ledger[j.to] EXCEPT ![j.id] = e] BY <2>3, <4>1
      <4>. QED BY <3>1, <3>2, <4>4, <4>5
    <3>3. CASE j.id \notin DOMAIN ledger[j.to]
      <4>1. l = ledger[j.to] BY <2>3, <3>1, <3>3
      <4>. QED BY <3>1, <4>1
    <3>. QED BY <3>2, <3>3
  <2>. HIDE DEF Ledgers
  <2>6. ledger' \in [Players -> Ledgers] BY <1>2, <1>3, <2>4, <2>5
  <2>. QED BY <2>6 DEF Ledgers
<1>6. CASE ledger' = ledger BY <1>0, <1>6
<1>. QED BY <1>4, <1>5, <1>6
     DEF RealSendMail, LockReceiver, CountMails, RemoveOldest, AttachItem, AttachFails,
         AllAttached, Unlock, CacheNewMail, history

\* RealSendMail on the other variables.
LEMMA SendType == ASSUME TypeOK, NEW t \in Threads, RealSendMail(t), BoxesOK' PROVE TypeOK'
<1>1. PICK j \in Deliveries : j = job[t] BY SendJob
<1>2. /\ j.to \in Players /\ j.from \in Players \cup {Nobody}
      /\ j.order \in Seq(Attachments) /\ j.id \in Nat
  BY <1>1, DeliveryParts
<1>3. job' \in [Threads -> Jobs] BY SendJob
<1>4. currId' \in [Players -> Nat] /\ locker' \in [Players -> Threads \cup {Nobody}]
  <2>1. \/ currId' = currId \/ currId' = [currId EXCEPT ![j.to] = currId[j.to] + 1]
    BY <1>1 DEF RealSendMail, LockReceiver, CountMails, RemoveOldest, AddMail, AttachItem,
                AttachFails, AllAttached, PayItem, Unlock, CacheNewMail, boxes
  <2>2. \/ locker' = locker \/ locker' = [locker EXCEPT ![j.to] = t]
        \/ locker' = [locker EXCEPT ![j.to] = Nobody]
    BY <1>1 DEF RealSendMail, LockReceiver, CountMails, RemoveOldest, AddMail, AttachItem,
                AttachFails, AllAttached, PayItem, Unlock, CacheNewMail, boxes
  <2>3. currId \in [Players -> Nat] /\ locker \in [Players -> Threads \cup {Nobody}]
    BY DEF TypeOK
  <2>. QED BY <1>2, <2>1, <2>2, <2>3
<1>5. newIds' \in [Players -> SUBSET Nat] /\ cut' \in [Players -> SUBSET Nat]
  <2>1. \/ newIds' = newIds \/ newIds' = [newIds EXCEPT ![j.to] = newIds[j.to] \cup {j.id}]
    BY <1>1 DEF RealSendMail, LockReceiver, CountMails, RemoveOldest, AddMail, AttachItem,
                AttachFails, AllAttached, PayItem, Unlock, CacheNewMail, boxes
  <2>2. \/ cut' = cut \/ cut' = [cut EXCEPT ![j.to] = cut[j.to] \cup {j.id}]
    BY <1>1 DEF RealSendMail, LockReceiver, CountMails, RemoveOldest, AddMail, AttachItem,
                AttachFails, AllAttached, PayItem, Unlock, CacheNewMail, history
  <2>3. newIds \in [Players -> SUBSET Nat] /\ cut \in [Players -> SUBSET Nat] BY DEF TypeOK
  <2>4. {j.id} \in SUBSET Nat BY <1>2
  <2>5. newIds' \in [Players -> SUBSET Nat] BY <1>2, <2>1, <2>3, <2>4, NumberSets
  <2>6. cut' \in [Players -> SUBSET Nat] BY <1>2, <2>2, <2>3, <2>4, NumberSets
  <2>. QED BY <2>5, <2>6
<1>6. bag' \in [Players -> [Items -> Int]]
  <2>1. bag \in [Players -> [Items -> Int]] BY DEF TypeOK
  <2>2. CASE PayItem(t) BY <2>2, PaidFrom
  <2>3. CASE bag' = bag BY <2>1, <2>3
  <2>. QED BY <2>2, <2>3
       DEF RealSendMail, LockReceiver, CountMails, RemoveOldest, AddMail, AttachItem,
           AttachFails, AllAttached, Unlock, CacheNewMail, boxes
<1>7. scan' \in [Players -> [row : Nat, last : 0..MaxRows]] /\ reached' \in [Players -> SUBSET Nat]
  <2>1. scan \in [Players -> [row : Nat, last : 0..MaxRows]] BY DEF TypeOK
  <2>2. reached \in [Players -> SUBSET Nat] BY DEF TypeOK
  <2>3. \/ scan' = scan
        \/ t \in Players /\ scan' = [scan EXCEPT ![t].row = scan[t].row + 1]
    BY DEF RealSendMail, LockReceiver, CountMails, RemoveOldest, AddMail, AttachItem,
           AttachFails, AllAttached, PayItem, Unlock, CacheNewMail, sys
  <2>4. \/ reached' = reached
        \/ t \in Players /\ reached' = [reached EXCEPT ![t] = reached[t] \cup {scan[t].row}]
    BY DEF RealSendMail, LockReceiver, CountMails, RemoveOldest, AddMail, AttachItem,
           AttachFails, AllAttached, PayItem, Unlock, CacheNewMail, history
  <2>5. CASE t \notin Players BY <2>1, <2>2, <2>3, <2>4, <2>5
  <2>6. CASE t \in Players
    <3>1. PICK s : s = [scan[t] EXCEPT !.row = scan[t].row + 1] OBVIOUS
    <3>2. scan[t] \in [row : Nat, last : 0..MaxRows] /\ {scan[t].row} \in SUBSET Nat BY <2>1, <2>6
    <3>3. s \in [row : Nat, last : 0..MaxRows] BY <3>1, <3>2
    <3>4. scan' = scan \/ scan' = [scan EXCEPT ![t] = s] BY <2>3, <3>1
    <3>5. reached' \in [Players -> SUBSET Nat] BY <2>2, <2>4, <2>6, <3>2, NumberSets
    <3>. QED BY <2>1, <2>6, <3>3, <3>4, <3>5
  <2>. QED BY <2>5, <2>6
<1>8. ledger' \in [Players -> Seq(Entries)] BY LedgerType
<1>9. UNCHANGED <<rows, currMailId, sysId, told, published, overtaken>>
  BY DEF RealSendMail, LockReceiver, CountMails, RemoveOldest, AddMail, AttachItem,
         AttachFails, AllAttached, PayItem, Unlock, CacheNewMail, history, sys
<1>10. BoxesOK' OBVIOUS
<1>11. \A p \in Players : IsBox(mails[p])' BY <1>10 DEF BoxesOK
<1>. QED BY <1>3, <1>4, <1>5, <1>6, <1>7, <1>8, <1>9, <1>10, <1>11 DEF TypeOK, BoxesOK, Entries

LEMMA PlayerType == ASSUME TypeOK, NEW p \in Players, Player(p), BoxesOK' PROVE TypeOK'
<1>1. job' \in [Threads -> Jobs] BY PlayerJob
<1>2. newIds' \in [Players -> SUBSET Nat] /\ told' \in [Players -> SUBSET Nat]
  <2>1. newIds \in [Players -> SUBSET Nat] /\ told \in [Players -> SUBSET Nat] BY DEF TypeOK
  <2>2. \/ newIds' = newIds \/ newIds' = [newIds EXCEPT ![p] = {}]
    BY DEF Player, SendMail, ClearNewMails, ReadMailList, GetMailAttachedItems, TakeItem,
           DeleteMail, CheckNewMail, CheckSystemMail, SendSysMail, SetCurrId, boxes
  <2>3. DOMAIN mails[p] \in SUBSET Nat BY CountAssumption DEF TypeOK, IsBox, MailIds
  <2>4. told' = told \/ \E ids \in SUBSET Nat : told' = [told EXCEPT ![p] = told[p] \cup ids]
    <3>1. CASE ReadMailList(p)
      <4>1. PICK expired \in SUBSET DOMAIN mails[p] :
              told' = [told EXCEPT ![p] = told[p] \cup (DOMAIN mails[p] \ expired)]
        BY <3>1 DEF ReadMailList
      <4>2. DOMAIN mails[p] \ expired \in SUBSET Nat BY <2>3
      <4>. QED BY <4>1, <4>2
    <3>2. CASE CheckNewMail(p)
      <4>1. told' = [told EXCEPT ![p] = told[p] \cup (newIds[p] \cap DOMAIN mails[p])]
        BY <3>2 DEF CheckNewMail
      <4>2. newIds[p] \cap DOMAIN mails[p] \in SUBSET Nat BY <2>3
      <4>. QED BY <4>1, <4>2
    <3>. QED BY <3>1, <3>2 DEF Player, SendMail, ClearNewMails, GetMailAttachedItems,
                               TakeItem, DeleteMail, CheckSystemMail, SendSysMail,
                               SetCurrId, history
  <2>5. newIds' \in [Players -> SUBSET Nat] BY <2>1, <2>2, NumberSets
  <2>6. CASE told' = told BY <2>1, <2>5, <2>6
  <2>7. CASE told' # told
    <3>1. PICK ids \in SUBSET Nat : told' = [told EXCEPT ![p] = told[p] \cup ids] BY <2>4, <2>7
    <3>2. told' \in [Players -> SUBSET Nat] BY <2>1, <3>1, NumberSets
    <3>. QED BY <2>5, <3>2
  <2>. QED BY <2>6, <2>7
<1>3. bag' \in [Players -> [Items -> Int]]
  <2>1. bag \in [Players -> [Items -> Int]] BY DEF TypeOK
  <2>2. CASE TakeItem(p) BY <2>2, TakenBy
  <2>3. CASE bag' = bag BY <2>1, <2>3
  <2>. QED BY <2>2, <2>3 DEF Player, SendMail, ClearNewMails, ReadMailList,
                             GetMailAttachedItems, DeleteMail, CheckNewMail,
                             CheckSystemMail, SendSysMail, SetCurrId, boxes
<1>4. scan' \in [Players -> [row : Nat, last : 0..MaxRows]] /\ sysId' \in [Players -> 0..MaxRows]
  <2>1. /\ scan \in [Players -> [row : Nat, last : 0..MaxRows]] /\ currMailId \in 0..MaxRows
        /\ sysId \in [Players -> 0..MaxRows]
    BY DEF TypeOK
  <2>2. CASE CheckSystemMail(p)
    <3>1. PICK n \in Nat : n = sysId[p] BY <2>1, CountAssumption
    <3>2. Max({n, 1}) \in Nat BY FirstRow
    <3>3. Max({sysId[p], 1}) \in Nat BY <3>1, <3>2
    <3>. QED BY <2>1, <2>2, <3>3 DEF CheckSystemMail
  <2>3. CASE SendSysMail(p)
    <3>1. scan' = scan \/ scan' = [scan EXCEPT ![p].row = scan[p].row + 1]
      BY <2>3 DEF SendSysMail
    <3>2. PICK s : s = [scan[p] EXCEPT !.row = scan[p].row + 1] OBVIOUS
    <3>3. s \in [row : Nat, last : 0..MaxRows] BY <2>1, <3>2
    <3>4. scan' = scan \/ scan' = [scan EXCEPT ![p] = s] BY <3>1, <3>2
    <3>. QED BY <2>1, <2>3, <3>3, <3>4 DEF SendSysMail
  <2>4. CASE SetCurrId(p)
    <3>1. [row |-> 0, last |-> 0] \in [row : Nat, last : 0..MaxRows] BY CountAssumption
    <3>. QED BY <2>1, <2>4, <3>1 DEF SetCurrId
  <2>5. CASE UNCHANGED <<scan, sysId>> BY <2>1, <2>5
  <2>. QED BY <2>2, <2>3, <2>4, <2>5 DEF Player, SendMail, ClearNewMails, ReadMailList,
           GetMailAttachedItems, TakeItem, DeleteMail, CheckNewMail, sys
<1>5. UNCHANGED <<currId, locker, rows, currMailId, cut, ledger, published, overtaken, reached>>
  BY DEF Player, SendMail, ClearNewMails, ReadMailList, GetMailAttachedItems, TakeItem,
         DeleteMail, CheckNewMail, CheckSystemMail, SendSysMail, SetCurrId, boxes, sys,
         history
<1>6. BoxesOK' OBVIOUS
<1>7. \A q \in Players : IsBox(mails[q])' BY <1>6 DEF BoxesOK
<1>. QED BY <1>1, <1>2, <1>3, <1>4, <1>5, <1>6, <1>7 DEF TypeOK, BoxesOK

LEMMA GmType == ASSUME TypeOK, NEW g \in Gms, Gm(g), BoxesOK' PROVE TypeOK'
<1>1. job' \in [Threads -> Jobs] BY GmJob
<1>2. job[g].at # "idle" => job[g].row \in RowIds BY GmJob
<1>3. rows' \in [RowIds -> {"absent", "drawn", "filled"}]
  BY DEF Gm, GmMail, AddSysMail, FillSysMail, SetCurrMailId, sys, TypeOK
<1>4. /\ currMailId' \in 0..MaxRows
      /\ published' \in SUBSET RowIds /\ overtaken' \in SUBSET RowIds
  <2>1. currMailId \in 0..MaxRows /\ published \in SUBSET RowIds /\ overtaken \in SUBSET RowIds
    BY DEF TypeOK
  <2>2. CASE SetCurrMailId(g)
    <3>1. job[g].row \in RowIds BY <1>2, <2>2 DEF SetCurrMailId, At
    <3>2. job[g].row \in 0..MaxRows BY <3>1, CountAssumption DEF RowIds
    <3>. QED BY <2>1, <2>2, <3>1, <3>2 DEF SetCurrMailId
  <2>3. CASE UNCHANGED <<currMailId, published, overtaken>> BY <2>1, <2>3
  <2>. QED BY <2>2, <2>3 DEF Gm, GmMail, AddSysMail, FillSysMail, sys, history
<1>5. UNCHANGED <<currId, newIds, locker, bag, sysId, scan, told, cut, ledger, reached>>
  BY DEF Gm, GmMail, AddSysMail, FillSysMail, SetCurrMailId, boxes, sys, history
<1>6. BoxesOK' OBVIOUS
<1>7. \A q \in Players : IsBox(mails[q])' BY <1>6 DEF BoxesOK
<1>. QED BY <1>1, <1>3, <1>4, <1>5, <1>6, <1>7 DEF TypeOK, BoxesOK

LEMMA NextType == ASSUME TypeOK, [Next]_vars PROVE TypeOK'
<1>1. BoxesOK' BY BoxStep
<1>2. CASE UNCHANGED vars BY <1>2 DEF vars, boxes, sys, history, TypeOK, IsBox
<1>. QED BY <1>1, <1>2, SendType, PlayerType, GmType DEF Next

\* Every variable keeps its type (TypeOK): a goroutine inside RealSendMail
\* always has a receiver, attachments and a place among them.
THEOREM TypeCorrect == Spec => []TypeOK
BY InitType, NextType, PTL DEF Spec

-----------------------------------------------------------------------------
(* The lock of a receiver is held.                                         *)

\* Where each step of RealSendMail comes from and goes to.
LEMMA SendAt ==
  ASSUME TypeOK, NEW t \in Threads, RealSendMail(t)
  PROVE  /\ LockReceiver(t) => job[t].at = "lock" /\ job'[t].at = "count"
         /\ CountMails(t) =>
              /\ job[t].at = "count"
              /\ job'[t].at = IF Cardinality(DOMAIN mails[job[t].to]) >= MailMaxCount
                              THEN "evict" ELSE "add"
         /\ RemoveOldest(t) => job[t].at = "evict" /\ job'[t].at = "add"
         /\ AddMail(t) => /\ job[t].at = "add" /\ job'[t].at = "attach"
                          /\ job'[t].id = currId[job[t].to] + 1
         /\ AttachItem(t) => /\ job[t].at = "attach" /\ job'[t].at = "attach"
                             /\ job'[t].k = job[t].k + 1
         /\ AllAttached(t) => /\ job[t].at = "attach" /\ job'[t].at = "pay"
                              /\ job'[t].k = 1
         /\ PayItem(t) => /\ job[t].at = "pay" /\ job'[t].at = "pay"
                          /\ job'[t].k = job[t].k + 1
         /\ Unlock(t) => job[t].at = "pay" /\ job'[t].at = "cache"
         /\ AttachFails(t) => job[t].at = "attach"
         /\ CacheNewMail(t) => job[t].at = "cache"
<1>1. job[t] \in Deliveries /\ job[t].at \in SendSteps BY SendJob, DeliveryParts
<1>2. job \in [Threads -> Jobs] BY DEF TypeOK
<1>3. LockReceiver(t) => job[t].at = "lock" /\ job'[t].at = "count"
  BY <1>1, GoToStep DEF LockReceiver, At, SendSteps
<1>4. CountMails(t) => /\ job[t].at = "count"
                       /\ job'[t].at = IF Cardinality(DOMAIN mails[job[t].to]) >= MailMaxCount
                                       THEN "evict" ELSE "add"
  BY <1>1, GoToStep DEF CountMails, At, SendSteps
<1>5. RemoveOldest(t) => job[t].at = "evict" /\ job'[t].at = "add"
  BY <1>1, GoToStep DEF RemoveOldest, At, SendSteps
<1>6. AddMail(t) => /\ job[t].at = "add" /\ job'[t].at = "attach"
                    /\ job'[t].id = currId[job[t].to] + 1
  <2>1. PICK id : id = currId[job[t].to] + 1 OBVIOUS
  <2>2. AddMail(t) => /\ job[t].at = "add"
                      /\ job' = [job EXCEPT ![t].at = "attach", ![t].id = id]
    BY <2>1 DEF AddMail, At
  <2>. QED BY <1>1, <1>2, <2>1, <2>2 DEF Deliveries
<1>7. AttachItem(t) => /\ job[t].at = "attach" /\ job'[t].at = "attach"
                       /\ job'[t].k = job[t].k + 1
  <2>1. PICK k : k = job[t].k + 1 OBVIOUS
  <2>2. AttachItem(t) => job[t].at = "attach" /\ job' = [job EXCEPT ![t].k = k]
    BY <2>1 DEF AttachItem, At
  <2>. QED BY <1>1, <1>2, <2>1, <2>2 DEF Deliveries
<1>8. Unlock(t) => job[t].at = "pay" /\ job'[t].at = "cache"
  BY <1>1, GoToStep DEF Unlock, At, SendSteps
<1>9. (AttachFails(t) => job[t].at = "attach") /\ (CacheNewMail(t) => job[t].at = "cache")
  BY DEF AttachFails, CacheNewMail, At
<1>10. AllAttached(t) => job[t].at = "attach" /\ job'[t].at = "pay" /\ job'[t].k = 1
  BY <1>1, <1>2 DEF AllAttached, At, Deliveries
<1>11. PayItem(t) => job[t].at = "pay" /\ job'[t].at = "pay" /\ job'[t].k = job[t].k + 1
  <2>1. PICK k : k = job[t].k + 1 OBVIOUS
  <2>2. PayItem(t) => job[t].at = "pay" /\ job' = [job EXCEPT ![t].k = k]
    BY <2>1 DEF PayItem, At
  <2>. QED BY <1>1, <1>2, <2>1, <2>2 DEF Deliveries
<1>. QED BY <1>3, <1>4, <1>5, <1>6, <1>7, <1>8, <1>9, <1>10, <1>11

LEMMA InitLock == Init => LockHeld
BY DEF Init, LockHeld, Idle

Locked(t) == job[t].at \in {"count", "evict", "add", "attach", "pay"}

LEMMA NextLock == ASSUME TypeOK, LockHeld, [Next]_vars PROVE LockHeld'
<1>. SUFFICES ASSUME NEW u \in Threads, Locked(u)' PROVE locker'[job'[u].to] = u
  BY DEF LockHeld, Locked
<1>1. CASE UNCHANGED <<job, locker>> BY <1>1 DEF LockHeld, Locked
<1>2. CASE \E t \in Threads : RealSendMail(t)
  <2>1. PICK t \in Threads : RealSendMail(t) BY <1>2
  <2>2. PICK q \in Players : q = job[t].to BY <2>1, SendJob, DeliveryParts
  <2>3. Nobody \notin Threads /\ locker \in [Players -> Threads \cup {Nobody}]
    BY ActorsAssumption DEF Threads, TypeOK
  <2>4. CASE LockReceiver(t)
    <3>1. locker[q] = Nobody /\ locker' = [locker EXCEPT ![q] = t] BY <2>2, <2>4 DEF LockReceiver
    <3>2. CASE u = t
      <4>1. job'[t].to = q BY <2>1, <2>2, <2>4, SendJob, SendAt
                              DEF LockReceiver, AttachFails, CacheNewMail, At
      <4>. QED BY <2>3, <3>1, <3>2, <4>1
    <3>3. CASE u # t
      <4>1. job'[u] = job[u] BY <2>1, <3>3, SendJob
      <4>2. Locked(u) /\ locker[job[u].to] = u BY <4>1 DEF LockHeld, Locked
      <4>3. job[u].to # q BY <2>3, <3>1, <4>2
      <4>. QED BY <2>3, <3>1, <4>1, <4>2, <4>3
    <3>. QED BY <3>2, <3>3
  <2>5. CASE AttachFails(t) \/ Unlock(t)
    <3>1. locker[q] = t /\ locker' = [locker EXCEPT ![q] = Nobody]
      BY <2>1, <2>2, <2>5, SendAt DEF LockHeld, AttachFails, Unlock
    <3>2. u # t BY <2>1, <2>5, SendJob, SendAt DEF Locked
    <3>3. job'[u] = job[u] BY <2>1, <3>2, SendJob
    <3>4. Locked(u) /\ locker[job[u].to] = u BY <3>3 DEF LockHeld, Locked
    <3>5. job[u].to # q BY <3>1, <3>2, <3>4
    <3>. QED BY <2>3, <3>1, <3>3, <3>4, <3>5
  <2>6. CASE ~LockReceiver(t) /\ ~AttachFails(t) /\ ~Unlock(t)
    <3>1. locker' = locker
      BY <2>1, <2>6 DEF RealSendMail, CountMails, RemoveOldest, AddMail, AttachItem, AllAttached,
                        PayItem, CacheNewMail, boxes
    <3>2. CASE u = t
      <4>1. ~CacheNewMail(t) BY <2>1, <3>2, SendJob DEF Locked
      <4>2. job'[t].to = job[t].to BY <2>1, <2>6, <4>1, SendJob
      <4>3. Locked(t)
        BY <2>1, <2>6, <4>1, SendAt DEF RealSendMail, Locked
      <4>. QED BY <3>1, <3>2, <4>2, <4>3 DEF LockHeld, Locked
    <3>3. CASE u # t
      <4>1. job'[u] = job[u] BY <2>1, <3>3, SendJob
      <4>. QED BY <3>1, <4>1 DEF LockHeld, Locked
    <3>. QED BY <3>2, <3>3
  <2>. QED BY <2>4, <2>5, <2>6
<1>3. CASE \E p \in Players : Player(p)
  <2>1. PICK p \in Players : Player(p) BY <1>3
  <2>2. u # p BY <2>1, PlayerJob DEF Locked
  <2>3. job'[u] = job[u] BY <2>1, <2>2, PlayerJob
  <2>4. locker' = locker
    BY <2>1 DEF Player, SendMail, ClearNewMails, ReadMailList, GetMailAttachedItems,
                TakeItem, DeleteMail, CheckNewMail, CheckSystemMail, SendSysMail, SetCurrId,
                boxes
  <2>. QED BY <2>3, <2>4 DEF LockHeld, Locked
<1>4. CASE \E g \in Gms : Gm(g)
  <2>1. PICK g \in Gms : Gm(g) BY <1>4
  <2>2. u # g BY <2>1, GmJob DEF Locked
  <2>3. job'[u] = job[u] BY <2>1, <2>2, GmJob
  <2>4. locker' = locker
    BY <2>1 DEF Gm, GmMail, AddSysMail, FillSysMail, SetCurrMailId, boxes
  <2>. QED BY <2>3, <2>4 DEF LockHeld, Locked
<1>. QED BY <1>1, <1>2, <1>3, <1>4 DEF Next, vars, boxes

\* Two goroutines past the lock have different receivers.
LEMMA LockedApart ==
  ASSUME LockHeld, NEW t \in Threads, NEW u \in Threads, t # u, Locked(t), Locked(u)
  PROVE  job[t].to # job[u].to
BY DEF LockHeld, Locked

-----------------------------------------------------------------------------
(* A box is never over its size.                                           *)

Size(m, p) == Cardinality(DOMAIN m[p])

LEMMA Sizes ==
  ASSUME BoxesOK, NEW p \in Players
  PROVE  IsFiniteSet(DOMAIN mails[p]) /\ Size(mails, p) \in Nat
<1>1. DOMAIN mails[p] \in SUBSET MailIds BY DEF BoxesOK, IsBox
<1>2. IsFiniteSet(MailIds) BY CountAssumption, FS_Interval DEF MailIds
<1>3. IsFiniteSet(DOMAIN mails[p]) BY <1>1, <1>2, FS_Subset
<1>. QED BY <1>3, FS_CardinalityType DEF Size

LEMMA SizesNext ==
  ASSUME BoxesOK', NEW p \in Players
  PROVE  IsFiniteSet(DOMAIN mails'[p]) /\ Size(mails', p) \in Nat
<1>1. DOMAIN mails'[p] \in SUBSET MailIds BY DEF BoxesOK, IsBox
<1>2. IsFiniteSet(MailIds) BY CountAssumption, FS_Interval DEF MailIds
<1>3. IsFiniteSet(DOMAIN mails'[p]) BY <1>1, <1>2, FS_Subset
<1>. QED BY <1>3, FS_CardinalityType DEF Size

\* Without a new mail no box grows.
LEMMA NoneGrows ==
  ASSUME TypeOK, [Next]_vars, NEW p \in Players, ~\E t \in Threads : AddMail(t) /\ job[t].to = p
  PROVE  Size(mails', p) <= Size(mails, p)
<1>1. DOMAIN mails'[p] \in SUBSET DOMAIN mails[p] BY BoxStep
<1>2. IsFiniteSet(DOMAIN mails[p]) BY Sizes DEF TypeOK, BoxesOK
<1>. QED BY <1>1, <1>2, FS_Subset DEF Size

LEMMA InitCapacity == Init => CapacityInv
<1>1. Init => CapacityKept
  <2>1. Init => \A p \in Players : DOMAIN mails[p] = {} BY DEF Init
  <2>2. Cardinality({}) = 0 BY FS_EmptySet
  <2>. QED BY <2>1, <2>2, CountAssumption DEF CapacityKept
<1>2. Init => \A t \in Threads : ~At(t, "add") BY DEF Init, At, Idle
<1>. QED BY <1>1, <1>2, InitType, InitLock DEF CapacityInv

LEMMA NextCapacity == ASSUME CapacityInv, [Next]_vars PROVE CapacityInv'
<1>1. TypeOK /\ TypeOK' /\ LockHeld /\ LockHeld' BY NextType, NextLock DEF CapacityInv
<1>2. BoxesOK /\ BoxesOK' BY <1>1 DEF TypeOK, BoxesOK
<1>3. \A p \in Players : /\ Size(mails, p) \in Nat /\ Size(mails', p) \in Nat
                         /\ Size(mails, p) <= MailMaxCount
  BY <1>2, Sizes, SizesNext DEF CapacityInv, CapacityKept, Size
<1>4. ASSUME NEW p \in Players PROVE Size(mails', p) <= MailMaxCount
  <2>1. CASE \E t \in Threads : AddMail(t) /\ job[t].to = p
    <3>1. PICK t \in Threads : AddMail(t) /\ job[t].to = p BY <2>1
    <3>2. Size(mails, p) < MailMaxCount BY <3>1 DEF CapacityInv, AddMail, Size
    <3>3. PICK id : id = currId[p] + 1 OBVIOUS
    <3>4. DOMAIN mails'[p] = DOMAIN mails[p] \cup {id} BY <1>1, <3>1, <3>3, PutIn
    <3>5. /\ IsFiniteSet(DOMAIN mails[p])
          /\ Cardinality(DOMAIN mails'[p]) = IF id \in DOMAIN mails[p] THEN Size(mails, p)
                                             ELSE Size(mails, p) + 1
      BY <1>2, <3>4, Sizes, FS_AddElement DEF Size
    <3>6. Size(mails', p) <= Size(mails, p) + 1 BY <1>3, <3>5 DEF Size
    <3>. QED BY <1>3, <3>2, <3>6, CountAssumption
  <2>2. CASE ~\E t \in Threads : AddMail(t) /\ job[t].to = p
    BY <1>1, <1>3, <2>2, NoneGrows, CountAssumption
  <2>. QED BY <2>1, <2>2
<1>5. ASSUME NEW u \in Threads, At(u, "add")' PROVE Size(mails', job'[u].to) < MailMaxCount
  <2>1. CASE At(u, "add") /\ job'[u] = job[u]
    <3>1. PICK q \in Players : q = job[u].to
      BY <1>1, <2>1, DeliveryShape, DeliveryParts DEF At, SendSteps
    <3>2. Size(mails, q) < MailMaxCount BY <2>1, <3>1 DEF CapacityInv, Size
    <3>3. ASSUME NEW t \in Threads, AddMail(t), job[t].to = q PROVE FALSE
      <4>1. t # u
        <5>1. AddMail(u) => job'[u].at = "attach" BY <1>1, SendAt DEF RealSendMail
        <5>. QED BY <1>5, <3>3, <5>1 DEF At
      <4>2. Locked(t) /\ Locked(u) BY <2>1, <3>3 DEF AddMail, Locked, At
      <4>. QED BY <1>1, <3>1, <3>3, <4>1, <4>2, LockedApart
    <3>4. Size(mails', q) <= Size(mails, q) BY <1>1, <3>3, NoneGrows
    <3>. QED BY <1>3, <2>1, <3>1, <3>2, <3>4, CountAssumption
  <2>2. CASE RealSendMail(u)
    <3>1. PICK q \in Players : q = job[u].to BY <1>1, <2>2, SendJob, DeliveryParts
    <3>2. ~AttachFails(u) /\ ~CacheNewMail(u) BY <1>1, <1>5, <2>2, SendJob DEF At
    <3>3. job'[u].to = q BY <1>1, <2>2, <3>1, <3>2, SendJob
    <3>4. CountMails(u) \/ RemoveOldest(u)
      BY <1>1, <1>5, <2>2, <3>2, SendAt DEF RealSendMail, At
    <3>5. CASE CountMails(u)
      <4>1. mails' = mails BY <3>5 DEF CountMails, boxes
      <4>2. Size(mails, q) < MailMaxCount
        BY <1>1, <1>3, <1>5, <2>2, <3>1, <3>5, SendAt, CountAssumption DEF At, Size
      <4>. QED BY <3>3, <4>1, <4>2 DEF Size
    <3>6. CASE RemoveOldest(u)
      <4>1. CASE DOMAIN mails[q] = {} /\ mails' = mails
        <5>1. Size(mails', q) = 0 BY <4>1, FS_EmptySet DEF Size
        <5>. QED BY <3>3, <5>1, CountAssumption
      <4>2. CASE \E oldest \in DOMAIN mails[q] :
                   mails' = [mails EXCEPT ![q] = Without(mails[q], {oldest})]
        <5>1. PICK oldest \in DOMAIN mails[q] :
                mails' = [mails EXCEPT ![q] = Without(mails[q], {oldest})]
          BY <4>2
        <5>2. DOMAIN mails'[q] = DOMAIN mails[q] \ {oldest} BY <1>2, <5>1, TakenOut
        <5>3. Size(mails', q) = Size(mails, q) - 1 BY <1>2, <5>1, <5>2, Sizes, FS_RemoveElement
          DEF Size
        <5>. QED BY <1>3, <3>3, <5>3, CountAssumption
      <4>. QED BY <3>1, <3>6, <4>1, <4>2 DEF RemoveOldest
    <3>. QED BY <3>4, <3>5, <3>6
  <2>3. CASE ~RealSendMail(u)
    <3>1. job'[u] = job[u]
      <4>1. CASE \E t \in Threads : RealSendMail(t) BY <1>1, <2>3, <4>1, SendJob
      <4>2. CASE \E p \in Players : Player(p) BY <1>1, <1>5, <4>2, PlayerJob DEF At
      <4>3. CASE \E g \in Gms : Gm(g) BY <1>1, <1>5, <4>3, GmJob DEF At
      <4>. QED BY <4>1, <4>2, <4>3 DEF Next, vars
    <3>. QED BY <1>5, <2>1, <3>1 DEF At
  <2>. QED BY <2>2, <2>3
<1>. QED BY <1>1, <1>4, <1>5 DEF CapacityInv, CapacityKept, Size

\* However many players and commands send to one box while its owner deletes
\* and lists his mails, it is never over MailMaxCount: receive_mail_locker is
\* held from the count to the new mail (RealSendMail, new_mail).
THEOREM BoxesKeepTheirSize == Spec => []CapacityKept
<1>1. Spec => []CapacityInv BY InitCapacity, NextCapacity, PTL DEF Spec
<1>2. CapacityInv => CapacityKept BY DEF CapacityInv
<1>. QED BY <1>1, <1>2, PTL

-----------------------------------------------------------------------------
(* No mail is forgotten between the box and its owner.                     *)

Known(p, id) == id \in told[p] \cup newIds[p] \cup cut[p]

\* The owner of a mail that is known stays to be told, or lists his mails.
LEMMA KnownStays ==
  ASSUME TypeOK, [Next]_vars, NEW p \in Players,
         NEW id \in DOMAIN mails[p], Known(p, id)
  PROVE  Known(p, id)' \/ job'[p].at = "list"
<1>0. /\ told \in [Players -> SUBSET Nat] /\ newIds \in [Players -> SUBSET Nat]
      /\ cut \in [Players -> SUBSET Nat] /\ p \in DOMAIN job
  BY DEF TypeOK, Threads
<1>1. CASE UNCHANGED <<told, newIds, cut>> BY <1>1 DEF Known
<1>2. CASE \E t \in Threads : RealSendMail(t)
  <2>1. PICK t \in Threads : RealSendMail(t) BY <1>2
  <2>2. PICK q \in Players : q = job[t].to BY <2>1, SendJob, DeliveryParts
  <2>3. PICK i : i = job[t].id OBVIOUS
  <2>4. CASE AttachFails(t)
    <3>1. cut' = [cut EXCEPT ![q] = cut[q] \cup {i}] /\ UNCHANGED <<told, newIds>>
      BY <2>2, <2>3, <2>4 DEF AttachFails
    <3>. QED BY <1>0, <3>1 DEF Known
  <2>5. CASE CacheNewMail(t)
    <3>1. newIds' = [newIds EXCEPT ![q] = newIds[q] \cup {i}] /\ UNCHANGED <<told, cut>>
      BY <2>2, <2>3, <2>5 DEF CacheNewMail
    <3>. QED BY <1>0, <3>1 DEF Known
  <2>. QED BY <1>1, <2>1, <2>4, <2>5
       DEF RealSendMail, LockReceiver, CountMails, RemoveOldest, AddMail, AttachItem,
           AllAttached, PayItem, Unlock, boxes, history
<1>3. CASE \E q \in Players : Player(q)
  <2>1. PICK q \in Players : Player(q) BY <1>3
  <2>2. CASE ClearNewMails(q)
    <3>1. /\ newIds' = [newIds EXCEPT ![q] = {}] /\ UNCHANGED <<told, cut>>
          /\ job' = [job EXCEPT ![q] = [at |-> "list"]]
      BY <2>2 DEF ClearNewMails, history
    <3>. QED BY <1>0, <3>1 DEF Known
  <2>3. CASE ReadMailList(q)
    <3>1. PICK ids : told' = [told EXCEPT ![q] = told[q] \cup ids] /\ UNCHANGED <<newIds, cut>>
      BY <2>3 DEF ReadMailList
    <3>. QED BY <1>0, <3>1 DEF Known
  <2>4. CASE CheckNewMail(q)
    <3>1. /\ told' = [told EXCEPT ![q] = told[q] \cup (newIds[q] \cap DOMAIN mails[q])]
          /\ newIds' = [newIds EXCEPT ![q] = {}] /\ UNCHANGED cut
      BY <2>4 DEF CheckNewMail
    <3>2. CASE q = p BY <1>0, <3>1, <3>2 DEF Known
    <3>3. CASE q # p BY <1>0, <3>1, <3>3 DEF Known
    <3>. QED BY <3>2, <3>3
  <2>. QED BY <1>1, <2>1, <2>2, <2>3, <2>4
       DEF Player, SendMail, GetMailAttachedItems, TakeItem, DeleteMail, CheckSystemMail,
           SendSysMail, SetCurrId, boxes, history
<1>4. CASE \E g \in Gms : Gm(g)
  BY <1>1, <1>4 DEF Gm, GmMail, AddSysMail, FillSysMail, SetCurrMailId, boxes, history
<1>. QED BY <1>1, <1>2, <1>3, <1>4 DEF Next, vars, boxes, history

\* A mail under way is sent, told of, or cut.
LEMMA SendingStays ==
  ASSUME TypeOK, [Next]_vars, NEW p \in Players, NEW id, SendingTo(p, id)
  PROVE  Known(p, id)' \/ SendingTo(p, id)'
<1>1. PICK u \in Threads : job[u].at \in {"attach", "pay", "cache"} /\ job[u].to = p /\ job[u].id = id
  BY DEF SendingTo
<1>2. CASE job'[u] = job[u] BY <1>1, <1>2 DEF SendingTo
<1>3. CASE RealSendMail(u)
  <2>1. /\ newIds \in [Players -> SUBSET Nat] /\ cut \in [Players -> SUBSET Nat]
    BY DEF TypeOK
  <2>2. CASE AttachFails(u)
    <3>1. cut' = [cut EXCEPT ![p] = cut[p] \cup {id}] BY <1>1, <2>2 DEF AttachFails
    <3>. QED BY <2>1, <3>1 DEF Known
  <2>3. CASE CacheNewMail(u)
    <3>1. newIds' = [newIds EXCEPT ![p] = newIds[p] \cup {id}] BY <1>1, <2>3 DEF CacheNewMail
    <3>. QED BY <2>1, <3>1 DEF Known
  <2>4. CASE ~AttachFails(u) /\ ~CacheNewMail(u)
    <3>1. AttachItem(u) \/ AllAttached(u) \/ PayItem(u) \/ Unlock(u)
      BY <1>1, <1>3, <2>4, SendAt DEF RealSendMail
    <3>2. ~AddMail(u) BY <1>1, <1>3, SendAt
    <3>3. job'[u].to = p /\ job'[u].id = id BY <1>1, <1>3, <2>4, <3>2, SendJob
    <3>4. job'[u].at \in {"attach", "pay", "cache"} BY <1>3, <3>1, SendAt
    <3>. QED BY <3>3, <3>4 DEF SendingTo
  <2>. QED BY <2>2, <2>3, <2>4
<1>4. CASE ~RealSendMail(u) /\ job'[u] # job[u]
  <2>1. CASE \E t \in Threads : RealSendMail(t) BY <1>4, <2>1, SendJob
  <2>2. CASE \E q \in Players : Player(q) BY <1>1, <1>4, <2>2, PlayerJob
  <2>3. CASE \E g \in Gms : Gm(g) BY <1>1, <1>4, <2>3, GmJob
  <2>. QED BY <1>4, <2>1, <2>2, <2>3 DEF Next, vars
<1>. QED BY <1>2, <1>3, <1>4

\* Between ClearNewMails and ReadMailList.
LEMMA ListingStays ==
  ASSUME TypeOK, [Next]_vars, NEW p \in Players, NEW id \in DOMAIN mails[p],
         id \in DOMAIN mails'[p], At(p, "list")
  PROVE  Known(p, id)' \/ At(p, "list")'
<1>0. p \in Threads /\ job[p].at = "list" BY DEF At, Threads
<1>1. CASE job'[p] = job[p] BY <1>0, <1>1 DEF At
<1>2. CASE Player(p)
  <2>1. ReadMailList(p)
    BY <1>0, <1>2 DEF Player, SendMail, ClearNewMails, GetMailAttachedItems, TakeItem,
                      DeleteMail, CheckNewMail, CheckSystemMail, SendSysMail, SetCurrId, At
  <2>2. PICK expired \in SUBSET DOMAIN mails[p] :
          /\ mails' = [mails EXCEPT ![p] = Without(mails[p], expired)]
          /\ told' = [told EXCEPT ![p] = told[p] \cup (DOMAIN mails[p] \ expired)]
    BY <2>1 DEF ReadMailList
  <2>3. DOMAIN mails'[p] = DOMAIN mails[p] \ expired BY <2>2, TakenOut DEF TypeOK, BoxesOK
  <2>4. told \in [Players -> SUBSET Nat] BY DEF TypeOK
  <2>. QED BY <2>2, <2>3, <2>4 DEF Known
<1>3. CASE ~Player(p) /\ job'[p] # job[p]
  <2>1. CASE \E t \in Threads : RealSendMail(t)
    <3>1. PICK t \in Threads : RealSendMail(t) BY <2>1
    <3>2. job[t].at \in SendSteps BY <3>1, SendJob, DeliveryParts
    <3>. QED BY <1>0, <1>3, <3>1, <3>2, SendJob DEF SendSteps
  <2>2. CASE \E q \in Players : Player(q) BY <1>0, <1>3, <2>2, PlayerJob
  <2>3. CASE \E g \in Gms : Gm(g) BY <1>0, <1>3, <2>3, GmJob
  <2>. QED BY <1>3, <2>1, <2>2, <2>3 DEF Next, vars
<1>. QED BY <1>1, <1>2, <1>3

LEMMA NextSeen == ASSUME SeenInv, [Next]_vars PROVE SeenInv'
<1>1. TypeOK /\ TypeOK' BY NextType DEF SeenInv
<1>2. ASSUME NEW p \in Players, NEW id \in DOMAIN mails'[p]
      PROVE  Known(p, id)' \/ SendingTo(p, id)' \/ At(p, "list")'
  <2>1. CASE id \notin DOMAIN mails[p]
    <3>1. PICK t \in Threads : AddMail(t) /\ job[t].to = p /\ id = currId[p] + 1
      BY <1>1, <2>1, BoxStep
    <3>2. RealSendMail(t) BY <3>1 DEF RealSendMail
    <3>3. job'[t].at = "attach" /\ job'[t].id = id BY <1>1, <3>1, <3>2, SendAt
    <3>4. job'[t].to = p
      BY <1>1, <3>1, <3>2, <3>3, SendJob
    <3>. QED BY <3>3, <3>4 DEF SendingTo
  <2>2. CASE id \in DOMAIN mails[p]
    <3>1. Known(p, id) \/ SendingTo(p, id) \/ At(p, "list")
      BY <2>2 DEF SeenInv, EveryMailIsSeen, Known
    <3>2. CASE Known(p, id) BY <1>1, <2>2, <3>2, KnownStays DEF At
    <3>3. CASE SendingTo(p, id) BY <1>1, <3>3, SendingStays
    <3>4. CASE At(p, "list") BY <1>1, <1>2, <2>2, <3>4, ListingStays
    <3>. QED BY <3>1, <3>2, <3>3, <3>4
  <2>. QED BY <2>1, <2>2
<1>3. EveryMailIsSeen' BY <1>2 DEF EveryMailIsSeen, Known
<1>. QED BY <1>1, <1>3 DEF SeenInv

\* Whoever sends a mail while its owner lists, deletes or makes another
\* request: a mail in a box was in an answer to its owner, or will be
\* (new_mail_ids, get_and_clear_cache_new_mails, CheckNewMail).
THEOREM NoMailIsForgotten == Spec => []EveryMailIsSeen
<1>1. Init => EveryMailIsSeen BY DEF Init, EveryMailIsSeen
<1>2. Init => SeenInv BY <1>1, InitType DEF SeenInv
<1>3. Spec => []SeenInv BY <1>2, NextSeen, PTL DEF Spec
<1>4. SeenInv => EveryMailIsSeen BY DEF SeenInv
<1>. QED BY <1>3, <1>4, PTL

-----------------------------------------------------------------------------
(* Who is told of a mail has all of it.                                    *)

\* What AddMail puts in the ledger.
LEMMA LedgerGrows ==
  ASSUME TypeOK, NEW t \in Threads, AddMail(t), Len(ledger[job[t].to]) = currId[job[t].to]
  PROVE  LET q == job[t].to  id == currId[q] + 1 IN
         /\ q \in Players /\ currId'[q] = id /\ Len(ledger'[q]) = id
         /\ \A p \in Players \ {q} : ledger'[p] = ledger[p] /\ currId'[p] = currId[p]
         /\ \A i \in 1..currId[q] : ledger'[q][i] = ledger[q][i]
         /\ ledger'[q][id].order = job[t].order
         /\ ledger'[q][id].free = (job[t].from = Nobody)
         /\ ledger'[q][id].paid = <<>> /\ newIds' = newIds
<1>0. RealSendMail(t) BY DEF RealSendMail
<1>1. PICK j \in Deliveries : j = job[t] BY <1>0, SendJob
<1>2. PICK q \in Players : q = j.to BY DeliveryParts
<1>3. PICK id \in Nat : id = currId[q] + 1 BY DEF TypeOK
<1>4. PICK e : e = [order |-> j.order, free |-> j.from = Nobody, paid |-> <<>>] OBVIOUS
<1>5. e \in Entries
  <2>1. j.order \in Seq(Attachments) /\ (j.from = Nobody) \in BOOLEAN /\ <<>> \in Seq(Int)
    BY DeliveryParts
  <2>. QED BY <1>4, <2>1 DEF Entries
<1>6. ledger \in [Players -> Seq(Entries)] /\ currId \in [Players -> Nat]
  BY DEF TypeOK, Entries
<1>7. PICK l : l = Append(ledger[q], e) OBVIOUS
<1>8. ledger[q] \in Seq(Entries) /\ Len(ledger[q]) = currId[q] BY <1>1, <1>2, <1>6
<1>9. /\ Len(l) = id /\ l[id] = e /\ \A i \in 1..currId[q] : l[i] = ledger[q][i]
  BY <1>3, <1>5, <1>6, <1>7, <1>8
<1>10. ledger' = [ledger EXCEPT ![q] = l] /\ currId' = [currId EXCEPT ![q] = id]
       /\ newIds' = newIds
  BY <1>1, <1>2, <1>3, <1>4, <1>7 DEF AddMail
<1>11. ledger'[q] = l /\ currId'[q] = id BY <1>6, <1>10
<1>12. \A p \in Players \ {q} : ledger'[p] = ledger[p] /\ currId'[p] = currId[p]
  BY <1>6, <1>10
<1>13. e.order = j.order /\ e.free = (j.from = Nobody) /\ e.paid = <<>> BY <1>4
<1>. QED BY <1>1, <1>2, <1>3, <1>9, <1>10, <1>11, <1>12, <1>13

\* What a payment changes in it.
LEMMA LedgerPaid ==
  ASSUME TypeOK, NEW t \in Threads, PayItem(t), job[t].id \in 1..Len(ledger[job[t].to])
  PROVE  LET j == job[t]
             i == j.order[j.k].item
             n == bag[j.from][i] - bag'[j.from][i]
             l == ledger[j.to][j.id]
         IN
         /\ j.to \in Players /\ UNCHANGED <<currId, newIds, mails>>
         /\ \A p \in Players : Len(ledger'[p]) = Len(ledger[p])
         /\ \A p \in Players : \A m \in 1..Len(ledger[p]) :
              ledger'[p][m] = ledger[p][m] \/ (p = j.to /\ m = j.id)
         /\ l \in Entries
         /\ ledger'[j.to][j.id].order = l.order /\ ledger'[j.to][j.id].free = l.free
         /\ ledger'[j.to][j.id].paid = Append(l.paid, n)
<1>0. RealSendMail(t) BY DEF RealSendMail
<1>1. PICK j \in Deliveries : j = job[t] BY <1>0, SendJob
<1>2. PICK q \in Players : q = j.to BY DeliveryParts
<1>3. PICK id : id = j.id OBVIOUS
<1>4. ledger \in [Players -> Seq(Entries)] BY DEF TypeOK, Entries
<1>5. UNCHANGED <<currId, newIds, mails>> BY DEF PayItem
<1>6. PICK n : n = bag[j.from][j.order[j.k].item] - bag'[j.from][j.order[j.k].item] OBVIOUS
<1>7. ledger[q] \in Seq(Entries) /\ id \in 1..Len(ledger[q]) BY <1>1, <1>2, <1>3, <1>4
<1>8. PICK paid : paid = Append(ledger[q][id].paid, n) OBVIOUS
<1>9. PICK e : e = [ledger[q][id] EXCEPT !.paid = paid] OBVIOUS
<1>10. ledger[q][id] \in Entries BY <1>7
<1>11. e.order = ledger[q][id].order /\ e.free = ledger[q][id].free /\ e.paid = paid
  BY <1>9, <1>10 DEF Entries
<1>12. PICK l : l = [ledger[q] EXCEPT ![id] = e] OBVIOUS
<1>13. /\ Len(l) = Len(ledger[q]) /\ l[id] = e
       /\ \A i \in 1..Len(ledger[q]) : l[i] = ledger[q][i] \/ i = id
  BY <1>7, <1>12
<1>14. ledger' = [ledger EXCEPT ![q] = l]
  BY <1>1, <1>2, <1>3, <1>6, <1>8, <1>9, <1>12 DEF PayItem
<1>15. ledger'[q] = l /\ \A p \in Players \ {q} : ledger'[p] = ledger[p] BY <1>4, <1>14
<1>. QED BY <1>1, <1>2, <1>3, <1>5, <1>6, <1>8, <1>10, <1>11, <1>13, <1>15

\* No other step touches the ledger, and only CacheNewMail adds to new_mail_ids.
LEMMA LedgerKept ==
  ASSUME TypeOK, [Next]_vars, ~\E t \in Threads : AddMail(t) \/ PayItem(t)
  PROVE  /\ UNCHANGED <<ledger, currId>>
         /\ \A p \in Players : \A id \in newIds'[p] :
              \/ id \in newIds[p]
              \/ \E t \in Threads : CacheNewMail(t) /\ p = job[t].to /\ id = job[t].id
<1>0. newIds \in [Players -> SUBSET Nat] BY DEF TypeOK
<1>1. CASE \E t \in Threads : RealSendMail(t)
  <2>1. PICK t \in Threads : RealSendMail(t) BY <1>1
  <2>2. CASE CacheNewMail(t)
    <3>1. PICK q \in Players : q = job[t].to BY <2>1, SendJob, DeliveryParts
    <3>2. PICK i : i = job[t].id OBVIOUS
    <3>3. newIds' = [newIds EXCEPT ![q] = newIds[q] \cup {i}] /\ UNCHANGED <<ledger, currId>>
      BY <2>2, <3>1, <3>2 DEF CacheNewMail
    <3>4. \A p \in Players : \A id \in newIds'[p] : id \in newIds[p] \/ (p = q /\ id = i)
      BY <1>0, <3>3
    <3>. QED BY <2>2, <3>1, <3>2, <3>3, <3>4
  <2>. QED BY <2>1, <2>2
       DEF RealSendMail, LockReceiver, CountMails, RemoveOldest, AttachItem, AttachFails,
           AllAttached, Unlock, boxes, history
<1>2. CASE \E p \in Players : Player(p)
  <2>1. PICK q \in Players : Player(q) BY <1>2
  <2>2. newIds' = newIds \/ newIds' = [newIds EXCEPT ![q] = {}]
    BY <2>1 DEF Player, SendMail, ClearNewMails, ReadMailList, GetMailAttachedItems,
                TakeItem, DeleteMail, CheckNewMail, CheckSystemMail, SendSysMail, SetCurrId,
                boxes
  <2>3. UNCHANGED <<ledger, currId>>
    BY <2>1 DEF Player, SendMail, ClearNewMails, ReadMailList, GetMailAttachedItems,
                TakeItem, DeleteMail, CheckNewMail, CheckSystemMail, SendSysMail, SetCurrId,
                boxes, history
  <2>. QED BY <1>0, <2>2, <2>3
<1>3. CASE \E g \in Gms : Gm(g)
  BY <1>3 DEF Gm, GmMail, AddSysMail, FillSysMail, SetCurrMailId, boxes, history
<1>. QED BY <1>1, <1>2, <1>3 DEF Next, vars, boxes, history

\* A goroutine that has made a mail had made it before the step, or makes it.
LEMMA DeliversSince ==
  ASSUME TypeOK, [Next]_vars, NEW u \in Threads, Delivers(u)'
  PROVE  /\ job[u] \in Deliveries /\ job'[u].to = job[u].to /\ job'[u].from = job[u].from
         /\ job'[u].order = job[u].order
         /\ \/ AddMail(u) /\ job'[u].id = currId[job[u].to] + 1
            \/ ~AddMail(u) /\ Delivers(u) /\ job'[u].id = job[u].id
<1>0. job'[u].at \in {"attach", "pay", "cache"} BY DEF Delivers
<1>1. CASE RealSendMail(u)
  <2>1. ~AttachFails(u) /\ ~CacheNewMail(u) BY <1>0, <1>1, SendJob
  <2>2. CASE AddMail(u) BY <1>1, <2>1, <2>2, SendJob, SendAt
  <2>3. CASE ~AddMail(u)
    <3>1. AttachItem(u) \/ AllAttached(u) \/ PayItem(u) \/ Unlock(u)
      BY <1>0, <1>1, <2>1, <2>3, SendAt DEF RealSendMail
    <3>. QED BY <1>1, <2>1, <2>3, <3>1, SendJob, SendAt DEF Delivers
  <2>. QED BY <2>2, <2>3
<1>2. CASE ~RealSendMail(u)
  <2>1. job'[u] = job[u]
    <3>1. CASE \E t \in Threads : RealSendMail(t) BY <1>2, <3>1, SendJob
    <3>2. CASE \E q \in Players : Player(q) BY <1>0, <3>2, PlayerJob
    <3>3. CASE \E g \in Gms : Gm(g) BY <1>0, <3>3, GmJob
    <3>. QED BY <3>1, <3>2, <3>3 DEF Next, vars
  <2>2. job[u].at \in SendSteps BY <1>0, <2>1 DEF SendSteps
  <2>. QED BY <1>0, <1>2, <2>1, <2>2, DeliveryShape DEF Delivers, RealSendMail
<1>. QED BY <1>1, <1>2

LEMMA NextIds == ASSUME TypeOK, LockHeld, IdsInv, [Next]_vars PROVE IdsInv'
<1>0. /\ currId \in [Players -> Nat] /\ ledger \in [Players -> Seq(Entries)]
      /\ currId' \in [Players -> Nat]
  BY NextType DEF TypeOK, Entries
<1>1. \A p \in Players : Len(ledger'[p]) = currId'[p] /\ 1..currId[p] \subseteq 1..currId'[p]
  <2>1. CASE \E t \in Threads : AddMail(t)
    <3>1. PICK t \in Threads : AddMail(t) BY <2>1
    <3>2. job[t].to \in Players BY <3>1, SendJob, DeliveryParts DEF RealSendMail
    <3>3. Len(ledger[job[t].to]) = currId[job[t].to] BY <3>2 DEF IdsInv
    <3>4. PICK q \in Players : q = job[t].to BY <3>2
    <3>5. /\ currId'[q] = currId[q] + 1 /\ Len(ledger'[q]) = currId'[q]
          /\ \A p \in Players \ {q} : ledger'[p] = ledger[p] /\ currId'[p] = currId[p]
      BY <3>1, <3>3, <3>4, LedgerGrows
    <3>6. 1..currId[q] \subseteq 1..currId'[q] BY <1>0, <3>5
    <3>. QED BY <3>5, <3>6 DEF IdsInv
  <2>2. CASE \E t \in Threads : PayItem(t)
    <3>1. PICK t \in Threads : PayItem(t) BY <2>2
    <3>2. job[t].to \in Players BY <3>1, SendJob, DeliveryParts DEF RealSendMail
    <3>3. Delivers(t) BY <3>1 DEF PayItem, At, Delivers
    <3>4. job[t].id \in 1..Len(ledger[job[t].to]) BY <3>2, <3>3 DEF IdsInv
    <3>. QED BY <3>1, <3>4, LedgerPaid DEF IdsInv
  <2>3. CASE ~\E t \in Threads : AddMail(t) \/ PayItem(t) BY <2>3, LedgerKept DEF IdsInv
  <2>. QED BY <2>1, <2>2, <2>3
<1>2. \A p \in Players : \A id \in newIds'[p] :
        \/ id \in newIds[p]
        \/ \E t \in Threads : CacheNewMail(t) /\ p = job[t].to /\ id = job[t].id
  <2>1. CASE \E t \in Threads : AddMail(t) \/ PayItem(t)
    BY <2>1 DEF AddMail, PayItem
  <2>2. CASE ~\E t \in Threads : AddMail(t) \/ PayItem(t) BY <2>2, LedgerKept
  <2>. QED BY <2>1, <2>2
<1>3. \A p \in Players : newIds'[p] \subseteq 1..currId'[p]
  <2>. SUFFICES ASSUME NEW p \in Players, NEW id \in newIds'[p] PROVE id \in 1..currId[p]
    BY <1>1
  <2>1. CASE id \in newIds[p] BY <2>1 DEF IdsInv
  <2>2. CASE \E t \in Threads : CacheNewMail(t) /\ p = job[t].to /\ id = job[t].id
    BY <2>2 DEF IdsInv, CacheNewMail, At, Delivers
  <2>. QED BY <1>2, <2>1, <2>2
<1>4. \A p \in Players : DOMAIN mails'[p] \subseteq 1..currId'[p]
  <2>. SUFFICES ASSUME NEW p \in Players, NEW id \in DOMAIN mails'[p] PROVE id \in 1..currId'[p]
    OBVIOUS
  <2>1. CASE id \in DOMAIN mails[p] BY <1>1, <2>1 DEF IdsInv
  <2>2. CASE \E t \in Threads : AddMail(t) /\ job[t].to = p /\ id = currId[p] + 1
    <3>1. PICK t \in Threads : AddMail(t) /\ job[t].to = p /\ id = currId[p] + 1 BY <2>2
    <3>2. currId'[p] = id BY <3>1, LedgerGrows DEF IdsInv
    <3>. QED BY <1>0, <3>1, <3>2
  <2>. QED BY <2>1, <2>2, BoxStep
<1>5. ASSUME NEW u \in Threads, Delivers(u)'
      PROVE  job'[u].id \in 1..currId'[job'[u].to] /\ job'[u].id \notin newIds'[job'[u].to]
  <2>1. PICK q \in Players : q = job[u].to /\ q = job'[u].to BY <1>5, DeliversSince, DeliveryParts
  <2>2. CASE AddMail(u) /\ job'[u].id = currId[q] + 1
    <3>1. currId'[q] = job'[u].id /\ newIds' = newIds BY <2>1, <2>2, LedgerGrows DEF IdsInv
    <3>2. newIds[q] \subseteq 1..currId[q] BY DEF IdsInv
    <3>3. currId[q] + 1 \notin 1..currId[q] /\ currId[q] + 1 \in 1..(currId[q] + 1) BY <1>0
    <3>. QED BY <2>1, <2>2, <3>1, <3>2, <3>3
  <2>3. CASE ~AddMail(u) /\ Delivers(u) /\ job'[u].id = job[u].id
    <3>1. job[u].id \in 1..currId[q] /\ job[u].id \notin newIds[q] BY <2>1, <2>3 DEF IdsInv
    <3>2. ASSUME NEW t \in Threads, CacheNewMail(t), job[t].to = q, job[t].id = job[u].id
          PROVE  FALSE
      <4>1. Delivers(t) /\ RealSendMail(t) BY <3>2 DEF CacheNewMail, At, Delivers, RealSendMail
      <4>2. t = u BY <2>1, <2>3, <3>2, <4>1 DEF IdsInv
      <4>3. job'[u].at \in {"idle", "scan", "reply"} BY <3>2, <4>1, <4>2, SendJob
      <4>. QED BY <1>5, <4>3 DEF Delivers
    <3>. QED BY <1>1, <1>2, <2>1, <2>3, <3>1, <3>2
  <2>. QED BY <1>5, <2>1, <2>2, <2>3, DeliversSince
<1>6. ASSUME NEW t \in Threads, NEW u \in Threads, t # u, Delivers(t)', Delivers(u)',
             job'[t].to = job'[u].to
      PROVE  job'[t].id # job'[u].id
  <2>1. PICK q \in Players : q = job[t].to /\ q = job[u].to
    BY <1>6, DeliversSince, DeliveryParts
  <2>2. Delivers(t) => job[t].id \in 1..currId[q] BY <2>1 DEF IdsInv
  <2>3. Delivers(u) => job[u].id \in 1..currId[q] BY <2>1 DEF IdsInv
  <2>4. currId[q] + 1 \notin 1..currId[q] BY <1>0
  <2>5. ~(AddMail(t) /\ AddMail(u))
    <3>1. AddMail(t) /\ AddMail(u) => Locked(t) /\ Locked(u) BY DEF AddMail, At, Locked
    <3>. QED BY <1>6, <2>1, <3>1, LockedApart
  <2>6. CASE AddMail(t)
    BY <1>6, <2>1, <2>3, <2>4, <2>5, <2>6, DeliversSince
  <2>7. CASE AddMail(u)
    BY <1>6, <2>1, <2>2, <2>4, <2>5, <2>7, DeliversSince
  <2>8. CASE ~AddMail(t) /\ ~AddMail(u)
    BY <1>6, <2>1, <2>8, DeliversSince DEF IdsInv
  <2>. QED BY <2>6, <2>7, <2>8
<1>. QED BY <1>1, <1>3, <1>4, <1>5, <1>6 DEF IdsInv

\* A mail and its entry stay as they are, but for the goroutine that makes it.
LEMMA Frozen ==
  ASSUME TypeOK, IdsInv, [Next]_vars, NEW p \in Players, NEW id \in 1..currId[p],
         \A t \in Threads : AttachItem(t) \/ PayItem(t) => job[t].to # p \/ job[t].id # id
  PROVE  /\ ledger'[p][id] = ledger[p][id]
         /\ id \in DOMAIN mails'[p] => id \in DOMAIN mails[p] /\ mails'[p][id] = mails[p][id]
<1>0. currId[p] \in Nat /\ Len(ledger[p]) = currId[p] BY DEF TypeOK, IdsInv
<1>1. ledger'[p][id] = ledger[p][id]
  <2>1. CASE \E t \in Threads : AddMail(t)
    <3>1. PICK t \in Threads : AddMail(t) BY <2>1
    <3>2. PICK q \in Players : q = job[t].to
      BY <3>1, SendJob, DeliveryParts DEF RealSendMail
    <3>3. /\ \A i \in 1..currId[q] : ledger'[q][i] = ledger[q][i]
          /\ \A r \in Players \ {q} : ledger'[r] = ledger[r]
      BY <3>1, <3>2, LedgerGrows DEF IdsInv
    <3>. QED BY <3>3
  <2>2. CASE \E t \in Threads : PayItem(t)
    <3>1. PICK t \in Threads : PayItem(t) BY <2>2
    <3>2. job[t].to \in Players BY <3>1, SendJob, DeliveryParts DEF RealSendMail
    <3>3. Delivers(t) BY <3>1 DEF PayItem, At, Delivers
    <3>4. job[t].id \in 1..Len(ledger[job[t].to]) BY <3>2, <3>3 DEF IdsInv
    <3>5. \A i \in 1..Len(ledger[p]) :
            ledger'[p][i] = ledger[p][i] \/ (p = job[t].to /\ i = job[t].id)
      BY <3>1, <3>4, LedgerPaid
    <3>. QED BY <1>0, <3>1, <3>5
  <2>3. CASE ~\E t \in Threads : AddMail(t) \/ PayItem(t) BY <2>3, LedgerKept
  <2>. QED BY <2>1, <2>2, <2>3
<1>2. id # currId[p] + 1 BY <1>0
<1>3. id \in DOMAIN mails'[p] => id \in DOMAIN mails[p] BY <1>2, BoxStep
<1>4. id \in DOMAIN mails'[p] => mails'[p][id] = mails[p][id] BY <1>2, <1>3, BoxStep
<1>. QED BY <1>1, <1>3, <1>4

\* Nobody else is at the mail that a goroutine delivers.
LEMMA AloneWithIt ==
  ASSUME IdsInv, NEW u \in Threads, Delivers(u), NEW t \in Threads, t # u,
         AttachItem(t) \/ PayItem(t)
  PROVE  job[t].to # job[u].to \/ job[t].id # job[u].id
<1>1. Delivers(t) BY DEF AttachItem, PayItem, At, Delivers
<1>. QED BY <1>1 DEF IdsInv

Works(t) == AddMail(t) \/ AttachItem(t) \/ AllAttached(t) \/ PayItem(t) \/ Unlock(t)

\* What a delivery that goes on has done in the step.
LEMMA DeliversHow ==
  ASSUME TypeOK, [Next]_vars, NEW u \in Threads, Delivers(u)'
  PROVE  \/ RealSendMail(u) /\ Works(u)
         \/ job'[u] = job[u] /\ Delivers(u) /\ ~Works(u)
<1>0. job'[u].at \in {"attach", "pay", "cache"} BY DEF Delivers
<1>1. CASE RealSendMail(u)
  <2>1. ~AttachFails(u) /\ ~CacheNewMail(u) BY <1>0, <1>1, SendJob
  <2>. QED BY <1>0, <1>1, <2>1, SendAt DEF RealSendMail, Works
<1>2. CASE ~RealSendMail(u)
  <2>1. job'[u] = job[u]
    <3>1. CASE \E t \in Threads : RealSendMail(t) BY <1>2, <3>1, SendJob
    <3>2. CASE \E q \in Players : Player(q) BY <1>0, <3>2, PlayerJob
    <3>3. CASE \E g \in Gms : Gm(g) BY <1>0, <3>3, GmJob
    <3>. QED BY <3>1, <3>2, <3>3 DEF Next, vars
  <2>. QED BY <1>0, <1>2, <2>1 DEF Delivers, RealSendMail, Works
<1>. QED BY <1>1, <1>2

EarlySteps == {"lock", "count", "evict", "add"}

LEMMA NextEarly ==
  ASSUME TypeOK, AttachedInv, [Next]_vars, NEW u \in Threads, job'[u].at \in EarlySteps
  PROVE  job'[u].k = 1
<1>0. job[u].at \in EarlySteps => job[u].k = 1 BY DEF AttachedInv, EarlySteps
<1>1. CASE RealSendMail(u)
  <2>1. ~AttachFails(u) /\ ~CacheNewMail(u) BY <1>1, SendJob DEF EarlySteps
  <2>2. ~Works(u) BY <1>1, SendAt DEF EarlySteps, Works
  <2>3. job[u].at \in EarlySteps BY <1>1, <2>1, <2>2, SendAt DEF RealSendMail, EarlySteps, Works
  <2>. QED BY <1>0, <1>1, <2>1, <2>2, <2>3, SendJob DEF Works
<1>2. CASE ~RealSendMail(u) /\ job'[u] = job[u] BY <1>0, <1>2
<1>3. CASE ~RealSendMail(u) /\ job'[u] # job[u]
  <2>1. CASE \E t \in Threads : RealSendMail(t) BY <1>3, <2>1, SendJob
  <2>2. CASE \E q \in Players : Player(q)
    <3>1. PICK q \in Players : Player(q) BY <2>2
    <3>2. u = q BY <1>3, <3>1, PlayerJob
    <3>. QED BY <3>1, <3>2, PlayerJob DEF EarlySteps
  <2>3. CASE \E g \in Gms : Gm(g)
    <3>1. PICK g \in Gms : Gm(g) BY <2>3
    <3>2. u = g BY <1>3, <3>1, GmJob
    <3>. QED BY <3>1, <3>2, GmJob DEF EarlySteps
  <2>. QED BY <1>3, <2>1, <2>2, <2>3 DEF Next, vars
<1>. QED BY <1>1, <1>2, <1>3

\* At the attachments, where nothing is paid yet; at the payment.
Attaching(j) ==
  /\ ledger[j.to][j.id].order = j.order
  /\ ledger[j.to][j.id].free = (j.from = Nobody)
  /\ ledger[j.to][j.id].paid = <<>>
  /\ j.k <= Len(j.order) + 1
  /\ j.id \in DOMAIN mails[j.to] =>
       /\ Len(mails[j.to][j.id]) = j.k - 1
       /\ \A i \in 1..(j.k - 1) : mails[j.to][j.id][i] = j.order[i]

Paying(j) ==
  /\ ledger[j.to][j.id].order = j.order
  /\ ledger[j.to][j.id].free = (j.from = Nobody)
  /\ j.k <= Len(j.order) + 1
  /\ j.id \in DOMAIN mails[j.to] => mails[j.to][j.id] = j.order
  /\ Len(ledger[j.to][j.id].paid) = j.k - 1
  /\ PaysInFull(ledger[j.to][j.id])

LEMMA AddAttaching ==
  ASSUME TypeOK, TypeOK', IdsInv, AttachedInv, NEW u \in Threads, AddMail(u),
         NEW j \in Deliveries, j = job'[u]
  PROVE  /\ ledger'[j.to][j.id].order = j.order
         /\ ledger'[j.to][j.id].free = (j.from = Nobody)
         /\ ledger'[j.to][j.id].paid = <<>>
         /\ j.k = 1 /\ mails'[j.to][j.id] = <<>>
<1>0. RealSendMail(u) /\ job[u].at = "add" BY DEF RealSendMail, AddMail, At
<1>1. PICK i \in Deliveries : i = job[u] BY <1>0, SendJob
<1>2. i.at = "add" /\ i.to \in Players BY <1>0, <1>1, DeliveryParts
<1>3. i.k = 1 BY <1>1, <1>2 DEF AttachedInv
<1>4. ~AttachFails(u) /\ ~CacheNewMail(u) /\ ~AttachItem(u) /\ ~AllAttached(u) /\ ~PayItem(u)
  BY <1>0 DEF AttachFails, CacheNewMail, AttachItem, AllAttached, PayItem, At
<1>5. /\ j.to = i.to /\ j.from = i.from /\ j.order = i.order /\ j.k = i.k
      /\ j.id = currId[i.to] + 1
  BY <1>0, <1>1, <1>4, SendJob, SendAt
<1>6. mails'[i.to][currId[i.to] + 1] = <<>> BY <1>1, PutIn
<1>7. /\ ledger'[i.to][currId[i.to] + 1].order = i.order
      /\ ledger'[i.to][currId[i.to] + 1].free = (i.from = Nobody)
      /\ ledger'[i.to][currId[i.to] + 1].paid = <<>>
  BY <1>1, <1>2, LedgerGrows DEF IdsInv
<1>. QED BY <1>3, <1>5, <1>6, <1>7

LEMMA LongerByOne ==
  ASSUME NEW s \in Seq(Attachments), NEW o, NEW k \in Nat \ {0}, Len(s) = k - 1,
         \A n \in 1..(k - 1) : s[n] = o[n], NEW x \in Attachments, x = o[k]
  PROVE  Len(Append(s, x)) = k /\ \A n \in 1..k : Append(s, x)[n] = o[n]
<1>1. Len(Append(s, x)) = Len(s) + 1 /\ Append(s, x)[Len(s) + 1] = x OBVIOUS
<1>2. Len(s) + 1 = k OBVIOUS
<1>3. ASSUME NEW n \in 1..k PROVE Append(s, x)[n] = o[n]
  <2>1. CASE n = k BY <1>1, <1>2, <2>1
  <2>2. CASE n # k
    <3>1. n \in 1..(k - 1) /\ n \in 1..Len(s) BY <2>2
    <3>2. Append(s, x)[n] = s[n] BY <3>1
    <3>. QED BY <3>1, <3>2
  <2>. QED BY <2>1, <2>2
<1>. QED BY <1>1, <1>2, <1>3

LEMMA AttachOne ==
  ASSUME TypeOK, TypeOK', IdsInv, NEW u \in Threads, AttachItem(u),
         NEW i \in Deliveries, i = job[u], Attaching(i), NEW j \in Deliveries, j = job'[u]
  PROVE  /\ ledger'[j.to][j.id].order = j.order
         /\ ledger'[j.to][j.id].free = (j.from = Nobody)
         /\ ledger'[j.to][j.id].paid = <<>>
         /\ j.k <= Len(j.order) + 1
         /\ Len(mails'[j.to][j.id]) = j.k - 1
         /\ \A n \in 1..(j.k - 1) : mails'[j.to][j.id][n] = j.order[n]
<1>0. RealSendMail(u) BY DEF RealSendMail
<1>1. ~AttachFails(u) /\ ~CacheNewMail(u) /\ ~AddMail(u)
  BY DEF AttachItem, AttachFails, CacheNewMail, AddMail, At
<1>2. /\ j.to = i.to /\ j.from = i.from /\ j.order = i.order /\ j.id = i.id
      /\ j.k = i.k + 1
  BY <1>0, <1>1, SendJob, SendAt
<1>3. /\ i.to \in Players /\ i.order \in Seq(Attachments) /\ i.k \in Nat \ {0}
  BY DeliveryParts
<1>4. i.k <= Len(i.order) /\ i.id \in DOMAIN mails[i.to] /\ ledger' = ledger
  BY DEF AttachItem, history
<1>5. PICK s \in Seq(Attachments) : s = mails[i.to][i.id] BY <1>3, <1>4 DEF TypeOK, IsBox
<1>6. Len(s) = i.k - 1 /\ \A n \in 1..(i.k - 1) : s[n] = i.order[n]
  BY <1>4, <1>5 DEF Attaching
<1>7. PICK x \in Attachments : x = i.order[i.k] BY <1>3, <1>4
<1>8. mails'[i.to][i.id] = Append(s, x) BY <1>5, <1>7, Attached
<1>9. Len(Append(s, x)) = i.k /\ \A n \in 1..i.k : Append(s, x)[n] = i.order[n]
  <2>1. PICK k \in Nat \ {0} : k = i.k BY <1>3
  <2>2. PICK o : o = i.order OBVIOUS
  <2>3. Len(s) = k - 1 /\ (\A n \in 1..(k - 1) : s[n] = o[n]) /\ x = o[k]
    BY <1>6, <1>7, <2>1, <2>2
  <2>4. Len(Append(s, x)) = k /\ \A n \in 1..k : Append(s, x)[n] = o[n]
    BY <2>3, LongerByOne
  <2>. QED BY <2>1, <2>2, <2>4
<1>10. /\ j.k - 1 = i.k /\ j.k <= Len(j.order) + 1
  BY <1>2, <1>3, <1>4
<1>11. /\ ledger[i.to][i.id].order = i.order /\ ledger[i.to][i.id].free = (i.from = Nobody)
       /\ ledger[i.to][i.id].paid = <<>>
  BY DEF Attaching
<1>. QED BY <1>2, <1>4, <1>8, <1>9, <1>10, <1>11

\* After the last attachment the mail is as ordered.
LEMMA ReadyToPay ==
  ASSUME TypeOK, NEW u \in Threads, AllAttached(u),
         NEW i \in Deliveries, i = job[u], Attaching(i), NEW j \in Deliveries, j = job'[u]
  PROVE  Paying(j)'
<1>0. RealSendMail(u) BY DEF RealSendMail
<1>1. ~AttachFails(u) /\ ~CacheNewMail(u) /\ ~AddMail(u)
  <2>1. i.k > Len(i.order) /\ i.at = "attach" BY DEF AllAttached, At
  <2>2. i.k \in Nat /\ Len(i.order) \in Nat BY DeliveryParts
  <2>3. ~AttachFails(u) BY <2>1, <2>2 DEF AttachFails
  <2>. QED BY <2>1, <2>3 DEF CacheNewMail, AddMail, At
<1>2. /\ j.to = i.to /\ j.from = i.from /\ j.order = i.order /\ j.id = i.id /\ j.k = 1
  BY <1>0, <1>1, SendJob, SendAt
<1>3. i.to \in Players /\ i.order \in Seq(Attachments) /\ i.k \in Nat \ {0} BY DeliveryParts
<1>4. i.k - 1 = Len(i.order) BY <1>3 DEF Attaching, AllAttached
<1>5. UNCHANGED <<mails, ledger>> BY DEF AllAttached, boxes, history
<1>6. i.id \in DOMAIN mails[i.to] => mails[i.to][i.id] = i.order
  <2>. SUFFICES ASSUME i.id \in DOMAIN mails[i.to] PROVE mails[i.to][i.id] = i.order
    OBVIOUS
  <2>1. PICK s \in Seq(Attachments) : s = mails[i.to][i.id] BY <1>3 DEF TypeOK, IsBox
  <2>2. Len(s) = Len(i.order) /\ \A n \in 1..Len(i.order) : s[n] = i.order[n]
    BY <1>4, <2>1 DEF Attaching
  <2>. QED BY <1>3, <2>1, <2>2
<1>7. /\ ledger[i.to][i.id].order = i.order /\ ledger[i.to][i.id].free = (i.from = Nobody)
      /\ ledger[i.to][i.id].paid = <<>>
  BY DEF Attaching
<1>8. Len(ledger[i.to][i.id].paid) = 0 /\ 1..Len(ledger[i.to][i.id].paid) = {} BY <1>7
<1>9. PaysInFull(ledger[i.to][i.id]) BY <1>8 DEF PaysInFull
<1>10. j.k <= Len(j.order) + 1 /\ j.k - 1 = 0 BY <1>2, <1>3
<1>11. PaysInFull(ledger[i.to][i.id])' BY <1>5, <1>9 DEF PaysInFull
<1>12. PaysInFull(ledger'[j.to][j.id]) BY <1>2, <1>11 DEF PaysInFull
<1>. QED BY <1>2, <1>5, <1>6, <1>7, <1>8, <1>10, <1>12 DEF Paying

\* One more is paid: as much as was ordered, for a positive number of an
\* ordinary item, since the bag holds no more than it may.
LEMMA PayOne ==
  ASSUME TypeOK, IdsInv, BagInv, NEW u \in Threads, PayItem(u),
         NEW i \in Deliveries, i = job[u], Paying(i), NEW j \in Deliveries, j = job'[u]
  PROVE  Paying(j)'
<1>0. RealSendMail(u) BY DEF RealSendMail
<1>1. ~AttachFails(u) /\ ~CacheNewMail(u) /\ ~AddMail(u)
  BY DEF PayItem, AttachFails, CacheNewMail, AddMail, At
<1>2. /\ j.to = i.to /\ j.from = i.from /\ j.order = i.order /\ j.id = i.id
      /\ j.k = i.k + 1
  BY <1>0, <1>1, SendJob, SendAt
<1>3. i.to \in Players /\ i.order \in Seq(Attachments) /\ i.k \in Nat \ {0} BY DeliveryParts
<1>4. i.k <= Len(i.order) /\ i.at = "pay" BY DEF PayItem, At
<1>5. PICK a \in Attachments : a = i.order[i.k] BY <1>3, <1>4
<1>6. a.item \in Items /\ a.num \in Int BY DEF Attachments
<1>7. PICK n : n = bag[i.from][a.item] - bag'[i.from][a.item] OBVIOUS
<1>8. a.item \notin Timed /\ a.num > 0 => n = a.num
  <2>. SUFFICES ASSUME a.item \notin Timed, a.num > 0 PROVE n = a.num OBVIOUS
  <2>1. PICK b \in [Items -> Int] : b = bag[i.from] BY PaidFrom DEF TypeOK
  <2>2. b[a.item] <= MaxNumber BY <1>6, <2>1, PaidFrom DEF BagInv
  <2>3. bag'[i.from] = AddResource(b, a.item, -a.num) BY <1>5, <2>1, PaidFrom
  <2>4. AddResource(b, a.item, -a.num)[a.item] = b[a.item] + (-a.num)
    <3>1. -a.num \in Int /\ b[a.item] \in Int BY <1>6
    <3>2. b[a.item] + (-a.num) <= MaxNumber BY <1>6, <2>2, <3>1, StockAssumption
    <3>. QED BY <1>6, <3>1, <3>2, Added
  <2>. QED BY <1>6, <1>7, <2>1, <2>3, <2>4
<1>19. i.id \in 1..Len(ledger[i.to]) BY <1>3, <1>4 DEF IdsInv, Delivers
<1>9. PICK l \in Entries : l = ledger[i.to][i.id] BY <1>19, LedgerPaid
<1>10. PICK m : m = ledger'[i.to][i.id] OBVIOUS
<1>11. /\ m.order = l.order /\ m.free = l.free /\ m.paid = Append(l.paid, n)
       /\ mails' = mails
  BY <1>19, <1>5, <1>7, <1>9, <1>10, LedgerPaid
<1>12. n \in Int
  <2>1. i.from \in Players /\ bag' \in [Players -> [Items -> Int]] BY PaidFrom
  <2>2. bag \in [Players -> [Items -> Int]] BY DEF TypeOK
  <2>3. bag[i.from][a.item] \in Int BY <1>6, <2>1, <2>2
  <2>4. bag'[i.from][a.item] \in Int BY <1>6, <2>1
  <2>. QED BY <1>7, <2>3, <2>4
<1>13. l.paid \in Seq(Int) BY DEF Entries
<1>14. /\ Len(l.paid) = i.k - 1 /\ l.order = i.order /\ l.free = (i.from = Nobody)
       /\ i.id \in DOMAIN mails[i.to] => mails[i.to][i.id] = i.order
       /\ PaysInFull(l)
  BY <1>9 DEF Paying
<1>15. Len(m.paid) = i.k BY <1>3, <1>11, <1>12, <1>13, <1>14
<1>16. PaysInFull(m)
  <2>. SUFFICES ASSUME NEW k \in 1..Len(m.paid), m.order[k].item \notin Timed, m.order[k].num > 0
                PROVE  m.paid[k] = m.order[k].num
    BY DEF PaysInFull
  <2>1. CASE k = i.k
    <3>1. m.paid[k] = n BY <1>3, <1>11, <1>12, <1>13, <1>14, <2>1
    <3>2. m.order[k] = a BY <1>5, <1>11, <1>14, <2>1
    <3>. QED BY <1>8, <3>1, <3>2
  <2>2. CASE k # i.k
    <3>1. k \in 1..Len(l.paid) BY <1>3, <1>14, <1>15, <2>2
    <3>2. m.paid[k] = l.paid[k] BY <1>11, <1>12, <1>13, <3>1
    <3>. QED BY <1>11, <1>14, <3>1, <3>2 DEF PaysInFull
  <2>. QED BY <2>1, <2>2
<1>17. j.k - 1 = i.k /\ j.k <= Len(j.order) + 1 BY <1>2, <1>3, <1>4
<1>18. PaysInFull(ledger'[j.to][j.id]) BY <1>2, <1>10, <1>16
<1>. QED BY <1>2, <1>10, <1>11, <1>14, <1>15, <1>17, <1>18 DEF Paying

\* The last payment makes the mail complete.
LEMMA PaidIsComplete ==
  ASSUME TypeOK, NEW u \in Threads, Unlock(u), NEW j \in Deliveries, j = job[u], Paying(j)
  PROVE  Complete(j.to, j.id)'
<1>1. j.order \in Seq(Attachments) /\ j.k \in Nat \ {0} BY DeliveryParts
<1>2. UNCHANGED <<mails, ledger>> BY DEF Unlock, history
<1>3. j.from = Nobody \/ j.k > Len(j.order) BY DEF Unlock
<1>4. Complete(j.to, j.id)
  <2>1. CASE j.from = Nobody
    <3>1. ledger[j.to][j.id].free = (j.from = Nobody) BY DEF Paying
    <3>2. ledger[j.to][j.id].free BY <2>1, <3>1
    <3>. QED BY <3>2 DEF Paying, Complete
  <2>2. CASE j.k > Len(j.order)
    <3>1. j.k - 1 = Len(j.order) BY <1>1, <2>2 DEF Paying
    <3>. QED BY <3>1 DEF Paying, Complete
  <2>. QED BY <1>3, <2>1, <2>2
<1>. QED BY <1>2, <1>4 DEF Complete, PaysInFull

LEMMA NextAttached ==
  ASSUME TypeOK, TypeOK', IdsInv, BagInv, AttachedInv, [Next]_vars, NEW u \in Threads
  PROVE  /\ job'[u].at \in EarlySteps => job'[u].k = 1
         /\ At(u, "attach")' => Attaching(job[u])'
         /\ At(u, "pay")' => Paying(job[u])'
         /\ At(u, "cache")' => Complete(job[u].to, job[u].id)'
<1>1. /\ At(u, "attach") => Attaching(job[u])
      /\ At(u, "pay") => Paying(job[u])
  BY DEF AttachedInv, Attaching, Paying, At
<1>2. At(u, "cache") => Complete(job[u].to, job[u].id) BY DEF AttachedInv
<1>3. ASSUME Delivers(u)', ~Works(u)
      PROVE  /\ job'[u] = job[u] /\ Delivers(u)
             /\ ledger'[job[u].to][job[u].id] = ledger[job[u].to][job[u].id]
             /\ job[u].id \in DOMAIN mails'[job[u].to] =>
                  /\ job[u].id \in DOMAIN mails[job[u].to]
                  /\ mails'[job[u].to][job[u].id] = mails[job[u].to][job[u].id]
  <2>1. job'[u] = job[u] /\ Delivers(u) BY <1>3, DeliversHow
  <2>2. PICK q \in Players : q = job[u].to BY <2>1, DeliversSince, <1>3, DeliveryParts
  <2>3. PICK id \in 1..currId[q] : id = job[u].id BY <2>1, <2>2 DEF IdsInv
  <2>4. \A t \in Threads : AttachItem(t) \/ PayItem(t) => job[t].to # q \/ job[t].id # id
    BY <1>3, <2>1, <2>2, <2>3, AloneWithIt DEF Works
  <2>. QED BY <2>1, <2>2, <2>3, <2>4, Frozen
<1>4. ASSUME At(u, "attach")' PROVE Attaching(job[u])'
  <2>0. Delivers(u)' BY <1>4 DEF At, Delivers
  <2>1. PICK i \in Deliveries : i = job[u] BY <2>0, DeliversSince
  <2>2. PICK j \in Deliveries : j = job'[u]
    BY <1>4, NextDeliveryShape DEF At, SendSteps
  <2>3. CASE AddMail(u)
    <3>1. j.order \in Seq(Attachments) /\ j.k = 1 BY <2>2, <2>3, AddAttaching, DeliveryParts
    <3>2. /\ j.k <= Len(j.order) + 1 /\ j.k - 1 = 0 /\ 1..(j.k - 1) = {} BY <3>1
    <3>3. Len(mails'[j.to][j.id]) = 0 BY <2>2, <2>3, AddAttaching
    <3>. QED BY <2>2, <2>3, <3>2, <3>3, AddAttaching DEF Attaching
  <2>4. CASE AttachItem(u)
    <3>1. Attaching(i) BY <1>1, <2>1, <2>4 DEF AttachItem
    <3>. QED BY <2>1, <2>2, <2>4, <3>1, AttachOne DEF Attaching
  <2>5. ~AllAttached(u) /\ ~PayItem(u) /\ ~Unlock(u) BY <1>4, SendAt DEF At, RealSendMail
  <2>6. CASE ~AddMail(u) /\ ~AttachItem(u)
    <3>0. ~Works(u) BY <2>5, <2>6 DEF Works
    <3>1. job'[u] = i BY <1>3, <2>0, <2>1, <3>0
    <3>2. Attaching(i) BY <1>1, <1>4, <2>1, <3>1 DEF At
    <3>3. /\ ledger'[i.to][i.id] = ledger[i.to][i.id]
          /\ i.id \in DOMAIN mails'[i.to] =>
                  /\ i.id \in DOMAIN mails[i.to]
                  /\ mails'[i.to][i.id] = mails[i.to][i.id]
      BY <1>3, <2>0, <2>1, <3>0
    <3>. QED BY <3>1, <3>2, <3>3 DEF Attaching
  <2>. QED BY <2>3, <2>4, <2>6
<1>5. ASSUME At(u, "pay")' PROVE Paying(job[u])'
  <2>0. Delivers(u)' BY <1>5 DEF At, Delivers
  <2>1. PICK i \in Deliveries : i = job[u] BY <2>0, DeliversSince
  <2>2. PICK j \in Deliveries : j = job'[u]
    BY <1>5, NextDeliveryShape DEF At, SendSteps
  <2>3. CASE AllAttached(u)
    <3>1. Attaching(i) BY <1>1, <2>1, <2>3 DEF AllAttached
    <3>2. Paying(j)' BY <2>1, <2>2, <2>3, <3>1, ReadyToPay
    <3>. QED BY <2>2, <3>2 DEF Paying
  <2>4. CASE PayItem(u)
    <3>1. Paying(i) BY <1>1, <2>1, <2>4 DEF PayItem
    <3>2. Paying(j)' BY <2>1, <2>2, <2>4, <3>1, PayOne
    <3>. QED BY <2>2, <3>2 DEF Paying
  <2>5. ~AddMail(u) /\ ~AttachItem(u) /\ ~Unlock(u) BY <1>5, SendAt DEF At, RealSendMail
  <2>6. CASE ~AllAttached(u) /\ ~PayItem(u)
    <3>0. ~Works(u) BY <2>5, <2>6 DEF Works
    <3>1. job'[u] = i BY <1>3, <2>0, <2>1, <3>0
    <3>2. Paying(i) BY <1>1, <1>5, <2>1, <3>1 DEF At
    <3>3. /\ ledger'[i.to][i.id] = ledger[i.to][i.id]
          /\ i.id \in DOMAIN mails'[i.to] =>
                  /\ i.id \in DOMAIN mails[i.to]
                  /\ mails'[i.to][i.id] = mails[i.to][i.id]
      BY <1>3, <2>0, <2>1, <3>0
    <3>. QED BY <3>1, <3>2, <3>3 DEF Paying, PaysInFull
  <2>. QED BY <2>3, <2>4, <2>6
<1>6. ASSUME At(u, "cache")' PROVE Complete(job[u].to, job[u].id)'
  <2>0. Delivers(u)' BY <1>6 DEF At, Delivers
  <2>1. PICK i \in Deliveries : i = job[u] BY <2>0, DeliversSince
  <2>2. ~AddMail(u) /\ ~AttachItem(u) /\ ~AllAttached(u) /\ ~PayItem(u)
    BY <1>6, SendAt DEF At, RealSendMail
  <2>3. CASE Unlock(u)
    <3>1. Paying(i) BY <1>1, <2>1, <2>3 DEF Unlock
    <3>2. Complete(i.to, i.id)' BY <2>1, <2>3, <3>1, PaidIsComplete
    <3>3. job'[u].to = i.to /\ job'[u].id = i.id BY <2>0, <2>1, <2>2, DeliversSince
    <3>. QED BY <3>2, <3>3 DEF Complete
  <2>4. CASE ~Unlock(u)
    <3>0. ~Works(u) BY <2>2, <2>4 DEF Works
    <3>1. job'[u] = i BY <1>3, <2>0, <2>1, <3>0
    <3>2. Complete(i.to, i.id) BY <1>2, <1>6, <2>1, <3>1 DEF At
    <3>3. /\ ledger'[i.to][i.id] = ledger[i.to][i.id]
          /\ i.id \in DOMAIN mails'[i.to] =>
                  /\ i.id \in DOMAIN mails[i.to]
                  /\ mails'[i.to][i.id] = mails[i.to][i.id]
      BY <1>3, <2>0, <2>1, <3>0
    <3>. QED BY <3>1, <3>2, <3>3 DEF Complete, PaysInFull
  <2>. QED BY <2>3, <2>4
<1>. QED BY <1>4, <1>5, <1>6, NextEarly

\* No bag gets more of an ordinary item than it may hold.
LEMMA NextBag == ASSUME TypeOK, BagInv, [Next]_vars PROVE BagInv'
<1>1. ASSUME NEW p \in Players, NEW i \in Items, NEW n \in Int,
             bag'[p] = AddResource(bag[p], i, n), \A q \in Players \ {p} : bag'[q] = bag[q]
      PROVE  BagInv'
  <2>. SUFFICES ASSUME NEW q \in Players, NEW x \in Items \ Timed PROVE bag'[q][x] <= MaxNumber
    BY DEF BagInv
  <2>1. bag[q][x] <= MaxNumber BY DEF BagInv
  <2>2. PICK b \in [Items -> Int] : b = bag[p] BY DEF TypeOK
  <2>3. CASE q = p /\ x = i
    <3>1. bag'[q][x] = IF b[i] + n <= MaxNumber THEN b[i] + n ELSE MaxNumber
      BY <1>1, <2>2, <2>3, Added
    <3>. QED BY <3>1, StockAssumption
  <2>4. CASE q = p /\ x # i BY <1>1, <2>1, <2>2, <2>4, Added
  <2>5. CASE q # p BY <1>1, <2>1, <2>5
  <2>. QED BY <2>3, <2>4, <2>5
<1>2. CASE bag' = bag BY <1>2 DEF BagInv
<1>3. CASE \E t \in Threads : PayItem(t)
  <2>1. PICK t \in Threads : PayItem(t) BY <1>3
  <2>2. PICK a \in Attachments : a = job[t].order[job[t].k] BY <2>1, PaidFrom
  <2>3. a.item \in Items /\ -a.num \in Int BY DEF Attachments
  <2>. QED BY <1>1, <2>1, <2>2, <2>3, PaidFrom
<1>4. CASE \E p \in Players : TakeItem(p)
  <2>1. PICK p \in Players : TakeItem(p) BY <1>4
  <2>2. PICK a \in Attachments : a = job[p].order[job[p].k] BY <2>1, TakenBy
  <2>3. a.item \in Items /\ a.num \in Int BY DEF Attachments
  <2>. QED BY <1>1, <2>1, <2>2, <2>3, TakenBy
<1>5. CASE \E t \in Threads : RealSendMail(t)
  BY <1>2, <1>3, <1>5 DEF RealSendMail, LockReceiver, CountMails, RemoveOldest, AddMail,
     AttachItem, AttachFails, AllAttached, Unlock, CacheNewMail, boxes
<1>6. CASE \E p \in Players : Player(p)
  BY <1>2, <1>4, <1>6 DEF Player, SendMail, ClearNewMails, ReadMailList, GetMailAttachedItems,
     DeleteMail, CheckNewMail, CheckSystemMail, SendSysMail, SetCurrId, boxes
<1>7. CASE \E g \in Gms : Gm(g)
  BY <1>2, <1>7 DEF Gm, GmMail, AddSysMail, FillSysMail, SetCurrMailId, boxes
<1>. QED BY <1>2, <1>5, <1>6, <1>7 DEF Next, vars, boxes

LEMMA NextAnnounced ==
  ASSUME TypeOK, IdsInv, AttachedInv, AnnouncedIsPaid, [Next]_vars,
         NEW p \in Players, NEW id \in newIds'[p]
  PROVE  Complete(p, id)'
<1>1. id \in 1..currId[p] /\ Complete(p, id)
      /\ \A t \in Threads : AttachItem(t) \/ PayItem(t) => job[t].to # p \/ job[t].id # id
  <2>1. CASE id \in newIds[p]
    <3>1. \A t \in Threads : AttachItem(t) \/ PayItem(t) => Delivers(t)
      BY DEF AttachItem, PayItem, At, Delivers
    <3>. QED BY <2>1, <3>1 DEF IdsInv, AnnouncedIsPaid
  <2>2. CASE \E t \in Threads : CacheNewMail(t) /\ p = job[t].to /\ id = job[t].id
    <3>1. PICK t \in Threads : CacheNewMail(t) /\ p = job[t].to /\ id = job[t].id BY <2>2
    <3>2. At(t, "cache") /\ Delivers(t) BY <3>1 DEF CacheNewMail, At, Delivers
    <3>3. Complete(p, id) BY <3>1, <3>2 DEF AttachedInv
    <3>4. ~AttachItem(t) /\ ~PayItem(t) BY <3>2 DEF At, AttachItem, PayItem
    <3>5. \A u \in Threads :
            AttachItem(u) \/ PayItem(u) => job[u].to # p \/ job[u].id # id
      BY <3>1, <3>2, <3>4, AloneWithIt
    <3>. QED BY <3>1, <3>2, <3>3, <3>5 DEF IdsInv
  <2>3. CASE \E t \in Threads : AddMail(t) \/ PayItem(t)
    BY <2>1, <2>3 DEF AddMail, PayItem
  <2>. QED BY <2>1, <2>2, <2>3, LedgerKept
<1>2. /\ ledger'[p][id] = ledger[p][id]
      /\ id \in DOMAIN mails'[p] => id \in DOMAIN mails[p] /\ mails'[p][id] = mails[p][id]
  BY <1>1, Frozen
<1>. QED BY <1>1, <1>2 DEF Complete, PaysInFull

LEMMA NextLedger == ASSUME LedgerInv, [Next]_vars PROVE LedgerInv'
<1>1. TypeOK /\ LockHeld /\ IdsInv /\ BagInv /\ AttachedInv /\ AnnouncedIsPaid BY DEF LedgerInv
<1>2. TypeOK' /\ LockHeld' /\ IdsInv' /\ BagInv' BY <1>1, NextType, NextLock, NextIds, NextBag
<1>3. AttachedInv'
  BY <1>1, <1>2, NextAttached DEF AttachedInv, Attaching, Paying, EarlySteps, At
<1>4. AnnouncedIsPaid' BY <1>1, NextAnnounced DEF AnnouncedIsPaid
<1>. QED BY <1>2, <1>3, <1>4 DEF LedgerInv

LEMMA InitLedger == Init => LedgerInv
<1>. SUFFICES ASSUME Init PROVE LedgerInv OBVIOUS
<1>1. \A t \in Threads : job[t].at = "idle" BY DEF Init, Idle
<1>2. IdsInv
  <2>1. \A p \in Players : /\ ledger[p] = <<>> /\ currId[p] = 0 /\ newIds[p] = {}
                           /\ DOMAIN mails[p] = {}
    BY DEF Init
  <2>2. \A p \in Players : Len(ledger[p]) = currId[p] BY <2>1
  <2>. QED BY <1>1, <2>1, <2>2 DEF IdsInv, Delivers
<1>3. AttachedInv BY <1>1 DEF AttachedInv, At
<1>4. AnnouncedIsPaid BY DEF Init, AnnouncedIsPaid
<1>5. BagInv BY StockAssumption DEF Init, BagInv
<1>. QED BY <1>2, <1>3, <1>4, <1>5, InitType, InitLock DEF LedgerInv

\* However many send to him at once, the owner is told only of mails with all
\* their attachments, each of which has left the bag of its sender, if it is
\* a positive number of an ordinary item (RealSendMail, attach_mail_item,
\* add_resource, cache_new_mail).
THEOREM ToldOfWholeMails == Spec => []AnnouncedIsPaid
<1>1. Spec => []LedgerInv BY InitLedger, NextLedger, PTL DEF Spec
<1>2. LedgerInv => AnnouncedIsPaid BY DEF LedgerInv
<1>. QED BY <1>1, <1>2, PTL

-----------------------------------------------------------------------------
(* The mails to everybody reach each player.                               *)

Holds(g) == job[g].at \in {"fill", "publish"}

LEMMA SysKept ==
  ASSUME [Next]_vars, ~\E g \in Gms : AddSysMail(g) \/ FillSysMail(g) \/ SetCurrMailId(g)
  PROVE  UNCHANGED <<rows, currMailId, published, overtaken>>
<1>1. CASE \E t \in Threads : RealSendMail(t)
  BY <1>1 DEF RealSendMail, LockReceiver, CountMails, RemoveOldest, AddMail, AttachItem,
              AttachFails, AllAttached, PayItem, Unlock, CacheNewMail, boxes, sys, history
<1>2. CASE \E p \in Players : Player(p)
  BY <1>2 DEF Player, SendMail, ClearNewMails, ReadMailList, GetMailAttachedItems, TakeItem,
              DeleteMail, CheckNewMail, CheckSystemMail, SendSysMail, SetCurrId, boxes, sys,
              history
<1>3. CASE \E g \in Gms : Gm(g) BY <1>3 DEF Gm, GmMail, boxes, sys, history
<1>. QED BY <1>1, <1>2, <1>3 DEF Next, vars, sys, history

\* What a player had and was sent before, he has and was sent after.
LEMMA SysIdKept ==
  ASSUME [Next]_vars, ~\E p \in Players : SetCurrId(p)
  PROVE  sysId' = sysId
<1>1. CASE \E t \in Threads : RealSendMail(t)
  BY <1>1 DEF RealSendMail, LockReceiver, CountMails, RemoveOldest, AddMail, AttachItem,
              AttachFails, AllAttached, PayItem, Unlock, CacheNewMail, boxes, sys, history
<1>2. CASE \E p \in Players : Player(p)
  BY <1>2 DEF Player, SendMail, ClearNewMails, ReadMailList, GetMailAttachedItems, TakeItem,
              DeleteMail, CheckNewMail, CheckSystemMail, SendSysMail, boxes, sys, history
<1>3. CASE \E g \in Gms : Gm(g)
  BY <1>3 DEF Gm, GmMail, AddSysMail, FillSysMail, SetCurrMailId, boxes, sys, history
<1>. QED BY <1>1, <1>2, <1>3 DEF Next, vars, sys, history

\* A command holds a row since AddRow.
LEMMA HoldsSince ==
  ASSUME TypeOK, [Next]_vars, NEW h \in Gms, Holds(h)'
  PROVE  job'[h] = job[h] \/ AddSysMail(h) \/ FillSysMail(h)
<1>0. h \in Threads /\ h \notin Players BY ActorsAssumption DEF Threads
<1>1. job'[h].at \in {"fill", "publish"} BY DEF Holds
<1>2. CASE \E t \in Threads : RealSendMail(t) BY <1>0, <1>1, <1>2, SendJob DEF SendSteps
<1>3. CASE \E p \in Players : Player(p)
  <2>1. PICK p \in Players : Player(p) BY <1>3
  <2>. QED BY <1>0, <2>1, PlayerJob
<1>4. CASE \E g \in Gms : Gm(g)
  <2>1. PICK g \in Gms : Gm(g) BY <1>4
  <2>2. CASE g # h BY <1>0, <2>1, <2>2, GmJob
  <2>3. CASE g = h
    <3>1. ~SetCurrMailId(h) BY <1>1, <2>1, <2>3, GmJob
    <3>2. ~GmMail(h) BY <1>1, <2>1, <2>3, GmJob DEF Deliveries
    <3>. QED BY <2>1, <2>3, <3>1, <3>2 DEF Gm
  <2>. QED BY <2>2, <2>3
<1>. QED BY <1>2, <1>3, <1>4 DEF Next, vars

LEMMA HeldRow ==
  ASSUME TypeOK, NEW h \in Gms, Holds(h)
  PROVE  job[h].row \in RowIds
<1>1. job[h] \in Jobs BY DEF TypeOK, Threads
<1>. QED BY <1>1 DEF Jobs, Idle, Deliveries, Holds

LEMMA NextRows == ASSUME TypeOK, RowsInv, ScanInv, [Next]_vars PROVE RowsInv'
<1>0. /\ rows \in [RowIds -> {"absent", "drawn", "filled"}] /\ published \in SUBSET RowIds
      /\ sysId \in [Players -> 0..MaxRows] /\ Gms \subseteq Threads
  BY DEF TypeOK, Threads
<1>. DEFINE Held == /\ \A g \in Gms : /\ At(g, "fill") => rows[job[g].row] = "drawn"
                                      /\ At(g, "publish") => rows[job[g].row] = "filled"
                                      /\ Holds(g) => job[g].row \notin published
                    /\ \A g, h \in Gms : g # h /\ Holds(g) /\ Holds(h) => job[g].row # job[h].row
                    /\ \A r \in published : rows[r] = "filled"
<1>1. Held /\ \A g \in Gms : Holds(g) => job[g].row \in RowIds
  BY HeldRow DEF RowsInv, Holds
<1>2. CASE \E g \in Gms : AddSysMail(g)
  <2>1. PICK g \in Gms : AddSysMail(g) BY <1>2
  <2>2. PICK r \in RowIds : /\ rows[r] = "absent" /\ rows' = [rows EXCEPT ![r] = "drawn"]
                            /\ \/ job' = [job EXCEPT ![g] = [at |-> "fill", row |-> r]]
                               \/ job' = job
    BY <2>1 DEF AddSysMail
  <2>3. UNCHANGED <<currMailId, published, sysId>> BY <2>1 DEF AddSysMail, history
  <2>4. r \notin published /\ \A h \in Gms : Holds(h) => job[h].row # r
    BY <1>1, <2>2 DEF Holds, At
  <2>5. \A s \in RowIds \ {r} : rows'[s] = rows[s] BY <1>0, <2>2
  <2>6. rows'[r] = "drawn" BY <1>0, <2>2
  <2>7. \A h \in Gms \ {g} : job'[h] = job[h] BY <1>0, <2>2 DEF TypeOK
  <2>8. job'[g] = job[g] \/ (job'[g].at = "fill" /\ job'[g].row = r)
    BY <1>0, <2>2 DEF TypeOK
  <2>9. Held'
    BY <1>0, <1>1, <2>3, <2>4, <2>5, <2>6, <2>7, <2>8 DEF Holds, At
  <2>. QED BY <2>3, <2>9 DEF RowsInv, Holds
<1>3. CASE \E g \in Gms : FillSysMail(g)
  <2>1. PICK g \in Gms : FillSysMail(g) BY <1>3
  <2>2. job[g].at = "fill" /\ Holds(g) BY <2>1 DEF FillSysMail, At, Holds
  <2>3. PICK r \in RowIds : r = job[g].row BY <1>1, <2>2
  <2>4. rows' = [rows EXCEPT ![r] = "filled"] /\ UNCHANGED <<currMailId, published, sysId>>
    BY <2>1, <2>3 DEF FillSysMail, history
  <2>5. /\ job'[g].at = "publish" /\ job'[g].row = r
        /\ \A h \in Gms \ {g} : job'[h] = job[h]
    BY <1>0, <2>1, <2>3, GmJob DEF Gm
  <2>6. rows'[r] = "filled" /\ \A s \in RowIds \ {r} : rows'[s] = rows[s] BY <1>0, <2>4
  <2>7. Held'
    BY <1>0, <1>1, <2>2, <2>3, <2>4, <2>5, <2>6 DEF Holds, At
  <2>. QED BY <2>4, <2>7 DEF RowsInv, Holds
<1>4. CASE \E g \in Gms : SetCurrMailId(g)
  <2>1. PICK g \in Gms : SetCurrMailId(g) BY <1>4
  <2>2. job[g].at = "publish" /\ Holds(g) BY <2>1 DEF SetCurrMailId, At, Holds
  <2>3. PICK r \in RowIds : r = job[g].row BY <1>1, <2>2
  <2>4. /\ currMailId' = r /\ published' = published \cup {r} /\ UNCHANGED <<rows, sysId>>
    BY <2>1, <2>3 DEF SetCurrMailId
  <2>5. job'[g].at = "idle" /\ \A h \in Gms \ {g} : job'[h] = job[h]
    BY <1>0, <2>1, GmJob DEF Gm
  <2>6. rows[r] = "filled" BY <1>1, <2>2, <2>3 DEF At
  <2>7. Held'
    BY <1>0, <1>1, <2>2, <2>3, <2>4, <2>5, <2>6 DEF Holds, At
  <2>. QED BY <2>4, <2>7 DEF RowsInv, Holds
<1>5. CASE ~\E g \in Gms : AddSysMail(g) \/ FillSysMail(g) \/ SetCurrMailId(g)
  <2>1. UNCHANGED <<rows, currMailId, published, overtaken>> BY <1>5, SysKept
  <2>2. \A h \in Gms : Holds(h)' => job'[h] = job[h] BY <1>5, HoldsSince
  <2>3. Held' BY <1>1, <2>1, <2>2 DEF Holds, At
  <2>4. \A p \in Players : sysId'[p] \in published \cup {0}
    <3>1. CASE \E p \in Players : SetCurrId(p)
      <4>1. PICK q \in Players : SetCurrId(q) BY <3>1
      <4>2. PICK last : last = scan[q].last OBVIOUS
      <4>3. At(q, "scan") /\ sysId' = [sysId EXCEPT ![q] = last]
        BY <4>1, <4>2 DEF SetCurrId
      <4>4. last \in published BY <4>2, <4>3 DEF ScanInv, Scanning
      <4>. QED BY <1>0, <4>3, <4>4 DEF RowsInv
    <3>2. CASE ~\E p \in Players : SetCurrId(p) BY <3>2, SysIdKept DEF RowsInv
    <3>. QED BY <3>1, <3>2
  <2>. QED BY <2>1, <2>3, <2>4 DEF RowsInv, Holds
<1>. QED BY <1>2, <1>3, <1>4, <1>5

\* scan is the player's own.
LEMMA ScanKept ==
  ASSUME TypeOK, [Next]_vars, NEW p \in Players, ~RealSendMail(p), ~Player(p)
  PROVE  job'[p] = job[p] /\ scan'[p] = scan[p] /\ reached'[p] = reached[p]
<1>0. p \in Threads /\ p \notin Gms BY ActorsAssumption DEF Threads
<1>1. scan \in [Players -> [row : Nat, last : 0..MaxRows]] /\ reached \in [Players -> SUBSET Nat]
  BY DEF TypeOK
<1>2. CASE \E t \in Threads : RealSendMail(t)
  <2>1. PICK t \in Threads : RealSendMail(t) BY <1>2
  <2>2. p # t /\ job'[p] = job[p] BY <1>0, <2>1, SendJob
  <2>3. UNCHANGED <<scan, reached>> \/ AttachFails(t) \/ CacheNewMail(t)
    BY <2>1 DEF RealSendMail, LockReceiver, CountMails, RemoveOldest, AddMail, AttachItem,
                AllAttached, PayItem, Unlock, boxes, sys, history
  <2>4. CASE AttachFails(t)
    <3>1. PICK s : s = [scan[t] EXCEPT !.row = scan[t].row + 1] OBVIOUS
    <3>2. reached' = reached /\ (scan' = scan \/ scan' = [scan EXCEPT ![t] = s])
      BY <2>4, <3>1 DEF AttachFails
    <3>. QED BY <1>1, <2>2, <3>2
  <2>5. CASE CacheNewMail(t)
    <3>1. PICK s : s = [scan[t] EXCEPT !.row = scan[t].row + 1] OBVIOUS
    <3>2. PICK n : n = reached[t] \cup {scan[t].row} OBVIOUS
    <3>3. \/ UNCHANGED <<scan, reached>>
          \/ scan' = [scan EXCEPT ![t] = s] /\ reached' = [reached EXCEPT ![t] = n]
      BY <2>5, <3>1, <3>2 DEF CacheNewMail
    <3>. QED BY <1>1, <2>2, <3>3
  <2>. QED BY <2>2, <2>3, <2>4, <2>5
<1>3. CASE \E q \in Players : Player(q)
  <2>1. PICK q \in Players : Player(q) BY <1>3
  <2>2. p # q /\ job'[p] = job[p] BY <1>0, <2>1, PlayerJob
  <2>3. reached' = reached
    BY <2>1 DEF Player, SendMail, ClearNewMails, ReadMailList, GetMailAttachedItems,
                TakeItem, DeleteMail, CheckNewMail, CheckSystemMail, SendSysMail, SetCurrId,
                boxes, sys, history
  <2>4. scan' = scan \/ \E s : scan' = [scan EXCEPT ![q] = s]
    <3>1. PICK s : s = [scan[q] EXCEPT !.row = scan[q].row + 1] OBVIOUS
    <3>2. SendSysMail(q) => scan' = scan \/ scan' = [scan EXCEPT ![q] = s]
      BY <3>1 DEF SendSysMail
    <3>. QED BY <2>1, <3>2
         DEF Player, SendMail, ClearNewMails, ReadMailList, GetMailAttachedItems, TakeItem,
             DeleteMail, CheckNewMail, CheckSystemMail, SetCurrId, boxes, sys, history
  <2>. QED BY <1>1, <2>2, <2>3, <2>4
<1>4. CASE \E g \in Gms : Gm(g)
  <2>1. PICK g \in Gms : Gm(g) BY <1>4
  <2>2. job'[p] = job[p] BY <1>0, <2>1, GmJob
  <2>3. UNCHANGED <<scan, reached>>
    BY <2>1 DEF Gm, GmMail, AddSysMail, FillSysMail, SetCurrMailId, boxes, sys, history
  <2>. QED BY <2>2, <2>3
<1>. QED BY <1>2, <1>3, <1>4 DEF Next, vars, sys, history

LEMMA PublishedGrows ==
  ASSUME [Next]_vars PROVE published \subseteq published'
<1>1. CASE \E g \in Gms : SetCurrMailId(g) BY <1>1 DEF SetCurrMailId
<1>2. CASE ~\E g \in Gms : SetCurrMailId(g)
  <2>1. CASE \E g \in Gms : AddSysMail(g) \/ FillSysMail(g)
    BY <2>1 DEF AddSysMail, FillSysMail, history
  <2>. QED BY <1>2, <2>1, SysKept
<1>. QED BY <1>1, <1>2

\* The mail a player is sending himself stays in his box.
LEMMA OwnMailStays ==
  ASSUME TypeOK, LockHeld, [Next]_vars, NEW p \in Players, ~RealSendMail(p), ~Player(p),
         At(p, "attach"), job[p].to = p
  PROVE  DOMAIN mails[p] \subseteq DOMAIN mails'[p]
<1>0. p \in Threads /\ locker[p] = p BY DEF Threads, LockHeld, At
<1>1. BoxesOK BY DEF TypeOK, BoxesOK
<1>2. CASE \E t \in Threads : RealSendMail(t)
  <2>1. PICK t \in Threads : RealSendMail(t) BY <1>2
  <2>2. CASE AddMail(t)
    <3>1. PICK q \in Players : q = job[t].to BY <2>1, SendJob, DeliveryParts
    <3>2. PICK id : id = currId[q] + 1 OBVIOUS
    <3>3. /\ \A r \in Players \ {q} : mails'[r] = mails[r]
          /\ DOMAIN mails'[q] = DOMAIN mails[q] \cup {id}
      BY <2>2, <3>1, <3>2, PutIn
    <3>. QED BY <3>3
  <2>3. CASE AttachItem(t)
    <3>1. PICK q \in Players : q = job[t].to BY <2>1, SendJob, DeliveryParts
    <3>2. /\ \A r \in Players \ {q} : mails'[r] = mails[r]
          /\ DOMAIN mails'[q] = DOMAIN mails[q]
      BY <2>3, <3>1, Attached
    <3>. QED BY <3>2
  <2>4. CASE RemoveOldest(t)
    <3>1. PICK q \in Players : q = job[t].to BY <2>1, SendJob, DeliveryParts
    <3>2. t # p BY <2>1
    <3>3. locker[q] = t BY <2>4, <3>1 DEF LockHeld, RemoveOldest, At
    <3>4. q # p BY <1>0, <3>2, <3>3
    <3>5. mails' = mails \/ \E ids : mails' = [mails EXCEPT ![q] = Without(mails[q], ids)]
      BY <2>4, <3>1 DEF RemoveOldest
    <3>6. CASE \E ids : mails' = [mails EXCEPT ![q] = Without(mails[q], ids)]
      <4>1. PICK ids : mails' = [mails EXCEPT ![q] = Without(mails[q], ids)] BY <3>6
      <4>2. \A r \in Players \ {q} : mails'[r] = mails[r] BY <1>1, <4>1, TakenOut
      <4>. QED BY <3>4, <4>2
    <3>. QED BY <3>5, <3>6
  <2>. QED BY <2>1, <2>2, <2>3, <2>4
       DEF RealSendMail, LockReceiver, CountMails, AttachFails, AllAttached, PayItem,
           Unlock, CacheNewMail, boxes
<1>3. CASE \E q \in Players : Player(q)
  <2>1. PICK q \in Players : Player(q) BY <1>3
  <2>2. q # p BY <2>1
  <2>3. mails' = mails \/ \E ids : mails' = [mails EXCEPT ![q] = Without(mails[q], ids)]
    BY <2>1 DEF Player, SendMail, ClearNewMails, ReadMailList, GetMailAttachedItems,
                TakeItem, DeleteMail, CheckNewMail, CheckSystemMail, SendSysMail, SetCurrId,
                boxes
  <2>. QED BY <1>1, <2>2, <2>3, TakenOut
<1>4. CASE \E g \in Gms : Gm(g)
  BY <1>4 DEF Gm, GmMail, AddSysMail, FillSysMail, SetCurrMailId, boxes
<1>. QED BY <1>2, <1>3, <1>4 DEF Next, vars, boxes

\* A mail to everybody costs nobody anything: sending it to oneself works.
LEMMA OwnMailIsSent ==
  ASSUME ScanInv, NEW p \in Players, scan[p].row > 0
  PROVE  ~AttachFails(p)
<1>1. SUFFICES ASSUME AttachFails(p) PROVE FALSE OBVIOUS
<1>2. At(p, "attach") BY <1>1 DEF AttachFails
<1>3. job[p].to = p /\ job[p].from = Nobody /\ job[p].id \in DOMAIN mails[p]
  BY <1>2 DEF ScanInv, Scanning, At
<1>. QED BY <1>1, <1>3 DEF AttachFails, Enough

LEMMA ScanSends ==
  ASSUME TypeOK, ScanInv, [Next]_vars, NEW p \in Players, RealSendMail(p), scan[p].row > 0
  PROVE  /\ IF CacheNewMail(p)
            THEN /\ scan'[p] = [row |-> scan[p].row + 1, last |-> scan[p].last]
                 /\ job'[p].at = "scan"
                 /\ reached'[p] = reached[p] \cup {scan[p].row}
            ELSE /\ scan' = scan /\ reached' = reached
                 /\ job'[p] \in Deliveries /\ job'[p].to = p /\ job'[p].from = Nobody
                 /\ job'[p].at = "attach" => job'[p].id \in DOMAIN mails'[p]
         /\ scan[p].row <= scan[p].last
<1>0. p \in Threads /\ p \notin Gms BY ActorsAssumption DEF Threads
<1>1. scan \in [Players -> [row : Nat, last : 0..MaxRows]] /\ reached \in [Players -> SUBSET Nat]
  BY DEF TypeOK
<1>2. job[p] \in Deliveries /\ job[p].at \in SendSteps BY <1>0, SendJob, DeliveryParts
<1>3. /\ job[p].to = p /\ job[p].from = Nobody /\ scan[p].row <= scan[p].last
      /\ At(p, "attach") => job[p].id \in DOMAIN mails[p]
  BY <1>2 DEF ScanInv, Scanning, At, SendSteps
<1>4. ~AttachFails(p) BY OwnMailIsSent
<1>5. CASE CacheNewMail(p)
  <2>1. PICK s : s = [scan[p] EXCEPT !.row = scan[p].row + 1] OBVIOUS
  <2>2. s = [row |-> scan[p].row + 1, last |-> scan[p].last] BY <1>1, <2>1
  <2>3. PICK n : n = reached[p] \cup {scan[p].row} OBVIOUS
  <2>4. scan' = [scan EXCEPT ![p] = s] /\ reached' = [reached EXCEPT ![p] = n]
    BY <1>5, <2>1, <2>3 DEF CacheNewMail
  <2>5. job'[p] = After(p) BY <1>0, <1>5, SendJob
  <2>6. job'[p].at = "scan" BY <1>0, <2>5 DEF After
  <2>. QED BY <1>1, <1>3, <1>5, <2>2, <2>3, <2>4, <2>6
<1>6. CASE ~CacheNewMail(p)
  <2>1. UNCHANGED <<scan, reached>>
    BY <1>4, <1>6 DEF RealSendMail, LockReceiver, CountMails, RemoveOldest, AddMail, AttachItem,
                AllAttached, PayItem, Unlock, boxes, sys, history
  <2>2. job'[p] \in Deliveries /\ job'[p].to = p /\ job'[p].from = Nobody
    BY <1>0, <1>3, <1>4, <1>6, SendJob
  <2>3. job'[p].at = "attach" => job'[p].id \in DOMAIN mails'[p]
    <3>1. CASE AddMail(p)
      <4>1. job'[p].id = currId[p] + 1 BY <1>0, <1>3, <3>1, SendAt
      <4>2. PICK id : id = currId[p] + 1 OBVIOUS
      <4>3. DOMAIN mails'[p] = DOMAIN mails[p] \cup {id} BY <1>0, <1>3, <3>1, <4>2, PutIn
      <4>. QED BY <4>1, <4>2, <4>3
    <3>2. CASE AttachItem(p)
      <4>1. ~AddMail(p) BY <3>2 DEF AddMail, AttachItem, At
      <4>2. job'[p].id = job[p].id BY <1>0, <1>4, <1>6, <4>1, SendJob
      <4>3. DOMAIN mails'[p] = DOMAIN mails[p] BY <1>0, <1>3, <3>2, Attached
      <4>4. At(p, "attach") BY <3>2 DEF AttachItem
      <4>. QED BY <1>3, <4>2, <4>3, <4>4
    <3>. QED BY <1>0, <1>4, <1>6, <3>1, <3>2, SendAt DEF RealSendMail
  <2>. QED BY <1>3, <1>6, <2>1, <2>2, <2>3
<1>. QED BY <1>5, <1>6

\* The steps of CheckSystemMail.
LEMMA ScanSteps ==
  ASSUME TypeOK, NEW p \in Players
  PROVE  /\ CheckSystemMail(p) =>
              /\ sysId[p] < currMailId /\ job'[p].at = "scan"
              /\ scan'[p] = [row |-> IF sysId[p] = 0 THEN 1 ELSE sysId[p], last |-> currMailId]
         /\ SendSysMail(p) =>
              /\ job[p].at = "scan" /\ scan[p].row <= scan[p].last
              /\ IF rows[scan[p].row] = "filled"
                 THEN /\ scan' = scan /\ job'[p] \in Deliveries /\ job'[p].at = "lock"
                      /\ job'[p].to = p /\ job'[p].from = Nobody
                 ELSE /\ scan'[p] = [row |-> scan[p].row + 1, last |-> scan[p].last]
                      /\ job'[p].at = "scan"
         /\ SetCurrId(p) =>
              /\ job[p].at = "scan" /\ job'[p].at = "reply" /\ scan[p].last < scan[p].row
              /\ scan'[p] = [row |-> 0, last |-> 0] /\ sysId'[p] = scan[p].last
<1>0. p \in Threads BY DEF Threads
<1>1. /\ scan \in [Players -> [row : Nat, last : 0..MaxRows]] /\ job \in [Threads -> Jobs]
      /\ sysId \in [Players -> 0..MaxRows] /\ currMailId \in 0..MaxRows
  BY DEF TypeOK
<1>2. ASSUME CheckSystemMail(p)
      PROVE  /\ sysId[p] < currMailId /\ job'[p].at = "scan"
             /\ scan'[p] = [row |-> IF sysId[p] = 0 THEN 1 ELSE sysId[p], last |-> currMailId]
  <2>1. PICK n \in Nat : n = sysId[p] BY <1>1, CountAssumption
  <2>2. Max({n, 1}) = IF n = 0 THEN 1 ELSE n BY FirstRow
  <2>3. Max({sysId[p], 1}) = IF sysId[p] = 0 THEN 1 ELSE sysId[p] BY <2>1, <2>2
  <2>. QED BY <1>0, <1>1, <1>2, <2>3 DEF CheckSystemMail
<1>3. ASSUME SendSysMail(p)
      PROVE  /\ job[p].at = "scan" /\ scan[p].row <= scan[p].last
             /\ IF rows[scan[p].row] = "filled"
                THEN /\ scan' = scan /\ job'[p] \in Deliveries /\ job'[p].at = "lock"
                     /\ job'[p].to = p /\ job'[p].from = Nobody
                ELSE /\ scan'[p] = [row |-> scan[p].row + 1, last |-> scan[p].last]
                     /\ job'[p].at = "scan"
  <2>1. job[p].at = "scan" /\ scan[p].row <= scan[p].last BY <1>3 DEF SendSysMail, At
  <2>2. CASE rows[scan[p].row] = "filled"
    <3>1. PICK j : j = Sending("lock", p, Nobody, SysOrder) OBVIOUS
    <3>2. j \in Deliveries /\ j.at = "lock" /\ j.to = p /\ j.from = Nobody
      BY <3>1, OrdersAssumption, SendingIsDelivery
    <3>3. job' = [job EXCEPT ![p] = j] /\ scan' = scan BY <1>3, <2>2, <3>1 DEF SendSysMail
    <3>. QED BY <1>0, <1>1, <2>1, <2>2, <3>2, <3>3
  <2>3. CASE rows[scan[p].row] # "filled"
    <3>1. PICK s : s = [scan[p] EXCEPT !.row = scan[p].row + 1] OBVIOUS
    <3>2. s = [row |-> scan[p].row + 1, last |-> scan[p].last] BY <1>1, <3>1
    <3>3. scan' = [scan EXCEPT ![p] = s] /\ job' = job BY <1>3, <2>3, <3>1 DEF SendSysMail
    <3>. QED BY <1>1, <2>1, <2>3, <3>2, <3>3
  <2>. QED BY <2>2, <2>3
<1>4. ASSUME SetCurrId(p)
      PROVE  /\ job[p].at = "scan" /\ job'[p].at = "reply" /\ scan[p].last < scan[p].row
             /\ scan'[p] = [row |-> 0, last |-> 0] /\ sysId'[p] = scan[p].last
  <2>1. PICK last \in 0..MaxRows : last = scan[p].last BY <1>1
  <2>2. sysId' = [sysId EXCEPT ![p] = last] /\ scan[p].row > last
    BY <1>4, <2>1 DEF SetCurrId
  <2>3. sysId'[p] = scan[p].last BY <1>1, <2>1, <2>2
  <2>4. last < scan[p].row BY <1>1, <2>1, <2>2
  <2>. QED BY <1>0, <1>1, <1>4, <2>1, <2>3, <2>4 DEF SetCurrId, At
<1>. QED BY <1>2, <1>3, <1>4

LEMMA OtherRequests ==
  ASSUME TypeOK, ScanInv, NEW p \in Players, Player(p),
         ~CheckSystemMail(p), ~SendSysMail(p), ~SetCurrId(p)
  PROVE  scan[p].row = 0 /\ job'[p].at # "scan" /\ UNCHANGED <<scan, reached, sysId>>
<1>0. p \in Threads /\ scan[p].row \in Nat /\ job \in [Threads -> Jobs] BY DEF TypeOK, Threads
<1>1. job[p].at \in {"idle", "list", "take", "reply"}
  BY DEF Player, SendMail, ClearNewMails, ReadMailList, GetMailAttachedItems, TakeItem,
         DeleteMail, CheckNewMail, At
<1>2. ~Scanning(p)
  <2>1. job[p] \notin Deliveries BY <1>1, DeliveryParts DEF SendSteps
  <2>. QED BY <1>1, <2>1 DEF Scanning, At
<1>3. scan[p].row = 0 BY <1>0, <1>2 DEF ScanInv
<1>4. UNCHANGED <<scan, reached, sysId>>
  BY DEF Player, SendMail, ClearNewMails, ReadMailList, GetMailAttachedItems, TakeItem,
         DeleteMail, CheckNewMail, boxes, sys, history
<1>5. job'[p].at # "scan"
  <2>1. CASE SendMail(p)
    <3>1. PICK j : j \in Deliveries /\ job' = [job EXCEPT ![p] = j]
      <4>1. PICK q \in Receivers, o \in Orders :
              job' = [job EXCEPT ![p] = Sending("lock", q, p, o)]
        BY <2>1 DEF SendMail
      <4>2. q \in Players /\ o \in Seq(Attachments) BY ActorsAssumption, OrdersAssumption
      <4>3. PICK j : j = Sending("lock", q, p, o) OBVIOUS
      <4>4. j \in Deliveries BY <4>2, <4>3, SendingIsDelivery
      <4>. QED BY <4>1, <4>3, <4>4
    <3>2. job'[p] = j BY <1>0, <3>1
    <3>. QED BY <3>1, <3>2, DeliveryParts DEF SendSteps
  <2>2. CASE ReadMailList(p)
    <3>1. PICK j : j = [job[p] EXCEPT !.at = "reply"] OBVIOUS
    <3>2. job' = [job EXCEPT ![p] = j] BY <2>2, <3>1 DEF ReadMailList, GoTo
    <3>3. job[p].at = "list" /\ job[p] \in Jobs BY <1>0, <2>2 DEF ReadMailList, At
    <3>4. job[p] \in [at : {"list", "reply", "scan"}] BY <3>3 DEF Jobs, Idle, Deliveries
    <3>5. j.at = "reply" BY <3>1, <3>4
    <3>. QED BY <1>0, <3>2, <3>5
  <2>3. CASE TakeItem(p)
    <3>1. job[p] \in [at : {"take"}, order : Seq(Attachments), k : Nat \ {0}]
      <4>1. job[p].at = "take" /\ job[p] \in Jobs BY <1>0, <2>3 DEF TakeItem, At
      <4>. QED BY <4>1 DEF Jobs, Idle, Deliveries
    <3>2. PICK j : j = IF job[p].k = Len(job[p].order) THEN [at |-> "reply"]
                       ELSE [job[p] EXCEPT !.k = job[p].k + 1]
      OBVIOUS
    <3>3. j.at \in {"take", "reply"} BY <3>1, <3>2
    <3>4. job' = [job EXCEPT ![p] = j] BY <2>3, <3>2 DEF TakeItem
    <3>. QED BY <1>0, <3>3, <3>4
  <2>. QED BY <1>0, <2>1, <2>2, <2>3
       DEF Player, ClearNewMails, GetMailAttachedItems, DeleteMail, CheckNewMail, Idle
<1>. QED BY <1>3, <1>4, <1>5

LEMMA NextScanning ==
  ASSUME TypeOK, TypeOK', LockHeld, RowsInv, ScanInv, [Next]_vars, NEW p \in Players
  PROVE  IF scan'[p].row > 0 THEN Scanning(p)' ELSE ~At(p, "scan")'
<1>0. /\ p \in Threads /\ published \subseteq published' /\ published \in SUBSET RowIds
      /\ scan[p].row \in Nat /\ scan[p].last \in Nat
      /\ currMailId \in Nat /\ sysId[p] \in Nat
  BY PublishedGrows, CountAssumption DEF Threads, TypeOK
<1>1. CASE RealSendMail(p) /\ scan[p].row > 0
  <2>1. scan[p].last \in published BY <1>1 DEF ScanInv, Scanning
  <2>2. CASE CacheNewMail(p)
    <3>1. /\ scan'[p] = [row |-> scan[p].row + 1, last |-> scan[p].last]
          /\ job'[p].at = "scan" /\ scan[p].row <= scan[p].last
      BY <1>1, <2>2, ScanSends
    <3>2. /\ scan'[p].row = scan[p].row + 1 /\ scan'[p].last = scan[p].last
      BY <3>1
    <3>3. scan[p].last \in published' BY <1>0, <2>1
    <3>4. scan'[p].row <= scan'[p].last + 1 BY <1>0, <3>1, <3>2
    <3>5. Scanning(p)' BY <3>1, <3>2, <3>3, <3>4 DEF Scanning, At
    <3>. QED BY <1>0, <3>2, <3>5
  <2>3. CASE ~CacheNewMail(p)
    <3>1. /\ scan' = scan /\ job'[p] \in Deliveries /\ job'[p].to = p /\ job'[p].from = Nobody
          /\ job'[p].at = "attach" => job'[p].id \in DOMAIN mails'[p]
          /\ scan[p].row <= scan[p].last
      BY <1>1, <2>3, ScanSends
    <3>2. scan'[p].row = scan[p].row /\ scan'[p].last = scan[p].last BY <3>1
    <3>3. scan[p].last \in published' BY <1>0, <2>1
    <3>4. Scanning(p)'
      <4>1. scan'[p].last \in published' /\ scan'[p].row <= scan'[p].last + 1
        BY <1>0, <3>1, <3>2, <3>3
      <4>2. scan'[p].row <= scan'[p].last BY <3>1, <3>2
      <4>. QED BY <3>1, <4>1, <4>2 DEF Scanning, At
    <3>. QED BY <1>1, <3>2, <3>4
  <2>. QED BY <2>2, <2>3
<1>2. CASE RealSendMail(p) /\ scan[p].row = 0
  <2>1. scan' = scan
    <3>1. CASE AddMail(p) BY <3>1 DEF AddMail, sys
    <3>2. CASE CacheNewMail(p) \/ AttachFails(p)
      <4>1. ~(scan[p].row > 0) BY <1>2
      <4>. QED BY <3>2, <4>1 DEF CacheNewMail, AttachFails
    <3>3. CASE AttachItem(p) BY <3>3 DEF AttachItem, sys
    <3>4. CASE LockReceiver(p) \/ CountMails(p) \/ RemoveOldest(p) \/ AllAttached(p) \/ PayItem(p)
               \/ Unlock(p)
      BY <3>4 DEF LockReceiver, CountMails, RemoveOldest, AllAttached, PayItem, Unlock, sys
    <3>. QED BY <1>2, <3>1, <3>2, <3>3, <3>4 DEF RealSendMail
  <2>2. p \notin Gms BY ActorsAssumption
  <2>3. After(p).at = "reply" BY <1>2, <2>2 DEF After
  <2>4. job'[p].at # "scan" BY <1>0, <1>2, <2>3, SendJob DEF SendSteps
  <2>. QED BY <1>2, <2>1, <2>4 DEF At
<1>3. CASE CheckSystemMail(p)
  <2>1. /\ sysId[p] < currMailId /\ job'[p].at = "scan"
        /\ scan'[p] = [row |-> IF sysId[p] = 0 THEN 1 ELSE sysId[p], last |-> currMailId]
    BY <1>3, ScanSteps
  <2>2. scan'[p].row = (IF sysId[p] = 0 THEN 1 ELSE sysId[p]) /\ scan'[p].last = currMailId
    BY <2>1
  <2>3. currMailId \in published BY <1>0, <2>1 DEF RowsInv
  <2>. QED BY <1>0, <2>1, <2>2, <2>3 DEF Scanning, At
<1>4. CASE SendSysMail(p)
  <2>1. job[p].at = "scan" /\ scan[p].row <= scan[p].last BY <1>4, ScanSteps
  <2>2. scan[p].row > 0 /\ scan[p].last \in published BY <2>1 DEF ScanInv, Scanning, At
  <2>3. CASE rows[scan[p].row] = "filled"
    <3>1. /\ scan' = scan /\ job'[p] \in Deliveries /\ job'[p].at = "lock"
          /\ job'[p].to = p /\ job'[p].from = Nobody
      BY <1>4, <2>3, ScanSteps
    <3>. QED BY <1>0, <2>1, <2>2, <3>1 DEF Scanning, At
  <2>4. CASE rows[scan[p].row] # "filled"
    <3>1. /\ scan'[p] = [row |-> scan[p].row + 1, last |-> scan[p].last] /\ job'[p].at = "scan"
      BY <1>4, <2>4, ScanSteps
    <3>2. scan'[p].row = scan[p].row + 1 /\ scan'[p].last = scan[p].last BY <3>1
    <3>. QED BY <1>0, <2>1, <2>2, <3>1, <3>2 DEF Scanning, At
  <2>. QED BY <2>3, <2>4
<1>5. CASE SetCurrId(p)
  <2>1. scan'[p] = [row |-> 0, last |-> 0] /\ job'[p].at = "reply" BY <1>5, ScanSteps
  <2>2. ~(scan'[p].row > 0) BY <2>1
  <2>. QED BY <2>1, <2>2 DEF At
<1>6. CASE Player(p) /\ ~CheckSystemMail(p) /\ ~SendSysMail(p) /\ ~SetCurrId(p)
  BY <1>6, OtherRequests DEF At
<1>7. CASE ~RealSendMail(p) /\ ~Player(p)
  <2>1. job'[p] = job[p] /\ scan'[p] = scan[p] BY <1>7, ScanKept
  <2>2. CASE scan[p].row > 0
    <3>1. Scanning(p) BY <2>2 DEF ScanInv
    <3>2. At(p, "attach") => job[p].to = p BY <3>1 DEF Scanning, At
    <3>3. At(p, "attach") => DOMAIN mails[p] \subseteq DOMAIN mails'[p]
      BY <1>7, <3>2, OwnMailStays
    <3>. QED BY <1>0, <2>1, <2>2, <3>1, <3>3 DEF Scanning, At
  <2>3. CASE ~(scan[p].row > 0) BY <2>1, <2>3 DEF ScanInv, At
  <2>. QED BY <2>2, <2>3
<1>. QED BY <1>0, <1>1, <1>2, <1>3, <1>4, <1>5, <1>6, <1>7

\* A row that is published in its turn is above all that a player has or is at.
LEMMA PublishedInTurn ==
  ASSUME TypeOK, RowsInv, ScanInv, NEW g \in Gms, SetCurrMailId(g),
         NEW r \in published' \ overtaken', NEW p \in Players
  PROVE  r \in published \ overtaken \/ (~(r <= sysId[p]) /\ ~(r < scan[p].row))
<1>0. /\ published \in SUBSET RowIds /\ overtaken \subseteq overtaken'
      /\ \A s \in RowIds : s \in Nat \ {0}
      /\ scan[p].row \in Nat /\ scan[p].last \in Nat /\ sysId[p] \in Nat
  BY CountAssumption DEF TypeOK, SetCurrMailId, RowIds
<1>1. Holds(g) BY DEF SetCurrMailId, At, Holds
<1>2. PICK n \in RowIds : n = job[g].row BY <1>1, HeldRow
<1>3. n \notin published BY <1>1, <1>2 DEF RowsInv, Holds
<1>4. /\ published' = published \cup {n}
      /\ overtaken' = IF \E s \in published : s > n THEN overtaken \cup {n} ELSE overtaken
  BY <1>2 DEF SetCurrMailId
<1>5. CASE r = n
  <2>1. \A s \in published : s < n
    <3>1. ~\E s \in published : s > n BY <1>4, <1>5
    <3>. QED BY <1>0, <1>3, <3>1
  <2>2. sysId[p] < n BY <1>0, <2>1 DEF RowsInv
  <2>3. scan[p].row <= n
    <3>1. CASE scan[p].row > 0
      <4>1. scan[p].last \in published /\ scan[p].row <= scan[p].last + 1
        BY <3>1 DEF ScanInv, Scanning
      <4>2. scan[p].last < n BY <2>1, <4>1
      <4>. QED BY <1>0, <4>1, <4>2
    <3>2. CASE ~(scan[p].row > 0) BY <1>0, <3>2
    <3>. QED BY <3>1, <3>2
  <2>. QED BY <1>0, <1>5, <2>2, <2>3
<1>6. CASE r # n BY <1>0, <1>4, <1>6
<1>. QED BY <1>5, <1>6

LEMMA NextReached ==
  ASSUME TypeOK, TypeOK', LockHeld, RowsInv, ScanInv, [Next]_vars,
         NEW p \in Players, NEW r \in published' \ overtaken',
         r <= sysId'[p] \/ r < scan'[p].row
  PROVE  r \in reached'[p]
<1>0. /\ r \in RowIds /\ r \in Nat \ {0} /\ sysId[p] \in Nat
      /\ scan[p].row \in Nat /\ scan[p].last \in Nat
  BY CountAssumption DEF TypeOK, RowIds
<1>1. ASSUME r \in published \ overtaken, r <= sysId[p] \/ r < scan[p].row
      PROVE  r \in reached[p]
  BY <1>1 DEF ScanInv
<1>2. CASE ~\E g \in Gms : SetCurrMailId(g)
  <2>1. UNCHANGED <<published, overtaken>>
    <3>1. CASE \E g \in Gms : AddSysMail(g) \/ FillSysMail(g)
      BY <3>1 DEF AddSysMail, FillSysMail, history
    <3>. QED BY <1>2, <3>1, SysKept
  <2>2. CASE SetCurrId(p)
    <3>1. /\ job[p].at = "scan" /\ scan[p].last < scan[p].row
          /\ scan'[p] = [row |-> 0, last |-> 0] /\ sysId'[p] = scan[p].last
      BY <2>2, ScanSteps
    <3>2. scan'[p].row = 0 BY <3>1
    <3>3. r < scan[p].row BY <1>0, <3>1, <3>2
    <3>4. reached' = reached BY <2>2 DEF SetCurrId, history
    <3>. QED BY <1>1, <2>1, <3>3, <3>4
  <2>3. CASE ~SetCurrId(p)
    <3>1. sysId'[p] = sysId[p]
      <4>1. CASE \E q \in Players : SetCurrId(q)
        <5>1. PICK q \in Players : SetCurrId(q) BY <4>1
        <5>2. PICK last : last = scan[q].last OBVIOUS
        <5>3. q # p /\ sysId' = [sysId EXCEPT ![q] = last] BY <2>3, <5>1, <5>2 DEF SetCurrId
        <5>. QED BY <5>3 DEF TypeOK
      <4>2. CASE ~\E q \in Players : SetCurrId(q) BY <4>2, SysIdKept
      <4>. QED BY <4>1, <4>2
    <3>2. CASE RealSendMail(p) /\ scan[p].row > 0
      <4>1. CASE CacheNewMail(p)
        <5>1. /\ scan'[p] = [row |-> scan[p].row + 1, last |-> scan[p].last]
              /\ reached'[p] = reached[p] \cup {scan[p].row}
          BY <3>2, <4>1, ScanSends
        <5>2. scan'[p].row = scan[p].row + 1 BY <5>1
        <5>. QED BY <1>0, <1>1, <2>1, <3>1, <5>1, <5>2
      <4>2. CASE ~CacheNewMail(p)
        <5>1. scan' = scan /\ reached' = reached BY <3>2, <4>2, ScanSends
        <5>. QED BY <1>1, <2>1, <3>1, <5>1
      <4>. QED BY <4>1, <4>2
    <3>3. CASE RealSendMail(p) /\ ~(scan[p].row > 0)
      <4>1. UNCHANGED <<scan, reached>>
        BY <3>3 DEF RealSendMail, LockReceiver, CountMails, RemoveOldest, AddMail, AttachItem,
                    AttachFails, CacheNewMail, AllAttached, PayItem, Unlock, boxes, sys, history
      <4>. QED BY <1>1, <2>1, <3>1, <4>1
    <3>4. CASE CheckSystemMail(p)
      <4>1. scan'[p] = [row |-> IF sysId[p] = 0 THEN 1 ELSE sysId[p], last |-> currMailId]
        BY <3>4, ScanSteps
      <4>2. scan'[p].row = IF sysId[p] = 0 THEN 1 ELSE sysId[p] BY <4>1
      <4>3. reached' = reached BY <3>4 DEF CheckSystemMail, history
      <4>. QED BY <1>0, <1>1, <2>1, <3>1, <4>2, <4>3
    <3>5. CASE SendSysMail(p)
      <4>1. reached' = reached BY <3>5 DEF SendSysMail, history
      <4>2. CASE rows[scan[p].row] = "filled"
        <5>1. scan' = scan BY <3>5, <4>2, ScanSteps
        <5>. QED BY <1>1, <2>1, <3>1, <4>1, <5>1
      <4>3. CASE rows[scan[p].row] # "filled"
        <5>1. scan'[p] = [row |-> scan[p].row + 1, last |-> scan[p].last]
          BY <3>5, <4>3, ScanSteps
        <5>2. scan'[p].row = scan[p].row + 1 BY <5>1
        <5>3. r # scan[p].row BY <2>1, <4>3 DEF RowsInv
        <5>. QED BY <1>0, <1>1, <2>1, <3>1, <4>1, <5>2, <5>3
      <4>. QED BY <4>2, <4>3
    <3>6. CASE Player(p) /\ ~CheckSystemMail(p) /\ ~SendSysMail(p)
      <4>1. scan' = scan /\ reached' = reached BY <2>3, <3>6, OtherRequests
      <4>. QED BY <1>1, <2>1, <3>1, <4>1
    <3>7. CASE ~RealSendMail(p) /\ ~Player(p)
      <4>1. scan'[p] = scan[p] /\ reached'[p] = reached[p] BY <3>7, ScanKept
      <4>. QED BY <1>1, <2>1, <3>1, <4>1
    <3>. QED BY <3>2, <3>3, <3>4, <3>5, <3>6, <3>7
  <2>. QED BY <2>2, <2>3
<1>3. CASE \E g \in Gms : SetCurrMailId(g)
  <2>1. PICK g \in Gms : SetCurrMailId(g) BY <1>3
  <2>2. UNCHANGED <<sysId, scan, reached>> BY <2>1 DEF SetCurrMailId
  <2>3. r \in published \ overtaken BY <2>1, <2>2, PublishedInTurn
  <2>. QED BY <1>1, <2>2, <2>3
<1>. QED BY <1>2, <1>3

LEMMA NextSysMail == ASSUME SysMailInv, [Next]_vars PROVE SysMailInv'
<1>1. TypeOK /\ LockHeld /\ RowsInv /\ ScanInv BY DEF SysMailInv
<1>2. TypeOK' /\ LockHeld' /\ RowsInv' BY <1>1, NextType, NextLock, NextRows
<1>3. ScanInv' BY <1>1, <1>2, NextScanning, NextReached DEF ScanInv
<1>. QED BY <1>2, <1>3 DEF SysMailInv

LEMMA InitSysMail == Init => SysMailInv
<1>. SUFFICES ASSUME Init PROVE SysMailInv OBVIOUS
<1>1. \A t \in Threads : job[t].at = "idle" BY DEF Init, Idle
<1>2. Gms \subseteq Threads /\ Players \subseteq Threads BY DEF Threads
<1>3. RowsInv BY <1>1, <1>2 DEF Init, RowsInv, At
<1>4. \A p \in Players : scan[p].row = 0 BY DEF Init
<1>5. ScanInv BY <1>1, <1>2, <1>4 DEF Init, ScanInv, At
<1>. QED BY <1>3, <1>5, InitType, InitLock DEF SysMailInv

\* A player who has been sent the mails to everybody up to one was sent each of
\* them, those published while he was being sent others too: CheckSystemMail
\* stops at the last it saw, and begins there (mail_id, sys_mail_id, SetCurrId).
THEOREM EverybodyGetsThem == Spec => []SysMailsArrive
<1>1. Spec => []SysMailInv BY InitSysMail, NextSysMail, PTL DEF Spec
<1>2. SysMailInv => SysMailsArrive BY DEF SysMailInv, ScanInv, SysMailsArrive
<1>. QED BY <1>1, <1>2, PTL
=============================================================================
