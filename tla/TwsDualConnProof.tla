--------------------------- MODULE TwsDualConnProof ---------------------------
(***************************************************************************)
(* Proofs about TwsDualConn, for every number of phones, every record of   *)
(* devices and every choice of faults and user operations.                 *)
(***************************************************************************)
EXTENDS TwsDualConn, DualConnBudProof

(***************************************************************************)
(* The inductive invariant is the type invariant with the sets narrowed:   *)
(* each bud's list names a device once and its page timers are those the   *)
(* list says run; each list on its way names a device once.  TypeOK alone  *)
(* is not inductive enough for either: what a relayed list brings in is    *)
(* only known from what was sent.                                          *)
(***************************************************************************)
GoodState == {s \in Bud : Good(s)}
GoodSync == {m \in Info : OnceEach(m)}
GoodMessage == {m \in Message : m.kind = "data" => OnceEach(m.info)}

IInv ==
    /\ bud \in [Buds -> GoodState]
    /\ queue \in [Buds -> Seq(GoodMessage)]
    /\ net \in [Buds -> Seq(GoodSync)]
    /\ acl \in [Buds -> SUBSET Phones]
    /\ events \in 0..MaxEvents

LEMMA GoodStateIff == \A s : s \in GoodState <=> Good(s)
BY DEF GoodState, Good

LEMMA GoodSyncIff == \A m : m \in GoodSync <=> OnceEach(m)
BY DEF GoodSync, OnceEach

LEMMA SiblingBud == ASSUME HasSibling, NEW b \in Buds PROVE Sibling(b) \in Buds
<1>1. \E c \in Buds : c # b
  <2> SUFFICES ASSUME \A c \in Buds : c = b PROVE FALSE
    OBVIOUS
  <2>1. Buds = {b}
    OBVIOUS
  <2>2. QED
    BY <2>1, FS_Singleton DEF HasSibling
<1>2. QED
  BY <1>1 DEF Sibling

(***************************************************************************)
(* Messages and queues.                                                    *)
(***************************************************************************)

LEMMA GoodMessages ==
    /\ \A m \in AppMsgs \cup {"start_proc", "page_device"} : App(m) \in GoodMessage
    /\ \A n \in {1, 2}, p \in Phones : PhoneEvent(n, p) \in GoodMessage
    /\ \A ev \in HciEvents, p \in Phones : Hci(ev, p) \in GoodMessage
    /\ \A ev \in {"connected", "detach", "switch"}, r \in Role, why \in DetachReason :
           Tws(ev, r, why) \in GoodMessage
    /\ \A m \in GoodSync : Data(m) \in GoodMessage
BY DEF GoodMessage, Message, App, PhoneEvent, Hci, Tws, Data, GoodSync

LEMMA QueueHead ==
    ASSUME NEW q \in Seq(GoodMessage), q # <<>>
    PROVE  Head(q) \in GoodMessage /\ Tail(q) \in Seq(GoodMessage)
BY HeadTailProperties

LEMMA PostGood ==
    ASSUME queue \in [Buds -> Seq(GoodMessage)], NEW b \in Buds, NEW m \in GoodMessage,
           Post(b, m)
    PROVE  queue' \in [Buds -> Seq(GoodMessage)]
BY AppendProperties DEF Post

LEMMA PostAllGood ==
    ASSUME queue \in [Buds -> Seq(GoodMessage)], NEW B, NEW m \in GoodMessage,
           PostAll(B, m)
    PROVE  queue' \in [Buds -> Seq(GoodMessage)]
BY AppendProperties DEF PostAll

LEMMA SendGood ==
    ASSUME net \in [Buds -> Seq(GoodSync)], NEW b \in Buds, NEW m, OnceEach(m),
           Send(b, m)
    PROVE  net' \in [Buds -> Seq(GoodSync)]
<1>1. m \in GoodSync
  BY GoodSyncIff
<1>2. CASE Linked(bud[b]) /\ HasSibling
  <2>1. Sibling(b) \in Buds
    BY <1>2, SiblingBud
  <2>2. Append(net[Sibling(b)], m) \in Seq(GoodSync)
    BY <1>1, <2>1, AppendProperties
  <2>3. QED
    BY <1>2, <2>1, <2>2 DEF Send
<1>3. CASE ~(Linked(bud[b]) /\ HasSibling)
  BY <1>3 DEF Send
<1>4. QED
  BY <1>2, <1>3

LEMMA HandledGood ==
    ASSUME IInv, NEW b \in Buds, queue[b] # <<>>, NEW s, Good(s), Handled(b, s)
    PROVE  /\ bud' \in [Buds -> GoodState]
           /\ queue' \in [Buds -> Seq(GoodMessage)]
<1>1. s \in GoodState
  BY GoodStateIff
<1>2. Tail(queue[b]) \in Seq(GoodMessage)
  BY QueueHead DEF IInv
<1>3. QED
  BY <1>1, <1>2 DEF Handled, IInv

LEMMA UpdateGood ==
    ASSUME IInv, NEW b \in Buds, NEW s, Good(s), bud' = [bud EXCEPT ![b] = s]
    PROVE  bud' \in [Buds -> GoodState]
<1>1. s \in GoodState
  BY GoodStateIff
<1>2. QED
  BY <1>1 DEF IInv

LEMMA BudGood == ASSUME IInv, NEW b \in Buds PROVE Good(bud[b]) /\ bud[b] \in Bud
BY GoodStateIff, GoodBud DEF IInv

LEMMA WaitingHead ==
    ASSUME IInv, NEW b \in Buds, NEW k, Waiting(b, k)
    PROVE  /\ queue[b] # <<>> /\ Head(queue[b]) \in GoodMessage
           /\ Head(queue[b]) \in Message /\ Head(queue[b]).kind = k
BY QueueHead DEF Waiting, IInv, GoodMessage

(***************************************************************************)
(* One handler at a time.                                                  *)
(***************************************************************************)

LEMMA PhoneStep == ASSUME IInv, NEW b \in Buds, HandlePhone(b) PROVE IInv'
<1> DEFINE m == Head(queue[b])
           s == IF m.nth = 1 THEN FirstConnected(bud[b], m.addr)
                ELSE SecondConnected(bud[b], m.addr)
<1>1. Waiting(b, "phone") /\ Handled(b, s) /\ UNCHANGED <<net, acl, events>>
  BY DEF HandlePhone
<1>2. queue[b] # <<>> /\ m.addr \in Phones
  BY <1>1, WaitingHead DEF Message
<1>3. Good(s)
  BY <1>2, BudGood, GoodFirst, GoodSecond
<1>4. QED
  BY <1>1, <1>2, <1>3, HandledGood DEF IInv

LEMMA HciStep == ASSUME IInv, NEW b \in Buds, HandleHci(b) PROVE IInv'
<1> DEFINE m == Head(queue[b])
           s == dual_conn_hci_event_handler(bud[b], m.ev, m.addr)
<1>1. Waiting(b, "hci") /\ Handled(b, s) /\ UNCHANGED <<net, acl, events>>
  BY DEF HandleHci
<1>2. queue[b] # <<>> /\ m.addr \in Phones
  BY <1>1, WaitingHead DEF Message
<1>3. Good(s)
  BY <1>2, BudGood, GoodHci
<1>4. QED
  BY <1>1, <1>2, <1>3, HandledGood DEF IInv

LEMMA ConnectedStep == ASSUME IInv, NEW b \in Buds, HandleConnected(b) PROVE IInv'
<1> DEFINE m == Head(queue[b])
           s == TwsConnected(bud[b], m.role)
<1>1. /\ Waiting(b, "tws") /\ Handled(b, s) /\ UNCHANGED <<acl, events>>
      /\ Send(b, PageInfo(s)) \/ UNCHANGED net
  BY DEF HandleConnected
<1>2. queue[b] # <<>>
  BY <1>1, WaitingHead
<1>3. Good(s)
  BY BudGood, GoodTwsConnected
<1> HIDE DEF s
<1>4. net' \in [Buds -> Seq(GoodSync)]
  BY <1>1, <1>3, GoodInfo, SendGood DEF IInv
<1>5. QED
  BY <1>1, <1>2, <1>3, <1>4, HandledGood DEF IInv

LEMMA DetachStep == ASSUME IInv, NEW b \in Buds, HandleDetach(b) PROVE IInv'
<1> DEFINE s == TwsDetached(bud[b], Head(queue[b]).role, Head(queue[b]).reason)
<1>1. Waiting(b, "tws") /\ Handled(b, s) /\ UNCHANGED <<net, acl, events>>
  BY DEF HandleDetach
<1>2. queue[b] # <<>> /\ Good(s)
  BY <1>1, WaitingHead, BudGood, GoodTwsDetached
<1>3. QED
  BY <1>1, <1>2, HandledGood DEF IInv

LEMMA SwitchStep == ASSUME IInv, NEW b \in Buds, HandleSwitch(b) PROVE IInv'
<1> DEFINE m == Head(queue[b])
           s == RoleSwitched(bud[b], m.role)
<1>1. /\ Waiting(b, "tws") /\ Handled(b, s) /\ UNCHANGED <<acl, events>>
      /\ Send(b, PageInfo(s)) \/ UNCHANGED net
  BY DEF HandleSwitch
<1>2. queue[b] # <<>>
  BY <1>1, WaitingHead
<1>3. Good(s)
  BY BudGood, GoodRoleSwitched
<1> HIDE DEF s
<1>4. net' \in [Buds -> Seq(GoodSync)]
  BY <1>1, <1>3, GoodInfo, SendGood DEF IInv
<1>5. QED
  BY <1>1, <1>2, <1>3, <1>4, HandledGood DEF IInv

LEMMA DataStep == ASSUME IInv, NEW b \in Buds, HandleData(b) PROVE IInv'
<1> DEFINE s == rx_device_info(bud[b], Head(queue[b]).info)
<1>1. Waiting(b, "data") /\ Handled(b, s) /\ UNCHANGED <<net, acl, events>>
  BY DEF HandleData
<1>2. queue[b] # <<>> /\ OnceEach(Head(queue[b]).info)
  BY <1>1, WaitingHead DEF GoodMessage
<1>3. Good(s)
  BY <1>2, BudGood, GoodRx
<1>4. QED
  BY <1>1, <1>2, <1>3, HandledGood DEF IInv

LEMMA AppStep == ASSUME IInv, NEW b \in Buds, HandleApp(b) PROVE IInv'
<1> DEFINE s == dual_conn_app_event_handler(bud[b], Head(queue[b]).msg)
<1>1. Waiting(b, "app") /\ Handled(b, s) /\ UNCHANGED <<net, acl, events>>
  BY DEF HandleApp
<1>2. queue[b] # <<>> /\ Good(s)
  BY <1>1, WaitingHead, BudGood, GoodApp
<1>3. QED
  BY <1>1, <1>2, HandledGood DEF IInv

LEMMA StartProcStep == ASSUME IInv, NEW b \in Buds, HandleStartProc(b) PROVE IInv'
<1> DEFINE m == App(IF bud[b].tws = "unpaired" THEN "unpaired" ELSE "paired")
<1>1. /\ queue[b] # <<>>
      /\ queue' = [queue EXCEPT ![b] = Append(Tail(@), m)]
      /\ UNCHANGED <<bud, net, acl, events>>
  BY DEF HandleStartProc, Waiting
<1>2. m \in GoodMessage
  BY GoodMessages DEF AppMsgs
<1> HIDE DEF m
<1>3. Tail(queue[b]) \in Seq(GoodMessage)
  BY <1>1, QueueHead DEF IInv
<1>4. Append(Tail(queue[b]), m) \in Seq(GoodMessage)
  BY <1>2, <1>3, AppendProperties
<1>5. QED
  BY <1>1, <1>4 DEF IInv

LEMMA ConnectDeviceNat == ASSUME NEW s \in Bud PROVE connect_dev(s) \in Nat
<1>1. s.conn \in SUBSET Phones
  BY DEF Bud
<1>2. IsFiniteSet(s.conn)
  BY <1>1, PhonesAssumption, FS_Subset
<1>3. QED
  BY <1>2, FS_CardinalityType DEF connect_dev

\* What the loop over the record has added, to how short a list.
LEMMA LoopFacts ==
    ASSUME NEW s, Good(s), ~(connect_dev(s) + Len(s.list) >= 2),
           NEW added \in UNION {[1..n -> Phones] : n \in 0..3}, PageDeviceLoop(s, added)
    PROVE  /\ added \in Seq(Phones) /\ Len(s.list) < 2
           /\ \A i, j \in DOMAIN added : added[i] = added[j] => i = j
<1>1. added \in Seq(Phones)
  <2>1. PICK n \in 0..3 : added \in [1..n -> Phones]
    OBVIOUS
  <2>2. QED
    BY <2>1, SeqDef
<1>2. Len(s.list) < 2
  <2> DEFINE c == connect_dev(s)
             n == Len(s.list)
  <2>1. c \in Nat /\ n \in Nat
    BY GoodBud, ConnectDeviceNat, LenProperties
  <2>2. ~(c + n >= 2)
    OBVIOUS
  <2> HIDE DEF c, n
  <2>3. n < 2
    BY <2>1, <2>2
  <2>4. QED
    BY <2>3 DEF n
<1>3. QED
  BY <1>1, <1>2 DEF PageDeviceLoop

LEMMA PageDeviceStep == ASSUME IInv, NEW b \in Buds, HandlePageDevice(b) PROVE IInv'
<1> DEFINE full == connect_dev(bud[b]) + Len(bud[b].list) >= 2
<1>1. queue[b] # <<>> /\ UNCHANGED <<net, acl, events>>
  BY DEF HandlePageDevice, Waiting
<1>2. CASE full
  <2>1. Handled(b, bud[b])
    BY <1>2 DEF HandlePageDevice
  <2>2. QED
    BY <1>1, <2>1, BudGood, HandledGood DEF IInv
<1>3. CASE ~full
  <2>1. PICK added \in UNION {[1..n -> Phones] : n \in 0..3} :
            /\ PageDeviceLoop(bud[b], added)
            /\ Handled(b, page_device_msg_handler(bud[b], added))
    BY <1>3 DEF HandlePageDevice
  <2>2. /\ added \in Seq(Phones) /\ Len(bud[b].list) < 2
        /\ \A i, j \in DOMAIN added : added[i] = added[j] => i = j
    BY <1>3, <2>1, BudGood, LoopFacts
  <2>3. Good(page_device_msg_handler(bud[b], added))
    BY <2>2, BudGood, GoodPageMsg
  <2>4. QED
    BY <1>1, <2>1, <2>3, HandledGood DEF IInv
<1>4. QED
  BY <1>2, <1>3

LEMMA HandleStep == ASSUME IInv, NEW b \in Buds, HandleMessage(b) PROVE IInv'
BY PhoneStep, HciStep, ConnectedStep, DetachStep, SwitchStep, DataStep, AppStep,
   StartProcStep, PageDeviceStep DEF HandleMessage

(***************************************************************************)
(* Timers and data.                                                        *)
(***************************************************************************)

LEMMA TimerStep ==
    ASSUME IInv, NEW b \in Buds, Timeout(b) \/ OrphanTimeout(b)
    PROVE  IInv'
<1>1. CASE Timeout(b)
  <2>1. Good(RunTimer(bud[b]))
    BY BudGood, GoodRunTimer
  <2>2. bud' = [bud EXCEPT ![b] = RunTimer(bud[b])] /\ UNCHANGED <<queue, net, acl, events>>
    BY <1>1 DEF Timeout
  <2>3. QED
    BY <2>1, <2>2, UpdateGood DEF IInv
<1>2. CASE OrphanTimeout(b)
  <2>1. PICK cb : bud' = [bud EXCEPT ![b] = RunOrphan(bud[b], cb)]
    BY <1>2 DEF OrphanTimeout
  <2>2. Good(RunOrphan(bud[b], cb))
    BY BudGood, GoodRunOrphan
  <2>3. UNCHANGED <<queue, net, acl, events>>
    BY <1>2 DEF OrphanTimeout
  <2>4. QED
    BY <2>1, <2>2, <2>3, UpdateGood DEF IInv
<1>3. QED
  BY <1>1, <1>2

LEMMA PageTimeoutStep ==
    ASSUME IInv, NEW b \in Buds, NEW p \in Phones, PageTimeout(b, p)
    PROVE  IInv'
<1> DEFINE s == dual_conn_page_device_timeout(bud[b], p)
<1>1. /\ p \in bud[b].ptimers
      /\ bud' = [bud EXCEPT ![b] = s]
      /\ UNCHANGED <<queue, net, acl, events>>
  BY DEF PageTimeout
<1>2. Good(s)
  BY <1>1, BudGood, GoodPageTimeout
<1>3. QED
  BY <1>1, <1>2, UpdateGood DEF IInv

LEMMA InquiryStep == ASSUME IInv, NEW b \in Buds, InquiryTimeout(b) PROVE IInv'
<1> DEFINE c == close_inquiry_scan(bud[b])
           left == IF bud[b].inquiry THEN c.orphans ELSE c.orphans \ {"inquiry"}
           u == [c EXCEPT !.inquiry = FALSE]
           s == [c EXCEPT !.inquiry = FALSE,
                          !.orphans = IF bud[b].inquiry THEN @ ELSE @ \ {"inquiry"}]
<1>1. /\ Event /\ bud' = [bud EXCEPT ![b] = s]
      /\ Send(b, CountInfo(s)) \/ UNCHANGED net
      /\ UNCHANGED <<queue, acl>>
  BY DEF InquiryTimeout
<1>2. Good(c) /\ c \in Bud
  BY BudGood, GoodCloseInquiry, GoodBud
<1> HIDE DEF c
<1>3. left \in SUBSET (Callback \cup {"inquiry"})
  BY <1>2 DEF Bud
<1>4. Good(u) /\ u \in Bud
  BY <1>2, KeepsInquiry, KeepsGood, GoodBud
<1>5. Good(s)
  <2>1. Good([u EXCEPT !.orphans = left])
    <3> HIDE DEF u, left
    <3>1. QED
      BY <1>3, <1>4, KeepsOrphans, KeepsGood
  <2>2. s = [u EXCEPT !.orphans = left]
    BY <1>2 DEF Bud
  <2>3. QED
    BY <2>1, <2>2
<1> HIDE DEF s
<1>6. net' \in [Buds -> Seq(GoodSync)]
  BY <1>1, <1>5, GoodInfo, SendGood DEF IInv
<1>7. events' \in 0..MaxEvents
  BY <1>1, EnabledAssumption DEF Event, IInv
<1>8. QED
  BY <1>1, <1>5, <1>6, <1>7, UpdateGood DEF IInv

LEMMA EventBounded == ASSUME IInv, Event PROVE events' \in 0..MaxEvents
BY EnabledAssumption DEF Event, IInv

LEMMA ElapseStep ==
    ASSUME IInv, NEW b \in Buds, NEW p, Elapse(b, p)
    PROVE  IInv'
<1>1. PICK i \in DOMAIN bud[b].list :
          bud' = [bud EXCEPT ![b] = [bud[b] EXCEPT !.list[i].late = TRUE]]
  BY DEF Elapse, IInv
<1>2. Good([bud[b] EXCEPT !.list[i].late = TRUE])
  BY <1>1, BudGood, GoodElapse
<1>3. UNCHANGED <<queue, net, acl, events>>
  BY DEF Elapse
<1>4. QED
  BY <1>1, <1>2, <1>3, UpdateGood DEF IInv

LEMMA ReceiveStep == ASSUME IInv, NEW b \in Buds, Receive(b) PROVE IInv'
<1> DEFINE m == Data(Head(net[b]))
<1>1. /\ net[b] # <<>> /\ Post(b, m)
      /\ net' = [net EXCEPT ![b] = Tail(net[b])]
      /\ UNCHANGED <<bud, acl, events>>
  BY DEF Receive
<1>2. Head(net[b]) \in GoodSync /\ Tail(net[b]) \in Seq(GoodSync)
  BY <1>1, HeadTailProperties DEF IInv
<1>3. m \in GoodMessage
  BY <1>2, GoodMessages
<1>4. queue' \in [Buds -> Seq(GoodMessage)]
  BY <1>1, <1>3, PostGood DEF IInv
<1>5. QED
  BY <1>1, <1>2, <1>4 DEF IInv

LEMMA ClockStep == ASSUME IInv, NEW b \in Buds, Clock(b) PROVE IInv'
BY TimerStep, PageTimeoutStep, InquiryStep, ElapseStep, ReceiveStep DEF Clock

(***************************************************************************)
(* Phones and the TWS link.                                                *)
(***************************************************************************)

LEMMA PhoneMove ==
    ASSUME IInv, NEW b \in Buds, NEW c \in SUBSET Phones, NEW a \in SUBSET Phones,
           NEW B, NEW m \in GoodMessage, PostAll(B, m),
           acl' = [acl EXCEPT ![b] = a], bud' = [bud EXCEPT ![b].conn = c],
           net' = net, events' \in 0..MaxEvents
    PROVE  IInv'
<1>1. Good([bud[b] EXCEPT !.conn = c])
  BY BudGood, GoodOutside
<1>2. bud' = [bud EXCEPT ![b] = [bud[b] EXCEPT !.conn = c]]
  OBVIOUS
<1>3. bud' \in [Buds -> GoodState]
  BY <1>1, <1>2, UpdateGood
<1>4. queue' \in [Buds -> Seq(GoodMessage)]
  BY PostAllGood DEF IInv
<1>5. QED
  BY <1>3, <1>4 DEF IInv

LEMMA BudAcl == ASSUME IInv, NEW b \in Buds PROVE bud[b].conn \subseteq Phones /\ acl[b] \subseteq Phones
BY BudGood DEF IInv, Bud

LEMMA LinkStep == ASSUME IInv, NEW b \in Buds, NEW p \in Phones, PhoneLink(b, p) PROVE IInv'
<1> DEFINE x == IF bud[b].page = p THEN NoPhone ELSE bud[b].page
<1>1. /\ acl' = [acl EXCEPT ![b] = acl[b] \cup {p}]
      /\ bud' = [bud EXCEPT ![b] = [bud[b] EXCEPT !.page = x]]
      /\ PostAll(Peers(b), Hci("ok", p))
      /\ UNCHANGED <<net, events>>
  BY DEF PhoneLink
<1>2. x \in Phones \cup {NoPhone}
  BY BudGood DEF Bud
<1> HIDE DEF x
<1>3. Good([bud[b] EXCEPT !.page = x])
  BY <1>2, BudGood, GoodOutside
<1>4. bud' \in [Buds -> GoodState]
  BY <1>1, <1>3, UpdateGood
<1>5. queue' \in [Buds -> Seq(GoodMessage)]
  BY <1>1, GoodMessages, PostAllGood DEF IInv, HciEvents
<1>6. acl' \in [Buds -> SUBSET Phones]
  BY <1>1 DEF IInv
<1>7. QED
  BY <1>1, <1>4, <1>5, <1>6 DEF IInv

LEMMA UpStep == ASSUME IInv, NEW b \in Buds, NEW p \in Phones, PhoneUp(b, p) PROVE IInv'
<1> DEFINE n == IF bud[b].conn = {} THEN 1 ELSE 2
<1>1. /\ acl' = [acl EXCEPT ![b] = acl[b] \ {p}]
      /\ bud' = [bud EXCEPT ![b].conn = bud[b].conn \cup {p}]
      /\ PostAll(Peers(b), PhoneEvent(n, p))
      /\ UNCHANGED <<net, events>>
  BY DEF PhoneUp
<1>2. PhoneEvent(n, p) \in GoodMessage
  BY GoodMessages
<1>3. bud[b].conn \cup {p} \in SUBSET Phones /\ acl[b] \ {p} \in SUBSET Phones
  BY BudAcl
<1>4. events' \in 0..MaxEvents
  BY <1>1 DEF IInv
<1>5. QED
  BY <1>1, <1>2, <1>3, <1>4, PhoneMove

LEMMA DownStep ==
    ASSUME IInv, NEW b \in Buds, NEW p \in Phones, NEW ev \in {"lost", "gone"},
           PhoneDown(b, p, ev)
    PROVE  IInv'
<1>1. /\ acl' = [acl EXCEPT ![b] = acl[b] \ {p}]
      /\ bud' = [bud EXCEPT ![b].conn = bud[b].conn \ {p}]
      /\ PostAll(Peers(b), Hci(ev, p))
      /\ net' = net
  BY DEF PhoneDown
<1>2. Hci(ev, p) \in GoodMessage
  BY GoodMessages DEF HciEvents
<1>3. bud[b].conn \ {p} \in SUBSET Phones /\ acl[b] \ {p} \in SUBSET Phones
  BY BudAcl
<1>4. events' \in 0..MaxEvents
  BY EventBounded DEF PhoneDown
<1>5. QED
  BY <1>1, <1>2, <1>3, <1>4, PhoneMove

LEMMA PageFailsStep ==
    ASSUME IInv, NEW b \in Buds, NEW ev \in {"lost", "gone", "rejected"}, PageFails(b, ev)
    PROVE  IInv'
<1>1. /\ bud[b].page # NoPhone
      /\ bud' = [bud EXCEPT ![b] = [bud[b] EXCEPT !.page = NoPhone]]
      /\ Post(b, Hci(ev, bud[b].page))
      /\ UNCHANGED <<net, acl>> /\ events' \in 0..MaxEvents
  BY EventBounded DEF PageFails
<1>2. bud[b].page \in Phones
  BY <1>1, BudGood DEF Bud
<1>3. queue' \in [Buds -> Seq(GoodMessage)]
  BY <1>1, <1>2, GoodMessages, PostGood DEF IInv, HciEvents
<1>4. Good([bud[b] EXCEPT !.page = NoPhone])
  BY BudGood, GoodOutside
<1>5. QED
  BY <1>1, <1>3, <1>4, UpdateGood DEF IInv

\* Each bud changed in its own way, one TWS event posted to each.
LEMMA PairStep ==
    ASSUME IInv, NEW f, \A c \in Buds : Good(f[c]), bud' = [c \in Buds |-> f[c]],
           NEW g, \A c \in Buds : g[c] \in GoodMessage,
           queue' = [c \in Buds |-> Append(queue[c], g[c])],
           net' \in [Buds -> Seq(GoodSync)], acl' \in [Buds -> SUBSET Phones],
           events' \in 0..MaxEvents
    PROVE  IInv'
<1>1. bud' \in [Buds -> GoodState]
  BY GoodStateIff
<1>2. \A c \in Buds : Append(queue[c], g[c]) \in Seq(GoodMessage)
  BY AppendProperties DEF IInv
<1>3. queue' \in [Buds -> Seq(GoodMessage)]
  BY <1>2
<1>4. QED
  BY <1>1, <1>3 DEF IInv

LEMMA TwsLinkStep == ASSUME IInv, NEW b \in Buds, TwsLink(b) PROVE IInv'
<1> DEFINE role == [c \in Buds |-> IF c = b THEN "master" ELSE "slave"]
           f == [c \in Buds |-> [bud[c] EXCEPT !.tws = "linked", !.op = "idle",
                                               !.role = role[c]]]
           g == [c \in Buds |-> Tws("connected", role[c], "other")]
<1>1. /\ bud' = [c \in Buds |-> f[c]]
      /\ queue' = [c \in Buds |-> Append(queue[c], g[c])]
      /\ UNCHANGED <<net, acl, events>>
  BY DEF TwsLink
<1>2. \A c \in Buds : role[c] \in Role
  BY DEF Role
<1> HIDE DEF role
<1>3. \A c \in Buds : Good(f[c])
  <2> TAKE c \in Buds
  <2> DEFINE u == [bud[c] EXCEPT !.tws = "linked"]
             v == [u EXCEPT !.op = "idle"]
  <2>1. Good(u)
    BY BudGood, GoodOutside DEF TwsState
  <2>2. Good(v)
    <3> HIDE DEF u
    <3>1. QED
      BY <2>1, GoodOutside DEF PairOp
  <2>3. Good([v EXCEPT !.role = role[c]])
    <3> HIDE DEF v
    <3>1. QED
      BY <1>2, <2>2, GoodOutside
  <2>4. QED
    BY <2>3
<1>4. \A c \in Buds : g[c] \in GoodMessage
  BY <1>2, GoodMessages DEF DetachReason
<1> HIDE DEF f, g
<1>5. QED
  BY <1>1, <1>3, <1>4, PairStep DEF IInv

LEMMA TwsDetachStep ==
    ASSUME IInv, NEW reason \in DetachReason, TwsDetach(reason)
    PROVE  IInv'
<1> DEFINE x == IF reason = "remove_pairs" THEN "unpaired" ELSE "paired"
           f == [c \in Buds |-> [bud[c] EXCEPT !.role = "master", !.tws = x]]
           g == [c \in Buds |-> Tws("detach", bud[c].role, reason)]
<1>1. /\ bud' = [c \in Buds |-> f[c]]
      /\ queue' = [c \in Buds |-> Append(queue[c], g[c])]
      /\ net' = [c \in Buds |-> <<>>]
      /\ acl' = acl /\ events' \in 0..MaxEvents
  BY EventBounded DEF TwsDetach, IInv
<1>2. x \in TwsState /\ \A c \in Buds : bud[c].role \in Role
  BY BudGood DEF TwsState, Bud
<1> HIDE DEF x
<1>3. \A c \in Buds : Good(f[c])
  <2> TAKE c \in Buds
  <2> DEFINE u == [bud[c] EXCEPT !.role = "master"]
  <2>1. Good(u)
    BY BudGood, GoodOutside DEF Role
  <2>2. Good([u EXCEPT !.tws = x])
    <3> HIDE DEF u
    <3>1. QED
      BY <1>2, <2>1, GoodOutside
  <2>3. QED
    BY <2>2
<1>4. \A c \in Buds : g[c] \in GoodMessage
  BY <1>2, GoodMessages
<1> HIDE DEF f, g
<1>5. net' \in [Buds -> Seq(GoodSync)]
  <2>1. <<>> \in Seq(GoodSync)
    OBVIOUS
  <2>2. net' = [c \in Buds |-> <<>>]
    BY <1>1
  <2>3. QED
    BY <2>1, <2>2
<1>6. QED
  BY <1>1, <1>3, <1>4, <1>5, PairStep DEF IInv

LEMMA RoleSwitchStep == ASSUME IInv, RoleSwitch PROVE IInv'
<1> DEFINE role == [c \in Buds |-> IF Slave(bud[c]) THEN "master" ELSE "slave"]
           f == [c \in Buds |-> [bud[c] EXCEPT !.role = role[c],
                                               !.conn = bud[Sibling(c)].conn]]
           g == [c \in Buds |-> Tws("switch", role[c], "other")]
<1>1. /\ bud' = [c \in Buds |-> f[c]]
      /\ queue' = [c \in Buds |-> Append(queue[c], g[c])]
      /\ acl' = [c \in Buds |-> acl[Sibling(c)]]
      /\ net' = net /\ events' \in 0..MaxEvents /\ HasSibling
  BY EventBounded DEF RoleSwitch
<1>2. \A c \in Buds : role[c] \in Role
  BY DEF Role
<1>3. \A c \in Buds : Sibling(c) \in Buds
  BY <1>1, SiblingBud
<1>4. acl' \in [Buds -> SUBSET Phones]
  BY <1>1, <1>3, BudAcl
<1> HIDE DEF role
<1>5. \A c \in Buds : Good(f[c])
  <2> TAKE c \in Buds
  <2> DEFINE u == [bud[c] EXCEPT !.role = role[c]]
             k == bud[Sibling(c)].conn
  <2>1. Good(u)
    BY <1>2, BudGood, GoodOutside
  <2>2. k \in SUBSET Phones
    BY <1>3, BudAcl
  <2>3. Good([u EXCEPT !.conn = k])
    <3> HIDE DEF u, k
    <3>1. QED
      BY <2>1, <2>2, GoodOutside
  <2>4. QED
    BY <2>3
<1>6. \A c \in Buds : g[c] \in GoodMessage
  BY <1>2, GoodMessages DEF DetachReason
<1>7. net' \in [Buds -> Seq(GoodSync)]
  BY <1>1 DEF IInv
<1> HIDE DEF f, g
<1>8. QED
  BY <1>1, <1>4, <1>5, <1>6, <1>7, PairStep

(***************************************************************************)
(* The user and other modules.                                             *)
(***************************************************************************)

LEMMA UserMsgStep == ASSUME IInv, NEW b \in Buds, UserMsg(b) PROVE IInv'
<1>1. PICK m \in AppMsgs \cup {"start_proc", "page_device"} : Post(b, App(m))
  BY DEF UserMsg
<1>2. queue' \in [Buds -> Seq(GoodMessage)]
  BY <1>1, GoodMessages, PostGood DEF IInv
<1>3. events' \in 0..MaxEvents /\ UNCHANGED <<bud, net, acl>>
  BY EventBounded DEF UserMsg
<1>4. QED
  BY <1>2, <1>3 DEF IInv

LEMMA RefreshStep == ASSUME IInv, NEW b \in Buds, Refresh(b) PROVE IInv'
<1>1. Good(tws_dual_conn_state_handler(bud[b]))
  BY BudGood, GoodStateHandler
<1>2. /\ bud' = [bud EXCEPT ![b] = tws_dual_conn_state_handler(bud[b])]
      /\ UNCHANGED <<queue, net, acl>> /\ events' \in 0..MaxEvents
  BY EventBounded DEF Refresh
<1>3. QED
  BY <1>1, <1>2, UpdateGood DEF IInv

LEMMA EscoStep == ASSUME IInv, NEW b \in Buds, Esco(b) PROVE IInv'
<1> DEFINE s == [bud[b] EXCEPT !.esco = ~bud[b].esco]
           t == IF s.off /\ ~s.esco THEN s ELSE tws_page_scan_deal_by_esco(s)
<1>1. Good(s)
  <2>1. (~bud[b].esco) \in BOOLEAN
    BY BudGood DEF Bud
  <2>2. QED
    BY <2>1, BudGood, GoodOutside
<1>2. /\ bud' = [bud EXCEPT ![b] = t]
      /\ UNCHANGED <<queue, net, acl>> /\ events' \in 0..MaxEvents
  BY EventBounded DEF Esco
<1> HIDE DEF s
<1>3. Good(t)
  BY <1>1, GoodSetters, GoodStateHandler DEF tws_page_scan_deal_by_esco
<1>4. QED
  BY <1>2, <1>3, UpdateGood DEF IInv

LEMMA CloseStep ==
    ASSUME IInv, NEW b \in Buds, SoftPoweroff(b) \/ ModeExit(b)
    PROVE  IInv'
<1> DEFINE s == tws_dual_conn_close([bud[b] EXCEPT !.off = TRUE])
           t == tws_dual_conn_close([bud[b] EXCEPT !.exit = TRUE])
<1>1. Good(s) /\ Good(t)
  BY BudGood, GoodOutside, GoodClose
<1>2. events' \in 0..MaxEvents /\ UNCHANGED <<queue, acl>>
  BY EventBounded DEF SoftPoweroff, ModeExit
<1>3. CASE SoftPoweroff(b)
  <2>1. /\ bud' = [bud EXCEPT ![b] = s]
        /\ Send(b, PageInfo(s)) \/ UNCHANGED net
    BY <1>3 DEF SoftPoweroff
  <2> HIDE DEF s
  <2>2. net' \in [Buds -> Seq(GoodSync)]
    BY <1>1, <2>1, GoodInfo, SendGood DEF IInv
  <2>3. QED
    BY <1>1, <1>2, <2>1, <2>2, UpdateGood DEF IInv
<1>4. CASE ModeExit(b)
  <2>1. /\ bud' = [bud EXCEPT ![b] = t]
        /\ Send(b, PageInfo(t)) \/ UNCHANGED net
    BY <1>4 DEF ModeExit
  <2> HIDE DEF t
  <2>2. net' \in [Buds -> Seq(GoodSync)]
    BY <1>1, <2>1, GoodInfo, SendGood DEF IInv
  <2>3. QED
    BY <1>1, <1>2, <2>1, <2>2, UpdateGood DEF IInv
<1>5. QED
  BY <1>3, <1>4

LEMMA PowerOnMessage ==
    ASSUME NEW tws PROVE bt_tws_poweron(tws) \in GoodMessage
BY GoodMessages DEF bt_tws_poweron, AppMsgs

LEMMA ModeInitStep == ASSUME IInv, NEW b \in Buds, ModeInit(b) PROVE IInv'
<1> DEFINE w == [bud[b] EXCEPT !.exit = FALSE]
           u == [w EXCEPT !.switch = TRUE]
<1>1. PICK rec \in Records :
          bud' = [bud EXCEPT ![b] = dual_conn_page_devices_init(u, rec)]
  BY DEF ModeInit
<1>2. Good(u)
  <2>1. Good(w)
    BY BudGood, GoodOutside
  <2> HIDE DEF w
  <2>2. QED
    BY <2>1, GoodSetters
<1> HIDE DEF u
<1>3. Good(dual_conn_page_devices_init(u, rec))
  <2>1. rec \in Seq(Phones) /\ \A i, j \in DOMAIN rec : rec[i] = rec[j] => i = j
    BY EnabledAssumption
  <2>2. QED
    BY <1>2, <2>1, GoodInit
<1>4. queue' \in [Buds -> Seq(GoodMessage)] /\ UNCHANGED <<net, acl, events>>
  BY PowerOnMessage, PostGood DEF ModeInit, IInv
<1>5. QED
  BY <1>1, <1>3, <1>4, UpdateGood DEF IInv

LEMMA EnvironmentStep == ASSUME IInv, Environment PROVE IInv'
BY LinkStep, UpStep, DownStep, PageFailsStep, TwsLinkStep, TwsDetachStep, RoleSwitchStep,
   UserMsgStep, RefreshStep, EscoStep, CloseStep, ModeInitStep DEF Environment

(***************************************************************************)
(* The theorems.                                                           *)
(***************************************************************************)

LEMMA BlankGood ==
    ASSUME NEW tws \in {"paired", "unpaired"}
    PROVE  Good(Blank(tws))
<1>1. Blank(tws) \in Bud /\ Blank(tws).list = <<>> /\ Blank(tws).ptimers = {}
  BY EmptyList DEF Blank, Bud, TimerHandle, Role, TwsState, Scan, PairOp
<1>2. QED
  BY <1>1, EmptyList DEF Good

LEMMA InitIInv == Init => IInv
<1> SUFFICES ASSUME Init PROVE IInv
  OBVIOUS
<1>1. PICK tws \in {"paired", "unpaired"}, rec \in [Buds -> Records] :
          /\ bud = [b \in Buds |-> dual_conn_page_devices_init(Blank(tws), rec[b])]
          /\ queue = [b \in Buds |-> <<bt_tws_poweron(tws)>>]
          /\ net = [b \in Buds |-> <<>>]
          /\ acl = [b \in Buds |-> {}]
          /\ events = 0
  BY DEF Init
<1>2. \A b \in Buds : dual_conn_page_devices_init(Blank(tws), rec[b]) \in GoodState
  <2> TAKE b \in Buds
  <2>1. rec[b] \in Seq(Phones) /\ \A i, j \in DOMAIN rec[b] : rec[b][i] = rec[b][j] => i = j
    BY EnabledAssumption
  <2>2. QED
    BY <2>1, BlankGood, GoodInit, GoodStateIff
<1>3. <<bt_tws_poweron(tws)>> \in Seq(GoodMessage)
  BY PowerOnMessage
<1>4. 0 \in 0..MaxEvents
  BY EnabledAssumption
<1>5. QED
  BY <1>1, <1>2, <1>3, <1>4 DEF IInv

LEMMA NextIInv == IInv /\ [Next]_vars => IInv'
<1> SUFFICES ASSUME IInv, [Next]_vars PROVE IInv'
  OBVIOUS
<1>1. CASE UNCHANGED vars
  BY <1>1 DEF vars, IInv
<1>2. CASE Next
  BY <1>2, HandleStep, ClockStep, EnvironmentStep DEF Next
<1>3. QED
  BY <1>1, <1>2

\* The invariant that the three theorems below rest on: a bud's list names a
\* device once and agrees with its page timers, and so does every list on its
\* way, whatever the buds, the phones, the libraries and the user do.
THEOREM Inductive == Spec => []IInv
BY InitIInv, NextIInv, PTL DEF Spec

LEMMA IInvTypeOK == IInv => TypeOK
<1> SUFFICES ASSUME IInv PROVE TypeOK
  OBVIOUS
<1>1. bud \in [Buds -> Bud]
  BY DEF IInv, GoodState
<1>2. \A q \in Seq(GoodMessage) : q \in Seq(Message)
  <2> TAKE q \in Seq(GoodMessage)
  <2>1. Len(q) \in Nat /\ q \in [1..Len(q) -> GoodMessage]
    BY LenProperties, SeqDef
  <2>2. q \in [1..Len(q) -> Message]
    BY <2>1 DEF GoodMessage
  <2>3. QED
    BY <2>1, <2>2, SeqDef
<1>3. \A q \in Seq(GoodSync) : q \in Seq(Info)
  <2> TAKE q \in Seq(GoodSync)
  <2>1. Len(q) \in Nat /\ q \in [1..Len(q) -> GoodSync]
    BY LenProperties, SeqDef
  <2>2. q \in [1..Len(q) -> Info]
    BY <2>1 DEF GoodSync
  <2>3. QED
    BY <2>1, <2>2, SeqDef
<1>4. queue \in [Buds -> Seq(Message)] /\ net \in [Buds -> Seq(Info)]
  BY <1>2, <1>3 DEF IInv
<1>5. QED
  BY <1>1, <1>4 DEF IInv, TypeOK

LEMMA IInvNoDuplicate == IInv => NoDuplicatePage
<1> SUFFICES ASSUME IInv, NEW b \in Buds
             PROVE  /\ Once(bud[b].list)
                    /\ \A m \in RelayedIn(b) : OnceEach(m)
  BY DEF NoDuplicatePage, Once, OnceEach
<1>1. Once(bud[b].list)
  BY BudGood DEF Good
<1>2. \A m \in ToSet(net[b]) : OnceEach(m)
  <2>1. net[b] \in Seq(GoodSync)
    BY DEF IInv
  <2>2. \A i \in DOMAIN net[b] : net[b][i] \in GoodSync
    BY <2>1, LenProperties
  <2>3. QED
    BY <2>2, GoodSyncIff DEF ToSet
<1>3. \A x \in ToSet(queue[b]) : x.kind = "data" => OnceEach(x.info)
  <2>1. queue[b] \in Seq(GoodMessage)
    BY DEF IInv
  <2>2. \A i \in DOMAIN queue[b] : queue[b][i] \in GoodMessage
    BY <2>1, LenProperties
  <2>3. QED
    BY <2>2 DEF ToSet, GoodMessage
<1>4. QED
  BY <1>1, <1>2, <1>3 DEF RelayedIn

LEMMA IInvTimers == IInv => PageTimersMatch
BY BudGood DEF PageTimersMatch, Good, Timed

\* Every state variable of both buds, their queues and the data between them
\* keeps its type, through every handler, callback and link event.
THEOREM TypeCorrect == Spec => []TypeOK
BY Inductive, IInvTypeOK, PTL

\* No device is ever twice in a page list or in a list on its way.
THEOREM PageListsDistinct == Spec => []NoDuplicatePage
BY Inductive, IInvNoDuplicate, PTL

\* The page timers running are those the list says are running: no callback
\* is left with a freed entry, whatever frees or moves the entry.
THEOREM PageTimersSound == Spec => []PageTimersMatch
BY Inductive, IInvTimers, PTL

(***************************************************************************)
(* The quiet slave.  That a slave neither scans nor pages is not inductive *)
(* by itself: it becomes true when the news of its role is handled, so     *)
(* what the last TWS message of a queue says must be what is the case.     *)
(* The library and the buds change the role with the messages still        *)
(* queued; only the last one counts.                                       *)
(***************************************************************************)
Tells(m, role) == IF m.ev = "detach" THEN role = "master" ELSE m.role = role

NoNews(q) == \A i \in DOMAIN q : q[i].kind # "tws"
LastNews(q, role) ==
    \A i \in DOMAIN q :
        q[i].kind = "tws" /\ (\A j \in DOMAIN q : j > i => q[j].kind # "tws")
            => Tells(q[i], role)

BudQuiet(s, q) ==
    /\ Slave(s) => Linked(s)
    /\ LastNews(q, s.role)
    /\ LinkedSlave(s) /\ NoNews(q) => Quiet(s)

QuietInv == \A b \in Buds : BudQuiet(bud[b], queue[b])

(***************************************************************************)
(* The news in a queue.                                                    *)
(***************************************************************************)

LEMMA NewsAppend ==
    ASSUME NEW S, NEW q \in Seq(S), NEW m \in S, NEW role
    PROVE  /\ m.kind # "tws" /\ LastNews(q, role) => LastNews(Append(q, m), role)
           /\ m.kind = "tws" /\ Tells(m, role) => LastNews(Append(q, m), role)
           /\ NoNews(Append(q, m)) <=> NoNews(q) /\ m.kind # "tws"
<1> DEFINE n == Len(q)
           w == Append(q, m)
<1>1. n \in Nat /\ DOMAIN q = 1..n
  BY LenProperties
<1>2. /\ w \in Seq(S) /\ DOMAIN w = 1..(n + 1)
      /\ w[n + 1] = m /\ \A k \in 1..n : w[k] = q[k]
  <2>1. w \in Seq(S) /\ Len(w) = n + 1
    BY AppendProperties
  <2>2. QED
    BY <2>1, <1>1, AppendProperties, LenProperties
<1> HIDE DEF n, w
<1>3. \A k \in 1..(n + 1) : k \in 1..n \/ k = n + 1
  BY <1>1
<1>4. /\ n + 1 \in 1..(n + 1)
      /\ \A k \in 1..n : k \in 1..(n + 1) /\ n + 1 > k
  BY <1>1
<1>5. NoNews(w) <=> NoNews(q) /\ m.kind # "tws"
  BY <1>1, <1>2, <1>3, <1>4 DEF NoNews
<1>6. ASSUME m.kind # "tws", LastNews(q, role) PROVE LastNews(w, role)
  <2> SUFFICES ASSUME NEW i \in 1..(n + 1), w[i].kind = "tws",
                      \A j \in 1..(n + 1) : j > i => w[j].kind # "tws"
               PROVE  Tells(w[i], role)
    BY <1>2 DEF LastNews
  <2>1. i \in 1..n /\ w[i] = q[i]
    BY <1>2, <1>3, <1>6
  <2>2. \A j \in 1..n : j > i => q[j].kind # "tws"
    BY <1>2, <1>4
  <2>3. QED
    BY <2>1, <2>2, <1>1, <1>6 DEF LastNews
<1>7. ASSUME m.kind = "tws", Tells(m, role) PROVE LastNews(w, role)
  <2> SUFFICES ASSUME NEW i \in 1..(n + 1), w[i].kind = "tws",
                      \A j \in 1..(n + 1) : j > i => w[j].kind # "tws"
               PROVE  Tells(w[i], role)
    BY <1>2 DEF LastNews
  <2>1. i = n + 1
    BY <1>2, <1>3, <1>4, <1>7
  <2>2. QED
    BY <2>1, <1>2, <1>7
<1>8. QED
  BY <1>5, <1>6, <1>7 DEF w

LEMMA NewsTail ==
    ASSUME NEW S, NEW q \in Seq(S), q # <<>>, NEW role, LastNews(q, role)
    PROVE  /\ LastNews(Tail(q), role)
           /\ NoNews(Tail(q)) /\ Head(q).kind # "tws" => NoNews(q)
           /\ NoNews(Tail(q)) /\ Head(q).kind = "tws" => Tells(Head(q), role)
<1> DEFINE n == Len(q)
           w == Tail(q)
           h == Head(q)
<1>1. n \in Nat /\ n >= 1 /\ DOMAIN q = 1..n
  BY LenProperties, EmptySeq
<1>2. /\ w \in Seq(S) /\ Len(w) = n - 1 /\ h = q[1]
      /\ \A k \in 1..(n - 1) : w[k] = q[k + 1]
  BY HeadTailProperties
<1>3. DOMAIN w = 1..(n - 1)
  BY <1>2, LenProperties
<1> HIDE DEF n, w, h
<1>4. \A k \in 1..(n - 1) : k + 1 \in 1..n
  BY <1>1
<1>5. \A k \in 1..n : k = 1 \/ (k - 1 \in 1..(n - 1) /\ q[k] = w[k - 1])
  <2> TAKE k \in 1..n
  <2>1. k = 1 \/ (k - 1 \in 1..(n - 1) /\ (k - 1) + 1 = k)
    BY <1>1
  <2>2. QED
    BY <2>1, <1>2
<1>6. LastNews(w, role)
  <2> SUFFICES ASSUME NEW i \in 1..(n - 1), w[i].kind = "tws",
                      \A j \in 1..(n - 1) : j > i => w[j].kind # "tws"
               PROVE  Tells(w[i], role)
    BY <1>3 DEF LastNews
  <2>1. i + 1 \in 1..n /\ q[i + 1] = w[i]
    BY <1>2, <1>4
  <2>2. ASSUME NEW j \in 1..n, j > i + 1 PROVE q[j].kind # "tws"
    <3>1. j # 1 /\ j - 1 > i
      BY <1>1, <2>2
    <3>2. QED
      BY <3>1, <1>5
  <2>3. QED
    BY <2>1, <2>2, <1>1 DEF LastNews
<1>7. NoNews(w) => \A k \in 1..n : k > 1 => q[k].kind # "tws"
  <2> SUFFICES ASSUME NoNews(w), NEW k \in 1..n, k > 1 PROVE q[k].kind # "tws"
    OBVIOUS
  <2>1. k - 1 \in 1..(n - 1) /\ q[k] = w[k - 1]
    BY <1>5
  <2>2. QED
    BY <2>1, <1>3 DEF NoNews
<1>8. 1 \in 1..n /\ \A k \in 1..n : k = 1 \/ k > 1
  BY <1>1
<1>9. NoNews(w) /\ h.kind # "tws" => NoNews(q)
  BY <1>1, <1>2, <1>7, <1>8 DEF NoNews
<1>10. NoNews(w) /\ h.kind = "tws" => Tells(h, role)
  BY <1>1, <1>2, <1>7, <1>8 DEF LastNews
<1>11. QED
  BY <1>6, <1>9, <1>10 DEF w, h

(***************************************************************************)
(* One bud and its queue.                                                  *)
(***************************************************************************)

LEMMA QuietCalm ==
    ASSUME NEW s, NEW t, NEW q, BudQuiet(s, q), Calm(s, t) PROVE BudQuiet(t, q)
BY DEF BudQuiet, Calm, Same, LinkedSlave, Slave, Linked

LEMMA QuietAppend ==
    ASSUME NEW s, NEW S, NEW q \in Seq(S), NEW m \in S, m.kind # "tws", BudQuiet(s, q)
    PROVE  BudQuiet(s, Append(q, m))
BY NewsAppend DEF BudQuiet

LEMMA QuietTail ==
    ASSUME NEW s, NEW t, NEW S, NEW q \in Seq(S), q # <<>>, Head(q).kind # "tws",
           BudQuiet(s, q), Calm(s, t)
    PROVE  BudQuiet(t, Tail(q))
<1>1. BudQuiet(t, q)
  BY QuietCalm
<1>2. LastNews(Tail(q), t.role) /\ (NoNews(Tail(q)) => NoNews(q))
  BY <1>1, NewsTail DEF BudQuiet
<1>3. QED
  BY <1>1, <1>2 DEF BudQuiet

\* The news is handled: on a slave that has no other the handler has made it quiet.
LEMMA QuietNews ==
    ASSUME NEW s, NEW t, NEW S, NEW q \in Seq(S), q # <<>>, Head(q).kind = "tws",
           BudQuiet(s, q), Same(s, t),
           Tells(Head(q), "slave") /\ ~s.off => Quiet(t)
    PROVE  BudQuiet(t, Tail(q))
<1>1. LastNews(q, s.role) /\ t.role = s.role /\ t.tws = s.tws /\ t.off = s.off
  BY DEF BudQuiet, Same
<1>2. LastNews(Tail(q), t.role) /\ (NoNews(Tail(q)) => Tells(Head(q), s.role))
  BY <1>1, NewsTail
<1>3. ASSUME LinkedSlave(t), NoNews(Tail(q)) PROVE Quiet(t)
  BY <1>1, <1>2, <1>3 DEF LinkedSlave, Slave
<1>4. Slave(t) => Linked(t)
  BY <1>1 DEF BudQuiet, Slave, Linked
<1>5. QED
  BY <1>2, <1>3, <1>4 DEF BudQuiet

\* The library posts the news.
LEMMA QuietPosted ==
    ASSUME NEW t, NEW S, NEW q \in Seq(S), NEW m \in S, m.kind = "tws", Tells(m, t.role),
           Slave(t) => Linked(t)
    PROVE  BudQuiet(t, Append(q, m))
BY NewsAppend DEF BudQuiet

\* A bud that is no slave, or not in use.
LEMMA QuietOut ==
    ASSUME NEW s, NEW t, NEW q, BudQuiet(s, q), t.role = s.role, t.tws = s.tws,
           ~Slave(s) \/ t.off \/ t.exit
    PROVE  BudQuiet(t, q)
BY DEF BudQuiet, LinkedSlave, Slave, Linked

(***************************************************************************)
(* Steps of the pair.                                                      *)
(***************************************************************************)

LEMMA QueueSeq == ASSUME IInv, NEW b \in Buds PROVE queue[b] \in Seq(GoodMessage)
BY DEF IInv

\* A handler that the head of b's queue, no news, has called.
LEMMA HandledQuiet ==
    ASSUME IInv, QuietInv, NEW b \in Buds, queue[b] # <<>>, Head(queue[b]).kind # "tws",
           NEW t, Calm(bud[b], t), Handled(b, t)
    PROVE  QuietInv'
<1>1. BudQuiet(t, Tail(queue[b]))
  BY QueueSeq, QuietTail DEF QuietInv
<1>2. \A c \in Buds : /\ bud'[c] = IF c = b THEN t ELSE bud[c]
                      /\ queue'[c] = IF c = b THEN Tail(queue[b]) ELSE queue[c]
  BY DEF Handled, IInv
<1>3. QED
  BY <1>1, <1>2 DEF QuietInv

\* Its handler when it is news.
LEMMA NewsQuiet ==
    ASSUME IInv, QuietInv, NEW b \in Buds, queue[b] # <<>>, Head(queue[b]).kind = "tws",
           NEW t, Same(bud[b], t), Tells(Head(queue[b]), "slave") /\ ~bud[b].off => Quiet(t),
           Handled(b, t)
    PROVE  QuietInv'
<1>1. BudQuiet(t, Tail(queue[b]))
  BY QueueSeq, QuietNews DEF QuietInv
<1>2. \A c \in Buds : /\ bud'[c] = IF c = b THEN t ELSE bud[c]
                      /\ queue'[c] = IF c = b THEN Tail(queue[b]) ELSE queue[c]
  BY DEF Handled, IInv
<1>3. QED
  BY <1>1, <1>2 DEF QuietInv

\* Every other step that leaves the roles alone: b's record so that it stays as it should,
\* other messages than news posted to whom it may concern.
LEMMA PostedStep ==
    ASSUME IInv, QuietInv, NEW b \in Buds, NEW t, BudQuiet(t, queue[b]),
           bud' = [bud EXCEPT ![b] = t],
           NEW m \in GoodMessage, m.kind # "tws",
           \A c \in Buds : queue'[c] = queue[c] \/ queue'[c] = Append(queue[c], m)
    PROVE  QuietInv'
<1> SUFFICES ASSUME NEW c \in Buds PROVE BudQuiet(bud'[c], queue'[c])
  BY DEF QuietInv
<1>1. BudQuiet(bud'[c], queue[c])
  BY DEF QuietInv, IInv
<1>2. BudQuiet(bud'[c], Append(queue[c], m))
  BY <1>1, QueueSeq, QuietAppend
<1>3. QED
  BY <1>1, <1>2

LEMMA CalmStep ==
    ASSUME IInv, QuietInv, NEW b \in Buds, NEW t, Calm(bud[b], t),
           bud' = [bud EXCEPT ![b] = t],
           NEW m \in GoodMessage, m.kind # "tws",
           \A c \in Buds : queue'[c] = queue[c] \/ queue'[c] = Append(queue[c], m)
    PROVE  QuietInv'
<1>1. BudQuiet(t, queue[b])
  BY QuietCalm DEF QuietInv
<1>2. QED
  BY <1>1, PostedStep

LEMMA CalmBud ==
    ASSUME IInv, QuietInv, NEW b \in Buds, NEW t, Calm(bud[b], t),
           bud' = [bud EXCEPT ![b] = t], queue' = queue
    PROVE  QuietInv'
<1>1. App("paired") \in GoodMessage /\ App("paired").kind # "tws"
  BY GoodMessages DEF AppMsgs, App
<1>2. QED
  BY <1>1, CalmStep

\* Posts to a bud, or to the pair.
LEMMA PostedOne ==
    ASSUME IInv, NEW b \in Buds, NEW m, Post(b, m)
    PROVE  \A c \in Buds : queue'[c] = queue[c] \/ queue'[c] = Append(queue[c], m)
BY DEF Post, IInv

LEMMA PostedAll ==
    ASSUME NEW B, NEW m, PostAll(B, m)
    PROVE  \A c \in Buds : queue'[c] = queue[c] \/ queue'[c] = Append(queue[c], m)
BY DEF PostAll

LEMMA NoNewsKinds ==
    /\ \A m : App(m).kind # "tws" /\ Data(m).kind # "tws"
    /\ \A n, p : PhoneEvent(n, p).kind # "tws" /\ Hci(n, p).kind # "tws"
BY DEF App, Data, PhoneEvent, Hci

LEMMA QuietHandle ==
    ASSUME IInv, QuietInv, NEW b \in Buds, HandleMessage(b) PROVE QuietInv'
<1> DEFINE m == Head(queue[b])
           s == bud[b]
<1>1. Good(s) /\ s \in Bud
  BY BudGood
<1>2. CASE HandlePhone(b)
  <2> DEFINE t == IF m.nth = 1 THEN FirstConnected(s, m.addr) ELSE SecondConnected(s, m.addr)
  <2>1. Waiting(b, "phone") /\ Handled(b, t)
    BY <1>2 DEF HandlePhone
  <2>2. queue[b] # <<>> /\ m.kind = "phone" /\ m.addr \in Phones
    BY <2>1, WaitingHead DEF Message
  <2>3. Calm(s, t)
    BY <1>1, <2>2, CalmFirst, CalmSecond
  <2> HIDE DEF t
  <2>4. QED
    BY <2>1, <2>2, <2>3, HandledQuiet
<1>3. CASE HandleHci(b)
  <2> DEFINE t == dual_conn_hci_event_handler(s, m.ev, m.addr)
  <2>1. Waiting(b, "hci") /\ Handled(b, t)
    BY <1>3 DEF HandleHci
  <2>2. queue[b] # <<>> /\ m.kind = "hci" /\ m.addr \in Phones
    BY <2>1, WaitingHead DEF Message
  <2>3. Calm(s, t)
    BY <1>1, <2>2, CalmHci
  <2> HIDE DEF t
  <2>4. QED
    BY <2>1, <2>2, <2>3, HandledQuiet
<1>4. CASE HandleConnected(b)
  <2> DEFINE t == TwsConnected(s, m.role)
  <2>1. Waiting(b, "tws") /\ m.ev = "connected" /\ Handled(b, t)
    BY <1>4 DEF HandleConnected
  <2>2. queue[b] # <<>> /\ m.kind = "tws"
    BY <2>1, WaitingHead
  <2>3. Same(s, t)
    BY <1>1, SameConnected
  <2>4. Tells(m, "slave") /\ ~s.off => Quiet(t)
    BY <1>1, <2>1, NewSlaveQuiet DEF Tells
  <2> HIDE DEF t
  <2>5. QED
    BY <2>1, <2>2, <2>3, <2>4, NewsQuiet
<1>5. CASE HandleDetach(b)
  <2> DEFINE t == TwsDetached(s, m.role, m.reason)
  <2>1. Waiting(b, "tws") /\ m.ev = "detach" /\ Handled(b, t)
    BY <1>5 DEF HandleDetach
  <2>2. queue[b] # <<>> /\ m.kind = "tws"
    BY <2>1, WaitingHead
  <2>3. Same(s, t)
    BY <1>1, SameDetached
  <2>4. ~Tells(m, "slave")
    BY <2>1 DEF Tells
  <2> HIDE DEF t
  <2>5. QED
    BY <2>1, <2>2, <2>3, <2>4, NewsQuiet
<1>6. CASE HandleSwitch(b)
  <2> DEFINE t == RoleSwitched(s, m.role)
  <2>1. Waiting(b, "tws") /\ m.ev = "switch" /\ Handled(b, t)
    BY <1>6 DEF HandleSwitch
  <2>2. queue[b] # <<>> /\ m.kind = "tws"
    BY <2>1, WaitingHead
  <2>3. Same(s, t)
    BY <1>1, SameSwitched
  <2>4. Tells(m, "slave") /\ ~s.off => Quiet(t)
    BY <1>1, <2>1, NewSlaveQuiet DEF Tells
  <2> HIDE DEF t
  <2>5. QED
    BY <2>1, <2>2, <2>3, <2>4, NewsQuiet
<1>7. CASE HandleData(b)
  <2> DEFINE t == rx_device_info(s, m.info)
  <2>1. Waiting(b, "data") /\ Handled(b, t)
    BY <1>7 DEF HandleData
  <2>2. queue[b] # <<>> /\ m.kind = "data" /\ OnceEach(m.info)
    BY <2>1, WaitingHead DEF GoodMessage
  <2>3. Calm(s, t)
    BY <1>1, <2>2, CalmRx
  <2> HIDE DEF t
  <2>4. QED
    BY <2>1, <2>2, <2>3, HandledQuiet
<1>8. CASE HandleApp(b)
  <2> DEFINE t == dual_conn_app_event_handler(s, m.msg)
  <2>1. Waiting(b, "app") /\ Handled(b, t)
    BY <1>8 DEF HandleApp
  <2>2. queue[b] # <<>> /\ m.kind = "app"
    BY <2>1, WaitingHead
  <2>3. Calm(s, t)
    BY <1>1, CalmApp
  <2> HIDE DEF t
  <2>4. QED
    BY <2>1, <2>2, <2>3, HandledQuiet
<1>9. CASE HandleStartProc(b)
  <2> DEFINE w == App(IF s.tws = "unpaired" THEN "unpaired" ELSE "paired")
  <2>1. /\ Waiting(b, "app") /\ bud' = bud
        /\ queue' = [queue EXCEPT ![b] = Append(Tail(queue[b]), w)]
    BY <1>9 DEF HandleStartProc
  <2>2. queue[b] # <<>> /\ m.kind = "app" /\ Tail(queue[b]) \in Seq(GoodMessage)
    BY <2>1, WaitingHead, QueueHead, QueueSeq
  <2>3. BudQuiet(s, Tail(queue[b]))
    BY <1>1, <2>2, CalmSelf, QueueSeq, QuietTail DEF QuietInv
  <2>4. w \in GoodMessage /\ w.kind # "tws"
    BY GoodMessages, NoNewsKinds DEF AppMsgs
  <2> HIDE DEF w
  <2>5. BudQuiet(s, Append(Tail(queue[b]), w))
    BY <2>2, <2>3, <2>4, QuietAppend
  <2>6. QED
    BY <2>1, <2>5 DEF QuietInv, IInv
<1>10. CASE HandlePageDevice(b)
  <2>1. queue[b] # <<>> /\ m.kind = "app"
    BY <1>10, WaitingHead DEF HandlePageDevice
  <2>2. PICK t : Calm(s, t) /\ Handled(b, t)
    <3>1. CASE connect_dev(s) + Len(s.list) >= 2
      <4>1. Handled(b, s)
        BY <1>10, <3>1 DEF HandlePageDevice
      <4>2. QED
        BY <4>1, <1>1, CalmSelf
    <3>2. CASE ~(connect_dev(s) + Len(s.list) >= 2)
      <4>1. PICK added \in UNION {[1..n -> Phones] : n \in 0..3} :
                /\ PageDeviceLoop(s, added)
                /\ Handled(b, page_device_msg_handler(s, added))
        BY <1>10, <3>2 DEF HandlePageDevice
      <4>2. /\ added \in Seq(Phones) /\ Len(s.list) < 2
            /\ \A i, j \in DOMAIN added : added[i] = added[j] => i = j
        BY <4>1, <3>2, <1>1, LoopFacts
      <4>3. QED
        BY <4>1, <4>2, <1>1, CalmPageMsg
    <3>3. QED
      BY <3>1, <3>2
  <2>3. QED
    BY <2>1, <2>2, HandledQuiet
<1>11. QED
  BY <1>2, <1>3, <1>4, <1>5, <1>6, <1>7, <1>8, <1>9, <1>10 DEF HandleMessage

LEMMA QuietClock == ASSUME IInv, QuietInv, NEW b \in Buds, Clock(b) PROVE QuietInv'
<1> DEFINE s == bud[b]
<1>1. Good(s) /\ s \in Bud
  BY BudGood
<1>2. CASE Timeout(b)
  <2>1. Calm(s, RunTimer(s))
    BY <1>1, CalmRunTimer
  <2>2. bud' = [bud EXCEPT ![b] = RunTimer(s)] /\ queue' = queue
    BY <1>2 DEF Timeout
  <2>3. QED
    BY <2>1, <2>2, CalmBud
<1>3. CASE OrphanTimeout(b)
  <2>1. PICK cb : bud' = [bud EXCEPT ![b] = RunOrphan(s, cb)]
    BY <1>3 DEF OrphanTimeout
  <2>2. Calm(s, RunOrphan(s, cb)) /\ queue' = queue
    BY <1>1, <1>3, CalmRunOrphan DEF OrphanTimeout
  <2>3. QED
    BY <2>1, <2>2, CalmBud
<1>4. CASE InquiryTimeout(b)
  <2> DEFINE c == close_inquiry_scan(s)
             left == IF s.inquiry THEN c.orphans ELSE c.orphans \ {"inquiry"}
             u == [c EXCEPT !.inquiry = FALSE]
             t == [c EXCEPT !.inquiry = FALSE,
                            !.orphans = IF s.inquiry THEN @ ELSE @ \ {"inquiry"}]
  <2>1. bud' = [bud EXCEPT ![b] = t] /\ queue' = queue
    BY <1>4 DEF InquiryTimeout
  <2>2. Calm(s, c) /\ c \in Bud
    BY <1>1, CalmCloseInquiry DEF Calm
  <2> HIDE DEF c
  <2>3. left \in SUBSET (Callback \cup {"inquiry"})
    BY <2>2 DEF Bud
  <2>4. t = [u EXCEPT !.orphans = left]
    BY <2>2 DEF Bud
  <2> HIDE DEF left, t
  <2>5. Calm(c, u) /\ u \in Bud
    BY <2>2 DEF Calm, Same, Quiet, Bud
  <2> HIDE DEF u
  <2>6. Calm(u, t)
    BY <2>3, <2>4, <2>5 DEF Calm, Same, Quiet, Bud
  <2>7. Calm(s, t)
    BY <2>2, <2>5, <2>6, CalmTrans
  <2>8. QED
    BY <2>1, <2>7, CalmBud
<1>5. CASE Receive(b)
  <2>1. Post(b, Data(Head(net[b]))) /\ bud' = bud /\ net[b] # <<>>
    BY <1>5 DEF Receive
  <2>2. Data(Head(net[b])) \in GoodMessage
    BY <2>1, GoodMessages, HeadTailProperties DEF IInv
  <2>3. bud' = [bud EXCEPT ![b] = s]
    BY <2>1 DEF IInv
  <2>4. QED
    BY <1>1, <2>1, <2>2, <2>3, CalmSelf, CalmStep, PostedOne, NoNewsKinds
<1>6. ASSUME NEW p \in Phones, PageTimeout(b, p) PROVE QuietInv'
  <2>1. p \in s.ptimers /\ queue' = queue
        /\ bud' = [bud EXCEPT ![b] = dual_conn_page_device_timeout(s, p)]
    BY <1>6 DEF PageTimeout
  <2>2. Calm(s, dual_conn_page_device_timeout(s, p))
    BY <1>1, <2>1, CalmPageTimeout
  <2>3. QED
    BY <2>1, <2>2, CalmBud
<1>7. ASSUME NEW p \in Phones, Elapse(b, p) PROVE QuietInv'
  <2>1. PICK i \in DOMAIN s.list :
            bud' = [bud EXCEPT ![b] = [s EXCEPT !.list[i].late = TRUE]]
    BY <1>7 DEF Elapse, IInv
  <2> DEFINE t == [s EXCEPT !.list[i].late = TRUE]
  <2>2. t \in Bud
    BY <1>1, <2>1, GoodElapse, GoodBud
  <2>3. Calm(s, t)
    BY <1>1, <2>2 DEF Calm, Same, Quiet, Bud
  <2>4. queue' = queue
    BY <1>7 DEF Elapse
  <2> HIDE DEF t
  <2>5. QED
    BY <2>1, <2>3, <2>4, CalmBud DEF t
<1>8. QED
  BY <1>2, <1>3, <1>4, <1>5, <1>6, <1>7 DEF Clock

\* What the libraries change at a bud without a change of role.
LEMMA CalmOutside ==
    ASSUME NEW s \in Bud
    PROVE  /\ \A v \in BOOLEAN : Calm(s, [s EXCEPT !.esco = v])
           /\ Calm(s, [s EXCEPT !.page = NoPhone])
           /\ ~Slave(s) => \A p \in Phones \cup {NoPhone} : Calm(s, [s EXCEPT !.page = p])
BY DEF Calm, Same, Quiet, LinkedSlave, Bud

LEMMA QuietConn ==
    ASSUME NEW s \in Bud, NEW q, BudQuiet(s, q), NEW c \in SUBSET Phones
    PROVE  BudQuiet([s EXCEPT !.conn = c], q)
BY DEF BudQuiet, LinkedSlave, Slave, Linked, Quiet, Bud

LEMMA QuietPhones ==
    ASSUME IInv, QuietInv, NEW b \in Buds, NEW p \in Phones,
           \/ PhoneLink(b, p) \/ PhoneUp(b, p)
           \/ \E ev \in {"lost", "gone"} : PhoneDown(b, p, ev)
    PROVE  QuietInv'
<1> DEFINE s == bud[b]
<1>1. s \in Bud /\ s.conn \in SUBSET Phones /\ s.page \in Phones \cup {NoPhone}
  BY BudGood DEF Bud
<1>2. CASE PhoneLink(b, p)
  <2> DEFINE x == IF s.page = p THEN NoPhone ELSE s.page
  <2>1. /\ bud' = [bud EXCEPT ![b] = [s EXCEPT !.page = x]]
        /\ PostAll(Peers(b), Hci("ok", p)) /\ ~Slave(s)
    BY <1>2 DEF PhoneLink
  <2>2. Calm(s, [s EXCEPT !.page = x])
    BY <1>1, <2>1, CalmOutside
  <2> HIDE DEF x
  <2>3. Hci("ok", p) \in GoodMessage
    BY GoodMessages DEF HciEvents
  <2>4. QED
    BY <2>1, <2>2, <2>3, CalmStep, PostedAll, NoNewsKinds
<1>3. CASE PhoneUp(b, p)
  <2> DEFINE n == IF s.conn = {} THEN 1 ELSE 2
             c == s.conn \cup {p}
  <2>1. /\ bud' = [bud EXCEPT ![b] = [s EXCEPT !.conn = c]]
        /\ PostAll(Peers(b), PhoneEvent(n, p))
    BY <1>3 DEF PhoneUp
  <2>2. BudQuiet([s EXCEPT !.conn = c], queue[b])
    BY <1>1, QuietConn DEF QuietInv
  <2> HIDE DEF c
  <2>3. PhoneEvent(n, p) \in GoodMessage
    BY GoodMessages
  <2> HIDE DEF n
  <2>4. QED
    BY <2>1, <2>2, <2>3, PostedStep, PostedAll, NoNewsKinds
<1>4. ASSUME NEW ev \in {"lost", "gone"}, PhoneDown(b, p, ev) PROVE QuietInv'
  <2> DEFINE c == s.conn \ {p}
  <2>1. /\ bud' = [bud EXCEPT ![b] = [s EXCEPT !.conn = c]]
        /\ PostAll(Peers(b), Hci(ev, p))
    BY <1>4 DEF PhoneDown
  <2>2. BudQuiet([s EXCEPT !.conn = c], queue[b])
    BY <1>1, QuietConn DEF QuietInv
  <2> HIDE DEF c
  <2>3. Hci(ev, p) \in GoodMessage
    BY GoodMessages DEF HciEvents
  <2>4. QED
    BY <2>1, <2>2, <2>3, PostedStep, PostedAll, NoNewsKinds
<1>5. QED
  BY <1>2, <1>3, <1>4

LEMMA QuietPageFails ==
    ASSUME IInv, QuietInv, NEW b \in Buds, NEW ev \in {"lost", "gone", "rejected"},
           PageFails(b, ev)
    PROVE  QuietInv'
<1> DEFINE t == [bud[b] EXCEPT !.page = NoPhone]
<1>1. /\ bud[b].page # NoPhone /\ bud' = [bud EXCEPT ![b] = t]
      /\ Post(b, Hci(ev, bud[b].page))
  BY DEF PageFails
<1>2. Calm(bud[b], t)
  BY BudGood, CalmOutside
<1> HIDE DEF t
<1>3. Hci(ev, bud[b].page) \in GoodMessage
  <2>1. bud[b].page \in Phones
    BY <1>1, BudGood DEF Bud
  <2>2. QED
    BY <2>1, GoodMessages DEF HciEvents
<1>4. QED
  BY <1>1, <1>2, <1>3, CalmStep, PostedOne, NoNewsKinds

\* The library changes every bud and posts the news of it.
LEMMA AllNews ==
    ASSUME IInv, NEW f, NEW g, bud' = [c \in Buds |-> f[c]],
           queue' = [c \in Buds |-> Append(queue[c], g[c])],
           \A c \in Buds : /\ g[c] \in GoodMessage /\ g[c].kind = "tws"
                           /\ Tells(g[c], f[c].role)
                           /\ Slave(f[c]) => Linked(f[c])
    PROVE  QuietInv'
BY QueueSeq, QuietPosted DEF QuietInv

LEMMA QuietTwsLink == ASSUME IInv, QuietInv, NEW b \in Buds, TwsLink(b) PROVE QuietInv'
<1> DEFINE role == [c \in Buds |-> IF c = b THEN "master" ELSE "slave"]
           f == [c \in Buds |-> [bud[c] EXCEPT !.tws = "linked", !.op = "idle",
                                               !.role = role[c]]]
           g == [c \in Buds |-> Tws("connected", role[c], "other")]
<1>1. /\ bud' = [c \in Buds |-> f[c]]
      /\ queue' = [c \in Buds |-> Append(queue[c], g[c])]
  BY DEF TwsLink
<1>2. \A c \in Buds : role[c] \in Role /\ bud[c] \in Bud
  BY BudGood DEF Role
<1> HIDE DEF role
<1>3. \A c \in Buds : f[c].role = role[c] /\ f[c].tws = "linked"
  BY <1>2 DEF Bud
<1>4. \A c \in Buds : g[c] \in GoodMessage
  BY <1>2, GoodMessages DEF DetachReason
<1>5. \A c \in Buds : g[c].kind = "tws" /\ g[c].role = role[c] /\ g[c].ev = "connected"
  BY DEF Tws
<1> HIDE DEF f, g
<1>6. \A c \in Buds : Tells(g[c], f[c].role) /\ Linked(f[c])
  BY <1>3, <1>5 DEF Tells, Linked
<1>7. QED
  BY <1>1, <1>4, <1>5, <1>6, AllNews

LEMMA QuietTwsDetach ==
    ASSUME IInv, QuietInv, NEW reason \in DetachReason, TwsDetach(reason)
    PROVE  QuietInv'
<1> DEFINE x == IF reason = "remove_pairs" THEN "unpaired" ELSE "paired"
           f == [c \in Buds |-> [bud[c] EXCEPT !.role = "master", !.tws = x]]
           g == [c \in Buds |-> Tws("detach", bud[c].role, reason)]
<1>1. /\ bud' = [c \in Buds |-> f[c]]
      /\ queue' = [c \in Buds |-> Append(queue[c], g[c])]
  BY DEF TwsDetach
<1>2. \A c \in Buds : bud[c] \in Bud /\ bud[c].role \in Role
  BY BudGood DEF Bud
<1> HIDE DEF x
<1>3. \A c \in Buds : f[c].role = "master"
  BY <1>2 DEF Bud
<1>4. \A c \in Buds : g[c] \in GoodMessage
  BY <1>2, GoodMessages
<1>5. \A c \in Buds : g[c].kind = "tws" /\ g[c].ev = "detach"
  BY DEF Tws
<1> HIDE DEF f, g
<1>6. QED
  BY <1>1, <1>3, <1>4, <1>5, AllNews DEF Tells, Slave

LEMMA QuietRoleSwitch == ASSUME IInv, QuietInv, RoleSwitch PROVE QuietInv'
<1> DEFINE role == [c \in Buds |-> IF Slave(bud[c]) THEN "master" ELSE "slave"]
           f == [c \in Buds |-> [bud[c] EXCEPT !.role = role[c],
                                               !.conn = bud[Sibling(c)].conn]]
           g == [c \in Buds |-> Tws("switch", role[c], "other")]
<1>1. /\ bud' = [c \in Buds |-> f[c]]
      /\ queue' = [c \in Buds |-> Append(queue[c], g[c])]
      /\ \A c \in Buds : Linked(bud[c])
  BY DEF RoleSwitch
<1>2. \A c \in Buds : role[c] \in Role /\ bud[c] \in Bud
  BY BudGood DEF Role
<1> HIDE DEF role
<1>3. \A c \in Buds : f[c].role = role[c] /\ f[c].tws = "linked"
  BY <1>1, <1>2 DEF Bud, Linked
<1>4. \A c \in Buds : g[c] \in GoodMessage
  BY <1>2, GoodMessages DEF DetachReason
<1>5. \A c \in Buds : g[c].kind = "tws" /\ g[c].role = role[c] /\ g[c].ev = "switch"
  BY DEF Tws
<1> HIDE DEF f, g
<1>6. \A c \in Buds : Tells(g[c], f[c].role) /\ Linked(f[c])
  BY <1>3, <1>5 DEF Tells, Linked
<1>7. QED
  BY <1>1, <1>4, <1>5, <1>6, AllNews

LEMMA CloseFields ==
    ASSUME NEW s, Good(s)
    PROVE  tws_dual_conn_close(s) \in Bud /\ Same(s, tws_dual_conn_close(s))
<1> DEFINE d == DelTimer(s)
           k == CancelSeek(d)
           l == CancelListen(k)
           w == write_scan_conn_enable(l, "off")
<1>1. d \in Bud /\ Calm(s, d)
  BY GoodBud, CalmSetters DEF Calm
<1> HIDE DEF d
<1>2. k \in Bud /\ Calm(s, k)
  BY <1>1, CalmSetters, CalmTrans DEF Calm
<1> HIDE DEF k
<1>3. l \in Bud /\ Calm(s, l)
  BY <1>2, CalmSetters, CalmTrans DEF Calm
<1> HIDE DEF l
<1>4. w \in Bud /\ Calm(s, w)
  BY <1>3, CalmSetters, CalmTrans DEF Calm
<1> HIDE DEF w
<1>5. Calm(s, PageCancel(w))
  BY <1>4, CalmSetters, CalmTrans
<1>6. QED
  BY <1>5 DEF tws_dual_conn_close, Calm, w, l, k, d

LEMMA QuietClose ==
    ASSUME IInv, QuietInv, NEW b \in Buds, SoftPoweroff(b) \/ ModeExit(b)
    PROVE  QuietInv'
<1> DEFINE x == [bud[b] EXCEPT !.off = TRUE]
           y == [bud[b] EXCEPT !.exit = TRUE]
           s == tws_dual_conn_close(x)
           t == tws_dual_conn_close(y)
<1>1. Good(x) /\ Good(y) /\ bud[b] \in Bud
  BY BudGood, GoodOutside
<1>2. /\ x.role = bud[b].role /\ x.tws = bud[b].tws /\ x.off
      /\ y.role = bud[b].role /\ y.tws = bud[b].tws /\ y.exit
  BY <1>1 DEF Bud
<1>3. bud' = [bud EXCEPT ![b] = s] \/ bud' = [bud EXCEPT ![b] = t]
  BY DEF SoftPoweroff, ModeExit
<1> HIDE DEF x, y
<1>4. /\ s.role = bud[b].role /\ s.tws = bud[b].tws /\ s.off
      /\ t.role = bud[b].role /\ t.tws = bud[b].tws /\ t.exit
  BY <1>1, <1>2, CloseFields DEF Same
<1> HIDE DEF s, t
<1>5. BudQuiet(s, queue[b]) /\ BudQuiet(t, queue[b])
  BY <1>4, QuietOut DEF QuietInv
<1>6. queue' = queue
  BY DEF SoftPoweroff, ModeExit
<1>7. \A c \in Buds : /\ c # b => bud'[c] = bud[c]
                      /\ c = b => bud'[c] = s \/ bud'[c] = t
  BY <1>3 DEF IInv
<1>8. QED
  BY <1>5, <1>6, <1>7 DEF QuietInv

\* Power on changes nothing that the libraries decide.
LEMMA InitFields ==
    ASSUME NEW s \in Bud, NEW rec
    PROVE  /\ dual_conn_page_devices_init(s, rec).role = s.role
           /\ dual_conn_page_devices_init(s, rec).tws = s.tws
<1> DEFINE n == Len(rec)
           list == CASE n = 0 -> <<>>
                     [] n = 1 -> <<Fresh(rec[1])>>
                     [] OTHER -> <<Fresh(rec[n]), Fresh(rec[n-1])>>
           left == IF s.inquiry THEN s.orphans \cup {"inquiry"} ELSE s.orphans
           t == [s EXCEPT !.list = list, !.ptimers = {}, !.num = n, !.disable = 0,
                          !.orphans = left, !.inquiry = TRUE]
<1>1. dual_conn_page_devices_init(s, rec) = IF n = 1 THEN [t EXCEPT !.addr2 = rec[1]] ELSE t
  BY DEF dual_conn_page_devices_init
<1> HIDE DEF n, list, left
<1>2. t.role = s.role /\ t.tws = s.tws /\ [t EXCEPT !.addr2 = rec[1]].role = s.role
      /\ [t EXCEPT !.addr2 = rec[1]].tws = s.tws
  BY DEF Bud
<1> HIDE DEF t
<1>3. QED
  BY <1>1, <1>2

LEMMA QuietModeInit == ASSUME IInv, QuietInv, NEW b \in Buds, ModeInit(b) PROVE QuietInv'
<1> DEFINE w == [bud[b] EXCEPT !.exit = FALSE]
           u == [w EXCEPT !.switch = TRUE]
           m == bt_tws_poweron(bud[b].tws)
<1>1. PICK rec \in Records :
          bud' = [bud EXCEPT ![b] = dual_conn_page_devices_init(u, rec)]
  BY DEF ModeInit
<1>2. u \in Bud /\ u.role = bud[b].role /\ u.tws = bud[b].tws
  <2> DEFINE x == bud[b]
  <2>1. x \in Bud
    BY BudGood
  <2> HIDE DEF x
  <2>2. [x EXCEPT !.exit = FALSE] \in Bud
    BY <2>1 DEF Bud
  <2>3. [x EXCEPT !.exit = FALSE].role = x.role /\ [x EXCEPT !.exit = FALSE].tws = x.tws
    BY <2>1 DEF Bud
  <2>4. w \in Bud /\ w.role = bud[b].role /\ w.tws = bud[b].tws
    BY <2>2, <2>3 DEF x
  <2> HIDE DEF w
  <2>5. QED
    BY <2>4 DEF Bud
<1> HIDE DEF u
<1> DEFINE t == dual_conn_page_devices_init(u, rec)
<1>3. t.role = bud[b].role /\ t.tws = bud[b].tws
  BY <1>2, InitFields
<1> HIDE DEF t
<1>4. ~Slave(bud[b])
  BY DEF ModeInit, QuietInv, BudQuiet
<1>5. BudQuiet(t, queue[b])
  BY <1>3, <1>4, QuietOut DEF QuietInv
<1>6. m \in GoodMessage /\ m.kind # "tws"
  BY PowerOnMessage, NoNewsKinds DEF bt_tws_poweron
<1>7. Post(b, m)
  BY DEF ModeInit
<1> HIDE DEF m
<1>8. BudQuiet(t, Append(queue[b], m))
  BY <1>5, <1>6, QueueSeq, QuietAppend
<1>9. \A c \in Buds : /\ c # b => bud'[c] = bud[c] /\ queue'[c] = queue[c]
                      /\ c = b => bud'[c] = t /\ queue'[c] = Append(queue[c], m)
  BY <1>1, <1>7 DEF Post, IInv, t
<1>10. QED
  BY <1>8, <1>9 DEF QuietInv

LEMMA QuietUser ==
    ASSUME IInv, QuietInv, NEW b \in Buds, UserMsg(b) \/ Refresh(b) \/ Esco(b)
    PROVE  QuietInv'
<1> DEFINE s == bud[b]
<1>1. s \in Bud /\ Calm(s, s)
  BY BudGood, CalmSelf
<1>2. CASE UserMsg(b)
  <2>1. PICK m \in AppMsgs \cup {"start_proc", "page_device"} : Post(b, App(m))
    BY <1>2 DEF UserMsg
  <2>2. App(m) \in GoodMessage
    BY GoodMessages
  <2>3. bud' = [bud EXCEPT ![b] = s]
    BY <1>2 DEF UserMsg, IInv
  <2>4. QED
    BY <1>1, <2>1, <2>2, <2>3, CalmStep, PostedOne, NoNewsKinds
<1>3. CASE Refresh(b)
  <2>1. bud' = [bud EXCEPT ![b] = tws_dual_conn_state_handler(s)] /\ queue' = queue
    BY <1>3 DEF Refresh
  <2>2. Calm(s, tws_dual_conn_state_handler(s))
    BY <1>1, CalmStateHandler
  <2>3. QED
    BY <2>1, <2>2, CalmBud
<1>4. CASE Esco(b)
  <2> DEFINE x == [s EXCEPT !.esco = ~s.esco]
             t == IF x.off /\ ~x.esco THEN x ELSE tws_page_scan_deal_by_esco(x)
  <2>1. bud' = [bud EXCEPT ![b] = t] /\ queue' = queue
    BY <1>4 DEF Esco
  <2>2. x \in Bud /\ Calm(s, x)
    <3>1. (~s.esco) \in BOOLEAN
      BY <1>1 DEF Bud
    <3>2. QED
      BY <1>1, <3>1, CalmOutside DEF Calm
  <2> HIDE DEF x
  <2>3. Calm(s, t)
    BY <2>2, CalmEsco, CalmTrans
  <2>4. QED
    BY <2>1, <2>3, CalmBud
<1>5. QED
  BY <1>2, <1>3, <1>4

LEMMA QuietEnvironment == ASSUME IInv, QuietInv, Environment PROVE QuietInv'
BY QuietPhones, QuietPageFails, QuietTwsLink, QuietTwsDetach, QuietRoleSwitch,
   QuietUser, QuietClose, QuietModeInit DEF Environment

LEMMA InitQuiet == Init => QuietInv
<1> SUFFICES ASSUME Init, NEW b \in Buds PROVE BudQuiet(bud[b], queue[b])
  BY DEF QuietInv
<1>1. PICK tws \in {"paired", "unpaired"}, rec \in [Buds -> Records] :
          /\ bud[b] = dual_conn_page_devices_init(Blank(tws), rec[b])
          /\ queue[b] = <<bt_tws_poweron(tws)>>
  BY DEF Init
<1>2. Blank(tws) \in Bud /\ Blank(tws).role = "master"
  BY BlankGood, GoodBud DEF Blank
<1>3. ~Slave(bud[b])
  BY <1>1, <1>2, InitFields DEF Slave
<1>4. NoNews(queue[b])
  BY <1>1, NoNewsKinds DEF NoNews, bt_tws_poweron
<1>5. QED
  BY <1>3, <1>4 DEF BudQuiet, LastNews, NoNews, LinkedSlave

LEMMA NextQuiet == IInv /\ QuietInv /\ [Next]_vars => QuietInv'
<1> SUFFICES ASSUME IInv, QuietInv, [Next]_vars PROVE QuietInv'
  OBVIOUS
<1>1. CASE UNCHANGED vars
  BY <1>1 DEF vars, QuietInv
<1>2. CASE Next
  BY <1>2, QuietHandle, QuietClock, QuietEnvironment DEF Next
<1>3. QED
  BY <1>1, <1>2

\* A slave in use that has handled the news of its role neither scans nor pages, whatever
\* timers, messages and relays from its time alone still run out on it, and whatever the
\* roles do while the news of them is queued.
THEOREM SlaveAlwaysQuiet == Spec => []SlaveQuiet
<1>1. Spec => [](IInv /\ QuietInv)
  <2>1. Init => IInv /\ QuietInv
    BY InitIInv, InitQuiet
  <2>2. (IInv /\ QuietInv) /\ [Next]_vars => (IInv /\ QuietInv)'
    BY NextIInv, NextQuiet
  <2>3. QED
    BY <2>1, <2>2, PTL DEF Spec
<1>2. IInv /\ QuietInv => SlaveQuiet
  BY DEF SlaveQuiet, QuietInv, BudQuiet, InUse, LinkedSlave, NoNews, Quiet, ToSet
<1>3. QED
  BY <1>1, <1>2, PTL
=============================================================================
