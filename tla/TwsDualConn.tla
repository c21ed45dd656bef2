----------------------------- MODULE TwsDualConn -----------------------------
(***************************************************************************)
(* Two earbuds (or one on its own) running the reconnection logic of       *)
(* DualConnBud, with the message queue of each app_core task, the data the *)
(* buds send each other, and the phones.                                   *)
(*                                                                         *)
(* The Bluetooth stack, the TWS link and the controller are libraries      *)
(* without source: their actions (PhoneLink ... RoleSwitch) change what    *)
(* tws_api_get_tws_state(), tws_api_get_role() and                         *)
(* bt_get_total_connect_dev() answer at once, and post the event, which    *)
(* the task handles later, in the order of its queue.                      *)
(***************************************************************************)
EXTENDS DualConnBud

CONSTANTS
    Buds,       \* one or two earbuds
    Records,    \* the device records a bud may power on with (latest last)
    UserOps,    \* operations of the user and of other modules enabled
    Faults,     \* link events enabled
    MaxQueue,   \* bound: a queue at this length takes no message from outside
    MaxEvents   \* bound: faults and user operations in a behaviour

AllUserOps == AppMsgs \cup {"start_proc", "page_device", "refresh", "esco",
                            "poweroff", "mode_exit"}
AllFaults == DetachReason
             \cup {"role_switch", "rejected", "lost", "gone", "already_exists"}

ASSUME BudsAssumption ==
    IsFiniteSet(Buds) /\ Cardinality(Buds) \in {1, 2}
ASSUME EnabledAssumption ==
    /\ UserOps \subseteq AllUserOps
    /\ Faults \subseteq AllFaults
    /\ Records \subseteq Seq(Phones)
    /\ \A rec \in Records : \A i, j \in DOMAIN rec : rec[i] = rec[j] => i = j
    /\ MaxQueue \in Nat
    /\ MaxEvents \in Nat

VARIABLES
    bud,    \* bud[b]: the state of earbud b
    queue,  \* queue[b]: messages of b's app_core task
    net,    \* net[b]: data sent by the sibling, not yet posted to b's task
    acl,    \* acl[b]: phones with a link to b whose profiles are not up yet
    events  \* faults and user operations so far

vars == <<bud, queue, net, acl, events>>

Sibling(b) == CHOOSE c \in Buds : c # b
HasSibling == Cardinality(Buds) = 2
Holders(p) == {b \in Buds : p \in bud[b].conn \cup acl[b]}
InUse(b) == ~bud[b].off /\ ~bud[b].exit

App(m) == [kind |-> "app", msg |-> m]
PhoneEvent(n, p) == [kind |-> "phone", nth |-> n, addr |-> p]
Hci(ev, p) == [kind |-> "hci", ev |-> ev, addr |-> p]
Tws(ev, r, why) == [kind |-> "tws", ev |-> ev, role |-> r, reason |-> why]
Data(m) == [kind |-> "data", info |-> m]

Message == [kind : {"app"}, msg : AppMsgs \cup {"start_proc", "page_device"}]
           \cup [kind : {"phone"}, nth : {1, 2}, addr : Phones]
           \cup [kind : {"hci"}, ev : HciEvents, addr : Phones]
           \cup [kind : {"tws"}, ev : {"connected", "detach", "switch"},
                 role : Role, reason : DetachReason]
           \cup [kind : {"data"}, info : Info]

TypeOK ==
    /\ bud \in [Buds -> Bud]
    /\ queue \in [Buds -> Seq(Message)]
    /\ net \in [Buds -> Seq(Info)]
    /\ acl \in [Buds -> SUBSET Phones]
    /\ events \in 0..MaxEvents

(***************************************************************************)
(* Power on: BT_STATUS_INIT_OK, then bt_tws_poweron posts the message that *)
(* starts pairing.                                                         *)
(***************************************************************************)

Blank(tws) ==
    [timer |-> "none", orphans |-> {}, inquiry |-> FALSE, num |-> 0, disable |-> 0,
     addr0 |-> NoPhone, addr1 |-> NoPhone, addr2 |-> NoPhone, list |-> <<>>,
     ptimers |-> {}, off |-> FALSE, exit |-> FALSE, role |-> "master", tws |-> tws,
     conn |-> {}, esco |-> FALSE, scan |-> "off", page |-> NoPhone, op |-> "idle",
     switch |-> TRUE]

bt_tws_poweron(tws) == App(IF tws = "paired" THEN "paired" ELSE "unpaired")

Init ==
    \E tws \in {"paired", "unpaired"}, rec \in [Buds -> Records] :
        /\ bud = [b \in Buds |-> dual_conn_page_devices_init(Blank(tws), rec[b])]
        /\ queue = [b \in Buds |-> <<bt_tws_poweron(tws)>>]
        /\ net = [b \in Buds |-> <<>>]
        /\ acl = [b \in Buds |-> {}]
        /\ events = 0

(***************************************************************************)
(* Posting, sending, and running a handler on the head of the queue.       *)
(***************************************************************************)

Room(b) == Len(queue[b]) < MaxQueue
Post(b, m) == queue' = [queue EXCEPT ![b] = Append(@, m)]

\* A link event the library reports on both buds while they are linked.
Peers(b) == IF Linked(bud[b]) /\ HasSibling THEN Buds ELSE {b}
PostAll(B, m) ==
    queue' = [c \in Buds |-> IF c \in B THEN Append(queue[c], m) ELSE queue[c]]

Waiting(b, kind) == queue[b] # <<>> /\ Head(queue[b]).kind = kind
Handled(b, s) ==
    /\ bud' = [bud EXCEPT ![b] = s]
    /\ queue' = [queue EXCEPT ![b] = Tail(@)]

\* One more fault or user operation.
Event == events < MaxEvents /\ events' = events + 1

\* tws_api_send_data_to_sibling: nothing leaves a bud without a link.
Send(b, m) ==
    net' = IF Linked(bud[b]) /\ HasSibling
           THEN [net EXCEPT ![Sibling(b)] = Append(@, m)] ELSE net

HandlePhone(b) ==
    /\ Waiting(b, "phone")
    /\ LET m == Head(queue[b])
       IN  Handled(b, IF m.nth = 1 THEN FirstConnected(bud[b], m.addr)
                      ELSE SecondConnected(bud[b], m.addr))
    /\ UNCHANGED <<net, acl, events>>

HandleHci(b) ==
    /\ Waiting(b, "hci")
    /\ Handled(b, dual_conn_hci_event_handler(bud[b], Head(queue[b]).ev,
                                              Head(queue[b]).addr))
    /\ UNCHANGED <<net, acl, events>>

HandleConnected(b) ==
    /\ Waiting(b, "tws") /\ Head(queue[b]).ev = "connected"
    /\ LET m == Head(queue[b])
           s == TwsConnected(bud[b], m.role)
       IN  /\ Handled(b, s)
           /\ IF m.role = "master" /\ ~bud[b].off THEN Send(b, PageInfo(s))
              ELSE UNCHANGED net
    /\ UNCHANGED <<acl, events>>

HandleDetach(b) ==
    /\ Waiting(b, "tws") /\ Head(queue[b]).ev = "detach"
    /\ Handled(b, TwsDetached(bud[b], Head(queue[b]).role, Head(queue[b]).reason))
    /\ UNCHANGED <<net, acl, events>>

HandleSwitch(b) ==
    /\ Waiting(b, "tws") /\ Head(queue[b]).ev = "switch"
    /\ LET m == Head(queue[b])
           s == RoleSwitched(bud[b], m.role)
       IN  /\ Handled(b, s)
           /\ IF m.role = "slave" /\ ~bud[b].off THEN Send(b, PageInfo(s))
              ELSE UNCHANGED net
    /\ UNCHANGED <<acl, events>>

HandleData(b) ==
    /\ Waiting(b, "data")
    /\ Handled(b, rx_device_info(bud[b], Head(queue[b]).info))
    /\ UNCHANGED <<net, acl, events>>

HandleApp(b) ==
    /\ Waiting(b, "app") /\ Head(queue[b]).msg \in AppMsgs
    /\ Handled(b, dual_conn_app_event_handler(bud[b], Head(queue[b]).msg))
    /\ UNCHANGED <<net, acl, events>>

\* APP_MSG_TWS_START_PAIR_AND_CONN_PROCESS posts the message for its pairing state.
HandleStartProc(b) ==
    /\ Waiting(b, "app") /\ Head(queue[b]).msg = "start_proc"
    /\ queue' = [queue EXCEPT ![b] = Append(Tail(@),
                     App(IF bud[b].tws = "unpaired" THEN "unpaired" ELSE "paired"))]
    /\ UNCHANGED <<bud, net, acl, events>>

\* APP_MSG_BT_PAGE_DEVICE does nothing once two devices are connected or listed.
HandlePageDevice(b) ==
    /\ Waiting(b, "app") /\ Head(queue[b]).msg = "page_device"
    /\ IF connect_dev(bud[b]) + Len(bud[b].list) >= 2 THEN Handled(b, bud[b])
       ELSE \E added \in UNION {[1..n -> Phones] : n \in 0..3} :
                /\ PageDeviceLoop(bud[b], added)
                /\ Handled(b, page_device_msg_handler(bud[b], added))
    /\ UNCHANGED <<net, acl, events>>

(***************************************************************************)
(* Timers.  sys_timeout callbacks run in the task that armed them.         *)
(***************************************************************************)

Timeout(b) ==
    /\ bud[b].timer \in Callback
    /\ bud' = [bud EXCEPT ![b] = RunTimer(@)]
    /\ UNCHANGED <<queue, net, acl, events>>

OrphanTimeout(b) ==
    /\ \E cb \in bud[b].orphans \cap Callback :
           bud' = [bud EXCEPT ![b] = RunOrphan(@, cb)]
    /\ UNCHANGED <<queue, net, acl, events>>

PageTimeout(b, p) ==
    /\ p \in bud[b].ptimers
    /\ bud' = [bud EXCEPT ![b] = dual_conn_page_device_timeout(@, p)]
    /\ UNCHANGED <<queue, net, acl, events>>

\* With an older inquiry timer still running, the first to run out zeroes the
\* handle of the other.
InquiryTimeout(b) ==
    /\ Event
    /\ bud[b].inquiry \/ "inquiry" \in bud[b].orphans
    /\ LET s == [close_inquiry_scan(bud[b]) EXCEPT
                    !.inquiry = FALSE,
                    !.orphans = IF bud[b].inquiry THEN @ ELSE @ \ {"inquiry"}]
       IN  /\ bud' = [bud EXCEPT ![b] = s]
           /\ IF Slave(bud[b]) THEN UNCHANGED net ELSE Send(b, CountInfo(s))
    /\ UNCHANGED <<queue, acl>>

\* Time passes the deadline of a listed device.
Elapse(b, p) ==
    /\ \E i \in DOMAIN bud[b].list :
           /\ bud[b].list[i].addr = p /\ ~bud[b].list[i].late
           /\ bud' = [bud EXCEPT ![b].list[i].late = TRUE]
    /\ UNCHANGED <<queue, net, acl, events>>

\* tws_page_device_info_sync posts rx_device_info to the app_core task.
Receive(b) ==
    /\ net[b] # <<>>
    /\ Post(b, Data(Head(net[b])))
    /\ net' = [net EXCEPT ![b] = Tail(@)]
    /\ UNCHANGED <<bud, acl, events>>

(***************************************************************************)
(* Phones.                                                                 *)
(***************************************************************************)

\* A phone links up: it answered b's page, or found b's page scan open.
PhoneLink(b, p) ==
    /\ ~Slave(bud[b]) /\ Holders(p) = {}
    /\ Cardinality(bud[b].conn \cup acl[b]) < 2
    /\ bud[b].page = p \/ bud[b].scan # "off"
    /\ \A c \in Peers(b) : Room(c)
    /\ acl' = [acl EXCEPT ![b] = @ \cup {p}]
    /\ bud' = [bud EXCEPT ![b].page = IF @ = p THEN NoPhone ELSE @]
    /\ PostAll(Peers(b), Hci("ok", p))
    /\ UNCHANGED <<net, events>>

\* Its profiles come up: BT_STATUS_FIRST_CONNECTED or SECOND_CONNECTED.
PhoneUp(b, p) ==
    /\ p \in acl[b]
    /\ \A c \in Peers(b) : Room(c)
    /\ acl' = [acl EXCEPT ![b] = @ \ {p}]
    /\ bud' = [bud EXCEPT ![b].conn = @ \cup {p}]
    /\ PostAll(Peers(b), PhoneEvent(IF bud[b].conn = {} THEN 1 ELSE 2, p))
    /\ UNCHANGED <<net, events>>

PhoneDown(b, p, ev) ==
    /\ Event
    /\ ev \in Faults \cap {"lost", "gone"}
    /\ p \in bud[b].conn \cup acl[b]
    /\ \A c \in Peers(b) : Room(c)
    /\ acl' = [acl EXCEPT ![b] = @ \ {p}]
    /\ bud' = [bud EXCEPT ![b].conn = @ \ {p}]
    /\ PostAll(Peers(b), Hci(ev, p))
    /\ UNCHANGED net

\* A page ends without a new link.
PageFails(b, ev) ==
    /\ Event
    /\ bud[b].page # NoPhone
    /\ IF Holders(bud[b].page) = {} THEN ev \in Faults \cap {"gone", "rejected"}
       ELSE "already_exists" \in Faults /\ ev = "lost"
    /\ Room(b)
    /\ bud' = [bud EXCEPT ![b].page = NoPhone]
    /\ Post(b, Hci(ev, bud[b].page))
    /\ UNCHANGED <<net, acl>>

(***************************************************************************)
(* The TWS link.  tws_host_role_switch: the bud with a phone is master,    *)
(* else the one with devices to page, if only one has any.                 *)
(***************************************************************************)

HasPhone(b) == bud[b].conn \cup acl[b] # {}
MayBeMaster(b) ==
    LET c == Sibling(b)
    IN  /\ ~HasPhone(c)
        /\ HasPhone(b) \/ ~page_list_empty(bud[b]) \/ page_list_empty(bud[c])

TwsLink(b) ==      \* b becomes master
    /\ HasSibling
    /\ \A c \in Buds : ~Linked(bud[c]) /\ bud[c].op # "idle" /\ Room(c)
    /\ \E c \in Buds : bud[c].op = "seek"
    /\ MayBeMaster(b)
    /\ LET role == [c \in Buds |-> IF c = b THEN "master" ELSE "slave"]
       IN  /\ bud' = [c \in Buds |-> [bud[c] EXCEPT !.tws = "linked", !.op = "idle",
                                                    !.role = role[c]]]
           /\ queue' = [c \in Buds |->
                            Append(queue[c], Tws("connected", role[c], "other"))]
    /\ UNCHANGED <<net, acl, events>>

\* Data in flight is lost with the link; a bud on its own is a master.  The bound
\* does not count what follows from the power-off of one of them.
TwsDetach(reason) ==
    /\ reason \in Faults
    /\ IF reason = "poweroff" THEN (\E c \in Buds : ~InUse(c)) /\ UNCHANGED events ELSE Event
    /\ \A c \in Buds : Linked(bud[c]) /\ Room(c)
    /\ bud' = [c \in Buds |-> [bud[c] EXCEPT !.role = "master",
                   !.tws = IF reason = "remove_pairs" THEN "unpaired" ELSE "paired"]]
    /\ queue' = [c \in Buds |-> Append(queue[c], Tws("detach", bud[c].role, reason))]
    /\ net' = [c \in Buds |-> <<>>]
    /\ UNCHANGED acl

\* The buds swap roles; the phones' links move to the new master.
RoleSwitch ==
    /\ Event
    /\ "role_switch" \in Faults /\ HasSibling
    /\ \A c \in Buds : Linked(bud[c]) /\ Room(c)
    /\ \E c \in Buds : ~Slave(bud[c]) /\ bud[c].switch
    /\ LET role == [c \in Buds |-> IF Slave(bud[c]) THEN "master" ELSE "slave"]
       IN  /\ bud' = [c \in Buds |-> [bud[c] EXCEPT !.role = role[c],
                                                    !.conn = bud[Sibling(c)].conn]]
           /\ queue' = [c \in Buds |-> Append(queue[c], Tws("switch", role[c], "other"))]
    /\ acl' = [c \in Buds |-> acl[Sibling(c)]]
    /\ UNCHANGED net

(***************************************************************************)
(* The user and other modules.                                             *)
(***************************************************************************)

UserMsg(b) ==
    /\ Event
    /\ Room(b)
    /\ \E m \in UserOps \cap (AppMsgs \cup {"start_proc", "page_device"}) : Post(b, App(m))
    /\ UNCHANGED <<bud, net, acl>>

\* earphone.c, low_latency.c and bt_tws.c re-run the state handler.
Refresh(b) ==
    /\ Event
    /\ "refresh" \in UserOps
    /\ bud' = [bud EXCEPT ![b] = tws_dual_conn_state_handler(@)]
    /\ UNCHANGED <<queue, net, acl>>

\* The audio of a call starts (bt_phone_esco_play) or ends (bt_phone_esco_stop).
Esco(b) ==
    /\ Event
    /\ "esco" \in UserOps
    /\ bud[b].esco \/ bud[b].conn # {}
    /\ LET s == [bud[b] EXCEPT !.esco = ~@]
       IN  bud' = [bud EXCEPT ![b] = IF s.off /\ ~s.esco THEN s
                                     ELSE tws_page_scan_deal_by_esco(s)]
    /\ UNCHANGED <<queue, net, acl>>

\* sys_enter_soft_poweroff; bt_tws_poweroff sends the list for the sibling.
SoftPoweroff(b) ==
    /\ Event
    /\ "poweroff" \in UserOps
    /\ InUse(b)
    /\ LET s == tws_dual_conn_close([bud[b] EXCEPT !.off = TRUE])
       IN  /\ bud' = [bud EXCEPT ![b] = s]
           /\ IF Slave(s) THEN UNCHANGED net ELSE Send(b, PageInfo(s))
    /\ UNCHANGED <<queue, acl>>

\* bt_mode_try_exit: leave the Bluetooth mode.
ModeExit(b) ==
    /\ Event
    /\ "mode_exit" \in UserOps
    /\ InUse(b)
    /\ LET s == tws_dual_conn_close([bud[b] EXCEPT !.exit = TRUE])
       IN  /\ bud' = [bud EXCEPT ![b] = s]
           /\ IF Slave(s) THEN UNCHANGED net ELSE Send(b, PageInfo(s))
    /\ UNCHANGED <<queue, acl>>

\* bt_mode_init, when the links are gone: the stack starts again.
ModeInit(b) ==
    /\ bud[b].exit /\ ~Linked(bud[b]) /\ ~HasPhone(b)
    /\ Room(b)
    /\ \E rec \in Records :
           bud' = [bud EXCEPT ![b] =
                       dual_conn_page_devices_init([@ EXCEPT !.exit = FALSE,
                                                             !.switch = TRUE], rec)]
    /\ Post(b, bt_tws_poweron(bud[b].tws))
    /\ UNCHANGED <<net, acl, events>>

HandleMessage(b) == HandlePhone(b) \/ HandleHci(b) \/ HandleConnected(b) \/ HandleDetach(b)
             \/ HandleSwitch(b) \/ HandleData(b) \/ HandleApp(b)
             \/ HandleStartProc(b) \/ HandlePageDevice(b)

Clock(b) == Timeout(b) \/ OrphanTimeout(b) \/ InquiryTimeout(b) \/ Receive(b)
            \/ \E p \in Phones : PageTimeout(b, p) \/ Elapse(b, p)

Environment ==
    \/ \E b \in Buds, p \in Phones :
           \/ PhoneLink(b, p) \/ PhoneUp(b, p)
           \/ \E ev \in {"lost", "gone"} : PhoneDown(b, p, ev)
    \/ \E b \in Buds, ev \in {"lost", "gone", "rejected"} : PageFails(b, ev)
    \/ \E b \in Buds : TwsLink(b)
    \/ \E reason \in DetachReason : TwsDetach(reason)
    \/ RoleSwitch
    \/ \E b \in Buds : UserMsg(b) \/ Refresh(b) \/ Esco(b) \/ SoftPoweroff(b)
                       \/ ModeExit(b) \/ ModeInit(b)

Next == (\E b \in Buds : HandleMessage(b) \/ Clock(b)) \/ Environment

Spec == Init /\ [][Next]_vars

(***************************************************************************)
(* Fairness.  A task handles its messages and its timers run out; a phone  *)
(* brings its profiles up or goes; a device's deadline passes.  Two buds   *)
(* that are both searching again and again find each other: the radio      *)
(* gives no single attempt a chance, but not every attempt can miss.       *)
(* Faults and the user owe nothing.                                        *)
(***************************************************************************)
Fairness ==
    /\ \A b \in Buds :
           /\ WF_vars(HandleMessage(b)) /\ WF_vars(Receive(b))
           /\ WF_vars(Timeout(b)) /\ WF_vars(OrphanTimeout(b))
           /\ \A p \in Phones :
                  /\ WF_vars(PageTimeout(b, p)) /\ WF_vars(Elapse(b, p))
                  /\ WF_vars(PhoneUp(b, p))
    /\ SF_vars(\E b \in Buds : TwsLink(b))

FairSpec == Spec /\ Fairness

(***************************************************************************)
(* Properties.                                                             *)
(***************************************************************************)

\* Nothing is on its way to a task.
Settled == \A b \in Buds : queue[b] = <<>> /\ net[b] = <<>> /\ acl[b] = {}

\* b decides for itself or for the pair: in use, and master or alone.
InCharge(b) == InUse(b) /\ ~Slave(bud[b])

\* b's sibling, if linked, is in use (otherwise the link is about to go).
SiblingInUse(b) == Linked(bud[b]) => \A c \in Buds : InUse(c)

\* No timer will call b again, but for the one that ends discoverability.
NothingPending(b) ==
    /\ bud[b].timer \notin Callback
    /\ bud[b].ptimers = {}
    /\ bud[b].orphans \subseteq {"inquiry"}

Listed(b) == Addrs(bud[b].list)
RelayedIn(b) == ToSet(net[b]) \cup {m.info : m \in {x \in ToSet(queue[b]) : x.kind = "data"}}

\* No device is ever twice in a page list, or in a list on its way to the
\* sibling, however losses, relays and user requests to page interleave:
\* add_device_2_page_list looks a device up before it adds it.
NoDuplicatePage ==
    \A b \in Buds :
        /\ \A i, j \in DOMAIN bud[b].list :
               bud[b].list[i].addr = bud[b].list[j].addr => i = j
        /\ \A m \in RelayedIn(b) :
               \A i, j \in DOMAIN m.addrs : m.addrs[i] = m.addrs[j] => i = j

\* The page timers running are those the list says are running: no callback
\* is left with a freed entry, and no entry waits for a timer that is gone
\* (dual_conn_page_device would never page past it).
PageTimersMatch ==
    \A b \in Buds :
        bud[b].ptimers = {bud[b].list[i].addr :
                              i \in {k \in DOMAIN bud[b].list : bud[b].list[k].timer}}

\* A slave in use that has handled the news of its role neither scans nor
\* pages: its radio time belongs to the TWS link.  Timers armed while it was
\* alone still run out on it.
SlaveQuiet ==
    \A b \in Buds :
        InUse(b) /\ Slave(bud[b]) /\ (\A m \in ToSet(queue[b]) : m.kind # "tws")
            => bud[b].scan = "off" /\ bud[b].page = NoPhone

\* A phone that is connected is not in the list of devices to page.
ListedNotConnected ==
    Settled => \A b \in Buds : Listed(b) \cap bud[b].conn = {}

\* While there are devices to page and nothing is on its way, some timer is
\* running that pages on or gives up: the search for a phone never stalls.
NoLostWakeup ==
    Settled => \A b \in Buds :
        InCharge(b) /\ Listed(b) # {} /\ SiblingInUse(b) => ~NothingPending(b)

\* The library may not swap the roles while the master has devices to page.
NoSwitchWhilePaging ==
    Settled => \A b \in Buds :
        InCharge(b) /\ Linked(bud[b]) /\ Listed(b) # {} /\ SiblingInUse(b)
            => ~bud[b].switch

\* A bud without a phone that is not paging can be found: by a phone, or by
\* whoever answers its own search or wait.
Reachable ==
    Settled => \A b \in Buds :
        InCharge(b) /\ bud[b].conn = {} /\ bud[b].ptimers = {} /\ SiblingInUse(b)
            => bud[b].scan # "off" \/ bud[b].op # "idle"

\* With two phones up (there is no preemption of a connection) a third cannot
\* link up: the scans are off.
FullThenClosed ==
    Settled => \A b \in Buds :
        InCharge(b) /\ connect_dev(bud[b]) = 2 => bud[b].scan = "off"

\* Every listed device is paged out, connected or given up at last.
DeviceGivenUp ==
    \A b \in Buds, p \in Phones :
        p \in Listed(b) ~> p \notin Listed(b) \/ ~InCharge(b)

\* Two paired buds in use link up again and again, unless each has a phone:
\* paging phones never keeps them from searching for each other for good.
SiblingsMeet ==
    []<>(\E b \in Buds : \/ bud[b].tws # "paired" \/ ~InUse(b)
                         \/ \A c \in Buds : HasPhone(c))

(***************************************************************************)
(* What the source says of itself and does not keep.                       *)
(***************************************************************************)

\* The sibling receives the count of recorded devices that was sent.
SyncKeepsRecordCount == \A b \in Buds : \A m \in RelayedIn(b) : m.num = m.sent

\* A bud that is leaving the Bluetooth mode does not open its scans again.
NoReopenAfterExit == \A b \in Buds : bud[b].exit => bud[b].scan = "off"
=============================================================================
