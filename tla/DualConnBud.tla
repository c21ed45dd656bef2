----------------------------- MODULE DualConnBud -----------------------------
(***************************************************************************)
(* One earbud's reconnection logic: tws_dual_conn.c of the earphone        *)
(* application, in the configuration of board/br28 (TWS and dual           *)
(* connection on, CONFIG_TWS_PAIR_BY_AUTO, no audio share, no LE audio,    *)
(* TCFG_DUAL_CONN_PAGE_SCAN_TIME = 0, TCFG_DUAL_CONN_INQUIRY_SCAN_TIME >   *)
(* 0, no BT background mode).                                              *)
(*                                                                         *)
(* The state of a bud is a record.  A C function that changes it is an     *)
(* operator from the state it is called in to the state it returns in, so  *)
(* nested calls are nested operators and a handler runs to completion in   *)
(* one step, as it does in the app_core task.  The operators keep the      *)
(* names the functions have in the source.                                 *)
(*                                                                         *)
(* Left out: printing, LED and tone messages to the UI, the production     *)
(* test box, the OTA-update lock of write_scan_conn_enable, the            *)
(* DUAL_CONN_SET_ONE and DUAL_CONN_CLOSE settings (the default is          *)
(* DUAL_CONN_SET_TWO), need_keep_scan (set only by protocols compiled      *)
(* out) and page_scan_auto_disable (set only by a timer compiled out).     *)
(***************************************************************************)
EXTENDS Naturals, Sequences, FiniteSets, SequencesExt

CONSTANTS
    Phones,     \* addresses of the phones
    NoPhone     \* "no address": ff:ff:ff:ff:ff:ff in remote_addr, no page running

ASSUME PhonesAssumption == NoPhone \notin Phones /\ IsFiniteSet(Phones)

(***************************************************************************)
(* Values.                                                                 *)
(***************************************************************************)

\* The callbacks g_dual_conn.timer is armed with.
Callback == {"auto_pair", "wait_conn", "page_next", "pair", "create_conn",
             "msg_wait_pair", "msg_start_pair", "msg_start_conn"}

\* g_dual_conn.timer: 0, a handle of a timer that is running (named by the
\* callback it runs), or a handle of a timer that has already run.
TimerHandle == Callback \cup {"none", "stale"}

\* struct page_device_info: timer is "info->timer is not 0", late is
\* "jiffies is past info->timeout".
PageDevice == [addr : Phones, timer : BOOLEAN, late : BOOLEAN]

Role == {"master", "slave"}
TwsState == {"unpaired", "paired", "linked"}   \* linked: sibling connected
Scan == {"off", "page", "both"}                \* controller scan enable
PairOp == {"idle", "seek", "listen"}           \* what tws_api_* left running

Bud == [ timer   : TimerHandle,           \* g_dual_conn.timer
         orphans : SUBSET (Callback \cup {"inquiry"}),  \* running, no handle
         inquiry : BOOLEAN,                \* g_dual_conn.inquiry_scan_time
         num     : Nat,                    \* g_dual_conn.device_num_recorded
         disable : 0..2,                   \* g_dual_conn.inquiry_scan_disable
         addr0   : Phones \cup {NoPhone},  \* g_dual_conn.remote_addr[0..2]
         addr1   : Phones \cup {NoPhone},
         addr2   : Phones \cup {NoPhone},
         list    : Seq(PageDevice),        \* g_dual_conn.page_head
         ptimers : SUBSET Phones,          \* page timers running
         off     : BOOLEAN,                \* app_var.goto_poweroff_flag
         exit    : BOOLEAN,                \* g_bt_hdl.wait_exit
         role    : Role,                   \* tws_api_get_role()
         tws     : TwsState,               \* tws_api_get_tws_state()
         conn    : SUBSET Phones,          \* bt_get_total_connect_dev() counts
         esco    : BOOLEAN,                \* esco_player_runing()
         scan    : Scan,                   \* lmp_hci_write_scan_enable
         page    : Phones \cup {NoPhone},  \* page running in the controller
         op      : PairOp,
         switch  : BOOLEAN ]               \* auto role switch allowed

Slave(s) == s.role = "slave"
Linked(s) == s.tws = "linked"
page_list_empty(s) == s.list = <<>>
connect_dev(s) == Cardinality(s.conn)

(***************************************************************************)
(* Calls into the Bluetooth libraries, as this file uses them.             *)
(***************************************************************************)

write_scan_conn_enable(s, mode) == [s EXCEPT !.scan = mode]
StartPage(s, p) == [s EXCEPT !.page = p]        \* USER_CTRL_START_CONNEC_VIA_ADDR
PageCancel(s) == [s EXCEPT !.page = NoPhone]    \* USER_CTRL_PAGE_CANCEL
Seek(s) == [s EXCEPT !.op = "seek"]        \* create_connection, auto_pair, search
Listen(s) == [s EXCEPT !.op = "listen"]    \* wait_connection, wait_pair_by_code
CancelSeek(s) ==                           \* tws_api_cancle_create_connection
    [s EXCEPT !.op = IF @ = "seek" THEN "idle" ELSE @]
CancelListen(s) ==                         \* tws_api_cancle_wait_pair
    [s EXCEPT !.op = IF @ = "listen" THEN "idle" ELSE @]

(***************************************************************************)
(* The one timer handle.  DelTimer is "if (timer) {sys_timeout_del; = 0}"; *)
(* deleting a handle whose timer has run has no effect (ids in use are not *)
(* handed out again).  Writing the handle without deleting what it names   *)
(* leaves that timer running with nothing naming it.                       *)
(***************************************************************************)
DelTimer(s) == [s EXCEPT !.timer = "none"]

Overwrite(s, h) ==
    [s EXCEPT !.timer = h,
              !.orphans = IF s.timer \in Callback THEN @ \cup {s.timer} ELSE @]

(***************************************************************************)
(* The page list.                                                          *)
(***************************************************************************)

Addrs(list) == {list[i].addr : i \in DOMAIN list}
IndexOf(list, p) == CHOOSE i \in DOMAIN list : list[i].addr = p
Without(list, p) ==
    IF p \in Addrs(list) THEN RemoveAt(list, IndexOf(list, p)) ELSE list
Fresh(p) == [addr |-> p, timer |-> FALSE, late |-> FALSE]

\* Mutant: a known device is not looked for.
AddUnchecked(s, p) == [s EXCEPT !.list = Append(@, Fresh(p))]

\* A known device loses its timer and goes to the tail with a new deadline.
add_device_2_page_list(s, p) ==
    [s EXCEPT !.list = Append(Without(@, p), Fresh(p)),
              !.ptimers = @ \ {p}]

\* Mutant: the entry is freed, its timer is not deleted.
DelKeepsTimer(s, p) == [s EXCEPT !.list = Without(@, p)]

\* Mutant: the timer is deleted, the entry stays in the list.
DelKeepsEntry(s, p) ==
    [s EXCEPT !.list = [i \in DOMAIN @ |-> IF @[i].addr = p THEN Fresh(p) ELSE @[i]],
              !.ptimers = @ \ {p}]

del_device_from_page_list(s, p) ==
    [s EXCEPT !.list = Without(@, p),
              !.ptimers = IF p \in Addrs(s.list) THEN @ \ {p} ELSE @]

clr_device_in_page_list(s) ==
    [s EXCEPT !.list = <<>>,
              !.ptimers = @ \ Addrs(s.list)]

\* The rejected head goes to the tail, its timer still running.
RotatePageList(s) ==
    IF page_list_empty(s) THEN s
    ELSE [s EXCEPT !.list = Append(Tail(@), Head(@))]

(***************************************************************************)
(* tws_dual_conn_state_handler: scan, pairing and the retry timer follow   *)
(* the TWS state, the number of phones and the page list.                  *)
(***************************************************************************)

dual_conn_try_open_inquiry_scan(s) ==
    IF s.disable # 0 \/ Slave(s) THEN s ELSE write_scan_conn_enable(s, "both")

dual_conn_try_open_inquiry_page_scan(s) ==
    IF Slave(s) THEN s
    ELSE write_scan_conn_enable(s,
             IF connect_dev(s) = 0 \/ s.disable = 0 THEN "both" ELSE "page")

OnePhoneScan(s) ==
    IF s.num > 1 THEN write_scan_conn_enable(s, "page")
    ELSE dual_conn_try_open_inquiry_page_scan(s)

\* With one phone up and more recorded, the master pages the head at once.
LinkedScan(s) ==
    LET paged == IF page_list_empty(s) THEN s ELSE StartPage(s, Head(s.list).addr)
        busy  == s.esco /\ ~page_list_empty(s)
    IN  CASE connect_dev(s) = 0 -> write_scan_conn_enable(s, "both")
          [] connect_dev(s) = 1 /\ s.num > 1 ->
                 write_scan_conn_enable(paged, IF busy THEN "off" ELSE "page")
          [] OTHER -> s

LinkedMaster(s) ==
    LET t == LinkedScan(s)
    IN  IF page_list_empty(s)
        THEN [(IF s.num = 1 THEN dual_conn_try_open_inquiry_page_scan(t) ELSE t)
                 EXCEPT !.switch = TRUE]
        ELSE [t EXCEPT !.timer = "wait_conn", !.switch = FALSE]

ArmAutoPair(s) ==
    IF page_list_empty(s) THEN s ELSE [s EXCEPT !.timer = "auto_pair"]

PairedAlone(s) ==
    ArmAutoPair(CASE connect_dev(s) = 0 -> write_scan_conn_enable(Seek(s), "both")
                  [] connect_dev(s) = 1 -> OnePhoneScan(Listen(s))
                  [] OTHER -> Listen(s))

Unpaired(s) ==
    IF connect_dev(s) = 2 THEN s
    ELSE ArmAutoPair(CASE connect_dev(s) = 0 -> write_scan_conn_enable(Seek(s), "both")
                       [] connect_dev(s) = 1 -> OnePhoneScan(s)
                       [] OTHER -> s)

tws_dual_conn_state_handler(s) ==
    LET t == DelTimer(s)
    IN  CASE s.exit -> s
          [] ~s.exit /\ s.off -> t
          [] ~s.exit /\ ~s.off /\ Linked(s) ->
                 IF Slave(s) THEN write_scan_conn_enable(t, "off") ELSE LinkedMaster(t)
          [] ~s.exit /\ ~s.off /\ s.tws = "paired" -> PairedAlone(t)
          [] OTHER -> Unpaired(t)

\* A call starts or ends (s.esco): paired buds stop searching, or start again.
tws_page_scan_deal_by_esco(s) ==
    CASE s.esco /\ s.tws # "unpaired" -> CancelSeek(s)
      [] ~s.esco /\ s.tws = "paired" -> tws_dual_conn_state_handler(s)
      [] OTHER -> s

\* Page the head, unless its page timer runs; a slave never pages.
dual_conn_page_device(s) ==
    CASE ~page_list_empty(s) /\ Head(s.list).timer -> s
      [] ~page_list_empty(s) /\ ~Head(s.list).timer /\ ~Slave(s) ->
             [StartPage(s, Head(s.list).addr)
                 EXCEPT !.list[1].timer = TRUE,
                        !.ptimers = @ \cup {Head(s.list).addr}]
      [] OTHER -> tws_dual_conn_state_handler(s)

PageOrState(s) ==
    IF page_list_empty(s) THEN tws_dual_conn_state_handler(s)
    ELSE dual_conn_page_device(s)

(***************************************************************************)
(* Timer callbacks.  Only tws_wait_conn_timeout leaves its handle set.     *)
(***************************************************************************)

tws_auto_pair_timeout(s) ==
    dual_conn_page_device(write_scan_conn_enable(CancelSeek(CancelListen(s)), "off"))

tws_wait_conn_timeout(s) == dual_conn_page_device(write_scan_conn_enable(s, "off"))

tws_pair_timeout(s) ==
    IF page_list_empty(s) THEN Listen(CancelSeek(s))
    ELSE dual_conn_page_device(CancelSeek(s))

\* Mutant: with nothing to page, the search for the sibling just ends.
CreateConnTimeoutStops(s) ==
    IF page_list_empty(s) THEN CancelSeek(s) ELSE dual_conn_page_device(CancelSeek(s))

tws_create_conn_timeout(s) == PageOrState(CancelSeek(s))

CallbackBody(cb, s) ==
    CASE cb = "auto_pair" -> tws_auto_pair_timeout(s)
      [] cb = "wait_conn" -> tws_wait_conn_timeout(s)
      [] cb = "page_next" -> dual_conn_page_device(s)
      [] cb = "pair" -> tws_pair_timeout(s)
      [] cb = "create_conn" -> tws_create_conn_timeout(s)
      [] cb = "msg_wait_pair" -> CancelListen(s)
      [] cb = "msg_start_pair" -> Listen(s)
      [] OTHER -> s

\* The timer the handle names runs out.
RunTimer(s) ==
    CallbackBody(s.timer,
        [s EXCEPT !.timer = IF @ = "wait_conn" THEN "stale" ELSE "none"])

\* A timer without a handle runs out; its callback zeroes the handle all the same.
RunOrphan(s, cb) ==
    LET t == [s EXCEPT !.orphans = @ \ {cb}]
    IN  CallbackBody(cb, IF cb = "wait_conn" THEN t ELSE Overwrite(t, "none"))

\* Mutant: the deadline is not looked at.
PageTimeoutKeeps(s, p) ==
    LET e == s.list[IndexOf(s.list, p)]
        t == [s EXCEPT !.ptimers = @ \ {p}]
    IN  IF p \notin Addrs(s.list) THEN t
        ELSE tws_dual_conn_state_handler(PageCancel(
                 [t EXCEPT !.list = Append(Without(@, p), [e EXCEPT !.timer = FALSE])]))

\* Mutant: the next search or page is left to somebody else.
PageTimeoutStops(s, p) ==
    LET e == s.list[IndexOf(s.list, p)]
        t == [s EXCEPT !.ptimers = @ \ {p}]
    IN  IF p \notin Addrs(s.list) THEN t
        ELSE PageCancel([t EXCEPT !.list = IF e.late THEN Without(@, p)
                             ELSE Append(Without(@, p), [e EXCEPT !.timer = FALSE])])

dual_conn_page_device_timeout(s, p) ==
    LET e    == s.list[IndexOf(s.list, p)]
        rest == Without(s.list, p)
        kept == IF e.late THEN rest ELSE Append(rest, [e EXCEPT !.timer = FALSE])
        t    == [s EXCEPT !.ptimers = @ \ {p}]
    IN  IF p \notin Addrs(s.list) THEN t
        ELSE tws_dual_conn_state_handler(PageCancel([t EXCEPT !.list = kept]))

close_inquiry_scan(s) ==
    LET t == [s EXCEPT !.disable = 1]
    IN  IF s.num = 1 /\ connect_dev(s) = 1 THEN write_scan_conn_enable(t, "off") ELSE t

(***************************************************************************)
(* Messages from the Bluetooth stack and the controller.                   *)
(***************************************************************************)

dual_conn_page_devices_init(s, rec) ==     \* rec: devices recorded, latest last
    LET n == Len(rec)
        t == [s EXCEPT !.list = CASE n = 0 -> <<>>
                                  [] n = 1 -> <<Fresh(rec[1])>>
                                  [] OTHER -> <<Fresh(rec[n]), Fresh(rec[n-1])>>,
                       !.ptimers = {},     \* timers of the old list find nothing
                       !.num = n,
                       !.disable = 0,
                       !.orphans = IF s.inquiry THEN @ \cup {"inquiry"} ELSE @,
                       !.inquiry = TRUE]
    IN  IF n = 1 THEN [t EXCEPT !.addr2 = rec[1]] ELSE t

FirstConnectedQuiet(s, p) ==               \* nothing left to page
    LET t == CASE s.tws = "paired" -> Listen(s)
               [] Linked(s) -> [s EXCEPT !.switch = TRUE]
               [] OTHER -> s
        Discoverable(u) ==
             IF Linked(u) THEN dual_conn_try_open_inquiry_scan(u) ELSE u
        counted == IF s.num = 1 THEN [t EXCEPT !.num = 2] ELSE t
    IN  CASE s.num = 0 -> Discoverable([t EXCEPT !.num = 1, !.addr2 = p])
          [] s.num = 1 /\ p = s.addr2 -> Discoverable(t)
          [] OTHER -> IF Slave(s) THEN counted
                      ELSE write_scan_conn_enable(counted, "page")

FirstConnected(s, p) ==
    LET t == [del_device_from_page_list(DelTimer(s), p) EXCEPT !.addr0 = p]
    IN  IF ~Slave(s) /\ ~page_list_empty(t)
        THEN [t EXCEPT !.num = IF @ = 1 /\ p # t.addr2 THEN 2 ELSE @,
                       !.timer = "page_next"]
        ELSE FirstConnectedQuiet(t, p)

\* Mutant: as TCFG_PREEMPT_CONNECTION_ENABLE has it, page scan stays open.
SecondKeepsScan(s, p) ==
    LET t == [clr_device_in_page_list(DelTimer(s))
                 EXCEPT !.addr1 = p, !.num = IF @ = 1 THEN 2 ELSE @]
        u == IF t.tws = "paired" THEN Listen(t) ELSE [t EXCEPT !.switch = TRUE]
    IN  IF Slave(s) THEN u ELSE write_scan_conn_enable(u, "page")

SecondConnected(s, p) ==
    LET t == [clr_device_in_page_list(DelTimer(s))
                 EXCEPT !.addr1 = p, !.num = IF @ = 1 THEN 2 ELSE @]
        u == IF t.tws = "paired" THEN Listen(t) ELSE [t EXCEPT !.switch = TRUE]
    IN  IF Slave(s) THEN u ELSE write_scan_conn_enable(u, "off")

\* "ok": CONNECTION_COMPLETE without error; "rejected": refused by the phone;
\* "lost": supervision timeout, role change refused or ACL already there;
\* "gone": every other error that is handled (page timeout, closed, refused key).
HciEvents == {"ok", "rejected", "lost", "gone"}

dual_conn_hci_event_handler(s, ev, p) ==
    LET t == CASE ev = "lost" -> add_device_2_page_list(s, p)
               [] ev = "rejected" -> RotatePageList(s)
               [] OTHER -> s
        Forget(a) == IF a = p THEN NoPhone ELSE a
    IN  CASE s.off \/ Slave(s) -> s
          [] ~(s.off \/ Slave(s)) /\ ev = "ok" -> del_device_from_page_list(DelTimer(s), p)
          [] OTHER -> tws_dual_conn_state_handler(
                          [t EXCEPT !.addr0 = Forget(@), !.addr1 = Forget(@)])

(***************************************************************************)
(* What the two buds tell each other.  data[0] packs the disable flag      *)
(* shifted by one and the count shifted by two; the receiver keeps bit 1   *)
(* as it is (0 or 2), so a relayed flag of 2 lands on bit 2, which is the  *)
(* lowest bit of the count.                                                *)
(***************************************************************************)

PackedCount(s) == IF s.disable = 2 /\ s.num % 2 = 0 THEN s.num + 1 ELSE s.num
PackedFlag(s) == IF s.disable = 1 THEN 2 ELSE 0

\* sent is the sender's count, kept to compare with what is received.
Info == [num : Nat, disable : {0, 2}, list : BOOLEAN, addrs : Seq(Phones), sent : Nat]

PageInfo(s) ==        \* send_page_device_addr_2_sibling
    [num |-> PackedCount(s), disable |-> PackedFlag(s), list |-> TRUE,
     addrs |-> [i \in DOMAIN s.list |-> s.list[i].addr], sent |-> s.num]
CountInfo(s) ==       \* the two bytes close_inquiry_scan sends
    [num |-> PackedCount(s), disable |-> PackedFlag(s), list |-> FALSE,
     addrs |-> <<>>, sent |-> s.num]

\* Adding distinct addresses to an empty list one by one gives this list.
RelayedList(addrs) == [i \in DOMAIN addrs |-> Fresh(addrs[i])]

\* Mutant: data[0] is stored without its mask.
RxUnmasked(s, m) ==
    LET t == [s EXCEPT !.disable = IF @ = 0 THEN 4 * m.num + m.disable ELSE @,
                       !.num = m.num]
    IN  IF Slave(s) THEN t ELSE tws_dual_conn_state_handler(t)

rx_device_info(s, m) ==
    LET t == [s EXCEPT !.disable = IF @ = 0 THEN m.disable ELSE @,
                       !.num = m.num]
        u == IF m.list /\ (Slave(s) \/ m.addrs # <<>>)
             THEN [clr_device_in_page_list(t) EXCEPT !.list = RelayedList(m.addrs)]
             ELSE t
    IN  IF Slave(s) THEN u ELSE tws_dual_conn_state_handler(u)

(***************************************************************************)
(* TWS link events: dual_conn_tws_event_handler.  role is the role the     *)
(* event was posted with, s.role what tws_api_get_role() says now.         *)
(***************************************************************************)

DetachReason == {"poweroff", "super_timeout", "remove_pairs", "other"}

\* Mutant: tws_api_auto_role_switch_disable is left to the state handler.
ConnectedMaySwitch(s, role) ==
    CASE s.off -> s
      [] ~s.off /\ role = "master" -> PageOrState(s)
      [] OTHER -> PageCancel(write_scan_conn_enable(s, "off"))

\* Mutant: the page of the new slave is not cancelled.
ConnectedSlavePages(s, role) ==
    CASE s.off -> s
      [] ~s.off /\ role = "master" -> PageOrState([s EXCEPT !.switch = FALSE])
      [] OTHER -> write_scan_conn_enable(s, "off")

TwsConnected(s, role) ==
    CASE s.off -> s
      [] ~s.off /\ role = "master" -> PageOrState([s EXCEPT !.switch = FALSE])
      [] OTHER -> PageCancel(write_scan_conn_enable(s, "off"))

DetachedNoList(s) ==
    CASE connect_dev(s) = 0 -> write_scan_conn_enable(s, "both")
      [] connect_dev(s) = 1 -> write_scan_conn_enable(s, IF s.num > 1 THEN "page" ELSE "off")
      [] OTHER -> s

\* Mutant: when its sibling powers off, the bud left alone waits for the user.
DetachedIdles(s, role, reason) ==
    LET t == PageCancel(DelTimer(s))
    IN  IF s.off \/ reason = "poweroff" THEN t ELSE tws_dual_conn_state_handler(t)

TwsDetached(s, role, reason) ==
    LET t == PageCancel(DelTimer(s))
    IN  CASE s.off -> t
          [] ~s.off /\ reason = "remove_pairs" ->
                 IF role = "master" /\ s.conn # {} THEN t
                 ELSE write_scan_conn_enable(t, "both")
          [] ~s.off /\ reason = "poweroff" -> tws_dual_conn_state_handler(t)
          [] ~s.off /\ reason = "super_timeout" ->
                 tws_dual_conn_state_handler(
                     IF role = "slave" THEN clr_device_in_page_list(t) ELSE t)
          [] OTHER -> IF page_list_empty(t) THEN DetachedNoList(Listen(t))
                      ELSE dual_conn_page_device(t)

\* Mutant: the new slave goes on scanning.
RoleSwitchedScans(s, role) == IF role = "slave" THEN PageCancel(s) ELSE s

RoleSwitched(s, role) ==
    IF role = "slave" THEN PageCancel(write_scan_conn_enable(s, "off")) ELSE s

(***************************************************************************)
(* Application messages and closing down.                                  *)
(***************************************************************************)

AppMsgs == {"paired", "unpaired", "wait_pair", "start_pair", "wait_conn", "start_conn"}

\* The first three write the handle without deleting the timer it names.
dual_conn_app_event_handler(s, msg) ==
    CASE msg = "paired" -> Overwrite(Seek(s), "create_conn")
      [] msg = "unpaired" -> Overwrite(Seek(s), "pair")
      [] msg = "wait_pair" -> Overwrite(Listen(s), "msg_wait_pair")
      [] msg = "start_pair" -> [Seek(s) EXCEPT !.timer = "msg_start_pair"]
      [] msg = "wait_conn" -> Listen(s)
      [] OTHER -> [Seek(s) EXCEPT !.timer = "msg_start_conn"]

\* APP_MSG_BT_PAGE_DEVICE.  added: the devices of the record the loop passes
\* to add_device_2_page_list, in that order.
PageDeviceLoop(s, added) ==
    LET new  == {i \in DOMAIN added : added[i] \notin Addrs(s.list)}
        room == 2 - (connect_dev(s) + Len(s.list))
    IN  /\ \A i, j \in DOMAIN added : added[i] = added[j] => i = j
        /\ \A i \in DOMAIN added : added[i] \notin {s.addr0, s.addr1}
        /\ Cardinality(new) <= room
        /\ Cardinality(new) = room => Len(added) \in new

page_device_msg_handler(s, added) ==
    LET kept == IF ~page_list_empty(s) /\ Head(s.list).addr \in ToSet(added)
                THEN <<>> ELSE s.list
        t    == [s EXCEPT !.list = kept \o RelayedList(added),
                          !.ptimers = @ \ ToSet(added)]
    IN  dual_conn_page_device(
            write_scan_conn_enable(CancelListen(CancelSeek(DelTimer(t))), "off"))

tws_dual_conn_close(s) ==
    PageCancel(write_scan_conn_enable(CancelListen(CancelSeek(DelTimer(s))), "off"))
=============================================================================
