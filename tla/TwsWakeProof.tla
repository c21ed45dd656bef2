---------------------------- MODULE TwsWakeProof ----------------------------
(***************************************************************************)
(* Proofs about TwsDualConn, for one or two buds, any phones, records and  *)
(* bounds.  A bud that has devices to page always has a timer running that *)
(* pages on, unless something is on its way that will start one; a linked  *)
(* master that has some forbids the library to swap the roles; a bud       *)
(* without a phone can be found, one with two cannot; and no phone that is *)
(* connected is listed.                                                    *)
(***************************************************************************)
EXTENDS TwsDualConnProof

(***************************************************************************)
(* Being awake.  The callbacks of the useful timers page the head of the   *)
(* list or start the next search; a page timer always does.                *)
(***************************************************************************)
Useful == {"auto_pair", "wait_conn", "page_next", "pair", "create_conn"}
Armed(s) == s.timer \in Useful \/ s.ptimers # {} \/ s.orphans \cap Useful # {}
Woken(s) == page_list_empty(s) \/ Armed(s)

\* The state handler arms a timer for a bud that is in charge, but with two phones up
\* at one that was never paired.
Full(s) == s.tws = "unpaired" /\ connect_dev(s) = 2
Bold(s) == ~Slave(s) /\ ~s.off /\ ~s.exit /\ ~Full(s)

\* What a function keeps: the bud awake, the list empty; and what wakes it.
Wakes(s, t) ==
    /\ Same(s, t)
    /\ Bold(s) /\ Woken(s) => Woken(t)
    /\ page_list_empty(s) => page_list_empty(t)
Rouses(s, t) ==
    /\ Same(s, t)
    /\ Bold(s) => Woken(t)
    /\ page_list_empty(s) => page_list_empty(t)

\* Functions on anything but the list and the timers.
Rests(s, t) ==
    /\ t \in Bud /\ Same(s, t)
    /\ t.list = s.list /\ t.ptimers = s.ptimers /\ t.timer = s.timer /\ t.orphans = s.orphans

LEMMA SameBold ==
    ASSUME NEW s, NEW t, Same(s, t) PROVE Bold(t) = Bold(s) /\ Full(t) = Full(s)
BY DEF Same, Bold, Full, Slave, connect_dev

LEMMA WakesTrans ==
    ASSUME NEW s, NEW t, NEW u, Wakes(s, t), Wakes(t, u) PROVE Wakes(s, u)
BY SameTrans, SameBold DEF Wakes

LEMMA RousesTrans ==
    ASSUME NEW s, NEW t, NEW u, Wakes(s, t), Rouses(t, u) PROVE Rouses(s, u)
BY SameTrans, SameBold DEF Wakes, Rouses

LEMMA RousesWakes == ASSUME NEW s, NEW t, Rouses(s, t) PROVE Wakes(s, t)
BY DEF Wakes, Rouses

LEMMA RestsWakes == ASSUME NEW s, NEW t, Rests(s, t) PROVE Wakes(s, t)
BY DEF Rests, Wakes, Woken, Armed, page_list_empty

LEMMA WakesSelf == ASSUME NEW s PROVE Wakes(s, s)
BY DEF Wakes, Same

LEMMA RestsTrans == ASSUME NEW s, NEW t, NEW u, Rests(s, t), Rests(t, u) PROVE Rests(s, u)
BY SameTrans DEF Rests

LEMMA RestsSelf == ASSUME NEW s \in Bud PROVE Rests(s, s)
BY DEF Rests, Same

LEMMA RestsOp ==
    ASSUME NEW s \in Bud
    PROVE  Rests(s, Seek(s)) /\ Rests(s, Listen(s))
BY KeepsOp DEF Rests, Same, Keeps, Bud, Seek, Listen

LEMMA RestsCancel ==
    ASSUME NEW s \in Bud
    PROVE  Rests(s, CancelSeek(s)) /\ Rests(s, CancelListen(s))
BY KeepsOp DEF Rests, Same, Keeps, Bud, CancelSeek, CancelListen

LEMMA RestsPage == ASSUME NEW s \in Bud PROVE Rests(s, PageCancel(s))
BY KeepsPage DEF Rests, Same, Keeps, Bud, PageCancel

LEMMA RestsScan ==
    ASSUME NEW s \in Bud, NEW m \in Scan PROVE Rests(s, write_scan_conn_enable(s, m))
BY KeepsScan DEF Rests, Same, Keeps, Bud, write_scan_conn_enable

LEMMA RestsScans ==
    ASSUME NEW s \in Bud
    PROVE  /\ Rests(s, write_scan_conn_enable(s, "off"))
           /\ Rests(s, write_scan_conn_enable(s, "page"))
           /\ Rests(s, write_scan_conn_enable(s, "both"))
BY RestsScan DEF Scan

LEMMA RestsSwitch ==
    ASSUME NEW s \in Bud, NEW v \in BOOLEAN PROVE Rests(s, [s EXCEPT !.switch = v])
BY KeepsSwitch DEF Rests, Same, Keeps, Bud

LEMMA RestsNum ==
    ASSUME NEW s \in Bud, NEW n \in Nat PROVE Rests(s, [s EXCEPT !.num = n])
BY KeepsNum DEF Rests, Same, Keeps, Bud

LEMMA RestsDisable ==
    ASSUME NEW s \in Bud, NEW n \in 0..2 PROVE Rests(s, [s EXCEPT !.disable = n])
BY KeepsDisable DEF Rests, Same, Keeps, Bud

\* A timer whose handle is written over goes on without one.
LEMMA WakesOverwrite ==
    ASSUME NEW s \in Bud, NEW h \in TimerHandle PROVE Wakes(s, Overwrite(s, h))
<1>1. /\ Overwrite(s, h).list = s.list /\ Overwrite(s, h).ptimers = s.ptimers
      /\ Same(s, Overwrite(s, h))
  BY KeepsOverwrite DEF Keeps, Same, Overwrite, Bud
<1>2. Overwrite(s, h).orphans = IF s.timer \in Callback THEN s.orphans \cup {s.timer} ELSE s.orphans
  BY DEF Overwrite, Bud
<1>3. Useful \subseteq Callback
  BY DEF Useful, Callback
<1>4. s.timer \in Useful \/ s.orphans \cap Useful # {}
          => Overwrite(s, h).orphans \cap Useful # {}
  BY <1>2, <1>3
<1>5. QED
  BY <1>1, <1>4 DEF Wakes, Woken, Armed, page_list_empty

\* A useful timer is armed.
LEMMA ArmsTimer ==
    ASSUME NEW s \in Bud, NEW h \in Useful
    PROVE  /\ Rouses(s, [s EXCEPT !.timer = h])
           /\ Rouses(s, Overwrite(s, h))
<1>1. h \in TimerHandle
  BY DEF Useful, Callback, TimerHandle
<1>2. /\ [s EXCEPT !.timer = h].timer = h /\ [s EXCEPT !.timer = h].list = s.list
      /\ Same(s, [s EXCEPT !.timer = h])
  BY DEF Same, Bud
<1>3. /\ Overwrite(s, h).timer = h /\ Overwrite(s, h).list = s.list
      /\ Same(s, Overwrite(s, h))
  BY DEF Same, Bud, Overwrite
<1>4. QED
  BY <1>2, <1>3 DEF Rouses, Woken, Armed, page_list_empty

(***************************************************************************)
(* The state handler and the pager wake a bud.                             *)
(***************************************************************************)

LEMMA StateWakes ==
    ASSUME NEW s \in Bud, Bold(s) PROVE Woken(tws_dual_conn_state_handler(s))
<1> DEFINE r == tws_dual_conn_state_handler(s)
           t == DelTimer(s)
<1>1. r \in Bud /\ r.list = s.list /\ t \in Bud /\ t.list = s.list
  BY KeepsStateHandler, KeepsDelTimer DEF Keeps
<1>2. t.tws = s.tws /\ t.role = s.role /\ t.conn = s.conn
  BY DEF DelTimer, Bud
<1>3. SUFFICES ASSUME s.list # <<>> PROVE r.timer \in Useful
  BY <1>1 DEF Woken, Armed, page_list_empty
<1>4. CASE Linked(s)
  <2>1. r = LinkedMaster(t)
    BY <1>4 DEF Bold, tws_dual_conn_state_handler, Linked
  <2> DEFINE l == LinkedScan(t)
  <2>2. l \in Bud
    BY <1>1, KeepsLinkedScan DEF Keeps
  <2> HIDE DEF t
  <2>3. r = [l EXCEPT !.timer = "wait_conn", !.switch = FALSE]
    BY <2>1, <1>1, <1>3 DEF LinkedMaster, page_list_empty
  <2> HIDE DEF l, r
  <2>4. r.timer = "wait_conn"
    BY <2>2, <2>3 DEF Bud
  <2>5. QED
    BY <2>4 DEF Useful
<1>5. CASE s.tws = "paired"
  <2>1. r = PairedAlone(t)
    BY <1>5 DEF Bold, tws_dual_conn_state_handler, Linked
  <2> HIDE DEF t
  <2> DEFINE u == CASE connect_dev(t) = 0 -> write_scan_conn_enable(Seek(t), "both")
                    [] connect_dev(t) = 1 -> OnePhoneScan(Listen(t))
                    [] OTHER -> Listen(t)
  <2>2. u \in Bud /\ u.list = t.list
    <3>1. /\ Listen(t) \in Bud /\ Listen(t).list = t.list
          /\ Seek(t) \in Bud /\ Seek(t).list = t.list
      BY <1>1, KeepsOp DEF Keeps
    <3>2. /\ write_scan_conn_enable(Seek(t), "both") \in Bud
          /\ write_scan_conn_enable(Seek(t), "both").list = t.list
          /\ OnePhoneScan(Listen(t)) \in Bud
          /\ OnePhoneScan(Listen(t)).list = t.list
      BY <3>1, KeepsScans, KeepsOpenScan DEF Keeps
    <3>3. QED
      BY <3>1, <3>2
  <2>3. r = ArmAutoPair(u)
    BY <2>1 DEF PairedAlone
  <2> HIDE DEF u, r
  <2>4. r.timer = "auto_pair"
    BY <2>2, <2>3, <1>1, <1>3 DEF ArmAutoPair, page_list_empty, Bud
  <2>5. QED
    BY <2>4 DEF Useful
<1>6. CASE s.tws = "unpaired"
  <2>1. r = Unpaired(t)
    BY <1>6 DEF Bold, tws_dual_conn_state_handler, Linked
  <2>2. connect_dev(t) # 2
    BY <1>2, <1>6 DEF Bold, Full, connect_dev
  <2> HIDE DEF t
  <2> DEFINE u == CASE connect_dev(t) = 0 -> write_scan_conn_enable(Seek(t), "both")
                    [] connect_dev(t) = 1 -> OnePhoneScan(t)
                    [] OTHER -> t
  <2>3. u \in Bud /\ u.list = t.list
    <3>1. Seek(t) \in Bud /\ Seek(t).list = t.list
      BY <1>1, KeepsOp DEF Keeps
    <3>2. /\ write_scan_conn_enable(Seek(t), "both") \in Bud
          /\ write_scan_conn_enable(Seek(t), "both").list = t.list
          /\ OnePhoneScan(t) \in Bud /\ OnePhoneScan(t).list = t.list
      BY <1>1, <3>1, KeepsScans, KeepsOpenScan DEF Keeps
    <3>3. QED
      BY <1>1, <3>2
  <2>4. r = ArmAutoPair(u)
    BY <2>1, <2>2 DEF Unpaired
  <2> HIDE DEF u, r
  <2>5. r.timer = "auto_pair"
    BY <2>3, <2>4, <1>1, <1>3 DEF ArmAutoPair, page_list_empty, Bud
  <2>6. QED
    BY <2>5 DEF Useful
<1>7. s.tws \in TwsState
  BY DEF Bud
<1>8. QED
  BY <1>4, <1>5, <1>6, <1>7 DEF TwsState, Linked

LEMMA RousesState ==
    ASSUME NEW s \in Bud PROVE Rouses(s, tws_dual_conn_state_handler(s))
<1>1. tws_dual_conn_state_handler(s).list = s.list
  BY KeepsStateHandler DEF Keeps
<1>2. Same(s, tws_dual_conn_state_handler(s))
  BY CalmStateHandler DEF Calm
<1>3. QED
  BY <1>1, <1>2, StateWakes DEF Rouses, page_list_empty

LEMMA RousesPage ==
    ASSUME NEW s, Good(s) PROVE Rouses(s, dual_conn_page_device(s))
<1> DEFINE r == dual_conn_page_device(s)
           h == Head(s.list)
<1>1. s \in Bud /\ s.list \in Seq(PageDevice) /\ s.ptimers = Timed(s.list)
  BY GoodBud DEF Good
<1>2. Same(s, r) /\ r \in Bud
  BY CalmPageDevice DEF Calm
<1>3. CASE page_list_empty(s) \/ Slave(s)
  <2>1. r = s \/ r = tws_dual_conn_state_handler(s)
    BY <1>3 DEF dual_conn_page_device
  <2>2. Rouses(s, s)
    BY <1>3 DEF Rouses, Bold, Woken, Same
  <2> HIDE DEF r
  <2>3. QED
    BY <1>1, <2>1, <2>2, RousesState DEF r
<1>4. CASE ~page_list_empty(s) /\ h.timer
  <2>1. r = s
    BY <1>4 DEF dual_conn_page_device
  <2>2. 1 \in DOMAIN s.list /\ s.list[1] = h
    BY <1>1, <1>4, HeadTailProperties, EmptySeq, LenProperties DEF page_list_empty
  <2>3. s.ptimers # {}
    BY <1>1, <1>4, <2>2 DEF Timed
  <2> HIDE DEF r
  <2>4. QED
    BY <1>2, <1>4, <2>1, <2>3 DEF Rouses, Woken, Armed, r
<1>5. CASE ~page_list_empty(s) /\ ~h.timer /\ ~Slave(s)
  <2> DEFINE u == StartPage(s, h.addr)
             w == [u EXCEPT !.list[1].timer = TRUE]
  <2>1. r = [w EXCEPT !.ptimers = w.ptimers \cup {h.addr}]
    BY <1>5 DEF dual_conn_page_device
  <2>2. DOMAIN w = DOMAIN s /\ "ptimers" \in DOMAIN s
    BY <1>1 DEF StartPage, Bud
  <2> HIDE DEF w, r
  <2>3. r.ptimers # {}
    BY <2>1, <2>2
  <2>4. QED
    BY <1>2, <1>5, <2>3 DEF Rouses, Woken, Armed, r
<1>6. h.timer \in BOOLEAN \/ page_list_empty(s)
  BY <1>1, HeadPhone DEF PageDevice
<1>7. QED
  BY <1>3, <1>4, <1>5, <1>6

LEMMA RousesPageOrState == ASSUME NEW s, Good(s) PROVE Rouses(s, PageOrState(s))
BY GoodBud, RousesState, RousesPage DEF PageOrState

LEMMA ThenPage ==
    ASSUME NEW s, NEW t, Wakes(s, t), Good(t)
    PROVE  Rouses(s, dual_conn_page_device(t)) /\ Rouses(s, PageOrState(t))
BY RousesPage, RousesPageOrState, RousesTrans

(***************************************************************************)
(* The callbacks.                                                          *)
(***************************************************************************)

LEMMA BodyRouses ==
    ASSUME NEW s, Good(s), NEW cb \in Useful PROVE Rouses(s, CallbackBody(cb, s))
<1> DEFINE l == CancelListen(s)
           k == CancelSeek(l)
           w == write_scan_conn_enable(k, "off")
           c == CancelSeek(s)
           o == write_scan_conn_enable(s, "off")
<1>1. /\ Good(l) /\ Good(k) /\ Good(w) /\ Good(c) /\ Good(o)
      /\ s \in Bud /\ l \in Bud /\ k \in Bud /\ c \in Bud
  BY GoodSetters, GoodScans, GoodBud
<1>2. Wakes(s, l) /\ Wakes(l, k) /\ Wakes(s, c) /\ Wakes(s, o) /\ Wakes(k, w)
  BY <1>1, RestsCancel, RestsScans, RestsWakes
<1>3. Wakes(s, w)
  BY <1>2, WakesTrans
<1>4. Rouses(s, tws_auto_pair_timeout(s)) /\ Rouses(s, tws_wait_conn_timeout(s))
  BY <1>1, <1>2, <1>3, ThenPage DEF tws_auto_pair_timeout, tws_wait_conn_timeout
<1>5. Rouses(s, tws_create_conn_timeout(s))
  BY <1>1, <1>2, ThenPage DEF tws_create_conn_timeout
<1>6. Rouses(s, tws_pair_timeout(s))
  <2>1. CASE page_list_empty(s)
    <3>1. Rests(c, Listen(c))
      BY <1>1, RestsOp
    <3>2. Wakes(s, Listen(c))
      BY <1>2, <3>1, RestsWakes, WakesTrans
    <3>3. Rouses(s, Listen(c))
      BY <2>1, <3>2 DEF Wakes, Rouses, Woken
    <3>4. QED
      BY <2>1, <3>3 DEF tws_pair_timeout
  <2>2. CASE ~page_list_empty(s)
    BY <1>1, <1>2, <2>2, ThenPage DEF tws_pair_timeout
  <2>3. QED
    BY <2>1, <2>2
<1>7. Rouses(s, dual_conn_page_device(s))
  BY RousesPage
<1>8. QED
  BY <1>4, <1>5, <1>6, <1>7 DEF CallbackBody, Useful

LEMMA BodyWakes ==
    ASSUME NEW s, Good(s), NEW cb PROVE Wakes(s, CallbackBody(cb, s))
<1>1. CASE cb \in Useful
  BY <1>1, BodyRouses, RousesWakes
<1>2. CASE cb \notin Useful
  <2>1. s \in Bud
    BY GoodBud
  <2>2. Wakes(s, CancelListen(s)) /\ Wakes(s, Listen(s)) /\ Wakes(s, s)
    BY <2>1, RestsOp, RestsCancel, RestsWakes, WakesSelf
  <2>3. QED
    BY <1>2, <2>2 DEF CallbackBody, Useful
<1>3. QED
  BY <1>1, <1>2

LEMMA WakesRunTimer == ASSUME NEW s, Good(s) PROVE Wakes(s, RunTimer(s))
<1> DEFINE h == IF s.timer = "wait_conn" THEN "stale" ELSE "none"
           t == [s EXCEPT !.timer = h]
           r == RunTimer(s)
<1>1. h \in TimerHandle /\ s \in Bud
  BY GoodBud DEF TimerHandle
<1>2. r = CallbackBody(s.timer, t)
  BY DEF RunTimer
<1> HIDE DEF h
<1>3. /\ t.list = s.list /\ t.ptimers = s.ptimers /\ t.orphans = s.orphans
      /\ Same(s, t) /\ Good(t)
  BY <1>1, GoodSetters DEF Same, Bud
<1> HIDE DEF t, r
<1>4. CASE s.timer \in Useful
  <2>1. Rouses(t, r)
    BY <1>2, <1>3, <1>4, BodyRouses
  <2>2. QED
    BY <2>1, <1>3, SameTrans, SameBold DEF Rouses, Wakes, page_list_empty, r
<1>5. CASE s.timer \notin Useful
  <2>1. Wakes(t, r)
    BY <1>2, <1>3, BodyWakes
  <2>2. Wakes(s, t)
    BY <1>3, <1>5 DEF Wakes, Woken, Armed, page_list_empty
  <2>3. QED
    BY <2>1, <2>2, WakesTrans DEF r
<1>6. QED
  BY <1>4, <1>5

LEMMA WakesRunOrphan == ASSUME NEW s, Good(s), NEW cb PROVE Wakes(s, RunOrphan(s, cb))
<1> DEFINE t == [s EXCEPT !.orphans = @ \ {cb}]
           u == IF cb = "wait_conn" THEN t ELSE Overwrite(t, "none")
           r == RunOrphan(s, cb)
<1>1. s \in Bud /\ s.orphans \ {cb} \in SUBSET (Callback \cup {"inquiry"})
  BY GoodBud DEF Bud
<1>2. r = CallbackBody(cb, u)
  BY DEF RunOrphan
<1>3. /\ t.list = s.list /\ t.ptimers = s.ptimers /\ t.timer = s.timer
      /\ t.orphans = s.orphans \ {cb} /\ Same(s, t) /\ Good(t)
  BY <1>1, KeepsOrphans, KeepsGood DEF Same, Bud
<1> HIDE DEF t, r
<1>4. Wakes(t, u) /\ Good(u)
  BY <1>3, GoodBud, GoodSetters, WakesOverwrite, WakesSelf DEF TimerHandle
<1> HIDE DEF u
<1>5. CASE cb \in Useful
  <2>1. Rouses(t, r)
    BY <1>2, <1>4, <1>5, BodyRouses, RousesTrans
  <2>2. QED
    BY <2>1, <1>3, SameTrans, SameBold DEF Rouses, Wakes, page_list_empty, r
<1>6. CASE cb \notin Useful
  <2>1. Wakes(t, r)
    BY <1>2, <1>4, BodyWakes, WakesTrans
  <2>2. Wakes(s, t)
    BY <1>3, <1>6 DEF Wakes, Woken, Armed, page_list_empty
  <2>3. QED
    BY <2>1, <2>2, WakesTrans DEF r
<1>7. QED
  BY <1>5, <1>6

\* Its entry moved or dropped, the page cancelled: then the state handler.
LEMMA TimeoutState ==
    ASSUME NEW s, Good(s), NEW p \in s.ptimers
    PROVE  /\ s.list # <<>>
           /\ \E u \in Bud : /\ Same(s, u) /\ u.timer = s.timer /\ u.orphans = s.orphans
                            /\ dual_conn_page_device_timeout(s, p)
                                   = tws_dual_conn_state_handler(u)
<1> DEFINE e == s.list[IndexOf(s.list, p)]
           rest == Without(s.list, p)
           kept == IF e.late THEN rest ELSE Append(rest, [e EXCEPT !.timer = FALSE])
           t == [s EXCEPT !.ptimers = @ \ {p}]
           u == [t EXCEPT !.list = kept]
           v == PageCancel(u)
           r == dual_conn_page_device_timeout(s, p)
<1>1. s \in Bud /\ s.list \in Seq(PageDevice) /\ Once(s.list) /\ Calm(s, r)
  BY GoodBud, CalmPageTimeout DEF Good
<1>2. p \in Addrs(s.list)
  BY <1>1, TimedListed DEF Good
<1>3. s.list # <<>>
  BY <1>1, <1>2, EmptySeq, LenProperties DEF Addrs
<1>4. r = tws_dual_conn_state_handler(v)
  BY <1>2 DEF dual_conn_page_device_timeout
<1>5. kept \in Seq(PageDevice)
  <2>1. IndexOf(s.list, p) \in DOMAIN s.list
    BY <1>2 DEF IndexOf, Addrs
  <2>2. e \in PageDevice
    BY <2>1, <1>1, LenProperties
  <2>3. [e EXCEPT !.timer = FALSE] \in PageDevice
    BY <2>2 DEF PageDevice
  <2>4. rest \in Seq(PageDevice)
    BY <1>1, WithoutPhone
  <2> HIDE DEF e, rest
  <2>5. QED
    BY <2>3, <2>4, AppendProperties
<1> HIDE DEF kept, r
<1>6. t \in Bud /\ t.timer = s.timer /\ t.orphans = s.orphans
  BY <1>1 DEF Bud
<1> HIDE DEF t
<1>7. u \in Bud /\ u.timer = s.timer /\ u.orphans = s.orphans
  BY <1>5, <1>6 DEF Bud
<1> HIDE DEF u
<1>8. v \in Bud /\ v.timer = s.timer /\ v.orphans = s.orphans
  BY <1>7, RestsPage DEF Rests
<1> HIDE DEF v
<1>9. Same(v, r) /\ Same(s, r)
  BY <1>1, <1>4, <1>8, CalmStateHandler DEF Calm
<1>10. Same(s, v)
  BY <1>9 DEF Same
<1>11. QED
  BY <1>3, <1>4, <1>8, <1>10 DEF r

LEMMA RousesPageTimeout ==
    ASSUME NEW s, Good(s), NEW p \in s.ptimers
    PROVE  Rouses(s, dual_conn_page_device_timeout(s, p))
<1>1. PICK u \in Bud : Same(s, u) /\ dual_conn_page_device_timeout(s, p)
                                        = tws_dual_conn_state_handler(u)
  BY TimeoutState
<1>2. Rouses(u, tws_dual_conn_state_handler(u)) /\ s.list # <<>>
  BY RousesState, TimeoutState
<1>3. QED
  BY <1>1, <1>2, SameTrans, SameBold DEF Rouses, page_list_empty

LEMMA StateAfter ==
    ASSUME NEW s, NEW u \in Bud, Same(s, u), Bold(s)
    PROVE  Woken(tws_dual_conn_state_handler(u))
BY SameBold, StateWakes

\* The end of discoverability.
LEMMA WakesInquiry ==
    ASSUME NEW s, Good(s)
    PROVE  Wakes(s, [close_inquiry_scan(s) EXCEPT
                        !.inquiry = FALSE,
                        !.orphans = IF s.inquiry THEN @ ELSE @ \ {"inquiry"}])
<1> DEFINE d == [s EXCEPT !.disable = 1]
           c == close_inquiry_scan(s)
           left == IF s.inquiry THEN c.orphans ELSE c.orphans \ {"inquiry"}
           t == [c EXCEPT !.inquiry = FALSE, !.orphans = left]
<1>1. d \in Bud /\ Rests(s, d)
  <2>1. s \in Bud /\ 1 \in 0..2
    BY GoodBud
  <2>2. QED
    BY <2>1, RestsDisable DEF Rests
<1>2. Rests(s, c)
  <2> HIDE DEF d
  <2>1. Rests(s, write_scan_conn_enable(d, "off"))
    BY <1>1, RestsScans, RestsTrans
  <2>2. QED
    BY <1>1, <2>1 DEF close_inquiry_scan, d
<1> HIDE DEF c, left
<1>3. /\ t.list = s.list /\ t.ptimers = s.ptimers /\ t.timer = s.timer /\ t.orphans = left
      /\ Same(s, t)
  BY <1>2 DEF Rests, Same, Bud
<1>4. left \cap Useful = s.orphans \cap Useful
  BY <1>2 DEF left, Rests, Useful
<1>5. Wakes(s, t)
  <2> HIDE DEF t
  <2>1. QED
    BY <1>3, <1>4 DEF Wakes, Woken, Armed, page_list_empty
<1>6. QED
  BY <1>5 DEF t, left, c

(***************************************************************************)
(* The handlers.                                                           *)
(***************************************************************************)

LEMMA EmptyDel ==
    ASSUME NEW s \in Bud, NEW p, page_list_empty(s)
    PROVE  page_list_empty(del_device_from_page_list(s, p))
<1>1. del_device_from_page_list(s, p).list = Without(s.list, p)
  BY DEF del_device_from_page_list, Bud
<1>2. p \notin Addrs(s.list)
  BY DEF Addrs, page_list_empty
<1>3. QED
  BY <1>1, <1>2 DEF Without, page_list_empty

LEMMA QuietKeepsList ==
    ASSUME NEW s \in Bud, NEW p \in Phones
    PROVE  FirstConnectedQuiet(s, p).list = s.list
<1> DEFINE t == CASE s.tws = "paired" -> Listen(s)
                  [] Linked(s) -> [s EXCEPT !.switch = TRUE]
                  [] OTHER -> s
           counted == IF s.num = 1 THEN [t EXCEPT !.num = 2] ELSE t
           one == [t EXCEPT !.num = 1]
           first == [t EXCEPT !.num = 1, !.addr2 = p]
           Discoverable(u) == IF Linked(u) THEN dual_conn_try_open_inquiry_scan(u) ELSE u
<1>1. Keeps(s, t)
  BY KeepsOp, KeepsSwitch, KeepsSelf
<1> HIDE DEF t
<1>2. Keeps(s, counted) /\ Keeps(s, one)
  <2>1. \A n \in Nat : Keeps(s, [t EXCEPT !.num = n])
    BY <1>1, KeepsNum, KeepsTrans DEF Keeps
  <2>2. QED
    BY <1>1, <2>1
<1>3. Keeps(s, first)
  <2> HIDE DEF one
  <2>1. Keeps(s, [one EXCEPT !.addr2 = p])
    BY <1>2, KeepsAddr, KeepsTrans DEF Keeps
  <2>2. first = [one EXCEPT !.addr2 = p]
    BY DEF one
  <2>3. QED
    BY <2>1, <2>2
<1> HIDE DEF first, counted
<1>4. ASSUME NEW u, Keeps(s, u) PROVE Keeps(s, Discoverable(u))
  BY <1>4, KeepsOpenScan, KeepsTrans DEF Keeps
<1>5. Keeps(s, write_scan_conn_enable(counted, "page"))
  BY <1>2, KeepsScans, KeepsTrans DEF Keeps
<1>6. Keeps(s, Discoverable(first)) /\ Keeps(s, Discoverable(t))
  BY <1>1, <1>3, <1>4
<1>7. Keeps(s, FirstConnectedQuiet(s, p))
  BY <1>2, <1>5, <1>6 DEF FirstConnectedQuiet, t, counted, first
<1>8. QED
  BY <1>7 DEF Keeps

LEMMA RousesFirst ==
    ASSUME NEW s, Good(s), NEW p \in Phones PROVE Rouses(s, FirstConnected(s, p))
<1> DEFINE k == DelTimer(s)
           d == del_device_from_page_list(k, p)
           t == [d EXCEPT !.addr0 = p]
           u == [t EXCEPT !.num = IF @ = 1 /\ p # t.addr2 THEN 2 ELSE @]
           r == FirstConnected(s, p)
<1>1. Same(s, r)
  BY CalmFirst DEF Calm
<1>2. Good(k) /\ k \in Bud /\ k.list = s.list
  BY GoodSetters, GoodBud, KeepsDelTimer DEF Keeps
<1>3. r = IF ~Slave(s) /\ ~page_list_empty(t) THEN [u EXCEPT !.timer = "page_next"]
          ELSE FirstConnectedQuiet(t, p)
  BY DEF FirstConnected
<1>4. d \in Bud /\ (page_list_empty(s) => page_list_empty(d))
  <2> HIDE DEF k
  <2>1. QED
    BY <1>2, GoodDel, GoodBud, EmptyDel DEF page_list_empty
<1> HIDE DEF d
<1>5. t \in Bud /\ t.list = d.list
  BY <1>4, KeepsAddr DEF Keeps
<1> HIDE DEF t
<1>6. FirstConnectedQuiet(t, p).list = t.list
  BY <1>5, QuietKeepsList
<1>7. [u EXCEPT !.timer = "page_next"].timer = "page_next"
  BY <1>5 DEF Bud
<1> HIDE DEF u, r
<1>8. Bold(s) => Woken(r)
  BY <1>3, <1>6, <1>7 DEF Bold, Woken, Armed, Useful, page_list_empty
<1>9. page_list_empty(s) => page_list_empty(r)
  BY <1>3, <1>4, <1>5, <1>6 DEF page_list_empty
<1>10. QED
  BY <1>1, <1>8, <1>9 DEF Rouses, r

LEMMA SecondEmpty ==
    ASSUME NEW s, Good(s), NEW p \in Phones PROVE page_list_empty(SecondConnected(s, p))
<1> DEFINE k == DelTimer(s)
           c == clr_device_in_page_list(k)
           v == [c EXCEPT !.addr1 = p]
           n == IF c.num = 1 THEN 2 ELSE c.num
           t == [c EXCEPT !.addr1 = p, !.num = IF @ = 1 THEN 2 ELSE @]
           u == IF t.tws = "paired" THEN Listen(t) ELSE [t EXCEPT !.switch = TRUE]
<1>1. Good(k) /\ k \in Bud
  BY GoodBud, GoodSetters
<1> HIDE DEF k
<1>2. c \in Bud /\ c.list = <<>>
  BY <1>1, GoodClr, GoodBud DEF clr_device_in_page_list, Bud
<1> HIDE DEF c
<1>3. t \in Bud /\ t.list = <<>>
  <2>1. v \in Bud /\ v.list = <<>> /\ n \in Nat
    BY <1>2, KeepsAddr DEF Keeps, Bud
  <2>2. t = [v EXCEPT !.num = n]
    OBVIOUS
  <2> HIDE DEF v, n, t
  <2>3. QED
    BY <2>1, <2>2, KeepsNum DEF Keeps
<1> HIDE DEF t
<1>4. u \in Bud /\ u.list = <<>>
  BY <1>3, KeepsOp, KeepsSwitch DEF Keeps
<1> HIDE DEF u
<1>5. write_scan_conn_enable(u, "off").list = <<>>
  BY <1>4, KeepsScans DEF Keeps
<1>6. QED
  BY <1>4, <1>5 DEF SecondConnected, page_list_empty, u, t, c, k

\* After a failure or a loss the state handler runs; only a loss lists a phone.
LEMMA HciState ==
    ASSUME NEW s, Good(s), NEW ev, NEW p \in Phones, ev # "ok", ~s.off, ~Slave(s)
    PROVE  \E u \in Bud : /\ Same(s, u) /\ u.timer = s.timer /\ u.orphans = s.orphans
                          /\ ev # "lost" /\ page_list_empty(s) => page_list_empty(u)
                          /\ dual_conn_hci_event_handler(s, ev, p)
                                 = tws_dual_conn_state_handler(u)
<1> DEFINE t == CASE ev = "lost" -> add_device_2_page_list(s, p)
                  [] ev = "rejected" -> RotatePageList(s)
                  [] OTHER -> s
           Forget(a) == IF a = p THEN NoPhone ELSE a
           a == IF t.addr0 = p THEN NoPhone ELSE t.addr0
           b == IF t.addr1 = p THEN NoPhone ELSE t.addr1
           v == [t EXCEPT !.addr0 = a]
           u == [t EXCEPT !.addr0 = Forget(@), !.addr1 = Forget(@)]
<1>1. s \in Bud /\ Calm(s, s)
  BY GoodBud, CalmSelf
<1>2. dual_conn_hci_event_handler(s, ev, p) = tws_dual_conn_state_handler(u)
  BY DEF dual_conn_hci_event_handler
<1>3. t \in Bud /\ Calm(s, t)
  BY <1>1, CalmLists DEF Calm
<1>4. /\ ev # "lost" /\ page_list_empty(s) => page_list_empty(t)
      /\ t.timer = s.timer /\ t.orphans = s.orphans
  BY <1>1 DEF RotatePageList, add_device_2_page_list, Bud
<1> HIDE DEF t
<1>5. /\ u \in Bud /\ Same(s, u) /\ u.list = t.list
      /\ u.timer = s.timer /\ u.orphans = s.orphans
  <2>1. a \in Phones \cup {NoPhone} /\ b \in Phones \cup {NoPhone}
    BY <1>3 DEF Bud
  <2>2. u = [v EXCEPT !.addr1 = b]
    OBVIOUS
  <2> HIDE DEF a, b, u
  <2>3. v \in Bud /\ Calm(s, v) /\ v.list = t.list
    BY <1>3, <2>1, CalmAddr, CalmTrans, KeepsAddr DEF Calm, Keeps
  <2>4. v.timer = s.timer /\ v.orphans = s.orphans
    BY <1>3, <1>4 DEF Bud
  <2> HIDE DEF v
  <2>5. Calm(s, u) /\ u.list = t.list
    BY <2>1, <2>2, <2>3, CalmAddr, CalmTrans, KeepsAddr DEF Keeps
  <2>6. u.timer = s.timer /\ u.orphans = s.orphans
    BY <2>2, <2>3, <2>4 DEF Bud
  <2>7. QED
    BY <2>5, <2>6 DEF Calm
<1> HIDE DEF u
<1>6. ev # "lost" /\ page_list_empty(s) => page_list_empty(u)
  BY <1>4, <1>5 DEF page_list_empty
<1>7. QED
  BY <1>2, <1>5, <1>6 DEF u

LEMMA HciWakes ==
    ASSUME NEW s, Good(s), NEW ev, NEW p \in Phones
    PROVE  /\ Bold(s) /\ ev # "ok" => Woken(dual_conn_hci_event_handler(s, ev, p))
           /\ page_list_empty(s) /\ ev # "lost"
                  => page_list_empty(dual_conn_hci_event_handler(s, ev, p))
<1> DEFINE r == dual_conn_hci_event_handler(s, ev, p)
           k == DelTimer(s)
<1>1. CASE s.off \/ Slave(s)
  <2>1. r = s
    BY <1>1 DEF dual_conn_hci_event_handler
  <2>2. QED
    BY <1>1, <2>1 DEF Bold
<1>2. CASE ~(s.off \/ Slave(s)) /\ ev = "ok"
  <2>1. r = del_device_from_page_list(k, p)
    BY <1>2 DEF dual_conn_hci_event_handler
  <2>2. k \in Bud /\ k.list = s.list
    BY GoodBud, KeepsDelTimer DEF Keeps
  <2> HIDE DEF k, r
  <2>3. QED
    BY <1>2, <2>1, <2>2, EmptyDel DEF page_list_empty, r
<1>3. CASE ~(s.off \/ Slave(s)) /\ ev # "ok"
  <2>1. PICK u \in Bud : /\ Same(s, u) /\ r = tws_dual_conn_state_handler(u)
                         /\ ev # "lost" /\ page_list_empty(s) => page_list_empty(u)
    BY <1>3, HciState
  <2>2. Rouses(u, r)
    BY <2>1, RousesState
  <2> HIDE DEF r
  <2>3. QED
    BY <2>1, <2>2, SameBold DEF Rouses, r
<1>4. QED
  BY <1>1, <1>2, <1>3

\* Unless the pair was removed, a bud left alone goes on.
LEMMA RousesDetached ==
    ASSUME NEW s, Good(s), NEW role, NEW reason, reason # "remove_pairs"
    PROVE  Rouses(s, TwsDetached(s, role, reason))
<1> DEFINE d == DelTimer(s)
           t == PageCancel(d)
           l == Listen(t)
           c == clr_device_in_page_list(t)
           r == TwsDetached(s, role, reason)
<1>1. Same(s, r)
  BY SameDetached
<1>2. Good(d) /\ d \in Bud /\ d.list = s.list /\ Same(s, d)
  BY GoodBud, GoodSetters, KeepsDelTimer, CalmSetters DEF Keeps, Calm
<1> HIDE DEF d
<1>3. Good(t) /\ t \in Bud /\ t.list = s.list /\ Same(s, t)
  BY <1>2, GoodBud, GoodSetters, KeepsPage, CalmSetters, SameTrans DEF Keeps, Calm
<1>4. r = CASE s.off -> t
            [] ~s.off /\ reason = "poweroff" -> tws_dual_conn_state_handler(t)
            [] ~s.off /\ reason = "super_timeout" ->
                   tws_dual_conn_state_handler(IF role = "slave" THEN c ELSE t)
            [] OTHER -> IF page_list_empty(t) THEN DetachedNoList(l)
                        ELSE dual_conn_page_device(t)
  <2>1. r = CASE s.off -> t
              [] ~s.off /\ reason = "remove_pairs" ->
                     (IF role = "master" /\ s.conn # {} THEN t
                      ELSE write_scan_conn_enable(t, "both"))
              [] ~s.off /\ reason = "poweroff" -> tws_dual_conn_state_handler(t)
              [] ~s.off /\ reason = "super_timeout" ->
                     tws_dual_conn_state_handler(IF role = "slave" THEN c ELSE t)
              [] OTHER -> IF page_list_empty(t) THEN DetachedNoList(l)
                          ELSE dual_conn_page_device(t)
    BY DEF TwsDetached, d
  <2> HIDE DEF r, t, l, c
  <2>2. QED
    BY <2>1
<1> HIDE DEF t
<1>5. l \in Bud /\ l.list = t.list
  BY <1>3, KeepsOp DEF Keeps
<1> HIDE DEF l
<1>6. DetachedNoList(l).list = t.list
  BY <1>5, KeepsScans DEF Keeps, DetachedNoList
<1>7. Good(c) /\ c \in Bud /\ c.list = <<>>
  BY <1>3, GoodClr, GoodBud DEF clr_device_in_page_list, Bud
<1> HIDE DEF c, r
<1>8. tws_dual_conn_state_handler(c).list = <<>>
  BY <1>7, KeepsStateHandler DEF Keeps
<1>9. /\ tws_dual_conn_state_handler(t).list = s.list
      /\ Bold(s) => Woken(tws_dual_conn_state_handler(t))
  BY <1>3, KeepsStateHandler, StateAfter DEF Keeps
<1>10. Bold(s) => Woken(dual_conn_page_device(t))
  BY <1>3, RousesPage, SameBold DEF Rouses
<1>11. Bold(s) => Woken(r)
  <2> SUFFICES ASSUME Bold(s) PROVE Woken(r)
    OBVIOUS
  <2>1. ~s.off
    BY DEF Bold
  <2>2. Woken(tws_dual_conn_state_handler(c))
    BY <1>8 DEF Woken, page_list_empty
  <2>3. page_list_empty(t) => Woken(DetachedNoList(l))
    BY <1>6 DEF Woken, page_list_empty
  <2>4. QED
    BY <1>4, <1>9, <1>10, <2>1, <2>2, <2>3
<1>12. page_list_empty(s) => page_list_empty(r)
  BY <1>3, <1>4, <1>6, <1>8, <1>9 DEF page_list_empty
<1>13. QED
  BY <1>1, <1>11, <1>12 DEF Rouses, r

\* The news of a link and of roles.
LEMMA WakesConnected ==
    ASSUME NEW s, Good(s), NEW role
    PROVE  /\ Wakes(s, TwsConnected(s, role))
           /\ role = "master" => Rouses(s, TwsConnected(s, role))
<1> DEFINE t == [s EXCEPT !.switch = FALSE]
           w == write_scan_conn_enable(s, "off")
<1>1. s \in Bud /\ Good(t) /\ Wakes(s, t) /\ w \in Bud /\ Wakes(s, w)
  BY GoodBud, GoodSetters, RestsSwitch, RestsScans, RestsWakes DEF Rests
<1> HIDE DEF t, w
<1>2. Rouses(s, PageOrState(t)) /\ Wakes(s, PageOrState(t))
  BY <1>1, ThenPage, RousesWakes
<1>3. Wakes(s, PageCancel(w))
  BY <1>1, RestsPage, RestsWakes, WakesTrans
<1>4. s.off => Rouses(s, s)
  BY DEF Rouses, Bold, Same
<1>5. QED
  BY <1>2, <1>3, <1>4, WakesSelf DEF TwsConnected, t, w

LEMMA WakesSwitched ==
    ASSUME NEW s, Good(s), NEW role PROVE Wakes(s, RoleSwitched(s, role))
<1>1. s \in Bud /\ Rests(s, write_scan_conn_enable(s, "off"))
  BY GoodBud, RestsScans
<1>2. Rests(write_scan_conn_enable(s, "off"), PageCancel(write_scan_conn_enable(s, "off")))
  BY <1>1, RestsPage DEF Rests
<1>3. QED
  BY <1>1, <1>2, RestsWakes, WakesTrans, WakesSelf DEF RoleSwitched

\* What the sibling sent is stored, then the state handler runs at a master.
LEMMA RxState ==
    ASSUME NEW s, Good(s), NEW m, OnceEach(m)
    PROVE  \E u \in Bud : /\ Same(s, u) /\ u.timer = s.timer /\ u.orphans = s.orphans
                          /\ rx_device_info(s, m) = IF Slave(s) THEN u
                                                    ELSE tws_dual_conn_state_handler(u)
<1> DEFINE d == IF s.disable = 0 THEN m.disable ELSE s.disable
           v == [s EXCEPT !.disable = d]
           t == [s EXCEPT !.disable = IF @ = 0 THEN m.disable ELSE @, !.num = m.num]
           c == clr_device_in_page_list(t)
           list == RelayedList(m.addrs)
           w == [c EXCEPT !.list = list]
           u == IF m.list /\ (Slave(s) \/ m.addrs # <<>>) THEN w ELSE t
<1>1. s \in Bud /\ d \in 0..2 /\ m.num \in Nat
  BY DEF Good, Bud, OnceEach, Info
<1>2. t \in Bud /\ Same(s, t) /\ t.timer = s.timer /\ t.orphans = s.orphans
  <2> HIDE DEF d
  <2>1. v \in Bud /\ Rests(s, v)
    BY <1>1, RestsDisable DEF Rests
  <2>2. t = [v EXCEPT !.num = m.num]
    BY DEF d
  <2> HIDE DEF v, t
  <2>3. Rests(v, t)
    BY <1>1, <2>1, <2>2, RestsNum
  <2>4. Rests(s, t)
    BY <2>1, <2>3, RestsTrans
  <2>5. QED
    BY <2>4 DEF Rests
<1> HIDE DEF t
<1>3. c \in Bud /\ Same(t, c) /\ c.timer = s.timer /\ c.orphans = s.orphans
  BY <1>2, EmptyList DEF clr_device_in_page_list, Same, Bud
<1>4. list \in Seq(PageDevice)
  BY RelayedDevices DEF OnceEach, Info
<1> HIDE DEF c, list
<1>5. w \in Bud /\ Same(c, w) /\ w.timer = s.timer /\ w.orphans = s.orphans
  BY <1>3, <1>4 DEF Same, Bud
<1> HIDE DEF w
<1>6. u \in Bud /\ Same(s, u) /\ u.timer = s.timer /\ u.orphans = s.orphans
  BY <1>2, <1>3, <1>5, SameTrans
<1> HIDE DEF u
<1>7. rx_device_info(s, m) = IF Slave(s) THEN u ELSE tws_dual_conn_state_handler(u)
  BY DEF rx_device_info, u, w, c, t, list
<1>8. QED
  BY <1>6, <1>7

LEMMA RxWakes ==
    ASSUME NEW s, Good(s), NEW m, OnceEach(m), Bold(s) PROVE Woken(rx_device_info(s, m))
BY RxState, StateAfter DEF Bold

LEMMA AppWakes ==
    ASSUME NEW s, Good(s), NEW msg, msg \in {"paired", "unpaired", "wait_pair", "wait_conn"}
    PROVE  /\ Wakes(s, dual_conn_app_event_handler(s, msg))
           /\ msg \in {"paired", "unpaired"} => Rouses(s, dual_conn_app_event_handler(s, msg))
<1> DEFINE k == Seek(s)
           l == Listen(s)
<1>1. k \in Bud /\ Wakes(s, k) /\ l \in Bud /\ Wakes(s, l)
  BY GoodBud, RestsOp, RestsWakes DEF Rests
<1> HIDE DEF k, l
<1>2. Rouses(s, Overwrite(k, "create_conn")) /\ Rouses(s, Overwrite(k, "pair"))
  <2>1. "create_conn" \in Useful /\ "pair" \in Useful
    BY DEF Useful
  <2>2. QED
    BY <1>1, <2>1, ArmsTimer, RousesTrans
<1>3. Wakes(s, Overwrite(l, "msg_wait_pair"))
  BY <1>1, WakesOverwrite, WakesTrans DEF TimerHandle, Callback
<1>4. QED
  BY <1>1, <1>2, <1>3, RousesWakes DEF dual_conn_app_event_handler, k, l

LEMMA PageMsgWakes ==
    ASSUME NEW s, Good(s), Len(s.list) < 2, NEW added \in Seq(Phones),
           \A i, j \in DOMAIN added : added[i] = added[j] => i = j, Bold(s)
    PROVE  Woken(page_device_msg_handler(s, added))
<1> DEFINE kept == IF ~page_list_empty(s) /\ Head(s.list).addr \in ToSet(added)
                   THEN <<>> ELSE s.list
           t == [s EXCEPT !.list = kept \o RelayedList(added), !.ptimers = @ \ ToSet(added)]
           d == DelTimer(t)
           k == CancelSeek(d)
           l == CancelListen(k)
           w == write_scan_conn_enable(l, "off")
<1>1. Good(t)
  BY GoodPageMsgList
<1>2. Same(s, t)
  BY GoodBud DEF Same, Bud
<1> HIDE DEF t
<1>3. Good(d) /\ Same(s, d)
  BY <1>1, <1>2, GoodBud, GoodSetters, CalmSetters, SameTrans DEF Calm
<1> HIDE DEF d
<1>4. Good(k) /\ Same(s, k)
  BY <1>3, GoodBud, GoodSetters, CalmSetters, SameTrans DEF Calm
<1> HIDE DEF k
<1>5. Good(l) /\ Same(s, l)
  BY <1>4, GoodBud, GoodSetters, CalmSetters, SameTrans DEF Calm
<1> HIDE DEF l
<1>6. Good(w) /\ Same(s, w)
  BY <1>5, GoodBud, GoodScans, CalmSetters, SameTrans DEF Calm
<1> HIDE DEF w
<1>7. Woken(dual_conn_page_device(w))
  BY <1>6, RousesPage, SameBold DEF Rouses
<1>8. QED
  BY <1>7 DEF page_device_msg_handler, w, l, k, d, t, kept

\* Call audio, and a deadline that passes.
LEMMA WakesEsco ==
    ASSUME NEW s \in Bud PROVE Wakes(s, tws_page_scan_deal_by_esco(s))
BY RestsCancel, RestsWakes, RousesState, RousesWakes, WakesSelf
   DEF tws_page_scan_deal_by_esco

LEMMA WakesElapse ==
    ASSUME NEW s \in Bud, NEW i \in DOMAIN s.list
    PROVE  Wakes(s, [s EXCEPT !.list[i].late = TRUE])
<1> DEFINE t == [s EXCEPT !.list[i].late = TRUE]
<1>1. /\ t.ptimers = s.ptimers /\ t.timer = s.timer /\ t.orphans = s.orphans
      /\ Same(s, t)
  BY DEF Same, Bud
<1>2. s.list # <<>>
  BY EmptySeq DEF Bud
<1>3. s.list # <<>> /\ ~page_list_empty(s)
  BY <1>2 DEF page_list_empty
<1> HIDE DEF t
<1>4. Wakes(s, t)
  BY <1>1, <1>3 DEF Wakes, Woken, Armed
<1>5. QED
  BY <1>4 DEF t
(***************************************************************************)
(* What is on its way.  A message that rearms makes its handler wake the   *)
(* bud; CONNECTION_COMPLETE stops the timer, so one of those must follow   *)
(* it.  Nothing else puts a bud to sleep.                                  *)
(***************************************************************************)
Ok(m) == m.kind = "hci" /\ m.ev = "ok"
Lost(m) == m.kind = "hci" /\ m.ev = "lost"
Second(m) == m.kind = "phone" /\ m.nth = 2
NewSlave(m) == m.kind = "tws" /\ m.ev = "switch" /\ m.role = "slave"
Rearms(m) ==
    \/ m.kind \in {"phone", "data"}
    \/ m.kind = "hci" /\ m.ev # "ok"
    \/ m.kind = "tws" /\ (m.ev = "detach" \/ (m.ev = "connected" /\ m.role = "master"))
    \/ m.kind = "app" /\ m.msg \in {"paired", "unpaired", "start_proc"}

\* A later message rearms; no later one reports a loss; a switch to slave is on its way.
Rearmed(q, i) == \E j \in DOMAIN q : j > i /\ Rearms(q[j])
NoLoss(q, i) == \A j \in DOMAIN q : j > i => ~Lost(q[j])
SwitchNews(q) == \E i \in DOMAIN q : NewSlave(q[i])

Awake(s, q) ==
    /\ Woken(s) \/ Rearmed(q, 0)
    /\ \A i \in DOMAIN q : Ok(q[i]) => Rearmed(q, i)

\* The list of a bud that was never paired, with both phones up, is empty or about to be
\* cleared: the state handler arms nothing for it.
Covered(s, q) ==
    ~s.off /\ ~s.exit /\ Full(s) =>
        \/ page_list_empty(s) /\ NoLoss(q, 0)
        \/ \E i \in DOMAIN q : Second(q[i]) /\ NoLoss(q, i)

\* The messages a queue may hold: no removed pair, no request of the user to pair or to
\* connect again, and for a bud that was never paired nothing of a sibling.
Allowed(m) ==
    /\ m.kind = "tws" => m.reason # "remove_pairs"
    /\ m.kind = "app" => m.msg \notin {"start_pair", "start_conn"}
Fits(s, q) ==
    \A i \in DOMAIN q :
        /\ Allowed(q[i])
        /\ s.tws = "unpaired" => q[i].kind \notin {"tws", "data"}

\* What excuses a sleeping bud: it is not in charge or its sibling is powering off; a
\* phone is linking up; or it is the new master and the list of the old one is on its way.
Exempt(b) ==
    \/ Slave(bud[b]) \/ bud[b].off \/ bud[b].exit
    \/ Linked(bud[b]) /\ \E c \in Buds : bud[c].off
RelayDue(b) == net[b] # <<>> \/ \E c \in Buds \ {b} : SwitchNews(queue[c])
Excused(b) == Exempt(b) \/ acl[b] # {} \/ (Linked(bud[b]) /\ RelayDue(b))

Pairing(f) ==
    \A b, c \in Buds : Linked(f[b]) =>
        Linked(f[c]) /\ (b # c => (Slave(f[b]) <=> ~Slave(f[c])))

BudWake(b) ==
    /\ Excused(b) \/ Awake(bud[b], queue[b])
    /\ Covered(bud[b], queue[b])
    /\ Fits(bud[b], queue[b])
    /\ bud[b].tws = "unpaired" => net[b] = <<>>
    /\ Cardinality(bud[b].conn \cup acl[b]) <= 2

WakeInv == Pairing(bud) /\ \A b \in Buds : BudWake(b)

\* The exceptions, each of which stalls a search, as TLC shows: a detach that removes the
\* pair arms nothing (tws_dual_conn.c:1063-1069), a page refused because the link exists
\* leaves a connected phone in the list (917-925), and a search the user asks for deletes
\* the timer that would page on (1330-1347).
Wakeful ==
    /\ {"remove_pairs", "already_exists"} \cap Faults = {}
    /\ {"start_pair", "start_conn"} \cap UserOps = {}

(***************************************************************************)
(* Queues.                                                                 *)
(***************************************************************************)

LEMMA AppendIndex ==
    ASSUME NEW S, NEW q \in Seq(S), NEW m \in S
    PROVE  /\ Len(q) \in Nat /\ DOMAIN q = 1..Len(q)
           /\ DOMAIN Append(q, m) = 1..(Len(q) + 1)
           /\ \A k \in 1..Len(q) : k \in 1..(Len(q) + 1) /\ Append(q, m)[k] = q[k]
           /\ Len(q) + 1 \in 1..(Len(q) + 1) /\ Append(q, m)[Len(q) + 1] = m
<1>1. Len(q) \in Nat /\ DOMAIN q = 1..Len(q)
  BY LenProperties
<1>2. /\ Append(q, m) \in Seq(S) /\ Len(Append(q, m)) = Len(q) + 1
      /\ \A k \in 1..Len(q) : Append(q, m)[k] = q[k]
      /\ Append(q, m)[Len(q) + 1] = m
  BY AppendProperties
<1>3. DOMAIN Append(q, m) = 1..(Len(q) + 1)
  BY <1>2, LenProperties
<1>4. QED
  BY <1>1, <1>2, <1>3

LEMMA TailIndex ==
    ASSUME NEW S, NEW q \in Seq(S), q # <<>>
    PROVE  /\ Len(q) \in Nat /\ Len(q) >= 1 /\ DOMAIN q = 1..Len(q)
           /\ DOMAIN Tail(q) = 1..(Len(q) - 1)
           /\ 1 \in DOMAIN q /\ Head(q) = q[1]
           /\ \A k \in DOMAIN Tail(q) : k + 1 \in DOMAIN q /\ Tail(q)[k] = q[k + 1]
           /\ \A k \in DOMAIN q : k = 1 \/ (k - 1 \in DOMAIN Tail(q) /\ q[k] = Tail(q)[k - 1])
<1>1. Len(q) \in Nat /\ DOMAIN q = 1..Len(q) /\ Len(q) >= 1
  BY LenProperties, EmptySeq
<1>2. /\ Tail(q) \in Seq(S) /\ Len(Tail(q)) = Len(q) - 1 /\ Head(q) = q[1]
      /\ \A k \in 1..(Len(q) - 1) : Tail(q)[k] = q[k + 1]
  BY HeadTailProperties
<1>3. DOMAIN Tail(q) = 1..(Len(q) - 1)
  BY <1>2, LenProperties
<1> DEFINE n == Len(q)
           w == Tail(q)
<1> HIDE DEF n, w
<1>4. \A k \in 1..(n - 1) : k + 1 \in 1..n
  BY <1>1 DEF n
<1>5. \A k \in 1..n : k = 1 \/ (k - 1 \in 1..(n - 1) /\ q[k] = w[k - 1])
  <2> TAKE k \in 1..n
  <2>1. k = 1 \/ (k - 1 \in 1..(n - 1) /\ (k - 1) + 1 = k)
    BY <1>1 DEF n
  <2>2. QED
    BY <2>1, <1>2 DEF n, w
<1>6. QED
  BY <1>1, <1>2, <1>3, <1>4, <1>5 DEF n, w

\* A message is posted.
LEMMA RearmedAppend ==
    ASSUME NEW S, NEW q \in Seq(S), NEW m \in S
    PROVE  /\ \A i : Rearmed(q, i) => Rearmed(Append(q, m), i)
           /\ Rearms(m) => Rearmed(Append(q, m), 0) /\ \A i \in DOMAIN q : Rearmed(Append(q, m), i)
<1> DEFINE n == Len(q)
           w == Append(q, m)
<1>1. /\ n \in Nat /\ DOMAIN q = 1..n /\ DOMAIN w = 1..(n + 1)
      /\ \A k \in 1..n : k \in 1..(n + 1) /\ w[k] = q[k]
      /\ n + 1 \in 1..(n + 1) /\ w[n + 1] = m
  BY AppendIndex
<1> HIDE DEF n, w
<1>2. \A i : Rearmed(q, i) => Rearmed(w, i)
  BY <1>1 DEF Rearmed
<1>3. n + 1 > 0 /\ \A i \in 1..n : n + 1 > i
  BY <1>1
<1>4. Rearms(m) => Rearmed(w, 0) /\ \A i \in DOMAIN q : Rearmed(w, i)
  BY <1>1, <1>3 DEF Rearmed
<1>5. QED
  BY <1>2, <1>4 DEF w

LEMMA AwakeAppend ==
    ASSUME NEW S, NEW q \in Seq(S), NEW m \in S, NEW s, ~Ok(m), Rearms(m) \/ Awake(s, q)
    PROVE  Awake(s, Append(q, m))
<1> DEFINE n == Len(q)
           w == Append(q, m)
<1>1. /\ n \in Nat /\ DOMAIN q = 1..n /\ DOMAIN w = 1..(n + 1)
      /\ \A k \in 1..n : k \in 1..(n + 1) /\ w[k] = q[k]
      /\ w[n + 1] = m
  BY AppendIndex
<1>2. /\ \A i : Rearmed(q, i) => Rearmed(w, i)
      /\ Rearms(m) => Rearmed(w, 0) /\ \A i \in DOMAIN q : Rearmed(w, i)
  BY RearmedAppend
<1> HIDE DEF n, w
<1>3. \A i \in 1..(n + 1) : i = n + 1 \/ i \in 1..n
  BY <1>1
<1>4. \A i \in DOMAIN w : Ok(w[i]) => i \in DOMAIN q /\ Ok(q[i])
  BY <1>1, <1>3
<1>5. Awake(s, w)
  BY <1>2, <1>4 DEF Awake
<1>6. QED
  BY <1>5 DEF w

LEMMA NoLossAppend ==
    ASSUME NEW S, NEW q \in Seq(S), NEW m \in S
    PROVE  /\ \A i : NoLoss(q, i) /\ ~Lost(m) => NoLoss(Append(q, m), i)
           /\ NoLoss(Append(q, m), Len(q) + 1)
<1> DEFINE n == Len(q)
           w == Append(q, m)
<1>1. /\ n \in Nat /\ DOMAIN q = 1..n /\ DOMAIN w = 1..(n + 1)
      /\ \A k \in 1..n : k \in 1..(n + 1) /\ w[k] = q[k]
      /\ w[n + 1] = m
  BY AppendIndex
<1> HIDE DEF n, w
<1>2. \A i \in 1..(n + 1) : (i = n + 1 \/ i \in 1..n) /\ ~(i > n + 1)
  BY <1>1
<1>3. \A i : NoLoss(q, i) /\ ~Lost(m) => NoLoss(w, i)
  BY <1>1, <1>2 DEF NoLoss
<1>4. NoLoss(w, n + 1)
  BY <1>1, <1>2 DEF NoLoss
<1>5. QED
  BY <1>3, <1>4 DEF w, n

LEMMA CoveredAppend ==
    ASSUME NEW S, NEW q \in Seq(S), NEW m \in S, NEW s,
           Second(m) \/ (~Lost(m) /\ Covered(s, q))
    PROVE  Covered(s, Append(q, m))
<1> DEFINE n == Len(q)
           w == Append(q, m)
<1>1. /\ DOMAIN q = 1..n /\ DOMAIN w = 1..(n + 1)
      /\ \A k \in 1..n : k \in 1..(n + 1) /\ w[k] = q[k]
      /\ n + 1 \in 1..(n + 1) /\ w[n + 1] = m
  BY AppendIndex
<1>2. /\ \A i : NoLoss(q, i) /\ ~Lost(m) => NoLoss(w, i)
      /\ NoLoss(w, n + 1)
  BY NoLossAppend
<1> HIDE DEF n, w
<1>3. CASE Second(m)
  BY <1>1, <1>2, <1>3 DEF Covered, w
<1>4. CASE ~Lost(m) /\ Covered(s, q)
  <2> SUFFICES ASSUME ~s.off, ~s.exit, Full(s), NEW i \in DOMAIN q, Second(q[i]), NoLoss(q, i)
               PROVE  \E j \in DOMAIN w : Second(w[j]) /\ NoLoss(w, j)
    BY <1>2, <1>4 DEF Covered, w
  <2>1. QED
    BY <1>1, <1>2, <1>4
<1>5. QED
  BY <1>3, <1>4

LEMMA FitsAppend ==
    ASSUME NEW S, NEW q \in Seq(S), NEW m \in S, NEW s, Fits(s, q), Allowed(m),
           s.tws = "unpaired" => m.kind \notin {"tws", "data"}
    PROVE  Fits(s, Append(q, m))
<1> DEFINE n == Len(q)
           w == Append(q, m)
<1>1. /\ n \in Nat /\ DOMAIN q = 1..n /\ DOMAIN w = 1..(n + 1)
      /\ \A k \in 1..n : k \in 1..(n + 1) /\ w[k] = q[k]
      /\ w[n + 1] = m
  BY AppendIndex
<1> HIDE DEF n, w
<1>2. \A i \in 1..(n + 1) : i = n + 1 \/ i \in 1..n
  BY <1>1
<1>3. Fits(s, w)
  BY <1>1, <1>2 DEF Fits
<1>4. QED
  BY <1>3 DEF w

LEMMA NewsKept ==
    ASSUME NEW S, NEW q \in Seq(S), NEW m \in S
    PROVE  /\ SwitchNews(q) => SwitchNews(Append(q, m))
           /\ NewSlave(m) => SwitchNews(Append(q, m))
<1> DEFINE n == Len(q)
           w == Append(q, m)
<1>1. /\ DOMAIN q = 1..n /\ DOMAIN w = 1..(n + 1)
      /\ \A k \in 1..n : k \in 1..(n + 1) /\ w[k] = q[k]
      /\ n + 1 \in 1..(n + 1) /\ w[n + 1] = m
  BY AppendIndex
<1> HIDE DEF n, w
<1>2. (SwitchNews(q) => SwitchNews(w)) /\ (NewSlave(m) => SwitchNews(w))
  BY <1>1 DEF SwitchNews
<1>3. QED
  BY <1>2 DEF w

\* The head is handled.
LEMMA RearmedTail ==
    ASSUME NEW S, NEW q \in Seq(S), q # <<>>, NEW i \in Nat, Rearmed(q, i + 1)
    PROVE  Rearmed(Tail(q), i)
<1>1. PICK j \in DOMAIN q : j > i + 1 /\ Rearms(q[j])
  BY DEF Rearmed
<1>2. j \in Nat /\ j # 1 /\ j - 1 > i
  BY <1>1, TailIndex
<1>3. j - 1 \in DOMAIN Tail(q) /\ Rearms(Tail(q)[j - 1])
  BY <1>1, <1>2, TailIndex
<1>4. QED
  BY <1>2, <1>3 DEF Rearmed

LEMMA TailAwake ==
    ASSUME NEW S, NEW q \in Seq(S), q # <<>>, NEW s, NEW t, Awake(s, q),
           ~Ok(Head(q)) /\ (Woken(s) \/ Rearms(Head(q))) => Woken(t) \/ Rearmed(Tail(q), 0)
    PROVE  Awake(t, Tail(q))
<1> DEFINE w == Tail(q)
<1>1. ASSUME NEW i \in DOMAIN w, Ok(w[i]) PROVE Rearmed(w, i)
  <2>1. i \in Nat /\ i + 1 \in DOMAIN q /\ Ok(q[i + 1])
    BY <1>1, TailIndex
  <2>2. Rearmed(q, i + 1)
    BY <2>1 DEF Awake
  <2>3. QED
    BY <2>1, <2>2, RearmedTail
<1>2. Woken(t) \/ Rearmed(w, 0)
  <2>1. CASE Ok(Head(q))
    <3>1. Rearmed(q, 0 + 1)
      BY <2>1, TailIndex DEF Awake
    <3>2. QED
      BY <3>1, RearmedTail
  <2>2. CASE ~Ok(Head(q)) /\ Woken(s)
    BY <2>2
  <2>3. CASE ~Ok(Head(q)) /\ Rearmed(q, 0)
    <3>1. PICK j \in DOMAIN q : j > 0 /\ Rearms(q[j])
      BY <2>3 DEF Rearmed
    <3>2. CASE j = 1
      BY <2>3, <3>1, <3>2, TailIndex
    <3>3. CASE j # 1
      <4>1. j > 0 + 1
        BY <3>1, <3>3, TailIndex
      <4>2. QED
        BY <3>1, <4>1, RearmedTail DEF Rearmed
    <3>4. QED
      BY <3>2, <3>3
  <2>4. QED
    BY <2>1, <2>2, <2>3 DEF Awake
<1>3. QED
  BY <1>1, <1>2 DEF Awake

LEMMA NoLossTail ==
    ASSUME NEW S, NEW q \in Seq(S), q # <<>>, NEW i \in Nat
    PROVE  /\ NoLoss(q, i + 1) => NoLoss(Tail(q), i)
           /\ NoLoss(q, i) => NoLoss(Tail(q), i)
           /\ NoLoss(q, 0) => ~Lost(Head(q))
<1>1. \A k \in DOMAIN Tail(q) : k \in Nat /\ k + 1 \in DOMAIN q /\ Tail(q)[k] = q[k + 1]
  BY TailIndex
<1>2. \A k \in DOMAIN Tail(q) : (k > i => k + 1 > i + 1 /\ k + 1 > i)
  BY <1>1
<1>3. 1 \in DOMAIN q /\ Head(q) = q[1] /\ 1 > 0
  BY TailIndex
<1>4. QED
  BY <1>1, <1>2, <1>3 DEF NoLoss

LEMMA CoveredTail ==
    ASSUME NEW S, NEW q \in Seq(S), q # <<>>, NEW s, NEW t, Covered(s, q), Same(s, t),
           Second(Head(q)) => page_list_empty(t),
           Full(s) /\ page_list_empty(s) /\ ~Lost(Head(q)) => page_list_empty(t)
    PROVE  Covered(t, Tail(q))
<1> SUFFICES ASSUME ~t.off, ~t.exit, Full(t)
             PROVE  \/ page_list_empty(t) /\ NoLoss(Tail(q), 0)
                    \/ \E i \in DOMAIN Tail(q) : Second(Tail(q)[i]) /\ NoLoss(Tail(q), i)
  BY DEF Covered
<1>1. ~s.off /\ ~s.exit /\ Full(s)
  BY SameBold DEF Same
<1>2. CASE page_list_empty(s) /\ NoLoss(q, 0)
  BY <1>1, <1>2, NoLossTail
<1>3. ASSUME NEW i \in DOMAIN q, Second(q[i]), NoLoss(q, i)
      PROVE  \/ page_list_empty(t) /\ NoLoss(Tail(q), 0)
             \/ \E j \in DOMAIN Tail(q) : Second(Tail(q)[j]) /\ NoLoss(Tail(q), j)
  <2>1. CASE i = 1
    <3>1. NoLoss(q, 0 + 1) /\ Second(Head(q))
      BY <1>3, <2>1, TailIndex
    <3>2. QED
      BY <3>1, NoLossTail
  <2>2. CASE i # 1
    <3>1. i - 1 \in DOMAIN Tail(q) /\ Second(Tail(q)[i - 1])
      BY <1>3, <2>2, TailIndex
    <3>2. i - 1 \in Nat /\ (i - 1) + 1 = i
      BY <3>1, TailIndex
    <3>3. NoLoss(Tail(q), i - 1)
      BY <1>3, <3>2, NoLossTail
    <3>4. QED
      BY <3>1, <3>3
  <2>3. QED
    BY <2>1, <2>2
<1>4. QED
  BY <1>1, <1>2, <1>3 DEF Covered

LEMMA CoveredAwake ==
    ASSUME NEW s, NEW q, Covered(s, q), ~s.off, ~s.exit, Full(s),
           \A i \in DOMAIN q : i > 0
    PROVE  Woken(s) \/ Rearmed(q, 0)
<1>1. CASE page_list_empty(s)
  BY <1>1 DEF Woken
<1>2. ASSUME NEW i \in DOMAIN q, Second(q[i]) PROVE Rearmed(q, 0)
  BY <1>2 DEF Rearmed, Second, Rearms
<1>3. QED
  BY <1>1, <1>2 DEF Covered

LEMMA FitsTail ==
    ASSUME NEW S, NEW q \in Seq(S), q # <<>>, NEW s, NEW t, Fits(s, q), t.tws = s.tws
    PROVE  /\ Fits(t, Tail(q))
           /\ Allowed(Head(q))
           /\ s.tws = "unpaired" => Head(q).kind \notin {"tws", "data"}
<1>1. /\ 1 \in DOMAIN q /\ Head(q) = q[1]
      /\ \A k \in DOMAIN Tail(q) : k + 1 \in DOMAIN q /\ Tail(q)[k] = q[k + 1]
  BY TailIndex
<1>2. QED
  BY <1>1 DEF Fits

LEMMA NewsTailKept ==
    ASSUME NEW S, NEW q \in Seq(S), q # <<>>, SwitchNews(q), ~NewSlave(Head(q))
    PROVE  SwitchNews(Tail(q))
<1>1. PICK i \in DOMAIN q : NewSlave(q[i])
  BY DEF SwitchNews
<1>2. i # 1 /\ i - 1 \in DOMAIN Tail(q) /\ Tail(q)[i - 1] = q[i]
  BY <1>1, TailIndex
<1>3. QED
  BY <1>1, <1>2 DEF SwitchNews

(***************************************************************************)
(* The pair.                                                               *)
(***************************************************************************)

LEMMA TwoBuds ==
    ASSUME NEW b \in Buds, NEW c \in Buds, b # c PROVE HasSibling /\ Sibling(b) = c
<1>1. Cardinality(Buds) # 1
  <2>1. ASSUME NEW x, Buds = {x} PROVE FALSE
    BY <2>1
  <2>2. QED
    BY <2>1, BudsAssumption, FS_Singleton
<1>2. Cardinality(Buds) = 2
  BY <1>1, BudsAssumption
<1>3. ASSUME NEW d \in Buds, d # b, d # c PROVE FALSE
  <2>1. IsFiniteSet(Buds \ {b}) /\ Cardinality(Buds \ {b}) = 1
    BY <1>2, BudsAssumption, FS_RemoveElement
  <2>2. PICK x : Buds \ {b} = {x}
    BY <2>1, FS_Singleton
  <2>3. QED
    BY <2>2, <1>3
<1>4. QED
  BY <1>2, <1>3 DEF HasSibling, Sibling

LEMMA PairingStays ==
    ASSUME Pairing(bud),
           \A c \in Buds : bud'[c].role = bud[c].role /\ bud'[c].tws = bud[c].tws
    PROVE  Pairing(bud)'
BY DEF Pairing, Slave, Linked

LEMMA RelayStays ==
    ASSUME NEW c \in Buds, RelayDue(c), net[c] # <<>> => net'[c] # <<>>,
           \A d \in Buds \ {c} : SwitchNews(queue[d]) => SwitchNews(queue'[d])
    PROVE  RelayDue(c)'
BY DEF RelayDue

LEMMA ExcusedStays ==
    ASSUME NEW c \in Buds, Excused(c),
           bud'[c].role = bud[c].role, bud'[c].tws = bud[c].tws,
           bud[c].exit => bud'[c].exit,
           \A d \in Buds : bud[d].off => bud'[d].off,
           acl[c] # {} => acl'[c] # {},
           Linked(bud[c]) /\ RelayDue(c) => RelayDue(c)' \/ Exempt(c)'
    PROVE  Excused(c)'
BY DEF Excused, Exempt, Slave, Linked

\* What is sent: data arrives at a linked sibling, and nowhere else.
NetGrows ==
    \A c \in Buds : /\ net[c] # <<>> => net'[c] # <<>>
                    /\ bud[c].tws = "unpaired" => net'[c] = net[c]

LEMMA NetStays == ASSUME net' = net PROVE NetGrows
BY DEF NetGrows

LEMMA SendGrows ==
    ASSUME IInv, Pairing(bud), NEW b \in Buds, NEW m, OnceEach(m), Send(b, m)
    PROVE  /\ NetGrows
           /\ \A c \in Buds : c # b /\ Linked(bud[b]) => net'[c] # <<>>
<1>1. CASE Linked(bud[b]) /\ HasSibling
  <2> DEFINE d == Sibling(b)
             w == Append(net[d], m)
  <2>1. d \in Buds
    BY <1>1, SiblingBud
  <2>2. net' = [net EXCEPT ![d] = w]
    BY <1>1 DEF Send
  <2>3. w # <<>>
    <3>1. net[d] \in Seq(GoodSync) /\ m \in GoodSync
      BY <2>1, GoodSyncIff DEF IInv
    <3>2. Len(w) = Len(net[d]) + 1 /\ Len(net[d]) \in Nat /\ w \in Seq(GoodSync)
      BY <3>1, AppendProperties, LenProperties
    <3> HIDE DEF w
    <3>3. QED
      BY <3>2, EmptySeq
  <2>4. Linked(bud[d])
    BY <1>1, <2>1 DEF Pairing
  <2>5. \A c \in Buds : c # b => c = d
    BY TwoBuds
  <2> HIDE DEF d, w
  <2>6. \A c \in Buds : net'[c] = IF c = d THEN w ELSE net[c]
    BY <2>1, <2>2 DEF IInv
  <2>7. NetGrows
    BY <2>3, <2>4, <2>6 DEF NetGrows, Linked
  <2>8. \A c \in Buds : c # b => net'[c] # <<>>
    BY <2>3, <2>5, <2>6
  <2>9. QED
    BY <2>7, <2>8
<1>2. CASE ~(Linked(bud[b]) /\ HasSibling)
  <2>1. net' = net
    BY <1>2 DEF Send
  <2>2. \A c \in Buds : c # b => HasSibling
    BY TwoBuds
  <2>3. QED
    BY <1>2, <2>1, <2>2, NetStays
<1>3. QED
  BY <1>1, <1>2

(***************************************************************************)
(* The head of b's queue is handled.                                       *)
(***************************************************************************)

\* What the handler has to do with the bud for the message it is called with.
Tends(s, m, t) ==
    /\ Same(s, t)
    /\ Bold(s) /\ ~Ok(m) /\ (Woken(s) \/ Rearms(m)) => Woken(t)
    /\ Second(m) => page_list_empty(t)
    /\ Full(s) /\ page_list_empty(s) /\ ~Lost(m) => page_list_empty(t)

LEMMA TendsQueue ==
    ASSUME NEW S, NEW q \in Seq(S), q # <<>>, NEW s, NEW t, Tends(s, Head(q), t),
           Covered(s, q)
    PROVE  /\ Covered(t, Tail(q))
           /\ ~Slave(s) /\ ~s.off /\ ~s.exit /\ Awake(s, q) => Awake(t, Tail(q))
<1>1. Same(s, t) /\ Covered(t, Tail(q))
  BY CoveredTail DEF Tends
<1>2. ASSUME ~Slave(s), ~s.off, ~s.exit, Awake(s, q),
             ~Ok(Head(q)), Woken(s) \/ Rearms(Head(q))
      PROVE  Woken(t) \/ Rearmed(Tail(q), 0)
  <2>1. CASE Bold(s)
    BY <1>2, <2>1 DEF Tends
  <2>2. CASE ~Bold(s)
    <3>1. Full(t) /\ ~t.off /\ ~t.exit
      BY <1>1, <1>2, <2>2, SameBold DEF Bold, Same
    <3>2. \A i \in DOMAIN Tail(q) : i > 0
      BY TailIndex
    <3>3. QED
      BY <1>1, <3>1, <3>2, CoveredAwake
  <2>3. QED
    BY <2>1, <2>2
<1>3. QED
  BY <1>1, <1>2, TailAwake

LEMMA HandleWake ==
    ASSUME IInv, WakeInv, NEW b \in Buds, queue[b] # <<>>, NEW t,
           Tends(bud[b], Head(queue[b]), t), Handled(b, t), acl' = acl, NetGrows,
           NewSlave(Head(queue[b])) /\ ~bud[b].off /\ Linked(bud[b])
               => \A c \in Buds : c # b => net'[c] # <<>>
    PROVE  WakeInv'
<1> DEFINE s == bud[b]
           q == queue[b]
<1>1. \A c \in Buds : /\ bud'[c] = IF c = b THEN t ELSE bud[c]
                      /\ queue'[c] = IF c = b THEN Tail(q) ELSE queue[c]
  BY DEF Handled, IInv
<1>2. q \in Seq(GoodMessage) /\ Same(s, t) /\ BudWake(b)
  BY DEF IInv, Tends, WakeInv
<1>3. \A c \in Buds : bud'[c].role = bud[c].role /\ bud'[c].tws = bud[c].tws
                      /\ bud'[c].off = bud[c].off /\ bud'[c].exit = bud[c].exit
                      /\ bud'[c].conn = bud[c].conn
  BY <1>1, <1>2 DEF Same
<1>4. Pairing(bud)'
  BY <1>3, PairingStays DEF WakeInv
<1>5. ASSUME NEW c \in Buds, Linked(bud[c]), RelayDue(c) PROVE RelayDue(c)' \/ Exempt(c)'
  <2>1. CASE c # b /\ NewSlave(Head(q))
    <3>1. Linked(bud[b])
      BY <1>5 DEF WakeInv, Pairing
    <3>2. CASE bud[b].off
      <4>1. Linked(bud[c])' /\ bud'[b].off
        BY <1>3, <1>5, <3>2 DEF Linked
      <4>2. QED
        BY <4>1 DEF Exempt
    <3>3. CASE ~bud[b].off
      BY <2>1, <3>1, <3>3 DEF RelayDue
    <3>4. QED
      BY <3>2, <3>3
  <2>2. CASE c = b \/ ~NewSlave(Head(q))
    <3>1. ASSUME NEW d \in Buds \ {c}, SwitchNews(queue[d]) PROVE SwitchNews(queue'[d])
      BY <1>1, <1>2, <2>2, <3>1, NewsTailKept
    <3>2. net[c] # <<>> => net'[c] # <<>>
      BY DEF NetGrows
    <3>3. QED
      BY <1>5, <3>1, <3>2, RelayStays
  <2>3. QED
    BY <2>1, <2>2
<1>6. ASSUME NEW c \in Buds, Excused(c) PROVE Excused(c)'
  BY <1>3, <1>5, <1>6, ExcusedStays
<1>7. ASSUME NEW c \in Buds PROVE (bud[c].tws = "unpaired" => net[c] = <<>>)'
                                  /\ (Cardinality(bud[c].conn \cup acl[c]) <= 2)'
  BY <1>3 DEF WakeInv, BudWake, NetGrows
<1>8. ASSUME NEW c \in Buds, c # b PROVE BudWake(c)'
  BY <1>1, <1>6, <1>7, <1>8 DEF WakeInv, BudWake
<1>9. Covered(t, Tail(q)) /\ (~Slave(s) /\ ~s.off /\ ~s.exit /\ Awake(s, q) => Awake(t, Tail(q)))
  BY <1>2, TendsQueue DEF BudWake
<1>10. Fits(t, Tail(q))
  BY <1>2, FitsTail DEF BudWake, Same
<1>11. Excused(b)' \/ Awake(t, Tail(q))
  BY <1>2, <1>6, <1>9 DEF BudWake, Excused, Exempt
<1>12. BudWake(b)'
  BY <1>1, <1>7, <1>9, <1>10, <1>11 DEF BudWake
<1>13. QED
  BY <1>4, <1>8, <1>12 DEF WakeInv

LEMMA WakesTends ==
    ASSUME NEW s, NEW t, NEW m, Wakes(s, t), Rearms(m) /\ ~Ok(m) => Rouses(s, t), ~Second(m)
    PROVE  Tends(s, m, t)
BY DEF Wakes, Rouses, Tends

LEMMA TendsPhone ==
    ASSUME NEW s, Good(s), NEW m \in Message, m.kind = "phone"
    PROVE  Tends(s, m, IF m.nth = 1 THEN FirstConnected(s, m.addr)
                       ELSE SecondConnected(s, m.addr))
<1>1. m.addr \in Phones /\ m.nth \in {1, 2}
  BY DEF Message
<1>2. Rouses(s, FirstConnected(s, m.addr))
  BY <1>1, RousesFirst
<1>3. m.nth = 1 => Tends(s, m, FirstConnected(s, m.addr))
  BY <1>2, RousesWakes, WakesTends DEF Second
<1>4. Tends(s, m, SecondConnected(s, m.addr))
  BY <1>1, SecondEmpty, CalmSecond DEF Tends, Woken, Calm
<1>5. QED
  BY <1>3, <1>4

LEMMA TendsHci ==
    ASSUME NEW s, Good(s), NEW m \in Message, m.kind = "hci"
    PROVE  Tends(s, m, dual_conn_hci_event_handler(s, m.ev, m.addr))
<1> DEFINE t == dual_conn_hci_event_handler(s, m.ev, m.addr)
<1>1. m.addr \in Phones
  BY DEF Message
<1>2. Same(s, t)
  BY <1>1, CalmHci DEF Calm
<1>3. /\ Bold(s) /\ m.ev # "ok" => Woken(t)
      /\ page_list_empty(s) /\ m.ev # "lost" => page_list_empty(t)
  BY <1>1, HciWakes
<1> HIDE DEF t
<1>4. QED
  BY <1>2, <1>3 DEF Tends, Ok, Lost, Second, t

LEMMA TendsTws ==
    ASSUME NEW s, Good(s), NEW m \in Message, m.kind = "tws"
    PROVE  /\ m.ev = "connected" => Tends(s, m, TwsConnected(s, m.role))
           /\ m.ev = "detach" /\ Allowed(m) => Tends(s, m, TwsDetached(s, m.role, m.reason))
           /\ m.ev = "switch" => Tends(s, m, RoleSwitched(s, m.role))
<1>1. m.ev = "connected" => Tends(s, m, TwsConnected(s, m.role))
  <2>1. /\ Wakes(s, TwsConnected(s, m.role))
        /\ m.role = "master" => Rouses(s, TwsConnected(s, m.role))
    BY WakesConnected
  <2>2. QED
    BY <2>1, WakesTends DEF Rearms, Second
<1>2. m.ev = "detach" /\ Allowed(m) => Tends(s, m, TwsDetached(s, m.role, m.reason))
  <2>1. Allowed(m) => Rouses(s, TwsDetached(s, m.role, m.reason))
    BY RousesDetached DEF Allowed
  <2>2. QED
    BY <2>1, RousesWakes, WakesTends DEF Second
<1>3. m.ev = "switch" => Tends(s, m, RoleSwitched(s, m.role))
  <2>1. Wakes(s, RoleSwitched(s, m.role))
    BY WakesSwitched
  <2>2. QED
    BY <2>1, WakesTends DEF Rearms, Second
<1>4. QED
  BY <1>1, <1>2, <1>3

LEMMA TendsData ==
    ASSUME NEW s, Good(s), NEW m, m.kind = "data", OnceEach(m.info), s.tws # "unpaired"
    PROVE  Tends(s, m, rx_device_info(s, m.info))
<1> DEFINE t == rx_device_info(s, m.info)
<1>1. Same(s, t)
  BY CalmRx DEF Calm
<1>2. Bold(s) => Woken(t)
  BY RxWakes
<1> HIDE DEF t
<1>3. QED
  BY <1>1, <1>2 DEF Tends, Second, Full, t

LEMMA TendsApp ==
    ASSUME NEW s, Good(s), NEW m, m.kind = "app", Allowed(m), m.msg \in AppMsgs
    PROVE  Tends(s, m, dual_conn_app_event_handler(s, m.msg))
<1> DEFINE t == dual_conn_app_event_handler(s, m.msg)
<1>1. m.msg \in {"paired", "unpaired", "wait_pair", "wait_conn"}
  BY DEF Allowed, AppMsgs
<1>2. Wakes(s, t) /\ (m.msg \in {"paired", "unpaired"} => Rouses(s, t))
  BY <1>1, AppWakes
<1> HIDE DEF t
<1>3. Rearms(m) => Rouses(s, t)
  BY <1>1, <1>2 DEF Rearms
<1>4. ~Second(m)
  BY DEF Second
<1>5. QED
  BY <1>2, <1>3, <1>4, WakesTends DEF t

LEMMA WakePageDevice ==
    ASSUME IInv, NEW b \in Buds, HandlePageDevice(b)
    PROVE  \E t : Tends(bud[b], Head(queue[b]), t) /\ Handled(b, t)
<1> DEFINE s == bud[b]
           m == Head(queue[b])
<1>1. Good(s) /\ s \in Bud /\ m.kind = "app" /\ m.msg = "page_device"
  BY BudGood DEF HandlePageDevice, Waiting
<1>2. CASE connect_dev(s) + Len(s.list) >= 2
  <2>1. Handled(b, s)
    BY <1>2 DEF HandlePageDevice
  <2>2. ~Rearms(m) /\ ~Second(m)
    BY <1>1 DEF Rearms, Second
  <2>3. Tends(s, m, s)
    BY <2>2, WakesSelf, WakesTends
  <2>4. QED
    BY <2>1, <2>3
<1>3. CASE ~(connect_dev(s) + Len(s.list) >= 2)
  <2>1. PICK added \in UNION {[1..n -> Phones] : n \in 0..3} :
            /\ PageDeviceLoop(s, added)
            /\ Handled(b, page_device_msg_handler(s, added))
    BY <1>3 DEF HandlePageDevice
  <2> DEFINE t == page_device_msg_handler(s, added)
  <2>2. /\ added \in Seq(Phones) /\ Len(s.list) < 2
        /\ \A i, j \in DOMAIN added : added[i] = added[j] => i = j
    BY <2>1, <1>3, <1>1, LoopFacts
  <2>3. Same(s, t) /\ (Bold(s) => Woken(t))
    BY <1>1, <2>2, CalmPageMsg, PageMsgWakes DEF Calm
  <2>4. ~Full(s)
    <3>1. Len(s.list) \in Nat
      BY <1>1, GoodBud, LenProperties
    <3>2. QED
      BY <1>3, <3>1 DEF Full
  <2> HIDE DEF t
  <2>5. Tends(s, m, t)
    BY <1>1, <2>3, <2>4 DEF Tends, Second
  <2>6. QED
    BY <2>1, <2>5 DEF t
<1>4. QED
  BY <1>2, <1>3

LEMMA WakeStartProc ==
    ASSUME IInv, WakeInv, NEW b \in Buds, HandleStartProc(b) PROVE WakeInv'
<1> DEFINE s == bud[b]
           q == queue[b]
           m == App(IF s.tws = "unpaired" THEN "unpaired" ELSE "paired")
           w == Append(Tail(q), m)
<1>1. /\ q # <<>> /\ Head(q).kind = "app" /\ Head(q).msg = "start_proc"
      /\ bud' = bud /\ net' = net /\ acl' = acl
      /\ queue' = [queue EXCEPT ![b] = w]
  BY DEF HandleStartProc, Waiting
<1>2. q \in Seq(GoodMessage) /\ Tail(q) \in Seq(GoodMessage) /\ m \in GoodMessage /\ BudWake(b)
  BY <1>1, QueueSeq, QueueHead, GoodMessages DEF AppMsgs, WakeInv
<1>3. Rearms(m) /\ ~Ok(m) /\ ~Lost(m) /\ Allowed(m) /\ m.kind \notin {"tws", "data"}
  BY DEF App, Rearms, Ok, Lost, Allowed
<1> HIDE DEF m
<1>4. Covered(s, Tail(q)) /\ Fits(s, Tail(q))
  BY <1>1, <1>2, CoveredTail, FitsTail DEF Same, Second, BudWake
<1>5. Awake(s, w) /\ Covered(s, w) /\ Fits(s, w)
  BY <1>2, <1>3, <1>4, AwakeAppend, CoveredAppend, FitsAppend
<1>6. SwitchNews(q) => SwitchNews(w)
  BY <1>1, <1>2, NewsTailKept, NewsKept DEF NewSlave
<1> HIDE DEF w
<1>7. \A c \in Buds : queue'[c] = IF c = b THEN w ELSE queue[c]
  BY <1>1 DEF IInv
<1>8. ASSUME NEW c \in Buds, Excused(c) PROVE Excused(c)'
  <2>1. \A d \in Buds : SwitchNews(queue[d]) => SwitchNews(queue'[d])
    BY <1>6, <1>7
  <2>2. RelayDue(c) => RelayDue(c)'
    BY <1>1, <2>1, RelayStays
  <2>3. QED
    BY <1>1, <1>8, <2>2, ExcusedStays
<1>9. \A c \in Buds : BudWake(c)'
  BY <1>1, <1>5, <1>7, <1>8 DEF WakeInv, BudWake
<1>10. QED
  BY <1>1, <1>9 DEF WakeInv

LEMMA WakeHandle ==
    ASSUME IInv, WakeInv, NEW b \in Buds, HandleMessage(b) PROVE WakeInv'
<1> DEFINE m == Head(queue[b])
           s == bud[b]
<1>1. Good(s) /\ Pairing(bud) /\ BudWake(b)
  BY BudGood DEF WakeInv
<1>2. queue[b] # <<>> => Allowed(m) /\ (s.tws = "unpaired" => m.kind \notin {"tws", "data"})
  BY <1>1, QueueSeq, FitsTail DEF BudWake
<1>3. CASE HandlePhone(b)
  <2> DEFINE t == IF m.nth = 1 THEN FirstConnected(s, m.addr) ELSE SecondConnected(s, m.addr)
  <2>1. Waiting(b, "phone") /\ Handled(b, t) /\ net' = net /\ acl' = acl
    BY <1>3 DEF HandlePhone
  <2>2. queue[b] # <<>> /\ m.kind = "phone" /\ m \in Message
    BY <2>1, WaitingHead
  <2>3. Tends(s, m, t)
    BY <1>1, <2>2, TendsPhone
  <2> HIDE DEF t
  <2>4. QED
    BY <2>1, <2>2, <2>3, NetStays, HandleWake DEF NewSlave
<1>4. CASE HandleHci(b)
  <2> DEFINE t == dual_conn_hci_event_handler(s, m.ev, m.addr)
  <2>1. Waiting(b, "hci") /\ Handled(b, t) /\ net' = net /\ acl' = acl
    BY <1>4 DEF HandleHci
  <2>2. queue[b] # <<>> /\ m.kind = "hci" /\ m \in Message
    BY <2>1, WaitingHead
  <2>3. Tends(s, m, t)
    BY <1>1, <2>2, TendsHci
  <2> HIDE DEF t
  <2>4. QED
    BY <2>1, <2>2, <2>3, NetStays, HandleWake DEF NewSlave
<1>5. CASE HandleConnected(b)
  <2> DEFINE t == TwsConnected(s, m.role)
  <2>1. /\ Waiting(b, "tws") /\ m.ev = "connected" /\ Handled(b, t) /\ acl' = acl
        /\ Send(b, PageInfo(t)) \/ net' = net
    BY <1>5 DEF HandleConnected
  <2>2. queue[b] # <<>> /\ m.kind = "tws" /\ m \in Message
    BY <2>1, WaitingHead
  <2>3. Tends(s, m, t) /\ OnceEach(PageInfo(t))
    BY <1>1, <2>1, <2>2, TendsTws, GoodTwsConnected, GoodInfo
  <2> HIDE DEF t
  <2>4. NetGrows
    BY <1>1, <2>1, <2>3, SendGrows, NetStays
  <2>5. QED
    BY <2>1, <2>2, <2>3, <2>4, HandleWake DEF NewSlave
<1>6. CASE HandleDetach(b)
  <2> DEFINE t == TwsDetached(s, m.role, m.reason)
  <2>1. Waiting(b, "tws") /\ m.ev = "detach" /\ Handled(b, t) /\ acl' = acl /\ net' = net
    BY <1>6 DEF HandleDetach
  <2>2. queue[b] # <<>> /\ m.kind = "tws" /\ m \in Message
    BY <2>1, WaitingHead
  <2>3. Tends(s, m, t)
    BY <1>1, <1>2, <2>1, <2>2, TendsTws
  <2> HIDE DEF t
  <2>4. QED
    BY <2>1, <2>2, <2>3, NetStays, HandleWake DEF NewSlave
<1>7. CASE HandleSwitch(b)
  <2> DEFINE t == RoleSwitched(s, m.role)
  <2>1. /\ Waiting(b, "tws") /\ m.ev = "switch" /\ Handled(b, t) /\ acl' = acl
        /\ IF m.role = "slave" /\ ~s.off THEN Send(b, PageInfo(t)) ELSE net' = net
    BY <1>7 DEF HandleSwitch
  <2>2. queue[b] # <<>> /\ m.kind = "tws" /\ m \in Message
    BY <2>1, WaitingHead
  <2>3. Tends(s, m, t) /\ OnceEach(PageInfo(t))
    BY <1>1, <2>1, <2>2, TendsTws, GoodRoleSwitched, GoodInfo
  <2> HIDE DEF t
  <2>4. NetGrows
    BY <1>1, <2>1, <2>3, SendGrows, NetStays
  <2>5. NewSlave(m) /\ ~s.off /\ Linked(s) => \A c \in Buds : c # b => net'[c] # <<>>
    BY <1>1, <2>1, <2>3, SendGrows DEF NewSlave
  <2>6. QED
    BY <2>1, <2>2, <2>3, <2>4, <2>5, HandleWake
<1>8. CASE HandleData(b)
  <2> DEFINE t == rx_device_info(s, m.info)
  <2>1. Waiting(b, "data") /\ Handled(b, t) /\ net' = net /\ acl' = acl
    BY <1>8 DEF HandleData
  <2>2. queue[b] # <<>> /\ m.kind = "data" /\ OnceEach(m.info)
    BY <2>1, WaitingHead DEF GoodMessage
  <2>3. Tends(s, m, t)
    BY <1>1, <1>2, <2>2, TendsData
  <2> HIDE DEF t
  <2>4. QED
    BY <2>1, <2>2, <2>3, NetStays, HandleWake DEF NewSlave
<1>9. CASE HandleApp(b)
  <2> DEFINE t == dual_conn_app_event_handler(s, m.msg)
  <2>1. Waiting(b, "app") /\ m.msg \in AppMsgs /\ Handled(b, t) /\ net' = net /\ acl' = acl
    BY <1>9 DEF HandleApp
  <2>2. queue[b] # <<>> /\ m.kind = "app"
    BY <2>1, WaitingHead
  <2>3. Tends(s, m, t)
    BY <1>1, <1>2, <2>1, <2>2, TendsApp
  <2> HIDE DEF t
  <2>4. QED
    BY <2>1, <2>2, <2>3, NetStays, HandleWake DEF NewSlave
<1>10. CASE HandleStartProc(b)
  BY <1>10, WakeStartProc
<1>11. CASE HandlePageDevice(b)
  <2>1. queue[b] # <<>> /\ m.kind = "app" /\ net' = net /\ acl' = acl
    BY <1>11 DEF HandlePageDevice, Waiting
  <2>2. PICK t : Tends(s, m, t) /\ Handled(b, t)
    BY <1>11, WakePageDevice
  <2>3. QED
    BY <2>1, <2>2, NetStays, HandleWake DEF NewSlave
<1>12. QED
  BY <1>3, <1>4, <1>5, <1>6, <1>7, <1>8, <1>9, <1>10, <1>11 DEF HandleMessage

(***************************************************************************)
(* Timers, and other calls of b's own.                                     *)
(***************************************************************************)

LEMMA CoveredTurn ==
    ASSUME NEW s, NEW t, NEW q, Covered(s, q), Same(s, t),
           page_list_empty(s) => page_list_empty(t)
    PROVE  Covered(t, q)
BY SameBold DEF Covered, Same

LEMMA TurnQueue ==
    ASSUME NEW S, NEW q \in Seq(S), NEW s, NEW t, Wakes(s, t), Covered(s, q)
    PROVE  /\ Covered(t, q)
           /\ ~Slave(s) /\ ~s.off /\ ~s.exit /\ Awake(s, q) => Awake(t, q)
<1>1. Same(s, t) /\ Covered(t, q)
  BY CoveredTurn DEF Wakes
<1>2. \A i \in DOMAIN q : i > 0
  BY LenProperties
<1>3. ASSUME ~Slave(s), ~s.off, ~s.exit, Woken(s) PROVE Woken(t) \/ Rearmed(q, 0)
  <2>1. CASE Bold(s)
    BY <1>3, <2>1 DEF Wakes
  <2>2. CASE ~Bold(s)
    <3>1. Full(t) /\ ~t.off /\ ~t.exit
      BY <1>1, <1>3, <2>2, SameBold DEF Bold, Same
    <3>2. QED
      BY <1>1, <1>2, <3>1, CoveredAwake
  <2>3. QED
    BY <2>1, <2>2
<1>4. QED
  BY <1>1, <1>3 DEF Awake

LEMMA TurnWake ==
    ASSUME IInv, WakeInv, NEW b \in Buds, NEW t, Wakes(bud[b], t),
           bud' = [bud EXCEPT ![b] = t], queue' = queue, acl' = acl, NetGrows
    PROVE  WakeInv'
<1> DEFINE s == bud[b]
           q == queue[b]
<1>1. \A c \in Buds : bud'[c] = IF c = b THEN t ELSE bud[c]
  BY DEF IInv
<1>2. q \in Seq(GoodMessage) /\ Same(s, t) /\ BudWake(b)
  BY DEF IInv, Wakes, WakeInv
<1>3. \A c \in Buds : bud'[c].role = bud[c].role /\ bud'[c].tws = bud[c].tws
                      /\ bud'[c].off = bud[c].off /\ bud'[c].exit = bud[c].exit
                      /\ bud'[c].conn = bud[c].conn
  BY <1>1, <1>2 DEF Same
<1>4. Pairing(bud)'
  BY <1>3, PairingStays DEF WakeInv
<1>5. ASSUME NEW c \in Buds, Excused(c) PROVE Excused(c)'
  <2>1. RelayDue(c) => RelayDue(c)'
    BY RelayStays DEF NetGrows
  <2>2. QED
    BY <1>3, <1>5, <2>1, ExcusedStays
<1>6. ASSUME NEW c \in Buds PROVE (bud[c].tws = "unpaired" => net[c] = <<>>)'
                                  /\ (Cardinality(bud[c].conn \cup acl[c]) <= 2)'
  BY <1>3 DEF WakeInv, BudWake, NetGrows
<1>7. ASSUME NEW c \in Buds, c # b PROVE BudWake(c)'
  BY <1>1, <1>5, <1>6, <1>7 DEF WakeInv, BudWake
<1>8. Covered(t, q) /\ (~Slave(s) /\ ~s.off /\ ~s.exit /\ Awake(s, q) => Awake(t, q))
  BY <1>2, TurnQueue DEF BudWake
<1>9. Fits(t, q)
  BY <1>2 DEF BudWake, Same, Fits
<1>10. Excused(b)' \/ Awake(t, q)
  BY <1>2, <1>5, <1>8 DEF BudWake, Excused, Exempt
<1>11. BudWake(b)'
  BY <1>1, <1>6, <1>8, <1>9, <1>10 DEF BudWake
<1>12. QED
  BY <1>4, <1>7, <1>11 DEF WakeInv

(***************************************************************************)
(* Messages posted from outside.                                           *)
(***************************************************************************)

LEMMA NewsPosted ==
    ASSUME IInv, NEW d \in Buds, NEW m \in GoodMessage,
           queue'[d] = queue[d] \/ queue'[d] = Append(queue[d], m), SwitchNews(queue[d])
    PROVE  SwitchNews(queue'[d])
BY QueueSeq, NewsKept

\* A message that rearms, for b or for the pair.
LEMMA PostedWake ==
    ASSUME IInv, WakeInv, NEW b \in Buds, NEW t,
           t.role = bud[b].role, t.tws = bud[b].tws, t.off = bud[b].off, bud[b].exit => t.exit,
           bud' = [bud EXCEPT ![b] = t],
           NEW B \in SUBSET Peers(b), b \in B,
           NEW m \in GoodMessage, Rearms(m), m.kind # "tws", Allowed(m),
           m.kind = "data" => bud[b].tws # "unpaired",
           \A c \in Buds : queue'[c] = IF c \in B THEN Append(queue[c], m) ELSE queue[c],
           Covered(t, Append(queue[b], m)),
           \A c \in Buds : c # b => acl'[c] = acl[c] /\ net'[c] = net[c],
           net[b] = <<>> => net'[b] = <<>>,
           Cardinality(t.conn \cup acl'[b]) <= 2
    PROVE  WakeInv'
<1>1. \A c \in Buds : bud'[c] = IF c = b THEN t ELSE bud[c]
  BY DEF IInv
<1>2. \A c \in Buds : queue[c] \in Seq(GoodMessage) /\ BudWake(c)
  BY DEF IInv, WakeInv
<1>3. \A c \in Buds : bud'[c].role = bud[c].role /\ bud'[c].tws = bud[c].tws
                      /\ bud'[c].off = bud[c].off /\ (bud[c].exit => bud'[c].exit)
  BY <1>1
<1>4. Pairing(bud)'
  BY <1>3, PairingStays DEF WakeInv
<1>5. ~Ok(m)
  BY DEF Ok, Rearms
<1>6. ASSUME NEW c \in Buds, c # b, c \in B PROVE BudWake(c)'
  <2>1. Linked(bud[c])
    BY <1>6 DEF Peers, WakeInv, Pairing
  <2>2. Awake(bud[c], Append(queue[c], m))
    BY <1>2, <1>5, AwakeAppend
  <2>3. Covered(bud[c], Append(queue[c], m))
    BY <2>1 DEF Covered, Full, Linked
  <2>4. Fits(bud[c], Append(queue[c], m))
    BY <1>2, <2>1, FitsAppend DEF BudWake, Linked
  <2>5. bud'[c] = bud[c] /\ queue'[c] = Append(queue[c], m)
    BY <1>1, <1>6
  <2>6. (bud[c].tws = "unpaired" => net[c] = <<>>)' /\ (Cardinality(bud[c].conn \cup acl[c]) <= 2)'
    BY <1>2, <1>6, <2>5 DEF BudWake
  <2>7. QED
    BY <2>2, <2>3, <2>4, <2>5, <2>6 DEF BudWake
<1>7. ASSUME NEW c \in Buds, c # b, c \notin B PROVE BudWake(c)'
  <2>1. bud'[c] = bud[c] /\ queue'[c] = queue[c]
    BY <1>1, <1>7
  <2>2. \A d \in Buds : SwitchNews(queue[d]) => SwitchNews(queue'[d])
    BY NewsPosted
  <2>3. RelayDue(c) => RelayDue(c)'
    BY <1>7, <2>2, RelayStays
  <2>4. Excused(c) => Excused(c)'
    BY <1>3, <1>7, <2>3, ExcusedStays
  <2>5. (bud[c].tws = "unpaired" => net[c] = <<>>)' /\ (Cardinality(bud[c].conn \cup acl[c]) <= 2)'
    BY <1>2, <1>7, <2>1 DEF BudWake
  <2>6. QED
    BY <1>2, <2>1, <2>4, <2>5 DEF BudWake
<1>8. BudWake(b)'
  <2>1. bud'[b] = t /\ queue'[b] = Append(queue[b], m)
    BY <1>1
  <2>2. Awake(t, Append(queue[b], m))
    BY <1>2, <1>5, AwakeAppend
  <2>3. Fits(t, queue[b])
    BY <1>2 DEF BudWake, Fits
  <2>4. t.tws = "unpaired" => m.kind \notin {"tws", "data"}
    OBVIOUS
  <2>5. Fits(t, Append(queue[b], m))
    BY <1>2, <2>3, <2>4, FitsAppend
  <2>6. (bud[b].tws = "unpaired" => net[b] = <<>>)'
    BY <1>2, <2>1 DEF BudWake
  <2>7. QED
    BY <2>1, <2>2, <2>5, <2>6 DEF BudWake
<1>9. QED
  BY <1>4, <1>6, <1>7, <1>8 DEF WakeInv

LEMMA WakeClock == ASSUME IInv, WakeInv, NEW b \in Buds, Clock(b) PROVE WakeInv'
<1> DEFINE s == bud[b]
<1>1. Good(s) /\ s \in Bud /\ Pairing(bud) /\ BudWake(b)
  BY BudGood DEF WakeInv
<1>2. CASE Timeout(b)
  <2>1. Wakes(s, RunTimer(s))
    BY <1>1, WakesRunTimer
  <2>2. bud' = [bud EXCEPT ![b] = RunTimer(s)] /\ queue' = queue /\ acl' = acl /\ net' = net
    BY <1>2 DEF Timeout
  <2>3. QED
    BY <2>1, <2>2, NetStays, TurnWake
<1>3. CASE OrphanTimeout(b)
  <2>1. PICK cb : bud' = [bud EXCEPT ![b] = RunOrphan(s, cb)]
    BY <1>3 DEF OrphanTimeout
  <2>2. Wakes(s, RunOrphan(s, cb)) /\ queue' = queue /\ acl' = acl /\ net' = net
    BY <1>1, <1>3, WakesRunOrphan DEF OrphanTimeout
  <2>3. QED
    BY <2>1, <2>2, NetStays, TurnWake
<1>4. CASE InquiryTimeout(b)
  <2> DEFINE t == [close_inquiry_scan(s) EXCEPT
                       !.inquiry = FALSE,
                       !.orphans = IF s.inquiry THEN @ ELSE @ \ {"inquiry"}]
  <2>1. /\ bud' = [bud EXCEPT ![b] = t] /\ queue' = queue /\ acl' = acl
        /\ Send(b, CountInfo(t)) \/ net' = net
    BY <1>4 DEF InquiryTimeout
  <2>2. Wakes(s, t)
    BY <1>1, WakesInquiry
  <2> HIDE DEF t
  <2>3. OnceEach(CountInfo(t))
    <3>1. IInv'
      BY <1>4, InquiryStep
    <3>2. bud'[b] = t /\ bud'[b] \in GoodState
      BY <2>1, <3>1 DEF IInv
    <3>3. QED
      BY <3>2, GoodStateIff, GoodInfo
  <2>4. NetGrows
    BY <1>1, <2>1, <2>3, SendGrows, NetStays
  <2>5. QED
    BY <2>1, <2>2, <2>4, TurnWake
<1>5. CASE Receive(b)
  <2> DEFINE m == Data(Head(net[b]))
  <2>1. /\ Post(b, m) /\ bud' = bud /\ acl' = acl /\ net[b] # <<>>
        /\ net' = [net EXCEPT ![b] = Tail(net[b])]
    BY <1>5 DEF Receive
  <2>2. m \in GoodMessage
    BY <2>1, GoodMessages, HeadTailProperties DEF IInv
  <2>3. Rearms(m) /\ m.kind = "data" /\ Allowed(m) /\ ~Lost(m)
    BY DEF Data, Rearms, Allowed, Lost
  <2> HIDE DEF m
  <2>4. Covered(s, Append(queue[b], m))
    BY <1>1, <2>2, <2>3, QueueSeq, CoveredAppend DEF BudWake
  <2>5. \A c \in Buds : queue'[c] = IF c \in {b} THEN Append(queue[c], m) ELSE queue[c]
    BY <2>1 DEF Post, IInv
  <2>6. bud' = [bud EXCEPT ![b] = s] /\ {b} \in SUBSET Peers(b) /\ b \in {b}
    BY <2>1 DEF IInv, Peers
  <2>7. s.tws # "unpaired" /\ (Cardinality(s.conn \cup acl'[b]) <= 2)
    BY <1>1, <2>1 DEF BudWake
  <2>8. \A c \in Buds : c # b => acl'[c] = acl[c] /\ net'[c] = net[c]
    BY <2>1 DEF IInv
  <2> DEFINE B == {b}
  <2> HIDE DEF B, s
  <2>9. /\ \A c \in Buds : queue'[c] = IF c \in B THEN Append(queue[c], m) ELSE queue[c]
        /\ B \in SUBSET Peers(b) /\ b \in B
    BY <2>5, <2>6 DEF B
  <2>10. QED
    BY <2>1, <2>2, <2>3, <2>4, <2>6, <2>7, <2>8, <2>9, PostedWake DEF s
<1>6. ASSUME NEW p \in Phones, PageTimeout(b, p) PROVE WakeInv'
  <2>1. p \in s.ptimers /\ queue' = queue /\ acl' = acl /\ net' = net
        /\ bud' = [bud EXCEPT ![b] = dual_conn_page_device_timeout(s, p)]
    BY <1>6 DEF PageTimeout
  <2>2. Wakes(s, dual_conn_page_device_timeout(s, p))
    BY <1>1, <2>1, RousesPageTimeout, RousesWakes
  <2>3. QED
    BY <2>1, <2>2, NetStays, TurnWake
<1>7. ASSUME NEW p \in Phones, Elapse(b, p) PROVE WakeInv'
  <2>1. PICK i \in DOMAIN s.list :
            bud' = [bud EXCEPT ![b] = [s EXCEPT !.list[i].late = TRUE]]
    BY <1>7 DEF Elapse, IInv
  <2> DEFINE t == [s EXCEPT !.list[i].late = TRUE]
  <2>2. Wakes(s, t)
    BY <1>1, WakesElapse
  <2>3. queue' = queue /\ acl' = acl /\ net' = net
    BY <1>7 DEF Elapse
  <2> HIDE DEF t
  <2>4. QED
    BY <2>1, <2>2, <2>3, NetStays, TurnWake DEF t
<1>8. QED
  BY <1>2, <1>3, <1>4, <1>5, <1>6, <1>7 DEF Clock

(***************************************************************************)
(* The phones.                                                             *)
(***************************************************************************)

\* What the phones change at a bud keeps its list and its flags.
LEMMA PhonesKeep ==
    ASSUME NEW s \in Bud, NEW c, NEW x
    PROVE  /\ Same(s, [s EXCEPT !.page = x])
           /\ [s EXCEPT !.page = x].list = s.list
           /\ [s EXCEPT !.conn = c].role = s.role /\ [s EXCEPT !.conn = c].tws = s.tws
           /\ [s EXCEPT !.conn = c].off = s.off /\ [s EXCEPT !.conn = c].exit = s.exit
           /\ [s EXCEPT !.conn = c].list = s.list /\ [s EXCEPT !.conn = c].conn = c
BY DEF Same, Bud

LEMMA PostedPeers ==
    ASSUME NEW B, NEW m, PostAll(B, m)
    PROVE  \A c \in Buds : queue'[c] = IF c \in B THEN Append(queue[c], m) ELSE queue[c]
BY DEF PostAll

\* Up to two phones at a bud: sets of them are finite.
LEMMA FewPhones ==
    ASSUME IInv, NEW b \in Buds
    PROVE  /\ IsFiniteSet(bud[b].conn) /\ IsFiniteSet(acl[b])
           /\ IsFiniteSet(bud[b].conn \cup acl[b])
           /\ Cardinality(bud[b].conn \cup acl[b]) \in Nat
<1>1. bud[b].conn \in SUBSET Phones /\ acl[b] \in SUBSET Phones
      /\ (bud[b].conn \cup acl[b]) \in SUBSET Phones
  BY BudAcl
<1>2. QED
  BY <1>1, PhonesAssumption, FS_Subset, FS_CardinalityType

LEMMA WakeLink ==
    ASSUME IInv, WakeInv, NEW b \in Buds, NEW p \in Phones, PhoneLink(b, p) PROVE WakeInv'
<1> DEFINE s == bud[b]
           x == IF s.page = p THEN NoPhone ELSE s.page
           t == [s EXCEPT !.page = x]
           m == Hci("ok", p)
<1>1. /\ bud' = [bud EXCEPT ![b] = t] /\ acl' = [acl EXCEPT ![b] = acl[b] \cup {p}]
      /\ PostAll(Peers(b), m) /\ ~Slave(s) /\ net' = net
      /\ Cardinality(s.conn \cup acl[b]) < 2
  BY DEF PhoneLink
<1>2. Same(s, t) /\ t.list = s.list
  <2>1. s \in Bud
    BY BudGood
  <2> HIDE DEF x, s
  <2>2. QED
    BY <2>1, PhonesKeep
<1> HIDE DEF t
<1>3. \A c \in Buds : /\ bud'[c] = IF c = b THEN t ELSE bud[c]
                      /\ acl'[c] = IF c = b THEN acl[b] \cup {p} ELSE acl[c]
                      /\ queue'[c] = IF c \in Peers(b) THEN Append(queue[c], m) ELSE queue[c]
  BY <1>1, PostedPeers DEF IInv
<1>4. m \in GoodMessage /\ ~Lost(m) /\ Allowed(m) /\ m.kind \notin {"tws", "data"}
  BY GoodMessages DEF HciEvents, Hci, Lost, Allowed
<1> HIDE DEF m
<1>5. \A c \in Buds : queue[c] \in Seq(GoodMessage) /\ BudWake(c)
  BY DEF IInv, WakeInv
<1>6. \A c \in Buds : bud'[c].role = bud[c].role /\ bud'[c].tws = bud[c].tws
                      /\ bud'[c].off = bud[c].off /\ bud'[c].exit = bud[c].exit
                      /\ bud'[c].conn = bud[c].conn
  BY <1>2, <1>3 DEF Same
<1>7. Pairing(bud)'
  BY <1>6, PairingStays DEF WakeInv
<1>8. ASSUME NEW c \in Buds
      PROVE  /\ Covered(bud'[c], queue[c]) /\ Fits(bud'[c], queue[c])
             /\ Covered(bud'[c], Append(queue[c], m)) /\ Fits(bud'[c], Append(queue[c], m))
  <2>1. Covered(bud'[c], queue[c])
    BY <1>2, <1>3, <1>5, CoveredTurn DEF BudWake, page_list_empty
  <2>2. Fits(bud'[c], queue[c])
    BY <1>5, <1>6 DEF BudWake, Fits
  <2>3. QED
    BY <1>4, <1>5, <2>1, <2>2, CoveredAppend, FitsAppend
<1>9. ASSUME NEW c \in Buds
      PROVE  /\ (bud[c].tws = "unpaired" => net[c] = <<>>)'
             /\ (Cardinality(bud[c].conn \cup acl[c]) <= 2)'
  <2>1. (bud[c].tws = "unpaired" => net[c] = <<>>)'
    BY <1>1, <1>5, <1>6 DEF BudWake
  <2>2. CASE c # b
    BY <1>3, <1>5, <2>1, <2>2 DEF BudWake
  <2>3. CASE c = b
    <3>1. bud'[b].conn \cup acl'[b] = (s.conn \cup acl[b]) \cup {p}
      BY <1>3, <1>6
    <3> DEFINE k == s.conn \cup acl[b]
    <3>2. IsFiniteSet(k) /\ Cardinality(k) \in Nat /\ Cardinality(k) < 2
      BY <1>1, FewPhones
    <3> HIDE DEF k
    <3>3. Cardinality(k \cup {p}) <= 2
      BY <3>2, FS_AddElement
    <3>4. QED
      BY <2>1, <2>3, <3>1, <3>3 DEF k
  <2>4. QED
    BY <2>2, <2>3
<1>10. ASSUME NEW c \in Buds PROVE Excused(c)' \/ Awake(bud'[c], queue'[c])
  <2>1. CASE c = b
    BY <1>3, <2>1 DEF Excused
  <2>2. CASE c # b /\ c \in Peers(b)
    <3>1. Slave(bud[c])
      BY <1>1, <2>2 DEF Peers, WakeInv, Pairing
    <3>2. QED
      BY <1>6, <3>1 DEF Excused, Exempt, Slave
  <2>3. CASE c # b /\ c \notin Peers(b)
    <3>1. \A d \in Buds : SwitchNews(queue[d]) => SwitchNews(queue'[d])
      BY <1>3, <1>4, NewsPosted
    <3>2. RelayDue(c) => RelayDue(c)'
      BY <1>1, <3>1, RelayStays
    <3>3. Excused(c) => Excused(c)'
      BY <1>3, <1>6, <2>3, <3>2, ExcusedStays
    <3>4. QED
      BY <1>3, <1>5, <2>3, <3>3 DEF BudWake
  <2>4. QED
    BY <2>1, <2>2, <2>3
<1>11. \A c \in Buds : BudWake(c)'
  BY <1>3, <1>8, <1>9, <1>10 DEF BudWake
<1>12. QED
  BY <1>7, <1>11 DEF WakeInv

LEMMA WakeUp ==
    ASSUME IInv, WakeInv, NEW b \in Buds, NEW p \in Phones, PhoneUp(b, p) PROVE WakeInv'
<1> DEFINE s == bud[b]
           c == s.conn \cup {p}
           t == [s EXCEPT !.conn = c]
           n == IF s.conn = {} THEN 1 ELSE 2
           m == PhoneEvent(n, p)
           B == Peers(b)
<1>1. /\ bud' = [bud EXCEPT ![b] = t] /\ acl' = [acl EXCEPT ![b] = acl[b] \ {p}]
      /\ p \in acl[b] /\ PostAll(B, m) /\ net' = net
  BY DEF PhoneUp
<1>2. /\ t.role = s.role /\ t.tws = s.tws /\ t.off = s.off /\ t.exit = s.exit
      /\ t.conn = c
  <2>1. s \in Bud
    BY BudGood
  <2> HIDE DEF c, s
  <2>2. QED
    BY <2>1, PhonesKeep
<1> HIDE DEF t
<1>3. Full(t) => n = 2
  <2>1. s.conn = {} => Cardinality(c) = 1
    BY FS_Singleton
  <2>2. QED
    BY <1>2, <2>1 DEF Full, connect_dev
<1>4. m \in GoodMessage /\ Rearms(m) /\ m.kind = "phone" /\ Allowed(m) /\ (n = 2 => Second(m))
  BY GoodMessages DEF PhoneEvent, Rearms, Allowed, Second
<1> HIDE DEF m, n
<1>5. Covered(t, Append(queue[b], m))
  BY <1>3, <1>4, QueueSeq, CoveredAppend DEF Covered
<1>6. \A d \in Buds : d # b => acl'[d] = acl[d] /\ net'[d] = net[d]
  BY <1>1 DEF IInv
<1>7. Cardinality(t.conn \cup acl'[b]) <= 2
  <2>1. acl'[b] = acl[b] \ {p}
    BY <1>1 DEF IInv
  <2>2. t.conn \cup acl'[b] = s.conn \cup acl[b]
    BY <1>1, <1>2, <2>1
  <2>3. QED
    BY <2>2 DEF WakeInv, BudWake
<1>8. \A d \in Buds : queue'[d] = IF d \in B THEN Append(queue[d], m) ELSE queue[d]
  BY <1>1, PostedPeers
<1>9. B \in SUBSET Peers(b) /\ b \in B
  BY DEF Peers
<1> HIDE DEF B
<1>10. QED
  BY <1>1, <1>2, <1>4, <1>5, <1>6, <1>7, <1>8, <1>9, PostedWake

LEMMA WakeDown ==
    ASSUME IInv, WakeInv, NEW b \in Buds, NEW p \in Phones, NEW ev \in {"lost", "gone"},
           PhoneDown(b, p, ev)
    PROVE  WakeInv'
<1> DEFINE s == bud[b]
           c == s.conn \ {p}
           t == [s EXCEPT !.conn = c]
           m == Hci(ev, p)
           B == Peers(b)
<1>1. /\ bud' = [bud EXCEPT ![b] = t] /\ acl' = [acl EXCEPT ![b] = acl[b] \ {p}]
      /\ p \in s.conn \cup acl[b] /\ PostAll(B, m) /\ net' = net
  BY DEF PhoneDown
<1>2. /\ t.role = s.role /\ t.tws = s.tws /\ t.off = s.off /\ t.exit = s.exit
      /\ t.conn = c
  BY BudGood, PhonesKeep
<1> HIDE DEF t
<1> DEFINE k == s.conn \cup acl[b]
<1>3. /\ IsFiniteSet(k) /\ Cardinality(k) \in Nat /\ Cardinality(k) <= 2
      /\ c \in SUBSET k \ {p} /\ t.conn \cup acl'[b] = k \ {p} /\ p \in k
  <2>1. acl'[b] = acl[b] \ {p}
    BY <1>1 DEF IInv
  <2>2. QED
    BY <1>1, <1>2, <2>1, FewPhones DEF WakeInv, BudWake
<1> HIDE DEF k, c
<1>4. IsFiniteSet(k \ {p}) /\ Cardinality(k \ {p}) \in Nat /\ Cardinality(k \ {p}) < 2
  <2>1. IsFiniteSet(k \ {p}) /\ Cardinality(k \ {p}) = Cardinality(k) - 1
    BY <1>3, FS_RemoveElement
  <2>2. Cardinality(k \ {p}) \in Nat
    BY <2>1, FS_CardinalityType
  <2>3. QED
    BY <1>3, <2>1, <2>2
<1>5. ~Full(t)
  <2>1. Cardinality(c) <= Cardinality(k \ {p}) /\ Cardinality(c) \in Nat
    BY <1>3, <1>4, FS_Subset, FS_CardinalityType
  <2>2. QED
    BY <1>2, <1>4, <2>1 DEF Full, connect_dev
<1>6. m \in GoodMessage /\ Rearms(m) /\ m.kind = "hci" /\ Allowed(m)
  BY GoodMessages DEF HciEvents, Hci, Rearms, Allowed
<1> HIDE DEF m
<1>7. Covered(t, Append(queue[b], m))
  BY <1>5 DEF Covered
<1>8. \A d \in Buds : d # b => acl'[d] = acl[d] /\ net'[d] = net[d]
  BY <1>1 DEF IInv
<1>9. \A d \in Buds : queue'[d] = IF d \in B THEN Append(queue[d], m) ELSE queue[d]
  BY <1>1, PostedPeers
<1>10. B \in SUBSET Peers(b) /\ b \in B
  BY DEF Peers
<1> HIDE DEF B
<1>11. Cardinality(t.conn \cup acl'[b]) <= 2
  BY <1>3, <1>4
<1>12. QED
  BY <1>1, <1>2, <1>6, <1>7, <1>8, <1>9, <1>10, <1>11, PostedWake

\* A page that fails because the link is up already is one of the exceptions.
LEMMA WakePageFails ==
    ASSUME IInv, WakeInv, Wakeful, NEW b \in Buds, NEW ev \in {"lost", "gone", "rejected"},
           PageFails(b, ev)
    PROVE  WakeInv'
<1> DEFINE s == bud[b]
           t == [s EXCEPT !.page = NoPhone]
           m == Hci(ev, s.page)
           B == {b}
<1>1. /\ s.page # NoPhone /\ bud' = [bud EXCEPT ![b] = t] /\ Post(b, m)
      /\ net' = net /\ acl' = acl /\ ev # "lost" /\ BudWake(b)
  BY DEF PageFails, Wakeful, WakeInv
<1>2. Same(s, t) /\ t.list = s.list
  BY BudGood, PhonesKeep
<1> HIDE DEF t
<1>3. m \in GoodMessage /\ Rearms(m) /\ m.kind = "hci" /\ Allowed(m) /\ ~Lost(m)
  <2>1. s.page \in Phones
    BY <1>1, BudGood DEF Bud
  <2>2. QED
    BY <1>1, <2>1, GoodMessages DEF HciEvents, Hci, Rearms, Allowed, Lost
<1> HIDE DEF m
<1>4. Covered(t, queue[b])
  BY <1>1, <1>2, CoveredTurn DEF BudWake, page_list_empty
<1>5. Covered(t, Append(queue[b], m))
  BY <1>3, <1>4, QueueSeq, CoveredAppend
<1>6. Cardinality(t.conn \cup acl'[b]) <= 2
  BY <1>1, <1>2 DEF BudWake, Same
<1>7. \A d \in Buds : queue'[d] = IF d \in B THEN Append(queue[d], m) ELSE queue[d]
  BY <1>1 DEF Post, IInv
<1>8. B \in SUBSET Peers(b) /\ b \in B
  BY DEF Peers
<1> HIDE DEF B
<1>9. /\ t.role = s.role /\ t.tws = s.tws /\ t.off = s.off /\ t.exit = s.exit
  BY <1>2 DEF Same
<1>10. \A d \in Buds : d # b => acl'[d] = acl[d] /\ net'[d] = net[d]
  BY <1>1
<1>11. QED
  BY <1>1, <1>3, <1>5, <1>6, <1>7, <1>8, <1>9, <1>10, PostedWake

(***************************************************************************)
(* The user and other modules.                                             *)
(***************************************************************************)

LEMMA WakeUserMsg ==
    ASSUME IInv, WakeInv, Wakeful, NEW b \in Buds, UserMsg(b) PROVE WakeInv'
<1>1. PICK x \in UserOps \cap (AppMsgs \cup {"start_proc", "page_device"}) : Post(b, App(x))
  BY DEF UserMsg
<1> DEFINE m == App(x)
<1>2. bud' = bud /\ net' = net /\ acl' = acl
  BY DEF UserMsg
<1>3. m \in GoodMessage /\ ~Ok(m) /\ ~Lost(m) /\ Allowed(m) /\ m.kind \notin {"tws", "data"}
  <2>1. x \notin {"start_pair", "start_conn"}
    BY <1>1 DEF Wakeful
  <2>2. QED
    BY <1>1, <2>1, GoodMessages DEF App, Ok, Lost, Allowed
<1>4. \A c \in Buds : queue'[c] = IF c = b THEN Append(queue[b], m) ELSE queue[c]
  BY <1>1 DEF Post, IInv
<1> HIDE DEF m
<1>5. \A c \in Buds : queue[c] \in Seq(GoodMessage) /\ BudWake(c)
  BY DEF IInv, WakeInv
<1>6. ASSUME NEW c \in Buds, Excused(c) PROVE Excused(c)'
  <2>1. \A d \in Buds : SwitchNews(queue[d]) => SwitchNews(queue'[d])
    BY <1>3, <1>4, NewsPosted
  <2>2. RelayDue(c) => RelayDue(c)'
    BY <1>2, <2>1, RelayStays
  <2>3. QED
    BY <1>2, <1>6, <2>2, ExcusedStays
<1>7. /\ Covered(bud[b], Append(queue[b], m))
      /\ Fits(bud[b], Append(queue[b], m))
      /\ Awake(bud[b], queue[b]) => Awake(bud[b], Append(queue[b], m))
  BY <1>3, <1>5, CoveredAppend, FitsAppend, AwakeAppend DEF BudWake
<1>8. \A c \in Buds : BudWake(c)'
  BY <1>2, <1>4, <1>5, <1>6, <1>7 DEF BudWake
<1>9. QED
  BY <1>2, <1>8 DEF WakeInv

LEMMA WakeUser ==
    ASSUME IInv, WakeInv, NEW b \in Buds, Refresh(b) \/ Esco(b) PROVE WakeInv'
<1> DEFINE s == bud[b]
<1>1. s \in Bud
  BY BudGood
<1>2. CASE Refresh(b)
  <2>1. /\ bud' = [bud EXCEPT ![b] = tws_dual_conn_state_handler(s)]
        /\ queue' = queue /\ acl' = acl /\ net' = net
    BY <1>2 DEF Refresh
  <2>2. Wakes(s, tws_dual_conn_state_handler(s))
    BY <1>1, RousesState, RousesWakes
  <2>3. QED
    BY <2>1, <2>2, NetStays, TurnWake
<1>3. CASE Esco(b)
  <2> DEFINE x == [s EXCEPT !.esco = ~s.esco]
             t == IF x.off /\ ~x.esco THEN x ELSE tws_page_scan_deal_by_esco(x)
  <2>1. bud' = [bud EXCEPT ![b] = t] /\ queue' = queue /\ acl' = acl /\ net' = net
    BY <1>3 DEF Esco
  <2>2. (~s.esco) \in BOOLEAN
    BY <1>1 DEF Bud
  <2>3. x \in Bud /\ Wakes(s, x)
    <3>1. Rests(s, x)
      BY <1>1, <2>2 DEF Rests, Same, Bud
    <3>2. QED
      BY <3>1, RestsWakes DEF Rests
  <2> HIDE DEF x
  <2>4. Wakes(s, t)
    BY <2>3, WakesEsco, WakesTrans
  <2>5. QED
    BY <2>1, <2>4, NetStays, TurnWake
<1>4. QED
  BY <1>2, <1>3

\* A bud that closes down is excused; what it sends wakes nobody less.
LEMMA WakeClose ==
    ASSUME IInv, WakeInv, NEW b \in Buds, SoftPoweroff(b) \/ ModeExit(b) PROVE WakeInv'
<1> DEFINE s == bud[b]
           x == [s EXCEPT !.off = TRUE]
           y == [s EXCEPT !.exit = TRUE]
           u == tws_dual_conn_close(x)
           v == tws_dual_conn_close(y)
<1>1. Good(x) /\ Good(y) /\ s \in Bud
  BY BudGood, GoodOutside
<1>2. /\ x.role = s.role /\ x.tws = s.tws /\ x.conn = s.conn /\ x.off /\ x.exit = s.exit
      /\ y.role = s.role /\ y.tws = s.tws /\ y.conn = s.conn /\ y.exit /\ y.off = s.off
  <2> HIDE DEF s
  <2>1. QED
    BY <1>1 DEF Bud
<1> HIDE DEF x, y
<1>3. Good(u) /\ Good(v)
  BY <1>1, GoodClose
<1>4. /\ u.role = s.role /\ u.tws = s.tws /\ u.conn = s.conn /\ u.off /\ u.exit = s.exit
      /\ v.role = s.role /\ v.tws = s.tws /\ v.conn = s.conn /\ v.exit /\ v.off = s.off
  BY <1>1, <1>2, CloseFields DEF Same
<1>5. PICK t \in {u, v} : /\ bud' = [bud EXCEPT ![b] = t]
                          /\ Send(b, PageInfo(t)) \/ net' = net
  BY DEF SoftPoweroff, ModeExit, x, y
<1>6. queue' = queue /\ acl' = acl
  BY DEF SoftPoweroff, ModeExit
<1> HIDE DEF u, v
<1>7. /\ Good(t) /\ t.role = s.role /\ t.tws = s.tws /\ t.conn = s.conn
      /\ (t.off \/ t.exit) /\ (s.off => t.off) /\ (s.exit => t.exit)
  BY <1>3, <1>4
<1>8. NetGrows
  BY <1>5, <1>7, GoodInfo, SendGrows, NetStays DEF WakeInv
<1>9. \A c \in Buds : bud'[c] = IF c = b THEN t ELSE bud[c]
  BY <1>5 DEF IInv
<1>10. \A c \in Buds : bud'[c].role = bud[c].role /\ bud'[c].tws = bud[c].tws
                       /\ (bud[c].off => bud'[c].off) /\ (bud[c].exit => bud'[c].exit)
                       /\ bud'[c].conn = bud[c].conn
  BY <1>4, <1>7, <1>9
<1>11. Pairing(bud)'
  BY <1>10, PairingStays DEF WakeInv
<1>12. ASSUME NEW c \in Buds, Excused(c) PROVE Excused(c)'
  <2>1. RelayDue(c) => RelayDue(c)'
    BY <1>6, <1>8, RelayStays DEF NetGrows
  <2>2. QED
    BY <1>6, <1>10, <1>12, <2>1, ExcusedStays
<1>13. ASSUME NEW c \in Buds PROVE (bud[c].tws = "unpaired" => net[c] = <<>>)'
                                   /\ (Cardinality(bud[c].conn \cup acl[c]) <= 2)'
  BY <1>6, <1>8, <1>10 DEF WakeInv, BudWake, NetGrows
<1>14. ASSUME NEW c \in Buds, c # b PROVE BudWake(c)'
  BY <1>6, <1>9, <1>12, <1>13, <1>14 DEF WakeInv, BudWake
<1>15. BudWake(b)'
  <2>1. Covered(t, queue[b]) /\ Excused(b)'
    BY <1>7, <1>9 DEF Covered, Excused, Exempt
  <2>2. Fits(t, queue[b])
    BY <1>7 DEF WakeInv, BudWake, Fits
  <2>3. QED
    BY <1>6, <1>9, <1>13, <2>1, <2>2 DEF BudWake
<1>16. QED
  BY <1>11, <1>14, <1>15 DEF WakeInv

\* Power on changes nothing that the libraries decide, and the message it posts rearms.
LEMMA InitSame ==
    ASSUME NEW s \in Bud, NEW rec PROVE Same(s, dual_conn_page_devices_init(s, rec))
<1> DEFINE n == Len(rec)
           list == CASE n = 0 -> <<>>
                     [] n = 1 -> <<Fresh(rec[1])>>
                     [] OTHER -> <<Fresh(rec[n]), Fresh(rec[n-1])>>
           left == IF s.inquiry THEN s.orphans \cup {"inquiry"} ELSE s.orphans
           t == [s EXCEPT !.list = list, !.ptimers = {}, !.num = n, !.disable = 0,
                          !.orphans = left, !.inquiry = TRUE]
<1>1. dual_conn_page_devices_init(s, rec) = IF n = 1 THEN [t EXCEPT !.addr2 = rec[1]] ELSE t
  BY DEF dual_conn_page_devices_init
<1> HIDE DEF n, list, left
<1>2. Same(s, t)
  BY DEF Bud, Same
<1>3. Same(s, [t EXCEPT !.addr2 = rec[1]])
  BY DEF Bud, Same
<1> HIDE DEF t
<1>4. QED
  BY <1>1, <1>2, <1>3

LEMMA PowerOnRearms ==
    ASSUME NEW tws
    PROVE  /\ bt_tws_poweron(tws) \in GoodMessage
           /\ Rearms(bt_tws_poweron(tws)) /\ Allowed(bt_tws_poweron(tws))
           /\ bt_tws_poweron(tws).kind = "app"
BY PowerOnMessage DEF bt_tws_poweron, App, Rearms, Allowed

LEMMA WakeModeInit ==
    ASSUME IInv, WakeInv, NEW b \in Buds, ModeInit(b) PROVE WakeInv'
<1> DEFINE s == bud[b]
           w == [s EXCEPT !.exit = FALSE]
           u == [w EXCEPT !.switch = TRUE]
           m == bt_tws_poweron(s.tws)
<1>1. PICK rec \in Records :
          bud' = [bud EXCEPT ![b] = dual_conn_page_devices_init(u, rec)]
  BY DEF ModeInit
<1>2. s.conn = {} /\ Post(b, m) /\ net' = net /\ acl' = acl
  BY DEF ModeInit, HasPhone
<1>3. u \in Bud /\ u.role = s.role /\ u.tws = s.tws /\ u.off = s.off /\ u.conn = s.conn
  <2>1. s \in Bud
    BY BudGood
  <2> HIDE DEF s
  <2>2. w \in Bud
    BY <2>1 DEF Bud
  <2>3. w.role = s.role /\ w.tws = s.tws /\ w.off = s.off /\ w.conn = s.conn
    BY <2>1 DEF Bud
  <2> HIDE DEF w
  <2>4. QED
    BY <2>2, <2>3 DEF Bud
<1> HIDE DEF u
<1> DEFINE t == dual_conn_page_devices_init(u, rec)
<1>4. t.role = s.role /\ t.tws = s.tws /\ t.off = s.off /\ t.conn = {}
  BY <1>2, <1>3, InitSame DEF Same
<1> HIDE DEF t
<1>5. m \in GoodMessage /\ Rearms(m) /\ ~Ok(m) /\ Allowed(m) /\ m.kind = "app"
  BY PowerOnRearms DEF Ok
<1> HIDE DEF m
<1>6. \A c \in Buds : /\ bud'[c] = IF c = b THEN t ELSE bud[c]
                      /\ queue'[c] = IF c = b THEN Append(queue[b], m) ELSE queue[c]
  BY <1>1, <1>2 DEF Post, IInv, t
<1>7. \A c \in Buds : queue[c] \in Seq(GoodMessage) /\ BudWake(c)
  BY DEF IInv, WakeInv
<1>8. \A c \in Buds : bud'[c].role = bud[c].role /\ bud'[c].tws = bud[c].tws
                      /\ bud'[c].off = bud[c].off /\ bud'[c].conn = bud[c].conn
  BY <1>2, <1>4, <1>6
<1>9. Pairing(bud)'
  BY <1>8, PairingStays DEF WakeInv
<1>10. ASSUME NEW c \in Buds PROVE (bud[c].tws = "unpaired" => net[c] = <<>>)'
                                   /\ (Cardinality(bud[c].conn \cup acl[c]) <= 2)'
  BY <1>2, <1>7, <1>8 DEF BudWake
<1>11. ASSUME NEW c \in Buds, c # b PROVE BudWake(c)'
  <2>1. bud'[c] = bud[c] /\ queue'[c] = queue[c]
    BY <1>6, <1>11
  <2>2. \A d \in Buds : SwitchNews(queue[d]) => SwitchNews(queue'[d])
    BY <1>5, <1>6, NewsPosted
  <2>3. RelayDue(c) => RelayDue(c)'
    BY <1>2, <2>2, RelayStays
  <2>4. Excused(c) => Excused(c)'
    BY <1>2, <1>8, <2>1, <2>3, ExcusedStays
  <2>5. QED
    BY <1>7, <1>10, <1>11, <2>1, <2>4 DEF BudWake
<1>12. BudWake(b)'
  <2>1. ~Full(t)
    BY <1>4, FS_EmptySet DEF Full, connect_dev
  <2>2. Covered(t, Append(queue[b], m))
    BY <2>1 DEF Covered
  <2>3. Fits(t, queue[b])
    BY <1>4, <1>7 DEF BudWake, Fits
  <2>4. Fits(t, Append(queue[b], m))
    BY <1>5, <1>7, <2>3, FitsAppend
  <2>5. Awake(t, Append(queue[b], m))
    BY <1>5, <1>7, AwakeAppend
  <2>6. QED
    BY <1>6, <1>10, <2>2, <2>4, <2>5 DEF BudWake
<1>13. QED
  BY <1>9, <1>11, <1>12 DEF WakeInv

(***************************************************************************)
(* The TWS link.                                                           *)
(***************************************************************************)

\* The library changes every bud, to linked or to paired, and posts the news of it.
LEMMA NewsWake ==
    ASSUME IInv, WakeInv, NEW f, NEW g, bud' = [c \in Buds |-> f[c]],
           queue' = [c \in Buds |-> Append(queue[c], g[c])], Pairing(f),
           \A c \in Buds : /\ g[c] \in GoodMessage /\ Allowed(g[c])
                           /\ g[c].kind = "tws"
                           /\ f[c].tws # "unpaired"
                           /\ Excused(c)' \/ Rearms(g[c])
                           /\ Cardinality(f[c].conn \cup acl'[c]) <= 2
    PROVE  WakeInv'
<1>1. Pairing(bud)'
  BY DEF Pairing
<1>2. ASSUME NEW c \in Buds PROVE BudWake(c)'
  <2>1. queue[c] \in Seq(GoodMessage) /\ BudWake(c)
    BY DEF IInv, WakeInv
  <2>2. bud'[c] = f[c] /\ queue'[c] = Append(queue[c], g[c])
    OBVIOUS
  <2>3. Covered(f[c], Append(queue[c], g[c]))
    BY DEF Covered, Full
  <2>4. Fits(f[c], queue[c])
    BY <2>1 DEF BudWake, Fits
  <2>5. Fits(f[c], Append(queue[c], g[c]))
    BY <2>1, <2>4, FitsAppend
  <2>6. ~Ok(g[c])
    BY DEF Ok
  <2>7. Excused(c)' \/ Awake(f[c], Append(queue[c], g[c]))
    BY <2>1, <2>6, AwakeAppend
  <2>8. QED
    BY <2>2, <2>3, <2>5, <2>7 DEF BudWake
<1>3. QED
  BY <1>1, <1>2 DEF WakeInv

LEMMA WakeTwsLink == ASSUME IInv, WakeInv, NEW b \in Buds, TwsLink(b) PROVE WakeInv'
<1> DEFINE role == [c \in Buds |-> IF c = b THEN "master" ELSE "slave"]
           f == [c \in Buds |-> [bud[c] EXCEPT !.tws = "linked", !.op = "idle",
                                               !.role = role[c]]]
           g == [c \in Buds |-> Tws("connected", role[c], "other")]
<1>1. /\ bud' = [c \in Buds |-> f[c]]
      /\ queue' = [c \in Buds |-> Append(queue[c], g[c])] /\ acl' = acl
  BY DEF TwsLink
<1>2. \A c \in Buds : role[c] \in Role /\ bud[c] \in Bud
                      /\ role[c] = IF c = b THEN "master" ELSE "slave"
  BY BudGood DEF Role
<1> HIDE DEF role
<1>3. \A c \in Buds : f[c].role = role[c] /\ f[c].tws = "linked" /\ f[c].conn = bud[c].conn
  BY <1>2 DEF Bud
<1>4. \A c \in Buds : g[c] \in GoodMessage
  BY <1>2, GoodMessages DEF DetachReason
<1>5. \A c \in Buds : g[c].kind = "tws" /\ g[c].role = role[c] /\ g[c].ev = "connected"
                      /\ g[c].reason = "other"
  BY DEF Tws
<1> HIDE DEF f, g
<1>6. \A c, d \in Buds : c # d => (c = b <=> d # b)
  BY TwoBuds
<1>7. Pairing(f)
  BY <1>2, <1>3, <1>6 DEF Pairing, Linked, Slave
<1>8. \A c \in Buds : Allowed(g[c])
  BY <1>5 DEF Allowed
<1>9. ASSUME NEW c \in Buds PROVE Excused(c)' \/ Rearms(g[c])
  <2>1. CASE c = b
    BY <1>2, <1>5, <2>1 DEF Rearms
  <2>2. CASE c # b
    <3>1. bud'[c].role = "slave"
      BY <1>1, <1>2, <1>3, <2>2
    <3>2. QED
      BY <3>1 DEF Excused, Exempt, Slave
  <2>3. QED
    BY <2>1, <2>2
<1>10. \A c \in Buds : Cardinality(f[c].conn \cup acl'[c]) <= 2 /\ f[c].tws # "unpaired"
  BY <1>1, <1>3 DEF WakeInv, BudWake
<1>11. QED
  BY <1>1, <1>4, <1>5, <1>7, <1>8, <1>9, <1>10, NewsWake

LEMMA WakeTwsDetach ==
    ASSUME IInv, WakeInv, Wakeful, NEW reason \in DetachReason, TwsDetach(reason)
    PROVE  WakeInv'
<1> DEFINE x == IF reason = "remove_pairs" THEN "unpaired" ELSE "paired"
           f == [c \in Buds |-> [bud[c] EXCEPT !.role = "master", !.tws = x]]
           g == [c \in Buds |-> Tws("detach", bud[c].role, reason)]
<1>1. /\ bud' = [c \in Buds |-> f[c]] /\ reason # "remove_pairs" /\ acl' = acl
      /\ queue' = [c \in Buds |-> Append(queue[c], g[c])]
  BY DEF TwsDetach, Wakeful
<1>2. x = "paired" /\ \A c \in Buds : bud[c] \in Bud /\ bud[c].role \in Role
  BY <1>1, BudGood DEF Bud
<1> HIDE DEF x
<1>3. \A c \in Buds : f[c].tws = "paired" /\ f[c].conn = bud[c].conn
  BY <1>2 DEF Bud
<1>4. \A c \in Buds : g[c] \in GoodMessage
  BY <1>2, GoodMessages
<1>5. \A c \in Buds : g[c].kind = "tws" /\ g[c].ev = "detach" /\ g[c].reason = reason
  BY DEF Tws
<1> HIDE DEF f, g
<1>6. Pairing(f)
  BY <1>3 DEF Pairing, Linked
<1>7. \A c \in Buds : Allowed(g[c]) /\ Rearms(g[c])
  BY <1>1, <1>5 DEF Allowed, Rearms
<1>8. \A c \in Buds : Cardinality(f[c].conn \cup acl'[c]) <= 2 /\ f[c].tws # "unpaired"
  BY <1>1, <1>3 DEF WakeInv, BudWake
<1>9. QED
  BY <1>1, <1>4, <1>5, <1>6, <1>7, <1>8, NewsWake

LEMMA WakeRoleSwitch == ASSUME IInv, WakeInv, RoleSwitch PROVE WakeInv'
<1> DEFINE role == [c \in Buds |-> IF Slave(bud[c]) THEN "master" ELSE "slave"]
           conn == [c \in Buds |-> bud[Sibling(c)].conn]
           f == [c \in Buds |-> [bud[c] EXCEPT !.role = role[c],
                                               !.conn = bud[Sibling(c)].conn]]
           g == [c \in Buds |-> Tws("switch", role[c], "other")]
<1>1. /\ bud' = [c \in Buds |-> f[c]] /\ HasSibling
      /\ queue' = [c \in Buds |-> Append(queue[c], g[c])]
      /\ acl' = [c \in Buds |-> acl[Sibling(c)]]
      /\ \A c \in Buds : Linked(bud[c])
  BY DEF RoleSwitch
<1>2. \A c \in Buds : role[c] \in Role /\ bud[c] \in Bud
                      /\ role[c] = IF Slave(bud[c]) THEN "master" ELSE "slave"
  BY BudGood DEF Role
<1> HIDE DEF role
<1>3. \A c \in Buds : f[c].role = role[c] /\ f[c].tws = "linked"
                      /\ f[c].conn = conn[c]
  <2> HIDE DEF conn
  <2> TAKE c \in Buds
  <2> DEFINE s == bud[c]
             k == conn[c]
             r == role[c]
  <2>1. s \in Bud /\ s.tws = "linked"
    BY <1>1, <1>2 DEF Linked
  <2>2. f[c] = [s EXCEPT !.role = r, !.conn = k]
    BY DEF conn
  <2> HIDE DEF s, k, r
  <2>3. /\ [s EXCEPT !.role = r, !.conn = k].role = r
        /\ [s EXCEPT !.role = r, !.conn = k].tws = s.tws
        /\ [s EXCEPT !.role = r, !.conn = k].conn = k
    BY <2>1 DEF Bud
  <2>4. QED
    BY <2>1, <2>2, <2>3 DEF k, r
<1>4. \A c \in Buds : g[c] \in GoodMessage
  BY <1>2, GoodMessages DEF DetachReason
<1>5. \A c \in Buds : g[c].kind = "tws" /\ g[c].role = role[c] /\ g[c].ev = "switch"
                      /\ g[c].reason = "other"
  BY DEF Tws
<1> HIDE DEF f, g
<1>6. \A c, d \in Buds : c # d => (Slave(bud[c]) <=> ~Slave(bud[d]))
  BY <1>1 DEF WakeInv, Pairing
<1>7. Pairing(f)
  BY <1>2, <1>3, <1>6 DEF Pairing, Linked, Slave
<1>8. \A c \in Buds : Allowed(g[c])
  BY <1>5 DEF Allowed
<1>9. \A c \in Buds : Sibling(c) \in Buds
  BY <1>1, SiblingBud
<1>10. \A c \in Buds : Sibling(c) # c
  <2> TAKE c \in Buds
  <2>1. \E d \in Buds : d # c
    <3> SUFFICES ASSUME \A d \in Buds : d = c PROVE FALSE
      OBVIOUS
    <3>1. Buds = {c}
      OBVIOUS
    <3>2. Cardinality(Buds) = 1
      BY <3>1, FS_Singleton
    <3>3. Cardinality(Buds) = 2
      BY <1>1 DEF HasSibling
    <3>4. QED
      BY <3>2, <3>3
  <2>2. QED
    BY <2>1 DEF Sibling
<1>11. ASSUME NEW c \in Buds PROVE Excused(c)'
  <2>1. CASE ~Slave(bud[c])
    <3>1. bud'[c].role = "slave"
      BY <1>1, <1>2, <1>3, <2>1
    <3>2. QED
      BY <3>1 DEF Excused, Exempt, Slave
  <2>2. CASE Slave(bud[c])
    <3> DEFINE d == Sibling(c)
    <3>1. d \in Buds /\ d # c
      BY <1>9, <1>10
    <3> HIDE DEF d
    <3>2. ~Slave(bud[d])
      BY <1>6, <2>2, <3>1
    <3>3. NewSlave(g[d])
      BY <1>2, <1>5, <3>1, <3>2 DEF NewSlave
    <3>4. SwitchNews(queue'[d])
      BY <1>1, <1>4, <3>1, <3>3, QueueSeq, NewsKept
    <3>5. RelayDue(c)'
      BY <3>1, <3>4 DEF RelayDue
    <3>6. Linked(bud[c])'
      BY <1>1, <1>3 DEF Linked
    <3>7. QED
      BY <3>5, <3>6 DEF Excused
  <2>3. QED
    BY <2>1, <2>2
<1>12. \A c \in Buds : Cardinality(f[c].conn \cup acl'[c]) <= 2 /\ f[c].tws # "unpaired"
  BY <1>1, <1>3, <1>9 DEF WakeInv, BudWake
<1>13. QED
  BY <1>1, <1>4, <1>5, <1>7, <1>8, <1>11, <1>12, NewsWake

(***************************************************************************)
(* The theorem.                                                            *)
(***************************************************************************)

LEMMA WakeEnvironment == ASSUME IInv, WakeInv, Wakeful, Environment PROVE WakeInv'
BY WakeLink, WakeUp, WakeDown, WakePageFails, WakeTwsLink, WakeTwsDetach, WakeRoleSwitch,
   WakeUserMsg, WakeUser, WakeClose, WakeModeInit DEF Environment

LEMMA InitWake == Init => WakeInv
<1> SUFFICES ASSUME Init PROVE WakeInv
  OBVIOUS
<1>1. PICK tws \in {"paired", "unpaired"}, rec \in [Buds -> Records] :
          /\ bud = [b \in Buds |-> dual_conn_page_devices_init(Blank(tws), rec[b])]
          /\ queue = [b \in Buds |-> <<bt_tws_poweron(tws)>>]
          /\ net = [b \in Buds |-> <<>>]
          /\ acl = [b \in Buds |-> {}]
  BY DEF Init
<1>2. Blank(tws) \in Bud /\ Blank(tws).conn = {} /\ Blank(tws).tws = tws
  BY BlankGood, GoodBud DEF Blank
<1>3. \A b \in Buds : bud[b].conn = {} /\ bud[b].tws = tws
  BY <1>1, <1>2, InitSame DEF Same
<1>4. Pairing(bud)
  BY <1>3 DEF Pairing, Linked
<1>5. ASSUME NEW b \in Buds PROVE BudWake(b)
  <2> DEFINE m == bt_tws_poweron(tws)
             q == <<m>>
  <2>1. Rearms(m) /\ Allowed(m) /\ m.kind = "app" /\ queue[b] = q /\ net[b] = <<>> /\ acl[b] = {}
    BY <1>1, PowerOnRearms
  <2>2. ~Ok(m)
    BY <2>1 DEF Ok
  <2> HIDE DEF m
  <2>3. DOMAIN q = {1} /\ q[1] = m /\ 1 > 0
    OBVIOUS
  <2> HIDE DEF q
  <2>4. Awake(bud[b], q) /\ Fits(bud[b], q)
    BY <2>1, <2>2, <2>3 DEF Awake, Rearmed, Fits
  <2>5. Covered(bud[b], q)
    BY <1>3, FS_EmptySet DEF Covered, Full, connect_dev
  <2>6. Cardinality(bud[b].conn \cup acl[b]) <= 2
    <3>1. bud[b].conn \cup acl[b] = {}
      BY <1>3, <2>1
    <3>2. QED
      BY <3>1, FS_EmptySet
  <2>7. QED
    BY <2>1, <2>4, <2>5, <2>6 DEF BudWake
<1>6. QED
  BY <1>4, <1>5 DEF WakeInv

LEMMA NextWake == ASSUME Wakeful PROVE IInv /\ WakeInv /\ [Next]_vars => WakeInv'
<1> SUFFICES ASSUME IInv, WakeInv, [Next]_vars PROVE WakeInv'
  OBVIOUS
<1>1. CASE UNCHANGED vars
  BY <1>1 DEF vars, WakeInv, BudWake, Excused, Exempt, RelayDue
<1>2. CASE Next
  BY <1>2, WakeHandle, WakeClock, WakeEnvironment DEF Next
<1>3. QED
  BY <1>1, <1>2

LEMMA WakeSettled == IInv /\ WakeInv => NoLostWakeup
<1> SUFFICES ASSUME IInv, WakeInv, Settled, NEW b \in Buds, InCharge(b), Listed(b) # {},
                    SiblingInUse(b)
             PROVE  ~NothingPending(b)
  BY DEF NoLostWakeup
<1>1. \A c \in Buds : queue[c] = <<>> /\ net[c] = <<>> /\ acl[c] = {}
  BY DEF Settled
<1>2. ~Exempt(b)
  BY DEF Exempt, InCharge, InUse, SiblingInUse
<1>3. ~RelayDue(b)
  BY <1>1 DEF RelayDue, SwitchNews
<1>4. Awake(bud[b], <<>>)
  BY <1>1, <1>2, <1>3 DEF WakeInv, BudWake, Excused
<1>5. Woken(bud[b])
  BY <1>4 DEF Awake, Rearmed
<1>6. ~page_list_empty(bud[b])
  BY DEF Listed, Addrs, page_list_empty
<1>7. Armed(bud[b])
  BY <1>5, <1>6 DEF Woken
<1>8. QED
  BY <1>7 DEF Armed, NothingPending, Useful, Callback

\* While there are devices to page, some timer runs that pages on or gives up, or a message
\* is on its way that starts one, through every handler, timeout, link event and switch of
\* roles, but for the three exceptions of Wakeful.
THEOREM SearchNeverStalls == ASSUME Wakeful PROVE Spec => []NoLostWakeup
<1>1. Spec => [](IInv /\ WakeInv)
  <2>1. Init => IInv /\ WakeInv
    BY InitIInv, InitWake
  <2>2. (IInv /\ WakeInv) /\ [Next]_vars => (IInv /\ WakeInv)'
    BY NextIInv, NextWake
  <2>3. QED
    BY <2>1, <2>2, PTL DEF Spec
<1>2. QED
  BY <1>1, WakeSettled, PTL

(***************************************************************************)
(* The roles.  While a linked master has devices to page, the library may  *)
(* not swap the roles: the state handler forbids it as it arms the timer,  *)
(* the news of the link before it pages.  A list that is not empty only    *)
(* comes from a loss, from the sibling or from a request to page; each but *)
(* the last runs the state handler.                                        *)
(***************************************************************************)
Leads(s) == ~Slave(s) /\ ~s.off /\ ~s.exit
Forbids(s) == Linked(s) /\ ~Slave(s) /\ s.list # <<>> => ~s.switch

\* What a function keeps, and what it sets right; one on neither the list nor the switch.
Steady(s, t) == Same(s, t) /\ (Leads(s) /\ Forbids(s) => Forbids(t))
Settles(s, t) == Same(s, t) /\ (Leads(s) => Forbids(t))
Level(s, t) == t \in Bud /\ Same(s, t) /\ t.list = s.list /\ t.switch = s.switch

LEMMA SameLeads == ASSUME NEW s, NEW t, Same(s, t) PROVE Leads(t) = Leads(s)
BY DEF Same, Leads, Slave

LEMMA SteadyTrans ==
    ASSUME NEW s, NEW t, NEW u, Steady(s, t), Steady(t, u) PROVE Steady(s, u)
BY SameTrans, SameLeads DEF Steady

LEMMA SettlesAfter ==
    ASSUME NEW s, NEW t, NEW u, Same(s, t), Settles(t, u) PROVE Settles(s, u)
BY SameTrans, SameLeads DEF Settles

LEMMA SettlesSteady == ASSUME NEW s, NEW t, Settles(s, t) PROVE Steady(s, t)
BY DEF Settles, Steady

LEMMA LevelSteady == ASSUME NEW s, NEW t, Level(s, t) PROVE Steady(s, t)
BY DEF Level, Steady, Forbids, Same, Linked, Slave

LEMMA LevelTrans == ASSUME NEW s, NEW t, NEW u, Level(s, t), Level(t, u) PROVE Level(s, u)
BY SameTrans DEF Level

LEMMA LevelSelf == ASSUME NEW s \in Bud PROVE Level(s, s)
BY DEF Level, Same

LEMMA LevelSetters ==
    ASSUME NEW s \in Bud
    PROVE  /\ Level(s, Seek(s)) /\ Level(s, Listen(s))
           /\ Level(s, CancelSeek(s)) /\ Level(s, CancelListen(s))
           /\ Level(s, PageCancel(s)) /\ Level(s, DelTimer(s))
<1>1. /\ Seek(s).switch = s.switch /\ Listen(s).switch = s.switch
      /\ CancelSeek(s).switch = s.switch /\ CancelListen(s).switch = s.switch
  BY DEF Seek, Listen, CancelSeek, CancelListen, Bud
<1>2. PageCancel(s).switch = s.switch /\ DelTimer(s).switch = s.switch
  BY DEF PageCancel, DelTimer, Bud
<1>3. /\ Level(s, Seek(s)) /\ Level(s, Listen(s))
      /\ Level(s, CancelSeek(s)) /\ Level(s, CancelListen(s)) /\ Level(s, PageCancel(s))
  BY <1>1, <1>2, RestsOp, RestsCancel, RestsPage DEF Rests, Level
<1>4. Level(s, DelTimer(s))
  BY <1>2, KeepsDelTimer, CalmSetters DEF Keeps, Calm, Level
<1>5. QED
  BY <1>3, <1>4

LEMMA LevelScans ==
    ASSUME NEW s \in Bud, NEW m \in Scan PROVE Level(s, write_scan_conn_enable(s, m))
<1>1. write_scan_conn_enable(s, m).switch = s.switch
  BY DEF write_scan_conn_enable, Bud
<1>2. QED
  BY <1>1, RestsScan DEF Rests, Level

LEMMA LevelTimers ==
    ASSUME NEW s \in Bud, NEW h \in TimerHandle
    PROVE  Level(s, Overwrite(s, h)) /\ Level(s, [s EXCEPT !.timer = h])
<1>1. Overwrite(s, h).switch = s.switch /\ [s EXCEPT !.timer = h].switch = s.switch
  BY DEF Overwrite, Bud
<1>2. QED
  BY <1>1, KeepsOverwrite, KeepsTimer, CalmSetters DEF Keeps, Calm, Level

\* An empty list forbids nothing.
LEMMA EmptyForbids == ASSUME NEW s, page_list_empty(s) PROVE Forbids(s)
BY DEF Forbids, page_list_empty

LEMMA StateSettles ==
    ASSUME NEW s \in Bud PROVE Settles(s, tws_dual_conn_state_handler(s))
<1> DEFINE r == tws_dual_conn_state_handler(s)
           t == DelTimer(s)
<1>1. r \in Bud /\ r.list = s.list /\ Same(s, r) /\ t \in Bud /\ t.list = s.list
  BY KeepsStateHandler, KeepsDelTimer, CalmStateHandler DEF Keeps, Calm
<1>2. ASSUME Leads(s), Linked(s), s.list # <<>> PROVE ~r.switch
  <2>1. r = LinkedMaster(t)
    BY <1>2 DEF Leads, tws_dual_conn_state_handler, Linked
  <2> DEFINE l == LinkedScan(t)
  <2>2. l \in Bud
    BY <1>1, KeepsLinkedScan DEF Keeps
  <2> HIDE DEF t
  <2>3. r = [l EXCEPT !.timer = "wait_conn", !.switch = FALSE]
    BY <2>1, <1>1, <1>2 DEF LinkedMaster, page_list_empty
  <2> HIDE DEF l, r
  <2>4. QED
    BY <2>2, <2>3 DEF Bud
<1> HIDE DEF r
<1>3. Leads(s) => Forbids(r)
  BY <1>1, <1>2 DEF Forbids, Same, Linked
<1>4. QED
  BY <1>1, <1>3 DEF Settles, r

LEMMA PageSteady ==
    ASSUME NEW s, Good(s) PROVE Steady(s, dual_conn_page_device(s))
<1> DEFINE r == dual_conn_page_device(s)
           h == Head(s.list)
<1>1. s \in Bud /\ Same(s, r) /\ r \in Bud
  BY GoodBud, CalmPageDevice DEF Calm
<1>2. CASE ~page_list_empty(s) /\ ~h.timer /\ ~Slave(s)
  <2> DEFINE u == StartPage(s, h.addr)
             w == [u EXCEPT !.list[1].timer = TRUE]
  <2>1. r = [w EXCEPT !.ptimers = w.ptimers \cup {h.addr}]
    BY <1>2 DEF dual_conn_page_device
  <2>2. w.switch = s.switch
    BY <1>1 DEF StartPage, Bud
  <2> HIDE DEF w, r
  <2>3. r.switch = s.switch
    BY <2>1, <2>2
  <2>4. Forbids(s) => Forbids(r)
    BY <1>1, <1>2, <2>3 DEF Forbids, Same, Linked, Slave, page_list_empty
  <2>5. QED
    BY <1>1, <2>4 DEF Steady, r
<1>3. CASE ~(~page_list_empty(s) /\ ~h.timer /\ ~Slave(s))
  <2>1. r = s \/ r = tws_dual_conn_state_handler(s)
    BY <1>3 DEF dual_conn_page_device
  <2> HIDE DEF r
  <2>2. QED
    BY <1>1, <2>1, LevelSelf, LevelSteady, StateSettles, SettlesSteady DEF r
<1>4. QED
  BY <1>2, <1>3

LEMMA PageOrStateSteady == ASSUME NEW s, Good(s) PROVE Steady(s, PageOrState(s))
BY GoodBud, StateSettles, SettlesSteady, PageSteady DEF PageOrState

LEMMA SteadyThenPage ==
    ASSUME NEW s, NEW t, Level(s, t), Good(t)
    PROVE  Steady(s, dual_conn_page_device(t)) /\ Steady(s, PageOrState(t))
BY LevelSteady, PageSteady, PageOrStateSteady, SteadyTrans

\* The callbacks.
LEMMA BodySteady ==
    ASSUME NEW s, Good(s), NEW cb PROVE Steady(s, CallbackBody(cb, s))
<1> DEFINE l == CancelListen(s)
           k == CancelSeek(l)
           w == write_scan_conn_enable(k, "off")
           c == CancelSeek(s)
           o == write_scan_conn_enable(s, "off")
<1>1. /\ Good(l) /\ Good(k) /\ Good(w) /\ Good(c) /\ Good(o)
      /\ s \in Bud /\ l \in Bud /\ k \in Bud /\ c \in Bud
  BY GoodSetters, GoodScans, GoodBud
<1>2. "off" \in Scan
  BY DEF Scan
<1>3. /\ Level(s, l) /\ Level(l, k) /\ Level(k, w) /\ Level(s, c) /\ Level(s, o)
      /\ Level(s, Listen(s)) /\ Level(c, Listen(c)) /\ Level(s, s)
  BY <1>1, <1>2, LevelSetters, LevelScans, LevelSelf
<1>4. Level(s, w) /\ Level(s, Listen(c))
  BY <1>3, LevelTrans
<1> HIDE DEF w, o, c, k
<1>5. /\ Steady(s, dual_conn_page_device(w)) /\ Steady(s, dual_conn_page_device(o))
      /\ Steady(s, dual_conn_page_device(c)) /\ Steady(s, PageOrState(c))
      /\ Steady(s, dual_conn_page_device(s))
  BY <1>1, <1>3, <1>4, SteadyThenPage
<1>6. Steady(s, Listen(c)) /\ Steady(s, l) /\ Steady(s, Listen(s)) /\ Steady(s, s)
  BY <1>3, <1>4, LevelSteady
<1>7. /\ Steady(s, tws_auto_pair_timeout(s)) /\ Steady(s, tws_wait_conn_timeout(s))
      /\ Steady(s, tws_create_conn_timeout(s))
  BY <1>5 DEF tws_auto_pair_timeout, tws_wait_conn_timeout, tws_create_conn_timeout, w, o, c, k
<1>8. Steady(s, tws_pair_timeout(s))
  BY <1>5, <1>6 DEF tws_pair_timeout, c
<1>9. QED
  BY <1>5, <1>6, <1>7, <1>8 DEF CallbackBody

LEMMA RunTimerSteady == ASSUME NEW s, Good(s) PROVE Steady(s, RunTimer(s))
<1> DEFINE h == IF s.timer = "wait_conn" THEN "stale" ELSE "none"
           t == [s EXCEPT !.timer = h]
<1>1. h \in TimerHandle /\ s \in Bud
  BY GoodBud DEF TimerHandle
<1>2. RunTimer(s) = CallbackBody(s.timer, t)
  BY DEF RunTimer
<1> HIDE DEF h
<1>3. Steady(s, t) /\ Good(t)
  BY <1>1, GoodSetters, LevelTimers, LevelSteady
<1> HIDE DEF t
<1>4. QED
  BY <1>2, <1>3, BodySteady, SteadyTrans

LEMMA RunOrphanSteady == ASSUME NEW s, Good(s), NEW cb PROVE Steady(s, RunOrphan(s, cb))
<1> DEFINE t == [s EXCEPT !.orphans = @ \ {cb}]
           u == IF cb = "wait_conn" THEN t ELSE Overwrite(t, "none")
<1>1. s \in Bud /\ s.orphans \ {cb} \in SUBSET (Callback \cup {"inquiry"})
  BY GoodBud DEF Bud
<1>2. RunOrphan(s, cb) = CallbackBody(cb, u)
  BY DEF RunOrphan
<1>3. Level(s, t) /\ Good(t)
  BY <1>1, KeepsOrphans, KeepsGood DEF Same, Bud, Level
<1> HIDE DEF t
<1>4. Level(t, u) /\ Good(u)
  BY <1>3, GoodBud, GoodSetters, LevelTimers, LevelSelf DEF TimerHandle
<1> HIDE DEF u
<1>5. Steady(s, u)
  BY <1>3, <1>4, LevelTrans, LevelSteady
<1>6. QED
  BY <1>2, <1>4, <1>5, BodySteady, SteadyTrans

LEMMA PageTimeoutSettles ==
    ASSUME NEW s, Good(s), NEW p \in s.ptimers
    PROVE  Settles(s, dual_conn_page_device_timeout(s, p))
BY TimeoutState, StateSettles, SettlesAfter

LEMMA InquirySteady ==
    ASSUME NEW s, Good(s)
    PROVE  Steady(s, [close_inquiry_scan(s) EXCEPT
                         !.inquiry = FALSE,
                         !.orphans = IF s.inquiry THEN @ ELSE @ \ {"inquiry"}])
<1> DEFINE d == [s EXCEPT !.disable = 1]
           c == close_inquiry_scan(s)
           left == IF s.inquiry THEN c.orphans ELSE c.orphans \ {"inquiry"}
           t == [c EXCEPT !.inquiry = FALSE, !.orphans = left]
<1>1. Level(s, d)
  <2>1. s \in Bud /\ 1 \in 0..2
    BY GoodBud
  <2>2. QED
    BY <2>1, RestsDisable DEF Rests, Level, Bud
<1>2. Level(s, c)
  <2> HIDE DEF d
  <2>1. Level(s, write_scan_conn_enable(d, "off"))
    BY <1>1, LevelScans, LevelTrans DEF Level, Scan
  <2>2. QED
    BY <1>1, <2>1 DEF close_inquiry_scan, d
<1> HIDE DEF c, left
<1>3. t.list = s.list /\ t.switch = s.switch /\ Same(s, t)
  BY <1>2 DEF Level, Same, Bud
<1> HIDE DEF t
<1>4. Steady(s, t)
  BY <1>3 DEF Steady, Forbids, Same, Linked, Slave
<1>5. QED
  BY <1>4 DEF t, left, c

LEMMA ElapseSteady ==
    ASSUME NEW s \in Bud, NEW i \in DOMAIN s.list
    PROVE  Steady(s, [s EXCEPT !.list[i].late = TRUE])
<1> DEFINE t == [s EXCEPT !.list[i].late = TRUE]
<1>1. t.switch = s.switch /\ Same(s, t)
  BY DEF Same, Bud
<1>2. s.list # <<>>
  BY EmptySeq DEF Bud
<1> HIDE DEF t
<1>3. Steady(s, t)
  BY <1>1, <1>2 DEF Steady, Forbids, Same, Linked, Slave
<1>4. QED
  BY <1>3 DEF t

LEMMA EscoSteady ==
    ASSUME NEW s \in Bud PROVE Steady(s, tws_page_scan_deal_by_esco(s))
BY LevelSetters, LevelSelf, LevelSteady, StateSettles, SettlesSteady
   DEF tws_page_scan_deal_by_esco

(***************************************************************************)
(* The handlers.                                                           *)
(***************************************************************************)

LEMMA FirstSteady ==
    ASSUME NEW s, Good(s), NEW p \in Phones PROVE Steady(s, FirstConnected(s, p))
<1> DEFINE k == DelTimer(s)
           d == del_device_from_page_list(k, p)
           t == [d EXCEPT !.addr0 = p]
           u == [t EXCEPT !.num = IF @ = 1 /\ p # t.addr2 THEN 2 ELSE @]
           r == FirstConnected(s, p)
<1>1. Same(s, r)
  BY CalmFirst DEF Calm
<1>2. Good(k) /\ k \in Bud /\ k.list = s.list /\ k.switch = s.switch
  BY GoodSetters, GoodBud, LevelSetters DEF Level
<1>3. r = IF ~Slave(s) /\ ~page_list_empty(t) THEN [u EXCEPT !.timer = "page_next"]
          ELSE FirstConnectedQuiet(t, p)
  BY DEF FirstConnected
<1>4. /\ d \in Bud /\ (page_list_empty(s) => page_list_empty(d))
      /\ d.switch = s.switch
  <2> HIDE DEF k
  <2>1. d \in Bud /\ (page_list_empty(s) => page_list_empty(d))
    BY <1>2, GoodDel, GoodBud, EmptyDel DEF page_list_empty
  <2>2. d.switch = k.switch
    BY <1>2 DEF del_device_from_page_list, Bud
  <2>3. QED
    BY <1>2, <2>1, <2>2
<1> HIDE DEF d
<1>5. t \in Bud /\ t.list = d.list /\ t.switch = d.switch
  BY <1>4, KeepsAddr DEF Keeps, Bud
<1> HIDE DEF t
<1>6. FirstConnectedQuiet(t, p).list = t.list
  BY <1>5, QuietKeepsList
<1>7. [u EXCEPT !.timer = "page_next"].switch = t.switch
  BY <1>5 DEF Bud
<1> HIDE DEF u, r
<1>8. ASSUME Leads(s), Forbids(s) PROVE Forbids(r)
  <2>1. CASE page_list_empty(t)
    BY <1>3, <1>6, <2>1, EmptyForbids DEF page_list_empty
  <2>2. CASE ~page_list_empty(t)
    <3>1. r = [u EXCEPT !.timer = "page_next"]
      BY <1>3, <1>8, <2>2 DEF Leads
    <3>2. r.switch = s.switch /\ s.list # <<>>
      BY <1>4, <1>5, <1>7, <2>2, <3>1 DEF page_list_empty
    <3>3. QED
      BY <1>1, <1>8, <3>2 DEF Forbids, Same, Linked, Slave
  <2>3. QED
    BY <2>1, <2>2
<1>9. QED
  BY <1>1, <1>8 DEF Steady, r

LEMMA SecondSettles ==
    ASSUME NEW s, Good(s), NEW p \in Phones PROVE Settles(s, SecondConnected(s, p))
BY SecondEmpty, CalmSecond, EmptyForbids DEF Calm, Settles

LEMMA HciSteady ==
    ASSUME NEW s, Good(s), NEW ev, NEW p \in Phones
    PROVE  Steady(s, dual_conn_hci_event_handler(s, ev, p))
<1> DEFINE r == dual_conn_hci_event_handler(s, ev, p)
           k == DelTimer(s)
<1>1. s \in Bud
  BY GoodBud
<1>2. CASE s.off \/ Slave(s)
  <2>1. r = s
    BY <1>2 DEF dual_conn_hci_event_handler
  <2>2. QED
    BY <1>1, <2>1, LevelSelf, LevelSteady
<1>3. CASE ~(s.off \/ Slave(s)) /\ ev = "ok"
  <2>1. r = del_device_from_page_list(k, p)
    BY <1>3 DEF dual_conn_hci_event_handler
  <2>2. k \in Bud /\ k.list = s.list /\ k.switch = s.switch /\ Same(s, k)
    BY <1>1, LevelSetters DEF Level
  <2> HIDE DEF k, r
  <2>3. r.switch = s.switch /\ Same(s, r)
    BY <2>1, <2>2 DEF del_device_from_page_list, Same, Bud
  <2>4. page_list_empty(s) => page_list_empty(r)
    BY <2>1, <2>2, EmptyDel DEF page_list_empty
  <2>5. Steady(s, r)
    BY <2>3, <2>4 DEF Steady, Forbids, Same, Linked, Slave, page_list_empty
  <2>6. QED
    BY <2>5 DEF r
<1>4. CASE ~(s.off \/ Slave(s)) /\ ev # "ok"
  <2>1. PICK u \in Bud : Same(s, u) /\ r = tws_dual_conn_state_handler(u)
    BY <1>4, HciState
  <2>2. Settles(s, r)
    BY <2>1, StateSettles, SettlesAfter
  <2>3. QED
    BY <2>2, SettlesSteady
<1>5. QED
  BY <1>2, <1>3, <1>4

LEMMA ConnectedSettles ==
    ASSUME NEW s, Good(s), NEW role
    PROVE  /\ Steady(s, TwsConnected(s, role))
           /\ role = "master" => Settles(s, TwsConnected(s, role))
<1> DEFINE t == [s EXCEPT !.switch = FALSE]
           w == write_scan_conn_enable(s, "off")
<1>1. s \in Bud /\ w \in Bud /\ Level(s, w)
  BY GoodBud, LevelScans DEF Level, Scan
<1>2. Good(t) /\ Same(s, t) /\ ~t.switch
  BY <1>1, GoodSetters, CalmSetters DEF Calm, Bud
<1> HIDE DEF t, w
<1>3. Settles(s, t)
  BY <1>2 DEF Settles, Forbids
<1>4. Settles(s, PageOrState(t))
  BY <1>2, <1>3, PageOrStateSteady, SameTrans, SameLeads DEF Settles, Steady
<1>5. Steady(s, PageCancel(w)) /\ Steady(s, s)
  BY <1>1, LevelSetters, LevelTrans, LevelSelf, LevelSteady
<1>6. s.off => Settles(s, s)
  BY DEF Settles, Leads, Same
<1>7. QED
  BY <1>4, <1>5, <1>6, SettlesSteady DEF TwsConnected, t, w

LEMMA DetachedSteady ==
    ASSUME NEW s, Good(s), NEW role, NEW reason
    PROVE  Steady(s, TwsDetached(s, role, reason))
<1> DEFINE d == DelTimer(s)
           t == PageCancel(d)
           l == Listen(t)
           c == clr_device_in_page_list(t)
           b == write_scan_conn_enable(t, "both")
           r == TwsDetached(s, role, reason)
<1>1. Good(d) /\ d \in Bud /\ Level(s, d)
  BY GoodBud, GoodSetters, LevelSetters
<1> HIDE DEF d
<1>2. Good(t) /\ t \in Bud /\ Level(s, t) /\ Same(s, t)
  BY <1>1, GoodBud, GoodSetters, LevelSetters, LevelTrans DEF Level
<1>3. r = CASE s.off -> t
            [] ~s.off /\ reason = "remove_pairs" ->
                   (IF role = "master" /\ s.conn # {} THEN t ELSE b)
            [] ~s.off /\ reason = "poweroff" -> tws_dual_conn_state_handler(t)
            [] ~s.off /\ reason = "super_timeout" ->
                   tws_dual_conn_state_handler(IF role = "slave" THEN c ELSE t)
            [] OTHER -> IF page_list_empty(t) THEN DetachedNoList(l)
                        ELSE dual_conn_page_device(t)
  BY DEF TwsDetached, d
<1> HIDE DEF t
<1>4. Steady(s, t) /\ Steady(s, b)
  BY <1>2, LevelScans, LevelTrans, LevelSteady DEF Scan
<1>5. Steady(s, tws_dual_conn_state_handler(t)) /\ Steady(s, dual_conn_page_device(t))
  BY <1>2, StateSettles, SettlesAfter, SettlesSteady, SteadyThenPage
<1>6. Good(c) /\ c \in Bud /\ Same(t, c)
  BY <1>2, GoodClr, GoodBud DEF clr_device_in_page_list, Same, Bud
<1> HIDE DEF c
<1>7. Steady(s, tws_dual_conn_state_handler(c))
  <2>1. Same(s, c)
    BY <1>2, <1>6, SameTrans
  <2>2. QED
    BY <1>6, <2>1, StateSettles, SettlesAfter, SettlesSteady
<1>8. Level(s, l) /\ l \in Bud
  BY <1>2, LevelSetters, LevelTrans DEF Level
<1> HIDE DEF l
<1>9. Steady(s, DetachedNoList(l))
  <2>1. /\ Steady(s, write_scan_conn_enable(l, "off"))
        /\ Steady(s, write_scan_conn_enable(l, "page"))
        /\ Steady(s, write_scan_conn_enable(l, "both"))
    BY <1>8, LevelScans, LevelTrans, LevelSteady DEF Scan
  <2>2. QED
    BY <1>8, <2>1, LevelSteady DEF DetachedNoList
<1> HIDE DEF b, r
<1>10. Steady(s, r)
  BY <1>3, <1>4, <1>5, <1>7, <1>9
<1>11. QED
  BY <1>10 DEF r

LEMMA SwitchedSteady ==
    ASSUME NEW s, Good(s), NEW role PROVE Steady(s, RoleSwitched(s, role))
<1> DEFINE w == write_scan_conn_enable(s, "off")
<1>1. s \in Bud /\ Level(s, w) /\ w \in Bud
  BY GoodBud, LevelScans DEF Level, Scan
<1> HIDE DEF w
<1>2. Level(s, PageCancel(w))
  BY <1>1, LevelSetters, LevelTrans
<1>3. QED
  BY <1>1, <1>2, LevelSteady, LevelSelf DEF RoleSwitched, w

LEMMA RxSettles ==
    ASSUME NEW s, Good(s), NEW m, OnceEach(m) PROVE Settles(s, rx_device_info(s, m))
<1>1. CASE Slave(s)
  BY <1>1, CalmRx DEF Calm, Settles, Leads
<1>2. CASE ~Slave(s)
  BY <1>2, RxState, StateSettles, SettlesAfter
<1>3. QED
  BY <1>1, <1>2

LEMMA AppSteady ==
    ASSUME NEW s, Good(s), NEW msg \in AppMsgs
    PROVE  Steady(s, dual_conn_app_event_handler(s, msg))
<1> DEFINE k == Seek(s)
           l == Listen(s)
<1>1. k \in Bud /\ Level(s, k) /\ l \in Bud /\ Level(s, l)
  BY GoodBud, LevelSetters DEF Level
<1> HIDE DEF k, l
<1>2. {"create_conn", "pair", "msg_wait_pair", "msg_start_pair", "msg_start_conn"} \subseteq TimerHandle
  BY DEF TimerHandle, Callback
<1>3. /\ Steady(s, Overwrite(k, "create_conn")) /\ Steady(s, Overwrite(k, "pair"))
      /\ Steady(s, Overwrite(l, "msg_wait_pair"))
      /\ Steady(s, [k EXCEPT !.timer = "msg_start_pair"]) /\ Steady(s, l)
      /\ Steady(s, [k EXCEPT !.timer = "msg_start_conn"])
  BY <1>1, <1>2, LevelTimers, LevelTrans, LevelSteady
<1>4. QED
  BY <1>3 DEF dual_conn_app_event_handler, AppMsgs, k, l

(***************************************************************************)
(* What makes up for a switch that is still allowed: a message on its way  *)
(* whose handler forbids it.  A request of the user to page does not: it   *)
(* lists and pages, and leaves the switch as it is until the page timer.   *)
(***************************************************************************)
Forbidding(m) ==
    m.kind = "data" \/ (m.kind = "tws" /\ m.ev = "connected" /\ m.role = "master")
Ruled(q) == \E i \in DOMAIN q : Forbidding(q[i])
Paging(m) == m.kind = "app" /\ m.msg = "page_device"
Unpaged(q) == \A i \in DOMAIN q : ~Paging(q[i])

BudHeld(b) == Exempt(b) \/ RelayDue(b) \/ Forbids(bud[b]) \/ Ruled(queue[b])
HeldInv == Pairing(bud) /\ \A b \in Buds : BudHeld(b) /\ Unpaged(queue[b])

LEMMA RuledAppend ==
    ASSUME NEW S, NEW q \in Seq(S), NEW m \in S
    PROVE  /\ Ruled(q) => Ruled(Append(q, m))
           /\ Forbidding(m) => Ruled(Append(q, m))
           /\ Unpaged(q) /\ ~Paging(m) => Unpaged(Append(q, m))
<1> DEFINE n == Len(q)
           w == Append(q, m)
<1>1. /\ n \in Nat /\ DOMAIN q = 1..n /\ DOMAIN w = 1..(n + 1)
      /\ \A k \in 1..n : k \in 1..(n + 1) /\ w[k] = q[k]
      /\ n + 1 \in 1..(n + 1) /\ w[n + 1] = m
  BY AppendIndex
<1> HIDE DEF n, w
<1>2. \A k \in 1..(n + 1) : k \in 1..n \/ k = n + 1
  BY <1>1
<1>3. Ruled(q) => Ruled(w)
  BY <1>1 DEF Ruled
<1>4. Forbidding(m) => Ruled(w)
  BY <1>1 DEF Ruled
<1>5. Unpaged(q) /\ ~Paging(m) => Unpaged(w)
  BY <1>1, <1>2 DEF Unpaged
<1>6. QED
  BY <1>3, <1>4, <1>5 DEF w

LEMMA RuledTail ==
    ASSUME NEW S, NEW q \in Seq(S), q # <<>>
    PROVE  /\ Ruled(q) => Forbidding(Head(q)) \/ Ruled(Tail(q))
           /\ Unpaged(q) => Unpaged(Tail(q)) /\ ~Paging(Head(q))
<1> DEFINE w == Tail(q)
           h == Head(q)
<1>1. /\ 1 \in DOMAIN q /\ h = q[1]
      /\ \A k \in DOMAIN w : k + 1 \in DOMAIN q /\ w[k] = q[k + 1]
      /\ \A k \in DOMAIN q : k = 1 \/ (k - 1 \in DOMAIN w /\ q[k] = w[k - 1])
  BY TailIndex
<1> HIDE DEF w, h
<1>2. Ruled(q) => Forbidding(h) \/ Ruled(w)
  BY <1>1 DEF Ruled
<1>3. Unpaged(q) => Unpaged(w) /\ ~Paging(h)
  BY <1>1 DEF Unpaged
<1>4. QED
  BY <1>2, <1>3 DEF w, h

\* A step that leaves the roles and the link alone.
LEMMA HeldStays ==
    ASSUME NEW c \in Buds, BudHeld(c),
           bud'[c].role = bud[c].role, bud'[c].tws = bud[c].tws,
           bud[c].exit => bud'[c].exit,
           \A d \in Buds : bud[d].off => bud'[d].off,
           Leads(bud[c]) /\ Forbids(bud[c]) => Forbids(bud'[c]) \/ Exempt(c)',
           net[c] # <<>> => net'[c] # <<>> \/ Ruled(queue'[c]),
           \A d \in Buds : d # c /\ SwitchNews(queue[d]) =>
               \/ SwitchNews(queue'[d]) \/ net'[c] # <<>>
               \/ Exempt(c)' \/ ~Linked(bud[c]),
           Ruled(queue[c]) => Ruled(queue'[c]) \/ Forbids(bud'[c]) \/ Exempt(c)'
    PROVE  BudHeld(c)'
<1>1. Exempt(c) => Exempt(c)'
  BY DEF Exempt, Slave, Linked
<1>2. ~Exempt(c) => Leads(bud[c])
  BY DEF Exempt, Leads
<1>3. ~Linked(bud[c]) => Forbids(bud'[c])
  BY DEF Forbids, Linked
<1>4. CASE RelayDue(c)
  <2>1. CASE net[c] # <<>>
    BY <2>1 DEF BudHeld, RelayDue
  <2>2. CASE \E d \in Buds \ {c} : SwitchNews(queue[d])
    BY <1>3, <2>2 DEF BudHeld, RelayDue
  <2>3. QED
    BY <1>4, <2>1, <2>2 DEF RelayDue
<1>5. CASE ~RelayDue(c)
  BY <1>1, <1>2, <1>5 DEF BudHeld
<1>6. QED
  BY <1>4, <1>5

\* A call of b's own, and what it posts.
LEMMA HeldStep ==
    ASSUME IInv, HeldInv, NEW m \in GoodMessage, ~Paging(m),
           \A c \in Buds : /\ bud'[c].role = bud[c].role /\ bud'[c].tws = bud[c].tws
                           /\ bud[c].off => bud'[c].off
                           /\ bud[c].exit => bud'[c].exit
                           /\ Leads(bud[c]) /\ Forbids(bud[c])
                                  => Forbids(bud'[c]) \/ bud'[c].off \/ bud'[c].exit
                           /\ queue'[c] = queue[c] \/ queue'[c] = Append(queue[c], m)
                           /\ net[c] # <<>> => net'[c] # <<>> \/ Ruled(queue'[c])
    PROVE  HeldInv'
<1>1. Pairing(bud)'
  BY PairingStays DEF HeldInv
<1>2. ASSUME NEW c \in Buds PROVE BudHeld(c)' /\ Unpaged(queue[c])'
  <2>1. queue[c] \in Seq(GoodMessage) /\ BudHeld(c) /\ Unpaged(queue[c])
    BY QueueSeq DEF HeldInv
  <2>2. \A d \in Buds : SwitchNews(queue[d]) => SwitchNews(queue'[d])
    BY NewsPosted
  <2>3. Ruled(queue[c]) => Ruled(queue'[c])
    BY <2>1, RuledAppend
  <2>4. Leads(bud[c]) /\ Forbids(bud[c]) => Forbids(bud'[c]) \/ Exempt(c)'
    BY DEF Exempt
  <2>5. BudHeld(c)'
    BY <2>1, <2>2, <2>3, <2>4, HeldStays
  <2>6. Unpaged(queue'[c])
    BY <2>1, RuledAppend
  <2>7. QED
    BY <2>5, <2>6
<1>3. QED
  BY <1>1, <1>2 DEF HeldInv

LEMMA StartsApp == App("paired") \in GoodMessage /\ ~Paging(App("paired"))
BY GoodMessages DEF AppMsgs, App, Paging

LEMMA HeldTurn ==
    ASSUME IInv, HeldInv, NEW b \in Buds, NEW t, Steady(bud[b], t),
           bud' = [bud EXCEPT ![b] = t], queue' = queue, NetGrows
    PROVE  HeldInv'
<1>1. \A c \in Buds : bud'[c] = IF c = b THEN t ELSE bud[c]
  BY DEF IInv
<1>2. \A c \in Buds : /\ bud'[c].role = bud[c].role /\ bud'[c].tws = bud[c].tws
                      /\ bud'[c].off = bud[c].off /\ bud'[c].exit = bud[c].exit
                      /\ Leads(bud[c]) /\ Forbids(bud[c]) => Forbids(bud'[c])
  BY <1>1 DEF Steady, Same
<1>3. \A c \in Buds : queue'[c] = queue[c] /\ (net[c] # <<>> => net'[c] # <<>>)
  BY DEF NetGrows
<1>4. QED
  BY <1>2, <1>3, StartsApp, HeldStep

\* The head of b's queue is handled.
LEMMA HeldHandled ==
    ASSUME IInv, HeldInv, NEW b \in Buds, queue[b] # <<>>, NEW t,
           Steady(bud[b], t), Forbidding(Head(queue[b])) => Settles(bud[b], t),
           Handled(b, t), NetGrows,
           NewSlave(Head(queue[b])) /\ ~bud[b].off /\ Linked(bud[b])
               => \A c \in Buds : c # b => net'[c] # <<>>
    PROVE  HeldInv'
<1> DEFINE s == bud[b]
           q == queue[b]
<1>1. \A c \in Buds : /\ bud'[c] = IF c = b THEN t ELSE bud[c]
                      /\ queue'[c] = IF c = b THEN Tail(q) ELSE queue[c]
  BY DEF Handled, IInv
<1>2. q \in Seq(GoodMessage) /\ Same(s, t)
  BY DEF IInv, Steady
<1>3. \A c \in Buds : bud'[c].role = bud[c].role /\ bud'[c].tws = bud[c].tws
                      /\ bud'[c].off = bud[c].off /\ bud'[c].exit = bud[c].exit
  BY <1>1, <1>2 DEF Same
<1>4. Pairing(bud)'
  BY <1>3, PairingStays DEF HeldInv
<1>5. ASSUME NEW c \in Buds, NEW d \in Buds, d # c, SwitchNews(queue[d])
      PROVE  SwitchNews(queue'[d]) \/ net'[c] # <<>> \/ Exempt(c)' \/ ~Linked(bud[c])
  <2>1. CASE d = b /\ NewSlave(Head(q))
    <3>1. CASE ~Linked(bud[c])
      BY <3>1
    <3>2. CASE Linked(bud[c]) /\ bud[b].off
      <4>1. Linked(bud[c])' /\ bud'[b].off
        BY <1>3, <3>2 DEF Linked
      <4>2. QED
        BY <4>1 DEF Exempt
    <3>3. CASE Linked(bud[c]) /\ ~bud[b].off
      <4>1. Linked(bud[b])
        BY <3>3 DEF HeldInv, Pairing
      <4>2. QED
        BY <1>5, <2>1, <3>3, <4>1
    <3>4. QED
      BY <3>1, <3>2, <3>3
  <2>2. CASE d # b \/ ~NewSlave(Head(q))
    BY <1>1, <1>2, <1>5, <2>2, NewsTailKept
  <2>3. QED
    BY <2>1, <2>2
<1>6. ASSUME NEW c \in Buds
      PROVE  Ruled(queue[c]) => Ruled(queue'[c]) \/ Forbids(bud'[c]) \/ Exempt(c)'
  <2>1. CASE c # b
    BY <1>1, <2>1
  <2>2. CASE c = b /\ Forbidding(Head(q))
    <3>1. ~Leads(s) => Exempt(b)'
      BY <1>3 DEF Leads, Exempt, Slave
    <3>2. Leads(s) => Forbids(t)
      BY <2>2 DEF Settles
    <3>3. QED
      BY <1>1, <2>2, <3>1, <3>2
  <2>3. CASE c = b /\ ~Forbidding(Head(q))
    BY <1>1, <1>2, <2>3, RuledTail
  <2>4. QED
    BY <2>1, <2>2, <2>3
<1>7. ASSUME NEW c \in Buds PROVE BudHeld(c)'
  <2>1. BudHeld(c)
    BY DEF HeldInv
  <2>2. Leads(bud[c]) /\ Forbids(bud[c]) => Forbids(bud'[c])
    BY <1>1 DEF Steady
  <2>3. net[c] # <<>> => net'[c] # <<>>
    BY DEF NetGrows
  <2>4. QED
    BY <1>3, <1>5, <1>6, <2>1, <2>2, <2>3, HeldStays
<1>8. ASSUME NEW c \in Buds PROVE Unpaged(queue'[c])
  BY <1>1, <1>2, RuledTail DEF HeldInv
<1>9. QED
  BY <1>4, <1>7, <1>8 DEF HeldInv

LEMMA HeldStartProc ==
    ASSUME IInv, HeldInv, NEW b \in Buds, HandleStartProc(b) PROVE HeldInv'
<1> DEFINE s == bud[b]
           q == queue[b]
           m == App(IF s.tws = "unpaired" THEN "unpaired" ELSE "paired")
           w == Append(Tail(q), m)
<1>1. /\ q # <<>> /\ Head(q).kind = "app" /\ bud' = bud /\ net' = net
      /\ queue' = [queue EXCEPT ![b] = w]
  BY DEF HandleStartProc, Waiting
<1>2. /\ q \in Seq(GoodMessage) /\ Tail(q) \in Seq(GoodMessage) /\ m \in GoodMessage
      /\ ~Paging(m) /\ ~Forbidding(Head(q)) /\ ~NewSlave(Head(q))
  BY <1>1, QueueSeq, QueueHead, GoodMessages
     DEF AppMsgs, App, Paging, Forbidding, NewSlave
<1> HIDE DEF m
<1>3. /\ Ruled(q) => Ruled(w)
      /\ SwitchNews(q) => SwitchNews(w)
      /\ Unpaged(q) => Unpaged(w)
  BY <1>1, <1>2, RuledTail, RuledAppend, NewsTailKept, NewsKept
<1> HIDE DEF w
<1>4. \A c \in Buds : queue'[c] = IF c = b THEN w ELSE queue[c]
  BY <1>1 DEF IInv
<1>5. ASSUME NEW c \in Buds PROVE BudHeld(c)' /\ Unpaged(queue'[c])
  <2>1. \A d \in Buds : SwitchNews(queue[d]) => SwitchNews(queue'[d])
    BY <1>3, <1>4
  <2>2. Ruled(queue[c]) => Ruled(queue'[c])
    BY <1>3, <1>4
  <2>3. BudHeld(c)'
    BY <1>1, <2>1, <2>2, HeldStays DEF HeldInv
  <2>4. Unpaged(queue'[c])
    BY <1>3, <1>4 DEF HeldInv
  <2>5. QED
    BY <2>3, <2>4
<1>6. QED
  BY <1>1, <1>5 DEF HeldInv

LEMMA HeldHandle ==
    ASSUME IInv, HeldInv, NEW b \in Buds, HandleMessage(b) PROVE HeldInv'
<1> DEFINE m == Head(queue[b])
           s == bud[b]
<1>1. Good(s) /\ Pairing(bud) /\ Unpaged(queue[b])
  BY BudGood DEF HeldInv
<1>2. CASE HandlePhone(b)
  <2> DEFINE t == IF m.nth = 1 THEN FirstConnected(s, m.addr) ELSE SecondConnected(s, m.addr)
  <2>1. Waiting(b, "phone") /\ Handled(b, t) /\ net' = net
    BY <1>2 DEF HandlePhone
  <2>2. queue[b] # <<>> /\ m.kind = "phone" /\ m.addr \in Phones
    BY <2>1, WaitingHead DEF Message
  <2>3. Steady(s, t)
    BY <1>1, <2>2, FirstSteady, SecondSettles, SettlesSteady
  <2> HIDE DEF t
  <2>4. QED
    BY <2>1, <2>2, <2>3, NetStays, HeldHandled DEF NewSlave, Forbidding
<1>3. CASE HandleHci(b)
  <2> DEFINE t == dual_conn_hci_event_handler(s, m.ev, m.addr)
  <2>1. Waiting(b, "hci") /\ Handled(b, t) /\ net' = net
    BY <1>3 DEF HandleHci
  <2>2. queue[b] # <<>> /\ m.kind = "hci" /\ m.addr \in Phones
    BY <2>1, WaitingHead DEF Message
  <2>3. Steady(s, t)
    BY <1>1, <2>2, HciSteady
  <2> HIDE DEF t
  <2>4. QED
    BY <2>1, <2>2, <2>3, NetStays, HeldHandled DEF NewSlave, Forbidding
<1>4. CASE HandleConnected(b)
  <2> DEFINE t == TwsConnected(s, m.role)
  <2>1. /\ Waiting(b, "tws") /\ m.ev = "connected" /\ Handled(b, t)
        /\ Send(b, PageInfo(t)) \/ net' = net
    BY <1>4 DEF HandleConnected
  <2>2. queue[b] # <<>> /\ m.kind = "tws"
    BY <2>1, WaitingHead
  <2>3. Steady(s, t) /\ (m.role = "master" => Settles(s, t)) /\ OnceEach(PageInfo(t))
    BY <1>1, ConnectedSettles, GoodTwsConnected, GoodInfo
  <2> HIDE DEF t
  <2>4. NetGrows
    BY <1>1, <2>1, <2>3, SendGrows, NetStays
  <2>5. QED
    BY <2>1, <2>2, <2>3, <2>4, HeldHandled DEF NewSlave, Forbidding
<1>5. CASE HandleDetach(b)
  <2> DEFINE t == TwsDetached(s, m.role, m.reason)
  <2>1. Waiting(b, "tws") /\ m.ev = "detach" /\ Handled(b, t) /\ net' = net
    BY <1>5 DEF HandleDetach
  <2>2. queue[b] # <<>> /\ m.kind = "tws"
    BY <2>1, WaitingHead
  <2>3. Steady(s, t)
    BY <1>1, DetachedSteady
  <2> HIDE DEF t
  <2>4. QED
    BY <2>1, <2>2, <2>3, NetStays, HeldHandled DEF NewSlave, Forbidding
<1>6. CASE HandleSwitch(b)
  <2> DEFINE t == RoleSwitched(s, m.role)
  <2>1. /\ Waiting(b, "tws") /\ m.ev = "switch" /\ Handled(b, t)
        /\ IF m.role = "slave" /\ ~s.off THEN Send(b, PageInfo(t)) ELSE net' = net
    BY <1>6 DEF HandleSwitch
  <2>2. queue[b] # <<>> /\ m.kind = "tws"
    BY <2>1, WaitingHead
  <2>3. Steady(s, t) /\ OnceEach(PageInfo(t))
    BY <1>1, SwitchedSteady, GoodRoleSwitched, GoodInfo
  <2> HIDE DEF t
  <2>4. NetGrows
    BY <1>1, <2>1, <2>3, SendGrows, NetStays
  <2>5. NewSlave(m) /\ ~s.off /\ Linked(s) => \A c \in Buds : c # b => net'[c] # <<>>
    BY <1>1, <2>1, <2>3, SendGrows DEF NewSlave
  <2>6. QED
    BY <2>1, <2>2, <2>3, <2>4, <2>5, HeldHandled DEF Forbidding
<1>7. CASE HandleData(b)
  <2> DEFINE t == rx_device_info(s, m.info)
  <2>1. Waiting(b, "data") /\ Handled(b, t) /\ net' = net
    BY <1>7 DEF HandleData
  <2>2. queue[b] # <<>> /\ m.kind = "data" /\ OnceEach(m.info)
    BY <2>1, WaitingHead DEF GoodMessage
  <2>3. Settles(s, t) /\ Steady(s, t)
    BY <1>1, <2>2, RxSettles, SettlesSteady
  <2> HIDE DEF t
  <2>4. QED
    BY <2>1, <2>2, <2>3, NetStays, HeldHandled DEF NewSlave
<1>8. CASE HandleApp(b)
  <2> DEFINE t == dual_conn_app_event_handler(s, m.msg)
  <2>1. Waiting(b, "app") /\ m.msg \in AppMsgs /\ Handled(b, t) /\ net' = net
    BY <1>8 DEF HandleApp
  <2>2. queue[b] # <<>> /\ m.kind = "app"
    BY <2>1, WaitingHead
  <2>3. Steady(s, t)
    BY <1>1, <2>1, AppSteady
  <2> HIDE DEF t
  <2>4. QED
    BY <2>1, <2>2, <2>3, NetStays, HeldHandled DEF NewSlave, Forbidding
<1>9. CASE HandleStartProc(b)
  BY <1>9, HeldStartProc
<1>10. CASE HandlePageDevice(b)
  <2>1. queue[b] # <<>> /\ Paging(m)
    BY <1>10 DEF HandlePageDevice, Waiting, Paging
  <2>2. QED
    BY <1>1, <2>1, QueueSeq, RuledTail
<1>11. QED
  BY <1>2, <1>3, <1>4, <1>5, <1>6, <1>7, <1>8, <1>9, <1>10 DEF HandleMessage

LEMMA HeldReceive == ASSUME IInv, HeldInv, NEW b \in Buds, Receive(b) PROVE HeldInv'
<1> DEFINE m == Data(Head(net[b]))
<1>1. /\ Post(b, m) /\ bud' = bud /\ net[b] # <<>>
      /\ net' = [net EXCEPT ![b] = Tail(net[b])]
  BY DEF Receive
<1>2. m \in GoodMessage /\ Forbidding(m) /\ ~Paging(m)
  <2>1. m \in GoodMessage
    BY <1>1, GoodMessages, HeadTailProperties DEF IInv
  <2>2. QED
    BY <2>1 DEF Data, Forbidding, Paging
<1> HIDE DEF m
<1>3. \A c \in Buds : queue'[c] = IF c = b THEN Append(queue[b], m) ELSE queue[c]
  BY <1>1 DEF Post, IInv
<1>4. Ruled(queue'[b])
  BY <1>2, <1>3, QueueSeq, RuledAppend
<1>5. \A c \in Buds : c # b => net'[c] = net[c]
  BY <1>1 DEF IInv
<1>6. QED
  BY <1>1, <1>2, <1>3, <1>4, <1>5, HeldStep

LEMMA HeldClock == ASSUME IInv, HeldInv, NEW b \in Buds, Clock(b) PROVE HeldInv'
<1> DEFINE s == bud[b]
<1>1. Good(s) /\ s \in Bud /\ Pairing(bud)
  BY BudGood DEF HeldInv
<1>2. CASE Timeout(b)
  <2>1. bud' = [bud EXCEPT ![b] = RunTimer(s)] /\ queue' = queue /\ net' = net
    BY <1>2 DEF Timeout
  <2>2. QED
    BY <1>1, <2>1, RunTimerSteady, NetStays, HeldTurn
<1>3. CASE OrphanTimeout(b)
  <2>1. PICK cb : bud' = [bud EXCEPT ![b] = RunOrphan(s, cb)]
    BY <1>3 DEF OrphanTimeout
  <2>2. queue' = queue /\ net' = net
    BY <1>3 DEF OrphanTimeout
  <2>3. QED
    BY <1>1, <2>1, <2>2, RunOrphanSteady, NetStays, HeldTurn
<1>4. CASE InquiryTimeout(b)
  <2> DEFINE t == [close_inquiry_scan(s) EXCEPT
                       !.inquiry = FALSE,
                       !.orphans = IF s.inquiry THEN @ ELSE @ \ {"inquiry"}]
  <2>1. /\ bud' = [bud EXCEPT ![b] = t] /\ queue' = queue
        /\ Send(b, CountInfo(t)) \/ net' = net
    BY <1>4 DEF InquiryTimeout
  <2>2. Steady(s, t)
    BY <1>1, InquirySteady
  <2> HIDE DEF t
  <2>3. OnceEach(CountInfo(t))
    <3>1. IInv'
      BY <1>4, InquiryStep
    <3>2. bud'[b] = t /\ bud'[b] \in GoodState
      BY <2>1, <3>1 DEF IInv
    <3>3. QED
      BY <3>2, GoodStateIff, GoodInfo
  <2>4. NetGrows
    BY <1>1, <2>1, <2>3, SendGrows, NetStays
  <2>5. QED
    BY <2>1, <2>2, <2>4, HeldTurn
<1>5. CASE Receive(b)
  BY <1>5, HeldReceive
<1>6. ASSUME NEW p \in Phones, PageTimeout(b, p) PROVE HeldInv'
  <2>1. /\ p \in s.ptimers /\ queue' = queue /\ net' = net
        /\ bud' = [bud EXCEPT ![b] = dual_conn_page_device_timeout(s, p)]
    BY <1>6 DEF PageTimeout
  <2>2. QED
    BY <1>1, <2>1, PageTimeoutSettles, SettlesSteady, NetStays, HeldTurn
<1>7. ASSUME NEW p \in Phones, Elapse(b, p) PROVE HeldInv'
  <2>1. PICK i \in DOMAIN s.list :
            bud' = [bud EXCEPT ![b] = [s EXCEPT !.list[i].late = TRUE]]
    BY <1>7 DEF Elapse, IInv
  <2> DEFINE t == [s EXCEPT !.list[i].late = TRUE]
  <2>2. Steady(s, t)
    BY <1>1, ElapseSteady
  <2>3. queue' = queue /\ net' = net
    BY <1>7 DEF Elapse
  <2> HIDE DEF t
  <2>4. QED
    BY <2>1, <2>2, <2>3, NetStays, HeldTurn DEF t
<1>8. QED
  BY <1>2, <1>3, <1>4, <1>5, <1>6, <1>7 DEF Clock

(***************************************************************************)
(* The phones, the user and other modules.                                 *)
(***************************************************************************)

\* What a phone, or the end of a page, changes at b, and what is posted of it.
LEMMA HeldPosted ==
    ASSUME IInv, HeldInv, NEW b \in Buds, NEW x,
           \/ bud' = [bud EXCEPT ![b] = [bud[b] EXCEPT !.page = x]]
           \/ bud' = [bud EXCEPT ![b] = [bud[b] EXCEPT !.conn = x]],
           net' = net,
           NEW m \in GoodMessage, m.kind # "app",
           \A c \in Buds : queue'[c] = queue[c] \/ queue'[c] = Append(queue[c], m)
    PROVE  HeldInv'
<1> DEFINE s == bud[b]
<1>1. PICK t \in {[s EXCEPT !.page = x], [s EXCEPT !.conn = x]} : bud' = [bud EXCEPT ![b] = t]
  OBVIOUS
<1>2. /\ t.role = s.role /\ t.tws = s.tws /\ t.off = s.off /\ t.exit = s.exit
      /\ t.list = s.list /\ t.switch = s.switch
  <2>1. s \in Bud
    BY BudGood
  <2>2. t \in {[s EXCEPT !.page = x], [s EXCEPT !.conn = x]}
    OBVIOUS
  <2> HIDE DEF s
  <2>3. QED
    BY <2>1, <2>2 DEF Bud
<1>3. \A c \in Buds : bud'[c] = IF c = b THEN t ELSE bud[c]
  BY <1>1 DEF IInv
<1>4. \A c \in Buds : /\ bud'[c].role = bud[c].role /\ bud'[c].tws = bud[c].tws
                      /\ bud'[c].off = bud[c].off /\ bud'[c].exit = bud[c].exit
                      /\ Forbids(bud[c]) => Forbids(bud'[c])
  BY <1>2, <1>3 DEF Forbids, Linked, Slave
<1>5. ~Paging(m)
  BY DEF Paging
<1>6. QED
  BY <1>4, <1>5, HeldStep

LEMMA HeldPhones ==
    ASSUME IInv, HeldInv, NEW b \in Buds, NEW p \in Phones, NEW ev \in {"lost", "gone"},
           PhoneLink(b, p) \/ PhoneUp(b, p) \/ PhoneDown(b, p, ev)
    PROVE  HeldInv'
<1> DEFINE s == bud[b]
           x == IF s.page = p THEN NoPhone ELSE s.page
           n == IF s.conn = {} THEN 1 ELSE 2
<1>1. CASE PhoneLink(b, p)
  <2>1. /\ bud' = [bud EXCEPT ![b] = [s EXCEPT !.page = x]] /\ net' = net
        /\ PostAll(Peers(b), Hci("ok", p))
    BY <1>1 DEF PhoneLink
  <2>2. Hci("ok", p) \in GoodMessage /\ Hci("ok", p).kind # "app"
    BY GoodMessages DEF HciEvents, Hci
  <2> DEFINE m == Hci("ok", p)
  <2> HIDE DEF x, m
  <2>3. \A c \in Buds : queue'[c] = queue[c] \/ queue'[c] = Append(queue[c], m)
    BY <2>1, PostedAll DEF m
  <2>4. m \in GoodMessage /\ m.kind # "app"
    BY <2>2 DEF m
  <2>5. QED
    BY <2>1, <2>3, <2>4, HeldPosted
<1>2. CASE PhoneUp(b, p)
  <2> DEFINE m == PhoneEvent(n, p)
             y == s.conn \cup {p}
  <2>1. /\ bud' = [bud EXCEPT ![b] = [s EXCEPT !.conn = y]] /\ net' = net
        /\ PostAll(Peers(b), m)
    BY <1>2 DEF PhoneUp
  <2>2. m \in GoodMessage /\ m.kind # "app"
    BY GoodMessages DEF PhoneEvent
  <2> HIDE DEF m, y
  <2>3. \A c \in Buds : queue'[c] = queue[c] \/ queue'[c] = Append(queue[c], m)
    BY <2>1, PostedAll
  <2>4. QED
    BY <2>1, <2>2, <2>3, HeldPosted
<1>3. CASE PhoneDown(b, p, ev)
  <2> DEFINE m == Hci(ev, p)
             y == s.conn \ {p}
  <2>1. /\ bud' = [bud EXCEPT ![b] = [s EXCEPT !.conn = y]] /\ net' = net
        /\ PostAll(Peers(b), m)
    BY <1>3 DEF PhoneDown
  <2>2. m \in GoodMessage /\ m.kind # "app"
    BY GoodMessages DEF HciEvents, Hci
  <2> HIDE DEF m, y
  <2>3. \A c \in Buds : queue'[c] = queue[c] \/ queue'[c] = Append(queue[c], m)
    BY <2>1, PostedAll
  <2>4. QED
    BY <2>1, <2>2, <2>3, HeldPosted
<1>4. QED
  BY <1>1, <1>2, <1>3

LEMMA HeldPageFails ==
    ASSUME IInv, HeldInv, NEW b \in Buds, NEW ev \in {"lost", "gone", "rejected"},
           PageFails(b, ev)
    PROVE  HeldInv'
<1> DEFINE s == bud[b]
           m == Hci(ev, s.page)
<1>1. /\ s.page # NoPhone /\ bud' = [bud EXCEPT ![b] = [s EXCEPT !.page = NoPhone]]
      /\ Post(b, m) /\ net' = net
  BY DEF PageFails
<1>2. m \in GoodMessage /\ m.kind # "app"
  <2>1. s.page \in Phones
    BY <1>1, BudGood DEF Bud
  <2>2. QED
    BY <2>1, GoodMessages DEF HciEvents, Hci
<1> HIDE DEF m
<1>3. \A c \in Buds : queue'[c] = queue[c] \/ queue'[c] = Append(queue[c], m)
  BY <1>1, PostedOne
<1>4. QED
  BY <1>1, <1>2, <1>3, HeldPosted

LEMMA HeldUserMsg ==
    ASSUME IInv, HeldInv, "page_device" \notin UserOps, NEW b \in Buds, UserMsg(b)
    PROVE  HeldInv'
<1>1. PICK x \in UserOps \cap (AppMsgs \cup {"start_proc", "page_device"}) : Post(b, App(x))
  BY DEF UserMsg
<1> DEFINE m == App(x)
<1>2. bud' = bud /\ net' = net
  BY DEF UserMsg
<1>3. m \in GoodMessage /\ ~Paging(m)
  BY <1>1, GoodMessages DEF App, Paging
<1> HIDE DEF m
<1>4. \A c \in Buds : queue'[c] = queue[c] \/ queue'[c] = Append(queue[c], m)
  BY <1>1, PostedOne DEF m
<1>5. QED
  BY <1>2, <1>3, <1>4, HeldStep

LEMMA HeldUser ==
    ASSUME IInv, HeldInv, NEW b \in Buds, Refresh(b) \/ Esco(b) PROVE HeldInv'
<1> DEFINE s == bud[b]
<1>1. s \in Bud
  BY BudGood
<1>2. CASE Refresh(b)
  <2>1. /\ bud' = [bud EXCEPT ![b] = tws_dual_conn_state_handler(s)]
        /\ queue' = queue /\ net' = net
    BY <1>2 DEF Refresh
  <2>2. QED
    BY <1>1, <2>1, StateSettles, SettlesSteady, NetStays, HeldTurn
<1>3. CASE Esco(b)
  <2> DEFINE x == [s EXCEPT !.esco = ~s.esco]
             t == IF x.off /\ ~x.esco THEN x ELSE tws_page_scan_deal_by_esco(x)
  <2>1. bud' = [bud EXCEPT ![b] = t] /\ queue' = queue /\ net' = net
    BY <1>3 DEF Esco
  <2>2. (~s.esco) \in BOOLEAN
    BY <1>1 DEF Bud
  <2>3. x \in Bud /\ Steady(s, x)
    <3>1. Level(s, x)
      BY <1>1, <2>2 DEF Level, Same, Bud
    <3>2. QED
      BY <3>1, LevelSteady DEF Level
  <2> HIDE DEF x
  <2>4. Steady(s, t)
    BY <2>3, EscoSteady, SteadyTrans
  <2>5. QED
    BY <2>1, <2>4, NetStays, HeldTurn
<1>4. QED
  BY <1>2, <1>3

LEMMA HeldClose ==
    ASSUME IInv, HeldInv, NEW b \in Buds, SoftPoweroff(b) \/ ModeExit(b) PROVE HeldInv'
<1> DEFINE s == bud[b]
           x == [s EXCEPT !.off = TRUE]
           y == [s EXCEPT !.exit = TRUE]
           u == tws_dual_conn_close(x)
           v == tws_dual_conn_close(y)
<1>1. Good(x) /\ Good(y) /\ s \in Bud
  BY BudGood, GoodOutside
<1>2. /\ x.role = s.role /\ x.tws = s.tws /\ x.off /\ x.exit = s.exit
      /\ y.role = s.role /\ y.tws = s.tws /\ y.exit /\ y.off = s.off
  <2> HIDE DEF s
  <2>1. QED
    BY <1>1 DEF Bud
<1> HIDE DEF x, y
<1>3. Good(u) /\ Good(v)
  BY <1>1, GoodClose
<1>4. /\ u.role = s.role /\ u.tws = s.tws /\ u.off /\ u.exit = s.exit
      /\ v.role = s.role /\ v.tws = s.tws /\ v.exit /\ v.off = s.off
  BY <1>1, <1>2, CloseFields DEF Same
<1>5. PICK t \in {u, v} : /\ bud' = [bud EXCEPT ![b] = t]
                          /\ Send(b, PageInfo(t)) \/ net' = net
  BY DEF SoftPoweroff, ModeExit, x, y
<1>6. queue' = queue
  BY DEF SoftPoweroff, ModeExit
<1> HIDE DEF u, v
<1>7. /\ Good(t) /\ t.role = s.role /\ t.tws = s.tws
      /\ (t.off \/ t.exit) /\ (s.off => t.off) /\ (s.exit => t.exit)
  BY <1>3, <1>4
<1>8. NetGrows
  BY <1>5, <1>7, GoodInfo, SendGrows, NetStays DEF HeldInv
<1>9. \A c \in Buds : bud'[c] = IF c = b THEN t ELSE bud[c]
  BY <1>5 DEF IInv
<1>10. \A c \in Buds : /\ bud'[c].role = bud[c].role /\ bud'[c].tws = bud[c].tws
                       /\ (bud[c].off => bud'[c].off) /\ (bud[c].exit => bud'[c].exit)
                       /\ Forbids(bud[c]) => Forbids(bud'[c]) \/ bud'[c].off \/ bud'[c].exit
  BY <1>7, <1>9
<1>11. \A c \in Buds : queue'[c] = queue[c] /\ (net[c] # <<>> => net'[c] # <<>>)
  BY <1>6, <1>8 DEF NetGrows
<1>12. QED
  BY <1>10, <1>11, StartsApp, HeldStep

\* The links are gone: a bud without one forbids nothing.
LEMMA HeldModeInit ==
    ASSUME IInv, HeldInv, NEW b \in Buds, ModeInit(b) PROVE HeldInv'
<1> DEFINE s == bud[b]
           w == [s EXCEPT !.exit = FALSE]
           u == [w EXCEPT !.switch = TRUE]
           m == bt_tws_poweron(s.tws)
<1>1. PICK rec \in Records :
          bud' = [bud EXCEPT ![b] = dual_conn_page_devices_init(u, rec)]
  BY DEF ModeInit
<1>2. ~Linked(s) /\ Post(b, m) /\ net' = net
  BY DEF ModeInit
<1>3. u \in Bud /\ u.role = s.role /\ u.tws = s.tws /\ u.off = s.off
  <2>1. s \in Bud
    BY BudGood
  <2> HIDE DEF s
  <2>2. w \in Bud
    BY <2>1 DEF Bud
  <2>3. w.role = s.role /\ w.tws = s.tws /\ w.off = s.off
    BY <2>1 DEF Bud
  <2> HIDE DEF w
  <2>4. QED
    BY <2>2, <2>3 DEF Bud
<1> HIDE DEF u
<1> DEFINE t == dual_conn_page_devices_init(u, rec)
<1>4. t.role = s.role /\ t.tws = s.tws /\ t.off = s.off
  BY <1>3, InitSame DEF Same
<1> HIDE DEF t
<1>5. m \in GoodMessage /\ m.kind = "app" /\ ~Paging(m)
  BY PowerOnRearms DEF bt_tws_poweron, App, Paging
<1> HIDE DEF m
<1>6. \A c \in Buds : /\ bud'[c] = IF c = b THEN t ELSE bud[c]
                      /\ queue'[c] = queue[c] \/ queue'[c] = Append(queue[c], m)
  BY <1>1, <1>2, PostedOne DEF IInv, t
<1>7. \A c \in Buds : /\ bud'[c].role = bud[c].role /\ bud'[c].tws = bud[c].tws
                      /\ bud'[c].off = bud[c].off
  BY <1>4, <1>6
<1>8. Pairing(bud)'
  BY <1>7, PairingStays DEF HeldInv
<1>9. ASSUME NEW c \in Buds PROVE BudHeld(c)' /\ Unpaged(queue'[c])
  <2>1. queue[c] \in Seq(GoodMessage) /\ BudHeld(c) /\ Unpaged(queue[c])
    BY QueueSeq DEF HeldInv
  <2>2. Unpaged(queue'[c])
    BY <1>5, <1>6, <2>1, RuledAppend
  <2>3. CASE c = b
    <3>1. Forbids(t)
      BY <1>2, <1>4 DEF Forbids, Linked
    <3>2. QED
      BY <1>6, <2>2, <2>3, <3>1 DEF BudHeld
  <2>4. CASE c # b
    <3>1. \A d \in Buds : SwitchNews(queue[d]) => SwitchNews(queue'[d])
      BY <1>5, <1>6, NewsPosted
    <3>2. Ruled(queue[c]) => Ruled(queue'[c])
      BY <1>5, <1>6, <2>1, RuledAppend
    <3>3. BudHeld(c)'
      BY <1>2, <1>6, <1>7, <2>1, <2>4, <3>1, <3>2, HeldStays
    <3>4. QED
      BY <2>2, <3>3
  <2>5. QED
    BY <2>3, <2>4
<1>10. QED
  BY <1>8, <1>9 DEF HeldInv

(***************************************************************************)
(* The TWS link.                                                           *)
(***************************************************************************)

LEMMA HeldNews ==
    ASSUME IInv, HeldInv, NEW f, NEW g, bud' = [c \in Buds |-> f[c]],
           queue' = [c \in Buds |-> Append(queue[c], g[c])], Pairing(f),
           \A c \in Buds : /\ g[c] \in GoodMessage /\ g[c].kind = "tws"
                           /\ \/ Slave(f[c]) \/ ~Linked(f[c])
                              \/ Forbidding(g[c]) \/ RelayDue(c)'
    PROVE  HeldInv'
<1>1. Pairing(bud)'
  BY DEF Pairing
<1>2. ASSUME NEW c \in Buds PROVE BudHeld(c)' /\ Unpaged(queue'[c])
  <2>1. queue[c] \in Seq(GoodMessage) /\ Unpaged(queue[c])
    BY QueueSeq DEF HeldInv
  <2>2. bud'[c] = f[c] /\ queue'[c] = Append(queue[c], g[c])
    OBVIOUS
  <2>3. Unpaged(queue'[c])
    BY <2>1, <2>2, RuledAppend DEF Paging
  <2>4. Forbidding(g[c]) => Ruled(queue'[c])
    BY <2>1, <2>2, RuledAppend
  <2>5. BudHeld(c)'
    BY <2>2, <2>4 DEF BudHeld, Exempt, Forbids
  <2>6. QED
    BY <2>3, <2>5
<1>3. QED
  BY <1>1, <1>2 DEF HeldInv

LEMMA HeldTwsLink == ASSUME IInv, HeldInv, NEW b \in Buds, TwsLink(b) PROVE HeldInv'
<1> DEFINE role == [c \in Buds |-> IF c = b THEN "master" ELSE "slave"]
           f == [c \in Buds |-> [bud[c] EXCEPT !.tws = "linked", !.op = "idle",
                                               !.role = role[c]]]
           g == [c \in Buds |-> Tws("connected", role[c], "other")]
<1>1. /\ bud' = [c \in Buds |-> f[c]]
      /\ queue' = [c \in Buds |-> Append(queue[c], g[c])]
  BY DEF TwsLink
<1>2. \A c \in Buds : role[c] \in Role /\ bud[c] \in Bud
                      /\ role[c] = IF c = b THEN "master" ELSE "slave"
  BY BudGood DEF Role
<1> HIDE DEF role
<1>3. \A c \in Buds : f[c].role = role[c] /\ f[c].tws = "linked"
  BY <1>2 DEF Bud
<1>4. \A c \in Buds : g[c] \in GoodMessage
  BY <1>2, GoodMessages DEF DetachReason
<1>5. \A c \in Buds : g[c].kind = "tws" /\ g[c].role = role[c] /\ g[c].ev = "connected"
  BY DEF Tws
<1> HIDE DEF f, g
<1>6. \A c, d \in Buds : c # d => (c = b <=> d # b)
  BY TwoBuds
<1>7. Pairing(f)
  BY <1>2, <1>3, <1>6 DEF Pairing, Linked, Slave
<1>8. \A c \in Buds : Slave(f[c]) \/ Forbidding(g[c])
  BY <1>2, <1>3, <1>5 DEF Slave, Forbidding
<1>9. QED
  BY <1>1, <1>4, <1>5, <1>7, <1>8, HeldNews

LEMMA HeldTwsDetach ==
    ASSUME IInv, HeldInv, NEW reason \in DetachReason, TwsDetach(reason) PROVE HeldInv'
<1> DEFINE x == IF reason = "remove_pairs" THEN "unpaired" ELSE "paired"
           f == [c \in Buds |-> [bud[c] EXCEPT !.role = "master", !.tws = x]]
           g == [c \in Buds |-> Tws("detach", bud[c].role, reason)]
<1>1. /\ bud' = [c \in Buds |-> f[c]]
      /\ queue' = [c \in Buds |-> Append(queue[c], g[c])]
  BY DEF TwsDetach
<1>2. x # "linked" /\ \A c \in Buds : bud[c] \in Bud /\ bud[c].role \in Role
  BY BudGood DEF Bud
<1> HIDE DEF x
<1>3. \A c \in Buds : f[c].tws = x
  BY <1>2 DEF Bud
<1>4. \A c \in Buds : g[c] \in GoodMessage
  BY <1>2, GoodMessages
<1>5. \A c \in Buds : g[c].kind = "tws"
  BY DEF Tws
<1> HIDE DEF f, g
<1>6. Pairing(f) /\ \A c \in Buds : ~Linked(f[c])
  BY <1>2, <1>3 DEF Pairing, Linked
<1>7. QED
  BY <1>1, <1>4, <1>5, <1>6, HeldNews

\* The new master waits for the list of the old one.
LEMMA HeldRoleSwitch == ASSUME IInv, HeldInv, RoleSwitch PROVE HeldInv'
<1> DEFINE role == [c \in Buds |-> IF Slave(bud[c]) THEN "master" ELSE "slave"]
           conn == [c \in Buds |-> bud[Sibling(c)].conn]
           f == [c \in Buds |-> [bud[c] EXCEPT !.role = role[c],
                                               !.conn = bud[Sibling(c)].conn]]
           g == [c \in Buds |-> Tws("switch", role[c], "other")]
<1>1. /\ bud' = [c \in Buds |-> f[c]] /\ HasSibling
      /\ queue' = [c \in Buds |-> Append(queue[c], g[c])]
      /\ \A c \in Buds : Linked(bud[c])
  BY DEF RoleSwitch
<1>2. \A c \in Buds : role[c] \in Role /\ bud[c] \in Bud
                      /\ role[c] = IF Slave(bud[c]) THEN "master" ELSE "slave"
  BY BudGood DEF Role
<1> HIDE DEF role
<1>3. \A c \in Buds : f[c].role = role[c] /\ f[c].tws = "linked"
  <2> HIDE DEF conn
  <2> TAKE c \in Buds
  <2> DEFINE s == bud[c]
             k == conn[c]
             r == role[c]
  <2>1. s \in Bud /\ s.tws = "linked"
    BY <1>1, <1>2 DEF Linked
  <2>2. f[c] = [s EXCEPT !.role = r, !.conn = k]
    BY DEF conn
  <2> HIDE DEF s, k, r
  <2>3. /\ [s EXCEPT !.role = r, !.conn = k].role = r
        /\ [s EXCEPT !.role = r, !.conn = k].tws = s.tws
    BY <2>1 DEF Bud
  <2>4. QED
    BY <2>1, <2>2, <2>3 DEF r
<1>4. \A c \in Buds : g[c] \in GoodMessage
  BY <1>2, GoodMessages DEF DetachReason
<1>5. \A c \in Buds : g[c].kind = "tws" /\ g[c].role = role[c] /\ g[c].ev = "switch"
  BY DEF Tws
<1> HIDE DEF f, g
<1>6. \A c, d \in Buds : c # d => (Slave(bud[c]) <=> ~Slave(bud[d]))
  BY <1>1 DEF HeldInv, Pairing
<1>7. Pairing(f)
  BY <1>2, <1>3, <1>6 DEF Pairing, Linked, Slave
<1>8. ASSUME NEW c \in Buds, Slave(bud[c]) PROVE RelayDue(c)'
  <2>1. PICK d \in Buds : d # c
    <3> SUFFICES ASSUME \A d \in Buds : d = c PROVE FALSE
      OBVIOUS
    <3>1. Buds = {c}
      OBVIOUS
    <3>2. Cardinality(Buds) = 1
      BY <3>1, FS_Singleton
    <3>3. QED
      BY <1>1, <3>2 DEF HasSibling
  <2>2. NewSlave(g[d])
    BY <1>2, <1>5, <1>6, <1>8, <2>1 DEF NewSlave
  <2>3. SwitchNews(queue'[d])
    BY <1>1, <1>4, <2>2, QueueSeq, NewsKept
  <2>4. QED
    BY <2>1, <2>3 DEF RelayDue
<1>9. \A c \in Buds : Slave(f[c]) \/ RelayDue(c)'
  BY <1>2, <1>3, <1>8 DEF Slave
<1>10. QED
  BY <1>1, <1>4, <1>5, <1>7, <1>9, HeldNews

(***************************************************************************)
(* The theorem.                                                            *)
(***************************************************************************)

LEMMA HeldEnvironment ==
    ASSUME IInv, HeldInv, "page_device" \notin UserOps, Environment PROVE HeldInv'
BY HeldPhones, HeldPageFails, HeldTwsLink, HeldTwsDetach, HeldRoleSwitch,
   HeldUserMsg, HeldUser, HeldClose, HeldModeInit DEF Environment

LEMMA InitHeld == Init => HeldInv
<1> SUFFICES ASSUME Init PROVE HeldInv
  OBVIOUS
<1>1. PICK tws \in {"paired", "unpaired"}, rec \in [Buds -> Records] :
          /\ bud = [b \in Buds |-> dual_conn_page_devices_init(Blank(tws), rec[b])]
          /\ queue = [b \in Buds |-> <<bt_tws_poweron(tws)>>]
  BY DEF Init
<1>2. Blank(tws) \in Bud /\ Blank(tws).tws = tws
  BY BlankGood, GoodBud DEF Blank
<1>3. \A b \in Buds : ~Linked(bud[b])
  BY <1>1, <1>2, InitSame DEF Same, Linked
<1>4. ~Paging(bt_tws_poweron(tws))
  BY DEF bt_tws_poweron, App, Paging
<1>5. \A b \in Buds : Unpaged(queue[b])
  <2> DEFINE m == bt_tws_poweron(tws)
             q == <<m>>
  <2> HIDE DEF m
  <2>1. DOMAIN q = {1} /\ q[1] = m
    OBVIOUS
  <2> HIDE DEF q
  <2>2. Unpaged(q)
    BY <1>4, <2>1 DEF Unpaged, m
  <2>3. QED
    BY <1>1, <2>2 DEF q, m
<1>6. QED
  BY <1>3, <1>5 DEF HeldInv, Pairing, BudHeld, Forbids

LEMMA NextHeld ==
    ASSUME "page_device" \notin UserOps PROVE IInv /\ HeldInv /\ [Next]_vars => HeldInv'
<1> SUFFICES ASSUME IInv, HeldInv, [Next]_vars PROVE HeldInv'
  OBVIOUS
<1>1. CASE UNCHANGED vars
  BY <1>1 DEF vars, HeldInv, BudHeld, Exempt, RelayDue
<1>2. CASE Next
  BY <1>2, HeldHandle, HeldClock, HeldEnvironment DEF Next
<1>3. QED
  BY <1>1, <1>2

LEMMA HeldSettled == HeldInv => NoSwitchWhilePaging
<1> SUFFICES ASSUME HeldInv, Settled, NEW b \in Buds, InCharge(b), Linked(bud[b]),
                    Listed(b) # {}, SiblingInUse(b)
             PROVE  ~bud[b].switch
  BY DEF NoSwitchWhilePaging
<1>1. \A c \in Buds : queue[c] = <<>> /\ net[c] = <<>>
  BY DEF Settled
<1>2. ~Exempt(b)
  BY DEF Exempt, InCharge, InUse, SiblingInUse
<1>3. ~RelayDue(b) /\ ~Ruled(queue[b])
  BY <1>1 DEF RelayDue, SwitchNews, Ruled
<1>4. Forbids(bud[b])
  BY <1>2, <1>3 DEF HeldInv, BudHeld
<1>5. bud[b].list # <<>>
  BY DEF Listed, Addrs
<1>6. QED
  BY <1>4, <1>5 DEF Forbids, InCharge

\* Unless the user asks for a page, a linked master that has devices to page has told the
\* library not to swap the roles, once nothing is on its way: through losses, relays and
\* switches, in whatever order the news of them is handled.
THEOREM RolesStay ==
    ASSUME "page_device" \notin UserOps PROVE Spec => []NoSwitchWhilePaging
<1>1. Spec => [](IInv /\ HeldInv)
  <2>1. Init => IInv /\ HeldInv
    BY InitIInv, InitHeld
  <2>2. (IInv /\ HeldInv) /\ [Next]_vars => (IInv /\ HeldInv)'
    BY NextIInv, NextHeld
  <2>3. QED
    BY <2>1, <2>2, PTL DEF Spec
<1>2. QED
  BY <1>1, HeldSettled, PTL

(***************************************************************************)
(* Being found.  A bud in charge without a phone scans, searches or waits  *)
(* for its sibling, or pages.  The state handler and the pager see to it;  *)
(* what closes the scans or ends a search without them is a connection of  *)
(* a phone, the role of a slave, and the timer of a request to wait to be  *)
(* paired.                                                                 *)
(***************************************************************************)
Findable(s) == s.scan # "off" \/ s.op # "idle" \/ s.ptimers # {}
Lonely(s) == Leads(s) /\ s.conn = {}
Waits(s) == s.timer = "msg_wait_pair" \/ "msg_wait_pair" \in s.orphans

\* What a function starts no wait in, keeps findable, makes findable.
Alike(s, t) == Same(s, t) /\ (Waits(t) => Waits(s))
Stays(s, t) == Alike(s, t) /\ (Lonely(s) /\ Findable(s) => Findable(t))
Opens(s, t) == Alike(s, t) /\ (Lonely(s) => Findable(t))

LEMMA SameLonely == ASSUME NEW s, NEW t, Same(s, t) PROVE Lonely(t) = Lonely(s)
BY SameLeads DEF Same, Lonely

LEMMA AlikeTrans ==
    ASSUME NEW s, NEW t, NEW u, Alike(s, t), Alike(t, u) PROVE Alike(s, u)
BY SameTrans DEF Alike

LEMMA StaysTrans ==
    ASSUME NEW s, NEW t, NEW u, Stays(s, t), Stays(t, u) PROVE Stays(s, u)
BY AlikeTrans, SameLonely DEF Stays, Alike

LEMMA OpensAfter ==
    ASSUME NEW s, NEW t, NEW u, Alike(s, t), Opens(t, u) PROVE Opens(s, u)
BY AlikeTrans, SameLonely DEF Opens, Alike

LEMMA OpensStays == ASSUME NEW s, NEW t, Opens(s, t) PROVE Stays(s, t)
BY DEF Opens, Stays

LEMMA StaysSelf == ASSUME NEW s PROVE Stays(s, s) /\ Alike(s, s)
BY DEF Stays, Alike, Same

LEMMA RestsAlike == ASSUME NEW s, NEW t, Rests(s, t) PROVE Alike(s, t)
BY DEF Rests, Alike, Waits

\* The scans, the search and the page timers are left alone.
LEMMA AlikeStays ==
    ASSUME NEW s, NEW t, Alike(s, t), t.scan = s.scan, t.op = s.op, t.ptimers = s.ptimers
    PROVE  Stays(s, t)
BY DEF Stays, Findable

LEMMA AlikeSetters ==
    ASSUME NEW s \in Bud
    PROVE  /\ Alike(s, Seek(s)) /\ Alike(s, Listen(s))
           /\ Alike(s, CancelSeek(s)) /\ Alike(s, CancelListen(s))
           /\ Alike(s, PageCancel(s)) /\ Alike(s, DelTimer(s))
           /\ \A m \in Scan : Alike(s, write_scan_conn_enable(s, m))
<1>1. /\ Alike(s, Seek(s)) /\ Alike(s, Listen(s))
      /\ Alike(s, CancelSeek(s)) /\ Alike(s, CancelListen(s)) /\ Alike(s, PageCancel(s))
      /\ \A m \in Scan : Alike(s, write_scan_conn_enable(s, m))
  BY RestsOp, RestsCancel, RestsPage, RestsScan, RestsAlike
<1>2. Alike(s, DelTimer(s))
  BY DEF DelTimer, Alike, Same, Waits, Bud
<1>3. QED
  BY <1>1, <1>2

LEMMA AlikeTimers ==
    ASSUME NEW s \in Bud, NEW h, h # "msg_wait_pair"
    PROVE  /\ Stays(s, [s EXCEPT !.timer = h])
           /\ Stays(s, Overwrite(s, h))
<1> DEFINE t == [s EXCEPT !.timer = h]
           u == Overwrite(s, h)
<1>1. /\ Same(s, t) /\ t.timer = h /\ t.orphans = s.orphans
      /\ t.scan = s.scan /\ t.op = s.op /\ t.ptimers = s.ptimers
  BY DEF Same, Bud
<1>2. /\ Same(s, u) /\ u.timer = h
      /\ u.orphans = IF s.timer \in Callback THEN s.orphans \cup {s.timer} ELSE s.orphans
      /\ u.scan = s.scan /\ u.op = s.op /\ u.ptimers = s.ptimers
  BY DEF Same, Bud, Overwrite
<1> HIDE DEF t, u
<1>3. Alike(s, t) /\ Alike(s, u)
  BY <1>1, <1>2 DEF Alike, Waits
<1>4. Stays(s, t) /\ Stays(s, u)
  BY <1>1, <1>2, <1>3, AlikeStays
<1>5. QED
  BY <1>4 DEF t, u

\* Searching and waiting to be found.
LEMMA OpFinds ==
    ASSUME NEW s \in Bud
    PROVE  /\ Findable(Seek(s)) /\ Findable(Listen(s))
           /\ Findable(write_scan_conn_enable(s, "both"))
           /\ Findable(write_scan_conn_enable(s, "page"))
           /\ Opens(s, Seek(s)) /\ Opens(s, Listen(s))
           /\ Opens(s, write_scan_conn_enable(s, "both"))
<1>1. /\ Findable(Seek(s)) /\ Findable(Listen(s))
      /\ Findable(write_scan_conn_enable(s, "both"))
      /\ Findable(write_scan_conn_enable(s, "page"))
  BY DEF Findable, Seek, Listen, write_scan_conn_enable, Bud
<1>2. QED
  BY <1>1, AlikeSetters DEF Opens, Scan

(***************************************************************************)
(* The state handler and the pager.                                        *)
(***************************************************************************)

LEMMA RestsOpenScan ==
    ASSUME NEW s \in Bud
    PROVE  /\ Rests(s, dual_conn_try_open_inquiry_scan(s))
           /\ Rests(s, dual_conn_try_open_inquiry_page_scan(s))
           /\ Rests(s, OnePhoneScan(s))
BY RestsScans, RestsSelf
   DEF dual_conn_try_open_inquiry_scan, dual_conn_try_open_inquiry_page_scan, OnePhoneScan

LEMMA RestsStartPage ==
    ASSUME NEW s \in Bud, NEW p \in Phones PROVE Rests(s, StartPage(s, p))
BY KeepsPage DEF Rests, Same, Keeps, Bud, StartPage

LEMMA RestsLinkedScan == ASSUME NEW s \in Bud PROVE Rests(s, LinkedScan(s))
<1> DEFINE paged == IF page_list_empty(s) THEN s ELSE StartPage(s, Head(s.list).addr)
<1>1. Rests(s, paged) /\ paged \in Bud
  BY RestsSelf, RestsStartPage, HeadPhone DEF Rests
<1> HIDE DEF paged
<1>2. /\ Rests(s, write_scan_conn_enable(paged, "off"))
      /\ Rests(s, write_scan_conn_enable(paged, "page"))
  BY <1>1, RestsScans, RestsTrans
<1>3. QED
  BY <1>2, RestsScans, RestsSelf DEF LinkedScan, paged

LEMMA NoPhones == ASSUME NEW s, s.conn = {} PROVE connect_dev(s) = 0
BY FS_EmptySet DEF connect_dev

LEMMA LinkedMasterOpens == ASSUME NEW s \in Bud PROVE Opens(s, LinkedMaster(s))
<1> DEFINE t == LinkedScan(s)
           u == IF s.num = 1 THEN dual_conn_try_open_inquiry_page_scan(t) ELSE t
           v == [u EXCEPT !.switch = TRUE]
           w == [t EXCEPT !.timer = "wait_conn"]
           x == [w EXCEPT !.switch = FALSE]
<1>1. t \in Bud /\ Rests(s, t)
  BY RestsLinkedScan DEF Rests
<1>2. Lonely(s) => t.scan = "both"
  BY NoPhones DEF Lonely, LinkedScan, write_scan_conn_enable, Bud
<1> HIDE DEF t
<1>3. u \in Bud /\ Rests(s, u)
  BY <1>1, RestsOpenScan, RestsTrans DEF Rests
<1>4. Lonely(s) => u.scan = "both"
  <2>1. ASSUME Lonely(s) PROVE connect_dev(t) = 0 /\ t.scan = "both"
    BY <2>1, <1>1, <1>2, NoPhones DEF Lonely, Rests, Same
  <2>2. connect_dev(t) = 0 /\ t.scan = "both"
            => dual_conn_try_open_inquiry_page_scan(t).scan = "both"
    BY <1>1 DEF dual_conn_try_open_inquiry_page_scan, write_scan_conn_enable, Bud
  <2>3. QED
    BY <2>1, <2>2
<1> HIDE DEF u
<1>5. Rests(u, v) /\ v.scan = u.scan
  BY <1>3, RestsSwitch DEF Bud
<1> HIDE DEF v
<1>6. w \in Bud /\ Alike(t, w) /\ w.scan = t.scan
  BY <1>1, KeepsTimer, AlikeTimers DEF Keeps, Stays, TimerHandle, Callback, Bud
<1> HIDE DEF w
<1>7. Rests(w, x) /\ x.scan = w.scan
  BY <1>6, RestsSwitch DEF Bud
<1> HIDE DEF x
<1>8. Alike(s, v) /\ Alike(s, x)
  BY <1>1, <1>3, <1>5, <1>6, <1>7, RestsAlike, AlikeTrans
<1>9. Opens(s, v) /\ Opens(s, x)
  BY <1>2, <1>4, <1>5, <1>6, <1>7, <1>8 DEF Opens, Findable
<1>10. LinkedMaster(s) = IF page_list_empty(s) THEN v ELSE x
  BY DEF LinkedMaster, v, u, t, x, w
<1>11. QED
  BY <1>9, <1>10

LEMMA ArmStays == ASSUME NEW s \in Bud PROVE Stays(s, ArmAutoPair(s))
BY AlikeTimers, StaysSelf DEF ArmAutoPair

LEMMA AloneOpens ==
    ASSUME NEW s \in Bud PROVE Opens(s, PairedAlone(s)) /\ Opens(s, Unpaired(s))
<1> DEFINE k == Seek(s)
           l == Listen(s)
           b == write_scan_conn_enable(k, "both")
           o == OnePhoneScan(l)
           u == OnePhoneScan(s)
           pa == CASE connect_dev(s) = 0 -> b
                   [] connect_dev(s) = 1 -> o
                   [] OTHER -> l
           un == CASE connect_dev(s) = 0 -> b
                   [] connect_dev(s) = 1 -> u
                   [] OTHER -> s
<1>1. Rests(s, k) /\ k \in Bud /\ Rests(s, l) /\ l \in Bud /\ Rests(s, s)
  BY RestsOp, RestsSelf DEF Rests
<1> HIDE DEF k, l
<1>2. Rests(s, b) /\ Findable(b) /\ Rests(s, o) /\ Rests(s, u)
  BY <1>1, RestsScans, RestsOpenScan, RestsTrans, OpFinds
<1> HIDE DEF b, o, u
<1>3. /\ Rests(s, pa) /\ Rests(s, un)
      /\ Lonely(s) => Findable(pa) /\ Findable(un) /\ connect_dev(s) # 2
  BY <1>1, <1>2, NoPhones DEF Lonely
<1> HIDE DEF pa, un
<1>4. Opens(s, pa) /\ Opens(s, un) /\ pa \in Bud /\ un \in Bud
  <2>1. Lonely(s) => Findable(un)
    BY <1>3
  <2>2. QED
    BY <1>3, <2>1, RestsAlike DEF Opens, Rests
<1>5. Opens(s, ArmAutoPair(pa)) /\ Opens(s, ArmAutoPair(un))
  BY <1>4, ArmStays, AlikeTrans, SameLonely DEF Opens, Stays, Alike
<1>6. PairedAlone(s) = ArmAutoPair(pa)
  BY DEF PairedAlone, pa, b, o, k, l
<1>7. Unpaired(s) = IF connect_dev(s) = 2 THEN s ELSE ArmAutoPair(un)
  BY DEF Unpaired, un, b, u, k
<1>8. connect_dev(s) = 2 => Opens(s, s)
  BY <1>3, StaysSelf DEF Opens
<1>9. QED
  BY <1>5, <1>6, <1>7, <1>8

LEMMA StateOpens ==
    ASSUME NEW s \in Bud PROVE Opens(s, tws_dual_conn_state_handler(s))
<1> DEFINE r == tws_dual_conn_state_handler(s)
           t == DelTimer(s)
<1>1. t \in Bud /\ Alike(s, t)
  BY KeepsDelTimer, AlikeSetters DEF Keeps
<1>2. r = CASE s.exit -> s
            [] ~s.exit /\ s.off -> t
            [] ~s.exit /\ ~s.off /\ Linked(s) ->
                   (IF Slave(s) THEN write_scan_conn_enable(t, "off") ELSE LinkedMaster(t))
            [] ~s.exit /\ ~s.off /\ s.tws = "paired" -> PairedAlone(t)
            [] OTHER -> Unpaired(t)
  BY DEF tws_dual_conn_state_handler
<1> HIDE DEF r, t
<1>3. Opens(s, LinkedMaster(t)) /\ Opens(s, PairedAlone(t)) /\ Opens(s, Unpaired(t))
  BY <1>1, LinkedMasterOpens, AloneOpens, OpensAfter
<1>4. s.exit => Opens(s, s)
  BY StaysSelf DEF Opens, Lonely, Leads
<1>5. s.off => Opens(s, t)
  BY <1>1 DEF Opens, Lonely, Leads
<1>6. Slave(s) => Opens(s, write_scan_conn_enable(t, "off"))
  <2>1. Alike(s, write_scan_conn_enable(t, "off"))
    BY <1>1, AlikeSetters, AlikeTrans DEF Scan
  <2>2. QED
    BY <2>1 DEF Opens, Lonely, Leads
<1>7. Opens(s, r)
  BY <1>2, <1>3, <1>4, <1>5, <1>6
<1>8. QED
  BY <1>7 DEF r

LEMMA PageOpens ==
    ASSUME NEW s, Good(s) PROVE Opens(s, dual_conn_page_device(s))
<1> DEFINE r == dual_conn_page_device(s)
           h == Head(s.list)
<1>1. s \in Bud /\ s.list \in Seq(PageDevice) /\ s.ptimers = Timed(s.list)
  BY GoodBud DEF Good
<1>2. Same(s, r) /\ r \in Bud
  BY CalmPageDevice DEF Calm
<1>3. CASE page_list_empty(s) \/ (~h.timer /\ Slave(s))
  <2>1. r = tws_dual_conn_state_handler(s)
    BY <1>3 DEF dual_conn_page_device
  <2>2. QED
    BY <1>1, <2>1, StateOpens
<1>4. CASE ~page_list_empty(s) /\ h.timer
  <2>1. r = s
    BY <1>4 DEF dual_conn_page_device
  <2>2. 1 \in DOMAIN s.list /\ s.list[1] = h
    BY <1>1, <1>4, HeadTailProperties, EmptySeq, LenProperties DEF page_list_empty
  <2>3. s.ptimers # {}
    BY <1>1, <1>4, <2>2 DEF Timed
  <2> HIDE DEF r
  <2>4. QED
    BY <2>1, <2>3, StaysSelf DEF Opens, Findable, r
<1>5. CASE ~page_list_empty(s) /\ ~h.timer /\ ~Slave(s)
  <2> DEFINE u == StartPage(s, h.addr)
             w == [u EXCEPT !.list[1].timer = TRUE]
  <2>1. r = [w EXCEPT !.ptimers = w.ptimers \cup {h.addr}]
    BY <1>5 DEF dual_conn_page_device
  <2>2. DOMAIN w = DOMAIN s /\ "ptimers" \in DOMAIN s /\ w.timer = s.timer
        /\ w.orphans = s.orphans
    BY <1>1 DEF StartPage, Bud
  <2> HIDE DEF w, r
  <2>3. r.ptimers # {} /\ r.timer = s.timer /\ r.orphans = s.orphans
    BY <2>1, <2>2
  <2>4. QED
    BY <1>2, <2>3 DEF Opens, Alike, Waits, Findable, r
<1>6. h.timer \in BOOLEAN \/ page_list_empty(s)
  BY <1>1, HeadPhone DEF PageDevice
<1>7. QED
  BY <1>3, <1>4, <1>5, <1>6

LEMMA PageOrStateOpens == ASSUME NEW s, Good(s) PROVE Opens(s, PageOrState(s))
BY GoodBud, StateOpens, PageOpens DEF PageOrState

LEMMA OpensThenPage ==
    ASSUME NEW s, NEW t, Alike(s, t), Good(t)
    PROVE  Opens(s, dual_conn_page_device(t)) /\ Opens(s, PageOrState(t))
BY PageOpens, PageOrStateOpens, OpensAfter

(***************************************************************************)
(* The callbacks.                                                          *)
(***************************************************************************)

LEMMA FoundBody ==
    ASSUME NEW s, Good(s), NEW cb, cb # "msg_wait_pair"
    PROVE  Stays(s, CallbackBody(cb, s))
<1> DEFINE l == CancelListen(s)
           k == CancelSeek(l)
           w == write_scan_conn_enable(k, "off")
           c == CancelSeek(s)
           o == write_scan_conn_enable(s, "off")
<1>1. /\ Good(l) /\ Good(k) /\ Good(w) /\ Good(c) /\ Good(o)
      /\ s \in Bud /\ l \in Bud /\ k \in Bud /\ c \in Bud
  BY GoodSetters, GoodScans, GoodBud
<1>2. Alike(s, l) /\ Alike(l, k) /\ Alike(k, w) /\ Alike(s, c) /\ Alike(s, o)
  BY <1>1, AlikeSetters DEF Scan
<1>3. Alike(s, w)
  BY <1>2, AlikeTrans
<1> HIDE DEF w, o, c, k, l
<1>4. /\ Opens(s, dual_conn_page_device(w)) /\ Opens(s, dual_conn_page_device(o))
      /\ Opens(s, dual_conn_page_device(c)) /\ Opens(s, PageOrState(c))
      /\ Opens(s, dual_conn_page_device(s))
  BY <1>1, <1>2, <1>3, OpensThenPage, StaysSelf
<1>5. Opens(s, Listen(c)) /\ Opens(s, Listen(s)) /\ Stays(s, s)
  BY <1>1, <1>2, OpFinds, OpensAfter, StaysSelf
<1>6. /\ Opens(s, tws_auto_pair_timeout(s)) /\ Opens(s, tws_wait_conn_timeout(s))
      /\ Opens(s, tws_create_conn_timeout(s))
  BY <1>4 DEF tws_auto_pair_timeout, tws_wait_conn_timeout, tws_create_conn_timeout,
              w, o, c, k, l
<1>7. Opens(s, tws_pair_timeout(s))
  BY <1>4, <1>5 DEF tws_pair_timeout, c
<1>8. QED
  BY <1>4, <1>5, <1>6, <1>7, OpensStays DEF CallbackBody

LEMMA FoundTimer == ASSUME NEW s, Good(s), ~Waits(s) PROVE Stays(s, RunTimer(s))
<1> DEFINE h == IF s.timer = "wait_conn" THEN "stale" ELSE "none"
           t == [s EXCEPT !.timer = h]
<1>1. h \in TimerHandle /\ s \in Bud /\ h # "msg_wait_pair" /\ s.timer # "msg_wait_pair"
  BY GoodBud DEF TimerHandle, Waits
<1>2. RunTimer(s) = CallbackBody(s.timer, t)
  BY DEF RunTimer
<1> HIDE DEF h
<1>3. Stays(s, t) /\ Good(t)
  BY <1>1, GoodSetters, AlikeTimers
<1> HIDE DEF t
<1>4. QED
  BY <1>1, <1>2, <1>3, FoundBody, StaysTrans

LEMMA FoundOrphan ==
    ASSUME NEW s, Good(s), NEW cb, cb # "msg_wait_pair" PROVE Stays(s, RunOrphan(s, cb))
<1> DEFINE t == [s EXCEPT !.orphans = @ \ {cb}]
           u == IF cb = "wait_conn" THEN t ELSE Overwrite(t, "none")
<1>1. s \in Bud /\ s.orphans \ {cb} \in SUBSET (Callback \cup {"inquiry"})
  BY GoodBud DEF Bud
<1>2. RunOrphan(s, cb) = CallbackBody(cb, u)
  BY DEF RunOrphan
<1>3. Good(t) /\ t \in Bud
  BY <1>1, KeepsOrphans, KeepsGood, GoodBud
<1>4. Stays(s, t)
  <2>1. /\ Same(s, t) /\ t.timer = s.timer /\ t.orphans = s.orphans \ {cb}
        /\ t.scan = s.scan /\ t.op = s.op /\ t.ptimers = s.ptimers
    BY <1>1 DEF Same, Bud
  <2> HIDE DEF t
  <2>2. QED
    BY <2>1, AlikeStays DEF Alike, Waits
<1> HIDE DEF t
<1>5. Stays(t, u) /\ Good(u)
  BY <1>3, GoodSetters, AlikeTimers, StaysSelf DEF TimerHandle
<1> HIDE DEF u
<1>6. QED
  BY <1>2, <1>4, <1>5, FoundBody, StaysTrans

\* The state handler after changes that touch no timer of the handle.
LEMMA StateAfterAlike ==
    ASSUME NEW s, NEW u \in Bud, Same(s, u), u.timer = s.timer, u.orphans = s.orphans
    PROVE  Opens(s, tws_dual_conn_state_handler(u)) /\ Alike(s, u)
<1>1. Alike(s, u)
  BY DEF Alike, Waits
<1>2. QED
  BY <1>1, StateOpens, OpensAfter

LEMMA FoundPageTimeout ==
    ASSUME NEW s, Good(s), NEW p \in s.ptimers
    PROVE  Stays(s, dual_conn_page_device_timeout(s, p))
BY TimeoutState, StateAfterAlike, OpensStays

LEMMA FoundInquiry ==
    ASSUME NEW s, Good(s)
    PROVE  Stays(s, [close_inquiry_scan(s) EXCEPT
                        !.inquiry = FALSE,
                        !.orphans = IF s.inquiry THEN @ ELSE @ \ {"inquiry"}])
<1> DEFINE d == [s EXCEPT !.disable = 1]
           c == close_inquiry_scan(s)
           left == IF s.inquiry THEN c.orphans ELSE c.orphans \ {"inquiry"}
           t == [c EXCEPT !.inquiry = FALSE, !.orphans = left]
<1>1. Rests(s, d) /\ d \in Bud /\ d.scan = s.scan /\ d.op = s.op
  <2>1. s \in Bud /\ 1 \in 0..2
    BY GoodBud
  <2>2. QED
    BY <2>1, RestsDisable DEF Rests, Bud
<1>2. Rests(s, c) /\ c \in Bud /\ (Lonely(s) => c.scan = s.scan /\ c.op = s.op)
  <2>1. c = IF s.num = 1 /\ connect_dev(s) = 1 THEN write_scan_conn_enable(d, "off") ELSE d
    BY DEF close_inquiry_scan
  <2> HIDE DEF d, c
  <2>2. Rests(s, write_scan_conn_enable(d, "off"))
    BY <1>1, RestsScans, RestsTrans
  <2>3. Lonely(s) => c = d
    BY <2>1, NoPhones DEF Lonely
  <2>4. QED
    BY <1>1, <2>1, <2>2, <2>3 DEF Rests
<1> HIDE DEF c, left
<1>3. /\ t.ptimers = s.ptimers /\ t.timer = s.timer /\ t.orphans = left
      /\ t.scan = c.scan /\ t.op = c.op /\ Same(s, t)
  BY <1>2 DEF Rests, Same, Bud
<1>4. left \subseteq s.orphans
  BY <1>2 DEF left, Rests
<1> HIDE DEF t
<1>5. Stays(s, t)
  BY <1>2, <1>3, <1>4 DEF Stays, Alike, Waits, Findable
<1>6. QED
  BY <1>5 DEF t, left, c

LEMMA FoundElapse ==
    ASSUME NEW s \in Bud, NEW i \in DOMAIN s.list
    PROVE  Stays(s, [s EXCEPT !.list[i].late = TRUE])
<1> DEFINE t == [s EXCEPT !.list[i].late = TRUE]
<1>1. /\ t.ptimers = s.ptimers /\ t.timer = s.timer /\ t.orphans = s.orphans
      /\ t.scan = s.scan /\ t.op = s.op /\ Same(s, t)
  BY DEF Same, Bud
<1> HIDE DEF t
<1>2. Stays(s, t)
  BY <1>1, AlikeStays DEF Alike, Waits
<1>3. QED
  BY <1>2 DEF t

\* Call audio starts at a bud with a phone only.
LEMMA FoundEsco ==
    ASSUME NEW s \in Bud, s.esco \/ s.conn # {}, NEW x, x = [s EXCEPT !.esco = ~s.esco]
    PROVE  Stays(s, IF x.off /\ ~x.esco THEN x ELSE tws_page_scan_deal_by_esco(x))
<1>1. x \in Bud /\ Stays(s, x) /\ x.esco = ~s.esco
  <2>1. /\ x.ptimers = s.ptimers /\ x.timer = s.timer /\ x.orphans = s.orphans
        /\ x.scan = s.scan /\ x.op = s.op /\ Same(s, x) /\ x.esco = ~s.esco
    BY DEF Same, Bud
  <2>2. x \in Bud
    BY DEF Bud
  <2>3. QED
    BY <2>1, <2>2, AlikeStays DEF Alike, Waits
<1>2. Alike(s, CancelSeek(x))
  BY <1>1, AlikeSetters, AlikeTrans DEF Stays
<1>3. x.esco => Stays(s, CancelSeek(x))
  BY <1>1, <1>2 DEF Stays, Lonely, Bud
<1>4. Stays(s, tws_dual_conn_state_handler(x))
  BY <1>1, StateOpens, OpensStays, StaysTrans
<1>5. QED
  BY <1>1, <1>3, <1>4 DEF tws_page_scan_deal_by_esco

(***************************************************************************)
(* The handlers.                                                           *)
(***************************************************************************)

LEMMA RestsAddr ==
    ASSUME NEW s \in Bud, NEW a \in Phones \cup {NoPhone}
    PROVE  /\ Rests(s, [s EXCEPT !.addr0 = a])
           /\ Rests(s, [s EXCEPT !.addr1 = a])
           /\ Rests(s, [s EXCEPT !.addr2 = a])
<1>1. Rests(s, [s EXCEPT !.addr0 = a])
  BY KeepsAddr DEF Rests, Same, Keeps, Bud
<1>2. Rests(s, [s EXCEPT !.addr1 = a])
  BY KeepsAddr DEF Rests, Same, Keeps, Bud
<1>3. Rests(s, [s EXCEPT !.addr2 = a])
  BY KeepsAddr DEF Rests, Same, Keeps, Bud
<1>4. QED
  BY <1>1, <1>2, <1>3

LEMMA QuietRests ==
    ASSUME NEW s \in Bud, NEW p \in Phones
    PROVE  Rests(s, FirstConnectedQuiet(s, p))
<1> DEFINE t == CASE s.tws = "paired" -> Listen(s)
                  [] Linked(s) -> [s EXCEPT !.switch = TRUE]
                  [] OTHER -> s
           counted == IF s.num = 1 THEN [t EXCEPT !.num = 2] ELSE t
           one == [t EXCEPT !.num = 1]
           first == [t EXCEPT !.num = 1, !.addr2 = p]
           Discoverable(u) == IF Linked(u) THEN dual_conn_try_open_inquiry_scan(u) ELSE u
<1>1. Rests(s, t)
  BY RestsOp, RestsSwitch, RestsSelf
<1> HIDE DEF t
<1>2. Rests(s, counted) /\ Rests(s, one)
  <2>1. \A n \in Nat : Rests(s, [t EXCEPT !.num = n])
    BY <1>1, RestsNum, RestsTrans DEF Rests
  <2>2. QED
    BY <1>1, <2>1
<1>3. Rests(s, first)
  <2> HIDE DEF one
  <2>1. Rests(s, [one EXCEPT !.addr2 = p])
    BY <1>2, RestsAddr, RestsTrans DEF Rests
  <2>2. first = [one EXCEPT !.addr2 = p]
    BY DEF one
  <2>3. QED
    BY <2>1, <2>2
<1> HIDE DEF first, counted
<1>4. ASSUME NEW u, Rests(s, u) PROVE Rests(s, Discoverable(u))
  <2>1. u \in Bud
    BY <1>4 DEF Rests
  <2>2. QED
    BY <1>4, <2>1, RestsOpenScan, RestsTrans
<1>5. Rests(s, write_scan_conn_enable(counted, "page"))
  <2>1. counted \in Bud
    BY <1>2 DEF Rests
  <2>2. QED
    BY <1>2, <2>1, RestsScans, RestsTrans
<1>6. Rests(s, Discoverable(first)) /\ Rests(s, Discoverable(t))
  BY <1>1, <1>3, <1>4
<1>7. QED
  BY <1>2, <1>5, <1>6 DEF FirstConnectedQuiet, t, counted, first

LEMMA FoundFirst ==
    ASSUME NEW s, Good(s), NEW p \in Phones PROVE Alike(s, FirstConnected(s, p))
<1> DEFINE k == DelTimer(s)
           d == del_device_from_page_list(k, p)
           t == [d EXCEPT !.addr0 = p]
           u == [t EXCEPT !.num = IF @ = 1 /\ p # t.addr2 THEN 2 ELSE @]
           v == [u EXCEPT !.timer = "page_next"]
           r == FirstConnected(s, p)
<1>1. Same(s, r)
  BY CalmFirst DEF Calm
<1>2. Good(k) /\ k \in Bud /\ Alike(s, k)
  BY GoodSetters, GoodBud, AlikeSetters
<1>3. r = IF ~Slave(s) /\ ~page_list_empty(t) THEN v ELSE FirstConnectedQuiet(t, p)
  BY DEF FirstConnected
<1> HIDE DEF k
<1>4. d \in Bud /\ d.timer = k.timer /\ d.orphans = k.orphans
  BY <1>2, GoodDel, GoodBud DEF del_device_from_page_list, Bud
<1> HIDE DEF d
<1>5. t \in Bud /\ t.timer = k.timer /\ t.orphans = k.orphans
  BY <1>4, RestsAddr DEF Rests
<1> HIDE DEF t
<1>6. /\ FirstConnectedQuiet(t, p).timer = k.timer
      /\ FirstConnectedQuiet(t, p).orphans = k.orphans
  BY <1>5, QuietRests DEF Rests
<1>7. v.timer = "page_next" /\ v.orphans = k.orphans
  BY <1>5 DEF Bud
<1> HIDE DEF v, r
<1>8. Waits(r) => Waits(k)
  BY <1>3, <1>6, <1>7 DEF Waits
<1>9. QED
  BY <1>1, <1>2, <1>8 DEF Alike, r

LEMMA FoundSecond ==
    ASSUME NEW s, Good(s), NEW p \in Phones PROVE Alike(s, SecondConnected(s, p))
<1> DEFINE k == DelTimer(s)
           c == clr_device_in_page_list(k)
           v == [c EXCEPT !.addr1 = p]
           n == IF c.num = 1 THEN 2 ELSE c.num
           t == [c EXCEPT !.addr1 = p, !.num = IF @ = 1 THEN 2 ELSE @]
           u == IF t.tws = "paired" THEN Listen(t) ELSE [t EXCEPT !.switch = TRUE]
           o == write_scan_conn_enable(u, "off")
           r == SecondConnected(s, p)
<1>1. Good(k) /\ k \in Bud /\ Alike(s, k) /\ Same(s, r)
  BY GoodBud, GoodSetters, AlikeSetters, CalmSecond DEF Calm
<1>2. r = IF Slave(s) THEN u ELSE o
  BY DEF SecondConnected
<1> HIDE DEF k, r
<1>3. c \in Bud /\ c.timer = k.timer /\ c.orphans = k.orphans
  BY <1>1, GoodClr, GoodBud DEF clr_device_in_page_list, Bud
<1> HIDE DEF c
<1>4. Rests(c, t)
  <2>1. v \in Bud /\ Rests(c, v) /\ n \in Nat
    BY <1>3, RestsAddr DEF Rests, Bud
  <2>2. t = [v EXCEPT !.num = n]
    OBVIOUS
  <2> HIDE DEF v, n, t
  <2>3. QED
    BY <2>1, <2>2, RestsNum, RestsTrans
<1> HIDE DEF t
<1>5. Rests(c, u) /\ u \in Bud
  BY <1>4, RestsOp, RestsSwitch, RestsTrans DEF Rests
<1> HIDE DEF u
<1>6. Rests(c, o)
  BY <1>5, RestsScans, RestsTrans
<1> HIDE DEF o
<1>7. Waits(r) => Waits(k)
  BY <1>2, <1>3, <1>5, <1>6 DEF Rests, Waits
<1>8. QED
  BY <1>1, <1>7 DEF Alike, r

LEMMA FoundHci ==
    ASSUME NEW s, Good(s), NEW ev, NEW p \in Phones
    PROVE  /\ Alike(s, dual_conn_hci_event_handler(s, ev, p))
           /\ ev # "ok" => Opens(s, dual_conn_hci_event_handler(s, ev, p))
<1> DEFINE r == dual_conn_hci_event_handler(s, ev, p)
           k == DelTimer(s)
<1>1. s \in Bud
  BY GoodBud
<1>2. CASE s.off \/ Slave(s)
  <2>1. r = s
    BY <1>2 DEF dual_conn_hci_event_handler
  <2>2. QED
    BY <1>2, <2>1, StaysSelf DEF Opens, Lonely, Leads
<1>3. CASE ~(s.off \/ Slave(s)) /\ ev = "ok"
  <2>1. r = del_device_from_page_list(k, p)
    BY <1>3 DEF dual_conn_hci_event_handler
  <2>2. k \in Bud /\ Alike(s, k)
    BY <1>1, AlikeSetters, KeepsDelTimer DEF Keeps
  <2> HIDE DEF k, r
  <2>3. Alike(k, r)
    BY <2>1, <2>2 DEF del_device_from_page_list, Alike, Same, Waits, Bud
  <2>4. Alike(s, r)
    BY <2>2, <2>3, AlikeTrans
  <2>5. QED
    BY <1>3, <2>4 DEF r
<1>4. CASE ~(s.off \/ Slave(s)) /\ ev # "ok"
  <2>1. PICK u \in Bud : /\ Same(s, u) /\ u.timer = s.timer /\ u.orphans = s.orphans
                         /\ r = tws_dual_conn_state_handler(u)
    BY <1>4, HciState
  <2>2. Opens(s, r)
    BY <2>1, StateAfterAlike
  <2>3. QED
    BY <2>2 DEF Opens
<1>5. QED
  BY <1>2, <1>3, <1>4

LEMMA FoundConnected ==
    ASSUME NEW s, Good(s), NEW role
    PROVE  /\ Alike(s, TwsConnected(s, role))
           /\ role = "master" => Opens(s, TwsConnected(s, role))
<1> DEFINE t == [s EXCEPT !.switch = FALSE]
           w == write_scan_conn_enable(s, "off")
<1>1. s \in Bud /\ Good(t) /\ Alike(s, t) /\ w \in Bud /\ Alike(s, w)
  BY GoodBud, GoodSetters, RestsSwitch, RestsScans, RestsAlike DEF Rests
<1> HIDE DEF t, w
<1>2. Opens(s, PageOrState(t))
  BY <1>1, OpensThenPage
<1>3. Alike(s, PageCancel(w))
  BY <1>1, AlikeSetters, AlikeTrans
<1>4. s.off => Opens(s, s)
  BY StaysSelf DEF Opens, Lonely, Leads
<1>5. QED
  BY <1>2, <1>3, <1>4, StaysSelf DEF TwsConnected, Opens, t, w

\* Left without its sibling, a bud without a phone is found.
LEMMA FoundDetached ==
    ASSUME NEW s, Good(s), NEW role, NEW reason
    PROVE  Opens(s, TwsDetached(s, role, reason))
<1> DEFINE d == DelTimer(s)
           t == PageCancel(d)
           l == Listen(t)
           c == clr_device_in_page_list(t)
           b == write_scan_conn_enable(t, "both")
           r == TwsDetached(s, role, reason)
<1>1. Good(d) /\ d \in Bud /\ Alike(s, d)
  BY GoodBud, GoodSetters, AlikeSetters
<1> HIDE DEF d
<1>2. Good(t) /\ t \in Bud /\ Alike(s, t)
  BY <1>1, GoodBud, GoodSetters, AlikeSetters, AlikeTrans
<1>3. r = CASE s.off -> t
            [] ~s.off /\ reason = "remove_pairs" ->
                   (IF role = "master" /\ s.conn # {} THEN t ELSE b)
            [] ~s.off /\ reason = "poweroff" -> tws_dual_conn_state_handler(t)
            [] ~s.off /\ reason = "super_timeout" ->
                   tws_dual_conn_state_handler(IF role = "slave" THEN c ELSE t)
            [] OTHER -> IF page_list_empty(t) THEN DetachedNoList(l)
                        ELSE dual_conn_page_device(t)
  BY DEF TwsDetached, d
<1> HIDE DEF t
<1>4. /\ s.off => Opens(s, t)
      /\ s.conn # {} => Opens(s, t)
      /\ Opens(s, b)
  BY <1>2, OpFinds, OpensAfter DEF Opens, Lonely, Leads
<1>5. Opens(s, tws_dual_conn_state_handler(t)) /\ Opens(s, dual_conn_page_device(t))
  BY <1>2, StateOpens, OpensAfter, OpensThenPage
<1>6. c \in Bud /\ Alike(t, c)
  <2>1. c \in Bud
    BY <1>2, GoodClr, GoodBud
  <2>2. QED
    BY <1>2, <2>1 DEF clr_device_in_page_list, Alike, Waits, Same, Bud
<1> HIDE DEF c
<1>7. Opens(s, tws_dual_conn_state_handler(c))
  BY <1>2, <1>6, AlikeTrans, StateOpens, OpensAfter
<1>8. Alike(s, l) /\ l \in Bud
  BY <1>2, AlikeSetters, AlikeTrans, KeepsOp DEF Keeps
<1> HIDE DEF l
<1>9. Opens(s, DetachedNoList(l))
  <2>1. /\ Opens(s, write_scan_conn_enable(l, "both"))
        /\ Alike(s, write_scan_conn_enable(l, "off"))
        /\ Alike(s, write_scan_conn_enable(l, "page"))
    BY <1>8, OpFinds, OpensAfter, AlikeSetters, AlikeTrans DEF Scan
  <2>2. Lonely(s) => connect_dev(l) = 0
    BY <1>8, NoPhones DEF Lonely, Alike, Same
  <2>3. QED
    BY <1>8, <2>1, <2>2 DEF DetachedNoList, Opens
<1> HIDE DEF b, r
<1>10. Opens(s, r)
  BY <1>3, <1>4, <1>5, <1>7, <1>9
<1>11. QED
  BY <1>10 DEF r

LEMMA FoundSwitched ==
    ASSUME NEW s, Good(s), NEW role
    PROVE  /\ Alike(s, RoleSwitched(s, role))
           /\ role # "slave" => Stays(s, RoleSwitched(s, role))
<1> DEFINE w == write_scan_conn_enable(s, "off")
<1>1. s \in Bud /\ Alike(s, w) /\ w \in Bud
  BY GoodBud, AlikeSetters, RestsScans DEF Scan, Rests
<1> HIDE DEF w
<1>2. Alike(s, PageCancel(w))
  BY <1>1, AlikeSetters, AlikeTrans
<1>3. QED
  BY <1>1, <1>2, StaysSelf DEF RoleSwitched, w

LEMMA FoundRx ==
    ASSUME NEW s, Good(s), NEW m, OnceEach(m) PROVE Opens(s, rx_device_info(s, m))
<1>1. PICK u \in Bud : /\ Same(s, u) /\ u.timer = s.timer /\ u.orphans = s.orphans
                       /\ rx_device_info(s, m) = IF Slave(s) THEN u
                                                 ELSE tws_dual_conn_state_handler(u)
  BY RxState
<1>2. Opens(s, tws_dual_conn_state_handler(u)) /\ Alike(s, u)
  BY <1>1, StateAfterAlike
<1>3. Slave(s) => Opens(s, u)
  BY <1>2 DEF Opens, Lonely, Leads
<1>4. QED
  BY <1>1, <1>2, <1>3

LEMMA FoundApp ==
    ASSUME NEW s, Good(s), NEW msg \in AppMsgs, msg # "wait_pair"
    PROVE  Opens(s, dual_conn_app_event_handler(s, msg))
<1> DEFINE k == Seek(s)
           l == Listen(s)
<1>1. k \in Bud /\ Opens(s, k) /\ l \in Bud /\ Opens(s, l) /\ Findable(k)
  BY GoodBud, OpFinds, KeepsOp DEF Keeps
<1> HIDE DEF k, l
<1>2. /\ Stays(k, Overwrite(k, "create_conn")) /\ Stays(k, Overwrite(k, "pair"))
      /\ Stays(k, [k EXCEPT !.timer = "msg_start_pair"])
      /\ Stays(k, [k EXCEPT !.timer = "msg_start_conn"])
  BY <1>1, AlikeTimers
<1>3. \A t : Stays(k, t) => Opens(s, t)
  BY <1>1, AlikeTrans, SameLonely DEF Opens, Stays, Alike
<1>4. QED
  BY <1>1, <1>2, <1>3 DEF dual_conn_app_event_handler, AppMsgs, k, l

LEMMA FoundPageMsg ==
    ASSUME NEW s, Good(s), Len(s.list) < 2, NEW added \in Seq(Phones),
           \A i, j \in DOMAIN added : added[i] = added[j] => i = j
    PROVE  Opens(s, page_device_msg_handler(s, added))
<1> DEFINE kept == IF ~page_list_empty(s) /\ Head(s.list).addr \in ToSet(added)
                   THEN <<>> ELSE s.list
           t == [s EXCEPT !.list = kept \o RelayedList(added), !.ptimers = @ \ ToSet(added)]
           d == DelTimer(t)
           k == CancelSeek(d)
           l == CancelListen(k)
           w == write_scan_conn_enable(l, "off")
<1>1. Good(t)
  BY GoodPageMsgList
<1>2. Alike(s, t)
  BY GoodBud DEF Alike, Waits, Same, Bud
<1> HIDE DEF t
<1>3. Good(d) /\ Alike(s, d)
  BY <1>1, <1>2, GoodBud, GoodSetters, AlikeSetters, AlikeTrans
<1> HIDE DEF d
<1>4. Good(k) /\ Alike(s, k)
  BY <1>3, GoodBud, GoodSetters, AlikeSetters, AlikeTrans
<1> HIDE DEF k
<1>5. Good(l) /\ Alike(s, l)
  BY <1>4, GoodBud, GoodSetters, AlikeSetters, AlikeTrans
<1> HIDE DEF l
<1>6. Good(w) /\ Alike(s, w)
  BY <1>5, GoodBud, GoodScans, AlikeSetters, AlikeTrans DEF Scan
<1> HIDE DEF w
<1>7. Opens(s, dual_conn_page_device(w))
  BY <1>6, OpensThenPage
<1>8. QED
  BY <1>7 DEF page_device_msg_handler, w, l, k, d, t, kept

(***************************************************************************)
(* What is on its way.  The handler of an opening message leaves a bud     *)
(* without a phone findable; that of a closing one may undo it, so no      *)
(* closing message may follow.                                             *)
(***************************************************************************)
Opening(m) ==
    \/ m.kind = "data"
    \/ m.kind = "hci" /\ m.ev # "ok"
    \/ m.kind = "tws" /\ (m.ev = "detach" \/ (m.ev = "connected" /\ m.role = "master"))
    \/ m.kind = "app" /\ m.msg \in {"paired", "unpaired"}
Closing(m) ==
    \/ m.kind = "phone"
    \/ m.kind = "hci" /\ m.ev = "ok"
    \/ m.kind = "tws" /\ m.ev # "detach" /\ m.role = "slave"
Asking(m) == m.kind = "app" /\ m.msg = "wait_pair"

Lasting(q, i) == \A j \in DOMAIN q : j > i => ~Closing(q[j])
Unasked(q) == \A i \in DOMAIN q : ~Asking(q[i])
Sure(s, q) ==
    \/ Findable(s) /\ Lasting(q, 0)
    \/ \E i \in DOMAIN q : Opening(q[i]) /\ Lasting(q, i)

\* What excuses a bud that is not to be found: it is not in charge or its sibling is
\* powering off, it has a phone, or the list of the old master is on its way.
Spared(b) == Exempt(b) \/ HasPhone(b) \/ (Linked(bud[b]) /\ RelayDue(b))
BudFound(b) ==
    /\ Spared(b) \/ Sure(bud[b], queue[b])
    /\ Slave(bud[b]) => ~HasPhone(b)
    /\ ~Waits(bud[b])
    /\ Unasked(queue[b])
FoundInv == Pairing(bud) /\ \A b \in Buds : BudFound(b)

LEMMA SureAppend ==
    ASSUME NEW S, NEW q \in Seq(S), NEW m \in S, NEW s
    PROVE  /\ Sure(s, q) /\ ~Closing(m) => Sure(s, Append(q, m))
           /\ Opening(m) => Sure(s, Append(q, m))
           /\ Unasked(q) /\ ~Asking(m) => Unasked(Append(q, m))
<1> DEFINE n == Len(q)
           w == Append(q, m)
<1>1. /\ n \in Nat /\ DOMAIN q = 1..n /\ DOMAIN w = 1..(n + 1)
      /\ \A k \in 1..n : k \in 1..(n + 1) /\ w[k] = q[k]
      /\ n + 1 \in 1..(n + 1) /\ w[n + 1] = m
  BY AppendIndex
<1> HIDE DEF n, w
<1>2. \A k \in 1..(n + 1) : k \in 1..n \/ k = n + 1
  BY <1>1
<1>3. ASSUME ~Closing(m), NEW i, Lasting(q, i) PROVE Lasting(w, i)
  BY <1>1, <1>2, <1>3 DEF Lasting
<1>4. Sure(s, q) /\ ~Closing(m) => Sure(s, w)
  <2>1. ASSUME ~Closing(m), NEW i \in DOMAIN q, Opening(q[i]), Lasting(q, i)
        PROVE  \E k \in DOMAIN w : Opening(w[k]) /\ Lasting(w, k)
    BY <1>1, <1>3, <2>1
  <2>2. QED
    BY <1>3, <2>1 DEF Sure
<1>5. Opening(m) => Sure(s, w)
  <2>1. \A j \in DOMAIN w : ~(j > n + 1)
    BY <1>1
  <2>2. Lasting(w, n + 1)
    BY <2>1 DEF Lasting
  <2>3. QED
    BY <1>1, <2>2 DEF Sure
<1>6. Unasked(q) /\ ~Asking(m) => Unasked(w)
  BY <1>1, <1>2 DEF Unasked
<1>7. QED
  BY <1>4, <1>5, <1>6 DEF w

LEMMA SureTail ==
    ASSUME NEW S, NEW q \in Seq(S), q # <<>>, NEW s, NEW t,
           Findable(s) /\ ~Closing(Head(q)) => Findable(t),
           Opening(Head(q)) => Findable(t)
    PROVE  Sure(s, q) => Sure(t, Tail(q))
<1> DEFINE w == Tail(q)
           h == Head(q)
           n == Len(q)
<1>1. /\ n \in Nat /\ DOMAIN q = 1..n /\ DOMAIN w = 1..(n - 1)
      /\ 1 \in DOMAIN q /\ h = q[1]
      /\ \A k \in DOMAIN w : k + 1 \in DOMAIN q /\ w[k] = q[k + 1]
      /\ \A k \in DOMAIN q : k = 1 \/ (k - 1 \in DOMAIN w /\ q[k] = w[k - 1])
  BY TailIndex
<1>2. Findable(s) /\ ~Closing(h) => Findable(t)
  OBVIOUS
<1>3. Opening(h) => Findable(t)
  OBVIOUS
<1> HIDE DEF w, h, n
<1>4. ASSUME NEW i \in Nat, Lasting(q, i + 1) PROVE Lasting(w, i)
  <2>1. \A j \in DOMAIN w : j > i => j + 1 > i + 1
    BY <1>1
  <2>2. QED
    BY <1>1, <1>4, <2>1 DEF Lasting
<1>5. ASSUME Lasting(q, 0) PROVE Lasting(w, 0) /\ ~Closing(h)
  <2>1. \A j \in DOMAIN q : j > 0 /\ (j > 0 + 1 => j > 0)
    BY <1>1
  <2>2. Lasting(q, 0 + 1) /\ ~Closing(h)
    BY <1>1, <1>5, <2>1 DEF Lasting
  <2>3. QED
    BY <1>4, <2>2
<1>6. CASE Findable(s) /\ Lasting(q, 0)
  BY <1>2, <1>5, <1>6 DEF Sure, w
<1>7. ASSUME NEW i \in DOMAIN q, Opening(q[i]), Lasting(q, i) PROVE Sure(t, w)
  <2>1. CASE i = 1
    <3>1. Lasting(w, 0)
      BY <1>4, <1>7, <2>1
    <3>2. QED
      BY <1>1, <1>3, <1>7, <2>1, <3>1 DEF Sure
  <2>2. CASE i # 1
    <3>1. i - 1 \in DOMAIN w /\ q[i] = w[i - 1]
      BY <1>1, <2>2
    <3>2. i - 1 \in Nat /\ (i - 1) + 1 = i
      BY <1>1, <3>1
    <3>3. Lasting(w, i - 1)
      BY <1>4, <1>7, <3>2
    <3>4. QED
      BY <1>7, <3>1, <3>3 DEF Sure
  <2>3. QED
    BY <2>1, <2>2
<1>8. QED
  BY <1>6, <1>7 DEF Sure, w

LEMMA UnaskedTail ==
    ASSUME NEW S, NEW q \in Seq(S), q # <<>>, Unasked(q)
    PROVE  Unasked(Tail(q)) /\ ~Asking(Head(q))
BY TailIndex DEF Unasked

LEMMA SureTurn ==
    ASSUME NEW s, NEW t, NEW q, Sure(s, q), Findable(s) => Findable(t) PROVE Sure(t, q)
BY DEF Sure

(***************************************************************************)
(* A step that leaves the roles and the link alone.                        *)
(***************************************************************************)

\* What happens to a bud of which it is not sure at once that it is found.
Quietly(c, m) ==
    /\ bud[c].exit => bud'[c].exit
    /\ Lonely(bud[c]) /\ Findable(bud[c]) => Findable(bud'[c]) \/ bud'[c].off \/ bud'[c].exit
    /\ queue'[c] = queue[c] \/ ~Closing(m) \/ Slave(bud[c]) \/ HasPhone(c)'
    /\ HasPhone(c) => HasPhone(c)'
    /\ net[c] # <<>> => net'[c] # <<>>

LEMMA FoundStep ==
    ASSUME IInv, FoundInv, NEW m \in GoodMessage, ~Asking(m),
           \A c \in Buds : /\ bud'[c].role = bud[c].role /\ bud'[c].tws = bud[c].tws
                           /\ bud[c].off => bud'[c].off
                           /\ Slave(bud[c]) /\ HasPhone(c)' => HasPhone(c)
                           /\ Waits(bud'[c]) => Waits(bud[c])
                           /\ queue'[c] = queue[c] \/ queue'[c] = Append(queue[c], m)
                           /\ Sure(bud'[c], queue'[c]) \/ Quietly(c, m)
    PROVE  FoundInv'
<1>1. Pairing(bud)'
  BY PairingStays DEF FoundInv
<1>2. ASSUME NEW c \in Buds PROVE BudFound(c)'
  <2>1. queue[c] \in Seq(GoodMessage) /\ BudFound(c)
    BY QueueSeq DEF FoundInv
  <2>2. Unasked(queue'[c])
    BY <2>1, SureAppend DEF BudFound
  <2>3. (Slave(bud[c]) => ~HasPhone(c))' /\ ~Waits(bud'[c])
    BY <2>1 DEF BudFound, Slave
  <2>4. ASSUME Quietly(c, m) PROVE Spared(c)' \/ Sure(bud'[c], queue'[c])
    <3>1. Exempt(c) => Exempt(c)'
      BY <2>4 DEF Exempt, Slave, Linked, Quietly
    <3>2. HasPhone(c) => HasPhone(c)'
      BY <2>4 DEF Quietly
    <3>3. Linked(bud[c]) /\ RelayDue(c) => Linked(bud[c])' /\ RelayDue(c)'
      <4>1. \A d \in Buds : SwitchNews(queue[d]) => SwitchNews(queue'[d])
        BY NewsPosted
      <4>2. QED
        BY <2>4, <4>1, RelayStays DEF Linked, Quietly
    <3>4. ASSUME ~Exempt(c), ~HasPhone(c), Sure(bud[c], queue[c])
          PROVE  Spared(c)' \/ Sure(bud'[c], queue'[c])
      <4>1. Lonely(bud[c])
        BY <3>4 DEF Exempt, HasPhone, Lonely, Leads
      <4>2. CASE bud'[c].off \/ bud'[c].exit
        BY <4>2 DEF Spared, Exempt
      <4>3. CASE HasPhone(c)'
        BY <4>3 DEF Spared
      <4>4. CASE ~(bud'[c].off \/ bud'[c].exit) /\ ~HasPhone(c)'
        <5>1. Sure(bud'[c], queue[c])
          BY <2>4, <3>4, <4>1, <4>4, SureTurn DEF Quietly
        <5>2. ~Slave(bud[c])
          BY <3>4 DEF Exempt
        <5>3. queue'[c] = queue[c] \/ (queue'[c] = Append(queue[c], m) /\ ~Closing(m))
          BY <2>4, <4>4, <5>2 DEF Quietly
        <5>4. QED
          BY <2>1, <5>1, <5>3, SureAppend
      <4>5. QED
        BY <4>2, <4>3, <4>4
    <3>5. QED
      BY <2>1, <3>1, <3>2, <3>3, <3>4 DEF BudFound, Spared
  <2>5. Spared(c)' \/ Sure(bud'[c], queue'[c])
    BY <2>4
  <2>6. QED
    BY <2>2, <2>3, <2>5 DEF BudFound
<1>3. QED
  BY <1>1, <1>2 DEF FoundInv

LEMMA StartsUnasked == App("paired") \in GoodMessage /\ ~Asking(App("paired"))
BY GoodMessages DEF AppMsgs, App, Asking

LEMMA FoundTurn ==
    ASSUME IInv, FoundInv, NEW b \in Buds, NEW t, Stays(bud[b], t),
           bud' = [bud EXCEPT ![b] = t], queue' = queue, acl' = acl, NetGrows
    PROVE  FoundInv'
<1>1. \A c \in Buds : bud'[c] = IF c = b THEN t ELSE bud[c]
  BY DEF IInv
<1>2. \A c \in Buds : Stays(bud[c], bud'[c])
  BY <1>1, StaysSelf
<1>3. \A c \in Buds : /\ bud'[c].role = bud[c].role /\ bud'[c].tws = bud[c].tws
                      /\ bud'[c].off = bud[c].off /\ bud'[c].exit = bud[c].exit
                      /\ bud'[c].conn = bud[c].conn
                      /\ Waits(bud'[c]) => Waits(bud[c])
                      /\ Lonely(bud[c]) /\ Findable(bud[c]) => Findable(bud'[c])
  BY <1>2 DEF Stays, Alike, Same
<1>4. \A c \in Buds : HasPhone(c)' = HasPhone(c)
  BY <1>3 DEF HasPhone
<1>5. \A c \in Buds : Quietly(c, App("paired"))
  BY <1>3, <1>4 DEF Quietly, NetGrows
<1>6. QED
  BY <1>3, <1>4, <1>5, StartsUnasked, FoundStep

(***************************************************************************)
(* The head of b's queue is handled.                                       *)
(***************************************************************************)
Airs(s, m, t) ==
    /\ Alike(s, t)
    /\ Lonely(s) /\ (Opening(m) \/ (Findable(s) /\ ~Closing(m))) => Findable(t)

LEMMA OpensAirs == ASSUME NEW s, NEW m, NEW t, Opens(s, t) PROVE Airs(s, m, t)
BY DEF Opens, Airs

LEMMA FoundHandled ==
    ASSUME IInv, FoundInv, NEW b \in Buds, queue[b] # <<>>, NEW t,
           Airs(bud[b], Head(queue[b]), t), Handled(b, t), acl' = acl, NetGrows,
           NewSlave(Head(queue[b])) /\ ~bud[b].off /\ Linked(bud[b])
               => \A c \in Buds : c # b => net'[c] # <<>>
    PROVE  FoundInv'
<1> DEFINE s == bud[b]
           q == queue[b]
<1>1. \A c \in Buds : /\ bud'[c] = IF c = b THEN t ELSE bud[c]
                      /\ queue'[c] = IF c = b THEN Tail(q) ELSE queue[c]
  BY DEF Handled, IInv
<1>2. q \in Seq(GoodMessage) /\ Same(s, t) /\ (Waits(t) => Waits(s))
  BY DEF IInv, Airs, Alike
<1>3. \A c \in Buds : /\ bud'[c].role = bud[c].role /\ bud'[c].tws = bud[c].tws
                      /\ bud'[c].off = bud[c].off /\ bud'[c].exit = bud[c].exit
                      /\ bud'[c].conn = bud[c].conn
                      /\ Waits(bud'[c]) => Waits(bud[c])
  BY <1>1, <1>2 DEF Same
<1>4. Pairing(bud)'
  BY <1>3, PairingStays DEF FoundInv
<1>5. ASSUME NEW c \in Buds PROVE (Exempt(c) => Exempt(c)') /\ HasPhone(c)' = HasPhone(c)
  BY <1>3 DEF Exempt, Slave, Linked, HasPhone
<1>6. ASSUME NEW c \in Buds, Linked(bud[c]), RelayDue(c) PROVE Spared(c)'
  <2>1. Linked(bud[c])'
    BY <1>3, <1>6 DEF Linked
  <2>2. CASE net[c] # <<>>
    BY <2>1, <2>2 DEF NetGrows, RelayDue, Spared
  <2>3. ASSUME NEW d \in Buds, d # c, SwitchNews(queue[d]) PROVE Spared(c)'
    <3>1. CASE d = b /\ NewSlave(Head(q)) /\ bud[b].off
      <4>1. bud'[b].off
        BY <1>3, <3>1
      <4>2. QED
        BY <2>1, <4>1 DEF Spared, Exempt
    <3>2. CASE d = b /\ NewSlave(Head(q)) /\ ~bud[b].off
      <4>1. Linked(bud[b])
        BY <1>6 DEF FoundInv, Pairing
      <4>2. net'[c] # <<>>
        BY <2>3, <3>2, <4>1
      <4>3. QED
        BY <2>1, <4>2 DEF Spared, RelayDue
    <3>3. CASE d # b \/ ~NewSlave(Head(q))
      <4>1. SwitchNews(queue'[d])
        BY <1>1, <1>2, <2>3, <3>3, NewsTailKept
      <4>2. QED
        BY <2>1, <2>3, <4>1 DEF Spared, RelayDue
    <3>4. QED
      BY <3>1, <3>2, <3>3
  <2>4. QED
    BY <1>6, <2>2, <2>3 DEF RelayDue
<1>7. ASSUME NEW c \in Buds PROVE BudFound(c)'
  <2>1. BudFound(c)
    BY DEF FoundInv
  <2>2. Unasked(queue'[c])
    <3>1. Unasked(queue[c])
      BY <2>1 DEF BudFound
    <3>2. QED
      BY <1>1, <1>2, <3>1, UnaskedTail
  <2>3. (Slave(bud[c]) => ~HasPhone(c))' /\ ~Waits(bud'[c])
    BY <1>3, <1>5, <2>1 DEF BudFound, Slave
  <2>4. ASSUME ~Exempt(c), ~HasPhone(c), Sure(bud[c], queue[c])
        PROVE  Sure(bud'[c], queue'[c])
    <3>1. CASE c # b
      BY <1>1, <2>4, <3>1
    <3>2. CASE c = b
      <4>1. Lonely(s)
        BY <2>4, <3>2 DEF Exempt, HasPhone, Lonely, Leads
      <4>2. /\ Findable(s) /\ ~Closing(Head(q)) => Findable(t)
            /\ Opening(Head(q)) => Findable(t)
        BY <4>1 DEF Airs
      <4>3. Sure(t, Tail(q))
        BY <1>2, <2>4, <3>2, <4>2, SureTail
      <4>4. QED
        BY <1>1, <3>2, <4>3
    <3>3. QED
      BY <3>1, <3>2
  <2>5. Spared(c)' \/ Sure(bud'[c], queue'[c])
    <3>1. CASE Exempt(c) \/ HasPhone(c)
      BY <1>5, <3>1 DEF Spared
    <3>2. QED
      BY <1>6, <2>1, <2>4, <3>1 DEF BudFound, Spared
  <2>6. QED
    BY <2>2, <2>3, <2>5 DEF BudFound
<1>8. QED
  BY <1>4, <1>7 DEF FoundInv

LEMMA FoundStartProc ==
    ASSUME IInv, FoundInv, NEW b \in Buds, HandleStartProc(b) PROVE FoundInv'
<1> DEFINE s == bud[b]
           q == queue[b]
           m == App(IF s.tws = "unpaired" THEN "unpaired" ELSE "paired")
           w == Append(Tail(q), m)
<1>1. /\ q # <<>> /\ Head(q).kind = "app" /\ bud' = bud /\ net' = net /\ acl' = acl
      /\ queue' = [queue EXCEPT ![b] = w]
  BY DEF HandleStartProc, Waiting
<1>2. /\ q \in Seq(GoodMessage) /\ Tail(q) \in Seq(GoodMessage) /\ m \in GoodMessage
      /\ ~Asking(m) /\ Opening(m) /\ ~NewSlave(Head(q))
  BY <1>1, QueueSeq, QueueHead, GoodMessages
     DEF AppMsgs, App, Asking, Opening, NewSlave
<1> HIDE DEF m
<1>3. /\ Sure(s, w)
      /\ SwitchNews(q) => SwitchNews(w)
      /\ Unasked(q) => Unasked(w)
  BY <1>1, <1>2, UnaskedTail, SureAppend, NewsTailKept, NewsKept
<1> HIDE DEF w
<1>4. \A c \in Buds : queue'[c] = IF c = b THEN w ELSE queue[c]
  BY <1>1 DEF IInv
<1>5. ASSUME NEW c \in Buds PROVE BudFound(c)'
  <2>1. \A d \in Buds : SwitchNews(queue[d]) => SwitchNews(queue'[d])
    BY <1>3, <1>4
  <2>2. BudFound(c)
    BY DEF FoundInv
  <2>3. Spared(c) => Spared(c)'
    BY <1>1, <2>1 DEF Spared, Exempt, HasPhone, RelayDue
  <2>4. Sure(bud[c], queue[c]) => Sure(bud'[c], queue'[c])
    BY <1>1, <1>3, <1>4
  <2>5. Unasked(queue'[c])
    BY <1>3, <1>4, <2>2 DEF BudFound
  <2>6. QED
    BY <1>1, <2>2, <2>3, <2>4, <2>5 DEF BudFound, HasPhone
<1>6. QED
  BY <1>1, <1>5 DEF FoundInv

LEMMA FoundPageDevice ==
    ASSUME IInv, NEW b \in Buds, HandlePageDevice(b)
    PROVE  \E t : Stays(bud[b], t) /\ Handled(b, t)
<1> DEFINE s == bud[b]
<1>1. Good(s)
  BY BudGood
<1>2. CASE connect_dev(s) + Len(s.list) >= 2
  <2>1. Handled(b, s)
    BY <1>2 DEF HandlePageDevice
  <2>2. QED
    BY <2>1, StaysSelf
<1>3. CASE ~(connect_dev(s) + Len(s.list) >= 2)
  <2>1. PICK added \in UNION {[1..n -> Phones] : n \in 0..3} :
            /\ PageDeviceLoop(s, added)
            /\ Handled(b, page_device_msg_handler(s, added))
    BY <1>3 DEF HandlePageDevice
  <2>2. /\ added \in Seq(Phones) /\ Len(s.list) < 2
        /\ \A i, j \in DOMAIN added : added[i] = added[j] => i = j
    BY <2>1, <1>3, <1>1, LoopFacts
  <2>3. Stays(s, page_device_msg_handler(s, added))
    BY <1>1, <2>2, FoundPageMsg, OpensStays
  <2>4. QED
    BY <2>1, <2>3
<1>4. QED
  BY <1>2, <1>3

LEMMA FoundHandle ==
    ASSUME IInv, FoundInv, NEW b \in Buds, HandleMessage(b) PROVE FoundInv'
<1> DEFINE m == Head(queue[b])
           s == bud[b]
<1>1. Good(s) /\ Pairing(bud) /\ BudFound(b)
  BY BudGood DEF FoundInv
<1>2. CASE HandlePhone(b)
  <2> DEFINE t == IF m.nth = 1 THEN FirstConnected(s, m.addr) ELSE SecondConnected(s, m.addr)
  <2>1. Waiting(b, "phone") /\ Handled(b, t) /\ net' = net /\ acl' = acl
    BY <1>2 DEF HandlePhone
  <2>2. queue[b] # <<>> /\ m.kind = "phone" /\ m.addr \in Phones
    BY <2>1, WaitingHead DEF Message
  <2>3. Alike(s, t)
    BY <1>1, <2>2, FoundFirst, FoundSecond
  <2> HIDE DEF t
  <2>4. Airs(s, m, t)
    BY <2>2, <2>3 DEF Airs, Opening, Closing
  <2>5. QED
    BY <2>1, <2>2, <2>4, NetStays, FoundHandled DEF NewSlave
<1>3. CASE HandleHci(b)
  <2> DEFINE t == dual_conn_hci_event_handler(s, m.ev, m.addr)
  <2>1. Waiting(b, "hci") /\ Handled(b, t) /\ net' = net /\ acl' = acl
    BY <1>3 DEF HandleHci
  <2>2. queue[b] # <<>> /\ m.kind = "hci" /\ m.addr \in Phones
    BY <2>1, WaitingHead DEF Message
  <2>3. Alike(s, t) /\ (m.ev # "ok" => Opens(s, t))
    BY <1>1, <2>2, FoundHci
  <2> HIDE DEF t
  <2>4. Airs(s, m, t)
    BY <2>2, <2>3 DEF Airs, Opens, Opening, Closing
  <2>5. QED
    BY <2>1, <2>2, <2>4, NetStays, FoundHandled DEF NewSlave
<1>4. CASE HandleConnected(b)
  <2> DEFINE t == TwsConnected(s, m.role)
  <2>1. /\ Waiting(b, "tws") /\ m.ev = "connected" /\ Handled(b, t) /\ acl' = acl
        /\ Send(b, PageInfo(t)) \/ net' = net
    BY <1>4 DEF HandleConnected
  <2>2. queue[b] # <<>> /\ m.kind = "tws" /\ m.role \in Role
    BY <2>1, WaitingHead DEF Message
  <2>3. Alike(s, t) /\ (m.role = "master" => Opens(s, t)) /\ OnceEach(PageInfo(t))
    BY <1>1, FoundConnected, GoodTwsConnected, GoodInfo
  <2> HIDE DEF t
  <2>4. NetGrows
    BY <1>1, <2>1, <2>3, SendGrows, NetStays
  <2>5. Airs(s, m, t)
    BY <2>1, <2>2, <2>3 DEF Airs, Opens, Opening, Closing, Role
  <2>6. QED
    BY <2>1, <2>2, <2>4, <2>5, FoundHandled DEF NewSlave
<1>5. CASE HandleDetach(b)
  <2> DEFINE t == TwsDetached(s, m.role, m.reason)
  <2>1. Waiting(b, "tws") /\ m.ev = "detach" /\ Handled(b, t) /\ net' = net /\ acl' = acl
    BY <1>5 DEF HandleDetach
  <2>2. queue[b] # <<>> /\ m.kind = "tws"
    BY <2>1, WaitingHead
  <2>3. Airs(s, m, t)
    BY <1>1, FoundDetached, OpensAirs
  <2> HIDE DEF t
  <2>4. QED
    BY <2>1, <2>2, <2>3, NetStays, FoundHandled DEF NewSlave
<1>6. CASE HandleSwitch(b)
  <2> DEFINE t == RoleSwitched(s, m.role)
  <2>1. /\ Waiting(b, "tws") /\ m.ev = "switch" /\ Handled(b, t) /\ acl' = acl
        /\ IF m.role = "slave" /\ ~s.off THEN Send(b, PageInfo(t)) ELSE net' = net
    BY <1>6 DEF HandleSwitch
  <2>2. queue[b] # <<>> /\ m.kind = "tws"
    BY <2>1, WaitingHead
  <2>3. Alike(s, t) /\ (m.role # "slave" => Stays(s, t)) /\ OnceEach(PageInfo(t))
    BY <1>1, FoundSwitched, GoodRoleSwitched, GoodInfo
  <2> HIDE DEF t
  <2>4. NetGrows
    BY <1>1, <2>1, <2>3, SendGrows, NetStays
  <2>5. NewSlave(m) /\ ~s.off /\ Linked(s) => \A c \in Buds : c # b => net'[c] # <<>>
    BY <1>1, <2>1, <2>3, SendGrows DEF NewSlave
  <2>6. Airs(s, m, t)
    BY <2>1, <2>2, <2>3 DEF Airs, Stays, Opening, Closing
  <2>7. QED
    BY <2>1, <2>2, <2>4, <2>5, <2>6, FoundHandled
<1>7. CASE HandleData(b)
  <2> DEFINE t == rx_device_info(s, m.info)
  <2>1. Waiting(b, "data") /\ Handled(b, t) /\ net' = net /\ acl' = acl
    BY <1>7 DEF HandleData
  <2>2. queue[b] # <<>> /\ m.kind = "data" /\ OnceEach(m.info)
    BY <2>1, WaitingHead DEF GoodMessage
  <2>3. Airs(s, m, t)
    BY <1>1, <2>2, FoundRx, OpensAirs
  <2> HIDE DEF t
  <2>4. QED
    BY <2>1, <2>2, <2>3, NetStays, FoundHandled DEF NewSlave
<1>8. CASE HandleApp(b)
  <2> DEFINE t == dual_conn_app_event_handler(s, m.msg)
  <2>1. Waiting(b, "app") /\ m.msg \in AppMsgs /\ Handled(b, t) /\ net' = net /\ acl' = acl
    BY <1>8 DEF HandleApp
  <2>2. queue[b] # <<>> /\ m.kind = "app"
    BY <2>1, WaitingHead
  <2>3. m.msg # "wait_pair"
    <3>1. ~Asking(m)
      BY <1>1, <2>2, QueueSeq, UnaskedTail DEF BudFound
    <3>2. QED
      BY <2>2, <3>1 DEF Asking
  <2>4. Airs(s, m, t)
    BY <1>1, <2>1, <2>3, FoundApp, OpensAirs
  <2> HIDE DEF t
  <2>5. QED
    BY <2>1, <2>2, <2>4, NetStays, FoundHandled DEF NewSlave
<1>9. CASE HandleStartProc(b)
  BY <1>9, FoundStartProc
<1>10. CASE HandlePageDevice(b)
  <2>1. queue[b] # <<>> /\ m.kind = "app" /\ m.msg = "page_device"
        /\ net' = net /\ acl' = acl
    BY <1>10 DEF HandlePageDevice, Waiting
  <2>2. PICK t : Stays(s, t) /\ Handled(b, t)
    BY <1>10, FoundPageDevice
  <2>3. Airs(s, m, t)
    BY <2>1, <2>2 DEF Airs, Stays, Opening
  <2>4. QED
    BY <2>1, <2>2, <2>3, NetStays, FoundHandled DEF NewSlave
<1>11. QED
  BY <1>2, <1>3, <1>4, <1>5, <1>6, <1>7, <1>8, <1>9, <1>10 DEF HandleMessage

LEMMA FoundReceive == ASSUME IInv, FoundInv, NEW b \in Buds, Receive(b) PROVE FoundInv'
<1> DEFINE m == Data(Head(net[b]))
<1>1. /\ Post(b, m) /\ bud' = bud /\ net[b] # <<>> /\ acl' = acl
      /\ net' = [net EXCEPT ![b] = Tail(net[b])]
  BY DEF Receive
<1>2. m \in GoodMessage /\ Opening(m) /\ ~Asking(m) /\ ~Closing(m)
  <2>1. m \in GoodMessage
    BY <1>1, GoodMessages, HeadTailProperties DEF IInv
  <2>2. QED
    BY <2>1 DEF Data, Opening, Closing, Asking
<1> HIDE DEF m
<1>3. \A c \in Buds : queue'[c] = IF c = b THEN Append(queue[b], m) ELSE queue[c]
  BY <1>1 DEF Post, IInv
<1>4. Sure(bud'[b], queue'[b])
  BY <1>2, <1>3, QueueSeq, SureAppend
<1>5. \A c \in Buds : c # b => net'[c] = net[c]
  BY <1>1 DEF IInv
<1>6. \A c \in Buds : HasPhone(c)' = HasPhone(c)
  BY <1>1 DEF HasPhone
<1>7. \A c \in Buds : c # b => Quietly(c, m)
  BY <1>1, <1>2, <1>5, <1>6 DEF Quietly
<1>8. QED
  BY <1>1, <1>2, <1>3, <1>4, <1>6, <1>7, FoundStep

LEMMA FoundClock == ASSUME IInv, FoundInv, NEW b \in Buds, Clock(b) PROVE FoundInv'
<1> DEFINE s == bud[b]
<1>1. Good(s) /\ s \in Bud /\ Pairing(bud) /\ ~Waits(s)
  BY BudGood DEF FoundInv, BudFound
<1>2. CASE Timeout(b)
  <2>1. bud' = [bud EXCEPT ![b] = RunTimer(s)] /\ queue' = queue /\ net' = net /\ acl' = acl
    BY <1>2 DEF Timeout
  <2>2. QED
    BY <1>1, <2>1, FoundTimer, NetStays, FoundTurn
<1>3. CASE OrphanTimeout(b)
  <2>1. PICK cb \in s.orphans : bud' = [bud EXCEPT ![b] = RunOrphan(s, cb)]
    BY <1>3 DEF OrphanTimeout
  <2>2. queue' = queue /\ net' = net /\ acl' = acl
    BY <1>3 DEF OrphanTimeout
  <2>3. cb # "msg_wait_pair"
    BY <1>1, <2>1 DEF Waits
  <2>4. QED
    BY <1>1, <2>1, <2>2, <2>3, FoundOrphan, NetStays, FoundTurn
<1>4. CASE InquiryTimeout(b)
  <2> DEFINE t == [close_inquiry_scan(s) EXCEPT
                       !.inquiry = FALSE,
                       !.orphans = IF s.inquiry THEN @ ELSE @ \ {"inquiry"}]
  <2>1. /\ bud' = [bud EXCEPT ![b] = t] /\ queue' = queue /\ acl' = acl
        /\ Send(b, CountInfo(t)) \/ net' = net
    BY <1>4 DEF InquiryTimeout
  <2>2. Stays(s, t)
    BY <1>1, FoundInquiry
  <2> HIDE DEF t
  <2>3. OnceEach(CountInfo(t))
    <3>1. IInv'
      BY <1>4, InquiryStep
    <3>2. bud'[b] = t /\ bud'[b] \in GoodState
      BY <2>1, <3>1 DEF IInv
    <3>3. QED
      BY <3>2, GoodStateIff, GoodInfo
  <2>4. NetGrows
    BY <1>1, <2>1, <2>3, SendGrows, NetStays
  <2>5. QED
    BY <2>1, <2>2, <2>4, FoundTurn
<1>5. CASE Receive(b)
  BY <1>5, FoundReceive
<1>6. ASSUME NEW p \in Phones, PageTimeout(b, p) PROVE FoundInv'
  <2>1. /\ p \in s.ptimers /\ queue' = queue /\ net' = net /\ acl' = acl
        /\ bud' = [bud EXCEPT ![b] = dual_conn_page_device_timeout(s, p)]
    BY <1>6 DEF PageTimeout
  <2>2. QED
    BY <1>1, <2>1, FoundPageTimeout, NetStays, FoundTurn
<1>7. ASSUME NEW p \in Phones, Elapse(b, p) PROVE FoundInv'
  <2>1. PICK i \in DOMAIN s.list :
            bud' = [bud EXCEPT ![b] = [s EXCEPT !.list[i].late = TRUE]]
    BY <1>7 DEF Elapse, IInv
  <2> DEFINE t == [s EXCEPT !.list[i].late = TRUE]
  <2>2. Stays(s, t)
    BY <1>1, FoundElapse
  <2>3. queue' = queue /\ net' = net /\ acl' = acl
    BY <1>7 DEF Elapse
  <2> HIDE DEF t
  <2>4. QED
    BY <2>1, <2>2, <2>3, NetStays, FoundTurn DEF t
<1>8. QED
  BY <1>2, <1>3, <1>4, <1>5, <1>6, <1>7 DEF Clock

(***************************************************************************)
(* The phones, the user and other modules.                                 *)
(***************************************************************************)

\* What a phone, or the end of a page, changes at b, and what is posted of it.
LEMMA FoundPosted ==
    ASSUME IInv, FoundInv, NEW b \in Buds, NEW x, NEW y,
           bud' = [bud EXCEPT ![b] = [bud[b] EXCEPT !.page = x]]
               \/ bud' = [bud EXCEPT ![b] = [bud[b] EXCEPT !.conn = x]],
           acl' = [acl EXCEPT ![b] = y], net' = net,
           NEW m \in GoodMessage, m.kind # "app",
           \A c \in Buds : queue'[c] = queue[c] \/ queue'[c] = Append(queue[c], m),
           Slave(bud[b]) /\ HasPhone(b)' => HasPhone(b),
           Closing(m) => \A c \in Buds :
               queue'[c] = queue[c] \/ Slave(bud[c]) \/ HasPhone(c)',
           \/ HasPhone(b) => HasPhone(b)'
           \/ Opening(m) /\ queue'[b] = Append(queue[b], m)
    PROVE  FoundInv'
<1> DEFINE s == bud[b]
<1>1. PICK t \in {[s EXCEPT !.page = x], [s EXCEPT !.conn = x]} : bud' = [bud EXCEPT ![b] = t]
  OBVIOUS
<1>2. /\ t.role = s.role /\ t.tws = s.tws /\ t.off = s.off /\ t.exit = s.exit
      /\ t.timer = s.timer /\ t.orphans = s.orphans /\ t.ptimers = s.ptimers
      /\ t.scan = s.scan /\ t.op = s.op
  <2>1. s \in Bud
    BY BudGood
  <2>2. t \in {[s EXCEPT !.page = x], [s EXCEPT !.conn = x]}
    OBVIOUS
  <2> HIDE DEF s
  <2>3. QED
    BY <2>1, <2>2 DEF Bud
<1>3. \A c \in Buds : /\ bud'[c] = IF c = b THEN t ELSE bud[c]
                      /\ acl'[c] = IF c = b THEN y ELSE acl[c]
  BY <1>1 DEF IInv
<1>4. \A c \in Buds : /\ bud'[c].role = bud[c].role /\ bud'[c].tws = bud[c].tws
                      /\ bud'[c].off = bud[c].off /\ bud'[c].exit = bud[c].exit
                      /\ Waits(bud'[c]) => Waits(bud[c])
                      /\ Findable(bud[c]) => Findable(bud'[c])
  BY <1>2, <1>3 DEF Waits, Findable
<1>5. ~Asking(m)
  BY DEF Asking
<1>6. \A c \in Buds : c # b => HasPhone(c)' = HasPhone(c)
  BY <1>3 DEF HasPhone
<1>7. \A c \in Buds : Slave(bud[c]) /\ HasPhone(c)' => HasPhone(c)
  BY <1>6
<1>8. ASSUME NEW c \in Buds PROVE Sure(bud'[c], queue'[c]) \/ Quietly(c, m)
  <2>1. CASE HasPhone(c) => HasPhone(c)'
    BY <1>4, <2>1 DEF Quietly
  <2>2. CASE ~(HasPhone(c) => HasPhone(c)')
    <3>1. c = b /\ Opening(m) /\ queue'[b] = Append(queue[b], m)
      BY <1>6, <2>2
    <3>2. QED
      BY <3>1, QueueSeq, SureAppend
  <2>3. QED
    BY <2>1, <2>2
<1>9. QED
  BY <1>4, <1>5, <1>7, <1>8, FoundStep

\* A bud is told of the phones of its sibling only as a slave.
LEMMA PeerSlave ==
    ASSUME FoundInv, NEW b \in Buds, ~Slave(bud[b]), NEW c \in Peers(b), c \in Buds, c # b
    PROVE  Slave(bud[c])
BY DEF FoundInv, Pairing, Peers

LEMMA FoundLink ==
    ASSUME IInv, FoundInv, NEW b \in Buds, NEW p \in Phones, PhoneLink(b, p) PROVE FoundInv'
<1> DEFINE s == bud[b]
           x == IF s.page = p THEN NoPhone ELSE s.page
           y == acl[b] \cup {p}
           m == Hci("ok", p)
<1>1. /\ bud' = [bud EXCEPT ![b] = [s EXCEPT !.page = x]] /\ net' = net
      /\ acl' = [acl EXCEPT ![b] = y] /\ PostAll(Peers(b), m) /\ ~Slave(s)
  BY DEF PhoneLink
<1>2. m \in GoodMessage /\ m.kind # "app"
  BY GoodMessages DEF HciEvents, Hci
<1> HIDE DEF x, m
<1>3. \A c \in Buds : queue'[c] = IF c \in Peers(b) THEN Append(queue[c], m) ELSE queue[c]
  BY <1>1, PostedPeers
<1>4. HasPhone(b)'
  BY <1>1 DEF HasPhone, IInv
<1>5. \A c \in Buds : queue'[c] = queue[c] \/ Slave(bud[c]) \/ HasPhone(c)'
  BY <1>1, <1>3, <1>4, PeerSlave
<1> HIDE DEF y
<1>6. QED
  BY <1>1, <1>2, <1>3, <1>4, <1>5, FoundPosted

LEMMA FoundUp ==
    ASSUME IInv, FoundInv, NEW b \in Buds, NEW p \in Phones, PhoneUp(b, p) PROVE FoundInv'
<1> DEFINE s == bud[b]
           x == s.conn \cup {p}
           y == acl[b] \ {p}
           n == IF s.conn = {} THEN 1 ELSE 2
           m == PhoneEvent(n, p)
<1>1. /\ bud' = [bud EXCEPT ![b] = [s EXCEPT !.conn = x]] /\ net' = net
      /\ acl' = [acl EXCEPT ![b] = y] /\ PostAll(Peers(b), m) /\ p \in acl[b]
  BY DEF PhoneUp
<1>2. m \in GoodMessage /\ m.kind # "app"
  BY GoodMessages DEF PhoneEvent
<1>3. HasPhone(b) /\ ~Slave(s)
  BY <1>1 DEF HasPhone, FoundInv, BudFound
<1> HIDE DEF m, y
<1>4. \A c \in Buds : queue'[c] = IF c \in Peers(b) THEN Append(queue[c], m) ELSE queue[c]
  BY <1>1, PostedPeers
<1>5. HasPhone(b)'
  <2>1. bud'[b] = [s EXCEPT !.conn = x]
    BY <1>1 DEF IInv
  <2>2. bud'[b].conn = x
    BY <2>1, BudGood, PhonesKeep
  <2>3. QED
    BY <2>2 DEF HasPhone
<1> HIDE DEF x
<1>6. \A c \in Buds : queue'[c] = queue[c] \/ Slave(bud[c]) \/ HasPhone(c)'
  BY <1>3, <1>4, <1>5, PeerSlave
<1>7. QED
  BY <1>1, <1>2, <1>3, <1>4, <1>5, <1>6, FoundPosted

LEMMA FoundDown ==
    ASSUME IInv, FoundInv, NEW b \in Buds, NEW p \in Phones, NEW ev \in {"lost", "gone"},
           PhoneDown(b, p, ev)
    PROVE  FoundInv'
<1> DEFINE s == bud[b]
           x == s.conn \ {p}
           y == acl[b] \ {p}
           m == Hci(ev, p)
<1>1. /\ bud' = [bud EXCEPT ![b] = [s EXCEPT !.conn = x]] /\ net' = net
      /\ acl' = [acl EXCEPT ![b] = y] /\ PostAll(Peers(b), m)
      /\ p \in s.conn \cup acl[b]
  BY DEF PhoneDown
<1>2. m \in GoodMessage /\ m.kind # "app" /\ Opening(m) /\ ~Closing(m)
  BY GoodMessages DEF HciEvents, Hci, Opening, Closing
<1>3. HasPhone(b) /\ b \in Peers(b)
  BY <1>1 DEF HasPhone, Peers
<1> HIDE DEF m, x, y
<1>4. \A c \in Buds : queue'[c] = IF c \in Peers(b) THEN Append(queue[c], m) ELSE queue[c]
  BY <1>1, PostedPeers
<1>5. QED
  BY <1>1, <1>2, <1>3, <1>4, FoundPosted

LEMMA FoundPageFails ==
    ASSUME IInv, FoundInv, NEW b \in Buds, NEW ev \in {"lost", "gone", "rejected"},
           PageFails(b, ev)
    PROVE  FoundInv'
<1> DEFINE s == bud[b]
           m == Hci(ev, s.page)
<1>1. /\ s.page # NoPhone /\ bud' = [bud EXCEPT ![b] = [s EXCEPT !.page = NoPhone]]
      /\ Post(b, m) /\ net' = net /\ acl' = acl
  BY DEF PageFails
<1>2. m \in GoodMessage /\ ~Asking(m) /\ Opening(m) /\ ~Closing(m)
  <2>1. s.page \in Phones
    BY <1>1, BudGood DEF Bud
  <2>2. m \in GoodMessage
    BY <2>1, GoodMessages DEF HciEvents
  <2>3. QED
    BY <2>2 DEF Hci, Asking, Opening, Closing
<1> HIDE DEF m
<1>3. m.kind # "app"
  BY DEF m, Hci
<1>4. \A c \in Buds : queue'[c] = queue[c] \/ queue'[c] = Append(queue[c], m)
  BY <1>1, PostedOne
<1>5. acl' = [acl EXCEPT ![b] = acl[b]]
  BY <1>1 DEF IInv
<1>6. HasPhone(b)' = HasPhone(b)
  <2>1. bud'[b] = [s EXCEPT !.page = NoPhone]
    BY <1>1 DEF IInv
  <2>2. bud'[b].conn = s.conn
    BY <2>1, BudGood, PhonesKeep DEF Same
  <2>3. QED
    BY <1>1, <2>2 DEF HasPhone
<1>7. QED
  BY <1>1, <1>2, <1>3, <1>4, <1>5, <1>6, FoundPosted

LEMMA FoundUserMsg ==
    ASSUME IInv, FoundInv, "wait_pair" \notin UserOps, NEW b \in Buds, UserMsg(b)
    PROVE  FoundInv'
<1>1. PICK x \in UserOps \cap (AppMsgs \cup {"start_proc", "page_device"}) : Post(b, App(x))
  BY DEF UserMsg
<1> DEFINE m == App(x)
<1>2. bud' = bud /\ net' = net /\ acl' = acl
  BY DEF UserMsg
<1>3. m \in GoodMessage /\ ~Asking(m) /\ ~Closing(m)
  BY <1>1, GoodMessages DEF App, Asking, Closing
<1> HIDE DEF m
<1>4. \A c \in Buds : queue'[c] = queue[c] \/ queue'[c] = Append(queue[c], m)
  BY <1>1, PostedOne DEF m
<1>5. \A c \in Buds : Quietly(c, m) /\ HasPhone(c)' = HasPhone(c)
  BY <1>2, <1>3 DEF Quietly, HasPhone
<1>6. QED
  BY <1>2, <1>3, <1>4, <1>5, FoundStep

LEMMA FoundUser ==
    ASSUME IInv, FoundInv, NEW b \in Buds, Refresh(b) \/ Esco(b) PROVE FoundInv'
<1> DEFINE s == bud[b]
<1>1. s \in Bud
  BY BudGood
<1>2. CASE Refresh(b)
  <2>1. /\ bud' = [bud EXCEPT ![b] = tws_dual_conn_state_handler(s)]
        /\ queue' = queue /\ net' = net /\ acl' = acl
    BY <1>2 DEF Refresh
  <2>2. QED
    BY <1>1, <2>1, StateOpens, OpensStays, NetStays, FoundTurn
<1>3. CASE Esco(b)
  <2> DEFINE x == [s EXCEPT !.esco = ~s.esco]
             t == IF x.off /\ ~x.esco THEN x ELSE tws_page_scan_deal_by_esco(x)
  <2>1. bud' = [bud EXCEPT ![b] = t] /\ queue' = queue /\ net' = net /\ acl' = acl
    BY <1>3 DEF Esco
  <2>2. s.esco \/ s.conn # {}
    BY <1>3 DEF Esco
  <2>3. Stays(s, t)
    BY <1>1, <2>2, FoundEsco
  <2> HIDE DEF t
  <2>4. QED
    BY <2>1, <2>3, NetStays, FoundTurn
<1>4. QED
  BY <1>2, <1>3

LEMMA CloseAlike ==
    ASSUME NEW s, Good(s) PROVE Alike(s, tws_dual_conn_close(s))
<1> DEFINE d == DelTimer(s)
           k == CancelSeek(d)
           l == CancelListen(k)
           w == write_scan_conn_enable(l, "off")
<1>1. d \in Bud /\ Alike(s, d)
  BY GoodBud, AlikeSetters, KeepsDelTimer DEF Keeps
<1> HIDE DEF d
<1>2. k \in Bud /\ Alike(s, k)
  BY <1>1, RestsCancel, RestsAlike, AlikeTrans DEF Rests
<1> HIDE DEF k
<1>3. l \in Bud /\ Alike(s, l)
  BY <1>2, RestsCancel, RestsAlike, AlikeTrans DEF Rests
<1> HIDE DEF l
<1>4. w \in Bud /\ Alike(s, w)
  BY <1>3, RestsScans, RestsAlike, AlikeTrans DEF Rests
<1> HIDE DEF w
<1>5. Alike(s, PageCancel(w))
  BY <1>4, RestsPage, RestsAlike, AlikeTrans
<1>6. QED
  BY <1>5 DEF tws_dual_conn_close, w, l, k, d

LEMMA FoundClose ==
    ASSUME IInv, FoundInv, NEW b \in Buds, SoftPoweroff(b) \/ ModeExit(b) PROVE FoundInv'
<1> DEFINE s == bud[b]
           x == [s EXCEPT !.off = TRUE]
           y == [s EXCEPT !.exit = TRUE]
           u == tws_dual_conn_close(x)
           v == tws_dual_conn_close(y)
<1>1. Good(x) /\ Good(y) /\ s \in Bud
  BY BudGood, GoodOutside
<1>2. /\ x.role = s.role /\ x.tws = s.tws /\ x.conn = s.conn /\ x.off /\ x.exit = s.exit
      /\ y.role = s.role /\ y.tws = s.tws /\ y.conn = s.conn /\ y.exit /\ y.off = s.off
      /\ x.timer = s.timer /\ x.orphans = s.orphans
      /\ y.timer = s.timer /\ y.orphans = s.orphans
  <2> HIDE DEF s
  <2>1. QED
    BY <1>1 DEF Bud
<1> HIDE DEF x, y
<1>3. Good(u) /\ Good(v) /\ Alike(x, u) /\ Alike(y, v)
  BY <1>1, GoodClose, CloseAlike
<1>4. /\ u.role = s.role /\ u.tws = s.tws /\ u.conn = s.conn /\ u.off /\ u.exit = s.exit
      /\ v.role = s.role /\ v.tws = s.tws /\ v.conn = s.conn /\ v.exit /\ v.off = s.off
      /\ (Waits(u) => Waits(s)) /\ (Waits(v) => Waits(s))
  BY <1>2, <1>3 DEF Alike, Same, Waits
<1>5. PICK t \in {u, v} : /\ bud' = [bud EXCEPT ![b] = t]
                          /\ Send(b, PageInfo(t)) \/ net' = net
  BY DEF SoftPoweroff, ModeExit, x, y
<1>6. queue' = queue /\ acl' = acl
  BY DEF SoftPoweroff, ModeExit
<1> HIDE DEF u, v
<1>7. /\ Good(t) /\ t.role = s.role /\ t.tws = s.tws /\ t.conn = s.conn
      /\ (t.off \/ t.exit) /\ (s.off => t.off) /\ (s.exit => t.exit)
      /\ (Waits(t) => Waits(s))
  BY <1>3, <1>4
<1>8. NetGrows
  BY <1>5, <1>7, GoodInfo, SendGrows, NetStays DEF FoundInv
<1>9. \A c \in Buds : bud'[c] = IF c = b THEN t ELSE bud[c]
  BY <1>5 DEF IInv
<1>10. \A c \in Buds : /\ bud'[c].role = bud[c].role /\ bud'[c].tws = bud[c].tws
                       /\ (bud[c].off => bud'[c].off) /\ (bud[c].exit => bud'[c].exit)
                       /\ (Waits(bud'[c]) => Waits(bud[c]))
                       /\ Findable(bud[c]) => Findable(bud'[c]) \/ bud'[c].off \/ bud'[c].exit
  BY <1>7, <1>9
<1>11. \A c \in Buds : HasPhone(c)' = HasPhone(c)
  BY <1>6, <1>7, <1>9 DEF HasPhone
<1>12. \A c \in Buds : Quietly(c, App("paired"))
  BY <1>6, <1>8, <1>10, <1>11 DEF Quietly, NetGrows
<1>13. \A c \in Buds : queue'[c] = queue[c]
  BY <1>6
<1>14. QED
  BY <1>10, <1>11, <1>12, <1>13, StartsUnasked, FoundStep

LEMMA InitAlike ==
    ASSUME NEW s \in Bud, NEW rec PROVE Alike(s, dual_conn_page_devices_init(s, rec))
<1> DEFINE n == Len(rec)
           list == CASE n = 0 -> <<>>
                     [] n = 1 -> <<Fresh(rec[1])>>
                     [] OTHER -> <<Fresh(rec[n]), Fresh(rec[n-1])>>
           left == IF s.inquiry THEN s.orphans \cup {"inquiry"} ELSE s.orphans
           t == [s EXCEPT !.list = list, !.ptimers = {}, !.num = n, !.disable = 0,
                          !.orphans = left, !.inquiry = TRUE]
           v == [t EXCEPT !.addr2 = rec[1]]
<1>1. dual_conn_page_devices_init(s, rec) = IF n = 1 THEN v ELSE t
  BY DEF dual_conn_page_devices_init
<1> HIDE DEF n, list, left
<1>2. t.timer = s.timer /\ t.orphans = left /\ v.timer = s.timer /\ v.orphans = left
  BY DEF Bud
<1> HIDE DEF t, v
<1>3. ~("msg_wait_pair" \in left /\ "msg_wait_pair" \notin s.orphans)
  BY DEF left
<1>4. Same(s, dual_conn_page_devices_init(s, rec))
  BY InitSame
<1>5. QED
  BY <1>1, <1>2, <1>3, <1>4 DEF Alike, Waits

\* The message that power on posts opens the scans.
LEMMA FoundModeInit ==
    ASSUME IInv, FoundInv, NEW b \in Buds, ModeInit(b) PROVE FoundInv'
<1> DEFINE s == bud[b]
           w == [s EXCEPT !.exit = FALSE]
           u == [w EXCEPT !.switch = TRUE]
           m == bt_tws_poweron(s.tws)
<1>1. PICK rec \in Records :
          bud' = [bud EXCEPT ![b] = dual_conn_page_devices_init(u, rec)]
  BY DEF ModeInit
<1>2. Post(b, m) /\ net' = net /\ acl' = acl
  BY DEF ModeInit
<1>3. /\ u \in Bud /\ u.role = s.role /\ u.tws = s.tws /\ u.off = s.off /\ u.conn = s.conn
      /\ u.timer = s.timer /\ u.orphans = s.orphans
  <2>1. s \in Bud
    BY BudGood
  <2> HIDE DEF s
  <2>2. w \in Bud
    BY <2>1 DEF Bud
  <2>3. w.role = s.role /\ w.tws = s.tws /\ w.off = s.off /\ w.conn = s.conn
        /\ w.timer = s.timer /\ w.orphans = s.orphans
    BY <2>1 DEF Bud
  <2> HIDE DEF w
  <2>4. QED
    BY <2>2, <2>3 DEF Bud
<1> HIDE DEF u
<1> DEFINE t == dual_conn_page_devices_init(u, rec)
<1>4. /\ t.role = s.role /\ t.tws = s.tws /\ t.off = s.off /\ t.conn = s.conn
      /\ Waits(t) => Waits(s)
  BY <1>3, InitAlike DEF Alike, Same, Waits
<1> HIDE DEF t
<1>5. m \in GoodMessage /\ ~Asking(m) /\ Opening(m) /\ ~Closing(m)
  <2>1. m \in GoodMessage
    BY PowerOnRearms
  <2>2. QED
    BY <2>1 DEF bt_tws_poweron, App, Asking, Opening, Closing
<1> HIDE DEF m
<1>6. \A c \in Buds : bud'[c] = IF c = b THEN t ELSE bud[c]
  BY <1>1 DEF IInv, t
<1>7. \A c \in Buds : queue'[c] = IF c = b THEN Append(queue[b], m) ELSE queue[c]
  BY <1>2 DEF Post, IInv
<1>8. \A c \in Buds : /\ bud'[c].role = bud[c].role /\ bud'[c].tws = bud[c].tws
                      /\ bud'[c].off = bud[c].off /\ HasPhone(c)' = HasPhone(c)
                      /\ Waits(bud'[c]) => Waits(bud[c])
  BY <1>2, <1>4, <1>6 DEF HasPhone
<1>9. Sure(bud'[b], queue'[b])
  BY <1>5, <1>7, QueueSeq, SureAppend
<1>10. \A c \in Buds : c # b => Quietly(c, m)
  BY <1>2, <1>5, <1>6, <1>8 DEF Quietly
<1>11. QED
  BY <1>5, <1>7, <1>8, <1>9, <1>10, FoundStep

(***************************************************************************)
(* The TWS link.                                                           *)
(***************************************************************************)

LEMMA FoundNews ==
    ASSUME IInv, FoundInv, NEW f, NEW g, bud' = [c \in Buds |-> f[c]],
           queue' = [c \in Buds |-> Append(queue[c], g[c])], Pairing(f),
           \A c \in Buds : /\ g[c] \in GoodMessage /\ g[c].kind = "tws"
                           /\ f[c].timer = bud[c].timer /\ f[c].orphans = bud[c].orphans
                           /\ Slave(f[c]) => ~HasPhone(c)'
                           /\ \/ Slave(f[c]) \/ Opening(g[c])
                              \/ Linked(f[c]) /\ RelayDue(c)'
    PROVE  FoundInv'
<1>1. Pairing(bud)'
  BY DEF Pairing
<1>2. ASSUME NEW c \in Buds PROVE BudFound(c)'
  <2>1. queue[c] \in Seq(GoodMessage) /\ BudFound(c)
    BY QueueSeq DEF FoundInv
  <2>2. bud'[c] = f[c] /\ queue'[c] = Append(queue[c], g[c])
    OBVIOUS
  <2>3. Unasked(queue'[c])
    BY <2>1, <2>2, SureAppend DEF Asking, BudFound
  <2>4. Opening(g[c]) => Sure(bud'[c], queue'[c])
    BY <2>1, <2>2, SureAppend
  <2>5. Slave(bud'[c]) => ~HasPhone(c)'
    BY <2>2
  <2>6. ~Waits(bud'[c])
    BY <2>1, <2>2 DEF BudFound, Waits
  <2>7. Spared(c)' \/ Sure(bud'[c], queue'[c])
    BY <2>2, <2>4 DEF Spared, Exempt
  <2>8. QED
    BY <2>3, <2>5, <2>6, <2>7 DEF BudFound
<1>3. QED
  BY <1>1, <1>2 DEF FoundInv

LEMMA FoundTwsLink == ASSUME IInv, FoundInv, NEW b \in Buds, TwsLink(b) PROVE FoundInv'
<1> DEFINE role == [c \in Buds |-> IF c = b THEN "master" ELSE "slave"]
           f == [c \in Buds |-> [bud[c] EXCEPT !.tws = "linked", !.op = "idle",
                                               !.role = role[c]]]
           g == [c \in Buds |-> Tws("connected", role[c], "other")]
<1>1. /\ bud' = [c \in Buds |-> f[c]] /\ acl' = acl /\ ~HasPhone(Sibling(b))
      /\ queue' = [c \in Buds |-> Append(queue[c], g[c])]
  BY DEF TwsLink, MayBeMaster
<1>2. \A c \in Buds : role[c] \in Role /\ bud[c] \in Bud
                      /\ role[c] = IF c = b THEN "master" ELSE "slave"
  BY BudGood DEF Role
<1> HIDE DEF role
<1>3. \A c \in Buds : /\ f[c].role = role[c] /\ f[c].tws = "linked"
                      /\ f[c].conn = bud[c].conn
                      /\ f[c].timer = bud[c].timer /\ f[c].orphans = bud[c].orphans
  BY <1>2 DEF Bud
<1>4. \A c \in Buds : g[c] \in GoodMessage
  BY <1>2, GoodMessages DEF DetachReason
<1>5. \A c \in Buds : g[c].kind = "tws" /\ g[c].role = role[c] /\ g[c].ev = "connected"
  BY DEF Tws
<1> HIDE DEF f, g
<1>6. \A c, d \in Buds : c # d => (c = b <=> d # b)
  BY TwoBuds
<1>7. Pairing(f)
  BY <1>2, <1>3, <1>6 DEF Pairing, Linked, Slave
<1>8. \A c \in Buds : Slave(f[c]) \/ Opening(g[c])
  BY <1>2, <1>3, <1>5 DEF Slave, Opening
<1>9. ASSUME NEW c \in Buds, Slave(f[c]) PROVE ~HasPhone(c)'
  <2>1. c # b
    BY <1>2, <1>3, <1>9 DEF Slave
  <2>2. ~HasPhone(c)
    BY <1>1, <2>1, TwoBuds
  <2>3. QED
    BY <1>1, <1>3, <2>2 DEF HasPhone
<1>10. QED
  BY <1>1, <1>3, <1>4, <1>5, <1>7, <1>8, <1>9, FoundNews

LEMMA FoundTwsDetach ==
    ASSUME IInv, FoundInv, NEW reason \in DetachReason, TwsDetach(reason) PROVE FoundInv'
<1> DEFINE x == IF reason = "remove_pairs" THEN "unpaired" ELSE "paired"
           f == [c \in Buds |-> [bud[c] EXCEPT !.role = "master", !.tws = x]]
           g == [c \in Buds |-> Tws("detach", bud[c].role, reason)]
<1>1. /\ bud' = [c \in Buds |-> f[c]]
      /\ queue' = [c \in Buds |-> Append(queue[c], g[c])]
  BY DEF TwsDetach
<1>2. x # "linked" /\ \A c \in Buds : bud[c] \in Bud /\ bud[c].role \in Role
  BY BudGood DEF Bud
<1> HIDE DEF x
<1>3. \A c \in Buds : /\ f[c].tws = x /\ f[c].role = "master"
                      /\ f[c].timer = bud[c].timer /\ f[c].orphans = bud[c].orphans
  BY <1>2 DEF Bud
<1>4. \A c \in Buds : g[c] \in GoodMessage
  BY <1>2, GoodMessages
<1>5. \A c \in Buds : g[c].kind = "tws" /\ Opening(g[c])
  BY DEF Tws, Opening
<1> HIDE DEF f, g
<1>6. Pairing(f)
  BY <1>2, <1>3 DEF Pairing, Linked
<1>7. \A c \in Buds : ~Slave(f[c])
  BY <1>2, <1>3 DEF Slave
<1>8. QED
  BY <1>1, <1>3, <1>4, <1>5, <1>6, <1>7, FoundNews

\* The new slave has no phone: what it gets is what its sibling had as a slave.
LEMMA FoundRoleSwitch == ASSUME IInv, FoundInv, RoleSwitch PROVE FoundInv'
<1> DEFINE role == [c \in Buds |-> IF Slave(bud[c]) THEN "master" ELSE "slave"]
           conn == [c \in Buds |-> bud[Sibling(c)].conn]
           f == [c \in Buds |-> [bud[c] EXCEPT !.role = role[c],
                                               !.conn = bud[Sibling(c)].conn]]
           g == [c \in Buds |-> Tws("switch", role[c], "other")]
<1>1. /\ bud' = [c \in Buds |-> f[c]] /\ HasSibling
      /\ queue' = [c \in Buds |-> Append(queue[c], g[c])]
      /\ acl' = [c \in Buds |-> acl[Sibling(c)]]
      /\ \A c \in Buds : Linked(bud[c])
  BY DEF RoleSwitch
<1>2. \A c \in Buds : role[c] \in Role /\ bud[c] \in Bud
                      /\ role[c] = IF Slave(bud[c]) THEN "master" ELSE "slave"
  BY BudGood DEF Role
<1> HIDE DEF role
<1>3. \A c \in Buds : /\ f[c].role = role[c] /\ f[c].tws = "linked"
                      /\ f[c].conn = conn[c]
                      /\ f[c].timer = bud[c].timer /\ f[c].orphans = bud[c].orphans
  <2> HIDE DEF conn
  <2> TAKE c \in Buds
  <2> DEFINE s == bud[c]
             k == conn[c]
             r == role[c]
             t == [s EXCEPT !.role = r, !.conn = k]
  <2>1. s \in Bud /\ s.tws = "linked"
    BY <1>1, <1>2 DEF Linked
  <2>2. f[c] = t
    BY DEF conn
  <2> HIDE DEF s, k, r
  <2>3. /\ t.role = r /\ t.tws = s.tws /\ t.conn = k
        /\ t.timer = s.timer /\ t.orphans = s.orphans
    BY <2>1 DEF Bud
  <2>4. QED
    BY <2>1, <2>2, <2>3 DEF s, k, r
<1>4. \A c \in Buds : g[c] \in GoodMessage
  BY <1>2, GoodMessages DEF DetachReason
<1>5. \A c \in Buds : g[c].kind = "tws" /\ g[c].role = role[c] /\ g[c].ev = "switch"
  BY DEF Tws
<1> HIDE DEF f, g
<1>6. \A c, d \in Buds : c # d => (Slave(bud[c]) <=> ~Slave(bud[d]))
  BY <1>1 DEF FoundInv, Pairing
<1>7. Pairing(f)
  BY <1>2, <1>3, <1>6 DEF Pairing, Linked, Slave
<1>8. \A c \in Buds : Sibling(c) \in Buds /\ Sibling(c) # c
  <2> TAKE c \in Buds
  <2>1. PICK d \in Buds : d # c
    <3> SUFFICES ASSUME \A d \in Buds : d = c PROVE FALSE
      OBVIOUS
    <3>1. Buds = {c}
      OBVIOUS
    <3>2. Cardinality(Buds) = 1
      BY <3>1, FS_Singleton
    <3>3. QED
      BY <1>1, <3>2 DEF HasSibling
  <2>2. QED
    BY <2>1, TwoBuds
<1>9. ASSUME NEW c \in Buds, Slave(bud[c]) PROVE RelayDue(c)'
  <2> DEFINE d == Sibling(c)
  <2>1. d \in Buds /\ d # c
    BY <1>8
  <2> HIDE DEF d
  <2>2. NewSlave(g[d])
    BY <1>2, <1>5, <1>6, <1>9, <2>1 DEF NewSlave
  <2>3. SwitchNews(queue'[d])
    BY <1>1, <1>4, <2>1, <2>2, QueueSeq, NewsKept
  <2>4. QED
    BY <2>1, <2>3 DEF RelayDue
<1>10. ASSUME NEW c \in Buds, Slave(f[c]) PROVE ~HasPhone(c)'
  <2> DEFINE d == Sibling(c)
  <2>1. d \in Buds /\ d # c /\ ~Slave(bud[c])
    BY <1>2, <1>3, <1>8, <1>10 DEF Slave
  <2>2. ~HasPhone(d)
    BY <1>6, <2>1 DEF FoundInv, BudFound
  <2>3. bud'[c].conn = bud[d].conn /\ acl'[c] = acl[d]
    BY <1>1, <1>3
  <2>4. QED
    BY <2>2, <2>3 DEF HasPhone
<1>11. \A c \in Buds : Slave(f[c]) \/ (Linked(f[c]) /\ RelayDue(c)')
  BY <1>2, <1>3, <1>9 DEF Slave, Linked
<1>12. QED
  BY <1>1, <1>3, <1>4, <1>5, <1>7, <1>10, <1>11, FoundNews

(***************************************************************************)
(* The theorem.                                                            *)
(***************************************************************************)

LEMMA FoundEnvironment ==
    ASSUME IInv, FoundInv, "wait_pair" \notin UserOps, Environment PROVE FoundInv'
BY FoundLink, FoundUp, FoundDown, FoundPageFails, FoundTwsLink, FoundTwsDetach,
   FoundRoleSwitch, FoundUserMsg, FoundUser, FoundClose, FoundModeInit DEF Environment

LEMMA InitFound == Init => FoundInv
<1> SUFFICES ASSUME Init PROVE FoundInv
  OBVIOUS
<1>1. PICK tws \in {"paired", "unpaired"}, rec \in [Buds -> Records] :
          /\ bud = [b \in Buds |-> dual_conn_page_devices_init(Blank(tws), rec[b])]
          /\ queue = [b \in Buds |-> <<bt_tws_poweron(tws)>>]
          /\ acl = [b \in Buds |-> {}]
  BY DEF Init
<1>2. /\ Blank(tws) \in Bud /\ Blank(tws).tws = tws /\ Blank(tws).role = "master"
      /\ Blank(tws).conn = {} /\ ~Waits(Blank(tws))
  BY BlankGood, GoodBud DEF Blank, Waits
<1>3. \A b \in Buds : ~Linked(bud[b]) /\ ~Slave(bud[b]) /\ ~Waits(bud[b])
  BY <1>1, <1>2, InitAlike DEF Alike, Same, Linked, Slave
<1>4. ASSUME NEW b \in Buds PROVE Sure(bud[b], queue[b]) /\ Unasked(queue[b])
  <2> DEFINE m == bt_tws_poweron(tws)
             q == <<m>>
  <2>1. queue[b] = q /\ Opening(m) /\ ~Asking(m)
    BY <1>1 DEF bt_tws_poweron, App, Opening, Asking
  <2> HIDE DEF m
  <2>2. DOMAIN q = {1} /\ q[1] = m /\ ~(1 > 1)
    OBVIOUS
  <2> HIDE DEF q
  <2>3. QED
    BY <2>1, <2>2 DEF Sure, Lasting, Unasked
<1>5. QED
  BY <1>3, <1>4 DEF FoundInv, Pairing, BudFound

LEMMA NextFound ==
    ASSUME "wait_pair" \notin UserOps PROVE IInv /\ FoundInv /\ [Next]_vars => FoundInv'
<1> SUFFICES ASSUME IInv, FoundInv, [Next]_vars PROVE FoundInv'
  OBVIOUS
<1>1. CASE UNCHANGED vars
  BY <1>1 DEF vars, FoundInv, BudFound, Spared, HasPhone, Exempt, RelayDue
<1>2. CASE Next
  BY <1>2, FoundHandle, FoundClock, FoundEnvironment DEF Next
<1>3. QED
  BY <1>1, <1>2

LEMMA FoundSettled == FoundInv => Reachable
<1> SUFFICES ASSUME FoundInv, Settled, NEW b \in Buds, InCharge(b), bud[b].conn = {},
                    bud[b].ptimers = {}, SiblingInUse(b)
             PROVE  bud[b].scan # "off" \/ bud[b].op # "idle"
  BY DEF Reachable
<1>1. \A c \in Buds : queue[c] = <<>> /\ net[c] = <<>> /\ acl[c] = {}
  BY DEF Settled
<1>2. ~Exempt(b)
  BY DEF Exempt, InCharge, InUse, SiblingInUse
<1>3. ~RelayDue(b) /\ ~HasPhone(b)
  BY <1>1 DEF RelayDue, SwitchNews, HasPhone
<1>4. Sure(bud[b], <<>>)
  BY <1>1, <1>2, <1>3 DEF FoundInv, BudFound, Spared
<1>5. Findable(bud[b])
  BY <1>4 DEF Sure
<1>6. QED
  BY <1>5 DEF Findable

\* Unless the user asks to wait to be paired, a bud in charge without a phone that is not
\* paging, and with nothing on its way, can be found: it scans, searches or listens, whatever
\* connections, losses, relays and switches of roles came before, in whatever order.
THEOREM AlwaysReachable ==
    ASSUME "wait_pair" \notin UserOps PROVE Spec => []Reachable
<1>1. Spec => [](IInv /\ FoundInv)
  <2>1. Init => IInv /\ FoundInv
    BY InitIInv, InitFound
  <2>2. (IInv /\ FoundInv) /\ [Next]_vars => (IInv /\ FoundInv)'
    BY NextIInv, NextFound
  <2>3. QED
    BY <2>1, <2>2, PTL DEF Spec
<1>2. QED
  BY <1>1, FoundSettled, PTL

(***************************************************************************)
(* Two phones.  With both up, the bud whose scans are off and which has    *)
(* not counted one recorded device keeps them off; and a phone that comes  *)
(* up leaves the page list.  What may undo it is a message that is older   *)
(* than the connection, and behind that the connection itself is to be     *)
(* handled.                                                                *)
(***************************************************************************)
Both(s) == connect_dev(s) = 2
Closed(s) == s.num # 1 /\ s.scan = "off"

\* What a function keeps closed and lists no phone in; what it does not even touch.
Tidies(s, t) ==
    /\ Same(s, t)
    /\ Both(s) /\ Closed(s) => Closed(t)
    /\ Addrs(t.list) \subseteq Addrs(s.list)
Bare(s, t) == t \in Bud /\ Same(s, t) /\ t.list = s.list /\ t.num = s.num /\ t.scan = s.scan

LEMMA TidiesTrans ==
    ASSUME NEW s, NEW t, NEW u, Tidies(s, t), Tidies(t, u) PROVE Tidies(s, u)
<1>1. Same(s, u) /\ Both(t) = Both(s)
  BY SameTrans DEF Tidies, Same, Both, connect_dev
<1>2. QED
  BY <1>1 DEF Tidies

LEMMA BareTidies == ASSUME NEW s, NEW t, Bare(s, t) PROVE Tidies(s, t)
BY DEF Bare, Tidies, Closed

LEMMA BareTrans == ASSUME NEW s, NEW t, NEW u, Bare(s, t), Bare(t, u) PROVE Bare(s, u)
BY SameTrans DEF Bare

LEMMA TidiesSelf == ASSUME NEW s PROVE Tidies(s, s)
BY DEF Tidies, Same

LEMMA BareSetters ==
    ASSUME NEW s \in Bud
    PROVE  /\ Bare(s, Seek(s)) /\ Bare(s, Listen(s))
           /\ Bare(s, CancelSeek(s)) /\ Bare(s, CancelListen(s))
           /\ Bare(s, PageCancel(s)) /\ Bare(s, DelTimer(s))
           /\ \A v \in BOOLEAN : Bare(s, [s EXCEPT !.switch = v])
<1>1. Bare(s, Seek(s)) /\ Bare(s, Listen(s))
  BY KeepsOp DEF Keeps, Bare, Same, Seek, Listen, Bud
<1>2. Bare(s, CancelSeek(s)) /\ Bare(s, CancelListen(s))
  BY KeepsOp DEF Keeps, Bare, Same, CancelSeek, CancelListen, Bud
<1>3. Bare(s, PageCancel(s))
  BY KeepsPage DEF Keeps, Bare, Same, PageCancel, Bud
<1>5. Bare(s, DelTimer(s))
  BY KeepsDelTimer DEF Keeps, Bare, Same, DelTimer, Bud
<1>4. \A v \in BOOLEAN : Bare(s, [s EXCEPT !.switch = v])
  BY KeepsSwitch DEF Keeps, Bare, Same, Bud
<1>6. QED
  BY <1>1, <1>2, <1>3, <1>4, <1>5

LEMMA BareTimers ==
    ASSUME NEW s \in Bud, NEW h \in TimerHandle
    PROVE  Bare(s, [s EXCEPT !.timer = h]) /\ Bare(s, Overwrite(s, h))
<1>1. Bare(s, [s EXCEPT !.timer = h])
  BY KeepsTimer DEF Keeps, Bare, Same, Bud
<1>2. Bare(s, Overwrite(s, h))
  BY KeepsOverwrite DEF Keeps, Bare, Same, Bud, Overwrite
<1>3. QED
  BY <1>1, <1>2

\* The scans are closed, or there are not two phones.
LEMMA TidiesScan ==
    ASSUME NEW s \in Bud
    PROVE  /\ Tidies(s, write_scan_conn_enable(s, "off"))
           /\ ~Both(s) => \A m \in Scan : Tidies(s, write_scan_conn_enable(s, m))
<1>1. \A m \in Scan : /\ Same(s, write_scan_conn_enable(s, m))
                      /\ write_scan_conn_enable(s, m).list = s.list
                      /\ write_scan_conn_enable(s, m).num = s.num
                      /\ write_scan_conn_enable(s, m).scan = m
  BY DEF write_scan_conn_enable, Same, Bud
<1>2. QED
  BY <1>1 DEF Tidies, Closed, Scan

(***************************************************************************)
(* The state handler and the pager.                                        *)
(***************************************************************************)

LEMMA StateCloses ==
    ASSUME NEW s \in Bud, Both(s), Closed(s) PROVE Closed(tws_dual_conn_state_handler(s))
<1> DEFINE t == DelTimer(s)
           r == tws_dual_conn_state_handler(s)
           l == Listen(t)
<1>1. t \in Bud /\ Bare(s, t)
  BY BareSetters DEF Bare
<1> HIDE DEF t
<1>2. connect_dev(t) = 2 /\ t.num # 1 /\ t.scan = "off"
  BY <1>1 DEF Bare, Same, Both, Closed, connect_dev
<1>3. l \in Bud /\ Bare(t, l)
  BY <1>1, BareSetters DEF Bare
<1> HIDE DEF l
<1>4. Closed(LinkedMaster(t))
  <2>1. LinkedScan(t) = t
    BY <1>2 DEF LinkedScan
  <2>2. LinkedMaster(t) = IF page_list_empty(t) THEN [t EXCEPT !.switch = TRUE]
                          ELSE [t EXCEPT !.timer = "wait_conn", !.switch = FALSE]
    BY <1>2, <2>1 DEF LinkedMaster
  <2>3. QED
    BY <1>1, <1>2, <2>2 DEF Closed, Bud
<1>5. Closed(PairedAlone(t))
  <2>1. PairedAlone(t) = ArmAutoPair(l)
    BY <1>2 DEF PairedAlone, l
  <2>2. Closed(l)
    BY <1>2, <1>3 DEF Closed, Bare
  <2>3. QED
    BY <1>3, <2>1, <2>2 DEF ArmAutoPair, Closed, Bud
<1>6. Closed(Unpaired(t))
  BY <1>2 DEF Unpaired, Closed
<1>7. Closed(write_scan_conn_enable(t, "off")) /\ Closed(t)
  BY <1>1, <1>2 DEF Closed, write_scan_conn_enable, Bud
<1>8. QED
  BY <1>4, <1>5, <1>6, <1>7 DEF tws_dual_conn_state_handler, t

LEMMA StateTidies == ASSUME NEW s \in Bud PROVE Tidies(s, tws_dual_conn_state_handler(s))
BY KeepsStateHandler, CalmStateHandler, StateCloses DEF Keeps, Calm, Tidies

LEMMA PageTidies == ASSUME NEW s, Good(s) PROVE Tidies(s, dual_conn_page_device(s))
<1> DEFINE r == dual_conn_page_device(s)
           h == Head(s.list)
           u == StartPage(s, h.addr)
           e == [s.list[1] EXCEPT !.timer = TRUE]
           list == [s.list EXCEPT ![1] = e]
           v == [u EXCEPT !.list = list]
           w == [v EXCEPT !.ptimers = @ \cup {h.addr}]
<1>1. s \in Bud /\ s.list \in Seq(PageDevice)
  BY GoodBud DEF Bud
<1>2. Same(s, r)
  BY CalmPageDevice DEF Calm
<1>3. CASE ~page_list_empty(s) /\ ~h.timer /\ ~Slave(s)
  <2>1. DOMAIN list = DOMAIN s.list /\ \A i \in DOMAIN s.list : list[i].addr = s.list[i].addr
    <3>1. e.addr = s.list[1].addr
      <4>1. s.list # <<>>
        BY <1>3 DEF page_list_empty
      <4>2. 1 \in DOMAIN s.list
        BY <1>1, <4>1, LenProperties, EmptySeq
      <4>3. s.list[1] \in PageDevice
        BY <1>1, <4>2, LenProperties
      <4>4. QED
        BY <4>3 DEF PageDevice
    <3> HIDE DEF e
    <3>2. QED
      BY <3>1
  <2>2. u.list = s.list /\ DOMAIN u = DOMAIN s /\ u.num = s.num /\ u.scan = s.scan
        /\ {"list", "ptimers", "num", "scan"} \subseteq DOMAIN s
    BY <1>1 DEF StartPage, Bud
  <2>3. r = w
    BY <1>3, <2>2 DEF dual_conn_page_device
  <2> HIDE DEF u, list, h, r
  <2>4. r.list = list /\ r.num = s.num /\ r.scan = s.scan
    BY <2>2, <2>3
  <2>5. Addrs(r.list) = Addrs(s.list)
    BY <2>1, <2>4 DEF Addrs
  <2>6. QED
    BY <1>2, <2>4, <2>5 DEF Tidies, Closed, r
<1>4. CASE ~(~page_list_empty(s) /\ ~h.timer /\ ~Slave(s))
  <2>1. r = s \/ r = tws_dual_conn_state_handler(s)
    BY <1>4 DEF dual_conn_page_device
  <2>2. QED
    BY <1>1, <2>1, StateTidies, TidiesSelf
<1>5. QED
  BY <1>3, <1>4

LEMMA TidyThenPage ==
    ASSUME NEW s, NEW t, Tidies(s, t), Good(t)
    PROVE  Tidies(s, dual_conn_page_device(t)) /\ Tidies(s, PageOrState(t))
BY GoodBud, PageTidies, StateTidies, TidiesTrans DEF PageOrState

(***************************************************************************)
(* The devices a list names.                                               *)
(***************************************************************************)

LEMMA WithoutAddrs ==
    ASSUME NEW list \in Seq(PageDevice), NEW p PROVE Addrs(Without(list, p)) \subseteq Addrs(list)
<1>1. CASE p \notin Addrs(list)
  BY <1>1 DEF Without
<1>2. CASE p \in Addrs(list)
  <2> DEFINE i == IndexOf(list, p)
             n == Len(list)
             r == RemoveAt(list, i)
  <2>1. n \in Nat /\ DOMAIN list = 1..n /\ i \in 1..n
    BY <1>2, LenProperties DEF IndexOf, Addrs
  <2> HIDE DEF i
  <2>2. /\ r \in Seq(PageDevice) /\ Len(r) = n - 1
        /\ \A k \in 1..(n - 1) : r[k] = IF k < i THEN list[k] ELSE list[k + 1]
    BY <2>1, RemoveAtElements
  <2>3. DOMAIN r = 1..(n - 1)
    BY <2>2, LenProperties
  <2> HIDE DEF r, n
  <2>4. \A k \in 1..(n - 1) : k \in 1..n /\ k + 1 \in 1..n
    BY <2>1
  <2>5. Addrs(r) \subseteq Addrs(list)
    BY <2>1, <2>2, <2>3, <2>4 DEF Addrs
  <2>6. QED
    BY <1>2, <2>5 DEF Without, r, i
<1>3. QED
  BY <1>1, <1>2

LEMMA AppendAddrs ==
    ASSUME NEW list \in Seq(PageDevice), NEW e \in PageDevice
    PROVE  Addrs(Append(list, e)) = Addrs(list) \cup {e.addr}
<1> DEFINE n == Len(list)
           w == Append(list, e)
<1>1. /\ n \in Nat /\ DOMAIN list = 1..n /\ DOMAIN w = 1..(n + 1)
      /\ \A k \in 1..n : k \in 1..(n + 1) /\ w[k] = list[k]
      /\ n + 1 \in 1..(n + 1) /\ w[n + 1] = e
  BY AppendIndex
<1> HIDE DEF n, w
<1>2. \A k \in 1..(n + 1) : k \in 1..n \/ k = n + 1
  BY <1>1
<1>3. QED
  BY <1>1, <1>2 DEF Addrs, w

LEMMA RotateAddrs ==
    ASSUME NEW list \in Seq(PageDevice), list # <<>>
    PROVE  Addrs(Append(Tail(list), Head(list))) \subseteq Addrs(list)
<1> DEFINE w == Tail(list)
           h == Head(list)
<1>1. w \in Seq(PageDevice) /\ h \in PageDevice
  BY HeadTailProperties
<1>2. /\ 1 \in DOMAIN list /\ h = list[1]
      /\ \A k \in DOMAIN w : k + 1 \in DOMAIN list /\ w[k] = list[k + 1]
  BY TailIndex
<1> HIDE DEF w, h
<1>3. Addrs(w) \subseteq Addrs(list) /\ h.addr \in Addrs(list)
  BY <1>2 DEF Addrs
<1>4. Addrs(Append(w, h)) = Addrs(w) \cup {h.addr}
  BY <1>1, AppendAddrs
<1>5. QED
  BY <1>3, <1>4 DEF w, h

\* Only the list changes, and not by what is new in it but for the phones in x.
Trims(s, t, x) ==
    /\ t \in Bud /\ Same(s, t) /\ t.num = s.num /\ t.scan = s.scan
    /\ Addrs(t.list) \subseteq Addrs(s.list) \cup x

LEMMA BareTrims ==
    ASSUME NEW s, NEW t, NEW u, NEW x, Trims(s, t, x), Bare(t, u) PROVE Trims(s, u, x)
BY SameTrans DEF Trims, Bare

LEMMA TrimsBare ==
    ASSUME NEW s, NEW t, NEW u, NEW x, Bare(s, t), Trims(t, u, x) PROVE Trims(s, u, x)
BY SameTrans DEF Trims, Bare

LEMMA TrimsTidies == ASSUME NEW s, NEW t, Trims(s, t, {}) PROVE Tidies(s, t)
BY DEF Trims, Tidies, Closed

LEMMA TrimsDel ==
    ASSUME NEW s, Good(s), NEW p
    PROVE  LET t == del_device_from_page_list(s, p)
           IN  Trims(s, t, {}) /\ p \notin Addrs(t.list)
<1> DEFINE list == Without(s.list, p)
           x == IF p \in Addrs(s.list) THEN s.ptimers \ {p} ELSE s.ptimers
           t == [s EXCEPT !.list = list, !.ptimers = x]
           r == del_device_from_page_list(s, p)
<1>1. s \in Bud /\ s.list \in Seq(PageDevice) /\ Once(s.list) /\ r \in Bud
  BY GoodBud, GoodDel DEF Good
<1>2. p \notin Addrs(list) /\ Addrs(list) \subseteq Addrs(s.list)
  BY <1>1, WithoutPhone, WithoutAddrs
<1>3. r = t
  BY DEF del_device_from_page_list
<1> HIDE DEF list, x, r
<1>4. t.list = list /\ t.num = s.num /\ t.scan = s.scan /\ Same(s, t)
  BY <1>1 DEF Bud, Same
<1>5. QED
  BY <1>1, <1>2, <1>3, <1>4 DEF Trims, r

LEMMA TrimsClr ==
    ASSUME NEW s, Good(s)
    PROVE  LET t == clr_device_in_page_list(s) IN Trims(s, t, {}) /\ t.list = <<>>
<1> DEFINE r == clr_device_in_page_list(s)
<1>1. s \in Bud /\ r \in Bud
  BY GoodBud, GoodClr
<1>2. r.list = <<>> /\ r.num = s.num /\ r.scan = s.scan /\ Same(s, r)
  BY <1>1 DEF clr_device_in_page_list, Bud, Same
<1>3. Addrs(<<>>) = {}
  BY DEF Addrs
<1>4. QED
  BY <1>1, <1>2, <1>3 DEF Trims

\* A device is added, or the head goes to the tail.
LEMMA TrimsAdd ==
    ASSUME NEW s, Good(s), NEW p \in Phones
    PROVE  Trims(s, add_device_2_page_list(s, p), {p}) /\ Trims(s, RotatePageList(s), {})
<1>1. s \in Bud /\ s.list \in Seq(PageDevice) /\ Once(s.list)
  BY GoodBud DEF Good
<1>2. Trims(s, add_device_2_page_list(s, p), {p})
  <2> DEFINE rest == Without(s.list, p)
             f == Fresh(p)
             list == Append(rest, f)
             x == s.ptimers \ {p}
             t == [s EXCEPT !.list = list, !.ptimers = x]
             r == add_device_2_page_list(s, p)
  <2>1. rest \in Seq(PageDevice) /\ f \in PageDevice /\ f.addr = p
    BY <1>1, WithoutPhone, FreshDevice
  <2>2. Addrs(rest) \subseteq Addrs(s.list)
    BY <1>1, WithoutAddrs
  <2> HIDE DEF rest, f
  <2>3. Addrs(list) \subseteq Addrs(s.list) \cup {p}
    BY <2>1, <2>2, AppendAddrs
  <2>4. r = t /\ r \in Bud
    BY GoodAdd, GoodBud DEF add_device_2_page_list, rest, f
  <2> HIDE DEF list, x, r
  <2>5. t.list = list /\ t.num = s.num /\ t.scan = s.scan /\ Same(s, t)
    BY <1>1 DEF Bud, Same
  <2>6. QED
    BY <2>3, <2>4, <2>5 DEF Trims, r
<1>3. Trims(s, RotatePageList(s), {})
  <2> DEFINE list == Append(Tail(s.list), Head(s.list))
             t == [s EXCEPT !.list = list]
             r == RotatePageList(s)
  <2>1. CASE page_list_empty(s)
    BY <1>1, <2>1 DEF RotatePageList, Trims, Same
  <2>2. CASE ~page_list_empty(s)
    <3>1. Addrs(list) \subseteq Addrs(s.list)
      BY <1>1, <2>2, RotateAddrs DEF page_list_empty
    <3>2. r = t /\ r \in Bud
      BY <2>2, GoodRotate, GoodBud DEF RotatePageList
    <3> HIDE DEF list, r
    <3>3. t.list = list /\ t.num = s.num /\ t.scan = s.scan /\ Same(s, t)
      BY <1>1 DEF Bud, Same
    <3>4. QED
      BY <3>1, <3>2, <3>3 DEF Trims, r
  <2>3. QED
    BY <2>1, <2>2
<1>4. QED
  BY <1>2, <1>3

(***************************************************************************)
(* The callbacks.                                                          *)
(***************************************************************************)

LEMMA TidyBody ==
    ASSUME NEW s, Good(s), NEW cb PROVE Tidies(s, CallbackBody(cb, s))
<1> DEFINE l == CancelListen(s)
           k == CancelSeek(l)
           w == write_scan_conn_enable(k, "off")
           c == CancelSeek(s)
           o == write_scan_conn_enable(s, "off")
<1>1. /\ Good(l) /\ Good(k) /\ Good(w) /\ Good(c) /\ Good(o)
      /\ s \in Bud /\ l \in Bud /\ k \in Bud /\ c \in Bud
  BY GoodSetters, GoodScans, GoodBud
<1>2. Tidies(s, l) /\ Tidies(l, k) /\ Tidies(k, w) /\ Tidies(s, c) /\ Tidies(s, o)
  BY <1>1, BareSetters, BareTidies, TidiesScan
<1>3. Tidies(s, w)
  BY <1>2, TidiesTrans
<1>4. Tidies(c, Listen(c)) /\ Tidies(s, Listen(s)) /\ Tidies(s, s)
  BY <1>1, BareSetters, BareTidies, TidiesSelf
<1> HIDE DEF w, o, c, k, l
<1>5. /\ Tidies(s, dual_conn_page_device(w)) /\ Tidies(s, dual_conn_page_device(o))
      /\ Tidies(s, dual_conn_page_device(c)) /\ Tidies(s, PageOrState(c))
      /\ Tidies(s, dual_conn_page_device(s))
  BY <1>1, <1>2, <1>3, <1>4, TidyThenPage
<1>6. Tidies(s, Listen(c))
  BY <1>2, <1>4, TidiesTrans
<1>7. /\ Tidies(s, tws_auto_pair_timeout(s)) /\ Tidies(s, tws_wait_conn_timeout(s))
      /\ Tidies(s, tws_create_conn_timeout(s))
  BY <1>5 DEF tws_auto_pair_timeout, tws_wait_conn_timeout, tws_create_conn_timeout,
              w, o, c, k, l
<1>8. Tidies(s, tws_pair_timeout(s))
  BY <1>5, <1>6 DEF tws_pair_timeout, c
<1>9. QED
  BY <1>2, <1>4, <1>5, <1>7, <1>8 DEF CallbackBody, l

LEMMA TidyTimer == ASSUME NEW s, Good(s) PROVE Tidies(s, RunTimer(s))
<1> DEFINE h == IF s.timer = "wait_conn" THEN "stale" ELSE "none"
           t == [s EXCEPT !.timer = h]
<1>1. h \in TimerHandle /\ s \in Bud
  BY GoodBud DEF TimerHandle
<1>2. RunTimer(s) = CallbackBody(s.timer, t)
  BY DEF RunTimer
<1> HIDE DEF h
<1>3. Tidies(s, t) /\ Good(t)
  BY <1>1, GoodSetters, BareTimers, BareTidies
<1> HIDE DEF t
<1>4. QED
  BY <1>2, <1>3, TidyBody, TidiesTrans

LEMMA TidyOrphan == ASSUME NEW s, Good(s), NEW cb PROVE Tidies(s, RunOrphan(s, cb))
<1> DEFINE t == [s EXCEPT !.orphans = @ \ {cb}]
           u == IF cb = "wait_conn" THEN t ELSE Overwrite(t, "none")
<1>1. s \in Bud /\ s.orphans \ {cb} \in SUBSET (Callback \cup {"inquiry"})
  BY GoodBud DEF Bud
<1>2. RunOrphan(s, cb) = CallbackBody(cb, u)
  BY DEF RunOrphan
<1>3. Good(t) /\ t \in Bud
  BY <1>1, KeepsOrphans, KeepsGood, GoodBud
<1>4. Bare(s, t)
  BY <1>1, <1>3 DEF Bare, Same, Bud
<1> HIDE DEF t
<1>5. Bare(t, u) /\ Good(u)
  <2>1. Bare(t, t)
    BY <1>3 DEF Bare, Same
  <2>2. QED
    BY <1>3, <2>1, GoodSetters, BareTimers DEF TimerHandle
<1> HIDE DEF u
<1>6. QED
  BY <1>2, <1>4, <1>5, TidyBody, BareTidies, TidiesTrans

LEMMA TidyPageTimeout ==
    ASSUME NEW s, Good(s), NEW p \in s.ptimers
    PROVE  Tidies(s, dual_conn_page_device_timeout(s, p))
<1> DEFINE i == IndexOf(s.list, p)
           e == s.list[i]
           f == [e EXCEPT !.timer = FALSE]
           rest == Without(s.list, p)
           kept == IF e.late THEN rest ELSE Append(rest, f)
           t == [s EXCEPT !.ptimers = @ \ {p}]
           u == [t EXCEPT !.list = kept]
           v == PageCancel(u)
           r == dual_conn_page_device_timeout(s, p)
<1>1. s \in Bud /\ s.list \in Seq(PageDevice) /\ Once(s.list) /\ Calm(s, r)
  BY GoodBud, CalmPageTimeout DEF Good
<1>2. p \in Addrs(s.list)
  BY <1>1, TimedListed DEF Good
<1>3. r = tws_dual_conn_state_handler(v)
  BY <1>2 DEF dual_conn_page_device_timeout
<1>4. i \in DOMAIN s.list
  BY <1>2 DEF IndexOf, Addrs
<1>5. e \in PageDevice /\ e.addr \in Addrs(s.list)
  BY <1>1, <1>4, LenProperties DEF Addrs
<1> HIDE DEF i, e
<1>6. f \in PageDevice /\ f.addr = e.addr
  BY <1>5 DEF PageDevice
<1>7. rest \in Seq(PageDevice) /\ Addrs(rest) \subseteq Addrs(s.list)
  BY <1>1, WithoutPhone, WithoutAddrs
<1> HIDE DEF f, rest
<1>8. Append(rest, f) \in Seq(PageDevice) /\ Addrs(Append(rest, f)) \subseteq Addrs(s.list)
  BY <1>5, <1>6, <1>7, AppendAddrs, AppendProperties
<1>9. kept \in Seq(PageDevice) /\ Addrs(kept) \subseteq Addrs(s.list)
  BY <1>7, <1>8
<1> HIDE DEF kept, r
<1>10. Bare(s, t)
  BY <1>1 DEF Bare, Same, Bud
<1> HIDE DEF t
<1>11. u \in Bud /\ u.list = kept /\ u.num = s.num /\ u.scan = s.scan
  BY <1>9, <1>10 DEF Bare, Bud
<1>12. Same(s, u)
  BY <1>10 DEF Bare, Same, Bud
<1> HIDE DEF u
<1>13. Trims(s, u, {})
  BY <1>9, <1>11, <1>12 DEF Trims
<1>14. Bare(u, v)
  BY <1>11, BareSetters
<1> HIDE DEF v
<1>15. Tidies(s, v)
  BY <1>13, <1>14, BareTrims, TrimsTidies
<1>16. Tidies(v, r)
  BY <1>3, <1>14, StateTidies DEF Bare
<1>17. QED
  BY <1>15, <1>16, TidiesTrans DEF r

\* The end of discoverability.
LEMMA TidyInquiry ==
    ASSUME NEW s, Good(s)
    PROVE  Tidies(s, [close_inquiry_scan(s) EXCEPT
                         !.inquiry = FALSE,
                         !.orphans = IF s.inquiry THEN @ ELSE @ \ {"inquiry"}])
<1> DEFINE d == [s EXCEPT !.disable = 1]
           c == close_inquiry_scan(s)
           left == IF s.inquiry THEN c.orphans ELSE c.orphans \ {"inquiry"}
           t == [c EXCEPT !.inquiry = FALSE, !.orphans = left]
<1>1. s \in Bud
  BY GoodBud
<1>2. d \in Bud /\ Bare(s, d)
  <2>1. Keeps(s, d)
    <3>1. 1 \in 0..2
      OBVIOUS
    <3>2. QED
      BY <1>1, <3>1, KeepsDisable
  <2>2. d.num = s.num /\ d.scan = s.scan /\ Same(s, d)
    BY <1>1 DEF Same, Bud
  <2> HIDE DEF d
  <2>3. QED
    BY <2>1, <2>2 DEF Keeps, Bare
<1>3. c \in Bud /\ Tidies(s, c)
  <2> HIDE DEF d
  <2>1. Tidies(d, write_scan_conn_enable(d, "off")) /\ write_scan_conn_enable(d, "off") \in Bud
    BY <1>2, TidiesScan, KeepsScans DEF Keeps
  <2>2. QED
    BY <1>2, <2>1, BareTidies, TidiesTrans DEF close_inquiry_scan, d
<1> HIDE DEF c, left
<1>4. t.list = c.list /\ t.num = c.num /\ t.scan = c.scan /\ Same(c, t)
  BY <1>3 DEF Same, Bud
<1> HIDE DEF t
<1>5. Tidies(c, t)
  BY <1>4 DEF Tidies, Closed
<1>6. QED
  BY <1>3, <1>5, TidiesTrans DEF t, left, c

LEMMA TidyElapse ==
    ASSUME NEW s, Good(s), NEW i \in DOMAIN s.list
    PROVE  Tidies(s, [s EXCEPT !.list[i].late = TRUE])
<1> DEFINE e == [s.list[i] EXCEPT !.late = TRUE]
           list == [s.list EXCEPT ![i] = e]
           t == [s EXCEPT !.list = list]
<1>1. s \in Bud /\ s.list \in Seq(PageDevice)
  BY GoodBud
<1>2. e.addr = s.list[i].addr
  <2>1. s.list[i] \in PageDevice
    BY <1>1, LenProperties
  <2>2. QED
    BY <2>1 DEF PageDevice
<1> HIDE DEF e
<1>3. DOMAIN list = DOMAIN s.list /\ \A k \in DOMAIN s.list : list[k].addr = s.list[k].addr
  BY <1>2
<1>4. Addrs(list) = Addrs(s.list)
  BY <1>3 DEF Addrs
<1> HIDE DEF list
<1>5. t.list = list /\ t.num = s.num /\ t.scan = s.scan /\ Same(s, t)
  BY <1>1 DEF Same, Bud
<1> HIDE DEF t
<1>6. Tidies(s, t)
  BY <1>4, <1>5 DEF Tidies, Closed
<1>7. QED
  BY <1>6 DEF t, list, e

LEMMA TidyEsco ==
    ASSUME NEW s \in Bud, NEW x, x = [s EXCEPT !.esco = ~s.esco]
    PROVE  Tidies(s, IF x.off /\ ~x.esco THEN x ELSE tws_page_scan_deal_by_esco(x))
<1>1. x \in Bud
  BY DEF Bud
<1>2. x.list = s.list /\ x.num = s.num /\ x.scan = s.scan /\ Same(s, x)
  BY DEF Same, Bud
<1>3. Tidies(s, x)
  BY <1>1, <1>2, BareTidies DEF Bare
<1>4. Tidies(x, CancelSeek(x)) /\ Tidies(x, x) /\ Tidies(x, tws_dual_conn_state_handler(x))
  BY <1>1, BareSetters, BareTidies, TidiesSelf, StateTidies
<1>5. Tidies(x, tws_page_scan_deal_by_esco(x))
  BY <1>4 DEF tws_page_scan_deal_by_esco
<1>6. QED
  BY <1>3, <1>5, TidiesTrans

(***************************************************************************)
(* Messages: a second connection closes a bud, an older message may open   *)
(* it again; a connection takes its phone off the list, a loss, a list of  *)
(* the sibling or the user may put it back.                                *)
(***************************************************************************)
Seconds == {m \in GoodMessage : Second(m)}
Spoilers ==
    {m \in GoodMessage :
        \/ m.kind = "phone" /\ m.nth = 1
        \/ m.kind = "data"
        \/ m.kind = "tws" /\ m.ev = "detach" /\ m.role = "slave"}
Ups(p) == {m \in GoodMessage : m.kind = "phone" /\ m.addr = p}
Adds(p) == {m \in GoodMessage : (Lost(m) /\ m.addr = p) \/ m.kind = "data" \/ Paging(m)}
Switches == {m \in GoodMessage : m.kind = "tws" /\ m.ev = "switch"}

\* What the handler has to do with the bud for the message it is called with.
Brings(s, m, t) ==
    /\ Same(s, t)
    /\ Both(s) /\ ~Slave(s) /\ (m \in Seconds \/ (Closed(s) /\ m \notin Spoilers))
           => Closed(t)
    /\ \A p \in Phones :
           m \in Ups(p) \/ (p \notin Addrs(s.list) /\ m \notin Adds(p))
               => p \notin Addrs(t.list)

LEMMA TidiesBrings ==
    ASSUME NEW s, NEW m, NEW t, Tidies(s, t), m.kind # "phone" PROVE Brings(s, m, t)
BY DEF Tidies, Brings, Seconds, Second, Ups

LEMMA QuietSame ==
    ASSUME NEW s \in Bud, NEW p \in Phones PROVE Same(s, FirstConnectedQuiet(s, p))
BY QuietRests DEF Rests

\* The first phone: it leaves the list, and nothing comes into it.
LEMMA BringsFirst ==
    ASSUME NEW s, Good(s), NEW m \in GoodMessage, m.kind = "phone", m.nth = 1
    PROVE  Brings(s, m, FirstConnected(s, m.addr))
<1> DEFINE p == m.addr
           k == DelTimer(s)
           d == del_device_from_page_list(k, p)
           t == [d EXCEPT !.addr0 = p]
           u == [t EXCEPT !.num = IF @ = 1 /\ p # t.addr2 THEN 2 ELSE @]
           v == [u EXCEPT !.timer = "page_next"]
           r == FirstConnected(s, p)
<1>1. p \in Phones
  BY DEF GoodMessage, Message
<1> HIDE DEF p
<1>2. Same(s, r)
  BY <1>1, CalmFirst DEF Calm
<1>3. Good(k) /\ Bare(s, k)
  BY GoodBud, GoodSetters, BareSetters
<1>4. r = IF ~Slave(s) /\ ~page_list_empty(t) THEN v ELSE FirstConnectedQuiet(t, p)
  BY DEF FirstConnected
<1> HIDE DEF k
<1>5. d \in Bud /\ p \notin Addrs(d.list) /\ Addrs(d.list) \subseteq Addrs(s.list)
  BY <1>3, TrimsDel DEF Trims, Bare
<1> HIDE DEF d
<1>6. t \in Bud /\ t.list = d.list
  BY <1>1, <1>5, KeepsAddr DEF Keeps
<1> HIDE DEF t
<1>7. FirstConnectedQuiet(t, p).list = t.list
  BY <1>1, <1>6, QuietKeepsList
<1>8. v.list = t.list
  BY <1>6 DEF Bud
<1> HIDE DEF u, v, r
<1>9. r.list = d.list
  BY <1>4, <1>6, <1>7, <1>8
<1>10. m \notin Seconds /\ m \in Spoilers /\ \A q \in Phones : m \in Ups(q) => q = p
  BY DEF Seconds, Second, Spoilers, Ups, p
<1>11. Brings(s, m, r)
  BY <1>2, <1>5, <1>9, <1>10 DEF Brings
<1>12. QED
  BY <1>11 DEF r, p

\* The second one: the list is empty, and a bud that is no slave is closed.
LEMMA SecondCloses ==
    ASSUME NEW s, Good(s), NEW p \in Phones, ~Slave(s) PROVE Closed(SecondConnected(s, p))
<1> DEFINE k == DelTimer(s)
           c == clr_device_in_page_list(k)
           v == [c EXCEPT !.addr1 = p]
           n == IF c.num = 1 THEN 2 ELSE c.num
           t == [c EXCEPT !.addr1 = p, !.num = IF @ = 1 THEN 2 ELSE @]
           u == IF t.tws = "paired" THEN Listen(t) ELSE [t EXCEPT !.switch = TRUE]
<1>1. Good(k)
  BY GoodBud, GoodSetters
<1> HIDE DEF k
<1>2. c \in Bud
  BY <1>1, GoodClr, GoodBud
<1> HIDE DEF c
<1>3. t \in Bud /\ t.num # 1
  <2>1. v \in Bud /\ n \in Nat /\ n # 1
    <3>1. c.num \in Nat
      BY <1>2 DEF Bud
    <3>2. Keeps(c, v)
      BY <1>2, KeepsAddr
    <3> HIDE DEF v
    <3>3. QED
      BY <3>1, <3>2 DEF Keeps
  <2>2. t = [v EXCEPT !.num = n]
    OBVIOUS
  <2> HIDE DEF v, n, t
  <2>3. QED
    BY <2>1, <2>2 DEF Bud
<1> HIDE DEF t
<1>4. u \in Bud /\ u.num = t.num
  <2>1. Bare(t, Listen(t)) /\ Bare(t, [t EXCEPT !.switch = TRUE])
    BY <1>3, BareSetters
  <2>2. QED
    BY <2>1 DEF Bare
<1> HIDE DEF u
<1>5. Closed(write_scan_conn_enable(u, "off"))
  BY <1>3, <1>4 DEF write_scan_conn_enable, Closed, Bud
<1>6. QED
  BY <1>5 DEF SecondConnected, u, t, c, k

LEMMA BringsSecond ==
    ASSUME NEW s, Good(s), NEW m \in GoodMessage, m.kind = "phone", m.nth # 1
    PROVE  Brings(s, m, SecondConnected(s, m.addr))
<1> DEFINE r == SecondConnected(s, m.addr)
<1>1. m.addr \in Phones
  BY DEF GoodMessage, Message
<1>2. Same(s, r) /\ r.list = <<>> /\ (~Slave(s) => Closed(r))
  BY <1>1, CalmSecond, SecondEmpty, SecondCloses DEF Calm, page_list_empty
<1> HIDE DEF r
<1>3. Addrs(r.list) = {}
  BY <1>2 DEF Addrs
<1>4. Brings(s, m, r)
  BY <1>2, <1>3 DEF Brings
<1>5. QED
  BY <1>4 DEF r

\* After a failure or a loss the state handler runs; only a loss lists a phone.
LEMMA HciTrims ==
    ASSUME NEW s, Good(s), NEW ev, NEW p \in Phones, ev # "ok", ~s.off, ~Slave(s)
    PROVE  \E u : /\ Trims(s, u, IF ev = "lost" THEN {p} ELSE {})
                  /\ dual_conn_hci_event_handler(s, ev, p) = tws_dual_conn_state_handler(u)
<1> DEFINE x == IF ev = "lost" THEN {p} ELSE {}
           t == CASE ev = "lost" -> add_device_2_page_list(s, p)
                  [] ev = "rejected" -> RotatePageList(s)
                  [] OTHER -> s
           Forget(a) == IF a = p THEN NoPhone ELSE a
           a == IF t.addr0 = p THEN NoPhone ELSE t.addr0
           b == IF t.addr1 = p THEN NoPhone ELSE t.addr1
           v == [t EXCEPT !.addr0 = a]
           u == [t EXCEPT !.addr0 = Forget(@), !.addr1 = Forget(@)]
<1>1. s \in Bud
  BY GoodBud
<1>2. dual_conn_hci_event_handler(s, ev, p) = tws_dual_conn_state_handler(u)
  BY DEF dual_conn_hci_event_handler
<1>3. Trims(s, t, x)
  <2>1. Trims(s, s, {})
    BY <1>1 DEF Trims, Same
  <2>2. QED
    BY <2>1, TrimsAdd
<1>4. t \in Bud
  BY <1>3 DEF Trims
<1> HIDE DEF t, x
<1>5. Bare(t, u)
  <2>1. a \in Phones \cup {NoPhone} /\ b \in Phones \cup {NoPhone}
    BY <1>4 DEF Bud
  <2>2. u = [v EXCEPT !.addr1 = b]
    OBVIOUS
  <2> HIDE DEF a, b, u
  <2>3. v \in Bud /\ Same(t, v) /\ v.list = t.list /\ v.num = t.num /\ v.scan = t.scan
    BY <1>4, <2>1, KeepsAddr DEF Keeps, Same, Bud
  <2> HIDE DEF v
  <2>4. u \in Bud /\ Same(v, u) /\ u.list = v.list /\ u.num = v.num /\ u.scan = v.scan
    BY <2>1, <2>2, <2>3, KeepsAddr DEF Keeps, Same, Bud
  <2>5. QED
    BY <2>3, <2>4, SameTrans DEF Bare
<1> HIDE DEF u
<1>6. Trims(s, u, x)
  BY <1>3, <1>5, BareTrims
<1>7. QED
  BY <1>2, <1>6 DEF u, x

LEMMA BringsHci ==
    ASSUME NEW s, Good(s), NEW m \in GoodMessage, m.kind = "hci"
    PROVE  Brings(s, m, dual_conn_hci_event_handler(s, m.ev, m.addr))
<1> DEFINE p == m.addr
           r == dual_conn_hci_event_handler(s, m.ev, p)
           k == DelTimer(s)
<1>1. p \in Phones /\ s \in Bud
  BY GoodBud DEF GoodMessage, Message
<1> HIDE DEF p
<1>2. CASE s.off \/ Slave(s)
  <2>1. r = s
    BY <1>2 DEF dual_conn_hci_event_handler
  <2>2. QED
    BY <2>1, TidiesSelf, TidiesBrings DEF p
<1>3. CASE ~(s.off \/ Slave(s)) /\ m.ev = "ok"
  <2>1. r = del_device_from_page_list(k, p)
    BY <1>3 DEF dual_conn_hci_event_handler
  <2>2. Good(k) /\ Bare(s, k)
    BY <1>1, GoodSetters, BareSetters
  <2> HIDE DEF k, r
  <2>3. Tidies(s, r)
    BY <2>1, <2>2, TrimsDel, TrimsBare, TrimsTidies
  <2>4. QED
    BY <2>3, TidiesBrings DEF r, p
<1>4. CASE ~(s.off \/ Slave(s)) /\ m.ev # "ok"
  <2> DEFINE x == IF m.ev = "lost" THEN {p} ELSE {}
  <2>1. PICK u : Trims(s, u, x) /\ r = tws_dual_conn_state_handler(u)
    BY <1>1, <1>4, HciTrims
  <2>2. Tidies(u, r)
    BY <2>1, StateTidies DEF Trims
  <2> HIDE DEF r
  <2>3. /\ Same(s, r) /\ Addrs(r.list) \subseteq Addrs(s.list) \cup x
        /\ Both(s) /\ Closed(s) => Closed(r)
    BY <2>1, <2>2, SameTrans DEF Trims, Tidies, Same, Both, Closed, connect_dev
  <2>4. m \notin Seconds /\ \A q \in Phones : m \notin Ups(q) /\ (q \in x => m \in Adds(q))
    BY DEF Seconds, Second, Ups, Adds, Lost, p
  <2> HIDE DEF x
  <2>5. QED
    BY <2>3, <2>4 DEF Brings, r, p
<1>5. QED
  BY <1>2, <1>3, <1>4 DEF p

LEMMA BringsConnected ==
    ASSUME NEW s, Good(s), NEW role PROVE Tidies(s, TwsConnected(s, role))
<1> DEFINE t == [s EXCEPT !.switch = FALSE]
           w == write_scan_conn_enable(s, "off")
<1>1. Good(t) /\ Tidies(s, t) /\ w \in Bud /\ Tidies(s, w)
  BY GoodBud, GoodSetters, BareSetters, BareTidies, TidiesScan, KeepsScans DEF Keeps
<1> HIDE DEF t, w
<1>2. Tidies(s, PageOrState(t))
  BY <1>1, TidyThenPage
<1>3. Tidies(s, PageCancel(w))
  BY <1>1, BareSetters, BareTidies, TidiesTrans
<1>4. QED
  BY <1>2, <1>3, TidiesSelf DEF TwsConnected, t, w

\* Two phones stay with a master, whose scans stay closed; its list does not grow.
LEMMA BringsDetached ==
    ASSUME NEW s, Good(s), NEW m \in GoodMessage, m.kind = "tws", m.ev = "detach"
    PROVE  Brings(s, m, TwsDetached(s, m.role, m.reason))
<1> DEFINE role == m.role
           reason == m.reason
           d == DelTimer(s)
           t == PageCancel(d)
           l == Listen(t)
           c == clr_device_in_page_list(t)
           b == write_scan_conn_enable(t, "both")
           r == TwsDetached(s, role, reason)
           Shrinks(v) == Same(s, v) /\ Addrs(v.list) \subseteq Addrs(s.list)
           Fine(v) == Shrinks(v) /\ (role # "slave" /\ Both(s) /\ Closed(s) => Closed(v))
<1>0. \A v : Tidies(s, v) => Fine(v)
  BY DEF Tidies
<1>1. Good(d) /\ d \in Bud /\ Tidies(s, d)
  BY GoodBud, GoodSetters, BareSetters, BareTidies
<1> HIDE DEF d
<1>2. Good(t) /\ t \in Bud /\ Tidies(s, t)
  BY <1>1, GoodBud, GoodSetters, BareSetters, BareTidies, TidiesTrans
<1>3. r = CASE s.off -> t
            [] ~s.off /\ reason = "remove_pairs" ->
                   (IF role = "master" /\ s.conn # {} THEN t ELSE b)
            [] ~s.off /\ reason = "poweroff" -> tws_dual_conn_state_handler(t)
            [] ~s.off /\ reason = "super_timeout" ->
                   tws_dual_conn_state_handler(IF role = "slave" THEN c ELSE t)
            [] OTHER -> IF page_list_empty(t) THEN DetachedNoList(l)
                        ELSE dual_conn_page_device(t)
  BY DEF TwsDetached, d
<1>4. role \in Role /\ (Both(s) => s.conn # {})
  BY FS_EmptySet DEF GoodMessage, Message, Both, connect_dev
<1> HIDE DEF t, role, reason
<1>5. Shrinks(b) /\ Fine(t)
  <2>1. Same(t, b) /\ b.list = t.list
    BY <1>2 DEF write_scan_conn_enable, Same, Bud
  <2> HIDE DEF b
  <2>2. QED
    BY <1>0, <1>2, <2>1, SameTrans DEF Tidies
<1>6. Fine(tws_dual_conn_state_handler(t)) /\ Fine(dual_conn_page_device(t))
  BY <1>0, <1>2, StateTidies, PageTidies, TidiesTrans
<1>7. Tidies(t, c) /\ c \in Bud
  BY <1>2, TrimsClr, TrimsTidies DEF Trims
<1> HIDE DEF c
<1>8. Fine(tws_dual_conn_state_handler(c))
  BY <1>0, <1>2, <1>7, StateTidies, TidiesTrans
<1>9. Tidies(s, l) /\ l \in Bud
  BY <1>2, BareSetters, BareTidies, TidiesTrans DEF Bare
<1> HIDE DEF l
<1>10. Fine(DetachedNoList(l))
  <2>1. \A x \in Scan : /\ Same(l, write_scan_conn_enable(l, x))
                         /\ write_scan_conn_enable(l, x).list = l.list
    BY <1>9 DEF write_scan_conn_enable, Same, Bud
  <2>2. \A x \in Scan : Shrinks(write_scan_conn_enable(l, x))
    BY <1>9, <2>1, SameTrans DEF Tidies
  <2>3. Both(s) => connect_dev(l) = 2
    BY <1>9 DEF Tidies, Same, Both, connect_dev
  <2>4. Shrinks(DetachedNoList(l)) /\ (Both(s) => DetachedNoList(l) = l)
    BY <1>0, <1>9, <2>2, <2>3 DEF DetachedNoList, Scan
  <2>5. QED
    BY <1>0, <1>9, <2>4
<1> HIDE DEF b, r
<1>11. Shrinks(r) /\ (role # "slave" /\ Both(s) /\ Closed(s) => Closed(r))
  <2>1. role # "slave" => role = "master"
    BY <1>4 DEF Role
  <2>2. QED
    BY <1>3, <1>4, <1>5, <1>6, <1>8, <1>10, <2>1
<1>12. m \notin Seconds /\ (role = "slave" => m \in Spoilers) /\ \A q \in Phones : m \notin Ups(q)
  BY DEF Seconds, Second, Spoilers, Ups, role
<1>13. Brings(s, m, r)
  BY <1>11, <1>12 DEF Brings
<1>14. QED
  BY <1>13 DEF r, role, reason

LEMMA BringsApp ==
    ASSUME NEW s, Good(s), NEW msg PROVE Tidies(s, dual_conn_app_event_handler(s, msg))
<1> DEFINE k == Seek(s)
           l == Listen(s)
<1>1. Bare(s, k) /\ Bare(s, l)
  BY GoodBud, BareSetters
<1> HIDE DEF k, l
<1>2. /\ Bare(k, Overwrite(k, "create_conn")) /\ Bare(k, Overwrite(k, "pair"))
      /\ Bare(l, Overwrite(l, "msg_wait_pair"))
      /\ Bare(k, [k EXCEPT !.timer = "msg_start_pair"])
      /\ Bare(k, [k EXCEPT !.timer = "msg_start_conn"])
  <2>1. {"create_conn", "pair", "msg_wait_pair", "msg_start_pair", "msg_start_conn"}
            \subseteq TimerHandle
    BY DEF TimerHandle, Callback
  <2>2. QED
    BY <1>1, <2>1, BareTimers DEF Bare
<1>3. \A t : (Bare(k, t) => Tidies(s, t)) /\ (Bare(l, t) => Tidies(s, t))
  BY <1>1, BareTrans, BareTidies
<1>4. Tidies(s, l)
  BY <1>1, BareTidies
<1>5. QED
  BY <1>2, <1>3, <1>4 DEF dual_conn_app_event_handler, k, l

LEMMA BringsData ==
    ASSUME NEW s, Good(s), NEW m \in GoodMessage, m.kind = "data"
    PROVE  Brings(s, m, rx_device_info(s, m.info))
<1> DEFINE r == rx_device_info(s, m.info)
<1>1. OnceEach(m.info)
  BY DEF GoodMessage
<1>2. Same(s, r)
  BY <1>1, FoundRx DEF Opens, Alike
<1> HIDE DEF r
<1>3. m \in Spoilers /\ m \notin Seconds /\ \A q \in Phones : m \in Adds(q) /\ m \notin Ups(q)
  BY DEF Spoilers, Seconds, Second, Adds, Ups
<1>4. Brings(s, m, r)
  BY <1>2, <1>3 DEF Brings
<1>5. QED
  BY <1>4 DEF r

(***************************************************************************)
(* What is on its way.  No message of B; or one of G, and none of B later. *)
(***************************************************************************)
Clean(q, B) == \A i \in DOMAIN q : q[i] \notin B
Mended(q, G, B) ==
    \E i \in DOMAIN q : q[i] \in G /\ \A j \in DOMAIN q : j > i => q[j] \notin B

\* Closed with two phones, and without those it is connected to in its list: at once, or
\* after what is still to be handled.
Shut(s, q) == (Closed(s) /\ Clean(q, Spoilers)) \/ Mended(q, Seconds, Spoilers)
Gone(s, q, p) ==
    (p \notin Addrs(s.list) /\ Clean(q, Adds(p))) \/ Mended(q, Ups(p), Adds(p))

\* A page refused because the link exists lists a connected phone (tws_dual_conn.c:917-925),
\* and so may the user's request to page (1131-1172): it looks at the addresses of the
\* connections handled so far.
OnlyLost == "already_exists" \notin Faults /\ "page_device" \notin UserOps

Tidy(s, q) ==
    /\ Clean(q, Switches)
    /\ Both(s) => Shut(s, q)
    /\ OnlyLost => \A p \in s.conn : Gone(s, q, p)

LEMMA MendAppend ==
    ASSUME NEW S, NEW q \in Seq(S), NEW m \in S, NEW G, NEW B
    PROVE  /\ Clean(q, B) /\ m \notin B => Clean(Append(q, m), B)
           /\ Mended(q, G, B) /\ m \notin B => Mended(Append(q, m), G, B)
           /\ m \in G => Mended(Append(q, m), G, B)
<1> DEFINE n == Len(q)
           w == Append(q, m)
<1>1. /\ n \in Nat /\ DOMAIN q = 1..n /\ DOMAIN w = 1..(n + 1)
      /\ \A k \in 1..n : k \in 1..(n + 1) /\ w[k] = q[k]
      /\ n + 1 \in 1..(n + 1) /\ w[n + 1] = m
  BY AppendIndex
<1> HIDE DEF n, w
<1>2. \A k \in 1..(n + 1) : k \in 1..n \/ k = n + 1
  BY <1>1
<1>3. Clean(q, B) /\ m \notin B => Clean(w, B)
  BY <1>1, <1>2 DEF Clean
<1>4. ASSUME m \notin B, NEW i \in DOMAIN q, q[i] \in G,
             \A j \in DOMAIN q : j > i => q[j] \notin B
      PROVE  Mended(w, G, B)
  <2>1. \A j \in DOMAIN w : j > i => w[j] \notin B
    BY <1>1, <1>2, <1>4
  <2>2. i \in DOMAIN w /\ w[i] \in G
    BY <1>1, <1>4
  <2>3. QED
    BY <2>1, <2>2 DEF Mended
<1>5. ASSUME m \in G PROVE Mended(w, G, B)
  <2>1. \A j \in DOMAIN w : ~(j > n + 1)
    BY <1>1
  <2>2. QED
    BY <1>1, <1>5, <2>1 DEF Mended
<1>6. QED
  BY <1>3, <1>4, <1>5 DEF Mended, w

LEMMA MendTail ==
    ASSUME NEW S, NEW q \in Seq(S), q # <<>>, NEW G, NEW B
    PROVE  /\ Clean(q, B) => Head(q) \notin B /\ Clean(Tail(q), B)
           /\ Mended(q, G, B) =>
                  (Head(q) \in G /\ Clean(Tail(q), B)) \/ Mended(Tail(q), G, B)
<1> DEFINE w == Tail(q)
           h == Head(q)
           n == Len(q)
<1>1. /\ n \in Nat /\ DOMAIN q = 1..n /\ DOMAIN w = 1..(n - 1)
      /\ 1 \in DOMAIN q /\ h = q[1]
      /\ \A k \in DOMAIN w : k + 1 \in DOMAIN q /\ w[k] = q[k + 1]
      /\ \A k \in DOMAIN q : k = 1 \/ (k - 1 \in DOMAIN w /\ q[k] = w[k - 1])
  BY TailIndex
<1> HIDE DEF w, h, n
<1>2. Clean(q, B) => h \notin B /\ Clean(w, B)
  BY <1>1 DEF Clean
<1>3. ASSUME NEW i \in DOMAIN q, q[i] \in G, \A j \in DOMAIN q : j > i => q[j] \notin B
      PROVE  (h \in G /\ Clean(w, B)) \/ Mended(w, G, B)
  <2>1. CASE i = 1
    <3>1. \A k \in DOMAIN w : k + 1 > 1
      BY <1>1
    <3>2. \A k \in DOMAIN w : w[k] \notin B
      BY <1>1, <1>3, <2>1, <3>1
    <3>3. QED
      BY <1>1, <1>3, <2>1, <3>2 DEF Clean
  <2>2. CASE i # 1
    <3>1. i - 1 \in DOMAIN w /\ w[i - 1] \in G
      BY <1>1, <1>3, <2>2
    <3>2. \A k \in DOMAIN w : k > i - 1 => k + 1 > i
      BY <1>1, <1>3
    <3>3. \A k \in DOMAIN w : k > i - 1 => w[k] \notin B
      BY <1>1, <1>3, <3>2
    <3>4. QED
      BY <3>1, <3>3 DEF Mended
  <2>3. QED
    BY <2>1, <2>2
<1>4. QED
  BY <1>2, <1>3 DEF Mended, w, h

\* The head of the queue is handled.
LEMMA TidyTail ==
    ASSUME NEW q \in Seq(GoodMessage), q # <<>>, NEW s \in Bud, NEW t, Tidy(s, q),
           Brings(s, Head(q), t), Both(s) => ~Slave(s)
    PROVE  Tidy(t, Tail(q))
<1> DEFINE m == Head(q)
           w == Tail(q)
<1>1. /\ Clean(q, Switches) => Clean(w, Switches)
      /\ Clean(q, Spoilers) => m \notin Spoilers /\ Clean(w, Spoilers)
      /\ Mended(q, Seconds, Spoilers) =>
             (m \in Seconds /\ Clean(w, Spoilers)) \/ Mended(w, Seconds, Spoilers)
      /\ \A p : Clean(q, Adds(p)) => m \notin Adds(p) /\ Clean(w, Adds(p))
      /\ \A p : Mended(q, Ups(p), Adds(p)) =>
             (m \in Ups(p) /\ Clean(w, Adds(p))) \/ Mended(w, Ups(p), Adds(p))
  BY MendTail
<1>2. Same(s, t) /\ (Both(t) => Both(s)) /\ t.conn = s.conn /\ s.conn \subseteq Phones
  BY DEF Brings, Same, Both, connect_dev, Bud
<1>3. Brings(s, m, t)
  OBVIOUS
<1> HIDE DEF m, w
<1>4. Both(t) => Shut(t, w)
  BY <1>1, <1>2, <1>3 DEF Tidy, Shut, Brings
<1>5. ASSUME OnlyLost, NEW p \in t.conn PROVE Gone(t, w, p)
  <2>1. Gone(s, q, p) /\ p \in Phones
    BY <1>2, <1>5 DEF Tidy
  <2>2. m \in Ups(p) \/ (p \notin Addrs(s.list) /\ m \notin Adds(p)) => p \notin Addrs(t.list)
    BY <1>3, <2>1 DEF Brings
  <2>3. QED
    BY <1>1, <2>1, <2>2 DEF Gone
<1>6. QED
  BY <1>1, <1>4, <1>5 DEF Tidy, w

\* A message is posted, perhaps with a change of the phones.
LEMMA TidyPosted ==
    ASSUME NEW q \in Seq(GoodMessage), NEW m \in GoodMessage, m \notin Switches, NEW s, NEW t,
           Tidy(s, q), t.list = s.list, t.num = s.num, t.scan = s.scan,
           Both(t) => m \in Seconds \/ (Both(s) /\ m \notin Spoilers),
           OnlyLost => \A p \in t.conn : m \in Ups(p) \/ (p \in s.conn /\ m \notin Adds(p))
    PROVE  Tidy(t, Append(q, m))
<1> DEFINE w == Append(q, m)
<1>1. /\ Clean(q, Switches) => Clean(w, Switches)
      /\ Clean(q, Spoilers) /\ m \notin Spoilers => Clean(w, Spoilers)
      /\ Mended(q, Seconds, Spoilers) /\ m \notin Spoilers => Mended(w, Seconds, Spoilers)
      /\ m \in Seconds => Mended(w, Seconds, Spoilers)
      /\ \A p : Clean(q, Adds(p)) /\ m \notin Adds(p) => Clean(w, Adds(p))
      /\ \A p : Mended(q, Ups(p), Adds(p)) /\ m \notin Adds(p) => Mended(w, Ups(p), Adds(p))
      /\ \A p : m \in Ups(p) => Mended(w, Ups(p), Adds(p))
  BY MendAppend
<1> HIDE DEF w
<1>2. Both(t) => Shut(t, w)
  BY <1>1 DEF Tidy, Shut, Closed
<1>3. ASSUME OnlyLost, NEW p \in t.conn PROVE Gone(t, w, p)
  <2>1. m \in Ups(p) \/ (Gone(s, q, p) /\ m \notin Adds(p))
    BY <1>3 DEF Tidy
  <2>2. QED
    BY <1>1, <2>1 DEF Gone
<1>4. QED
  BY <1>1, <1>2, <1>3 DEF Tidy, w

\* A bud does something without a message.
LEMMA TidyTurn ==
    ASSUME NEW s, NEW t, NEW q, Tidy(s, q), Tidies(s, t) PROVE Tidy(t, q)
<1>1. (Both(t) => Both(s)) /\ t.conn = s.conn
  BY DEF Tidies, Same, Both, connect_dev
<1>2. QED
  BY <1>1 DEF Tidy, Tidies, Shut, Gone

(***************************************************************************)
(* The buds: no phone at a slave, at most two elsewhere, and data on its   *)
(* way to slaves only.                                                     *)
(***************************************************************************)
BudTidy(b) ==
    /\ Slave(bud[b]) => Linked(bud[b]) /\ ~HasPhone(b)
    /\ Cardinality(bud[b].conn \cup acl[b]) <= 2
    /\ net[b] # <<>> => Slave(bud[b])
    /\ Tidy(bud[b], queue[b])
TidyInv == Pairing(bud) /\ \A b \in Buds : BudTidy(b)

\* The new master has sent its list before it can be the slave of a later link: a slave that
\* handles the news that it was the master sends its list upwards, over that of the master.
NewMaster(m) == m.kind = "tws" /\ m.ev = "connected" /\ m.role = "master"
Prompt ==
    \A b \in Buds : Slave(bud[b]) => \A i \in DOMAIN queue[b] : ~NewMaster(queue[b][i])

\* What is sent goes to a slave.
NetDown == \A c \in Buds : net'[c] # <<>> => net[c] # <<>> \/ Slave(bud[c])

LEMMA NetRests == ASSUME net' = net PROVE NetDown
BY DEF NetDown

LEMMA OtherBud ==
    ASSUME HasSibling, NEW b \in Buds PROVE Sibling(b) \in Buds /\ Sibling(b) # b
<1>1. PICK c \in Buds : c # b
  <2> SUFFICES ASSUME \A c \in Buds : c = b PROVE FALSE
    OBVIOUS
  <2>1. Buds = {b}
    OBVIOUS
  <2>2. Cardinality(Buds) = 1
    BY <2>1, FS_Singleton
  <2>3. QED
    BY <2>2 DEF HasSibling
<1>2. QED
  BY <1>1, TwoBuds

LEMMA SendsDown ==
    ASSUME IInv, Pairing(bud), NEW b \in Buds, ~Slave(bud[b]), NEW m, Send(b, m)
    PROVE  NetDown
<1>1. CASE Linked(bud[b]) /\ HasSibling
  <2> DEFINE d == Sibling(b)
  <2>1. d \in Buds /\ Slave(bud[d])
    BY <1>1, OtherBud DEF Pairing
  <2>2. net' = [net EXCEPT ![d] = Append(net[d], m)]
    BY <1>1 DEF Send
  <2> HIDE DEF d
  <2>3. \A c \in Buds : c # d => net'[c] = net[c]
    BY <2>2 DEF IInv
  <2>4. QED
    BY <2>1, <2>3 DEF NetDown
<1>2. CASE ~(Linked(bud[b]) /\ HasSibling)
  BY <1>2, NetRests DEF Send
<1>3. QED
  BY <1>1, <1>2

\* A bud without a phone has no list that matters; a slave is one.
LEMMA BareTidy == ASSUME NEW s, NEW q, s.conn = {}, Clean(q, Switches) PROVE Tidy(s, q) /\ ~Both(s)
<1>1. ~Both(s)
  BY FS_EmptySet DEF Both, connect_dev
<1>2. QED
  BY <1>1 DEF Tidy

LEMMA SlaveBare ==
    ASSUME TidyInv, NEW b \in Buds, Slave(bud[b])
    PROVE  bud[b].conn = {} /\ acl[b] = {} /\ ~Both(bud[b])
<1>1. bud[b].conn = {} /\ acl[b] = {}
  BY DEF TidyInv, BudTidy, HasPhone
<1>2. QED
  BY <1>1, FS_EmptySet DEF Both, connect_dev

(***************************************************************************)
(* A step that leaves the roles and the link alone.                        *)
(***************************************************************************)

LEMMA TidyStep ==
    ASSUME IInv, TidyInv, NetDown,
           \A c \in Buds : /\ bud'[c].role = bud[c].role /\ bud'[c].tws = bud[c].tws
                           /\ Slave(bud[c]) => ~HasPhone(c)'
                           /\ Cardinality(bud'[c].conn \cup acl'[c]) <= 2
                           /\ Tidy(bud'[c], queue'[c])
    PROVE  TidyInv'
<1>1. Pairing(bud)'
  BY PairingStays DEF TidyInv
<1>2. ASSUME NEW c \in Buds PROVE BudTidy(c)'
  <2>1. BudTidy(c)
    BY DEF TidyInv
  <2>2. /\ (Slave(bud[c]) => Linked(bud[c]))' /\ (Slave(bud[c]) => ~HasPhone(c))'
        /\ (net[c] # <<>> => Slave(bud[c]))'
    BY <2>1 DEF BudTidy, Slave, Linked, NetDown
  <2>3. Tidy(bud[c], queue[c])'
    BY DEF Tidy, Shut, Gone, Both, Closed, connect_dev, OnlyLost
  <2>4. QED
    BY <2>2, <2>3 DEF BudTidy
<1>3. QED
  BY <1>1, <1>2 DEF TidyInv

LEMMA TidyStay ==
    ASSUME IInv, TidyInv, NetDown, acl' = acl,
           \A c \in Buds : /\ bud'[c].role = bud[c].role /\ bud'[c].tws = bud[c].tws
                           /\ bud'[c].conn = bud[c].conn
                           /\ Tidy(bud'[c], queue'[c])
    PROVE  TidyInv'
<1>1. \A c \in Buds : /\ Slave(bud[c]) => ~HasPhone(c)'
                      /\ Cardinality(bud'[c].conn \cup acl'[c]) <= 2
  BY DEF TidyInv, BudTidy, HasPhone
<1>2. QED
  BY <1>1, TidyStep

LEMMA TidyInvTurn ==
    ASSUME IInv, TidyInv, NEW b \in Buds, NEW t, Tidies(bud[b], t),
           bud' = [bud EXCEPT ![b] = t], queue' = queue, acl' = acl, NetDown
    PROVE  TidyInv'
<1>1. \A c \in Buds : bud'[c] = IF c = b THEN t ELSE bud[c]
  BY DEF IInv
<1>2. \A c \in Buds : Tidies(bud[c], bud'[c]) /\ Tidy(bud[c], queue[c])
  BY <1>1, TidiesSelf DEF TidyInv, BudTidy
<1>3. \A c \in Buds : Tidy(bud'[c], queue[c])
  BY <1>2, TidyTurn
<1>4. \A c \in Buds : /\ bud'[c].role = bud[c].role /\ bud'[c].tws = bud[c].tws
                      /\ bud'[c].conn = bud[c].conn
  BY <1>2 DEF Tidies, Same
<1>5. QED
  BY <1>3, <1>4, TidyStay

(***************************************************************************)
(* The head of b's queue is handled.                                       *)
(***************************************************************************)

LEMMA TidyHandled ==
    ASSUME IInv, TidyInv, NEW b \in Buds, queue[b] # <<>>, NEW t,
           Brings(bud[b], Head(queue[b]), t), Handled(b, t), acl' = acl, NetDown
    PROVE  TidyInv'
<1>1. \A c \in Buds : /\ bud'[c] = IF c = b THEN t ELSE bud[c]
                      /\ queue'[c] = IF c = b THEN Tail(queue[b]) ELSE queue[c]
  BY DEF Handled, IInv
<1>2. bud[b] \in Bud /\ queue[b] \in Seq(GoodMessage) /\ (Both(bud[b]) => ~Slave(bud[b]))
  BY BudGood, QueueSeq, SlaveBare
<1>3. \A c \in Buds : Tidy(bud[c], queue[c])
  BY DEF TidyInv, BudTidy
<1>4. Tidy(t, Tail(queue[b]))
  BY <1>2, <1>3, TidyTail
<1>5. Same(bud[b], t)
  BY DEF Brings
<1>6. \A c \in Buds : /\ bud'[c].role = bud[c].role /\ bud'[c].tws = bud[c].tws
                      /\ bud'[c].conn = bud[c].conn
  BY <1>1, <1>5 DEF Same
<1>7. \A c \in Buds : Tidy(bud'[c], queue'[c])
  BY <1>1, <1>3, <1>4
<1>8. QED
  BY <1>6, <1>7, TidyStay

LEMMA TidyStartProc ==
    ASSUME IInv, TidyInv, NEW b \in Buds, HandleStartProc(b) PROVE TidyInv'
<1> DEFINE s == bud[b]
           q == queue[b]
           m == App(IF s.tws = "unpaired" THEN "unpaired" ELSE "paired")
           w == Append(Tail(q), m)
<1>1. /\ q # <<>> /\ Head(q).kind = "app" /\ bud' = bud /\ net' = net /\ acl' = acl
      /\ queue' = [queue EXCEPT ![b] = w]
  BY DEF HandleStartProc, Waiting
<1>2. /\ q \in Seq(GoodMessage) /\ Tail(q) \in Seq(GoodMessage) /\ m \in GoodMessage
      /\ m \notin Switches /\ m \notin Spoilers /\ \A p : m \notin Adds(p)
  BY <1>1, QueueSeq, QueueHead, GoodMessages
     DEF AppMsgs, App, Switches, Spoilers, Adds, Lost, Paging
<1> HIDE DEF m
<1>3. \A c \in Buds : Tidy(bud[c], queue[c])
  BY DEF TidyInv, BudTidy
<1>4. Tidy(s, Tail(q))
  <2>1. Brings(s, Head(q), s)
    BY <1>1, TidiesSelf, TidiesBrings
  <2>2. s \in Bud /\ (Both(s) => ~Slave(s))
    BY BudGood, SlaveBare
  <2>3. QED
    BY <1>1, <1>2, <1>3, <2>1, <2>2, TidyTail
<1>5. Tidy(s, w)
  <2> HIDE DEF s, q
  <2>1. QED
    BY <1>2, <1>4, TidyPosted
<1> HIDE DEF w
<1>6. \A c \in Buds : queue'[c] = IF c = b THEN w ELSE queue[c]
  BY <1>1 DEF IInv
<1>7. \A c \in Buds : Tidy(bud'[c], queue'[c])
  BY <1>1, <1>3, <1>5, <1>6
<1>8. QED
  BY <1>1, <1>7, NetRests, TidyStay

LEMMA TidyPageDevice ==
    ASSUME IInv, NEW b \in Buds, HandlePageDevice(b)
    PROVE  \E t : /\ Same(bud[b], t) /\ (Both(bud[b]) => t = bud[b])
                  /\ Handled(b, t)
<1> DEFINE s == bud[b]
<1>1. CASE Both(s)
  <2>1. Len(s.list) \in Nat
    BY BudGood, GoodBud, LenProperties
  <2>2. connect_dev(s) + Len(s.list) >= 2
    BY <1>1, <2>1 DEF Both
  <2>3. Handled(b, s)
    BY <2>2 DEF HandlePageDevice
  <2>4. QED
    BY <2>3 DEF Same
<1>2. CASE ~Both(s)
  BY <1>2, FoundPageDevice DEF Stays, Alike
<1>3. QED
  BY <1>1, <1>2

LEMMA TidyHandle ==
    ASSUME IInv, TidyInv, Prompt, NEW b \in Buds, HandleMessage(b) PROVE TidyInv'
<1> DEFINE m == Head(queue[b])
           s == bud[b]
<1>1. Good(s) /\ Pairing(bud) /\ Tidy(s, queue[b])
  BY BudGood DEF TidyInv, BudTidy
<1>2. CASE HandlePhone(b)
  <2> DEFINE t == IF m.nth = 1 THEN FirstConnected(s, m.addr) ELSE SecondConnected(s, m.addr)
  <2>1. Waiting(b, "phone") /\ Handled(b, t) /\ net' = net /\ acl' = acl
    BY <1>2 DEF HandlePhone
  <2>2. queue[b] # <<>> /\ m \in GoodMessage /\ m.kind = "phone"
    BY <2>1, WaitingHead
  <2>3. Brings(s, m, t)
    BY <1>1, <2>2, BringsFirst, BringsSecond
  <2> HIDE DEF t
  <2>4. QED
    BY <2>1, <2>2, <2>3, NetRests, TidyHandled
<1>3. CASE HandleHci(b)
  <2> DEFINE t == dual_conn_hci_event_handler(s, m.ev, m.addr)
  <2>1. Waiting(b, "hci") /\ Handled(b, t) /\ net' = net /\ acl' = acl
    BY <1>3 DEF HandleHci
  <2>2. queue[b] # <<>> /\ m \in GoodMessage /\ m.kind = "hci"
    BY <2>1, WaitingHead
  <2>3. Brings(s, m, t)
    BY <1>1, <2>2, BringsHci
  <2> HIDE DEF t
  <2>4. QED
    BY <2>1, <2>2, <2>3, NetRests, TidyHandled
<1>4. CASE HandleConnected(b)
  <2> DEFINE t == TwsConnected(s, m.role)
  <2>1. /\ Waiting(b, "tws") /\ m.ev = "connected" /\ Handled(b, t) /\ acl' = acl
        /\ (m.role = "master" /\ Send(b, PageInfo(t))) \/ net' = net
    BY <1>4 DEF HandleConnected
  <2>2. queue[b] # <<>> /\ m.kind = "tws"
    BY <2>1, WaitingHead
  <2>3. Brings(s, m, t)
    BY <1>1, <2>2, BringsConnected, TidiesBrings
  <2> HIDE DEF t
  <2>4. NetDown
    <3>1. CASE m.role = "master" /\ Send(b, PageInfo(t))
      <4>1. 1 \in DOMAIN queue[b] /\ m = queue[b][1]
        BY <2>2, QueueSeq, TailIndex
      <4>2. NewMaster(queue[b][1])
        BY <2>1, <2>2, <3>1, <4>1 DEF NewMaster
      <4>3. ~Slave(s)
        BY <4>1, <4>2 DEF Prompt
      <4>4. QED
        BY <1>1, <3>1, <4>3, SendsDown
    <3>2. QED
      BY <2>1, <3>1, NetRests
  <2>5. QED
    BY <2>1, <2>2, <2>3, <2>4, TidyHandled
<1>5. CASE HandleDetach(b)
  <2> DEFINE t == TwsDetached(s, m.role, m.reason)
  <2>1. Waiting(b, "tws") /\ m.ev = "detach" /\ Handled(b, t) /\ net' = net /\ acl' = acl
    BY <1>5 DEF HandleDetach
  <2>2. queue[b] # <<>> /\ m \in GoodMessage /\ m.kind = "tws"
    BY <2>1, WaitingHead
  <2>3. Brings(s, m, t)
    BY <1>1, <2>1, <2>2, BringsDetached
  <2> HIDE DEF t
  <2>4. QED
    BY <2>1, <2>2, <2>3, NetRests, TidyHandled
<1>6. CASE HandleSwitch(b)
  <2>1. queue[b] # <<>> /\ m \in GoodMessage /\ m.kind = "tws" /\ m.ev = "switch"
    BY <1>6, WaitingHead DEF HandleSwitch
  <2>2. m \in Switches
    BY <2>1 DEF Switches
  <2>3. m \notin Switches
    BY <1>1, <2>1, QueueSeq, MendTail DEF Tidy
  <2>4. QED
    BY <2>2, <2>3
<1>7. CASE HandleData(b)
  <2> DEFINE t == rx_device_info(s, m.info)
  <2>1. Waiting(b, "data") /\ Handled(b, t) /\ net' = net /\ acl' = acl
    BY <1>7 DEF HandleData
  <2>2. queue[b] # <<>> /\ m \in GoodMessage /\ m.kind = "data"
    BY <2>1, WaitingHead
  <2>3. Brings(s, m, t)
    BY <1>1, <2>2, BringsData
  <2> HIDE DEF t
  <2>4. QED
    BY <2>1, <2>2, <2>3, NetRests, TidyHandled
<1>8. CASE HandleApp(b)
  <2> DEFINE t == dual_conn_app_event_handler(s, m.msg)
  <2>1. Waiting(b, "app") /\ Handled(b, t) /\ net' = net /\ acl' = acl
    BY <1>8 DEF HandleApp
  <2>2. queue[b] # <<>> /\ m.kind = "app"
    BY <2>1, WaitingHead
  <2>3. Brings(s, m, t)
    BY <1>1, <2>2, BringsApp, TidiesBrings
  <2> HIDE DEF t
  <2>4. QED
    BY <2>1, <2>2, <2>3, NetRests, TidyHandled
<1>9. CASE HandleStartProc(b)
  BY <1>9, TidyStartProc
<1>10. CASE HandlePageDevice(b)
  <2>1. Waiting(b, "app") /\ m.msg = "page_device" /\ net' = net /\ acl' = acl
    BY <1>10 DEF HandlePageDevice
  <2>2. queue[b] # <<>> /\ m \in GoodMessage /\ m.kind = "app"
    BY <2>1, WaitingHead
  <2>3. PICK t : Same(s, t) /\ (Both(s) => t = s) /\ Handled(b, t)
    BY <1>10, TidyPageDevice
  <2>4. m \notin Seconds /\ \A p : m \in Adds(p) /\ m \notin Ups(p)
    BY <2>1, <2>2 DEF Seconds, Second, Adds, Paging, Ups
  <2>5. Brings(s, m, t)
    BY <2>3, <2>4 DEF Brings
  <2>6. QED
    BY <2>1, <2>2, <2>3, <2>5, NetRests, TidyHandled
<1>11. QED
  BY <1>2, <1>3, <1>4, <1>5, <1>6, <1>7, <1>8, <1>9, <1>10 DEF HandleMessage

\* The list of the sibling comes to slaves only, which have no phone.
LEMMA TidyReceive == ASSUME IInv, TidyInv, NEW b \in Buds, Receive(b) PROVE TidyInv'
<1> DEFINE m == Data(Head(net[b]))
<1>1. /\ Post(b, m) /\ bud' = bud /\ net[b] # <<>> /\ acl' = acl
      /\ net' = [net EXCEPT ![b] = Tail(net[b])]
  BY DEF Receive
<1>2. m \in GoodMessage /\ m \notin Switches
  <2>1. m \in GoodMessage
    BY <1>1, GoodMessages, HeadTailProperties DEF IInv
  <2>2. QED
    BY <2>1 DEF Data, Switches
<1> HIDE DEF m
<1>3. \A c \in Buds : queue'[c] = IF c = b THEN Append(queue[b], m) ELSE queue[c]
  BY <1>1 DEF Post, IInv
<1>4. \A c \in Buds : Tidy(bud[c], queue[c])
  BY DEF TidyInv, BudTidy
<1>5. Tidy(bud[b], Append(queue[b], m))
  <2>1. Slave(bud[b])
    BY <1>1 DEF TidyInv, BudTidy
  <2>2. Clean(queue[b], Switches)
    BY <1>4 DEF Tidy
  <2>3. Clean(Append(queue[b], m), Switches)
    BY <1>2, <2>2, QueueSeq, MendAppend
  <2>4. QED
    BY <2>1, <2>3, SlaveBare, BareTidy
<1>6. \A c \in Buds : Tidy(bud'[c], queue'[c])
  BY <1>1, <1>3, <1>4, <1>5
<1>7. NetDown
  BY <1>1 DEF NetDown, IInv
<1>8. QED
  BY <1>1, <1>6, <1>7, TidyStay

LEMMA TidyClock == ASSUME IInv, TidyInv, NEW b \in Buds, Clock(b) PROVE TidyInv'
<1> DEFINE s == bud[b]
<1>1. Good(s) /\ s \in Bud /\ Pairing(bud)
  BY BudGood DEF TidyInv
<1>2. CASE Timeout(b)
  <2>1. bud' = [bud EXCEPT ![b] = RunTimer(s)] /\ queue' = queue /\ net' = net /\ acl' = acl
    BY <1>2 DEF Timeout
  <2>2. QED
    BY <1>1, <2>1, TidyTimer, NetRests, TidyInvTurn
<1>3. CASE OrphanTimeout(b)
  <2>1. PICK cb : bud' = [bud EXCEPT ![b] = RunOrphan(s, cb)]
    BY <1>3 DEF OrphanTimeout
  <2>2. queue' = queue /\ net' = net /\ acl' = acl
    BY <1>3 DEF OrphanTimeout
  <2>3. QED
    BY <1>1, <2>1, <2>2, TidyOrphan, NetRests, TidyInvTurn
<1>4. CASE InquiryTimeout(b)
  <2> DEFINE t == [close_inquiry_scan(s) EXCEPT
                       !.inquiry = FALSE,
                       !.orphans = IF s.inquiry THEN @ ELSE @ \ {"inquiry"}]
  <2>1. /\ bud' = [bud EXCEPT ![b] = t] /\ queue' = queue /\ acl' = acl
        /\ (~Slave(s) /\ Send(b, CountInfo(t))) \/ net' = net
    BY <1>4 DEF InquiryTimeout
  <2>2. Tidies(s, t)
    BY <1>1, TidyInquiry
  <2> HIDE DEF t
  <2>3. NetDown
    BY <1>1, <2>1, SendsDown, NetRests
  <2>4. QED
    BY <2>1, <2>2, <2>3, TidyInvTurn
<1>5. CASE Receive(b)
  BY <1>5, TidyReceive
<1>6. ASSUME NEW p \in Phones, PageTimeout(b, p) PROVE TidyInv'
  <2>1. /\ p \in s.ptimers /\ queue' = queue /\ net' = net /\ acl' = acl
        /\ bud' = [bud EXCEPT ![b] = dual_conn_page_device_timeout(s, p)]
    BY <1>6 DEF PageTimeout
  <2>2. QED
    BY <1>1, <2>1, TidyPageTimeout, NetRests, TidyInvTurn
<1>7. ASSUME NEW p \in Phones, Elapse(b, p) PROVE TidyInv'
  <2>1. PICK i \in DOMAIN s.list :
            bud' = [bud EXCEPT ![b] = [s EXCEPT !.list[i].late = TRUE]]
    BY <1>7 DEF Elapse, IInv
  <2> DEFINE t == [s EXCEPT !.list[i].late = TRUE]
  <2>2. Tidies(s, t)
    BY <1>1, TidyElapse
  <2>3. queue' = queue /\ net' = net /\ acl' = acl
    BY <1>7 DEF Elapse
  <2> HIDE DEF t
  <2>4. QED
    BY <2>1, <2>2, <2>3, NetRests, TidyInvTurn DEF t
<1>8. QED
  BY <1>2, <1>3, <1>4, <1>5, <1>6, <1>7 DEF Clock

(***************************************************************************)
(* The phones.                                                             *)
(***************************************************************************)

\* What a phone, or the end of a page, changes at b, and what is posted of it to b and to
\* the slave of b.
LEMMA TidyPhone ==
    ASSUME IInv, TidyInv, NEW b \in Buds, NEW t, NEW y, NEW m \in GoodMessage,
           bud' = [bud EXCEPT ![b] = t], acl' = [acl EXCEPT ![b] = y], net' = net,
           t.role = bud[b].role, t.tws = bud[b].tws, t.list = bud[b].list,
           t.num = bud[b].num, t.scan = bud[b].scan,
           \A c \in Buds : queue'[c] = queue[c] \/ queue'[c] = Append(queue[c], m),
           \A c \in Buds : c = b \/ queue'[c] = queue[c] \/ Slave(bud[c]),
           queue'[b] = Append(queue[b], m),
           Slave(bud[b]) => t.conn = {} /\ y = {},
           Cardinality(t.conn \cup y) <= 2,
           m.kind \in {"hci", "phone"},
           Both(t) => m \in Seconds \/ (Both(bud[b]) /\ m \notin Spoilers),
           OnlyLost => \A p \in t.conn : m \in Ups(p) \/ (p \in bud[b].conn /\ m \notin Adds(p))
    PROVE  TidyInv'
<1>1. \A c \in Buds : /\ bud'[c] = IF c = b THEN t ELSE bud[c]
                      /\ acl'[c] = IF c = b THEN y ELSE acl[c]
  BY DEF IInv
<1>2. \A c \in Buds : Tidy(bud[c], queue[c]) /\ BudTidy(c) /\ queue[c] \in Seq(GoodMessage)
  BY QueueSeq DEF TidyInv, BudTidy
<1>3. m \notin Switches
  BY DEF Switches
<1>4. Tidy(t, queue'[b])
  BY <1>2, <1>3, TidyPosted
<1>5. ASSUME NEW c \in Buds, c # b PROVE Tidy(bud[c], queue'[c])
  <2>1. CASE queue'[c] = queue[c]
    BY <1>2, <2>1
  <2>2. CASE queue'[c] = Append(queue[c], m) /\ Slave(bud[c])
    <3>1. Clean(queue[c], Switches) /\ queue[c] \in Seq(GoodMessage)
      BY <1>2 DEF Tidy
    <3>2. Clean(Append(queue[c], m), Switches)
      BY <1>3, <3>1, MendAppend
    <3>3. QED
      BY <2>2, <3>2, SlaveBare, BareTidy
  <2>3. QED
    BY <1>5, <2>1, <2>2
<1>6. \A c \in Buds : Tidy(bud'[c], queue'[c])
  BY <1>1, <1>4, <1>5
<1>7. ASSUME NEW c \in Buds
      PROVE  /\ Slave(bud[c]) => ~HasPhone(c)'
             /\ Cardinality(bud'[c].conn \cup acl'[c]) <= 2
             /\ bud'[c].role = bud[c].role /\ bud'[c].tws = bud[c].tws
  <2>1. CASE c = b
    BY <1>1, <2>1 DEF HasPhone
  <2>2. CASE c # b
    <3>1. bud'[c] = bud[c] /\ acl'[c] = acl[c]
      BY <1>1, <2>2
    <3>2. (Slave(bud[c]) => ~HasPhone(c)) /\ Cardinality(bud[c].conn \cup acl[c]) <= 2
      BY <1>2 DEF BudTidy
    <3>3. QED
      BY <3>1, <3>2 DEF HasPhone
  <2>3. QED
    BY <2>1, <2>2
<1>8. QED
  BY <1>6, <1>7, NetRests, TidyStep

\* A bud is told of the phones of its sibling only as a slave.
LEMMA TidyPeers ==
    ASSUME TidyInv, NEW b \in Buds, ~Slave(bud[b]), NEW m, PostAll(Peers(b), m)
    PROVE  /\ \A c \in Buds : queue'[c] = queue[c] \/ queue'[c] = Append(queue[c], m)
           /\ \A c \in Buds : c = b \/ queue'[c] = queue[c] \/ Slave(bud[c])
           /\ queue'[b] = Append(queue[b], m)
<1>1. \A c \in Buds : queue'[c] = IF c \in Peers(b) THEN Append(queue[c], m) ELSE queue[c]
  BY PostedPeers
<1>2. b \in Peers(b) /\ \A c \in Buds : c \in Peers(b) /\ c # b => Slave(bud[c])
  BY DEF Peers, TidyInv, Pairing
<1>3. QED
  BY <1>1, <1>2

LEMMA TidyLink ==
    ASSUME IInv, TidyInv, NEW b \in Buds, NEW p \in Phones, PhoneLink(b, p) PROVE TidyInv'
<1> DEFINE s == bud[b]
           x == IF s.page = p THEN NoPhone ELSE s.page
           t == [s EXCEPT !.page = x]
           y == acl[b] \cup {p}
           m == Hci("ok", p)
<1>1. /\ bud' = [bud EXCEPT ![b] = t] /\ net' = net /\ acl' = [acl EXCEPT ![b] = y]
      /\ PostAll(Peers(b), m) /\ ~Slave(s) /\ Cardinality(s.conn \cup acl[b]) < 2
  BY DEF PhoneLink
<1>2. /\ m \in GoodMessage /\ m.kind = "hci" /\ m \notin Spoilers /\ \A q : m \notin Adds(q)
  <2>1. m \in GoodMessage
    BY GoodMessages DEF HciEvents
  <2>2. QED
    BY <2>1 DEF Hci, Spoilers, Adds, Lost, Paging
<1> HIDE DEF m, x
<1>3. /\ t.role = s.role /\ t.tws = s.tws /\ t.list = s.list /\ t.conn = s.conn
      /\ t.num = s.num /\ t.scan = s.scan
  BY BudGood DEF Bud
<1>4. Cardinality(t.conn \cup y) <= 2
  <2>1. t.conn \cup y = (s.conn \cup acl[b]) \cup {p}
    BY <1>3
  <2>2. IsFiniteSet(s.conn \cup acl[b]) /\ Cardinality(s.conn \cup acl[b]) \in Nat
    BY FewPhones
  <2>3. Cardinality(t.conn \cup y) \in {Cardinality(s.conn \cup acl[b]),
                                        Cardinality(s.conn \cup acl[b]) + 1}
    BY <2>1, <2>2, FS_AddElement
  <2>4. QED
    BY <1>1, <2>2, <2>3
<1>5. Both(t) => Both(s)
  BY <1>3 DEF Both, connect_dev
<1> HIDE DEF t, y
<1>6. QED
  BY <1>1, <1>2, <1>3, <1>4, <1>5, TidyPeers, TidyPhone

LEMMA TidyUp ==
    ASSUME IInv, TidyInv, NEW b \in Buds, NEW p \in Phones, PhoneUp(b, p) PROVE TidyInv'
<1> DEFINE s == bud[b]
           x == s.conn \cup {p}
           t == [s EXCEPT !.conn = x]
           y == acl[b] \ {p}
           n == IF s.conn = {} THEN 1 ELSE 2
           m == PhoneEvent(n, p)
<1>1. /\ bud' = [bud EXCEPT ![b] = t] /\ net' = net /\ acl' = [acl EXCEPT ![b] = y]
      /\ PostAll(Peers(b), m) /\ p \in acl[b]
  BY DEF PhoneUp
<1>2. ~Slave(s) /\ BudTidy(b)
  BY <1>1 DEF HasPhone, TidyInv, BudTidy
<1>3. /\ m \in GoodMessage /\ m.kind = "phone" /\ m.addr = p /\ m.nth = n
      /\ m \in Ups(p) /\ \A q : m \notin Adds(q)
  <2>1. m \in GoodMessage
    BY GoodMessages
  <2>2. QED
    BY <2>1 DEF PhoneEvent, Ups, Adds, Lost, Paging
<1> HIDE DEF m
<1>4. /\ t.role = s.role /\ t.tws = s.tws /\ t.list = s.list /\ t.conn = x
      /\ t.num = s.num /\ t.scan = s.scan
  BY BudGood DEF Bud
<1>5. Cardinality(t.conn \cup y) <= 2
  <2>1. t.conn \cup y = s.conn \cup acl[b]
    BY <1>1, <1>4
  <2>2. QED
    BY <1>2, <2>1 DEF BudTidy
<1>6. Both(t) => m \in Seconds
  <2>1. ASSUME s.conn = {} PROVE ~Both(t)
    <3>1. t.conn = {p}
      BY <1>4, <2>1
    <3>2. QED
      BY <3>1, FS_Singleton DEF Both, connect_dev
  <2>2. s.conn # {} => m \in Seconds
    BY <1>3 DEF Seconds, Second
  <2>3. QED
    BY <2>1, <2>2
<1>7. \A q \in t.conn : m \in Ups(q) \/ (q \in s.conn /\ m \notin Adds(q))
  BY <1>3, <1>4
<1> HIDE DEF t, y
<1>8. QED
  BY <1>1, <1>2, <1>3, <1>4, <1>5, <1>6, <1>7, TidyPeers, TidyPhone

LEMMA TidyDown ==
    ASSUME IInv, TidyInv, NEW b \in Buds, NEW p \in Phones, NEW ev \in {"lost", "gone"},
           PhoneDown(b, p, ev)
    PROVE  TidyInv'
<1> DEFINE s == bud[b]
           x == s.conn \ {p}
           t == [s EXCEPT !.conn = x]
           y == acl[b] \ {p}
           m == Hci(ev, p)
           all == s.conn \cup acl[b]
<1>1. /\ bud' = [bud EXCEPT ![b] = t] /\ net' = net /\ acl' = [acl EXCEPT ![b] = y]
      /\ PostAll(Peers(b), m) /\ p \in all
  BY DEF PhoneDown
<1>2. ~Slave(s) /\ BudTidy(b)
  BY <1>1 DEF HasPhone, TidyInv, BudTidy
<1>3. m \in GoodMessage /\ m.kind = "hci" /\ \A q : q # p => m \notin Adds(q)
  <2>1. m \in GoodMessage
    BY GoodMessages DEF HciEvents
  <2>2. QED
    BY <2>1 DEF Hci, Adds, Lost, Paging
<1> HIDE DEF m
<1>4. /\ t.role = s.role /\ t.tws = s.tws /\ t.list = s.list /\ t.conn = x
      /\ t.num = s.num /\ t.scan = s.scan
  BY BudGood DEF Bud
<1>5. IsFiniteSet(all) /\ Cardinality(all) \in Nat /\ Cardinality(all) <= 2
  BY <1>2, FewPhones DEF BudTidy
<1>6. t.conn \cup y = all \ {p}
  BY <1>4
<1>7. x \subseteq all \ {p}
  OBVIOUS
<1> HIDE DEF all, x, t, y
<1>8. IsFiniteSet(all \ {p}) /\ Cardinality(all \ {p}) = Cardinality(all) - 1
  BY <1>1, <1>5, FS_RemoveElement
<1>9. Cardinality(t.conn \cup y) <= 2
  <2>1. Cardinality(t.conn \cup y) = Cardinality(all \ {p})
    BY <1>6, Zenon
  <2>2. QED
    BY <2>1, <1>5, <1>8
<1>10. ~Both(t)
  <2>1. IsFiniteSet(x) /\ Cardinality(x) <= Cardinality(all \ {p}) /\ Cardinality(x) \in Nat
    BY <1>7, <1>8, FS_Subset, FS_CardinalityType
  <2>2. QED
    BY <1>4, <1>5, <1>8, <2>1 DEF Both, connect_dev
<1>11. \A q \in t.conn : q \in s.conn /\ m \notin Adds(q)
  BY <1>3, <1>4 DEF x
<1>12. QED
  BY <1>1, <1>2, <1>3, <1>4, <1>9, <1>10, <1>11, TidyPeers, TidyPhone

\* Unless the link exists, a page that ends lists nobody who is connected.
LEMMA TidyPageFails ==
    ASSUME IInv, TidyInv, NEW b \in Buds, NEW ev \in {"lost", "gone", "rejected"},
           PageFails(b, ev)
    PROVE  TidyInv'
<1> DEFINE s == bud[b]
           t == [s EXCEPT !.page = NoPhone]
           m == Hci(ev, s.page)
<1>1. /\ s.page # NoPhone /\ bud' = [bud EXCEPT ![b] = t] /\ Post(b, m)
      /\ net' = net /\ acl' = acl /\ (OnlyLost => ev # "lost")
  BY DEF PageFails, OnlyLost
<1>2. m \in GoodMessage /\ m.kind = "hci" /\ m \notin Spoilers
      /\ (OnlyLost => \A q : m \notin Adds(q))
  <2>1. s.page \in Phones
    BY <1>1, BudGood DEF Bud
  <2>2. m \in GoodMessage
    BY <2>1, GoodMessages DEF HciEvents
  <2>3. QED
    BY <1>1, <2>2 DEF Hci, Spoilers, Adds, Lost, Paging
<1> HIDE DEF m
<1>3. \A c \in Buds : queue'[c] = IF c = b THEN Append(queue[b], m) ELSE queue[c]
  BY <1>1 DEF Post, IInv
<1>4. acl' = [acl EXCEPT ![b] = acl[b]]
  BY <1>1 DEF IInv
<1>5. /\ t.role = s.role /\ t.tws = s.tws /\ t.list = s.list /\ t.conn = s.conn
      /\ t.num = s.num /\ t.scan = s.scan
  BY BudGood DEF Bud
<1>6. Both(t) => Both(s)
  BY <1>5 DEF Both, connect_dev
<1>7. Cardinality(t.conn \cup acl[b]) <= 2 /\ (Slave(s) => t.conn = {} /\ acl[b] = {})
  BY <1>5, SlaveBare DEF TidyInv, BudTidy
<1>8. /\ \A c \in Buds : queue'[c] = queue[c] \/ queue'[c] = Append(queue[c], m)
      /\ \A c \in Buds : c = b \/ queue'[c] = queue[c]
      /\ queue'[b] = Append(queue[b], m)
  BY <1>3
<1>9. /\ Both(t) => Both(s) /\ m \notin Spoilers
      /\ OnlyLost => \A p \in t.conn : p \in s.conn /\ m \notin Adds(p)
  BY <1>2, <1>5, <1>6
<1> HIDE DEF t, s
<1>10. /\ bud' = [bud EXCEPT ![b] = t] /\ acl' = [acl EXCEPT ![b] = acl[b]] /\ net' = net
       /\ t.role = bud[b].role /\ t.tws = bud[b].tws /\ t.list = bud[b].list
       /\ t.num = bud[b].num /\ t.scan = bud[b].scan
  BY <1>1, <1>4, <1>5 DEF s
<1>11. /\ \A c \in Buds : c = b \/ queue'[c] = queue[c] \/ Slave(bud[c])
       /\ Slave(bud[b]) => t.conn = {} /\ acl[b] = {}
       /\ m.kind \in {"hci", "phone"}
  BY <1>2, <1>7, <1>8 DEF s
<1>12. /\ Both(t) => m \in Seconds \/ (Both(bud[b]) /\ m \notin Spoilers)
       /\ OnlyLost => \A p \in t.conn : m \in Ups(p) \/ (p \in bud[b].conn /\ m \notin Adds(p))
  BY <1>9 DEF s
<1>13. QED
  BY <1>2, <1>7, <1>8, <1>10, <1>11, <1>12, TidyPhone

(***************************************************************************)
(* The user and other modules.                                             *)
(***************************************************************************)

LEMMA TidyUserMsg ==
    ASSUME IInv, TidyInv, NEW b \in Buds, UserMsg(b) PROVE TidyInv'
<1>1. PICK x \in UserOps \cap (AppMsgs \cup {"start_proc", "page_device"}) : Post(b, App(x))
  BY DEF UserMsg
<1> DEFINE m == App(x)
<1>2. bud' = bud /\ net' = net /\ acl' = acl
  BY DEF UserMsg
<1>3. /\ m \in GoodMessage /\ m \notin Switches /\ m \notin Spoilers
      /\ OnlyLost => \A p : m \notin Adds(p)
  <2>1. m \in GoodMessage
    BY <1>1, GoodMessages
  <2>2. QED
    BY <1>1, <2>1 DEF App, Switches, Spoilers, Adds, Lost, Paging, OnlyLost
<1> HIDE DEF m
<1>4. \A c \in Buds : queue'[c] = IF c = b THEN Append(queue[b], m) ELSE queue[c]
  BY <1>1 DEF Post, IInv, m
<1>5. \A c \in Buds : Tidy(bud[c], queue[c])
  BY DEF TidyInv, BudTidy
<1>6. Tidy(bud[b], Append(queue[b], m))
  <2> DEFINE s == bud[b]
             q == queue[b]
  <2>1. q \in Seq(GoodMessage) /\ Tidy(s, q)
    BY <1>5, QueueSeq
  <2> HIDE DEF s, q
  <2>2. Tidy(s, Append(q, m))
    BY <1>3, <2>1, TidyPosted
  <2>3. QED
    BY <2>2 DEF s, q
<1>7. \A c \in Buds : Tidy(bud'[c], queue'[c])
  BY <1>2, <1>4, <1>5, <1>6
<1>8. QED
  BY <1>2, <1>7, NetRests, TidyStay

LEMMA TidyUser ==
    ASSUME IInv, TidyInv, NEW b \in Buds, Refresh(b) \/ Esco(b) PROVE TidyInv'
<1> DEFINE s == bud[b]
<1>1. s \in Bud
  BY BudGood
<1>2. CASE Refresh(b)
  <2>1. /\ bud' = [bud EXCEPT ![b] = tws_dual_conn_state_handler(s)]
        /\ queue' = queue /\ net' = net /\ acl' = acl
    BY <1>2 DEF Refresh
  <2>2. QED
    BY <1>1, <2>1, StateTidies, NetRests, TidyInvTurn
<1>3. CASE Esco(b)
  <2> DEFINE x == [s EXCEPT !.esco = ~s.esco]
             t == IF x.off /\ ~x.esco THEN x ELSE tws_page_scan_deal_by_esco(x)
  <2>1. bud' = [bud EXCEPT ![b] = t] /\ queue' = queue /\ net' = net /\ acl' = acl
    BY <1>3 DEF Esco
  <2>2. Tidies(s, t)
    BY <1>1, TidyEsco
  <2> HIDE DEF t
  <2>3. QED
    BY <2>1, <2>2, NetRests, TidyInvTurn
<1>4. QED
  BY <1>2, <1>3

LEMMA TidyClosed ==
    ASSUME NEW s \in Bud
    PROVE  /\ Tidies(s, tws_dual_conn_close(s))
           /\ tws_dual_conn_close(s) \in Bud
<1> DEFINE d == DelTimer(s)
           k == CancelSeek(d)
           l == CancelListen(k)
           w == write_scan_conn_enable(l, "off")
<1>1. Bare(s, d) /\ d \in Bud
  BY BareSetters DEF Bare
<1> HIDE DEF d
<1>2. Bare(s, k) /\ k \in Bud
  BY <1>1, BareSetters, BareTrans DEF Bare
<1> HIDE DEF k
<1>3. Bare(s, l) /\ l \in Bud
  BY <1>2, BareSetters, BareTrans DEF Bare
<1> HIDE DEF l
<1>4. Tidies(s, w) /\ w \in Bud
  BY <1>3, BareTidies, TidiesScan, TidiesTrans, KeepsScans DEF Keeps
<1> HIDE DEF w
<1>5. Tidies(s, PageCancel(w)) /\ PageCancel(w) \in Bud
  BY <1>4, BareSetters, BareTidies, TidiesTrans DEF Bare
<1>6. QED
  BY <1>5 DEF tws_dual_conn_close, w, l, k, d

\* The flags of a power off or of leaving the mode change nothing of it.
LEMMA TidyFlags ==
    ASSUME NEW s, NEW t, NEW q, Tidy(s, q), t.conn = s.conn, t.list = s.list, t.num = s.num,
           t.scan = s.scan
    PROVE  Tidy(t, q)
BY DEF Tidy, Shut, Gone, Both, Closed, connect_dev

LEMMA TidyClose ==
    ASSUME IInv, TidyInv, NEW b \in Buds, SoftPoweroff(b) \/ ModeExit(b) PROVE TidyInv'
<1> DEFINE s == bud[b]
           x == [s EXCEPT !.off = TRUE]
           y == [s EXCEPT !.exit = TRUE]
<1>1. PICK z \in {x, y} : LET t == tws_dual_conn_close(z)
                          IN  /\ bud' = [bud EXCEPT ![b] = t]
                              /\ (~Slave(t) /\ Send(b, PageInfo(t))) \/ net' = net
  BY DEF SoftPoweroff, ModeExit
<1> DEFINE t == tws_dual_conn_close(z)
<1>2. queue' = queue /\ acl' = acl
  BY DEF SoftPoweroff, ModeExit
<1>3. /\ z \in Bud /\ z.role = s.role /\ z.tws = s.tws /\ z.conn = s.conn
      /\ z.list = s.list /\ z.num = s.num /\ z.scan = s.scan
  <2>1. s \in Bud /\ z \in {x, y}
    BY BudGood
  <2> HIDE DEF s
  <2>2. QED
    BY <2>1 DEF Bud
<1> HIDE DEF x, y
<1>4. Tidies(z, t) /\ Tidy(s, queue[b]) /\ Pairing(bud)
  BY <1>3, TidyClosed DEF TidyInv, BudTidy
<1>5. Tidy(z, queue[b])
  BY <1>3, <1>4, TidyFlags
<1>6. Tidy(t, queue[b])
  BY <1>4, <1>5, TidyTurn
<1>7. t.role = s.role /\ t.tws = s.tws /\ t.conn = s.conn
  BY <1>3, <1>4 DEF Tidies, Same
<1> HIDE DEF t
<1>8. bud' = [bud EXCEPT ![b] = t] /\ ((~Slave(t) /\ Send(b, PageInfo(t))) \/ net' = net)
  BY <1>1 DEF t
<1>9. NetDown
  BY <1>4, <1>7, <1>8, SendsDown, NetRests DEF Slave
<1>10. \A c \in Buds : bud'[c] = IF c = b THEN t ELSE bud[c]
  BY <1>8 DEF IInv
<1>11. \A c \in Buds : Tidy(bud'[c], queue'[c])
  BY <1>2, <1>6, <1>10 DEF TidyInv, BudTidy
<1>12. \A c \in Buds : /\ bud'[c].role = bud[c].role /\ bud'[c].tws = bud[c].tws
                       /\ bud'[c].conn = bud[c].conn
  BY <1>7, <1>10
<1>13. QED
  BY <1>2, <1>9, <1>11, <1>12, TidyStay

LEMMA TidyModeInit ==
    ASSUME IInv, TidyInv, NEW b \in Buds, ModeInit(b) PROVE TidyInv'
<1> DEFINE s == bud[b]
           w == [s EXCEPT !.exit = FALSE]
           u == [w EXCEPT !.switch = TRUE]
           m == bt_tws_poweron(s.tws)
<1>1. PICK rec \in Records :
          bud' = [bud EXCEPT ![b] = dual_conn_page_devices_init(u, rec)]
  BY DEF ModeInit
<1>2. Post(b, m) /\ net' = net /\ acl' = acl /\ s.conn = {}
  BY DEF ModeInit, HasPhone
<1>3. u \in Bud /\ u.role = s.role /\ u.tws = s.tws /\ u.conn = s.conn
  <2>1. s \in Bud
    BY BudGood
  <2> HIDE DEF s
  <2>2. w \in Bud /\ w.role = s.role /\ w.tws = s.tws /\ w.conn = s.conn
    BY <2>1 DEF Bud
  <2> HIDE DEF w
  <2>3. QED
    BY <2>2 DEF Bud
<1> HIDE DEF u
<1> DEFINE t == dual_conn_page_devices_init(u, rec)
<1>4. t.role = s.role /\ t.tws = s.tws /\ t.conn = s.conn
  BY <1>3, InitSame DEF Same
<1> HIDE DEF t
<1>5. m \in GoodMessage /\ m \notin Switches
  BY PowerOnRearms DEF Switches
<1> HIDE DEF m
<1>6. \A c \in Buds : bud'[c] = IF c = b THEN t ELSE bud[c]
  BY <1>1 DEF IInv, t
<1>7. \A c \in Buds : queue'[c] = IF c = b THEN Append(queue[b], m) ELSE queue[c]
  BY <1>2 DEF Post, IInv
<1>8. \A c \in Buds : Tidy(bud[c], queue[c])
  BY DEF TidyInv, BudTidy
<1>9. Tidy(t, Append(queue[b], m))
  <2>1. Clean(Append(queue[b], m), Switches)
    BY <1>5, <1>8, QueueSeq, MendAppend DEF Tidy
  <2>2. QED
    BY <1>2, <1>4, <2>1, BareTidy
<1>10. \A c \in Buds : Tidy(bud'[c], queue'[c])
  BY <1>6, <1>7, <1>8, <1>9
<1>11. \A c \in Buds : /\ bud'[c].role = bud[c].role /\ bud'[c].tws = bud[c].tws
                       /\ bud'[c].conn = bud[c].conn
  BY <1>4, <1>6
<1>12. QED
  BY <1>2, <1>10, <1>11, NetRests, TidyStay

(***************************************************************************)
(* The TWS link.                                                           *)
(***************************************************************************)

LEMMA TidyNews ==
    ASSUME IInv, TidyInv, NEW f, NEW g, bud' = [c \in Buds |-> f[c]],
           queue' = [c \in Buds |-> Append(queue[c], g[c])], Pairing(f), acl' = acl,
           \A c \in Buds : /\ g[c] \in GoodMessage /\ g[c].kind = "tws" /\ g[c].ev # "switch"
                           /\ f[c].conn = bud[c].conn /\ f[c].list = bud[c].list
                           /\ f[c].num = bud[c].num /\ f[c].scan = bud[c].scan
                           /\ Slave(f[c]) => Linked(f[c]) /\ ~HasPhone(c)
                           /\ g[c].ev = "detach" /\ g[c].role = "slave" => Slave(bud[c])
                           /\ net'[c] = <<>>
    PROVE  TidyInv'
<1>1. Pairing(bud)'
  BY DEF Pairing
<1>2. ASSUME NEW c \in Buds PROVE BudTidy(c)'
  <2> DEFINE s == bud[c]
             t == f[c]
             m == g[c]
             q == queue[c]
  <2>1. q \in Seq(GoodMessage) /\ BudTidy(c) /\ Tidy(s, q)
    BY QueueSeq DEF TidyInv, BudTidy
  <2>2. bud'[c] = t /\ queue'[c] = Append(q, m)
    OBVIOUS
  <2>3. Both(s) => ~Slave(s)
    BY SlaveBare
  <2>4. /\ m \in GoodMessage /\ m \notin Switches /\ (Both(s) => m \notin Spoilers)
        /\ \A p : m \notin Adds(p)
    BY <2>3 DEF Switches, Spoilers, Adds, Lost, Paging
  <2>5. t.conn = s.conn /\ t.list = s.list /\ t.num = s.num /\ t.scan = s.scan
    OBVIOUS
  <2> HIDE DEF s, t, m, q
  <2>6. Both(t) => Both(s)
    BY <2>5 DEF Both, connect_dev
  <2>7. Tidy(t, Append(q, m))
    BY <2>1, <2>4, <2>5, <2>6, TidyPosted
  <2>8. Tidy(bud[c], queue[c])'
    <3>1. Tidy(bud'[c], queue'[c])
      BY <2>2, <2>7
    <3>2. QED
      BY <3>1 DEF Tidy, Shut, Gone, Both, Closed, connect_dev, OnlyLost
  <2>9. (Slave(bud[c]) => Linked(bud[c]) /\ ~HasPhone(c))'
        /\ (Cardinality(bud[c].conn \cup acl[c]) <= 2)'
    BY <2>1, <2>2, <2>5 DEF BudTidy, HasPhone, s, t
  <2>10. QED
    BY <2>8, <2>9 DEF BudTidy
<1>3. QED
  BY <1>1, <1>2 DEF TidyInv

LEMMA TidyTwsLink == ASSUME IInv, TidyInv, NEW b \in Buds, TwsLink(b) PROVE TidyInv'
<1> DEFINE role == [c \in Buds |-> IF c = b THEN "master" ELSE "slave"]
           f == [c \in Buds |-> [bud[c] EXCEPT !.tws = "linked", !.op = "idle",
                                               !.role = role[c]]]
           g == [c \in Buds |-> Tws("connected", role[c], "other")]
<1>1. /\ bud' = [c \in Buds |-> f[c]] /\ acl' = acl /\ net' = net /\ ~HasPhone(Sibling(b))
      /\ queue' = [c \in Buds |-> Append(queue[c], g[c])]
      /\ \A c \in Buds : ~Linked(bud[c])
  BY DEF TwsLink, MayBeMaster
<1>2. \A c \in Buds : role[c] \in Role /\ bud[c] \in Bud
                      /\ role[c] = IF c = b THEN "master" ELSE "slave"
  BY BudGood DEF Role
<1> HIDE DEF role
<1>3. \A c \in Buds : /\ f[c].role = role[c] /\ f[c].tws = "linked"
                      /\ f[c].conn = bud[c].conn /\ f[c].list = bud[c].list
                      /\ f[c].num = bud[c].num /\ f[c].scan = bud[c].scan
  BY <1>2 DEF Bud
<1>4. \A c \in Buds : g[c] \in GoodMessage
  BY <1>2, GoodMessages DEF DetachReason
<1>5. \A c \in Buds : g[c].kind = "tws" /\ g[c].ev = "connected"
  BY DEF Tws
<1> HIDE DEF f, g
<1>6. \A c, d \in Buds : c # d => (c = b <=> d # b)
  BY TwoBuds
<1>7. Pairing(f)
  BY <1>2, <1>3, <1>6 DEF Pairing, Linked, Slave
<1>8. \A c \in Buds : Slave(f[c]) => Linked(f[c]) /\ ~HasPhone(c)
  BY <1>1, <1>2, <1>3, TwoBuds DEF Slave, Linked
<1>9. \A c \in Buds : net'[c] = <<>>
  BY <1>1 DEF TidyInv, BudTidy
<1>10. QED
  BY <1>1, <1>3, <1>4, <1>5, <1>7, <1>8, <1>9, TidyNews

LEMMA TidyTwsDetach ==
    ASSUME IInv, TidyInv, NEW reason \in DetachReason, TwsDetach(reason) PROVE TidyInv'
<1> DEFINE x == IF reason = "remove_pairs" THEN "unpaired" ELSE "paired"
           f == [c \in Buds |-> [bud[c] EXCEPT !.role = "master", !.tws = x]]
           g == [c \in Buds |-> Tws("detach", bud[c].role, reason)]
<1>1. /\ bud' = [c \in Buds |-> f[c]] /\ acl' = acl
      /\ queue' = [c \in Buds |-> Append(queue[c], g[c])]
      /\ net' = [c \in Buds |-> <<>>]
  BY DEF TwsDetach
<1>2. x # "linked" /\ \A c \in Buds : bud[c] \in Bud /\ bud[c].role \in Role
  BY BudGood DEF Bud
<1> HIDE DEF x
<1>3. \A c \in Buds : /\ f[c].tws = x /\ f[c].role = "master"
                      /\ f[c].conn = bud[c].conn /\ f[c].list = bud[c].list
                      /\ f[c].num = bud[c].num /\ f[c].scan = bud[c].scan
  BY <1>2 DEF Bud
<1>4. \A c \in Buds : g[c] \in GoodMessage
  BY <1>2, GoodMessages
<1>5. \A c \in Buds : g[c].kind = "tws" /\ g[c].ev = "detach" /\ g[c].role = bud[c].role
  BY DEF Tws
<1> HIDE DEF f, g
<1>6. Pairing(f)
  BY <1>2, <1>3 DEF Pairing, Linked
<1>7. \A c \in Buds : ~Slave(f[c])
  BY <1>3 DEF Slave
<1>8. \A c \in Buds : net'[c] = <<>> /\ (g[c].role = "slave" => Slave(bud[c]))
  BY <1>1, <1>5 DEF Slave
<1>9. QED
  BY <1>1, <1>3, <1>4, <1>5, <1>6, <1>7, <1>8, TidyNews

(***************************************************************************)
(* The theorems.                                                           *)
(***************************************************************************)

LEMMA InitTidy == Init => TidyInv
<1> SUFFICES ASSUME Init PROVE TidyInv
  OBVIOUS
<1>1. PICK tws \in {"paired", "unpaired"}, rec \in [Buds -> Records] :
          /\ bud = [b \in Buds |-> dual_conn_page_devices_init(Blank(tws), rec[b])]
          /\ queue = [b \in Buds |-> <<bt_tws_poweron(tws)>>]
          /\ acl = [b \in Buds |-> {}] /\ net = [b \in Buds |-> <<>>]
  BY DEF Init
<1>2. /\ Blank(tws) \in Bud /\ Blank(tws).tws = tws /\ Blank(tws).role = "master"
      /\ Blank(tws).conn = {}
  BY BlankGood, GoodBud DEF Blank
<1>3. \A b \in Buds : ~Linked(bud[b]) /\ ~Slave(bud[b]) /\ bud[b].conn = {}
  BY <1>1, <1>2, InitSame DEF Same, Linked, Slave
<1>4. ASSUME NEW b \in Buds PROVE Tidy(bud[b], queue[b])
  <2> DEFINE m == bt_tws_poweron(tws)
             q == <<m>>
  <2>1. queue[b] = q /\ m \notin Switches
    BY <1>1 DEF bt_tws_poweron, App, Switches
  <2> HIDE DEF m
  <2>2. DOMAIN q = {1} /\ q[1] = m
    OBVIOUS
  <2> HIDE DEF q
  <2>3. Clean(q, Switches)
    BY <2>1, <2>2 DEF Clean
  <2>4. QED
    BY <1>3, <2>1, <2>3, BareTidy
<1>5. \A b \in Buds : Cardinality(bud[b].conn \cup acl[b]) <= 2
  <2>1. \A b \in Buds : bud[b].conn \cup acl[b] = {}
    BY <1>1, <1>3
  <2>2. QED
    BY <2>1, FS_EmptySet
<1>6. QED
  BY <1>1, <1>3, <1>4, <1>5 DEF TidyInv, Pairing, BudTidy

LEMMA TidyEnvironment ==
    ASSUME IInv, TidyInv, "role_switch" \notin Faults, Environment PROVE TidyInv'
BY TidyLink, TidyUp, TidyDown, TidyPageFails, TidyTwsLink, TidyTwsDetach, TidyUserMsg,
   TidyUser, TidyClose, TidyModeInit DEF Environment, RoleSwitch

LEMMA NextTidy ==
    ASSUME "role_switch" \notin Faults
    PROVE  IInv /\ TidyInv /\ Prompt /\ [Next]_vars => TidyInv'
<1> SUFFICES ASSUME IInv, TidyInv, Prompt, [Next]_vars PROVE TidyInv'
  OBVIOUS
<1>1. CASE UNCHANGED vars
  BY <1>1 DEF vars, TidyInv, BudTidy, Pairing, HasPhone, Tidy, Shut, Gone, Both, Closed,
              connect_dev, OnlyLost, Slave, Linked
<1>2. CASE Next
  BY <1>2, TidyHandle, TidyClock, TidyEnvironment DEF Next
<1>3. QED
  BY <1>1, <1>2

LEMMA TidySettled == TidyInv => FullThenClosed /\ (OnlyLost => ListedNotConnected)
<1> SUFFICES ASSUME TidyInv, Settled, NEW b \in Buds
             PROVE  /\ connect_dev(bud[b]) = 2 => bud[b].scan = "off"
                    /\ OnlyLost => Listed(b) \cap bud[b].conn = {}
  BY DEF FullThenClosed, ListedNotConnected
<1>1. Tidy(bud[b], <<>>)
  BY DEF Settled, TidyInv, BudTidy
<1>2. \A G, B : ~Mended(<<>>, G, B)
  BY DEF Mended
<1>3. QED
  BY <1>1, <1>2 DEF Tidy, Shut, Gone, Both, Closed, Listed

\* Where the news of a link is handled before the next link: there is none, or it is never lost,
\* or its loss finds the task with one message at most, and the next link with one at most.
PromptLink == ~HasSibling \/ MaxQueue <= 2 \/ Faults \cap DetachReason = {}

(***************************************************************************)
(* A bud with the news that it is the master of a new link is that master, *)
(* or the link is gone, the news is the next to be handled and that of the *)
(* loss follows.                                                           *)
(***************************************************************************)
Masters == {m \in GoodMessage : NewMaster(m)}
Late(q) == Len(q) >= 2 /\ \A i \in DOMAIN q : i > 1 => q[i] \notin Masters
Timely(b) ==
    /\ (Linked(bud[b]) => HasSibling) /\ (Slave(bud[b]) => Linked(bud[b]))
    /\ \/ Clean(queue[b], Masters)
       \/ Linked(bud[b]) /\ ~Slave(bud[b])
       \/ MaxQueue <= 2 /\ ~Linked(bud[b]) /\ Late(queue[b])
TimelyInv == \A b \in Buds : Timely(b)

\* A step without a change of roles or links, and without such news.
NoMaster ==
    \A c \in Buds : /\ bud'[c].role = bud[c].role /\ bud'[c].tws = bud[c].tws
                    /\ Clean(queue[c], Masters) => Clean(queue'[c], Masters)
                    /\ Late(queue[c]) => Late(queue'[c]) \/ Clean(queue'[c], Masters)

LEMMA LateAppend ==
    ASSUME NEW q \in Seq(GoodMessage), NEW m \in GoodMessage, m \notin Masters, Late(q)
    PROVE  Late(Append(q, m))
<1> DEFINE n == Len(q)
           w == Append(q, m)
<1>1. /\ n \in Nat /\ DOMAIN q = 1..n /\ DOMAIN w = 1..(n + 1)
      /\ \A k \in 1..n : k \in 1..(n + 1) /\ w[k] = q[k]
      /\ n + 1 \in 1..(n + 1) /\ w[n + 1] = m
  BY AppendIndex
<1>2. Len(w) = n + 1
  BY AppendProperties
<1>3. n >= 2 /\ \A i \in DOMAIN q : i > 1 => q[i] \notin Masters
  BY DEF Late
<1> HIDE DEF n, w
<1>4. \A k \in 1..(n + 1) : k \in 1..n \/ k = n + 1
  BY <1>1
<1>5. \A i \in DOMAIN w : i > 1 => w[i] \notin Masters
  BY <1>1, <1>3, <1>4
<1>6. QED
  BY <1>1, <1>2, <1>3, <1>5 DEF Late, w

LEMMA LateTail ==
    ASSUME NEW q \in Seq(GoodMessage), q # <<>>, Late(q) PROVE Clean(Tail(q), Masters)
<1> DEFINE w == Tail(q)
           n == Len(q)
<1>1. /\ n \in Nat /\ DOMAIN q = 1..n /\ Len(w) = n - 1 /\ DOMAIN w = 1..(n - 1)
      /\ \A k \in 1..(n - 1) : w[k] = q[k + 1]
  BY LenProperties, HeadTailProperties
<1>2. \A i \in DOMAIN q : i > 1 => q[i] \notin Masters
  BY DEF Late
<1> HIDE DEF n, w
<1>3. \A k \in 1..(n - 1) : k + 1 \in 1..n /\ k + 1 > 1
  BY <1>1
<1>4. \A k \in DOMAIN w : w[k] \notin Masters
  BY <1>1, <1>2, <1>3
<1>5. QED
  BY <1>4 DEF Clean, w

LEMMA TimelySame == ASSUME TimelyInv, NoMaster PROVE TimelyInv'
BY DEF TimelyInv, Timely, NoMaster, Linked, Slave, HasSibling

LEMMA MasterHandled ==
    ASSUME IInv, NEW b \in Buds, queue[b] # <<>>, NEW t, Same(bud[b], t), Handled(b, t)
    PROVE  NoMaster
<1>1. \A c \in Buds : /\ bud'[c] = IF c = b THEN t ELSE bud[c]
                      /\ queue'[c] = IF c = b THEN Tail(queue[b]) ELSE queue[c]
  BY DEF Handled, IInv
<1>2. Clean(queue[b], Masters) => Clean(Tail(queue[b]), Masters)
  BY QueueSeq, MendTail
<1>3. Late(queue[b]) => Clean(Tail(queue[b]), Masters)
  BY QueueSeq, LateTail
<1>4. t.role = bud[b].role /\ t.tws = bud[b].tws
  BY DEF Same
<1>5. QED
  BY <1>1, <1>2, <1>3, <1>4 DEF NoMaster

LEMMA MasterPosted ==
    ASSUME IInv, NEW b \in Buds, NEW t, t.role = bud[b].role, t.tws = bud[b].tws,
           bud' = [bud EXCEPT ![b] = t],
           NEW m \in GoodMessage, m.kind # "tws",
           \A c \in Buds : queue'[c] = queue[c] \/ queue'[c] = Append(queue[c], m)
    PROVE  NoMaster
<1>1. \A c \in Buds : bud'[c].role = bud[c].role /\ bud'[c].tws = bud[c].tws
  BY DEF IInv
<1>2. m \notin Masters
  BY DEF Masters, NewMaster
<1>3. ASSUME NEW c \in Buds, Clean(queue[c], Masters)
      PROVE  Clean(Append(queue[c], m), Masters)
  BY <1>2, <1>3, QueueSeq, MendAppend
<1>4. ASSUME NEW c \in Buds, Late(queue[c]) PROVE Late(Append(queue[c], m))
  BY <1>2, <1>4, QueueSeq, LateAppend
<1>5. QED
  BY <1>1, <1>3, <1>4 DEF NoMaster

LEMMA MasterBud ==
    ASSUME IInv, NEW b \in Buds, NEW t, Same(bud[b], t),
           bud' = [bud EXCEPT ![b] = t], queue' = queue
    PROVE  NoMaster
BY DEF NoMaster, Same, IInv

LEMMA MasterHandle == ASSUME IInv, NEW b \in Buds, HandleMessage(b) PROVE NoMaster
<1> DEFINE m == Head(queue[b])
           s == bud[b]
<1>1. Good(s) /\ s \in Bud
  BY BudGood
<1>2. CASE HandlePhone(b)
  <2> DEFINE t == IF m.nth = 1 THEN FirstConnected(s, m.addr) ELSE SecondConnected(s, m.addr)
  <2>1. Waiting(b, "phone") /\ Handled(b, t)
    BY <1>2 DEF HandlePhone
  <2>2. queue[b] # <<>> /\ m.kind = "phone" /\ m.addr \in Phones
    BY <2>1, WaitingHead DEF Message
  <2>3. Same(s, t)
    BY <1>1, <2>2, CalmFirst, CalmSecond DEF Calm
  <2> HIDE DEF t
  <2>4. QED
    BY <2>1, <2>2, <2>3, MasterHandled
<1>3. CASE HandleHci(b)
  <2> DEFINE t == dual_conn_hci_event_handler(s, m.ev, m.addr)
  <2>1. Waiting(b, "hci") /\ Handled(b, t)
    BY <1>3 DEF HandleHci
  <2>2. queue[b] # <<>> /\ m.kind = "hci" /\ m.addr \in Phones
    BY <2>1, WaitingHead DEF Message
  <2>3. Same(s, t)
    BY <1>1, <2>2, CalmHci DEF Calm
  <2> HIDE DEF t
  <2>4. QED
    BY <2>1, <2>2, <2>3, MasterHandled
<1>4. CASE HandleConnected(b)
  <2> DEFINE t == TwsConnected(s, m.role)
  <2>1. Waiting(b, "tws") /\ Handled(b, t)
    BY <1>4 DEF HandleConnected
  <2>2. queue[b] # <<>>
    BY <2>1, WaitingHead
  <2>3. Same(s, t)
    BY <1>1, SameConnected
  <2> HIDE DEF t
  <2>4. QED
    BY <2>1, <2>2, <2>3, MasterHandled
<1>5. CASE HandleDetach(b)
  <2> DEFINE t == TwsDetached(s, m.role, m.reason)
  <2>1. Waiting(b, "tws") /\ Handled(b, t)
    BY <1>5 DEF HandleDetach
  <2>2. queue[b] # <<>>
    BY <2>1, WaitingHead
  <2>3. Same(s, t)
    BY <1>1, SameDetached
  <2> HIDE DEF t
  <2>4. QED
    BY <2>1, <2>2, <2>3, MasterHandled
<1>6. CASE HandleSwitch(b)
  <2> DEFINE t == RoleSwitched(s, m.role)
  <2>1. Waiting(b, "tws") /\ Handled(b, t)
    BY <1>6 DEF HandleSwitch
  <2>2. queue[b] # <<>>
    BY <2>1, WaitingHead
  <2>3. Same(s, t)
    BY <1>1, SameSwitched
  <2> HIDE DEF t
  <2>4. QED
    BY <2>1, <2>2, <2>3, MasterHandled
<1>7. CASE HandleData(b)
  <2> DEFINE t == rx_device_info(s, m.info)
  <2>1. Waiting(b, "data") /\ Handled(b, t)
    BY <1>7 DEF HandleData
  <2>2. queue[b] # <<>> /\ m.kind = "data" /\ OnceEach(m.info)
    BY <2>1, WaitingHead DEF GoodMessage
  <2>3. Same(s, t)
    BY <1>1, <2>2, CalmRx DEF Calm
  <2> HIDE DEF t
  <2>4. QED
    BY <2>1, <2>2, <2>3, MasterHandled
<1>8. CASE HandleApp(b)
  <2> DEFINE t == dual_conn_app_event_handler(s, m.msg)
  <2>1. Waiting(b, "app") /\ Handled(b, t)
    BY <1>8 DEF HandleApp
  <2>2. queue[b] # <<>>
    BY <2>1, WaitingHead
  <2>3. Same(s, t)
    BY <1>1, CalmApp DEF Calm
  <2> HIDE DEF t
  <2>4. QED
    BY <2>1, <2>2, <2>3, MasterHandled
<1>9. CASE HandleStartProc(b)
  <2> DEFINE w == App(IF s.tws = "unpaired" THEN "unpaired" ELSE "paired")
             q == queue[b]
  <2>1. /\ Waiting(b, "app") /\ bud' = bud
        /\ queue' = [queue EXCEPT ![b] = Append(Tail(queue[b]), w)]
    BY <1>9 DEF HandleStartProc
  <2>2. q # <<>> /\ q \in Seq(GoodMessage) /\ Tail(q) \in Seq(GoodMessage)
    BY <2>1, WaitingHead, QueueHead, QueueSeq
  <2>3. w \in GoodMessage /\ w \notin Masters
    BY GoodMessages, NoNewsKinds DEF AppMsgs, Masters, NewMaster
  <2> HIDE DEF w
  <2>4. \A c \in Buds : /\ bud'[c] = bud[c]
                        /\ queue'[c] = IF c = b THEN Append(Tail(q), w) ELSE queue[c]
    BY <2>1 DEF IInv
  <2> HIDE DEF q
  <2>5. Clean(q, Masters) \/ Late(q) => Clean(Tail(q), Masters)
    BY <2>2, MendTail, LateTail
  <2>6. Clean(q, Masters) \/ Late(q) => Clean(Append(Tail(q), w), Masters)
    BY <2>2, <2>3, <2>5, MendAppend
  <2>7. QED
    BY <2>4, <2>6 DEF NoMaster, q
<1>10. CASE HandlePageDevice(b)
  <2>1. queue[b] # <<>>
    BY <1>10, WaitingHead DEF HandlePageDevice
  <2>2. PICK t : Same(s, t) /\ Handled(b, t)
    <3>1. CASE connect_dev(s) + Len(s.list) >= 2
      <4>1. Handled(b, s)
        BY <1>10, <3>1 DEF HandlePageDevice
      <4>2. QED
        BY <4>1, <1>1, CalmSelf DEF Calm
    <3>2. CASE ~(connect_dev(s) + Len(s.list) >= 2)
      <4>1. PICK added \in UNION {[1..n -> Phones] : n \in 0..3} :
                /\ PageDeviceLoop(s, added)
                /\ Handled(b, page_device_msg_handler(s, added))
        BY <1>10, <3>2 DEF HandlePageDevice
      <4>2. /\ added \in Seq(Phones) /\ Len(s.list) < 2
            /\ \A i, j \in DOMAIN added : added[i] = added[j] => i = j
        BY <4>1, <3>2, <1>1, LoopFacts
      <4>3. Calm(s, page_device_msg_handler(s, added))
        BY <4>2, <1>1, CalmPageMsg
      <4>4. QED
        BY <4>1, <4>3 DEF Calm
    <3>3. QED
      BY <3>1, <3>2
  <2>3. QED
    BY <2>1, <2>2, MasterHandled
<1>11. QED
  BY <1>2, <1>3, <1>4, <1>5, <1>6, <1>7, <1>8, <1>9, <1>10 DEF HandleMessage

LEMMA MasterClock == ASSUME IInv, NEW b \in Buds, Clock(b) PROVE NoMaster
<1> DEFINE s == bud[b]
<1>1. Good(s) /\ s \in Bud
  BY BudGood
<1>2. CASE Timeout(b)
  <2>1. Same(s, RunTimer(s))
    BY <1>1, CalmRunTimer DEF Calm
  <2>2. bud' = [bud EXCEPT ![b] = RunTimer(s)] /\ queue' = queue
    BY <1>2 DEF Timeout
  <2>3. QED
    BY <2>1, <2>2, MasterBud
<1>3. CASE OrphanTimeout(b)
  <2>1. PICK cb : bud' = [bud EXCEPT ![b] = RunOrphan(s, cb)]
    BY <1>3 DEF OrphanTimeout
  <2>2. Same(s, RunOrphan(s, cb)) /\ queue' = queue
    BY <1>1, <1>3, CalmRunOrphan DEF OrphanTimeout, Calm
  <2>3. QED
    BY <2>1, <2>2, MasterBud
<1>4. CASE InquiryTimeout(b)
  <2> DEFINE c == close_inquiry_scan(s)
             t == [c EXCEPT !.inquiry = FALSE,
                            !.orphans = IF s.inquiry THEN @ ELSE @ \ {"inquiry"}]
  <2>1. bud' = [bud EXCEPT ![b] = t] /\ queue' = queue
    BY <1>4 DEF InquiryTimeout
  <2>2. Same(s, c) /\ c \in Bud
    BY <1>1, CalmCloseInquiry DEF Calm
  <2> HIDE DEF c
  <2>3. t.role = s.role /\ t.tws = s.tws
    BY <2>2 DEF Bud, Same
  <2> HIDE DEF t
  <2>4. QED
    BY <2>1, <2>3 DEF NoMaster, IInv
<1>5. CASE Receive(b)
  <2>1. Post(b, Data(Head(net[b]))) /\ bud' = bud /\ net[b] # <<>>
    BY <1>5 DEF Receive
  <2>2. Data(Head(net[b])) \in GoodMessage
    BY <2>1, GoodMessages, HeadTailProperties DEF IInv
  <2>3. bud' = [bud EXCEPT ![b] = s]
    BY <2>1 DEF IInv
  <2>4. QED
    BY <2>1, <2>2, <2>3, MasterPosted, PostedOne, NoNewsKinds
<1>6. ASSUME NEW p \in Phones, PageTimeout(b, p) PROVE NoMaster
  <2>1. p \in s.ptimers /\ queue' = queue
        /\ bud' = [bud EXCEPT ![b] = dual_conn_page_device_timeout(s, p)]
    BY <1>6 DEF PageTimeout
  <2>2. Same(s, dual_conn_page_device_timeout(s, p))
    BY <1>1, <2>1, CalmPageTimeout DEF Calm
  <2>3. QED
    BY <2>1, <2>2, MasterBud
<1>7. ASSUME NEW p \in Phones, Elapse(b, p) PROVE NoMaster
  <2>1. PICK i \in DOMAIN s.list :
            bud' = [bud EXCEPT ![b] = [s EXCEPT !.list[i].late = TRUE]]
    BY <1>7 DEF Elapse, IInv
  <2> DEFINE t == [s EXCEPT !.list[i].late = TRUE]
  <2>2. t.role = s.role /\ t.tws = s.tws
    BY <1>1 DEF Bud
  <2>3. queue' = queue
    BY <1>7 DEF Elapse
  <2> HIDE DEF t
  <2>4. QED
    BY <2>1, <2>2, <2>3 DEF NoMaster, IInv, t
<1>8. QED
  BY <1>2, <1>3, <1>4, <1>5, <1>6, <1>7 DEF Clock

LEMMA MasterPhones ==
    ASSUME IInv, NEW b \in Buds, NEW p \in Phones,
           \/ PhoneLink(b, p) \/ PhoneUp(b, p)
           \/ \E ev \in {"lost", "gone"} : PhoneDown(b, p, ev)
    PROVE  NoMaster
<1> DEFINE s == bud[b]
<1>1. s \in Bud
  BY BudGood
<1>2. \A x : /\ [s EXCEPT !.page = x].role = s.role /\ [s EXCEPT !.page = x].tws = s.tws
             /\ [s EXCEPT !.conn = x].role = s.role /\ [s EXCEPT !.conn = x].tws = s.tws
  BY <1>1 DEF Bud
<1>3. PICK t, m : /\ bud' = [bud EXCEPT ![b] = t] /\ PostAll(Peers(b), m)
                  /\ t.role = s.role /\ t.tws = s.tws /\ m \in GoodMessage /\ m.kind # "tws"
  <2>1. CASE PhoneLink(b, p)
    <3> DEFINE x == IF s.page = p THEN NoPhone ELSE s.page
    <3>1. /\ bud' = [bud EXCEPT ![b] = [s EXCEPT !.page = x]]
          /\ PostAll(Peers(b), Hci("ok", p))
      BY <2>1 DEF PhoneLink
    <3> HIDE DEF x
    <3>2. Hci("ok", p) \in GoodMessage /\ Hci("ok", p).kind # "tws"
      BY GoodMessages, NoNewsKinds DEF HciEvents
    <3>3. QED
      BY <3>1, <3>2, <1>2
  <2>2. CASE PhoneUp(b, p)
    <3> DEFINE n == IF s.conn = {} THEN 1 ELSE 2
               x == s.conn \cup {p}
    <3>1. /\ bud' = [bud EXCEPT ![b] = [s EXCEPT !.conn = x]]
          /\ PostAll(Peers(b), PhoneEvent(n, p))
      BY <2>2 DEF PhoneUp
    <3> HIDE DEF x
    <3>2. PhoneEvent(n, p) \in GoodMessage /\ PhoneEvent(n, p).kind # "tws"
      BY GoodMessages, NoNewsKinds
    <3> HIDE DEF n
    <3>3. QED
      BY <3>1, <3>2, <1>2
  <2>3. ASSUME NEW ev \in {"lost", "gone"}, PhoneDown(b, p, ev)
        PROVE  \E t, m : /\ bud' = [bud EXCEPT ![b] = t] /\ PostAll(Peers(b), m)
                         /\ t.role = s.role /\ t.tws = s.tws
                         /\ m \in GoodMessage /\ m.kind # "tws"
    <3> DEFINE x == s.conn \ {p}
    <3>1. /\ bud' = [bud EXCEPT ![b] = [s EXCEPT !.conn = x]]
          /\ PostAll(Peers(b), Hci(ev, p))
      BY <2>3 DEF PhoneDown
    <3> HIDE DEF x
    <3>2. Hci(ev, p) \in GoodMessage /\ Hci(ev, p).kind # "tws"
      BY GoodMessages, NoNewsKinds DEF HciEvents
    <3>3. QED
      BY <3>1, <3>2, <1>2
  <2>4. QED
    BY <2>1, <2>2, <2>3
<1> HIDE DEF s
<1>4. QED
  BY <1>3, MasterPosted, PostedAll DEF s

LEMMA MasterPageFails ==
    ASSUME IInv, NEW b \in Buds, NEW ev \in {"lost", "gone", "rejected"}, PageFails(b, ev)
    PROVE  NoMaster
<1> DEFINE t == [bud[b] EXCEPT !.page = NoPhone]
           m == Hci(ev, bud[b].page)
<1>1. bud[b].page # NoPhone /\ bud' = [bud EXCEPT ![b] = t] /\ Post(b, m)
  BY DEF PageFails
<1>2. t.role = bud[b].role /\ t.tws = bud[b].tws
  BY BudGood DEF Bud
<1> HIDE DEF t
<1>3. m \in GoodMessage /\ m.kind # "tws"
  <2>1. bud[b].page \in Phones
    BY <1>1, BudGood DEF Bud
  <2>2. QED
    BY <2>1, GoodMessages, NoNewsKinds DEF HciEvents
<1> HIDE DEF m
<1>4. QED
  BY <1>1, <1>2, <1>3, MasterPosted, PostedOne

LEMMA MasterClose ==
    ASSUME IInv, NEW b \in Buds, SoftPoweroff(b) \/ ModeExit(b) PROVE NoMaster
<1> DEFINE x == [bud[b] EXCEPT !.off = TRUE]
           y == [bud[b] EXCEPT !.exit = TRUE]
           s == tws_dual_conn_close(x)
           t == tws_dual_conn_close(y)
<1>1. Good(x) /\ Good(y) /\ bud[b] \in Bud
  BY BudGood, GoodOutside
<1>2. x.role = bud[b].role /\ x.tws = bud[b].tws /\ y.role = bud[b].role /\ y.tws = bud[b].tws
  BY <1>1 DEF Bud
<1>3. (bud' = [bud EXCEPT ![b] = s] \/ bud' = [bud EXCEPT ![b] = t]) /\ queue' = queue
  BY DEF SoftPoweroff, ModeExit
<1> HIDE DEF x, y
<1>4. s.role = bud[b].role /\ s.tws = bud[b].tws /\ t.role = bud[b].role /\ t.tws = bud[b].tws
  BY <1>1, <1>2, CloseFields DEF Same
<1> HIDE DEF s, t
<1>5. QED
  BY <1>3, <1>4 DEF NoMaster, IInv

LEMMA MasterModeInit == ASSUME IInv, NEW b \in Buds, ModeInit(b) PROVE NoMaster
<1> DEFINE w == [bud[b] EXCEPT !.exit = FALSE]
           u == [w EXCEPT !.switch = TRUE]
           m == bt_tws_poweron(bud[b].tws)
<1>1. PICK rec \in Records :
          bud' = [bud EXCEPT ![b] = dual_conn_page_devices_init(u, rec)]
  BY DEF ModeInit
<1>2. u \in Bud /\ u.role = bud[b].role /\ u.tws = bud[b].tws
  <2>1. w \in Bud /\ w.role = bud[b].role /\ w.tws = bud[b].tws
    BY BudGood DEF Bud
  <2> HIDE DEF w
  <2>2. QED
    BY <2>1 DEF Bud
<1> HIDE DEF u
<1> DEFINE t == dual_conn_page_devices_init(u, rec)
<1>3. t.role = bud[b].role /\ t.tws = bud[b].tws
  BY <1>2, InitFields
<1>4. bud' = [bud EXCEPT ![b] = t]
  BY <1>1
<1> HIDE DEF t
<1>5. m \in GoodMessage /\ m.kind # "tws"
  BY PowerOnMessage, NoNewsKinds DEF bt_tws_poweron
<1>6. Post(b, m)
  BY DEF ModeInit
<1> HIDE DEF m
<1>7. QED
  BY <1>3, <1>4, <1>5, <1>6, MasterPosted, PostedOne

LEMMA MasterUser ==
    ASSUME IInv, NEW b \in Buds, UserMsg(b) \/ Refresh(b) \/ Esco(b) PROVE NoMaster
<1> DEFINE s == bud[b]
<1>1. s \in Bud
  BY BudGood
<1>2. CASE UserMsg(b)
  <2>1. PICK m \in AppMsgs \cup {"start_proc", "page_device"} : Post(b, App(m))
    BY <1>2 DEF UserMsg
  <2>2. App(m) \in GoodMessage
    BY GoodMessages
  <2>3. bud' = [bud EXCEPT ![b] = s]
    BY <1>2 DEF UserMsg, IInv
  <2>4. QED
    BY <2>1, <2>2, <2>3, MasterPosted, PostedOne, NoNewsKinds
<1>3. CASE Refresh(b)
  <2>1. bud' = [bud EXCEPT ![b] = tws_dual_conn_state_handler(s)] /\ queue' = queue
    BY <1>3 DEF Refresh
  <2>2. Same(s, tws_dual_conn_state_handler(s))
    BY <1>1, CalmStateHandler DEF Calm
  <2>3. QED
    BY <2>1, <2>2, MasterBud
<1>4. CASE Esco(b)
  <2> DEFINE x == [s EXCEPT !.esco = ~s.esco]
             t == IF x.off /\ ~x.esco THEN x ELSE tws_page_scan_deal_by_esco(x)
  <2>1. bud' = [bud EXCEPT ![b] = t] /\ queue' = queue
    BY <1>4 DEF Esco
  <2>2. x \in Bud /\ Calm(s, x)
    <3>1. (~s.esco) \in BOOLEAN
      BY <1>1 DEF Bud
    <3>2. QED
      BY <1>1, <3>1, CalmOutside DEF Calm
  <2> HIDE DEF x
  <2>3. Calm(s, t)
    BY <2>2, CalmEsco, CalmTrans
  <2> HIDE DEF t
  <2>4. QED
    BY <2>1, <2>3, MasterBud DEF Calm
<1>5. QED
  BY <1>2, <1>3, <1>4

\* Of a new link there was none before, so no such news is left over.
LEMMA TimelyTwsLink ==
    ASSUME IInv, TimelyInv, PromptLink, NEW b \in Buds, TwsLink(b) PROVE TimelyInv'
<1> DEFINE role == [c \in Buds |-> IF c = b THEN "master" ELSE "slave"]
           f == [c \in Buds |-> [bud[c] EXCEPT !.tws = "linked", !.op = "idle",
                                               !.role = role[c]]]
           g == [c \in Buds |-> Tws("connected", role[c], "other")]
<1>1. /\ bud' = [c \in Buds |-> f[c]] /\ HasSibling
      /\ queue' = [c \in Buds |-> Append(queue[c], g[c])]
      /\ \A c \in Buds : ~Linked(bud[c]) /\ Room(c)
  BY DEF TwsLink
<1>2. \A c \in Buds : /\ role[c] \in Role /\ bud[c] \in Bud
                      /\ role[c] = IF c = b THEN "master" ELSE "slave"
  BY BudGood DEF Role
<1> HIDE DEF role
<1>3. \A c \in Buds : f[c].role = role[c] /\ f[c].tws = "linked"
  BY <1>2 DEF Bud
<1>4. \A c \in Buds : g[c] \in GoodMessage
  BY <1>2, GoodMessages DEF DetachReason
<1>5. \A c \in Buds : g[c].role = role[c]
  BY DEF Tws
<1> HIDE DEF f, g
<1>6. ASSUME NEW c \in Buds PROVE Timely(c)'
  <2>1. /\ bud'[c] = f[c] /\ queue'[c] = Append(queue[c], g[c]) /\ HasSibling'
    BY <1>1 DEF HasSibling
  <2>2. CASE c = b
    BY <2>1, <2>2, <1>2, <1>3 DEF Timely, Linked, Slave
  <2>3. CASE c # b
    <3>1. g[c] \notin Masters
      BY <2>3, <1>2, <1>5 DEF Masters, NewMaster
    <3>2. Clean(queue[c], Masters)
      <4>1. Room(c) /\ Len(queue[c]) \in Nat /\ MaxQueue \in Nat
        BY <1>1, QueueSeq, LenProperties, EnabledAssumption
      <4>2. ~(MaxQueue <= 2 /\ Late(queue[c]))
        BY <4>1 DEF Room, Late
      <4>3. QED
        BY <1>1, <4>2 DEF TimelyInv, Timely
    <3>3. Clean(Append(queue[c], g[c]), Masters)
      BY <3>1, <3>2, <1>4, QueueSeq, MendAppend
    <3>4. QED
      BY <2>1, <3>3, <1>3 DEF Timely, Linked
  <2>4. QED
    BY <2>2, <2>3
<1>7. QED
  BY <1>6 DEF TimelyInv

\* A link is lost where the news of it was handled.
LEMMA TimelyTwsDetach ==
    ASSUME IInv, TimelyInv, PromptLink, NEW reason \in DetachReason, TwsDetach(reason)
    PROVE  TimelyInv'
<1> DEFINE x == IF reason = "remove_pairs" THEN "unpaired" ELSE "paired"
           f == [c \in Buds |-> [bud[c] EXCEPT !.role = "master", !.tws = x]]
           g == [c \in Buds |-> Tws("detach", bud[c].role, reason)]
<1>1. /\ bud' = [c \in Buds |-> f[c]]
      /\ queue' = [c \in Buds |-> Append(queue[c], g[c])]
      /\ \A c \in Buds : Linked(bud[c]) /\ Room(c)
      /\ reason \in Faults
  BY DEF TwsDetach
<1>2. \A c \in Buds : bud[c] \in Bud /\ bud[c].role \in Role
  BY BudGood DEF Bud
<1>3. x # "linked"
  OBVIOUS
<1> HIDE DEF x
<1>4. \A c \in Buds : f[c].tws = x /\ f[c].role = "master"
  BY <1>2 DEF Bud
<1>5. \A c \in Buds : g[c] \in GoodMessage
  BY <1>2, GoodMessages
<1>6. \A c \in Buds : g[c] \notin Masters
  BY DEF Tws, Masters, NewMaster
<1> HIDE DEF f, g
<1>7. ASSUME NEW c \in Buds PROVE Timely(c)'
  <2>1. bud'[c] = f[c] /\ queue'[c] = Append(queue[c], g[c]) /\ ~Linked(f[c]) /\ ~Slave(f[c])
    BY <1>1, <1>3, <1>4 DEF Linked, Slave
  <2>2. HasSibling /\ MaxQueue <= 2
    BY <1>1 DEF PromptLink, TimelyInv, Timely
  <2> DEFINE q == queue[c]
             m == g[c]
             w == Append(q, m)
  <2>3. q \in Seq(GoodMessage) /\ m \in GoodMessage /\ m \notin Masters
    BY <1>5, <1>6, QueueSeq
  <2>4. Len(q) \in Nat /\ Len(q) <= 1
    BY <2>2, <2>3, <1>1, LenProperties, EnabledAssumption DEF Room
  <2> HIDE DEF q, m
  <2>5. CASE Clean(q, Masters)
    <3>1. Clean(w, Masters)
      BY <2>3, <2>5, MendAppend
    <3>2. QED
      BY <2>1, <3>1 DEF Timely, q, m
  <2>6. CASE ~Clean(q, Masters)
    <3> DEFINE n == Len(q)
    <3>1. /\ DOMAIN q = 1..n /\ DOMAIN w = 1..(n + 1) /\ w[n + 1] = m
          /\ Len(w) = n + 1
      BY <2>3, AppendIndex, AppendProperties
    <3>2. n # 0
      <4>1. PICK i \in DOMAIN q : q[i] \in Masters
        BY <2>6 DEF Clean
      <4>2. QED
        BY <3>1, <4>1
    <3>3. n = 1
      BY <2>4, <3>2
    <3> HIDE DEF n, w
    <3>4. Len(w) = 2 /\ DOMAIN w = 1..2 /\ w[2] = m
      BY <3>1, <3>3
    <3>5. \A k \in 1..2 : k > 1 => k = 2
      OBVIOUS
    <3>6. Late(w)
      BY <2>3, <3>4, <3>5 DEF Late
    <3>7. QED
      BY <2>1, <2>2, <3>6 DEF Timely, Linked, q, m, w
  <2>7. QED
    BY <2>5, <2>6
<1>8. QED
  BY <1>7 DEF TimelyInv

LEMMA InitTimely == Init => TimelyInv
<1> SUFFICES ASSUME Init, NEW b \in Buds PROVE Timely(b)
  BY DEF TimelyInv
<1>1. PICK tws \in {"paired", "unpaired"}, rec \in [Buds -> Records] :
          /\ bud[b] = dual_conn_page_devices_init(Blank(tws), rec[b])
          /\ queue[b] = <<bt_tws_poweron(tws)>>
  BY DEF Init
<1>2. Blank(tws) \in Bud /\ Blank(tws).tws = tws /\ Blank(tws).role = "master"
  BY BlankGood, GoodBud DEF Blank
<1>3. ~Linked(bud[b]) /\ ~Slave(bud[b])
  BY <1>1, <1>2, InitFields DEF Linked, Slave
<1>4. Clean(queue[b], Masters)
  BY <1>1, NoNewsKinds DEF Clean, Masters, NewMaster, bt_tws_poweron
<1>5. QED
  BY <1>3, <1>4 DEF Timely

LEMMA NextTimely ==
    ASSUME "role_switch" \notin Faults, PromptLink
    PROVE  IInv /\ TimelyInv /\ [Next]_vars => TimelyInv'
<1> SUFFICES ASSUME IInv, TimelyInv, [Next]_vars PROVE TimelyInv'
  OBVIOUS
<1>1. CASE UNCHANGED vars
  BY <1>1 DEF vars, TimelyInv, Timely, HasSibling
<1>2. CASE \E b \in Buds : HandleMessage(b) \/ Clock(b)
  BY <1>2, MasterHandle, MasterClock, TimelySame
<1>3. CASE Environment
  BY <1>3, MasterPhones, MasterPageFails, MasterUser, MasterClose, MasterModeInit,
     TimelyTwsLink, TimelyTwsDetach, TimelySame DEF Environment, RoleSwitch
<1>4. QED
  BY <1>1, <1>2, <1>3 DEF Next

LEMMA TimelyPrompt == IInv /\ TimelyInv => Prompt
<1> SUFFICES ASSUME IInv, TimelyInv, NEW b \in Buds, Slave(bud[b]), NEW i \in DOMAIN queue[b]
             PROVE  ~NewMaster(queue[b][i])
  BY DEF Prompt
<1>1. Clean(queue[b], Masters)
  BY DEF TimelyInv, Timely
<1>2. queue[b][i] \in GoodMessage
  BY QueueSeq, LenProperties, ElementOfSeq
<1>3. QED
  BY <1>1, <1>2 DEF Clean, Masters

\* Where the roles are never swapped on a link, and no link is lost before its news is
\* handled, a slave never finds the news of its time as a master in its queue
\* (tws_dual_conn.c:1025-1051, APP_MSG_TWS_CONNECTED).
THEOREM NewsIsPrompt ==
    ASSUME "role_switch" \notin Faults, PromptLink PROVE Spec => []Prompt
<1>1. Init => IInv /\ TimelyInv
  BY InitIInv, InitTimely
<1>2. (IInv /\ TimelyInv) /\ [Next]_vars => (IInv /\ TimelyInv)'
  BY NextIInv, NextTimely
<1>3. QED
  BY <1>1, <1>2, TimelyPrompt, PTL DEF Spec

\* Two phones up and nothing on its way: no third can link up, the scans of a bud in charge
\* are off, through every order of links and losses, relays between the buds, page timers and
\* user requests.  The roles are not swapped on a link, and the news that a bud is the master
\* of a link is handled before it is the slave of the next.
THEOREM FullIsClosed ==
    ASSUME "role_switch" \notin Faults PROVE Spec /\ []Prompt => []FullThenClosed
<1>1. Init => IInv /\ TidyInv
  BY InitIInv, InitTidy
<1>2. (IInv /\ TidyInv) /\ Prompt /\ [Next]_vars => (IInv /\ TidyInv)'
  BY NextIInv, NextTidy
<1>3. IInv /\ TidyInv => FullThenClosed
  BY TidySettled
<1>4. QED
  BY <1>1, <1>2, <1>3, PTL DEF Spec

\* A phone that is connected is not in the list of devices to page, when nothing is on its
\* way.  Besides the above, no page is refused because the link exists and the user does not
\* ask for pages: both add to the list what the events handled so far do not know connected.
THEOREM ConnectedUnlisted ==
    ASSUME "role_switch" \notin Faults, OnlyLost
    PROVE  Spec /\ []Prompt => []ListedNotConnected
<1>1. Init => IInv /\ TidyInv
  BY InitIInv, InitTidy
<1>2. (IInv /\ TidyInv) /\ Prompt /\ [Next]_vars => (IInv /\ TidyInv)'
  BY NextIInv, NextTidy
<1>3. IInv /\ TidyInv => ListedNotConnected
  BY TidySettled
<1>4. QED
  BY <1>1, <1>2, <1>3, PTL DEF Spec

\* Both, of the constants alone.
THEOREM FullAlwaysClosed ==
    ASSUME "role_switch" \notin Faults, PromptLink PROVE Spec => []FullThenClosed
<1>1. Spec => []Prompt
  BY NewsIsPrompt
<1>2. Spec /\ []Prompt => []FullThenClosed
  BY FullIsClosed
<1>3. QED
  BY <1>1, <1>2, PTL

\* See FullAlwaysClosed and ConnectedUnlisted.
THEOREM ConnectedNeverListed ==
    ASSUME "role_switch" \notin Faults, PromptLink, OnlyLost
    PROVE  Spec => []ListedNotConnected
<1>1. Spec => []Prompt
  BY NewsIsPrompt
<1>2. Spec /\ []Prompt => []ListedNotConnected
  BY ConnectedUnlisted
<1>3. QED
  BY <1>1, <1>2, PTL
=============================================================================
