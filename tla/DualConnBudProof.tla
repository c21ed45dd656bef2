--------------------------- MODULE DualConnBudProof ---------------------------
(***************************************************************************)
(* Lemmas about the operators of DualConnBud: every C function keeps a     *)
(* bud well formed, and only the functions on the page list touch the list *)
(* and the page timers.                                                    *)
(***************************************************************************)
EXTENDS DualConnBud, SequenceTheorems, FiniteSetTheorems, TLAPS

\* t is a bud with the list and the page timers of s.
Keeps(s, t) == t \in Bud /\ t.list = s.list /\ t.ptimers = s.ptimers

(***************************************************************************)
(* One field at a time.                                                    *)
(***************************************************************************)

LEMMA KeepsSelf == ASSUME NEW s \in Bud PROVE Keeps(s, s)
BY DEF Keeps

LEMMA KeepsTrans ==
    ASSUME NEW s, NEW t, NEW u, Keeps(s, t), Keeps(t, u) PROVE Keeps(s, u)
BY DEF Keeps

LEMMA KeepsTimer ==
    ASSUME NEW s \in Bud, NEW h \in TimerHandle PROVE Keeps(s, [s EXCEPT !.timer = h])
BY DEF Keeps, Bud

LEMMA KeepsNum == ASSUME NEW s \in Bud, NEW n \in Nat PROVE Keeps(s, [s EXCEPT !.num = n])
BY DEF Keeps, Bud

LEMMA KeepsDisable ==
    ASSUME NEW s \in Bud, NEW n \in 0..2 PROVE Keeps(s, [s EXCEPT !.disable = n])
BY DEF Keeps, Bud

LEMMA KeepsSwitch ==
    ASSUME NEW s \in Bud, NEW v \in BOOLEAN PROVE Keeps(s, [s EXCEPT !.switch = v])
BY DEF Keeps, Bud

LEMMA KeepsOrphans ==
    ASSUME NEW s \in Bud, NEW x \in SUBSET (Callback \cup {"inquiry"})
    PROVE  Keeps(s, [s EXCEPT !.orphans = x])
BY DEF Keeps, Bud

LEMMA KeepsInquiry ==
    ASSUME NEW s \in Bud, NEW v \in BOOLEAN PROVE Keeps(s, [s EXCEPT !.inquiry = v])
BY DEF Keeps, Bud

LEMMA KeepsAddr ==
    ASSUME NEW s \in Bud, NEW a \in Phones \cup {NoPhone}
    PROVE  /\ Keeps(s, [s EXCEPT !.addr0 = a])
           /\ Keeps(s, [s EXCEPT !.addr1 = a])
           /\ Keeps(s, [s EXCEPT !.addr2 = a])
BY DEF Keeps, Bud

LEMMA KeepsScan ==
    ASSUME NEW s \in Bud, NEW m \in Scan PROVE Keeps(s, write_scan_conn_enable(s, m))
BY DEF Keeps, Bud, write_scan_conn_enable

LEMMA KeepsScans ==
    ASSUME NEW s \in Bud
    PROVE  /\ Keeps(s, write_scan_conn_enable(s, "off"))
           /\ Keeps(s, write_scan_conn_enable(s, "page"))
           /\ Keeps(s, write_scan_conn_enable(s, "both"))
BY KeepsScan DEF Scan

LEMMA KeepsPage ==
    ASSUME NEW s \in Bud
    PROVE  /\ Keeps(s, PageCancel(s))
           /\ \A p \in Phones : Keeps(s, StartPage(s, p))
BY DEF Keeps, Bud, PageCancel, StartPage

LEMMA KeepsOp ==
    ASSUME NEW s \in Bud
    PROVE  /\ Keeps(s, Seek(s))
           /\ Keeps(s, Listen(s))
           /\ Keeps(s, CancelSeek(s))
           /\ Keeps(s, CancelListen(s))
BY DEF Keeps, Bud, Seek, Listen, CancelSeek, CancelListen, PairOp

LEMMA KeepsDelTimer == ASSUME NEW s \in Bud PROVE Keeps(s, DelTimer(s))
BY KeepsTimer DEF DelTimer, TimerHandle

LEMMA KeepsOverwrite ==
    ASSUME NEW s \in Bud, NEW h \in TimerHandle PROVE Keeps(s, Overwrite(s, h))
BY DEF Keeps, Bud, Overwrite

LEMMA HeadPhone ==
    ASSUME NEW s \in Bud, ~page_list_empty(s)
    PROVE  Head(s.list) \in PageDevice /\ Head(s.list).addr \in Phones
<1>1. s.list \in Seq(PageDevice) /\ s.list # <<>>
  BY DEF Bud, page_list_empty
<1>2. Head(s.list) \in PageDevice
  BY <1>1, HeadTailProperties
<1>3. QED
  BY <1>2 DEF PageDevice

(***************************************************************************)
(* tws_dual_conn_state_handler.                                            *)
(***************************************************************************)

LEMMA KeepsOpenScan ==
    ASSUME NEW s \in Bud
    PROVE  /\ Keeps(s, dual_conn_try_open_inquiry_scan(s))
           /\ Keeps(s, dual_conn_try_open_inquiry_page_scan(s))
           /\ Keeps(s, OnePhoneScan(s))
BY KeepsScans, KeepsSelf
   DEF dual_conn_try_open_inquiry_scan, dual_conn_try_open_inquiry_page_scan, OnePhoneScan

LEMMA KeepsLinkedScan == ASSUME NEW s \in Bud PROVE Keeps(s, LinkedScan(s))
<1> DEFINE paged == IF page_list_empty(s) THEN s ELSE StartPage(s, Head(s.list).addr)
<1>1. Keeps(s, paged)
  BY KeepsSelf, KeepsPage, HeadPhone
<1>2. \A m \in {"off", "page"} : Keeps(paged, write_scan_conn_enable(paged, m))
  BY <1>1, KeepsScans DEF Keeps
<1>3. \A m \in {"off", "page"} : Keeps(s, write_scan_conn_enable(paged, m))
  BY <1>1, <1>2, KeepsTrans
<1>4. QED
  BY <1>3, KeepsScans, KeepsSelf DEF LinkedScan

LEMMA KeepsLinkedMaster == ASSUME NEW s \in Bud PROVE Keeps(s, LinkedMaster(s))
<1> DEFINE t == LinkedScan(s)
           u == IF s.num = 1 THEN dual_conn_try_open_inquiry_page_scan(t) ELSE t
<1>1. Keeps(s, t) /\ t \in Bud
  BY KeepsLinkedScan DEF Keeps
<1>2. Keeps(s, u) /\ u \in Bud
  BY <1>1, KeepsOpenScan, KeepsTrans DEF Keeps
<1>3. Keeps(s, [u EXCEPT !.switch = TRUE])
  BY <1>2, KeepsSwitch, KeepsTrans
<1>4. Keeps(s, [t EXCEPT !.timer = "wait_conn", !.switch = FALSE])
  <2> DEFINE v == [t EXCEPT !.timer = "wait_conn"]
  <2>1. Keeps(s, v) /\ v \in Bud
    BY <1>1, KeepsTimer, KeepsTrans DEF Keeps, TimerHandle, Callback
  <2>2. Keeps(s, [v EXCEPT !.switch = FALSE])
    BY <2>1, KeepsSwitch, KeepsTrans
  <2>3. QED
    BY <2>2
<1>5. QED
  BY <1>3, <1>4 DEF LinkedMaster

LEMMA KeepsArmAutoPair == ASSUME NEW s \in Bud PROVE Keeps(s, ArmAutoPair(s))
BY KeepsTimer, KeepsSelf DEF ArmAutoPair, TimerHandle, Callback

LEMMA KeepsPairedAlone == ASSUME NEW s \in Bud PROVE Keeps(s, PairedAlone(s))
<1>1. Keeps(s, Listen(s)) /\ Listen(s) \in Bud /\ Keeps(s, Seek(s)) /\ Seek(s) \in Bud
  BY KeepsOp DEF Keeps
<1>2. Keeps(s, write_scan_conn_enable(Seek(s), "both"))
  BY <1>1, KeepsScans, KeepsTrans
<1>3. Keeps(s, OnePhoneScan(Listen(s)))
  BY <1>1, KeepsOpenScan, KeepsTrans
<1> DEFINE t == CASE connect_dev(s) = 0 -> write_scan_conn_enable(Seek(s), "both")
                  [] connect_dev(s) = 1 -> OnePhoneScan(Listen(s))
                  [] OTHER -> Listen(s)
<1>4. Keeps(s, t) /\ t \in Bud
  BY <1>1, <1>2, <1>3 DEF Keeps
<1>5. QED
  BY <1>4, KeepsArmAutoPair, KeepsTrans DEF PairedAlone

LEMMA KeepsUnpaired == ASSUME NEW s \in Bud PROVE Keeps(s, Unpaired(s))
<1>1. Keeps(s, write_scan_conn_enable(Seek(s), "both"))
  BY KeepsOp, KeepsScans, KeepsTrans DEF Keeps
<1> DEFINE t == CASE connect_dev(s) = 0 -> write_scan_conn_enable(Seek(s), "both")
                  [] connect_dev(s) = 1 -> OnePhoneScan(s)
                  [] OTHER -> s
<1>2. Keeps(s, t) /\ t \in Bud
  BY <1>1, KeepsOpenScan, KeepsSelf DEF Keeps
<1>3. QED
  BY <1>2, KeepsArmAutoPair, KeepsTrans, KeepsSelf DEF Unpaired

LEMMA KeepsStateHandler ==
    ASSUME NEW s \in Bud PROVE Keeps(s, tws_dual_conn_state_handler(s))
<1> DEFINE t == DelTimer(s)
<1>1. Keeps(s, t) /\ t \in Bud
  BY KeepsDelTimer DEF Keeps
<1>2. /\ Keeps(s, write_scan_conn_enable(t, "off"))
      /\ Keeps(s, LinkedMaster(t))
      /\ Keeps(s, PairedAlone(t))
      /\ Keeps(s, Unpaired(t))
  BY <1>1, KeepsScans, KeepsLinkedMaster, KeepsPairedAlone, KeepsUnpaired, KeepsTrans
<1>3. QED
  BY <1>1, <1>2, KeepsSelf DEF tws_dual_conn_state_handler

(***************************************************************************)
(* The page list.                                                          *)
(***************************************************************************)

\* No address twice, and the addresses whose entry says its timer runs.
Once(list) == \A i, j \in DOMAIN list : list[i].addr = list[j].addr => i = j
Timed(list) == {list[i].addr : i \in {k \in DOMAIN list : list[k].timer}}

\* A bud whose list names each device once, with the timers that run.
Good(s) == s \in Bud /\ Once(s.list) /\ s.ptimers = Timed(s.list)

LEMMA KeepsGood == ASSUME NEW s, NEW t, Good(s), Keeps(s, t) PROVE Good(t)
BY DEF Good, Keeps

LEMMA GoodBud == ASSUME NEW s, Good(s) PROVE s \in Bud /\ s.list \in Seq(PageDevice)
BY DEF Good, Bud

\* Removing the entry at index i moves the later ones up by one.
LEMMA RemoveAtElements ==
    ASSUME NEW S, NEW list \in Seq(S), NEW i \in 1..Len(list)
    PROVE  /\ RemoveAt(list, i) \in Seq(S)
           /\ Len(RemoveAt(list, i)) = Len(list) - 1
           /\ \A k \in 1..(Len(list) - 1) :
                  RemoveAt(list, i)[k] = IF k < i THEN list[k] ELSE list[k + 1]
<1> DEFINE a == SubSeq(list, 1, i - 1)
           b == SubSeq(list, i + 1, Len(list))
<1>1. Len(list) \in Nat /\ i \in Nat /\ \A k \in 1..Len(list) : list[k] \in S
  BY LenProperties
<1>2. /\ a \in Seq(S) /\ Len(a) = i - 1
      /\ \A k \in 1..(i - 1) : a[k] = list[k]
  <2>1. 1 \in Int /\ i - 1 \in Int /\ \A k \in 1..(i - 1) : list[k] \in S
    BY <1>1
  <2>2. QED
    BY <1>1, <2>1, SubSeqProperties
<1>3. /\ b \in Seq(S) /\ Len(b) = Len(list) - i
      /\ \A k \in 1..(Len(list) - i) : b[k] = list[i + k]
  <2>1. i + 1 \in Int /\ Len(list) \in Int /\ \A k \in (i + 1)..Len(list) : list[k] \in S
    BY <1>1
  <2>2. /\ b \in Seq(S)
        /\ Len(b) = IF i + 1 <= Len(list) THEN Len(list) - (i + 1) + 1 ELSE 0
        /\ \A k \in 1..(Len(list) - (i + 1) + 1) : b[k] = list[i + 1 + k - 1]
    BY <2>1, SubSeqProperties
  <2>3. \A k \in 1..(Len(list) - i) :
            k \in 1..(Len(list) - (i + 1) + 1) /\ i + 1 + k - 1 = i + k
    BY <1>1
  <2>4. Len(b) = Len(list) - i
    BY <1>1, <2>2
  <2>5. QED
    BY <2>2, <2>3, <2>4
<1> HIDE DEF a, b
<1>4. /\ a \o b \in Seq(S) /\ Len(a \o b) = Len(list) - 1
      /\ \A k \in 1..(Len(list) - 1) :
             (a \o b)[k] = IF k <= i - 1 THEN a[k] ELSE b[k - (i - 1)]
  <2>1. /\ a \o b \in Seq(S) /\ Len(a \o b) = Len(a) + Len(b)
        /\ \A k \in 1..(Len(a) + Len(b)) :
               (a \o b)[k] = IF k <= Len(a) THEN a[k] ELSE b[k - Len(a)]
    BY <1>2, <1>3, ConcatProperties
  <2>2. Len(a) + Len(b) = Len(list) - 1
    BY <1>1, <1>2, <1>3
  <2>3. QED
    BY <1>2, <2>1, <2>2
<1>5. ASSUME NEW k \in 1..(Len(list) - 1)
      PROVE  (a \o b)[k] = IF k < i THEN list[k] ELSE list[k + 1]
  <2>1. CASE k < i
    BY <2>1, <1>1, <1>2, <1>4
  <2>2. CASE ~(k < i)
    <3>1. k - (i - 1) \in 1..(Len(list) - i) /\ i + (k - (i - 1)) = k + 1
      BY <2>2, <1>1
    <3>2. QED
      BY <2>2, <3>1, <1>1, <1>3, <1>4
  <2>3. QED
    BY <2>1, <2>2
<1>6. QED
  BY <1>4, <1>5 DEF RemoveAt, a, b

\* The list without p: the other entries as they were.
LEMMA WithoutPhone ==
    ASSUME NEW list \in Seq(PageDevice), Once(list), NEW p
    PROVE  /\ Without(list, p) \in Seq(PageDevice)
           /\ Once(Without(list, p))
           /\ p \notin Addrs(Without(list, p))
           /\ Timed(Without(list, p)) = Timed(list) \ {p}
<1>1. CASE p \notin Addrs(list)
  <2>1. Without(list, p) = list /\ p \notin Timed(list)
    BY <1>1 DEF Without, Addrs, Timed
  <2>2. QED
    BY <2>1, <1>1
<1>2. CASE p \in Addrs(list)
  <2> DEFINE i == IndexOf(list, p)
             n == Len(list)
             w == RemoveAt(list, i)
  <2>1. i \in 1..n /\ list[i].addr = p /\ n \in Nat /\ DOMAIN list = 1..n
    BY <1>2, LenProperties DEF Addrs, IndexOf
  <2>2. /\ w \in Seq(PageDevice) /\ Len(w) = n - 1
        /\ \A k \in 1..(n - 1) : w[k] = IF k < i THEN list[k] ELSE list[k + 1]
    BY <2>1, RemoveAtElements
  <2>3. DOMAIN w = 1..(n - 1)
    BY <2>2, LenProperties
  <2> HIDE DEF i, n, w
  <2>4. \A k \in 1..(n - 1) : \E m \in 1..n : m # i /\ w[k] = list[m]
    <3> TAKE k \in 1..(n - 1)
    <3>1. CASE k < i
      BY <3>1, <2>1, <2>2
    <3>2. CASE ~(k < i)
      <4>1. k + 1 \in 1..n /\ k + 1 # i /\ w[k] = list[k + 1]
        BY <3>2, <2>1, <2>2
      <4>2. QED
        BY <4>1
    <3>3. QED
      BY <3>1, <3>2
  <2>5. \A m \in 1..n : m # i => \E k \in 1..(n - 1) : w[k] = list[m]
    <3> SUFFICES ASSUME NEW m \in 1..n, m # i
                 PROVE  \E k \in 1..(n - 1) : w[k] = list[m]
      OBVIOUS
    <3>1. CASE m < i
      <4>1. m \in 1..(n - 1) /\ w[m] = list[m]
        BY <3>1, <2>1, <2>2
      <4>2. QED
        BY <4>1
    <3>2. CASE m > i
      <4>1. m - 1 \in 1..(n - 1) /\ w[m - 1] = list[m]
        <5>1. m - 1 \in 1..(n - 1) /\ ~(m - 1 < i) /\ (m - 1) + 1 = m
          BY <3>2, <2>1
        <5>2. QED
          BY <5>1, <2>2
      <4>2. QED
        BY <4>1
    <3>3. QED
      BY <3>1, <3>2, <2>1
  <2>6. Once(w)
    <3> SUFFICES ASSUME NEW j \in 1..(n - 1), NEW k \in 1..(n - 1), w[j].addr = w[k].addr
                 PROVE  j = k
      BY <2>3 DEF Once
    <3> DEFINE J == IF j < i THEN j ELSE j + 1
               K == IF k < i THEN k ELSE k + 1
    <3>1. J \in 1..n /\ K \in 1..n /\ w[j] = list[J] /\ w[k] = list[K]
      BY <2>1, <2>2
    <3>2. J = K
      BY <3>1, <2>1 DEF Once
    <3>3. QED
      BY <3>2, <2>1
  <2>7. \A m \in 1..n : m # i => list[m].addr # p
    BY <2>1 DEF Once
  <2>8. p \notin Addrs(w)
    BY <2>3, <2>4, <2>7 DEF Addrs
  <2>9. Timed(w) = Timed(list) \ {p}
    <3>1. Timed(w) \subseteq Timed(list) \ {p}
      BY <2>1, <2>3, <2>4, <2>7 DEF Timed
    <3>2. Timed(list) \ {p} \subseteq Timed(w)
      BY <2>1, <2>3, <2>5 DEF Timed
    <3>3. QED
      BY <3>1, <3>2
  <2>10. Without(list, p) = w
    BY <1>2 DEF Without, w, i
  <2>11. QED
    BY <2>2, <2>6, <2>8, <2>9, <2>10
<1>3. QED
  BY <1>1, <1>2

LEMMA AppendDevice ==
    ASSUME NEW list \in Seq(PageDevice), Once(list), NEW e \in PageDevice,
           e.addr \notin Addrs(list)
    PROVE  /\ Append(list, e) \in Seq(PageDevice)
           /\ Once(Append(list, e))
           /\ Timed(Append(list, e)) = Timed(list) \cup (IF e.timer THEN {e.addr} ELSE {})
<1> DEFINE n == Len(list)
           w == Append(list, e)
<1>1. n \in Nat /\ DOMAIN list = 1..n
  BY LenProperties
<1>2. /\ w \in Seq(PageDevice) /\ DOMAIN w = 1..(n + 1)
      /\ w[n + 1] = e
      /\ \A k \in 1..n : w[k] = list[k]
  <2>1. w \in Seq(PageDevice) /\ Len(w) = n + 1
    BY AppendProperties
  <2>2. QED
    BY <2>1, <1>1, AppendProperties, LenProperties
<1> HIDE DEF n, w
<1>3. \A k \in 1..(n + 1) : k \in 1..n \/ k = n + 1
  BY <1>1
<1>4. \A k \in 1..n : k \in 1..(n + 1) /\ list[k].addr # e.addr
  BY <1>1 DEF Addrs
<1>5. n + 1 \in 1..(n + 1)
  BY <1>1
<1>6. Once(w)
  BY <1>1, <1>2, <1>3, <1>4 DEF Once
<1>7. Timed(w) = Timed(list) \cup (IF e.timer THEN {e.addr} ELSE {})
  <2>1. Timed(w) \subseteq Timed(list) \cup (IF e.timer THEN {e.addr} ELSE {})
    BY <1>1, <1>2, <1>3 DEF Timed
  <2>2. Timed(list) \subseteq Timed(w)
    BY <1>1, <1>2, <1>4 DEF Timed
  <2>3. e.timer => e.addr \in Timed(w)
    BY <1>2, <1>5 DEF Timed
  <2>4. QED
    BY <2>1, <2>2, <2>3
<1>8. QED
  BY <1>2, <1>6, <1>7 DEF w

LEMMA EmptyList == <<>> \in Seq(PageDevice) /\ Once(<<>>) /\ Timed(<<>>) = {}
BY DEF Once, Timed

\* The head taken off a list.
LEMMA TailDevice ==
    ASSUME NEW list \in Seq(PageDevice), list # <<>>, Once(list)
    PROVE  /\ Tail(list) \in Seq(PageDevice)
           /\ Once(Tail(list))
           /\ Head(list) \in PageDevice
           /\ Head(list).addr \notin Addrs(Tail(list))
           /\ Timed(list) = Timed(Tail(list))
                            \cup (IF Head(list).timer THEN {Head(list).addr} ELSE {})
<1> DEFINE n == Len(list)
           w == Tail(list)
           h == Head(list)
<1>1. n \in Nat /\ n >= 1 /\ DOMAIN list = 1..n
  BY LenProperties, EmptySeq
<1>2. /\ w \in Seq(PageDevice) /\ Len(w) = n - 1
      /\ h \in PageDevice /\ h = list[1]
      /\ \A k \in 1..(n - 1) : w[k] = list[k + 1]
  BY HeadTailProperties
<1>3. DOMAIN w = 1..(n - 1)
  BY <1>2, LenProperties
<1> HIDE DEF n, w, h
<1>4. \A k \in 1..(n - 1) : k + 1 \in 1..n /\ k + 1 # 1
  BY <1>1
<1>5. \A k \in 1..n : k = 1 \/ (k - 1 \in 1..(n - 1) /\ (k - 1) + 1 = k)
  BY <1>1
<1>6. Once(w)
  <2> SUFFICES ASSUME NEW j \in 1..(n - 1), NEW k \in 1..(n - 1), w[j].addr = w[k].addr
               PROVE  j = k
    BY <1>3 DEF Once
  <2>1. j + 1 = k + 1
    BY <1>1, <1>2, <1>4 DEF Once
  <2>2. QED
    BY <2>1
<1>7. 1 \in 1..n
  BY <1>1
<1>8. h.addr \notin Addrs(w)
  <2> SUFFICES ASSUME NEW k \in 1..(n - 1), w[k].addr = h.addr PROVE FALSE
    BY <1>3 DEF Addrs
  <2>1. k + 1 = 1
    BY <1>1, <1>2, <1>4, <1>7 DEF Once
  <2>2. QED
    BY <2>1, <1>4
<1>9. Timed(list) = Timed(w) \cup (IF h.timer THEN {h.addr} ELSE {})
  <2>1. Timed(w) \subseteq Timed(list)
    BY <1>1, <1>2, <1>3, <1>4 DEF Timed
  <2>2. h.timer => h.addr \in Timed(list)
    BY <1>1, <1>2, <1>7 DEF Timed
  <2>3. Timed(list) \subseteq Timed(w) \cup (IF h.timer THEN {h.addr} ELSE {})
    <3> SUFFICES ASSUME NEW k \in 1..n, list[k].timer
                 PROVE  list[k].addr \in Timed(w) \/ (h.timer /\ list[k].addr = h.addr)
      BY <1>1 DEF Timed
    <3>1. CASE k = 1
      BY <3>1, <1>2
    <3>2. CASE k - 1 \in 1..(n - 1) /\ (k - 1) + 1 = k
      <4>1. w[k - 1] = list[k]
        BY <3>2, <1>2
      <4>2. QED
        BY <3>2, <4>1, <1>3 DEF Timed
    <3>3. QED
      BY <3>1, <3>2, <1>5
  <2>4. QED
    BY <2>1, <2>2, <2>3
<1>10. QED
  BY <1>2, <1>6, <1>8, <1>9 DEF w, h

\* The head's timer set.
LEMMA ArmHead ==
    ASSUME NEW list \in Seq(PageDevice), list # <<>>, Once(list)
    PROVE  LET w == [list EXCEPT ![1].timer = TRUE]
           IN  /\ w \in Seq(PageDevice)
               /\ Once(w)
               /\ Timed(w) = Timed(list) \cup {Head(list).addr}
<1> DEFINE n == Len(list)
           e == [list[1] EXCEPT !.timer = TRUE]
           w == [list EXCEPT ![1] = e]
<1>1. n \in Nat /\ 1 \in 1..n /\ DOMAIN list = 1..n /\ Head(list) = list[1]
  BY LenProperties, EmptySeq, HeadTailProperties
<1>2. list[1] \in PageDevice
  BY <1>1
<1>3. e \in PageDevice /\ e.timer /\ e.addr = list[1].addr
  BY <1>2 DEF PageDevice
<1>4. w \in Seq(PageDevice) /\ DOMAIN w = 1..n
  BY <1>1, <1>3, ExceptSeq, LenProperties
<1>5. w[1] = e /\ \A k \in 1..n : k # 1 => w[k] = list[k]
  BY <1>1
<1> HIDE DEF n, e, w
<1>6. \A k \in 1..n : w[k].addr = list[k].addr
  BY <1>3, <1>5
<1>7. Once(w)
  BY <1>1, <1>4, <1>6 DEF Once
<1>8. Timed(w) = Timed(list) \cup {Head(list).addr}
  <2>1. Timed(w) \subseteq Timed(list) \cup {Head(list).addr}
    BY <1>1, <1>3, <1>4, <1>5 DEF Timed
  <2>2. Timed(list) \cup {Head(list).addr} \subseteq Timed(w)
    BY <1>1, <1>3, <1>4, <1>5 DEF Timed
  <2>3. QED
    BY <2>1, <2>2
<1>9. QED
  BY <1>4, <1>7, <1>8 DEF w, e

LEMMA FreshDevice ==
    ASSUME NEW p \in Phones
    PROVE  Fresh(p) \in PageDevice /\ Fresh(p).addr = p /\ Fresh(p).timer = FALSE
BY DEF Fresh, PageDevice

\* Distinct phones make a list without running timers.
LEMMA RelayedDevices ==
    ASSUME NEW a \in Seq(Phones), \A i, j \in DOMAIN a : a[i] = a[j] => i = j
    PROVE  /\ RelayedList(a) \in Seq(PageDevice)
           /\ Once(RelayedList(a))
           /\ Timed(RelayedList(a)) = {}
<1> DEFINE w == RelayedList(a)
<1>1. DOMAIN a = 1..Len(a) /\ Len(a) \in Nat /\ DOMAIN w = DOMAIN a
  BY LenProperties DEF RelayedList
<1>2. \A k \in DOMAIN a : w[k] = Fresh(a[k]) /\ a[k] \in Phones
  BY <1>1 DEF RelayedList
<1>3. \A k \in DOMAIN a : w[k] \in PageDevice /\ w[k].addr = a[k] /\ w[k].timer = FALSE
  <2> SUFFICES ASSUME NEW k \in DOMAIN a
               PROVE  w[k] \in PageDevice /\ w[k].addr = a[k] /\ w[k].timer = FALSE
    OBVIOUS
  <2>1. w[k] = Fresh(a[k]) /\ a[k] \in Phones
    BY <1>2
  <2> HIDE DEF w
  <2>2. QED
    BY <2>1, FreshDevice
<1>4. w \in Seq(PageDevice)
  <2>1. w \in [1..Len(a) -> PageDevice]
    BY <1>1, <1>3 DEF RelayedList
  <2> HIDE DEF w
  <2>2. QED
    BY <1>1, <2>1, SeqDef
<1>5. Once(w)
  BY <1>1, <1>3 DEF Once
<1>6. Timed(w) = {}
  BY <1>1, <1>3 DEF Timed
<1>7. QED
  BY <1>4, <1>5, <1>6

(***************************************************************************)
(* The functions that change the list.                                     *)
(***************************************************************************)

\* A bud whose list and timers are replaced by a list and its timers.
LEMMA GoodReplace ==
    ASSUME NEW s, Good(s), NEW list \in Seq(PageDevice), Once(list)
    PROVE  Good([s EXCEPT !.list = list, !.ptimers = Timed(list)])
<1>1. Timed(list) \in SUBSET Phones
  <2>1. \A i \in DOMAIN list : list[i].addr \in Phones
    <3>1. \A i \in DOMAIN list : list[i] \in PageDevice
      BY LenProperties
    <3>2. QED
      BY <3>1 DEF PageDevice
  <2>2. QED
    BY <2>1 DEF Timed
<1> DEFINE t == [s EXCEPT !.list = list, !.ptimers = Timed(list)]
<1>2. t \in Bud
  BY <1>1 DEF Good, Bud
<1>3. t.list = list /\ t.ptimers = Timed(list)
  BY DEF Good, Bud
<1>4. QED
  BY <1>2, <1>3 DEF Good

LEMMA GoodAdd ==
    ASSUME NEW s, Good(s), NEW p \in Phones PROVE Good(add_device_2_page_list(s, p))
<1> DEFINE list == Append(Without(s.list, p), Fresh(p))
<1>1. s.list \in Seq(PageDevice) /\ Once(s.list) /\ s.ptimers = Timed(s.list)
  BY GoodBud DEF Good
<1>2. /\ list \in Seq(PageDevice) /\ Once(list)
      /\ Timed(list) = s.ptimers \ {p}
  <2>1. Fresh(p) \in PageDevice /\ Fresh(p).addr = p /\ Fresh(p).timer = FALSE
    BY FreshDevice
  <2>2. /\ Without(s.list, p) \in Seq(PageDevice) /\ Once(Without(s.list, p))
        /\ p \notin Addrs(Without(s.list, p))
        /\ Timed(Without(s.list, p)) = s.ptimers \ {p}
    BY <1>1, WithoutPhone
  <2>3. QED
    BY <2>1, <2>2, AppendDevice
<1>3. add_device_2_page_list(s, p) = [s EXCEPT !.list = list, !.ptimers = Timed(list)]
  BY <1>2 DEF add_device_2_page_list, Good, Bud
<1> HIDE DEF list
<1>4. Good([s EXCEPT !.list = list, !.ptimers = Timed(list)])
  BY <1>2, GoodReplace
<1>5. QED
  BY <1>3, <1>4

LEMMA TimedListed == ASSUME NEW list PROVE Timed(list) \subseteq Addrs(list)
BY DEF Timed, Addrs

LEMMA GoodDel ==
    ASSUME NEW s, Good(s), NEW p PROVE Good(del_device_from_page_list(s, p))
<1> DEFINE list == Without(s.list, p)
<1>1. s.list \in Seq(PageDevice) /\ Once(s.list) /\ s.ptimers = Timed(s.list)
  BY GoodBud DEF Good
<1>2. list \in Seq(PageDevice) /\ Once(list) /\ Timed(list) = s.ptimers \ {p}
  BY <1>1, WithoutPhone
<1>3. Timed(list) = IF p \in Addrs(s.list) THEN s.ptimers \ {p} ELSE s.ptimers
  BY <1>1, <1>2, TimedListed
<1>4. del_device_from_page_list(s, p) = [s EXCEPT !.list = list, !.ptimers = Timed(list)]
  BY <1>3 DEF del_device_from_page_list, Good, Bud
<1> HIDE DEF list
<1>5. Good([s EXCEPT !.list = list, !.ptimers = Timed(list)])
  BY <1>2, GoodReplace
<1>6. QED
  BY <1>4, <1>5

LEMMA GoodClr == ASSUME NEW s, Good(s) PROVE Good(clr_device_in_page_list(s))
<1>1. s.ptimers \ Addrs(s.list) = Timed(<<>>)
  BY TimedListed, EmptyList DEF Good
<1>2. clr_device_in_page_list(s) = [s EXCEPT !.list = <<>>, !.ptimers = Timed(<<>>)]
  BY <1>1 DEF clr_device_in_page_list, Good, Bud
<1>3. QED
  BY <1>2, EmptyList, GoodReplace

LEMMA GoodRotate == ASSUME NEW s, Good(s) PROVE Good(RotatePageList(s))
<1>1. CASE page_list_empty(s)
  BY <1>1 DEF RotatePageList
<1>2. CASE ~page_list_empty(s)
  <2> DEFINE list == Append(Tail(s.list), Head(s.list))
  <2>1. s.list \in Seq(PageDevice) /\ Once(s.list) /\ s.ptimers = Timed(s.list) /\ s.list # <<>>
    BY <1>2, GoodBud DEF Good, page_list_empty
  <2>2. list \in Seq(PageDevice) /\ Once(list) /\ Timed(list) = s.ptimers
    BY <2>1, TailDevice, AppendDevice
  <2>3. RotatePageList(s) = [s EXCEPT !.list = list, !.ptimers = Timed(list)]
    BY <1>2, <2>2 DEF RotatePageList, Good, Bud
  <2>4. QED
    BY <2>2, <2>3, GoodReplace
<1>3. QED
  BY <1>1, <1>2

LEMMA GoodStateHandler ==
    ASSUME NEW s, Good(s) PROVE Good(tws_dual_conn_state_handler(s))
BY KeepsStateHandler, KeepsGood, GoodBud

LEMMA GoodPageDevice == ASSUME NEW s, Good(s) PROVE Good(dual_conn_page_device(s))
<1> DEFINE h == Head(s.list)
           list == [s.list EXCEPT ![1].timer = TRUE]
           t == StartPage(s, h.addr)
<1>1. ASSUME ~page_list_empty(s)
      PROVE  Good([t EXCEPT !.list[1].timer = TRUE, !.ptimers = @ \cup {h.addr}])
  <2>1. s.list \in Seq(PageDevice) /\ Once(s.list) /\ s.ptimers = Timed(s.list) /\ s.list # <<>>
    BY <1>1, GoodBud DEF Good, page_list_empty
  <2>2. list \in Seq(PageDevice) /\ Once(list) /\ Timed(list) = s.ptimers \cup {h.addr}
    BY <2>1, ArmHead
  <2>3. h.addr \in Phones /\ s \in Bud
    BY <1>1, GoodBud, HeadPhone
  <2>4. Keeps(s, t)
    BY <2>3, KeepsPage
  <2>5. Good(t) /\ t.list = s.list /\ t.ptimers = s.ptimers
    BY <2>4, KeepsGood DEF Keeps
  <2> HIDE DEF t, h
  <2>6. [t EXCEPT !.list[1].timer = TRUE, !.ptimers = @ \cup {h.addr}]
            = [t EXCEPT !.list = list, !.ptimers = Timed(list)]
    BY <2>2, <2>5 DEF Good, Bud
  <2>7. QED
    BY <2>2, <2>5, <2>6, GoodReplace
<1>2. QED
  BY <1>1, GoodStateHandler DEF dual_conn_page_device

(***************************************************************************)
(* The handlers and the timer callbacks keep a good bud good.              *)
(***************************************************************************)

LEMMA GoodSetters ==
    ASSUME NEW s, Good(s)
    PROVE  /\ Good(Seek(s)) /\ Good(Listen(s))
           /\ Good(CancelSeek(s)) /\ Good(CancelListen(s))
           /\ Good(PageCancel(s)) /\ Good(DelTimer(s))
           /\ \A m \in Scan : Good(write_scan_conn_enable(s, m))
           /\ \A h \in TimerHandle : Good(Overwrite(s, h)) /\ Good([s EXCEPT !.timer = h])
           /\ \A v \in BOOLEAN : Good([s EXCEPT !.switch = v])
           /\ \A n \in Nat : Good([s EXCEPT !.num = n])
<1>1. s \in Bud
  BY DEF Good
<1>2. /\ Good(Seek(s)) /\ Good(Listen(s))
      /\ Good(CancelSeek(s)) /\ Good(CancelListen(s))
      /\ Good(PageCancel(s)) /\ Good(DelTimer(s))
  BY <1>1, KeepsOp, KeepsPage, KeepsDelTimer, KeepsGood
<1>3. \A m \in Scan : Good(write_scan_conn_enable(s, m))
  BY <1>1, KeepsScan, KeepsGood
<1>4. \A h \in TimerHandle : Good(Overwrite(s, h)) /\ Good([s EXCEPT !.timer = h])
  BY <1>1, KeepsOverwrite, KeepsTimer, KeepsGood
<1>5. \A v \in BOOLEAN : Good([s EXCEPT !.switch = v])
  BY <1>1, KeepsSwitch, KeepsGood
<1>6. \A n \in Nat : Good([s EXCEPT !.num = n])
  BY <1>1, KeepsNum, KeepsGood
<1>7. QED
  BY <1>2, <1>3, <1>4, <1>5, <1>6

LEMMA GoodScans ==
    ASSUME NEW s, Good(s)
    PROVE  /\ Good(write_scan_conn_enable(s, "off"))
           /\ Good(write_scan_conn_enable(s, "page"))
           /\ Good(write_scan_conn_enable(s, "both"))
           /\ Good(dual_conn_try_open_inquiry_scan(s))
           /\ Good(dual_conn_try_open_inquiry_page_scan(s))
BY GoodBud, KeepsScans, KeepsOpenScan, KeepsGood

LEMMA GoodPageOrState == ASSUME NEW s, Good(s) PROVE Good(PageOrState(s))
BY GoodStateHandler, GoodPageDevice DEF PageOrState

LEMMA GoodCallbackBody ==
    ASSUME NEW s, Good(s), NEW cb PROVE Good(CallbackBody(cb, s))
<1>1. Good(tws_auto_pair_timeout(s)) /\ Good(tws_wait_conn_timeout(s))
  BY GoodSetters, GoodScans, GoodPageDevice DEF tws_auto_pair_timeout, tws_wait_conn_timeout
<1>2. Good(tws_pair_timeout(s)) /\ Good(tws_create_conn_timeout(s))
  BY GoodSetters, GoodPageDevice, GoodPageOrState
     DEF tws_pair_timeout, tws_create_conn_timeout
<1>3. Good(dual_conn_page_device(s)) /\ Good(CancelListen(s)) /\ Good(Listen(s))
  BY GoodSetters, GoodPageDevice
<1>4. QED
  BY <1>1, <1>2, <1>3 DEF CallbackBody

LEMMA GoodRunTimer == ASSUME NEW s, Good(s) PROVE Good(RunTimer(s))
<1>1. Good([s EXCEPT !.timer = "stale"]) /\ Good([s EXCEPT !.timer = "none"])
  BY GoodSetters DEF TimerHandle
<1>2. Good([s EXCEPT !.timer = IF @ = "wait_conn" THEN "stale" ELSE "none"])
  BY <1>1
<1>3. QED
  BY <1>2, GoodCallbackBody DEF RunTimer

LEMMA GoodRunOrphan == ASSUME NEW s, Good(s), NEW cb PROVE Good(RunOrphan(s, cb))
<1> DEFINE t == [s EXCEPT !.orphans = @ \ {cb}]
<1>1. Good(t)
  <2>1. s \in Bud /\ s.orphans \ {cb} \in SUBSET (Callback \cup {"inquiry"})
    BY DEF Good, Bud
  <2>2. QED
    BY <2>1, KeepsOrphans, KeepsGood
<1> HIDE DEF t
<1>2. Good(IF cb = "wait_conn" THEN t ELSE Overwrite(t, "none"))
  BY <1>1, GoodSetters DEF TimerHandle
<1>3. QED
  BY <1>2, GoodCallbackBody DEF RunOrphan, t

LEMMA GoodPageTimeout ==
    ASSUME NEW s, Good(s), NEW p \in s.ptimers
    PROVE  Good(dual_conn_page_device_timeout(s, p))
<1> DEFINE e == s.list[IndexOf(s.list, p)]
           rest == Without(s.list, p)
           kept == IF e.late THEN rest ELSE Append(rest, [e EXCEPT !.timer = FALSE])
           t == [s EXCEPT !.ptimers = @ \ {p}]
<1>1. s.list \in Seq(PageDevice) /\ Once(s.list) /\ s.ptimers = Timed(s.list)
  BY GoodBud DEF Good
<1>2. p \in Addrs(s.list)
  BY <1>1, TimedListed
<1>3. e \in PageDevice /\ e.addr = p
  <2>1. IndexOf(s.list, p) \in DOMAIN s.list /\ e.addr = p
    BY <1>2 DEF IndexOf, Addrs
  <2>2. QED
    BY <2>1, <1>1, LenProperties
<1>4. [e EXCEPT !.timer = FALSE] \in PageDevice /\ [e EXCEPT !.timer = FALSE].addr = p
      /\ [e EXCEPT !.timer = FALSE].timer = FALSE
  BY <1>3 DEF PageDevice
<1>5. /\ rest \in Seq(PageDevice) /\ Once(rest) /\ p \notin Addrs(rest)
      /\ Timed(rest) = s.ptimers \ {p}
  BY <1>1, WithoutPhone
<1>6. kept \in Seq(PageDevice) /\ Once(kept) /\ Timed(kept) = s.ptimers \ {p}
  <2> HIDE DEF e, rest
  <2>1. QED
    BY <1>4, <1>5, AppendDevice
<1>7. [t EXCEPT !.list = kept] = [s EXCEPT !.list = kept, !.ptimers = Timed(kept)]
  <2> HIDE DEF kept
  <2>1. QED
    BY <1>6 DEF Good, Bud
<1>8. Good([t EXCEPT !.list = kept])
  <2> HIDE DEF kept
  <2>1. Good([s EXCEPT !.list = kept, !.ptimers = Timed(kept)])
    BY <1>6, GoodReplace
  <2>2. QED
    BY <1>7, <2>1
<1>9. Good(tws_dual_conn_state_handler(PageCancel([t EXCEPT !.list = kept])))
  BY <1>8, GoodSetters, GoodStateHandler
<1>10. QED
  BY <1>2, <1>9 DEF dual_conn_page_device_timeout

LEMMA GoodCloseInquiry == ASSUME NEW s, Good(s) PROVE Good(close_inquiry_scan(s))
<1>1. Good([s EXCEPT !.disable = 1])
  <2>1. s \in Bud /\ 1 \in 0..2
    BY GoodBud
  <2>2. Keeps(s, [s EXCEPT !.disable = 1])
    BY <2>1, KeepsDisable
  <2>3. QED
    BY <2>2, KeepsGood
<1>2. QED
  BY <1>1, GoodScans DEF close_inquiry_scan

LEMMA GoodFirstQuiet ==
    ASSUME NEW s, Good(s), NEW p \in Phones PROVE Good(FirstConnectedQuiet(s, p))
<1> DEFINE t == CASE s.tws = "paired" -> Listen(s)
                  [] Linked(s) -> [s EXCEPT !.switch = TRUE]
                  [] OTHER -> s
           counted == IF s.num = 1 THEN [t EXCEPT !.num = 2] ELSE t
           first == [t EXCEPT !.num = 1, !.addr2 = p]
<1>1. Good(t)
  BY GoodSetters
<1> HIDE DEF t
<1>2. Good(counted)
  BY <1>1, GoodSetters
<1>3. Good(first)
  <2> DEFINE u == [t EXCEPT !.num = 1]
  <2>1. Good(u) /\ u \in Bud
    BY <1>1, GoodSetters, GoodBud
  <2>2. Good([u EXCEPT !.addr2 = p])
    BY <2>1, KeepsAddr, KeepsGood
  <2>3. QED
    BY <2>2
<1> HIDE DEF counted, first
<1>4. \A u : Good(u) => Good(IF Linked(u) THEN dual_conn_try_open_inquiry_scan(u) ELSE u)
  BY GoodScans
<1>5. Good(write_scan_conn_enable(counted, "page"))
  BY <1>2, GoodScans
<1>6. QED
  BY <1>1, <1>2, <1>3, <1>4, <1>5 DEF FirstConnectedQuiet, t, counted, first

LEMMA GoodFirst ==
    ASSUME NEW s, Good(s), NEW p \in Phones PROVE Good(FirstConnected(s, p))
<1> DEFINE t == [del_device_from_page_list(DelTimer(s), p) EXCEPT !.addr0 = p]
           n == IF t.num = 1 /\ p # t.addr2 THEN 2 ELSE t.num
<1>1. Good(t) /\ t \in Bud
  <2>1. Good(del_device_from_page_list(DelTimer(s), p))
    BY GoodSetters, GoodDel
  <2> DEFINE d == del_device_from_page_list(DelTimer(s), p)
  <2> HIDE DEF d
  <2>2. Good(d) /\ d \in Bud
    BY <2>1, GoodBud DEF d
  <2>3. Good([d EXCEPT !.addr0 = p])
    BY <2>2, KeepsAddr, KeepsGood
  <2>4. Good(t)
    BY <2>3 DEF d
  <2>5. QED
    BY <2>4, GoodBud
<1> HIDE DEF t
<1>2. n \in Nat
  BY <1>1 DEF Bud
<1>3. Good([t EXCEPT !.num = IF @ = 1 /\ p # t.addr2 THEN 2 ELSE @, !.timer = "page_next"])
  <2> DEFINE u == [t EXCEPT !.num = n]
  <2>1. Good(u)
    BY <1>1, <1>2, GoodSetters
  <2>2. Good([u EXCEPT !.timer = "page_next"])
    BY <2>1, GoodSetters DEF TimerHandle, Callback
  <2>3. [t EXCEPT !.num = IF @ = 1 /\ p # t.addr2 THEN 2 ELSE @, !.timer = "page_next"]
            = [u EXCEPT !.timer = "page_next"]
    BY <1>1 DEF Bud
  <2>4. QED
    BY <2>2, <2>3
<1>4. QED
  BY <1>1, <1>3, GoodFirstQuiet DEF FirstConnected, t

LEMMA GoodSecond ==
    ASSUME NEW s, Good(s), NEW p \in Phones PROVE Good(SecondConnected(s, p))
<1> DEFINE c == clr_device_in_page_list(DelTimer(s))
           t == [c EXCEPT !.addr1 = p, !.num = IF @ = 1 THEN 2 ELSE @]
           u == IF t.tws = "paired" THEN Listen(t) ELSE [t EXCEPT !.switch = TRUE]
<1>1. Good(c) /\ c \in Bud
  BY GoodSetters, GoodClr, GoodBud
<1> HIDE DEF c
<1>2. Good(t)
  <2> DEFINE v == [c EXCEPT !.addr1 = p]
             n == IF v.num = 1 THEN 2 ELSE v.num
  <2>1. Good(v) /\ v \in Bud
    BY <1>1, KeepsAddr, KeepsGood, GoodBud
  <2>2. n \in Nat
    BY <2>1 DEF Bud
  <2>3. Good([v EXCEPT !.num = n])
    <3> HIDE DEF v, n
    <3>1. QED
      BY <2>1, <2>2, GoodSetters
  <2>4. t = [v EXCEPT !.num = n]
    BY <1>1 DEF Bud
  <2>5. QED
    BY <2>3, <2>4
<1> HIDE DEF t
<1>3. Good(u)
  BY <1>2, GoodSetters
<1> HIDE DEF u
<1>4. QED
  BY <1>3, GoodScans DEF SecondConnected, u, t, c

LEMMA GoodHci ==
    ASSUME NEW s, Good(s), NEW ev, NEW p \in Phones
    PROVE  Good(dual_conn_hci_event_handler(s, ev, p))
<1> DEFINE t == CASE ev = "lost" -> add_device_2_page_list(s, p)
                  [] ev = "rejected" -> RotatePageList(s)
                  [] OTHER -> s
           Forget(a) == IF a = p THEN NoPhone ELSE a
           u == [t EXCEPT !.addr0 = Forget(@), !.addr1 = Forget(@)]
<1>1. Good(t) /\ t \in Bud
  BY GoodAdd, GoodRotate, GoodBud
<1> HIDE DEF t
<1>2. Good(u)
  <2> DEFINE v == [t EXCEPT !.addr0 = Forget(t.addr0)]
  <2>1. Forget(t.addr0) \in Phones \cup {NoPhone} /\ Forget(t.addr1) \in Phones \cup {NoPhone}
    BY <1>1 DEF Bud
  <2>2. Good(v) /\ v \in Bud
    BY <1>1, <2>1, KeepsAddr, KeepsGood, GoodBud
  <2>3. Good([v EXCEPT !.addr1 = Forget(t.addr1)])
    <3> HIDE DEF v
    <3>1. QED
      BY <2>1, <2>2, KeepsAddr, KeepsGood
  <2>4. u = [v EXCEPT !.addr1 = Forget(t.addr1)]
    BY <1>1 DEF Bud
  <2>5. QED
    BY <2>3, <2>4
<1> HIDE DEF u
<1>3. Good(tws_dual_conn_state_handler(u))
  BY <1>2, GoodStateHandler
<1>4. Good(del_device_from_page_list(DelTimer(s), p))
  BY GoodSetters, GoodDel
<1>5. QED
  BY <1>3, <1>4 DEF dual_conn_hci_event_handler, u, t

\* The lists power-on makes of the record.
LEMMA InitialList ==
    ASSUME NEW rec \in Seq(Phones), \A i, j \in DOMAIN rec : rec[i] = rec[j] => i = j
    PROVE  LET n == Len(rec)
               list == CASE n = 0 -> <<>>
                         [] n = 1 -> <<Fresh(rec[1])>>
                         [] OTHER -> <<Fresh(rec[n]), Fresh(rec[n-1])>>
           IN  list \in Seq(PageDevice) /\ Once(list) /\ Timed(list) = {}
<1> DEFINE n == Len(rec)
<1>1. n \in Nat /\ DOMAIN rec = 1..n
  BY LenProperties
<1>2. ASSUME n = 1
      PROVE  LET list == <<Fresh(rec[1])>>
             IN  list \in Seq(PageDevice) /\ Once(list) /\ Timed(list) = {}
  <2>1. rec[1] \in Phones
    BY <1>1, <1>2
  <2> DEFINE x == Fresh(rec[1])
  <2>2. x \in PageDevice /\ x.timer = FALSE
    BY <2>1, FreshDevice
  <2> HIDE DEF x
  <2>3. <<x>> \in Seq(PageDevice) /\ Once(<<x>>) /\ Timed(<<x>>) = {}
    BY <2>2 DEF Once, Timed
  <2>4. QED
    BY <2>3 DEF x
<1>3. ASSUME n > 1
      PROVE  LET list == <<Fresh(rec[n]), Fresh(rec[n-1])>>
             IN  list \in Seq(PageDevice) /\ Once(list) /\ Timed(list) = {}
  <2>0. \A k \in 1..n : rec[k] \in Phones
    BY <1>1
  <2> HIDE DEF n
  <2>1. n \in 1..n /\ n - 1 \in 1..n /\ n # n - 1
    BY <1>1, <1>3
  <2>2. rec[n] \in Phones /\ rec[n-1] \in Phones /\ rec[n] # rec[n-1]
    BY <1>1, <2>0, <2>1
  <2> DEFINE x == Fresh(rec[n])
             y == Fresh(rec[n-1])
  <2>3. /\ x \in PageDevice /\ x.timer = FALSE
        /\ y \in PageDevice /\ y.timer = FALSE
        /\ x.addr # y.addr
    BY <2>2, FreshDevice
  <2> HIDE DEF x, y
  <2> DEFINE w == <<x, y>>
  <2>4. /\ w \in Seq(PageDevice) /\ Len(w) = 2
        /\ w[1] = x /\ w[2] = y
    BY <2>3
  <2> HIDE DEF w
  <2>5. DOMAIN w = 1..2
    BY <2>4, LenProperties
  <2>6. \A k \in 1..2 : k = 1 \/ k = 2
    OBVIOUS
  <2>7. Once(w)
    BY <2>3, <2>4, <2>5, <2>6 DEF Once
  <2>8. Timed(w) = {}
    BY <2>3, <2>4, <2>5, <2>6 DEF Timed
  <2>9. QED
    BY <2>4, <2>7, <2>8 DEF w, x, y
<1>4. QED
  BY <1>1, <1>2, <1>3, EmptyList

LEMMA GoodInit ==
    ASSUME NEW s, Good(s), NEW rec \in Seq(Phones),
           \A i, j \in DOMAIN rec : rec[i] = rec[j] => i = j
    PROVE  Good(dual_conn_page_devices_init(s, rec))
<1> DEFINE n == Len(rec)
           list == CASE n = 0 -> <<>>
                     [] n = 1 -> <<Fresh(rec[1])>>
                     [] OTHER -> <<Fresh(rec[n]), Fresh(rec[n-1])>>
           left == IF s.inquiry THEN s.orphans \cup {"inquiry"} ELSE s.orphans
           u == [s EXCEPT !.list = list, !.ptimers = {}]
           t == [u EXCEPT !.num = n, !.disable = 0, !.orphans = left, !.inquiry = TRUE]
<1>1. list \in Seq(PageDevice) /\ Once(list) /\ Timed(list) = {}
  BY InitialList
<1>2. n \in Nat /\ (n = 1 => rec[1] \in Phones)
  BY LenProperties
<1> HIDE DEF n, list
<1>3. Good(u) /\ u \in Bud
  <2>1. Good([s EXCEPT !.list = list, !.ptimers = Timed(list)])
    BY <1>1, GoodReplace
  <2>2. QED
    BY <2>1, <1>1, GoodBud
<1>4. left \in SUBSET (Callback \cup {"inquiry"})
  BY DEF Good, Bud
<1>5. Good(t) /\ t \in Bud
  <2> HIDE DEF u, left
  <2> DEFINE a == [u EXCEPT !.num = n]
             b == [a EXCEPT !.disable = 0]
             c == [b EXCEPT !.orphans = left]
  <2>1. Keeps(u, a) /\ a \in Bud
    BY <1>2, <1>3, KeepsNum DEF Keeps
  <2>2. Keeps(a, b) /\ b \in Bud
    <3> HIDE DEF a
    <3>1. 0 \in 0..2
      OBVIOUS
    <3>2. Keeps(a, b)
      BY <2>1, <3>1, KeepsDisable
    <3>3. QED
      BY <3>2 DEF Keeps
  <2>3. Keeps(b, c) /\ c \in Bud
    <3> HIDE DEF b
    <3>1. QED
      BY <1>4, <2>2, KeepsOrphans DEF Keeps
  <2>4. Keeps(c, [c EXCEPT !.inquiry = TRUE])
    <3> HIDE DEF c
    <3>1. QED
      BY <2>3, KeepsInquiry
  <2>5. Keeps(u, [c EXCEPT !.inquiry = TRUE])
    BY <2>1, <2>2, <2>3, <2>4, KeepsTrans
  <2>6. t = [c EXCEPT !.inquiry = TRUE]
    OBVIOUS
  <2> HIDE DEF t
  <2>7. QED
    BY <1>3, <2>5, <2>6, KeepsGood, GoodBud
<1>6. t = [s EXCEPT !.list = list, !.ptimers = {}, !.num = n, !.disable = 0,
                    !.orphans = left, !.inquiry = TRUE]
  BY DEF Good, Bud
<1> HIDE DEF t
<1>7. ASSUME n = 1 PROVE Good([t EXCEPT !.addr2 = rec[1]])
  BY <1>2, <1>5, <1>7, KeepsAddr, KeepsGood
<1>8. dual_conn_page_devices_init(s, rec) = IF n = 1 THEN [t EXCEPT !.addr2 = rec[1]] ELSE t
  BY <1>6 DEF dual_conn_page_devices_init, n, list, left
<1>9. QED
  BY <1>5, <1>7, <1>8

(***************************************************************************)
(* What the buds tell each other.                                          *)
(***************************************************************************)

OnceEach(m) == m \in Info /\ \A i, j \in DOMAIN m.addrs : m.addrs[i] = m.addrs[j] => i = j

LEMMA GoodInfo ==
    ASSUME NEW s, Good(s) PROVE OnceEach(PageInfo(s)) /\ OnceEach(CountInfo(s))
<1> DEFINE a == [i \in DOMAIN s.list |-> s.list[i].addr]
<1>1. s.list \in Seq(PageDevice) /\ Once(s.list)
  BY GoodBud DEF Good
<1>2. DOMAIN s.list = 1..Len(s.list) /\ Len(s.list) \in Nat
  BY <1>1, LenProperties
<1>3. \A i \in DOMAIN s.list : s.list[i].addr \in Phones
  <2>1. \A i \in DOMAIN s.list : s.list[i] \in PageDevice
    BY <1>1, LenProperties
  <2>2. QED
    BY <2>1 DEF PageDevice
<1>4. a \in Seq(Phones)
  <2>1. a \in [1..Len(s.list) -> Phones]
    BY <1>2, <1>3
  <2> HIDE DEF a
  <2>2. QED
    BY <1>2, <2>1, SeqDef
<1>5. \A i, j \in DOMAIN a : a[i] = a[j] => i = j
  BY <1>1 DEF Once
<1>6. s.num \in Nat /\ PackedCount(s) \in Nat /\ PackedFlag(s) \in {0, 2}
  <2>1. s.num \in Nat
    BY DEF Good, Bud
  <2>2. QED
    BY <2>1 DEF PackedCount, PackedFlag
<1>7. OnceEach(PageInfo(s))
  <2> HIDE DEF a
  <2> DEFINE m == [num |-> PackedCount(s), disable |-> PackedFlag(s), list |-> TRUE,
                   addrs |-> a, sent |-> s.num]
  <2>1. m \in Info /\ m.addrs = a
    BY <1>4, <1>6 DEF Info
  <2>2. m = PageInfo(s)
    BY DEF PageInfo, a
  <2>3. QED
    BY <1>5, <2>1, <2>2 DEF OnceEach
<1>8. OnceEach(CountInfo(s))
  BY <1>6 DEF OnceEach, CountInfo, Info
<1>9. QED
  BY <1>7, <1>8

LEMMA GoodRx ==
    ASSUME NEW s, Good(s), NEW m, OnceEach(m) PROVE Good(rx_device_info(s, m))
<1> DEFINE d == IF s.disable = 0 THEN m.disable ELSE s.disable
           t == [s EXCEPT !.disable = IF @ = 0 THEN m.disable ELSE @, !.num = m.num]
           c == clr_device_in_page_list(t)
           list == RelayedList(m.addrs)
<1>1. Good(t)
  <2>1. s \in Bud /\ d \in 0..2 /\ m.num \in Nat
    BY DEF Good, Bud, OnceEach, Info
  <2> DEFINE v == [s EXCEPT !.disable = d]
  <2>2. Good(v)
    <3> HIDE DEF d
    <3>1. QED
      BY <2>1, KeepsDisable, KeepsGood
  <2>3. Good([v EXCEPT !.num = m.num])
    <3> HIDE DEF v
    <3>1. QED
      BY <2>1, <2>2, GoodSetters
  <2>4. QED
    BY <2>3
<1> HIDE DEF t
<1>2. Good(c)
  BY <1>1, GoodClr
<1>3. c.ptimers = {}
  BY <1>1, TimedListed DEF clr_device_in_page_list, Good, Bud
<1>4. list \in Seq(PageDevice) /\ Once(list) /\ Timed(list) = {}
  BY RelayedDevices DEF OnceEach, Info
<1> HIDE DEF c, list
<1>5. Good([c EXCEPT !.list = list])
  <2>1. Good([c EXCEPT !.list = list, !.ptimers = Timed(list)])
    BY <1>2, <1>4, GoodReplace
  <2>2. [c EXCEPT !.list = list] = [c EXCEPT !.list = list, !.ptimers = Timed(list)]
    BY <1>2, <1>3, <1>4 DEF Good, Bud
  <2>3. QED
    BY <2>1, <2>2
<1>6. QED
  BY <1>1, <1>5, GoodStateHandler DEF rx_device_info, t, c, list

(***************************************************************************)
(* TWS link events, application messages and closing down.                 *)
(***************************************************************************)

LEMMA GoodTwsConnected ==
    ASSUME NEW s, Good(s), NEW role PROVE Good(TwsConnected(s, role))
<1>1. Good([s EXCEPT !.switch = FALSE])
  BY GoodSetters
<1>2. Good(PageOrState([s EXCEPT !.switch = FALSE]))
  BY <1>1, GoodPageOrState
<1>3. Good(PageCancel(write_scan_conn_enable(s, "off")))
  BY GoodScans, GoodSetters
<1>4. QED
  BY <1>2, <1>3 DEF TwsConnected

LEMMA GoodTwsDetached ==
    ASSUME NEW s, Good(s), NEW role, NEW reason
    PROVE  Good(TwsDetached(s, role, reason))
<1> DEFINE t == PageCancel(DelTimer(s))
<1>1. Good(t)
  BY GoodSetters
<1> HIDE DEF t
<1>2. Good(write_scan_conn_enable(t, "both")) /\ Good(tws_dual_conn_state_handler(t))
  BY <1>1, GoodScans, GoodStateHandler
<1>3. Good(tws_dual_conn_state_handler(clr_device_in_page_list(t)))
  BY <1>1, GoodClr, GoodStateHandler
<1>4. Good(DetachedNoList(Listen(t)))
  <2>1. Good(Listen(t))
    BY <1>1, GoodSetters
  <2>2. QED
    BY <2>1, GoodScans DEF DetachedNoList
<1>5. Good(dual_conn_page_device(t))
  BY <1>1, GoodPageDevice
<1>6. QED
  BY <1>1, <1>2, <1>3, <1>4, <1>5 DEF TwsDetached, t

LEMMA GoodRoleSwitched ==
    ASSUME NEW s, Good(s), NEW role PROVE Good(RoleSwitched(s, role))
BY GoodScans, GoodSetters DEF RoleSwitched

LEMMA GoodApp ==
    ASSUME NEW s, Good(s), NEW msg PROVE Good(dual_conn_app_event_handler(s, msg))
<1>1. Good(Seek(s)) /\ Good(Listen(s))
  BY GoodSetters
<1>2. \A u, h : Good(u) /\ h \in Callback => Good(Overwrite(u, h)) /\ Good([u EXCEPT !.timer = h])
  BY GoodSetters DEF TimerHandle
<1>3. {"create_conn", "pair", "msg_wait_pair", "msg_start_pair", "msg_start_conn"}
          \subseteq Callback
  BY DEF Callback
<1>4. QED
  BY <1>1, <1>2, <1>3 DEF dual_conn_app_event_handler

LEMMA GoodClose == ASSUME NEW s, Good(s) PROVE Good(tws_dual_conn_close(s))
BY GoodSetters, GoodScans DEF tws_dual_conn_close

\* Listed devices come first, the ones just added behind them.
LEMMA ConcatDevices ==
    ASSUME NEW a \in Seq(PageDevice), Once(a), NEW b \in Seq(PageDevice), Once(b),
           Timed(b) = {}, Addrs(a) \cap Addrs(b) = {}
    PROVE  a \o b \in Seq(PageDevice) /\ Once(a \o b) /\ Timed(a \o b) = Timed(a)
<1> DEFINE m == Len(a)
           n == Len(b)
           w == a \o b
<1>1. m \in Nat /\ n \in Nat /\ DOMAIN a = 1..m /\ DOMAIN b = 1..n
  BY LenProperties
<1>2. /\ w \in Seq(PageDevice) /\ DOMAIN w = 1..(m + n)
      /\ \A k \in 1..(m + n) : w[k] = IF k <= m THEN a[k] ELSE b[k - m]
  <2>1. /\ w \in Seq(PageDevice) /\ Len(w) = m + n
        /\ \A k \in 1..(m + n) : w[k] = IF k <= m THEN a[k] ELSE b[k - m]
    BY ConcatProperties
  <2>2. QED
    BY <2>1, LenProperties
<1> HIDE DEF m, n, w
<1>3. \A k \in 1..(m + n) : \/ k \in 1..m /\ w[k] = a[k]
                            \/ k - m \in 1..n /\ w[k] = b[k - m]
  <2> TAKE k \in 1..(m + n)
  <2>1. CASE k <= m
    <3>1. k \in 1..m
      BY <2>1, <1>1
    <3>2. QED
      BY <2>1, <3>1, <1>2
  <2>2. CASE ~(k <= m)
    <3>1. k - m \in 1..n
      BY <2>2, <1>1
    <3>2. QED
      BY <2>2, <3>1, <1>2
  <2>3. QED
    BY <2>1, <2>2
<1>4. \A i \in 1..m, j \in 1..n : a[i].addr # b[j].addr
  BY <1>1 DEF Addrs
<1>5. Once(w)
  <2> SUFFICES ASSUME NEW i \in 1..(m + n), NEW j \in 1..(m + n), w[i].addr = w[j].addr
               PROVE  i = j
    BY <1>2 DEF Once
  <2>1. CASE i \in 1..m /\ w[i] = a[i] /\ j \in 1..m /\ w[j] = a[j]
    BY <2>1, <1>1 DEF Once
  <2>2. CASE i - m \in 1..n /\ w[i] = b[i - m] /\ j - m \in 1..n /\ w[j] = b[j - m]
    <3>1. i - m = j - m
      BY <2>2, <1>1 DEF Once
    <3>2. QED
      BY <3>1, <1>1
  <2>3. QED
    BY <2>1, <2>2, <1>3, <1>4
<1>6. \A k \in 1..n : b[k].timer = FALSE
  <2>1. \A k \in 1..n : b[k] \in PageDevice
    BY <1>1, LenProperties
  <2>2. \A k \in 1..n : b[k].timer \in BOOLEAN
    BY <2>1 DEF PageDevice
  <2>3. \A k \in 1..n : ~b[k].timer
    BY <1>1 DEF Timed
  <2>4. QED
    BY <2>2, <2>3
<1>7. Timed(w) = Timed(a)
  <2>1. Timed(w) \subseteq Timed(a)
    BY <1>1, <1>2, <1>3, <1>6 DEF Timed
  <2>2. Timed(a) \subseteq Timed(w)
    <3>1. \A k \in 1..m : k \in 1..(m + n) /\ w[k] = a[k]
      BY <1>1, <1>2
    <3>2. QED
      BY <3>1, <1>1, <1>2 DEF Timed
  <2>3. QED
    BY <2>1, <2>2
<1>8. QED
  BY <1>2, <1>5, <1>7 DEF w

\* The page list with the devices added to it.
LEMMA GoodPageMsgList ==
    ASSUME NEW s, Good(s), Len(s.list) < 2, NEW added \in Seq(Phones),
           \A i, j \in DOMAIN added : added[i] = added[j] => i = j
    PROVE  LET kept == IF ~page_list_empty(s) /\ Head(s.list).addr \in ToSet(added)
                       THEN <<>> ELSE s.list
           IN  Good([s EXCEPT !.list = kept \o RelayedList(added),
                              !.ptimers = @ \ ToSet(added)])
<1> DEFINE kept == IF ~page_list_empty(s) /\ Head(s.list).addr \in ToSet(added)
                   THEN <<>> ELSE s.list
           tail == RelayedList(added)
           t == [s EXCEPT !.list = kept \o tail, !.ptimers = @ \ ToSet(added)]
<1>1. s.list \in Seq(PageDevice) /\ Once(s.list) /\ s.ptimers = Timed(s.list)
  BY GoodBud DEF Good
<1>2. /\ tail \in Seq(PageDevice) /\ Once(tail) /\ Timed(tail) = {}
      /\ Addrs(tail) = ToSet(added)
  <2>1. tail \in Seq(PageDevice) /\ Once(tail) /\ Timed(tail) = {}
    BY RelayedDevices
  <2>2. Addrs(tail) = ToSet(added)
    BY DEF RelayedList, Fresh, Addrs, ToSet
  <2>3. QED
    BY <2>1, <2>2
<1>3. s.list = <<>> \/ (s.list # <<>> /\ Addrs(s.list) = {Head(s.list).addr})
  <2> SUFFICES ASSUME s.list # <<>> PROVE Addrs(s.list) = {Head(s.list).addr}
    OBVIOUS
  <2>1. Len(s.list) \in Nat /\ Len(s.list) # 0 /\ DOMAIN s.list = 1..Len(s.list)
    BY <1>1, LenProperties, EmptySeq
  <2>2. Len(s.list) = 1 /\ DOMAIN s.list = 1..1
    <3>1. Len(s.list) = 1
      <4> DEFINE n == Len(s.list)
      <4>1. n \in Nat /\ n # 0 /\ n < 2
        BY <2>1
      <4> HIDE DEF n
      <4>2. n = 1
        BY <4>1
      <4>3. QED
        BY <4>2 DEF n
    <3>2. QED
      BY <2>1, <3>1
  <2>3. Head(s.list) = s.list[1]
    BY <1>1, HeadTailProperties
  <2>4. QED
    BY <2>2, <2>3 DEF Addrs
<1>4. /\ kept \in Seq(PageDevice) /\ Once(kept)
      /\ Addrs(kept) \cap ToSet(added) = {}
      /\ Timed(kept) = s.ptimers \ ToSet(added)
  <2>1. CASE ~page_list_empty(s) /\ Head(s.list).addr \in ToSet(added)
    <3>1. s.ptimers \subseteq ToSet(added)
      BY <2>1, <1>1, <1>3, TimedListed DEF page_list_empty
    <3>2. kept = <<>> /\ Addrs(<<>>) = {}
      BY <2>1 DEF Addrs
    <3>3. QED
      BY <3>1, <3>2, EmptyList
  <2>2. CASE page_list_empty(s)
    <3>1. kept = <<>> /\ Addrs(<<>>) = {} /\ s.ptimers = {}
      BY <2>2, <1>1, EmptyList DEF Addrs, page_list_empty
    <3>2. QED
      BY <3>1, EmptyList
  <2>3. CASE ~page_list_empty(s) /\ Head(s.list).addr \notin ToSet(added)
    <3>1. kept = s.list /\ Addrs(s.list) \cap ToSet(added) = {}
      BY <2>3, <1>3 DEF page_list_empty
    <3>2. QED
      BY <3>1, <1>1, TimedListed
  <2>4. QED
    BY <2>1, <2>2, <2>3
<1> HIDE DEF kept, tail
<1>5. /\ kept \o tail \in Seq(PageDevice) /\ Once(kept \o tail)
      /\ Timed(kept \o tail) = s.ptimers \ ToSet(added)
  BY <1>2, <1>4, ConcatDevices
<1>6. Good(t)
  <2> DEFINE w == kept \o tail
  <2> HIDE DEF w
  <2>1. Good([s EXCEPT !.list = w, !.ptimers = Timed(w)])
    BY <1>5, GoodReplace DEF w
  <2>2. t = [s EXCEPT !.list = w, !.ptimers = Timed(w)]
    BY <1>5 DEF w, Good, Bud
  <2>3. QED
    BY <2>1, <2>2
<1>7. QED
  BY <1>6 DEF t, kept, tail

LEMMA GoodPageMsg ==
    ASSUME NEW s, Good(s), Len(s.list) < 2, NEW added \in Seq(Phones),
           \A i, j \in DOMAIN added : added[i] = added[j] => i = j
    PROVE  Good(page_device_msg_handler(s, added))
<1> DEFINE kept == IF ~page_list_empty(s) /\ Head(s.list).addr \in ToSet(added)
                   THEN <<>> ELSE s.list
           t == [s EXCEPT !.list = kept \o RelayedList(added), !.ptimers = @ \ ToSet(added)]
<1>6. Good(t)
  BY GoodPageMsgList
<1> HIDE DEF t
<1> DEFINE u == CancelListen(CancelSeek(DelTimer(t)))
<1>7. Good(u)
  <2>1. Good(DelTimer(t))
    BY <1>6, GoodSetters
  <2>2. Good(CancelSeek(DelTimer(t)))
    BY <2>1, GoodSetters
  <2>3. QED
    BY <2>2, GoodSetters
<1> HIDE DEF u
<1>8. Good(dual_conn_page_device(write_scan_conn_enable(u, "off")))
  BY <1>7, GoodScans, GoodPageDevice
<1>9. QED
  BY <1>8 DEF page_device_msg_handler, u, t, kept

\* The deadline of a listed device passes.
LEMMA GoodElapse ==
    ASSUME NEW s, Good(s), NEW i \in DOMAIN s.list
    PROVE  Good([s EXCEPT !.list[i].late = TRUE])
<1> DEFINE list == [s.list EXCEPT ![i].late = TRUE]
<1>1. s.list \in Seq(PageDevice) /\ Once(s.list) /\ s.ptimers = Timed(s.list)
  BY GoodBud DEF Good
<1>2. DOMAIN s.list = 1..Len(s.list) /\ Len(s.list) \in Nat
  BY <1>1, LenProperties
<1>3. DOMAIN list = DOMAIN s.list
  OBVIOUS
<1>4. \A k \in DOMAIN s.list : /\ list[k] \in PageDevice
                              /\ list[k].addr = s.list[k].addr
                              /\ list[k].timer = s.list[k].timer
  <2>1. \A k \in DOMAIN s.list : s.list[k] \in PageDevice
    BY <1>1, LenProperties
  <2>2. QED
    BY <2>1 DEF PageDevice
<1>5. list \in Seq(PageDevice)
  <2>1. list \in [1..Len(s.list) -> PageDevice]
    BY <1>2, <1>4
  <2> HIDE DEF list
  <2>2. QED
    BY <1>2, <2>1, SeqDef
<1> HIDE DEF list
<1>6. Once(list) /\ Timed(list) = s.ptimers
  BY <1>1, <1>3, <1>4 DEF Once, Timed
<1>7. Good([s EXCEPT !.list = list, !.ptimers = Timed(list)])
  BY <1>5, <1>6, GoodReplace
<1>8. [s EXCEPT !.list[i].late = TRUE] = [s EXCEPT !.list = list, !.ptimers = Timed(list)]
  BY <1>6 DEF list, Good, Bud
<1>9. QED
  BY <1>7, <1>8

\* What the libraries and other modules change in a bud.
LEMMA GoodOutside ==
    ASSUME NEW s, Good(s)
    PROVE  /\ \A r \in Role : Good([s EXCEPT !.role = r])
           /\ \A x \in TwsState : Good([s EXCEPT !.tws = x])
           /\ \A c \in SUBSET Phones : Good([s EXCEPT !.conn = c])
           /\ \A p \in Phones \cup {NoPhone} : Good([s EXCEPT !.page = p])
           /\ \A x \in PairOp : Good([s EXCEPT !.op = x])
           /\ \A v \in BOOLEAN : /\ Good([s EXCEPT !.esco = v])
                                /\ Good([s EXCEPT !.off = v])
                                /\ Good([s EXCEPT !.exit = v])
<1>1. s \in Bud
  BY GoodBud
<1>2. /\ \A r \in Role : Keeps(s, [s EXCEPT !.role = r])
      /\ \A x \in TwsState : Keeps(s, [s EXCEPT !.tws = x])
      /\ \A c \in SUBSET Phones : Keeps(s, [s EXCEPT !.conn = c])
  BY <1>1 DEF Keeps, Bud
<1>3. /\ \A p \in Phones \cup {NoPhone} : Keeps(s, [s EXCEPT !.page = p])
      /\ \A x \in PairOp : Keeps(s, [s EXCEPT !.op = x])
  BY <1>1 DEF Keeps, Bud
<1>4. \A v \in BOOLEAN : /\ Keeps(s, [s EXCEPT !.esco = v])
                         /\ Keeps(s, [s EXCEPT !.off = v])
                         /\ Keeps(s, [s EXCEPT !.exit = v])
  BY <1>1 DEF Keeps, Bud
<1>5. QED
  BY <1>2, <1>3, <1>4, KeepsGood

(***************************************************************************)
(* No handler or callback changes what the libraries and the closing down  *)
(* decide (role, link, phones, the two flags), and on a slave that neither *)
(* scans nor pages none makes it scan or page.                             *)
(***************************************************************************)

Quiet(s) == s.scan = "off" /\ s.page = NoPhone
LinkedSlave(s) == Slave(s) /\ Linked(s) /\ ~s.off /\ ~s.exit
Same(s, t) == /\ t.role = s.role /\ t.tws = s.tws /\ t.off = s.off /\ t.exit = s.exit
              /\ t.conn = s.conn
Calm(s, t) == t \in Bud /\ Same(s, t) /\ (LinkedSlave(s) /\ Quiet(s) => Quiet(t))

LEMMA CalmSelf == ASSUME NEW s \in Bud PROVE Calm(s, s)
BY DEF Calm, Same

LEMMA CalmTrans ==
    ASSUME NEW s, NEW t, NEW u, Calm(s, t), Calm(t, u) PROVE Calm(s, u)
BY DEF Calm, Same, LinkedSlave, Slave, Linked

LEMMA CalmSetters ==
    ASSUME NEW s \in Bud
    PROVE  /\ Calm(s, Seek(s)) /\ Calm(s, Listen(s))
           /\ Calm(s, CancelSeek(s)) /\ Calm(s, CancelListen(s))
           /\ Calm(s, PageCancel(s)) /\ Calm(s, DelTimer(s))
           /\ Calm(s, write_scan_conn_enable(s, "off"))
           /\ \A h \in TimerHandle : Calm(s, Overwrite(s, h)) /\ Calm(s, [s EXCEPT !.timer = h])
           /\ \A v \in BOOLEAN : Calm(s, [s EXCEPT !.switch = v])
           /\ \A n \in Nat : Calm(s, [s EXCEPT !.num = n])
<1>1. /\ Calm(s, Seek(s)) /\ Calm(s, Listen(s))
      /\ Calm(s, CancelSeek(s)) /\ Calm(s, CancelListen(s))
  <2>1. Seek(s) \in Bud /\ Listen(s) \in Bud /\ CancelSeek(s) \in Bud /\ CancelListen(s) \in Bud
    BY KeepsOp DEF Keeps
  <2>2. Calm(s, Seek(s)) /\ Calm(s, Listen(s))
    BY <2>1 DEF Seek, Listen, Calm, Same, Quiet, Bud
  <2>3. Calm(s, CancelSeek(s))
    BY <2>1 DEF CancelSeek, Calm, Same, Quiet, Bud
  <2>4. Calm(s, CancelListen(s))
    BY <2>1 DEF CancelListen, Calm, Same, Quiet, Bud
  <2>5. QED
    BY <2>2, <2>3, <2>4
<1>2. Calm(s, PageCancel(s)) /\ Calm(s, DelTimer(s))
  <2>1. PageCancel(s) \in Bud /\ DelTimer(s) \in Bud
    BY KeepsPage, KeepsDelTimer DEF Keeps
  <2>2. QED
    BY <2>1 DEF PageCancel, DelTimer, Calm, Same, Quiet, Bud
<1>3. Calm(s, write_scan_conn_enable(s, "off"))
  <2>1. write_scan_conn_enable(s, "off") \in Bud
    BY KeepsScans DEF Keeps
  <2>2. QED
    BY <2>1 DEF write_scan_conn_enable, Calm, Same, Quiet, Bud
<1>4. ASSUME NEW h \in TimerHandle
      PROVE  Calm(s, Overwrite(s, h)) /\ Calm(s, [s EXCEPT !.timer = h])
  <2>1. Overwrite(s, h) \in Bud /\ [s EXCEPT !.timer = h] \in Bud
    BY KeepsOverwrite, KeepsTimer DEF Keeps
  <2>2. QED
    BY <2>1 DEF Overwrite, Calm, Same, Quiet, Bud
<1>5. \A v \in BOOLEAN : Calm(s, [s EXCEPT !.switch = v])
  BY DEF Calm, Same, Quiet, Bud
<1>6. \A n \in Nat : Calm(s, [s EXCEPT !.num = n])
  BY DEF Calm, Same, Quiet, Bud
<1>7. QED
  BY <1>1, <1>2, <1>3, <1>4, <1>5, <1>6

\* Whoever is no linked slave may scan and page.
LEMMA CalmRadio ==
    ASSUME NEW s \in Bud, ~LinkedSlave(s)
    PROVE  /\ \A m \in Scan : Calm(s, write_scan_conn_enable(s, m))
           /\ \A p \in Phones : Calm(s, StartPage(s, p))
BY DEF write_scan_conn_enable, StartPage, Calm, Same, Bud

LEMMA CalmOpenScan ==
    ASSUME NEW s \in Bud
    PROVE  /\ Calm(s, dual_conn_try_open_inquiry_scan(s))
           /\ Calm(s, dual_conn_try_open_inquiry_page_scan(s))
           /\ ~LinkedSlave(s) => Calm(s, OnePhoneScan(s))
<1>1. "off" \in Scan /\ "page" \in Scan /\ "both" \in Scan
  BY DEF Scan
<1>2. ~Slave(s) => ~LinkedSlave(s)
  BY DEF LinkedSlave
<1>3. Calm(s, dual_conn_try_open_inquiry_page_scan(s))
  BY <1>1, <1>2, CalmRadio, CalmSelf DEF dual_conn_try_open_inquiry_page_scan
<1>4. QED
  BY <1>1, <1>2, <1>3, CalmRadio, CalmSelf DEF dual_conn_try_open_inquiry_scan, OnePhoneScan

LEMMA CalmLinkedMaster == ASSUME NEW s \in Bud, ~Slave(s) PROVE Calm(s, LinkedMaster(s))
<1> DEFINE paged == IF page_list_empty(s) THEN s ELSE StartPage(s, Head(s.list).addr)
           t == LinkedScan(s)
           u == IF s.num = 1 THEN dual_conn_try_open_inquiry_page_scan(t) ELSE t
<1>1. "off" \in Scan /\ "page" \in Scan /\ "both" \in Scan
  BY DEF Scan
<1>2. \A x : Calm(s, x) => ~LinkedSlave(x) /\ x \in Bud
  BY DEF Calm, Same, LinkedSlave, Slave
<1>3. Calm(s, s) /\ Calm(s, paged)
  BY <1>2, CalmSelf, CalmRadio, HeadPhone
<1>4. \A m \in Scan : Calm(s, write_scan_conn_enable(paged, m))
  <2> HIDE DEF paged
  <2> TAKE m \in Scan
  <2>1. Calm(paged, write_scan_conn_enable(paged, m))
    BY <1>2, <1>3, CalmRadio
  <2>2. QED
    BY <1>3, <2>1, CalmTrans
<1>5. Calm(s, t)
  BY <1>1, <1>2, <1>3, <1>4, CalmRadio DEF LinkedScan
<1> HIDE DEF t
<1>6. Calm(s, u)
  BY <1>2, <1>5, CalmOpenScan, CalmTrans
<1> HIDE DEF u
<1>7. Calm(s, [u EXCEPT !.switch = TRUE])
  BY <1>2, <1>6, CalmSetters, CalmTrans
<1> DEFINE v == [t EXCEPT !.timer = "wait_conn"]
<1>8. Calm(s, v)
  <2>1. Calm(t, v)
    BY <1>2, <1>5, CalmSetters DEF TimerHandle, Callback
  <2>2. QED
    BY <1>5, <2>1, CalmTrans
<1>9. Calm(s, [v EXCEPT !.switch = FALSE])
  <2> HIDE DEF v
  <2>1. QED
    BY <1>2, <1>8, CalmSetters, CalmTrans
<1>10. [v EXCEPT !.switch = FALSE] = [t EXCEPT !.timer = "wait_conn", !.switch = FALSE]
  OBVIOUS
<1>11. QED
  BY <1>7, <1>9, <1>10 DEF LinkedMaster, t, u

LEMMA CalmArm ==
    ASSUME NEW s, NEW t, Calm(s, t) PROVE Calm(s, ArmAutoPair(t))
<1>1. t \in Bud /\ "auto_pair" \in TimerHandle
  BY DEF Calm, TimerHandle, Callback
<1>2. Calm(t, ArmAutoPair(t))
  BY <1>1, CalmSelf, CalmSetters DEF ArmAutoPair
<1>3. QED
  BY <1>2, CalmTrans

LEMMA CalmAlone ==
    ASSUME NEW s \in Bud, ~Linked(s) PROVE Calm(s, PairedAlone(s)) /\ Calm(s, Unpaired(s))
<1>1. \A x : Calm(s, x) => ~LinkedSlave(x) /\ x \in Bud
  BY DEF Calm, Same, LinkedSlave, Linked
<1>2. Calm(s, s) /\ Calm(s, Seek(s)) /\ Calm(s, Listen(s))
  BY CalmSelf, CalmSetters
<1>3. Calm(s, write_scan_conn_enable(Seek(s), "both"))
  <2>1. "both" \in Scan
    BY DEF Scan
  <2>2. QED
    BY <1>1, <1>2, <2>1, CalmRadio, CalmTrans
<1>4. Calm(s, OnePhoneScan(Listen(s))) /\ Calm(s, OnePhoneScan(s))
  BY <1>1, <1>2, CalmOpenScan, CalmTrans
<1> DEFINE paired == CASE connect_dev(s) = 0 -> write_scan_conn_enable(Seek(s), "both")
                       [] connect_dev(s) = 1 -> OnePhoneScan(Listen(s))
                       [] OTHER -> Listen(s)
           unpaired == CASE connect_dev(s) = 0 -> write_scan_conn_enable(Seek(s), "both")
                         [] connect_dev(s) = 1 -> OnePhoneScan(s)
                         [] OTHER -> s
<1>5. Calm(s, paired) /\ Calm(s, unpaired)
  BY <1>2, <1>3, <1>4
<1> HIDE DEF paired, unpaired
<1>6. Calm(s, ArmAutoPair(paired)) /\ Calm(s, ArmAutoPair(unpaired))
  BY <1>5, CalmArm
<1>7. QED
  BY <1>2, <1>6 DEF PairedAlone, Unpaired, paired, unpaired

LEMMA CalmStateHandler ==
    ASSUME NEW s \in Bud PROVE Calm(s, tws_dual_conn_state_handler(s))
<1> DEFINE t == DelTimer(s)
<1>1. Calm(s, s) /\ Calm(s, t) /\ t \in Bud
  BY CalmSelf, CalmSetters DEF Calm
<1>2. Slave(t) = Slave(s) /\ Linked(t) = Linked(s)
  BY <1>1 DEF Calm, Same, Slave, Linked
<1> HIDE DEF t
<1>3. Calm(s, write_scan_conn_enable(t, "off"))
  BY <1>1, CalmSetters, CalmTrans
<1>4. ~Slave(s) => Calm(s, LinkedMaster(t))
  BY <1>1, <1>2, CalmLinkedMaster, CalmTrans
<1>5. ~Linked(s) => Calm(s, PairedAlone(t)) /\ Calm(s, Unpaired(t))
  BY <1>1, <1>2, CalmAlone, CalmTrans
<1>6. s.tws = "paired" => ~Linked(s)
  BY DEF Linked
<1>7. QED
  BY <1>1, <1>3, <1>4, <1>5, <1>6 DEF tws_dual_conn_state_handler, t

LEMMA CalmPageDevice ==
    ASSUME NEW s, Good(s) PROVE Calm(s, dual_conn_page_device(s))
<1> DEFINE h == Head(s.list)
           t == [StartPage(s, h.addr)
                    EXCEPT !.list[1].timer = TRUE, !.ptimers = @ \cup {h.addr}]
<1>1. s \in Bud
  BY GoodBud
<1>2. ASSUME ~page_list_empty(s), ~h.timer, ~Slave(s) PROVE Calm(s, t)
  <2>1. dual_conn_page_device(s) = t
    BY <1>2 DEF dual_conn_page_device
  <2>2. t \in Bud
    BY <2>1, GoodPageDevice, GoodBud
  <2>3. Same(s, t)
    <3> DEFINE u == StartPage(s, h.addr)
               v == [u EXCEPT !.list = [u.list EXCEPT ![1].timer = TRUE]]
    <3>1. h.addr \in Phones
      BY <1>1, <1>2, HeadPhone
    <3>2. u \in Bud /\ Same(s, u)
      BY <1>1, <3>1, CalmRadio, <1>2 DEF Calm, LinkedSlave
    <3> HIDE DEF u
    <3>3. Same(u, t)
      <4>1. t = [v EXCEPT !.ptimers = v.ptimers \cup {h.addr}]
        BY DEF u
      <4>2. QED
        BY <3>2, <4>1 DEF Same, Bud
    <3>4. QED
      BY <3>2, <3>3 DEF Same
  <2>4. QED
    BY <1>2, <2>2, <2>3 DEF Calm, LinkedSlave
<1>3. QED
  BY <1>1, <1>2, CalmSelf, CalmStateHandler DEF dual_conn_page_device

LEMMA CalmPageOrState == ASSUME NEW s, Good(s) PROVE Calm(s, PageOrState(s))
BY GoodBud, CalmStateHandler, CalmPageDevice DEF PageOrState

\* A pager after some setters.
LEMMA CalmThenPage ==
    ASSUME NEW s, NEW t, Calm(s, t), Good(t)
    PROVE  Calm(s, dual_conn_page_device(t)) /\ Calm(s, PageOrState(t))
BY CalmPageDevice, CalmPageOrState, CalmTrans

LEMMA CalmCallbackBody ==
    ASSUME NEW s, Good(s), NEW cb PROVE Calm(s, CallbackBody(cb, s))
<1>1. s \in Bud
  BY GoodBud
<1> DEFINE l == CancelListen(s)
           k == CancelSeek(l)
           w == write_scan_conn_enable(k, "off")
           c == CancelSeek(s)
           o == write_scan_conn_enable(s, "off")
<1>2. /\ Good(l) /\ Good(k) /\ Good(w) /\ Good(c) /\ Good(o)
      /\ l \in Bud /\ k \in Bud /\ c \in Bud
  BY GoodSetters, GoodScans, GoodBud
<1>3. Calm(s, l) /\ Calm(s, c) /\ Calm(s, o) /\ Calm(s, Listen(s))
  BY <1>1, CalmSetters
<1>4. Calm(s, k) /\ Calm(s, w) /\ Calm(s, Listen(c))
  <2>1. Calm(l, k) /\ Calm(k, w) /\ Calm(c, Listen(c))
    BY <1>2, CalmSetters
  <2>2. QED
    BY <1>3, <2>1, CalmTrans
<1>5. Calm(s, tws_auto_pair_timeout(s)) /\ Calm(s, tws_wait_conn_timeout(s))
  BY <1>2, <1>3, <1>4, CalmThenPage DEF tws_auto_pair_timeout, tws_wait_conn_timeout
<1>6. Calm(s, tws_pair_timeout(s)) /\ Calm(s, tws_create_conn_timeout(s))
  BY <1>2, <1>3, <1>4, CalmThenPage DEF tws_pair_timeout, tws_create_conn_timeout
<1>7. Calm(s, dual_conn_page_device(s)) /\ Calm(s, s)
  BY <1>1, CalmPageDevice, CalmSelf
<1>8. QED
  BY <1>3, <1>5, <1>6, <1>7 DEF CallbackBody

LEMMA CalmRunTimer == ASSUME NEW s, Good(s) PROVE Calm(s, RunTimer(s))
<1> DEFINE h == IF s.timer = "wait_conn" THEN "stale" ELSE "none"
           t == [s EXCEPT !.timer = h]
<1>1. h \in TimerHandle
  BY DEF TimerHandle
<1>2. Good(t) /\ Calm(s, t)
  <2> HIDE DEF h
  <2>1. QED
    BY <1>1, GoodBud, GoodSetters, CalmSetters
<1> HIDE DEF t
<1>3. Calm(s, CallbackBody(s.timer, t))
  BY <1>2, CalmCallbackBody, CalmTrans
<1>4. QED
  BY <1>3 DEF RunTimer, t

LEMMA CalmRunOrphan == ASSUME NEW s, Good(s), NEW cb PROVE Calm(s, RunOrphan(s, cb))
<1> DEFINE t == [s EXCEPT !.orphans = @ \ {cb}]
           u == IF cb = "wait_conn" THEN t ELSE Overwrite(t, "none")
<1>1. s \in Bud
  BY GoodBud
<1>2. Good(t) /\ Calm(s, t)
  <2>1. s.orphans \ {cb} \in SUBSET (Callback \cup {"inquiry"})
    BY <1>1 DEF Bud
  <2>2. Keeps(s, t)
    BY <1>1, <2>1, KeepsOrphans
  <2>3. Good(t) /\ t \in Bud
    BY <2>2, KeepsGood DEF Keeps
  <2>4. QED
    BY <1>1, <2>3 DEF Calm, Same, Quiet, Bud
<1> HIDE DEF t
<1>3. Good(u) /\ Calm(s, u)
  <2>1. Good(Overwrite(t, "none")) /\ Calm(t, Overwrite(t, "none"))
    BY <1>2, GoodBud, GoodSetters, CalmSetters DEF TimerHandle
  <2>2. QED
    BY <1>2, <2>1, CalmTrans
<1> HIDE DEF u
<1>4. Calm(s, CallbackBody(cb, u))
  BY <1>3, CalmCallbackBody, CalmTrans
<1>5. QED
  BY <1>4 DEF RunOrphan, u, t

\* The page list and the records of addresses have no say in it.
LEMMA CalmLists ==
    ASSUME NEW s, Good(s), NEW p \in Phones
    PROVE  /\ Calm(s, del_device_from_page_list(s, p)) /\ Calm(s, clr_device_in_page_list(s))
           /\ Calm(s, add_device_2_page_list(s, p)) /\ Calm(s, RotatePageList(s))
<1>1. s \in Bud
  BY GoodBud
<1>2. Calm(s, del_device_from_page_list(s, p))
  <2>1. del_device_from_page_list(s, p) \in Bud
    BY GoodDel, GoodBud
  <2>2. QED
    BY <1>1, <2>1 DEF del_device_from_page_list, Calm, Same, Quiet, Bud
<1>3. Calm(s, clr_device_in_page_list(s))
  <2>1. clr_device_in_page_list(s) \in Bud
    BY GoodClr, GoodBud
  <2>2. QED
    BY <1>1, <2>1 DEF clr_device_in_page_list, Calm, Same, Quiet, Bud
<1>4. Calm(s, add_device_2_page_list(s, p))
  <2>1. add_device_2_page_list(s, p) \in Bud
    BY GoodAdd, GoodBud
  <2>2. QED
    BY <1>1, <2>1 DEF add_device_2_page_list, Calm, Same, Quiet, Bud
<1>5. Calm(s, RotatePageList(s))
  <2>1. RotatePageList(s) \in Bud
    BY GoodRotate, GoodBud
  <2>2. QED
    BY <1>1, <2>1 DEF RotatePageList, Calm, Same, Quiet, Bud
<1>6. QED
  BY <1>2, <1>3, <1>4, <1>5

LEMMA CalmAddr ==
    ASSUME NEW s \in Bud, NEW a \in Phones \cup {NoPhone}
    PROVE  /\ Calm(s, [s EXCEPT !.addr0 = a])
           /\ Calm(s, [s EXCEPT !.addr1 = a])
           /\ Calm(s, [s EXCEPT !.addr2 = a])
BY DEF Calm, Same, Quiet, Bud

LEMMA CalmPageTimeout ==
    ASSUME NEW s, Good(s), NEW p \in s.ptimers
    PROVE  Calm(s, dual_conn_page_device_timeout(s, p))
<1> DEFINE e == s.list[IndexOf(s.list, p)]
           rest == Without(s.list, p)
           kept == IF e.late THEN rest ELSE Append(rest, [e EXCEPT !.timer = FALSE])
           t == [s EXCEPT !.ptimers = @ \ {p}]
           u == [t EXCEPT !.list = kept]
<1>1. s \in Bud /\ s.list \in Seq(PageDevice) /\ Once(s.list)
  BY GoodBud DEF Good
<1>2. p \in Addrs(s.list)
  BY <1>1, TimedListed DEF Good
<1>3. kept \in Seq(PageDevice)
  <2>1. IndexOf(s.list, p) \in DOMAIN s.list
    BY <1>2 DEF IndexOf, Addrs
  <2>2. e \in PageDevice
    BY <2>1, <1>1, LenProperties
  <2>3. [e EXCEPT !.timer = FALSE] \in PageDevice
    BY <2>2 DEF PageDevice
  <2>4. rest \in Seq(PageDevice)
    BY <1>1, WithoutPhone
  <2> HIDE DEF e, rest
  <2>5. QED
    BY <2>3, <2>4, AppendProperties
<1> HIDE DEF kept
<1>4. u \in Bud /\ Calm(s, u)
  <2>1. t \in Bud /\ Calm(s, t)
    BY <1>1 DEF Calm, Same, Quiet, Bud
  <2> HIDE DEF t
  <2>2. u \in Bud /\ Calm(t, u)
    BY <1>3, <2>1 DEF Calm, Same, Quiet, Bud
  <2>3. QED
    BY <2>1, <2>2, CalmTrans
<1> HIDE DEF u
<1> DEFINE v == PageCancel(u)
<1>5. v \in Bud /\ Calm(s, v)
  BY <1>4, CalmSetters, CalmTrans DEF Calm
<1> HIDE DEF v
<1>6. Calm(s, tws_dual_conn_state_handler(v))
  BY <1>5, CalmStateHandler, CalmTrans
<1>7. QED
  BY <1>2, <1>6 DEF dual_conn_page_device_timeout, v, u, t, kept

LEMMA CalmCloseInquiry == ASSUME NEW s, Good(s) PROVE Calm(s, close_inquiry_scan(s))
<1> DEFINE t == [s EXCEPT !.disable = 1]
<1>1. s \in Bud
  BY GoodBud
<1>2. t \in Bud /\ Calm(s, t)
  BY <1>1 DEF Calm, Same, Quiet, Bud
<1> HIDE DEF t
<1>3. Calm(s, write_scan_conn_enable(t, "off"))
  BY <1>2, CalmSetters, CalmTrans
<1>4. QED
  BY <1>2, <1>3 DEF close_inquiry_scan, t

LEMMA CalmFirstQuiet ==
    ASSUME NEW s \in Bud, NEW p \in Phones PROVE Calm(s, FirstConnectedQuiet(s, p))
<1> DEFINE t == CASE s.tws = "paired" -> Listen(s)
                  [] Linked(s) -> [s EXCEPT !.switch = TRUE]
                  [] OTHER -> s
           counted == IF s.num = 1 THEN [t EXCEPT !.num = 2] ELSE t
           one == [t EXCEPT !.num = 1]
           first == [t EXCEPT !.num = 1, !.addr2 = p]
           Discoverable(u) == IF Linked(u) THEN dual_conn_try_open_inquiry_scan(u) ELSE u
<1>1. \A x : Calm(s, x) => x \in Bud
  BY DEF Calm
<1>2. Calm(s, t)
  BY CalmSelf, CalmSetters
<1> HIDE DEF t
<1>3. Calm(s, counted) /\ Calm(s, one)
  <2>1. \A n \in Nat : Calm(s, [t EXCEPT !.num = n])
    BY <1>1, <1>2, CalmSetters, CalmTrans
  <2>2. QED
    BY <1>2, <2>1
<1>4. Calm(s, first)
  <2> HIDE DEF one
  <2>1. Calm(s, [one EXCEPT !.addr2 = p])
    BY <1>1, <1>3, CalmAddr, CalmTrans
  <2>2. first = [one EXCEPT !.addr2 = p]
    BY DEF one
  <2>3. QED
    BY <2>1, <2>2
<1> HIDE DEF first, counted
<1>5. ASSUME NEW u, Calm(s, u) PROVE Calm(s, Discoverable(u))
  BY <1>1, <1>5, CalmOpenScan, CalmTrans
<1>6. ~Slave(s) => Calm(s, write_scan_conn_enable(counted, "page"))
  <2> SUFFICES ASSUME ~Slave(s) PROVE Calm(s, write_scan_conn_enable(counted, "page"))
    OBVIOUS
  <2>1. ~LinkedSlave(counted) /\ counted \in Bud /\ "page" \in Scan
    BY <1>3 DEF Calm, Same, LinkedSlave, Slave, Scan
  <2>2. QED
    BY <1>3, <2>1, CalmRadio, CalmTrans
<1>7. Calm(s, Discoverable(first)) /\ Calm(s, Discoverable(t))
  BY <1>2, <1>4, <1>5
<1>8. QED
  BY <1>3, <1>6, <1>7 DEF FirstConnectedQuiet, t, counted, first

LEMMA CalmFirst ==
    ASSUME NEW s, Good(s), NEW p \in Phones PROVE Calm(s, FirstConnected(s, p))
<1> DEFINE k == DelTimer(s)
           d == del_device_from_page_list(k, p)
           t == [d EXCEPT !.addr0 = p]
           n == IF t.num = 1 /\ p # t.addr2 THEN 2 ELSE t.num
           u == [t EXCEPT !.num = n]
<1>1. Good(k) /\ Calm(s, k)
  BY GoodBud, GoodSetters, CalmSetters
<1> HIDE DEF k
<1>2. d \in Bud /\ Calm(s, d)
  BY <1>1, CalmLists, CalmTrans DEF Calm
<1> HIDE DEF d
<1>3. t \in Bud /\ Calm(s, t)
  BY <1>2, CalmAddr, CalmTrans DEF Calm
<1> HIDE DEF t
<1>4. u \in Bud /\ Calm(s, u)
  <2>1. n \in Nat
    BY <1>3 DEF Bud
  <2> HIDE DEF n
  <2>2. QED
    BY <1>3, <2>1, CalmSetters, CalmTrans DEF Calm
<1>5. Calm(s, [u EXCEPT !.timer = "page_next"])
  <2>1. "page_next" \in TimerHandle
    BY DEF TimerHandle, Callback
  <2> HIDE DEF u
  <2>2. QED
    BY <1>4, <2>1, CalmSetters, CalmTrans
<1>6. [t EXCEPT !.num = IF @ = 1 /\ p # t.addr2 THEN 2 ELSE @, !.timer = "page_next"]
          = [u EXCEPT !.timer = "page_next"]
  OBVIOUS
<1>7. Calm(s, FirstConnectedQuiet(t, p))
  BY <1>3, CalmFirstQuiet, CalmTrans
<1>8. QED
  BY <1>5, <1>6, <1>7 DEF FirstConnected, t, d, k

LEMMA CalmSecond ==
    ASSUME NEW s, Good(s), NEW p \in Phones PROVE Calm(s, SecondConnected(s, p))
<1> DEFINE k == DelTimer(s)
           c == clr_device_in_page_list(k)
           v == [c EXCEPT !.addr1 = p]
           n == IF c.num = 1 THEN 2 ELSE c.num
           t == [c EXCEPT !.addr1 = p, !.num = IF @ = 1 THEN 2 ELSE @]
           u == IF t.tws = "paired" THEN Listen(t) ELSE [t EXCEPT !.switch = TRUE]
<1>1. Good(k) /\ Calm(s, k)
  BY GoodBud, GoodSetters, CalmSetters
<1> HIDE DEF k
<1>2. c \in Bud /\ Calm(s, c)
  BY <1>1, CalmLists, CalmTrans DEF Calm
<1> HIDE DEF c
<1>3. t \in Bud /\ Calm(s, t)
  <2>1. v \in Bud /\ Calm(s, v)
    BY <1>2, CalmAddr, CalmTrans DEF Calm
  <2>2. n \in Nat
    BY <1>2 DEF Bud
  <2>3. t = [v EXCEPT !.num = n]
    OBVIOUS
  <2> HIDE DEF v, n, t
  <2>4. Calm(s, t)
    BY <2>1, <2>2, <2>3, CalmSetters, CalmTrans
  <2>5. QED
    BY <2>4 DEF Calm
<1> HIDE DEF t
<1>4. u \in Bud /\ Calm(s, u)
  BY <1>3, CalmSetters, CalmTrans DEF Calm
<1> HIDE DEF u
<1>5. Calm(s, write_scan_conn_enable(u, "off"))
  BY <1>4, CalmSetters, CalmTrans
<1>6. QED
  BY <1>4, <1>5 DEF SecondConnected, u, t, c, k

LEMMA CalmHci ==
    ASSUME NEW s, Good(s), NEW ev, NEW p \in Phones
    PROVE  Calm(s, dual_conn_hci_event_handler(s, ev, p))
<1> DEFINE t == CASE ev = "lost" -> add_device_2_page_list(s, p)
                  [] ev = "rejected" -> RotatePageList(s)
                  [] OTHER -> s
           Forget(a) == IF a = p THEN NoPhone ELSE a
           a == IF t.addr0 = p THEN NoPhone ELSE t.addr0
           b == IF t.addr1 = p THEN NoPhone ELSE t.addr1
           v == [t EXCEPT !.addr0 = a]
           u == [t EXCEPT !.addr0 = Forget(@), !.addr1 = Forget(@)]
<1>1. s \in Bud /\ Calm(s, s)
  BY GoodBud, CalmSelf
<1>2. t \in Bud /\ Calm(s, t)
  BY <1>1, CalmLists DEF Calm
<1> HIDE DEF t
<1>3. u \in Bud /\ Calm(s, u)
  <2>1. a \in Phones \cup {NoPhone} /\ b \in Phones \cup {NoPhone}
    BY <1>2 DEF Bud
  <2>2. u = [v EXCEPT !.addr1 = b]
    OBVIOUS
  <2> HIDE DEF a, b, u
  <2>3. v \in Bud /\ Calm(s, v)
    BY <1>2, <2>1, CalmAddr, CalmTrans DEF Calm
  <2> HIDE DEF v
  <2>4. Calm(s, u)
    BY <2>1, <2>2, <2>3, CalmAddr, CalmTrans
  <2>5. QED
    BY <2>4 DEF Calm
<1> HIDE DEF u
<1>4. Calm(s, tws_dual_conn_state_handler(u))
  BY <1>3, CalmStateHandler, CalmTrans
<1>5. Calm(s, del_device_from_page_list(DelTimer(s), p))
  <2> DEFINE k == DelTimer(s)
  <2>1. Good(k) /\ Calm(s, k)
    BY <1>1, GoodSetters, CalmSetters
  <2> HIDE DEF k
  <2>2. Calm(s, del_device_from_page_list(k, p))
    BY <2>1, CalmLists, CalmTrans
  <2>3. QED
    BY <2>2 DEF k
<1>6. QED
  BY <1>1, <1>4, <1>5 DEF dual_conn_hci_event_handler, u, t

LEMMA CalmRx ==
    ASSUME NEW s, Good(s), NEW m, OnceEach(m) PROVE Calm(s, rx_device_info(s, m))
<1> DEFINE d == IF s.disable = 0 THEN m.disable ELSE s.disable
           v == [s EXCEPT !.disable = d]
           t == [s EXCEPT !.disable = IF @ = 0 THEN m.disable ELSE @, !.num = m.num]
           c == clr_device_in_page_list(t)
           list == RelayedList(m.addrs)
           w == [c EXCEPT !.list = list]
           u == IF m.list /\ (Slave(s) \/ m.addrs # <<>>) THEN w ELSE t
<1>1. s \in Bud /\ d \in 0..2 /\ m.num \in Nat
  BY DEF Good, Bud, OnceEach, Info
<1>2. t \in Bud /\ Calm(s, t)
  <2> HIDE DEF d
  <2>1. v \in Bud /\ Calm(s, v)
    BY <1>1 DEF Calm, Same, Quiet, Bud
  <2>2. t = [v EXCEPT !.num = m.num]
    BY DEF d
  <2> HIDE DEF v, t
  <2>3. Calm(s, t)
    BY <1>1, <2>1, <2>2, CalmSetters, CalmTrans
  <2>4. QED
    BY <2>3 DEF Calm
<1> HIDE DEF t
<1>3. c \in Bud /\ Calm(s, c)
  <2>1. c \in Bud
    BY <1>2, EmptyList DEF clr_device_in_page_list, Bud
  <2>2. Calm(t, c)
    BY <1>2, <2>1 DEF clr_device_in_page_list, Calm, Same, Quiet, Bud
  <2>3. QED
    BY <1>2, <2>1, <2>2, CalmTrans
<1>4. list \in Seq(PageDevice)
  BY RelayedDevices DEF OnceEach, Info
<1> HIDE DEF c, list
<1>5. Calm(s, w)
  <2>1. Calm(c, w)
    BY <1>3, <1>4 DEF Calm, Same, Quiet, Bud
  <2>2. QED
    BY <1>3, <2>1, CalmTrans
<1>6. u \in Bud /\ Calm(s, u)
  BY <1>2, <1>5 DEF Calm
<1> HIDE DEF u
<1>7. Calm(s, tws_dual_conn_state_handler(u))
  BY <1>6, CalmStateHandler, CalmTrans
<1>8. QED
  BY <1>6, <1>7 DEF rx_device_info, u, w, t, c, list

LEMMA CalmApp ==
    ASSUME NEW s, Good(s), NEW msg PROVE Calm(s, dual_conn_app_event_handler(s, msg))
<1> DEFINE k == Seek(s)
           l == Listen(s)
<1>1. k \in Bud /\ Calm(s, k) /\ l \in Bud /\ Calm(s, l)
  BY GoodBud, CalmSetters DEF Calm
<1> HIDE DEF k, l
<1>2. \A h \in TimerHandle : /\ Calm(s, Overwrite(k, h)) /\ Calm(s, Overwrite(l, h))
                            /\ Calm(s, [k EXCEPT !.timer = h])
  BY <1>1, CalmSetters, CalmTrans
<1>3. {"create_conn", "pair", "msg_wait_pair", "msg_start_pair", "msg_start_conn"}
          \subseteq TimerHandle
  BY DEF TimerHandle, Callback
<1>4. QED
  BY <1>1, <1>2, <1>3 DEF dual_conn_app_event_handler, k, l

LEMMA CalmPageMsg ==
    ASSUME NEW s, Good(s), Len(s.list) < 2, NEW added \in Seq(Phones),
           \A i, j \in DOMAIN added : added[i] = added[j] => i = j
    PROVE  Calm(s, page_device_msg_handler(s, added))
<1> DEFINE kept == IF ~page_list_empty(s) /\ Head(s.list).addr \in ToSet(added)
                   THEN <<>> ELSE s.list
           list == kept \o RelayedList(added)
           x == s.ptimers \ ToSet(added)
           v == [s EXCEPT !.list = list]
           t == [s EXCEPT !.list = kept \o RelayedList(added), !.ptimers = @ \ ToSet(added)]
           d == DelTimer(t)
           k == CancelSeek(d)
           l == CancelListen(k)
           w == write_scan_conn_enable(l, "off")
<1>1. s \in Bud /\ s.list \in Seq(PageDevice)
  BY GoodBud
<1>2. Good(t)
  BY GoodPageMsgList
<1>3. Calm(s, t)
  <2>1. list \in Seq(PageDevice)
    BY <1>1, RelayedDevices, ConcatProperties, EmptyList
  <2>2. t = [v EXCEPT !.ptimers = x]
    OBVIOUS
  <2>3. t \in Bud
    BY <1>2, GoodBud
  <2> HIDE DEF list, x, t
  <2>4. v \in Bud /\ Same(s, v) /\ (Quiet(s) => Quiet(v))
    BY <1>1, <2>1 DEF Same, Quiet, Bud
  <2> HIDE DEF v
  <2>5. QED
    BY <2>2, <2>3, <2>4 DEF Calm, Same, Quiet, Bud
<1> HIDE DEF t
<1>4. Good(d) /\ Calm(s, d)
  BY <1>2, <1>3, GoodBud, GoodSetters, CalmSetters, CalmTrans
<1> HIDE DEF d
<1>5. Good(k) /\ Calm(s, k)
  BY <1>4, GoodBud, GoodSetters, CalmSetters, CalmTrans
<1> HIDE DEF k
<1>6. Good(l) /\ Calm(s, l)
  BY <1>5, GoodBud, GoodSetters, CalmSetters, CalmTrans
<1> HIDE DEF l
<1>7. Good(w) /\ Calm(s, w)
  BY <1>6, GoodBud, GoodScans, CalmSetters, CalmTrans
<1> HIDE DEF w
<1>8. Calm(s, dual_conn_page_device(w))
  BY <1>7, CalmThenPage
<1>9. QED
  BY <1>8 DEF page_device_msg_handler, w, l, k, d, t, kept

\* A new slave is quiet once it knows; the other link events only keep what is decided
\* elsewhere.
LEMMA NewSlaveQuiet ==
    ASSUME NEW s \in Bud, ~s.off
    PROVE  /\ Quiet(TwsConnected(s, "slave"))
           /\ Quiet(RoleSwitched(s, "slave"))
BY DEF TwsConnected, RoleSwitched, Quiet, PageCancel, write_scan_conn_enable, Bud

LEMMA SameConnected == ASSUME NEW s, Good(s), NEW role PROVE Same(s, TwsConnected(s, role))
<1> DEFINE t == [s EXCEPT !.switch = FALSE]
           w == write_scan_conn_enable(s, "off")
<1>1. Good(t) /\ Calm(s, t) /\ w \in Bud /\ Calm(s, w) /\ Calm(s, s)
  BY GoodBud, GoodSetters, GoodScans, CalmSetters, CalmSelf
<1> HIDE DEF t, w
<1>2. Calm(s, PageOrState(t)) /\ Calm(s, PageCancel(w))
  BY <1>1, CalmThenPage, CalmSetters, CalmTrans
<1>3. QED
  BY <1>1, <1>2 DEF TwsConnected, Calm, t, w

LEMMA SameSwitched == ASSUME NEW s, Good(s), NEW role PROVE Same(s, RoleSwitched(s, role))
<1> DEFINE w == write_scan_conn_enable(s, "off")
<1>1. w \in Bud /\ Calm(s, w) /\ Calm(s, s)
  BY GoodBud, GoodScans, CalmSetters, CalmSelf
<1> HIDE DEF w
<1>2. Calm(s, PageCancel(w))
  BY <1>1, CalmSetters, CalmTrans
<1>3. QED
  BY <1>1, <1>2 DEF RoleSwitched, Calm, w

LEMMA SameTrans ==
    ASSUME NEW s, NEW t, NEW u, Same(s, t), Same(t, u) PROVE Same(s, u)
BY DEF Same

LEMMA SameDetached ==
    ASSUME NEW s, Good(s), NEW role, NEW reason PROVE Same(s, TwsDetached(s, role, reason))
<1> DEFINE d == DelTimer(s)
           t == PageCancel(d)
           l == Listen(t)
           c == clr_device_in_page_list(t)
<1>1. Good(d) /\ Calm(s, d)
  BY GoodBud, GoodSetters, CalmSetters
<1> HIDE DEF d
<1>2. Good(t) /\ t \in Bud /\ Calm(s, t)
  BY <1>1, GoodBud, GoodSetters, CalmSetters, CalmTrans
<1> HIDE DEF t
<1>3. Same(s, t) /\ \A u : Calm(t, u) => Same(s, u)
  BY <1>2, SameTrans DEF Calm
<1>4. \A u \in Bud, m \in Scan : Same(u, write_scan_conn_enable(u, m))
  BY DEF write_scan_conn_enable, Same, Bud
<1>5. Calm(t, l) /\ l \in Bud
  BY <1>2, CalmSetters DEF Calm
<1> HIDE DEF l
<1>6. Same(s, DetachedNoList(l))
  <2>1. Same(s, l) /\ \A m \in Scan : Same(s, write_scan_conn_enable(l, m))
    BY <1>3, <1>4, <1>5, SameTrans
  <2>2. QED
    BY <2>1 DEF DetachedNoList, Scan
<1>7. Same(s, tws_dual_conn_state_handler(c))
  <2>1. Good(c) /\ c \in Bud
    BY <1>2, GoodClr, GoodBud
  <2>2. Same(t, c)
    BY <1>2 DEF clr_device_in_page_list, Same, Bud
  <2> HIDE DEF c
  <2>3. Same(c, tws_dual_conn_state_handler(c))
    BY <2>1, CalmStateHandler DEF Calm
  <2>4. QED
    BY <1>3, <2>2, <2>3, SameTrans
<1>8. Same(s, tws_dual_conn_state_handler(t)) /\ Same(s, dual_conn_page_device(t))
  BY <1>2, <1>3, CalmStateHandler, CalmPageDevice
<1>9. Same(s, write_scan_conn_enable(t, "both"))
  BY <1>2, <1>3, <1>4, SameTrans DEF Scan
<1>10. QED
  BY <1>3, <1>6, <1>7, <1>8, <1>9 DEF TwsDetached, d, t, l, c

LEMMA CalmEsco ==
    ASSUME NEW s \in Bud PROVE Calm(s, tws_page_scan_deal_by_esco(s))
BY CalmSelf, CalmSetters, CalmStateHandler DEF tws_page_scan_deal_by_esco
=============================================================================
