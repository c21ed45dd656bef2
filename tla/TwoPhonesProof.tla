--------------------------- MODULE TwoPhonesProof ---------------------------
(***************************************************************************)
(* Proofs about TwoPhones, for any number of events and any choice of      *)
(* faults: the types; at a lone bud, that the music of a phone yields to   *)
(* the other's call, that player and detector never read the same phone,   *)
(* and that call audio and marks end with the calls; and at a lone bud or  *)
(* the master of a pair, that the music of no phone is lost between the    *)
(* players and that a settled bud is not silent.                           *)
(***************************************************************************)
EXTENDS TwoPhones, SequenceTheorems, FiniteSetTheorems, TLAPS

Message == [kind : StackEvents \cup AppMessages \cup Commands, of : Phones]
Command == [kind : Commands, of : Phones]

\* msgs has a message kind of p; every message a of p in msgs has a message b of p behind.
Holds(msgs, kind, p) == \E j \in DOMAIN msgs : msgs[j] = Msg(kind, p)
Followed(msgs, a, b, p) ==
    \A i \in DOMAIN msgs : msgs[i] = Msg(a, p)
        => \E j \in DOMAIN msgs : j > i /\ msgs[j] = Msg(b, p)

\* Calls at a lone bud, unless esco_delay_open is late: what is marked as OPEN has the
\* call audio or is to have it.
Called(x) ==
    /\ x.wait # NoPhone => x.esco = NoPhone /\ x.wait \in x.open
    /\ x.open \subseteq {x.esco, x.wait}

\* And its music, when nothing has gone wrong: the player is free or has the phone of the
\* call audio, and never a phone that is detected.
Tidy(x) ==
    /\ x.esco # NoPhone => x.player \in {NoPhone, x.esco}
    /\ x.wait # NoPhone => x.player \in {NoPhone, x.wait}
    /\ \A i \in {1, 2} : x.slots[i].of # NoPhone => x.slots[i].of # x.player

Lone(x) ==
    /\ x.out = <<>>
    /\ x.player # NoPhone => x.preempted # x.player
    /\ "late" \notin x.slips => Called(x)
    /\ x.slips \cap {"in_call", "late"} = {} => Tidy(x)

\* The phone that is noted has its call audio up.
NotedBy(x) ==
    ~link /\ "late" \notin x.slips /\ x.wait # NoPhone
        => phone[x.wait].on /\ phone[x.wait].sco = "up"

\* The audio of a call that is down will be closed.
AudioEnds ==
    \A p \in Phones : phone[p].sco # "up" =>
        /\ "late" \notin bud.slips /\ bud.esco = p => Holds(queue, "SCO_OFF", p)
        /\ Followed(queue, "SCO_ON", "SCO_OFF", p)

\* What may interrupt the other phone's music is followed by the end of the call.
CallEnds ==
    \A p \in Phones :
        /\ phone[p].sco = "may" => InCall(p)
        /\ phone[p].sco # "no" => phone[p].on
        /\ ~InCall(p) => /\ Followed(queue, "SCO_REQ", "PHONE_HANGUP", p)
                         /\ Followed(queue, "SCO_ON", "PHONE_HANGUP", p)

\* Something is still to come that takes the mark away.
Remembered(p) ==
    \/ bud.trying \/ ~phone[p].on \/ Holds(queue, "CONNECTED", p)
    \/ \E q \in Phones : InCall(q) \/ Holds(queue, "PHONE_HANGUP", q)

Alone ==
    /\ air = <<>>
    /\ \A i \in DOMAIN queue : queue[i].kind \notin Commands
    /\ Lone(bud) /\ NotedBy(bud) /\ AudioEnds /\ CallEnds
    /\ \A p \in Phones : bud.preempted = p => Remembered(p)

IInv == TypeOK /\ (~link => Alone)

(***************************************************************************)
(* The two phones.                                                         *)
(***************************************************************************)

LEMMA TheOther ==
    ASSUME NEW p \in Phones
    PROVE  /\ Other(p) \in Phones /\ Other(p) # p
           /\ \A q \in Phones : q = p \/ q = Other(p)
<1>1. IsFiniteSet(Phones) /\ Cardinality(Phones) = 2
  BY PhonesAssumption
<1>2. Cardinality(Phones \ {p}) = 1 /\ IsFiniteSet(Phones \ {p})
  BY <1>1, FS_RemoveElement
<1>3. PICK q : Phones \ {p} = {q}
  BY <1>2, FS_Singleton
<1>4. q \in Phones /\ q # p /\ \A r \in Phones : r = p \/ r = q
  BY <1>3
<1>5. Other(p) = q
  BY <1>4 DEF Other
<1>6. QED
  BY <1>4, <1>5

LEMMA NoPhoneIsNone == NoPhone \notin Phones
BY PhonesAssumption

(***************************************************************************)
(* The operators that only close, mute and detect.                         *)
(***************************************************************************)

Bad == {"in_call", "late"}

\* What the calls use stays.
SameCall(x, y) ==
    /\ y.esco = x.esco /\ y.wait = x.wait /\ y.open = x.open /\ y.trying = x.trying
    /\ y.out = x.out /\ y.slips \cap Bad = x.slips \cap Bad

\* y is x after such operators: the player is the same or free, and a phone that is
\* newly detected is not the player's.
Eased(x, y) ==
    /\ y \in Bud
    /\ SameCall(x, y)
    /\ y.preempted = x.preempted
    /\ y.player \in {x.player, NoPhone}
    /\ ~link /\ x.slips \cap Bad = {} => \A i \in {1, 2} :
           y.slots[i].of \in {x.slots[i].of, NoPhone} \/ y.slots[i].of # y.player

LEMMA EasedTrans ==
    ASSUME NEW x, NEW y, NEW z, Eased(x, y), Eased(y, z) PROVE Eased(x, z)
BY DEF Eased, SameCall

LEMMA EasedSelf == ASSUME NEW x \in Bud PROVE Eased(x, x)
BY DEF Eased, SameCall

LEMMA EasedMute ==
    ASSUME NEW x \in Bud, NEW p \in Phones
    PROVE  /\ Eased(x, a2dp_media_mute(x, p)) /\ Eased(x, a2dp_media_unmute(x, p))
           /\ a2dp_media_mute(x, p).player = x.player
           /\ a2dp_media_unmute(x, p).player = x.player
           /\ a2dp_media_unmute(x, p).stream = x.stream
BY DEF Eased, SameCall, Bud, a2dp_media_mute, a2dp_media_unmute

LEMMA EasedMediaClose ==
    ASSUME NEW x \in Bud, NEW p \in Phones
    PROVE  Eased(x, a2dp_media_close(x, p)) /\ a2dp_media_close(x, p).player = x.player
BY DEF Eased, SameCall, Bud, a2dp_media_close

LEMMA EasedClosePlayer ==
    ASSUME NEW x \in Bud, NEW p \in Some
    PROVE  /\ Eased(x, a2dp_player_close(x, p))
           /\ a2dp_player_close(x, p).player # p \/ p = NoPhone
           /\ x.player = p => a2dp_player_close(x, p).player = NoPhone
<1>1. CASE x.player # p
  BY <1>1 DEF Eased, SameCall, Bud, a2dp_player_close
<1>2. CASE x.player = p
  <2> DEFINE u == [x EXCEPT !.player = NoPhone]
             v == [u EXCEPT !.stream = "none"]
  <2>1. a2dp_player_close(x, p) = v
    BY <1>2 DEF a2dp_player_close, Bud
  <2>2. Eased(x, u) /\ u.player = NoPhone
    BY DEF Eased, SameCall, Bud, Some
  <2> HIDE DEF u
  <2>3. Eased(u, v) /\ v.player = u.player
    BY <2>2 DEF Eased, SameCall, Bud
  <2> HIDE DEF v
  <2>4. QED
    BY <1>2, <2>1, <2>2, <2>3, EasedTrans
<1>3. QED
  BY <1>1, <1>2

LEMMA EasedStop ==
    ASSUME NEW x \in Bud, NEW p \in Phones
    PROVE  /\ Eased(x, bt_stop_a2dp_slience_detect(x, p))
           /\ bt_stop_a2dp_slience_detect(x, p).player = x.player
           /\ bt_stop_a2dp_slience_detect(x, p).stream = x.stream
           /\ \A i \in {1, 2} : bt_stop_a2dp_slience_detect(x, p).slots[i].of # p
<1> DEFINE f == [i \in {1, 2} |-> IF x.slots[i].of = p THEN NoSlot ELSE x.slots[i]]
           u == [x EXCEPT !.slots = f]
           v == [u EXCEPT !.dual = FALSE]
<1>1. bt_stop_a2dp_slience_detect(x, p) = v
  BY DEF bt_stop_a2dp_slience_detect, Bud
<1>2. /\ f \in [{1, 2} -> Slot]
      /\ \A i \in {1, 2} : f[i].of \in {x.slots[i].of, NoPhone} /\ f[i].of # p
  BY NoPhoneIsNone DEF Bud, Slot, NoSlot, Some
<1> HIDE DEF f
<1>3. Eased(x, u) /\ u.slots = f /\ u.player = x.player /\ u.stream = x.stream
  BY <1>2 DEF Eased, SameCall, Bud
<1> HIDE DEF u
<1>4. Eased(u, v) /\ v.slots = u.slots /\ v.player = u.player /\ v.stream = u.stream
  BY <1>3 DEF Eased, SameCall, Bud
<1> HIDE DEF v
<1>5. QED
  BY <1>1, <1>2, <1>3, <1>4, EasedTrans

LEMMA EasedStart ==
    ASSUME NEW x \in Bud, NEW p \in Phones,
           ~link /\ x.slips \cap Bad = {} => x.player # p
    PROVE  Eased(x, bt_start_a2dp_slience_detect(x, p))
<1>1. CASE ~Streams(p)
  BY <1>1, EasedSelf DEF bt_start_a2dp_slience_detect
<1>2. CASE Streams(p)
  <2> DEFINE k == SlotOf(x, p)
             f == [x.slots EXCEPT ![k] = [of |-> p, open |-> TRUE]]
             u == [x EXCEPT !.slots = f]
             v == [u EXCEPT !.dual = TRUE]
  <2>1. bt_start_a2dp_slience_detect(x, p) = v
    BY <1>2 DEF bt_start_a2dp_slience_detect, Bud
  <2>2. k \in {1, 2}
    BY DEF SlotOf
  <2> HIDE DEF k
  <2>3. /\ f \in [{1, 2} -> Slot]
        /\ \A i \in {1, 2} : f[i].of \in {x.slots[i].of, p}
    BY <2>2, NoPhoneIsNone DEF Bud, Slot, Some
  <2> HIDE DEF f
  <2>4. Eased(x, u)
    BY <2>3 DEF Eased, SameCall, Bud
  <2> HIDE DEF u
  <2>5. Eased(u, v)
    BY <2>4 DEF Eased, SameCall, Bud
  <2>6. QED
    BY <2>1, <2>4, <2>5, EasedTrans
<1>3. QED
  BY <1>1, <1>2

LEMMA EasedKey ==
    ASSUME NEW x \in Bud, NEW p \in Phones, NEW key \in {"none", "play", "pause"}
    PROVE  Eased(x, Key(x, p, key)) /\ Key(x, p, key).player = x.player
<1> DEFINE f == [x.ask EXCEPT ![p] = key]
<1>1. f \in [Phones -> {"none", "play", "pause"}]
  BY DEF Bud
<1>2. Key(x, p, key) = [x EXCEPT !.ask = f]
  BY DEF Key, Bud
<1> HIDE DEF f
<1>3. [x EXCEPT !.ask = f] \in Bud
  BY <1>1 DEF Bud
<1>4. Eased(x, [x EXCEPT !.ask = f]) /\ [x EXCEPT !.ask = f].player = x.player
  BY <1>3 DEF Eased, SameCall, Bud
<1>5. QED
  BY <1>2, <1>4

LEMMA EasedReopen ==
    ASSUME NEW x \in Bud, NEW p \in Phones
    PROVE  Eased(x, Reopen(x, p)) /\ Reopen(x, p).player = x.player
<1> DEFINE u == a2dp_media_unmute(x, p)
<1>1. Eased(x, u) /\ u.player = x.player
  BY EasedMute
<1>2. Reopen(x, p) = a2dp_media_close(u, p)
  BY DEF Reopen
<1> HIDE DEF u
<1>3. u \in Bud
  BY <1>1 DEF Eased
<1>4. QED
  BY <1>1, <1>2, <1>3, EasedMediaClose, EasedTrans

LEMMA EasedTwsClose ==
    ASSUME NEW x \in Bud, NEW p \in Phones
    PROVE  Eased(x, tws_a2dp_player_close(x, p)) /\ tws_a2dp_player_close(x, p).player # p
<1> DEFINE u == a2dp_player_close(x, p)
           v == bt_stop_a2dp_slience_detect(u, p)
<1>1. tws_a2dp_player_close(x, p) = Reopen(v, p)
  BY DEF tws_a2dp_player_close
<1>2. Eased(x, u) /\ u \in Bud /\ u.player # p
  BY EasedClosePlayer, NoPhoneIsNone DEF Eased, Some
<1> HIDE DEF u
<1>3. Eased(u, v) /\ v \in Bud /\ v.player # p
  BY <1>2, EasedStop DEF Eased
<1> HIDE DEF v
<1>4. Eased(v, Reopen(v, p)) /\ Reopen(v, p).player # p
  BY <1>3, EasedReopen
<1>5. QED
  BY <1>1, <1>2, <1>3, <1>4, EasedTrans

LEMMA EasedBackground ==
    ASSUME NEW x \in Bud, NEW p \in Phones
    PROVE  Eased(x, Background(x, p)) /\ (x.player = p => Background(x, p).player = NoPhone)
<1> DEFINE u == a2dp_player_close(x, p)
           v == a2dp_media_mute(u, p)
<1>1. Background(x, p) = bt_start_a2dp_slience_detect(v, p)
  BY DEF Background
<1>2. Eased(x, u) /\ u \in Bud /\ u.player # p /\ (x.player = p => u.player = NoPhone)
  BY EasedClosePlayer, NoPhoneIsNone DEF Eased, Some
<1> HIDE DEF u
<1>3. Eased(u, v) /\ v \in Bud /\ v.player = u.player
  BY <1>2, EasedMute DEF Eased
<1> HIDE DEF v
<1>4. Eased(v, bt_start_a2dp_slience_detect(v, p))
  BY <1>2, <1>3, EasedStart
<1>5. QED
  BY <1>1, <1>2, <1>3, <1>4, EasedTrans DEF Eased

LEMMA Detected ==
    ASSUME NEW x \in Bud PROVE bt_slience_get_detect_addr(x) \in Some
BY DEF bt_slience_get_detect_addr, Bud, Slot

LEMMA EasedClose ==
    ASSUME NEW x \in Bud, NEW p \in Phones
    PROVE  Eased(x, Close(x, p)) /\ Close(x, p).player # p
<1> DEFINE y == tws_a2dp_player_close(x, p)
           q == bt_slience_get_detect_addr(y)
           u == bt_stop_a2dp_slience_detect(y, q)
<1>1. Close(x, p) = IF q = NoPhone THEN y ELSE Reopen(u, q)
  BY DEF Close
<1>2. Eased(x, y) /\ y \in Bud /\ y.player # p
  BY EasedTwsClose DEF Eased
<1> HIDE DEF y
<1>3. q \in Some
  BY <1>2, Detected
<1> HIDE DEF q
<1>4. CASE q = NoPhone
  BY <1>1, <1>2, <1>4
<1>5. CASE q # NoPhone
  <2>1. q \in Phones
    BY <1>3, <1>5 DEF Some
  <2>2. Eased(y, u) /\ u \in Bud
    BY <1>2, <2>1, EasedStop DEF Eased
  <2> HIDE DEF u
  <2>3. Eased(u, Reopen(u, q))
    BY <2>1, <2>2, EasedReopen
  <2>4. u.player # p /\ Reopen(u, q).player # p
    BY <1>2, <2>2, <2>3, NoPhoneIsNone DEF Eased
  <2>5. QED
    BY <1>1, <1>2, <1>5, <2>2, <2>3, <2>4, EasedTrans
<1>6. QED
  BY <1>4, <1>5

LEMMA EasedSwitch ==
    ASSUME NEW x \in Bud, NEW p \in Phones
    PROVE  Eased(x, Switch(x, p))
<1> DEFINE q == bt_slience_get_detect_addr(x)
           y == Background(x, p)
           u == bt_stop_a2dp_slience_detect(y, q)
<1>1. Switch(x, p) = IF q = NoPhone THEN x ELSE Reopen(u, q)
  BY DEF Switch
<1>2. Eased(x, y) /\ y \in Bud
  BY EasedBackground DEF Eased
<1> HIDE DEF y
<1>3. q \in Some
  BY Detected
<1> HIDE DEF q
<1>4. CASE q = NoPhone
  BY <1>1, <1>4, EasedSelf
<1>5. CASE q # NoPhone
  <2>1. q \in Phones
    BY <1>3, <1>5 DEF Some
  <2>2. Eased(y, u) /\ u \in Bud
    BY <1>2, <2>1, EasedStop DEF Eased
  <2> HIDE DEF u
  <2>3. Eased(u, Reopen(u, q))
    BY <2>1, <2>2, EasedReopen
  <2>4. QED
    BY <1>1, <1>2, <1>5, <2>2, <2>3, EasedTrans
<1>6. QED
  BY <1>4, <1>5

(***************************************************************************)
(* The operators that play.                                                *)
(***************************************************************************)

Sane(x) == x \in Bud /\ (~link => Lone(x))

\* No call has its audio here, or is to have it, but that of p.
Free(x, p) ==
    ~link /\ x.slips \cap Bad = {} => x.wait \in {NoPhone, p} /\ x.esco \in {NoPhone, p}

LEMMA EasedTidy ==
    ASSUME ~link, NEW x, NEW y, Tidy(x), Eased(x, y), x.slips \cap Bad = {} PROVE Tidy(y)
<1>1. /\ y.esco # NoPhone => y.player \in {NoPhone, y.esco}
      /\ y.wait # NoPhone => y.player \in {NoPhone, y.wait}
  BY DEF Tidy, Eased, SameCall
<1>2. \A i \in {1, 2} : y.slots[i].of # NoPhone => y.slots[i].of # y.player
  BY DEF Tidy, Eased
<1>3. QED
  BY <1>1, <1>2 DEF Tidy

LEMMA CalledKept ==
    ASSUME NEW x, NEW y, ~link, Sane(x), SameCall(x, y), "late" \notin y.slips PROVE Called(y)
<1>1. "late" \notin x.slips
  BY DEF SameCall, Bad
<1>2. QED
  BY <1>1 DEF SameCall, Sane, Lone, Called

LEMMA EasedSane == ASSUME NEW x, NEW y, Sane(x), Eased(x, y) PROVE Sane(y)
<1>1. y \in Bud
  BY DEF Eased
<1>2. ASSUME ~link, y.slips \cap Bad = {} PROVE Tidy(y)
  <2>1. Tidy(x) /\ x.slips \cap Bad = {}
    BY <1>2 DEF Eased, SameCall, Sane, Lone, Bad
  <2>2. QED
    BY <1>2, <2>1, EasedTidy
<1>3. ~link => y.out = <<>> /\ (y.player # NoPhone => y.preempted # y.player)
  BY DEF Eased, SameCall, Sane, Lone
<1>4. ~link /\ "late" \notin y.slips => Called(y)
  BY CalledKept DEF Eased
<1>5. QED
  BY <1>1, <1>2, <1>3, <1>4 DEF Sane, Lone, Bad

\* y is x but for its history, to which s may have been added.
Slipped(x, y, s) ==
    /\ y \in Bud /\ y.slips \subseteq x.slips \cup {s} /\ x.slips \subseteq y.slips
    /\ y.player = x.player /\ y.slots = x.slots /\ y.preempted = x.preempted
    /\ y.trying = x.trying /\ y.esco = x.esco /\ y.wait = x.wait /\ y.open = x.open
    /\ y.out = x.out

LEMMA SlipTypes ==
    ASSUME NEW x \in Bud, NEW s \in {"robbed", "in_call", "late"}, NEW h
    PROVE  /\ Slipped(x, Slip(x, s, h), s)
           /\ h => s \in Slip(x, s, h).slips
           /\ ~h => Slip(x, s, h) = x
<1> DEFINE y == [x EXCEPT !.slips = @ \cup {s}]
<1>1. Slipped(x, x, s)
  BY DEF Slipped
<1>2. Slipped(x, y, s) /\ s \in y.slips
  BY DEF Slipped, Bud
<1>3. (h => Slip(x, s, h) = y) /\ (~h => Slip(x, s, h) = x)
  BY DEF Slip
<1> HIDE DEF y
<1>4. QED
  BY <1>1, <1>2, <1>3

LEMMA Opened ==
    ASSUME TypeOK, NEW x \in Bud, NEW p \in Phones
    PROVE  LET y == a2dp_player_open(x, p)
           IN  /\ y \in Bud /\ SameCall(x, y) /\ y.preempted = x.preempted
               /\ y.slots = x.slots /\ y.player \in {x.player, p}
<1>1. CASE x.stream \in {"start", "run"}
  BY <1>1 DEF a2dp_player_open, SameCall
<1>2. CASE x.stream \notin {"start", "run"}
  <2> DEFINE st == IF short = "no" THEN "run" ELSE short
             u == [x EXCEPT !.player = p]
             v == [u EXCEPT !.stream = st]
             h == x.player \notin {NoPhone, p}
  <2>1. a2dp_player_open(x, p) = Slip(v, "robbed", h)
    BY <1>2 DEF a2dp_player_open, Bud
  <2>2. st \in {"none", "parse", "start", "run"}
    BY DEF TypeOK
  <2>3. /\ u \in Bud /\ SameCall(x, u) /\ u.preempted = x.preempted
        /\ u.slots = x.slots /\ u.player = p
    BY DEF SameCall, Bud, Some
  <2> HIDE DEF u, st
  <2>4. /\ v \in Bud /\ SameCall(u, v) /\ v.preempted = u.preempted
        /\ v.slots = u.slots /\ v.player = p
    BY <2>2, <2>3 DEF SameCall, Bud
  <2> HIDE DEF v, h
  <2> DEFINE w == Slip(v, "robbed", h)
  <2>5. Slipped(v, w, "robbed")
    BY <2>4, SlipTypes
  <2>6. a2dp_player_open(x, p) = w
    BY <2>1
  <2> HIDE DEF w
  <2>7. w.slips \cap Bad = v.slips \cap Bad
    BY <2>5 DEF Bad, Slipped
  <2>8. SameCall(x, w)
    BY <2>3, <2>4, <2>5, <2>7 DEF SameCall, Slipped
  <2>9. QED
    BY <2>3, <2>4, <2>5, <2>6, <2>8 DEF Slipped
<1>3. QED
  BY <1>1, <1>2

LEMMA PlaySane ==
    ASSUME TypeOK, NEW x, Sane(x), NEW p \in Phones, Free(x, p)
    PROVE  LET y == Play(x, p)
           IN  Sane(y) /\ SameCall(x, y) /\ y.preempted \in {x.preempted, NoPhone}
<1> DEFINE w == a2dp_media_unmute(x, p)
           y == bt_stop_a2dp_slience_detect(w, p)
           e == IF y.preempted = p THEN NoPhone ELSE y.preempted
           d == IF y.drop = p THEN NoPhone ELSE y.drop
           u == [y EXCEPT !.preempted = e]
           v == [u EXCEPT !.drop = d]
           z == [v EXCEPT !.told = FALSE]
           busy == z.stream \in {"start", "run"} /\ z.player # p
<1>1. Play(x, p) = IF busy THEN bt_start_a2dp_slience_detect(z, p) ELSE a2dp_player_open(z, p)
  BY DEF Play, Bud
<1>2. Eased(x, w) /\ w \in Bud /\ w.player = x.player
  BY EasedMute DEF Eased, Sane
<1> HIDE DEF w
<1>3. /\ Eased(w, y) /\ y \in Bud /\ y.player = w.player
      /\ \A i \in {1, 2} : y.slots[i].of # p
  BY <1>2, EasedStop DEF Eased
<1>4. Eased(x, y) /\ Sane(y)
  BY <1>2, <1>3, EasedTrans, EasedSane
<1> HIDE DEF y
<1>5. e \in {y.preempted, NoPhone} /\ e # p /\ e \in Some /\ d \in Some
  BY <1>3, NoPhoneIsNone DEF Bud, Some
<1> HIDE DEF e, d
<1>6. /\ u \in Bud /\ SameCall(y, u) /\ u.player = y.player /\ u.slots = y.slots
      /\ u.preempted = e
  BY <1>3, <1>5 DEF Bud, SameCall
<1> HIDE DEF u
<1>7. /\ v \in Bud /\ SameCall(u, v) /\ v.player = u.player /\ v.slots = u.slots
      /\ v.preempted = e
  BY <1>5, <1>6 DEF Bud, SameCall
<1> HIDE DEF v
<1>8. /\ z \in Bud /\ SameCall(v, z) /\ z.player = v.player /\ z.slots = v.slots
      /\ z.preempted = e
  BY <1>7 DEF Bud, SameCall
<1> HIDE DEF z
<1>9. SameCall(y, z) /\ SameCall(x, z)
  BY <1>4, <1>6, <1>7, <1>8 DEF SameCall, Eased
<1>10. Sane(z)
  BY <1>4, <1>5, <1>6, <1>7, <1>8, <1>9 DEF Sane, Lone, Tidy, Called, SameCall, Bad
<1>11. CASE busy
  <2> DEFINE f == bt_start_a2dp_slience_detect(z, p)
  <2>1. Eased(z, f)
    BY <1>8, <1>11, EasedStart
  <2>2. QED
    BY <1>1, <1>4, <1>5, <1>8, <1>9, <1>10, <1>11, <2>1, EasedSane DEF Eased, SameCall
<1>12. CASE ~busy
  <2> DEFINE f == a2dp_player_open(z, p)
  <2>1. /\ f \in Bud /\ SameCall(z, f) /\ f.preempted = z.preempted
        /\ f.slots = z.slots /\ f.player \in {z.player, p}
    BY <1>8, Opened
  <2>2. Play(x, p) = f
    BY <1>1, <1>12
  <2> HIDE DEF f
  <2>3. ~link => f.out = <<>> /\ (f.player # NoPhone => f.preempted # f.player)
    BY <1>5, <1>8, <1>10, <2>1 DEF Sane, Lone, SameCall
  <2>4. ASSUME ~link, f.slips \cap Bad = {} PROVE Tidy(f)
    <3>1. Tidy(z) /\ x.wait \in {NoPhone, p} /\ x.esco \in {NoPhone, p}
      BY <1>9, <1>10, <2>1, <2>4 DEF Free, Sane, Lone, SameCall, Bad
    <3>2. \A i \in {1, 2} : f.slots[i].of # NoPhone => f.slots[i].of # f.player
      BY <1>3, <1>6, <1>7, <1>8, <2>1, <3>1 DEF Tidy, Called
    <3>3. QED
      BY <1>9, <2>1, <3>1, <3>2 DEF Tidy, Called, SameCall
  <2>5. Sane(f) /\ SameCall(x, f)
    <3>1. SameCall(x, f)
      BY <1>9, <2>1 DEF SameCall
    <3>2. QED
      BY <2>1, <2>3, <2>4, <3>1, CalledKept DEF Sane, Lone, Bad
  <2>6. f.preempted \in {x.preempted, NoPhone}
    BY <1>4, <1>5, <1>8, <2>1 DEF Eased
  <2>7. QED
    BY <2>2, <2>5, <2>6
<1>13. QED
  BY <1>11, <1>12

(***************************************************************************)
(* The audio of the calls.                                                 *)
(***************************************************************************)

\* y is x after the audio of p was opened, or noted to be opened.
Heeds(x, y, p) ==
    /\ Sane(y)
    /\ "late" \notin y.slips => "late" \notin x.slips
    /\ y.preempted = x.preempted /\ y.trying = x.trying /\ y.out = x.out
    /\ y.esco \in {x.esco, p}
    /\ "late" \notin y.slips => y.wait = x.wait \/ (y.wait = p /\ phone[p].sco = "up")

LEMMA EscoPlay ==
    ASSUME NEW x, Sane(x), NEW p \in Phones
    PROVE  Heeds(x, bt_phone_esco_play(x, p), p)
<1> DEFINE c == a2dp_player_close(x, x.player)
           y == IF a2dp_player_runing(x) THEN a2dp_media_close(c, x.player) ELSE x
           k == bt_stop_a2dp_slience_detect(y, p)
           m == a2dp_media_close(k, p)
           z == [m EXCEPT !.open = @ \cup {p}]
           o == [z EXCEPT !.esco = p]
           n == [z EXCEPT !.wait = IF @ = NoPhone THEN p ELSE @]
           g == Slip(o, "late", x.wait # NoPhone)
           h == Slip(n, "late", x.wait \notin {NoPhone, p} \/ phone[p].sco # "up")
<1>1. bt_phone_esco_play(x, p) = IF x.esco # NoPhone THEN x ELSE IF ~tone THEN g ELSE h
  BY DEF bt_phone_esco_play
<1>2. CASE x.esco # NoPhone
  BY <1>1, <1>2 DEF Heeds
<1>3. CASE x.esco = NoPhone
  <2>1. Eased(x, y) /\ y \in Bud /\ y.player = NoPhone
    <3>1. CASE a2dp_player_runing(x)
      <4>1. x.player \in Phones
        BY <3>1 DEF a2dp_player_runing, Sane, Bud, Some
      <4>2. Eased(x, c) /\ c \in Bud /\ c.player = NoPhone
        BY <4>1, EasedClosePlayer DEF Eased, Sane, Some
      <4> HIDE DEF c
      <4>3. Eased(c, y) /\ y.player = c.player
        BY <3>1, <4>1, <4>2, EasedMediaClose
      <4>4. QED
        BY <4>2, <4>3, EasedTrans DEF Eased
    <3>2. CASE ~a2dp_player_runing(x)
      BY <3>2, EasedSelf DEF a2dp_player_runing, Sane
    <3>3. QED
      BY <3>1, <3>2
  <2> HIDE DEF y
  <2>2. Eased(y, k) /\ k \in Bud /\ k.player = NoPhone
    BY <2>1, EasedStop DEF Eased
  <2> HIDE DEF k
  <2>3. Eased(k, m) /\ m \in Bud /\ m.player = NoPhone
    BY <2>2, EasedMediaClose DEF Eased
  <2> HIDE DEF m
  <2>4. Eased(x, m)
    BY <2>1, <2>2, <2>3, EasedTrans
  <2>5. /\ z \in Bud /\ z.player = NoPhone /\ z.preempted = x.preempted
        /\ z.slips \cap Bad = x.slips \cap Bad /\ z.slips = m.slips
        /\ z.esco = NoPhone /\ z.wait = x.wait /\ z.open = x.open \cup {p}
        /\ z.trying = x.trying /\ z.out = x.out
    BY <1>3, <2>3, <2>4 DEF Eased, SameCall, Bud
  <2> HIDE DEF z
  <2>6. CASE ~tone
    <3>1. /\ o \in Bud /\ o.player = NoPhone /\ o.preempted = x.preempted
          /\ o.slips \cap Bad = x.slips \cap Bad
          /\ o.esco = p /\ o.wait = x.wait /\ o.open = x.open \cup {p}
          /\ o.trying = x.trying /\ o.out = x.out
      BY <2>5 DEF Bud, Some
    <3> HIDE DEF o
    <3>2. Slipped(o, g, "late") /\ (x.wait # NoPhone => "late" \in g.slips)
      BY <3>1, SlipTypes
    <3> HIDE DEF g
    <3>3. ~link => g.out = <<>> /\ g.player = NoPhone
      BY <3>1, <3>2 DEF Slipped, Sane, Lone
    <3>4. ASSUME ~link, "late" \notin g.slips PROVE Called(g)
      <4>1. "late" \notin x.slips /\ x.wait = NoPhone
        BY <3>1, <3>2, <3>4 DEF Slipped, Bad
      <4>2. x.open \subseteq {NoPhone}
        BY <1>3, <3>4, <4>1 DEF Sane, Lone, Called
      <4>3. QED
        BY <3>1, <3>2, <4>1, <4>2, NoPhoneIsNone DEF Called, Slipped, Sane, Bud
    <3>5. Sane(g)
      BY <3>2, <3>3, <3>4 DEF Sane, Lone, Slipped, Bad, Tidy
    <3>6. Heeds(x, g, p)
      BY <3>1, <3>2, <3>5 DEF Heeds, Slipped, Bad
    <3>7. QED
      BY <1>1, <1>3, <2>6, <3>6
  <2>7. CASE tone
    <3> DEFINE w == IF z.wait = NoPhone THEN p ELSE z.wait
    <3>1. n = [z EXCEPT !.wait = w] /\ w \in Some
      BY <2>5 DEF Bud, Some
    <3>2. w \in {z.wait, p} /\ (z.wait \in {NoPhone, p} => w = p)
      OBVIOUS
    <3> HIDE DEF w
    <3>3. /\ n \in Bud /\ n.player = NoPhone /\ n.preempted = x.preempted
          /\ n.slips \cap Bad = x.slips \cap Bad
          /\ n.esco = NoPhone /\ n.wait = w /\ n.open = x.open \cup {p}
          /\ n.trying = x.trying /\ n.out = x.out
      BY <2>5, <3>1 DEF Bud
    <3> HIDE DEF n
    <3>4. /\ Slipped(n, h, "late")
          /\ x.wait \notin {NoPhone, p} \/ phone[p].sco # "up" => "late" \in h.slips
      BY <3>3, SlipTypes
    <3> HIDE DEF h
    <3>5. ~link => h.out = <<>> /\ h.player = NoPhone
      BY <3>3, <3>4 DEF Slipped, Sane, Lone
    <3>6. ASSUME ~link, "late" \notin h.slips PROVE Called(h)
      <4>1. "late" \notin x.slips /\ x.wait \in {NoPhone, p}
        BY <3>3, <3>4, <3>6 DEF Slipped, Bad
      <4>2. x.open \subseteq {NoPhone, p}
        BY <1>3, <3>6, <4>1 DEF Sane, Lone, Called
      <4>3. QED
        BY <2>5, <3>2, <3>3, <3>4, <4>1, <4>2, NoPhoneIsNone DEF Called, Slipped, Sane, Bud
    <3>7. Sane(h)
      BY <3>4, <3>5, <3>6 DEF Sane, Lone, Slipped, Bad, Tidy
    <3>8. "late" \notin h.slips => h.wait = x.wait \/ (h.wait = p /\ phone[p].sco = "up")
      BY <2>5, <3>2, <3>3, <3>4 DEF Slipped
    <3>9. Heeds(x, h, p)
      BY <1>3, <3>3, <3>4, <3>7, <3>8 DEF Heeds, Slipped, Bad
    <3>10. QED
      BY <1>1, <1>3, <2>7, <3>9
  <2>8. QED
    BY <2>6, <2>7
<1>4. QED
  BY <1>2, <1>3

\* y is x after the audio of p was closed.
Hushed(x, y, p) ==
    /\ Sane(y)
    /\ y.slips = x.slips /\ y.preempted = x.preempted /\ y.trying = x.trying
    /\ y.out = x.out /\ y.wait = x.wait
    /\ y.esco \in {x.esco, NoPhone} /\ y.esco # p

LEMMA EscoStop ==
    ASSUME NEW x, Sane(x), NEW p \in Phones
    PROVE  Hushed(x, bt_phone_esco_stop(x, p), p)
<1> DEFINE u == [x EXCEPT !.esco = NoPhone]
           v == [u EXCEPT !.open = @ \ {p}]
<1>1. CASE x.esco # p
  BY <1>1 DEF bt_phone_esco_stop, Hushed
<1>2. CASE x.esco = p
  <2>1. bt_phone_esco_stop(x, p) = v
    BY <1>2 DEF bt_phone_esco_stop, Sane, Bud
  <2>2. /\ u \in Bud /\ u.esco = NoPhone /\ u.open = x.open /\ u.slips = x.slips
        /\ u.preempted = x.preempted /\ u.trying = x.trying /\ u.out = x.out
        /\ u.wait = x.wait /\ u.player = x.player /\ u.slots = x.slots
    BY DEF Sane, Bud, Some
  <2> HIDE DEF u
  <2>3. /\ v \in Bud /\ v.esco = NoPhone /\ v.open = x.open \ {p} /\ v.slips = x.slips
        /\ v.preempted = x.preempted /\ v.trying = x.trying /\ v.out = x.out
        /\ v.wait = x.wait /\ v.player = x.player /\ v.slots = x.slots
    BY <2>2 DEF Bud
  <2> HIDE DEF v
  <2>4. p # NoPhone
    BY NoPhoneIsNone
  <2>5. ASSUME ~link, v.slips \cap Bad = {} PROVE Tidy(v)
    BY <1>2, <2>3, <2>4, <2>5 DEF Sane, Lone, Tidy, Bad
  <2>6. ASSUME ~link, "late" \notin v.slips PROVE Called(v)
    BY <1>2, <2>3, <2>4, <2>6 DEF Sane, Lone, Called
  <2>7. Sane(v)
    BY <2>3, <2>5, <2>6 DEF Sane, Lone, Bad
  <2>8. QED
    BY <2>1, <2>3, <2>4, <2>7 DEF Hushed
<1>3. QED
  BY <1>1, <1>2

(***************************************************************************)
(* The handlers.                                                           *)
(***************************************************************************)

\* y is x with other marks, or fewer.
Like(x, y) ==
    /\ y \in Bud
    /\ y.esco = x.esco /\ y.wait = x.wait /\ y.open = x.open /\ y.slips = x.slips
    /\ y.out = x.out /\ y.player = x.player /\ y.slots = x.slots
    /\ y.preempted \in {x.preempted, NoPhone} /\ (x.trying => y.trying)

\* What a handler does that neither opens nor closes call audio, and marks no phone.
Passes(x, y) ==
    /\ Sane(y)
    /\ ~link =>
        /\ y.esco = x.esco /\ y.wait = x.wait
        /\ "late" \notin y.slips => "late" \notin x.slips
        /\ x.trying => y.trying
        /\ y.preempted \in {x.preempted, NoPhone}

LEMMA LikePasses == ASSUME NEW x, NEW y, Sane(x), Like(x, y) PROVE Passes(x, y)
BY DEF Like, Passes, Sane, Lone, Tidy, Called

LEMMA EasedPasses == ASSUME NEW x, NEW y, Sane(x), Eased(x, y) PROVE Passes(x, y)
<1>1. Sane(y)
  BY EasedSane
<1>2. QED
  BY <1>1 DEF Eased, SameCall, Passes, Bad

LEMMA PassesTrans ==
    ASSUME NEW x, NEW y, NEW z, Passes(x, y), Passes(y, z) PROVE Passes(x, z)
BY DEF Passes

LEMMA PassesSelf == ASSUME NEW x, Sane(x) PROVE Passes(x, x)
BY DEF Passes

\* A bud whose player is free is sane when its calls are.
LEMMA PlayerFree ==
    ASSUME NEW x, NEW y \in Bud, Sane(x), SameCall(x, y), y.player = NoPhone
    PROVE  Sane(y)
<1>1. ~link => y.out = <<>>
  BY DEF Sane, Lone, SameCall
<1>2. ASSUME ~link, y.slips \cap Bad = {} PROVE Tidy(y)
  BY <1>2 DEF Sane, Lone, SameCall, Tidy, Bad
<1>3. QED
  BY <1>1, <1>2, CalledKept DEF Sane, Lone, Bad

LEMMA SendLinked ==
    ASSUME link, NEW x \in Bud, NEW cmd \in Commands, NEW p \in Phones
    PROVE  Sane(Send(x, cmd, p))
<1> DEFINE m == Msg(cmd, p)
           f == Append(x.out, m)
<1>1. m \in Command
  BY DEF Msg, Command
<1>2. x.out \in Seq(Command)
  BY DEF Bud, Command
<1>3. f \in Seq(Command)
  BY <1>1, <1>2, AppendProperties
<1>4. Send(x, cmd, p) = [x EXCEPT !.out = f]
  BY DEF Send, Bud
<1> HIDE DEF f
<1>5. [x EXCEPT !.out = f] \in Bud
  BY <1>3 DEF Bud, Command
<1>6. QED
  BY <1>4, <1>5 DEF Sane

LEMMA SendAlone ==
    ASSUME ~link, NEW x, NEW cmd, NEW p PROVE Send(x, cmd, p) = Run(x, cmd, p)
BY DEF Send

LEMMA PassMute ==
    ASSUME NEW x, Sane(x), NEW p \in Phones PROVE Passes(x, Send(x, "MUTE", p))
<1>1. CASE link
  BY <1>1, SendLinked DEF Passes, Sane, Commands
<1>2. CASE ~link
  <2>1. Send(x, "MUTE", p) = Background(x, p)
    BY <1>2, SendAlone DEF Run
  <2>2. QED
    BY <2>1, EasedBackground, EasedPasses DEF Sane
<1>3. QED
  BY <1>1, <1>2

LEMMA PassDetect ==
    ASSUME NEW x, Sane(x), NEW p \in Phones PROVE Passes(x, Send(x, "SLIENCE_DETECT", p))
<1>1. CASE link
  BY <1>1, SendLinked DEF Passes, Sane, Commands
<1>2. CASE ~link
  <2> DEFINE u == a2dp_player_close(x, p)
             v == bt_start_a2dp_slience_detect(u, p)
  <2>1. Send(x, "SLIENCE_DETECT", p) = v
    BY <1>2, SendAlone DEF Run
  <2>2. Eased(x, u) /\ u \in Bud /\ u.player # p
    BY EasedClosePlayer, NoPhoneIsNone DEF Sane, Some, Eased
  <2> HIDE DEF u
  <2>3. Eased(u, v)
    BY <2>2, EasedStart
  <2>4. QED
    BY <2>1, <2>2, <2>3, EasedTrans, EasedPasses
<1>3. QED
  BY <1>1, <1>2

LEMMA PassClose ==
    ASSUME NEW x, Sane(x), NEW p \in Phones PROVE Passes(x, Send(x, "CLOSE", p))
<1>1. CASE link
  BY <1>1, SendLinked DEF Passes, Sane, Commands
<1>2. CASE ~link
  <2>1. Run(x, "CLOSE", p) = Close(x, p)
    BY DEF Run
  <2>2. QED
    BY <1>2, <2>1, SendAlone, EasedClose, EasedPasses DEF Sane
<1>3. QED
  BY <1>1, <1>2

LEMMA PassSwitch ==
    ASSUME NEW x, Sane(x), NEW p \in Phones PROVE Passes(x, Send(x, "SWITCH", p))
<1>1. CASE link
  BY <1>1, SendLinked DEF Passes, Sane, Commands
<1>2. CASE ~link
  <2>1. Run(x, "SWITCH", p) = Switch(x, p)
    BY DEF Run
  <2>2. QED
    BY <1>2, <2>1, SendAlone, EasedSwitch, EasedPasses DEF Sane
<1>3. QED
  BY <1>1, <1>2

LEMMA PassPlay ==
    ASSUME TypeOK, NEW x, Sane(x), NEW p \in Phones, Free(x, p)
    PROVE  Passes(x, Send(x, "PLAY", p))
<1>1. CASE link
  BY <1>1, SendLinked DEF Passes, Sane, Commands
<1>2. CASE ~link
  <2>1. Send(x, "PLAY", p) = Play(x, p)
    BY <1>2, SendAlone DEF Run
  <2>2. QED
    BY <2>1, PlaySane DEF Passes, SameCall, Bad
<1>3. QED
  BY <1>1, <1>2

LEMMA MediaStartPasses ==
    ASSUME TypeOK, NEW x, Sane(x), NotedBy(x), NEW p \in Phones
    PROVE  Passes(x, MediaStart(x, p))
<1> DEFINE q == Other(p)
           y == IF x.drop = p THEN [x EXCEPT !.drop = NoPhone] ELSE x
           taken == phone[q].on /\ q \in x.open
<1>1. q \in Phones /\ q # p /\ \A r \in Phones : r = p \/ r = q
  BY TheOther
<1> HIDE DEF q
<1>2. Like(x, y) /\ Passes(x, y) /\ Sane(y)
  <2>1. Like(x, y)
    BY DEF Like, Sane, Bud, Some
  <2>2. QED
    BY <2>1, LikePasses DEF Passes
<1> HIDE DEF y
<1>3. CASE taken
  <2> DEFINE u == a2dp_media_mute(x, p)
             v == bt_start_a2dp_slience_detect(u, p)
  <2>1. MediaStart(x, p) = Key(v, p, "pause")
    BY <1>3 DEF MediaStart, q
  <2>2. Eased(x, u) /\ u \in Bud /\ u.player = x.player
    BY EasedMute DEF Sane, Eased
  <2> HIDE DEF u
  <2>3. ~link /\ x.slips \cap Bad = {} => x.player # p
    BY <1>1, <1>3, NoPhoneIsNone DEF Sane, Lone, Tidy, Called, Bad
  <2>4. ~link /\ u.slips \cap Bad = {} => u.player # p
    BY <2>2, <2>3 DEF Eased, SameCall
  <2>5. Eased(u, v) /\ v \in Bud
    BY <2>2, <2>4, EasedStart DEF Eased
  <2> HIDE DEF v
  <2>6. Eased(v, Key(v, p, "pause"))
    BY <2>5, EasedKey
  <2>7. QED
    BY <2>1, <2>2, <2>5, <2>6, EasedTrans, EasedPasses
<1>4. CASE ~taken /\ x.esco # NoPhone
  <2>1. MediaStart(x, p) = a2dp_media_close(x, p)
    BY <1>4 DEF MediaStart, q
  <2>2. QED
    BY <2>1, EasedMediaClose, EasedPasses DEF Sane
<1>5. CASE ~taken /\ x.esco = NoPhone
  <2>1. MediaStart(x, p) \in {Send(x, "MUTE", p), Send(y, "SLIENCE_DETECT", p), Send(y, "PLAY", p)}
    BY <1>5 DEF MediaStart, q, y
  <2>2. Passes(x, Send(x, "MUTE", p))
    BY PassMute
  <2>3. Passes(x, Send(y, "SLIENCE_DETECT", p))
    BY <1>2, PassDetect, PassesTrans
  <2>4. Free(y, p)
    <3>1. SUFFICES ASSUME ~link, x.slips \cap Bad = {} PROVE x.wait \in {NoPhone, p}
      BY <1>2, <1>5 DEF Free, Like
    <3>2. x.wait # NoPhone => x.wait \in Phones /\ phone[x.wait].on /\ x.wait \in x.open
      BY <3>1 DEF NotedBy, Sane, Lone, Tidy, Called, Bud, Some, Bad
    <3>3. QED
      BY <1>1, <1>5, <3>2
  <2>5. Passes(x, Send(y, "PLAY", p))
    BY <1>2, <2>4, PassPlay, PassesTrans
  <2>6. QED
    BY <2>1, <2>2, <2>3, <2>5
<1>6. QED
  BY <1>3, <1>4, <1>5

LEMMA MediaStopSane ==
    ASSUME NEW x, Sane(x), NEW p \in Phones
    PROVE  LET y == MediaStop(x, p)
           IN  /\ Sane(y)
               /\ ~link => /\ y.esco = x.esco /\ y.wait = x.wait /\ y.slips \cap Bad = x.slips \cap Bad
                           /\ x.trying => y.trying
                           /\ y.preempted = x.preempted \/ y.trying
<1>1. CASE x.energy # p
  <2>1. MediaStop(x, p) = Send(x, "CLOSE", p)
    BY <1>1 DEF MediaStop
  <2>2. Run(x, "CLOSE", p) = Close(x, p)
    BY DEF Run
  <2>3. ~link => Eased(x, MediaStop(x, p))
    BY <2>1, <2>2, SendAlone, EasedClose DEF Sane
  <2>4. Passes(x, MediaStop(x, p))
    BY <2>1, PassClose
  <2>5. QED
    BY <2>3, <2>4 DEF Passes, Eased, SameCall
<1>2. CASE x.energy = p
  <2> DEFINE u == [x EXCEPT !.preempted = p]
             v == [u EXCEPT !.energy = NoPhone]
             w == [v EXCEPT !.trying = TRUE]
             y == Send(w, "CLOSE", p)
  <2>1. MediaStop(x, p) = y
    BY <1>2 DEF MediaStop, Sane, Bud
  <2>2. /\ u \in Bud /\ u.preempted = p /\ u.slips = x.slips
        /\ u.esco = x.esco /\ u.wait = x.wait /\ u.open = x.open /\ u.out = x.out
        /\ u.player = x.player /\ u.slots = x.slots
    BY DEF Sane, Bud, Some
  <2> HIDE DEF u
  <2>3. /\ v \in Bud /\ v.preempted = p /\ v.slips = x.slips
        /\ v.esco = x.esco /\ v.wait = x.wait /\ v.open = x.open /\ v.out = x.out
        /\ v.player = x.player /\ v.slots = x.slots
    BY <2>2 DEF Bud, Some
  <2> HIDE DEF v
  <2>4. /\ w \in Bud /\ w.preempted = p /\ w.slips = x.slips /\ w.trying
        /\ w.esco = x.esco /\ w.wait = x.wait /\ w.open = x.open /\ w.out = x.out
        /\ w.player = x.player /\ w.slots = x.slots
    BY <2>3 DEF Bud
  <2> HIDE DEF w
  <2>5. CASE link
    BY <2>1, <2>4, <2>5, SendLinked DEF Commands
  <2>6. CASE ~link
    <3>1. Run(w, "CLOSE", p) = Close(w, p)
      BY DEF Run
    <3>2. Eased(w, y) /\ y.player # p
      BY <2>4, <2>6, <3>1, SendAlone, EasedClose
    <3> HIDE DEF y
    <3>3. y.out = <<>> /\ y.preempted = p
      BY <2>4, <2>6, <3>2 DEF Eased, SameCall, Sane, Lone
    <3>4. ASSUME y.slips \cap Bad = {} PROVE Tidy(y)
      <4>1. w.slips \cap Bad = {} /\ x.slips \cap Bad = {}
        BY <2>4, <3>2, <3>4 DEF Eased, SameCall
      <4>2. Tidy(x)
        BY <2>6, <4>1 DEF Sane, Lone, Bad
      <4>3. Tidy(w)
        BY <2>4, <4>2 DEF Tidy, Called
      <4>4. QED
        BY <2>6, <3>2, <4>1, <4>3, EasedTidy
    <3>5. Sane(y)
      <4>1. SameCall(w, y)
        BY <3>2 DEF Eased
      <4>2. "late" \notin y.slips => Called(y)
        BY <2>4, <2>6, <4>1 DEF SameCall, Sane, Lone, Called, Bad
      <4>3. QED
        BY <3>2, <3>3, <3>4, <4>2 DEF Sane, Lone, Bad, Eased
    <3>6. QED
      BY <2>1, <2>4, <3>2, <3>5 DEF Eased, SameCall
  <2>7. QED
    BY <2>5, <2>6
<1>3. QED
  BY <1>1, <1>2

LEMMA AvrcpPlayPasses ==
    ASSUME NEW x, Sane(x), NEW p \in Phones PROVE Passes(x, AvrcpPlay(x, p))
<1> DEFINE u == a2dp_media_mute(x, p)
<1>1. Eased(x, u) /\ u \in Bud
  BY EasedMute DEF Sane, Eased
<1>2. AvrcpPlay(x, p) \in {x, Key(u, p, "pause")}
  BY DEF AvrcpPlay
<1> HIDE DEF u
<1>3. Eased(u, Key(u, p, "pause"))
  BY <1>1, EasedKey
<1>4. QED
  BY <1>1, <1>2, <1>3, EasedTrans, EasedPasses, PassesSelf

LEMMA SuspendByCall ==
    ASSUME NEW x, Sane(x), NEW q \in Phones
    PROVE  LET y == a2dp_suspend_by_call(x, q)
           IN  /\ Sane(y)
               /\ ~link => SameCall(x, y) /\ y.preempted \in {x.preempted, q}
<1>1. CASE ~(phone[q].on /\ x.player = q)
  BY <1>1 DEF a2dp_suspend_by_call, SameCall
<1>2. CASE phone[q].on /\ x.player = q
  <2> DEFINE u == [x EXCEPT !.preempted = q]
             v == [u EXCEPT !.energy = NoPhone]
             k == Key(v, q, "pause")
             y == Send(k, "MUTE_BY_CALL", q)
             b == Background(k, q)
             f == [b EXCEPT !.preempted = q]
             g == [f EXCEPT !.energy = NoPhone]
  <2>1. a2dp_suspend_by_call(x, q) = y
    BY <1>2 DEF a2dp_suspend_by_call, Sane, Bud
  <2>2. u \in Bud /\ SameCall(x, u) /\ u.player = x.player
    BY DEF SameCall, Sane, Bud, Some
  <2> HIDE DEF u
  <2>3. v \in Bud /\ SameCall(x, v) /\ v.player = x.player
    BY <2>2 DEF SameCall, Bud, Some
  <2> HIDE DEF v
  <2>4. Eased(v, k) /\ k \in Bud /\ k.player = q
    BY <1>2, <2>3, EasedKey DEF Eased
  <2> HIDE DEF k
  <2>5. CASE link
    BY <2>1, <2>4, <2>5, SendLinked DEF Commands
  <2>6. CASE ~link
    <3>1. Eased(k, b) /\ b \in Bud /\ b.player = NoPhone
      BY <2>4, EasedBackground DEF Eased
    <3>2. Run(k, "MUTE_BY_CALL", q) = [b EXCEPT !.preempted = q, !.energy = NoPhone]
      BY DEF Run
    <3> HIDE DEF b
    <3>3. y = g
      BY <2>6, <3>1, <3>2, SendAlone DEF Bud
    <3>4. f \in Bud /\ SameCall(b, f) /\ f.player = NoPhone /\ f.preempted = q
      BY <3>1 DEF SameCall, Bud, Some
    <3> HIDE DEF f
    <3>5. /\ g \in Bud /\ g.player = NoPhone /\ g.preempted = q /\ g.slips = f.slips
          /\ g.esco = f.esco /\ g.wait = f.wait /\ g.open = f.open /\ g.trying = f.trying
          /\ g.out = f.out
      <4>1. f \in Bud /\ NoPhone \in Some
        BY <3>4 DEF Some
      <4>2. g \in Bud
        BY <4>1 DEF Bud
      <4>3. QED
        BY <3>4, <4>1 DEF Bud
    <3> HIDE DEF g
    <3>6. SameCall(x, g)
      BY <2>3, <2>4, <3>1, <3>4, <3>5 DEF SameCall, Eased
    <3>7. Sane(g)
      BY <3>5, <3>6, PlayerFree
    <3>8. QED
      BY <2>1, <3>3, <3>5, <3>6, <3>7
  <2>7. QED
    BY <2>5, <2>6
<1>3. QED
  BY <1>1, <1>2

\* Whom the handler of an SCO event may mark: the other phone.
Marks(x, y, p) ==
    /\ Sane(y)
    /\ ~link =>
        /\ "late" \notin y.slips => "late" \notin x.slips
        /\ x.trying => y.trying
        /\ y.preempted \in {x.preempted, Other(p)}

LEMMA ScoRequestMarks ==
    ASSUME NEW x, Sane(x), NEW p \in Phones
    PROVE  LET y == ScoRequest(x, p)
           IN  Marks(x, y, p) /\ (~link => y.esco = x.esco /\ y.wait = x.wait)
<1> DEFINE q == Other(p)
           r == x.refused \cup IF phone[q].on THEN Refused(x, p) ELSE {}
           u == [x EXCEPT !.refused = r]
           y == a2dp_suspend_by_call(u, q)
<1>1. q \in Phones
  BY TheOther
<1>2. ScoRequest(x, p) = y
  BY DEF ScoRequest, Sane, Bud
<1>3. Refused(x, p) \subseteq Phones
  <2>1. Refused(x, p) \in {{p}, {q}, {}}
    BY DEF Refused
  <2>2. QED
    BY <1>1, <2>1
<1>4. r \subseteq Phones
  BY <1>3 DEF Sane, Bud
<1> HIDE DEF r, q
<1>5. Like(x, u) /\ Passes(x, u) /\ Sane(u) /\ u.preempted = x.preempted
  <2>1. Like(x, u) /\ u.preempted = x.preempted
    BY <1>4 DEF Like, Sane, Bud
  <2>2. QED
    BY <2>1, LikePasses DEF Passes
<1> HIDE DEF u
<1>6. Sane(y) /\ (~link => SameCall(u, y) /\ y.preempted \in {u.preempted, q})
  BY <1>1, <1>5, SuspendByCall
<1> HIDE DEF y
<1>7. QED
  BY <1>2, <1>5, <1>6 DEF q, Marks, Like, SameCall, Bad

LEMMA ScoOnMarks ==
    ASSUME NEW x, Sane(x), NEW p \in Phones
    PROVE  LET y == ScoOn(x, p)
           IN  /\ Marks(x, y, p)
               /\ ~link =>
                   /\ y.esco \in {x.esco, p}
                   /\ "late" \notin y.slips
                        => y.wait = x.wait \/ (y.wait = p /\ phone[p].sco = "up")
<1> DEFINE q == Other(p)
           u == a2dp_suspend_by_call(x, q)
           y == Send(u, "OPEN_ESCO", p)
<1>1. q \in Phones
  BY TheOther
<1>2. ScoOn(x, p) = y
  BY DEF ScoOn
<1> HIDE DEF q
<1>3. Sane(u) /\ (~link => SameCall(x, u) /\ u.preempted \in {x.preempted, q})
  BY <1>1, SuspendByCall
<1> HIDE DEF u
<1>4. CASE link
  BY <1>2, <1>3, <1>4, SendLinked DEF Sane, Commands, Marks
<1>5. CASE ~link
  <2>1. Run(u, "OPEN_ESCO", p) = bt_phone_esco_play(u, p)
    BY DEF Run
  <2>2. Heeds(u, y, p)
    BY <1>3, <1>5, <2>1, SendAlone, EscoPlay
  <2> HIDE DEF y
  <2>3. QED
    BY <1>2, <1>3, <1>5, <2>2 DEF q, Marks, Heeds, SameCall, Bad
<1>6. QED
  BY <1>4, <1>5

LEMMA ScoOffHushes ==
    ASSUME NEW x, Sane(x), NEW p \in Phones
    PROVE  LET y == ScoOff(x, p) IN Sane(y) /\ (~link => Hushed(x, y, p))
<1>1. CASE x.esco \notin {p, NoPhone}
  BY <1>1 DEF ScoOff, Hushed
<1>2. CASE x.esco \in {p, NoPhone}
  <2>1. ScoOff(x, p) = Send(x, "CLOSE_ESCO", p)
    BY <1>2 DEF ScoOff
  <2>2. Run(x, "CLOSE_ESCO", p) = bt_phone_esco_stop(x, p)
    BY DEF Run
  <2>3. ~link => Hushed(x, ScoOff(x, p), p)
    BY <2>1, <2>2, SendAlone, EscoStop
  <2>4. link => Sane(ScoOff(x, p))
    BY <2>1, SendLinked DEF Sane, Commands
  <2>5. QED
    BY <2>3, <2>4 DEF Hushed
<1>3. QED
  BY <1>1, <1>2

LEMMA ConnectedPasses ==
    ASSUME NEW x, Sane(x), NEW p \in Phones
    PROVE  Passes(x, Connected(x, p)) /\ Connected(x, p).preempted # p
<1> DEFINE y == [x EXCEPT !.preempted = NoPhone]
<1>1. Like(x, y) /\ y.preempted = NoPhone /\ Like(x, x)
  BY DEF Like, Sane, Bud, Some
<1>2. Connected(x, p) = IF x.preempted = p THEN y ELSE x
  BY DEF Connected
<1> HIDE DEF y
<1>3. Like(x, Connected(x, p)) /\ Connected(x, p).preempted # p
  BY <1>1, <1>2, NoPhoneIsNone
<1>4. QED
  BY <1>3, LikePasses

LEMMA DisconnectedHushes ==
    ASSUME NEW x, Sane(x), NEW p \in Phones
    PROVE  LET y == Disconnected(x, p)
           IN  /\ Sane(y)
               /\ ~link =>
                   /\ "late" \notin y.slips => "late" \notin x.slips
                   /\ y.preempted = x.preempted /\ y.trying = x.trying /\ y.wait = x.wait
                   /\ y.esco \in {x.esco, NoPhone}
<1> DEFINE u == tws_a2dp_player_close(x, p)
           y == bt_phone_esco_stop(u, p)
<1>1. Eased(x, u) /\ Sane(u)
  BY EasedTwsClose, EasedSane DEF Sane
<1>2. Disconnected(x, p) = y
  BY DEF Disconnected
<1> HIDE DEF u
<1>3. Hushed(u, y, p)
  BY <1>1, EscoStop
<1> HIDE DEF y
<1>4. QED
  BY <1>1, <1>2, <1>3 DEF Hushed, Eased, SameCall, Bad

LEMMA TakeOverPasses ==
    ASSUME TypeOK, NEW x, Sane(x), NEW p \in Phones PROVE Passes(x, TakeOver(x, p))
<1> DEFINE q == x.player
           y == IF phone[q].on THEN Key(x, q, "pause") ELSE x
           w == IF a2dp_player_runing(x) THEN Send(y, "MUTE", q) ELSE x
           h == x.open # {} \/ x.esco # NoPhone
           z == Slip(w, "in_call", h)
<1>1. TakeOver(x, p) = Send(z, "PLAY", p)
  BY DEF TakeOver
<1>2. Passes(x, w) /\ Sane(w) /\ (~link => SameCall(x, w))
  <2>1. CASE ~a2dp_player_runing(x)
    BY <2>1, PassesSelf DEF SameCall
  <2>2. CASE a2dp_player_runing(x)
    <3>1. q \in Phones
      BY <2>2 DEF a2dp_player_runing, Sane, Bud, Some
    <3>2. Eased(x, y)
      BY <3>1, EasedKey, EasedSelf DEF Sane
    <3>3. Passes(x, y) /\ Sane(y)
      BY <3>2, EasedPasses, EasedSane
    <3> HIDE DEF y, q
    <3>4. Passes(y, Send(y, "MUTE", q))
      BY <3>1, <3>3, PassMute
    <3>5. ~link => SameCall(x, Send(y, "MUTE", q))
      <4>1. Run(y, "MUTE", q) = Background(y, q)
        BY DEF Run
      <4>2. ~link => Eased(y, Send(y, "MUTE", q))
        BY <3>1, <3>3, <4>1, SendAlone, EasedBackground DEF Sane
      <4>3. QED
        BY <3>2, <4>2, EasedTrans DEF Eased
    <3>6. QED
      BY <2>2, <3>3, <3>4, <3>5, PassesTrans DEF Passes
  <2>3. QED
    BY <2>1, <2>2
<1> HIDE DEF w
<1>3. Slipped(w, z, "in_call") /\ (h => "in_call" \in z.slips)
  BY <1>2, SlipTypes DEF Sane
<1> HIDE DEF z
<1>4. Sane(z) /\ Passes(w, z)
  BY <1>2, <1>3 DEF Slipped, Sane, Lone, Tidy, Called, Passes, Bad
<1>5. Free(z, p)
  <2>1. SUFFICES ASSUME ~link, z.slips \cap Bad = {}
                 PROVE  z.wait = NoPhone /\ z.esco = NoPhone
    BY DEF Free
  <2>2. Tidy(z) /\ z.open = x.open /\ z.esco = x.esco /\ ~h
    BY <1>2, <1>3, <1>4, <2>1 DEF Slipped, SameCall, Sane, Lone, Bad
  <2>3. Called(z)
    BY <1>4, <2>1 DEF Sane, Lone, Bad
  <2>4. QED
    BY <2>2, <2>3 DEF Called
<1>6. QED
  BY <1>1, <1>2, <1>4, <1>5, PassPlay, PassesTrans

LEMMA Fields ==
    ASSUME NEW x \in Bud, NEW p \in Some
    PROVE  /\ [x EXCEPT !.energy = p] \in Bud
           /\ Like(x, [x EXCEPT !.energy = p])
           /\ Like(x, [x EXCEPT !.drop = p])
           /\ Like(x, [x EXCEPT !.trying = TRUE]) /\ [x EXCEPT !.trying = TRUE].trying
           /\ Like(x, [x EXCEPT !.preempted = NoPhone])
           /\ [x EXCEPT !.preempted = NoPhone].preempted = NoPhone
           /\ [x EXCEPT !.drop = p].preempted = x.preempted
           /\ [x EXCEPT !.trying = TRUE].preempted = x.preempted
<1>1. [x EXCEPT !.energy = p] \in Bud /\ Like(x, [x EXCEPT !.energy = p])
  BY DEF Like, Bud
<1>2. Like(x, [x EXCEPT !.drop = p]) /\ [x EXCEPT !.drop = p].preempted = x.preempted
  BY DEF Like, Bud
<1>3. /\ Like(x, [x EXCEPT !.trying = TRUE]) /\ [x EXCEPT !.trying = TRUE].trying
      /\ [x EXCEPT !.trying = TRUE].preempted = x.preempted
  BY DEF Like, Bud
<1>4. /\ Like(x, [x EXCEPT !.preempted = NoPhone])
      /\ [x EXCEPT !.preempted = NoPhone].preempted = NoPhone
  BY DEF Like, Bud, Some
<1>5. QED
  BY <1>1, <1>2, <1>3, <1>4

\* After the end of a call the mark is gone or a timer will take it away, unless the
\* phone is gone or calls itself.
LEMMA CallOverPasses ==
    ASSUME NEW x, Sane(x), NEW p \in Phones
    PROVE  LET y == CallOver(x, p)
           IN  /\ Passes(x, y)
               /\ \/ y.preempted = NoPhone \/ y.trying
                  \/ ~phone[y.preempted].on \/ InCall(y.preempted)
<1> DEFINE q == Other(p)
           free == phone[q].on /\ ~InCall(q)
           try == [x EXCEPT !.trying = TRUE]
           s == bt_stop_a2dp_slience_detect(x, q)
           y == IF free /\ q \in x.muted THEN Reopen(s, q) ELSE x
           r == Reopen(x, q)
           r1 == [r EXCEPT !.energy = q]
           r2 == [r1 EXCEPT !.preempted = NoPhone]
           r3 == [r2 EXCEPT !.drop = p]
           t1 == [try EXCEPT !.drop = p]
           y1 == [y EXCEPT !.trying = TRUE]
<1>1. q \in Phones /\ \A k \in Phones : k = p \/ k = q
  BY TheOther
<1>2. Eased(x, y) /\ Sane(y)
  <2>1. Eased(x, s) /\ s \in Bud
    BY <1>1, EasedStop DEF Sane, Eased
  <2> HIDE DEF s, q
  <2>2. Eased(s, Reopen(s, q))
    BY <1>1, <2>1, EasedReopen
  <2>3. Eased(x, y)
    BY <2>1, <2>2, EasedTrans, EasedSelf DEF Sane
  <2>4. QED
    BY <2>3, EasedSane
<1>3. Eased(x, r) /\ Sane(r)
  BY <1>1, EasedReopen, EasedSane DEF Sane
<1>4. CallOver(x, p) = IF free /\ x.preempted = q
                       THEN IF q \in x.muted THEN r3 ELSE t1
                       ELSE IF x.preempted = p THEN y1 ELSE y
  BY <1>2, <1>3 DEF CallOver, Sane, Bud
<1> HIDE DEF y, r
<1>5. CASE free /\ x.preempted = q /\ q \in x.muted
  <2>1. Like(r, r1) /\ r1 \in Bud /\ Passes(r, r1) /\ Sane(r1)
    BY <1>1, <1>3, Fields, LikePasses DEF Sane, Some, Passes
  <2> HIDE DEF r1
  <2>2. Passes(r1, r2) /\ Sane(r2) /\ r2.preempted = NoPhone
    BY <1>1, <2>1, Fields, LikePasses DEF Sane, Some, Passes
  <2> HIDE DEF r2
  <2>3. Passes(r2, r3) /\ r3.preempted = NoPhone
    BY <2>2, Fields, LikePasses DEF Sane, Some, Passes
  <2> HIDE DEF r3
  <2>4. QED
    BY <1>3, <1>4, <1>5, <2>1, <2>2, <2>3, EasedPasses, PassesTrans
<1>6. CASE free /\ x.preempted = q /\ q \notin x.muted
  <2>1. Passes(x, try) /\ Sane(try) /\ try.trying /\ try \in Bud
    BY <1>1, Fields, LikePasses DEF Sane, Some, Passes
  <2> HIDE DEF try
  <2>2. Like(try, t1)
    BY <2>1, Fields DEF Some
  <2> HIDE DEF t1
  <2>3. QED
    BY <1>4, <1>6, <2>1, <2>2, LikePasses, PassesTrans DEF Like
<1>7. CASE ~(free /\ x.preempted = q) /\ x.preempted = p
  <2>1. Passes(y, y1) /\ y1.trying
    BY <1>1, <1>2, Fields, LikePasses DEF Sane, Some, Passes
  <2> HIDE DEF y1
  <2>2. QED
    BY <1>2, <1>4, <1>7, <2>1, EasedPasses, PassesTrans
<1>8. CASE ~(free /\ x.preempted = q) /\ x.preempted # p
  <2>1. CallOver(x, p) = y /\ y.preempted = x.preempted
    BY <1>2, <1>4, <1>8 DEF Eased
  <2>2. x.preempted \in {NoPhone, p, q}
    BY <1>1 DEF Sane, Bud, Some
  <2>3. QED
    BY <1>2, <1>8, <2>1, <2>2, EasedPasses
<1>9. QED
  BY <1>5, <1>6, <1>7, <1>8

\* What app_core does with a message, as far as the calls are concerned.
Handles(x, y, kind, p) ==
    /\ Sane(y)
    /\ ~link =>
        /\ "late" \notin y.slips => "late" \notin x.slips
        /\ x.trying => y.trying
        /\ y.esco \in {x.esco, NoPhone} \/ (kind = "SCO_ON" /\ y.esco = p)
        /\ kind = "SCO_OFF" => y.esco # p
        /\ "late" \notin y.slips =>
             y.wait = x.wait \/ (kind = "SCO_ON" /\ y.wait = p /\ phone[p].sco = "up")
        /\ \/ y.preempted \in {x.preempted, NoPhone} \/ y.trying
           \/ kind \in {"SCO_REQ", "SCO_ON"} /\ y.preempted = Other(p)
        /\ kind \in {"SCO_DISCON", "PHONE_HANGUP"} =>
             \/ y.preempted = NoPhone \/ y.trying
             \/ ~phone[y.preempted].on \/ InCall(y.preempted)
        /\ kind = "CONNECTED" => y.preempted # p

LEMMA PassesHandles ==
    ASSUME NEW x, NEW y, Passes(x, y), NEW p,
           NEW kind, kind \notin {"SCO_OFF", "SCO_DISCON", "PHONE_HANGUP", "CONNECTED"}
    PROVE  Handles(x, y, kind, p)
BY DEF Handles, Passes

LEMMA RunTypes ==
    ASSUME TypeOK, link, NEW x \in Bud, NEW cmd \in Commands, NEW p \in Phones
    PROVE  Run(x, cmd, p) \in Bud
<1>1. Sane(x) /\ Free(x, p)
  BY DEF Sane, Free
<1>2. CASE cmd = "PLAY"
  <2>1. Run(x, cmd, p) = Play(x, p)
    BY <1>2 DEF Run
  <2>2. QED
    BY <1>1, <2>1, PlaySane DEF Sane
<1>3. CASE cmd = "SLIENCE_DETECT"
  <2>1. Run(x, cmd, p) = bt_start_a2dp_slience_detect(a2dp_player_close(x, p), p)
    BY <1>3 DEF Run
  <2>2. QED
    BY <2>1, EasedClosePlayer, EasedStart DEF Eased, Some
<1>4. CASE cmd = "MUTE"
  <2>1. Run(x, cmd, p) = Background(x, p)
    BY <1>4 DEF Run
  <2>2. QED
    BY <2>1, EasedBackground DEF Eased
<1>5. CASE cmd = "MUTE_BY_CALL"
  <2> DEFINE b == Background(x, p)
             f == [b EXCEPT !.preempted = p]
             g == [f EXCEPT !.energy = NoPhone]
  <2>1. Run(x, cmd, p) = [b EXCEPT !.preempted = p, !.energy = NoPhone]
    BY <1>5 DEF Run
  <2>2. b \in Bud
    BY EasedBackground DEF Eased
  <2> HIDE DEF b
  <2>3. Run(x, cmd, p) = g
    BY <2>1, <2>2 DEF Bud
  <2>4. f \in Bud
    BY <2>2 DEF Bud, Some
  <2> HIDE DEF f
  <2>5. g \in Bud
    BY <2>4, Fields DEF Some
  <2>6. QED
    BY <2>3, <2>5
<1>6. CASE cmd = "CLOSE"
  <2>1. Run(x, cmd, p) = Close(x, p)
    BY <1>6 DEF Run
  <2>2. QED
    BY <2>1, EasedClose DEF Eased
<1>7. CASE cmd = "SWITCH"
  <2>1. Run(x, cmd, p) = Switch(x, p)
    BY <1>7 DEF Run
  <2>2. QED
    BY <2>1, EasedSwitch DEF Eased
<1>8. CASE cmd = "OPEN_ESCO"
  <2>1. Run(x, cmd, p) = bt_phone_esco_play(x, p)
    BY <1>8 DEF Run
  <2>2. QED
    BY <1>1, <2>1, EscoPlay DEF Heeds, Sane
<1>9. CASE cmd = "CLOSE_ESCO"
  <2>1. Run(x, cmd, p) = bt_phone_esco_stop(x, p)
    BY <1>9 DEF Run
  <2>2. QED
    BY <1>1, <2>1, EscoStop DEF Hushed, Sane
<1>10. QED
  BY <1>2, <1>3, <1>4, <1>5, <1>6, <1>7, <1>8, <1>9 DEF Commands

LEMMA HandledHandles ==
    ASSUME TypeOK, NEW x, Sane(x), NotedBy(x), NEW p \in Phones,
           NEW kind \in StackEvents \cup AppMessages \cup Commands,
           ~link => kind \notin Commands
    PROVE  Handles(x, Handled(x, kind, p), kind, p)
<1> DEFINE y == Handled(x, kind, p)
<1>1. CASE kind = "MEDIA_START"
  <2>1. y = MediaStart(x, p)
    BY <1>1 DEF Handled
  <2>2. QED
    BY <1>1, <2>1, MediaStartPasses, PassesHandles
<1>2. CASE kind = "MEDIA_STOP"
  <2>1. y = MediaStop(x, p)
    BY <1>2 DEF Handled
  <2>2. QED
    BY <1>2, <2>1, MediaStopSane DEF Handles, Bad
<1>3. CASE kind = "AVDTP_SUSPEND"
  <2>1. y = a2dp_media_unmute(x, p)
    BY <1>3 DEF Handled
  <2>2. QED
    BY <1>3, <2>1, EasedMute, EasedPasses, PassesHandles DEF Sane
<1>4. CASE kind = "AVRCP_PLAY"
  <2>1. y = AvrcpPlay(x, p)
    BY <1>4 DEF Handled
  <2>2. QED
    BY <1>4, <2>1, AvrcpPlayPasses, PassesHandles
<1>5. CASE kind = "SCO_REQ"
  <2>1. y = ScoRequest(x, p)
    BY <1>5 DEF Handled
  <2>2. QED
    BY <1>5, <2>1, ScoRequestMarks DEF Handles, Marks
<1>6. CASE kind = "SCO_ON"
  <2>1. y = ScoOn(x, p)
    BY <1>6 DEF Handled
  <2>2. QED
    BY <1>6, <2>1, ScoOnMarks DEF Handles, Marks
<1>7. CASE kind = "SCO_OFF"
  <2>1. y = ScoOff(x, p)
    BY <1>7 DEF Handled
  <2>2. QED
    BY <1>7, <2>1, ScoOffHushes DEF Handles, Hushed
<1>8. CASE kind \in {"SCO_DISCON", "PHONE_HANGUP"}
  <2>1. y = CallOver(x, p)
    BY <1>8 DEF Handled
  <2>2. QED
    BY <1>8, <2>1, CallOverPasses DEF Handles, Passes
<1>9. CASE kind = "CONNECTED"
  <2>1. y = Connected(x, p)
    BY <1>9 DEF Handled
  <2>2. QED
    BY <1>9, <2>1, ConnectedPasses DEF Handles, Passes
<1>10. CASE kind = "DISCONNECT"
  <2>1. y = Disconnected(x, p)
    BY <1>10 DEF Handled
  <2>2. QED
    BY <1>10, <2>1, DisconnectedHushes DEF Handles
<1>11. CASE kind = "A2DP_START"
  <2>1. y = TakeOver(x, p)
    BY <1>11 DEF Handled
  <2>2. QED
    BY <1>11, <2>1, TakeOverPasses, PassesHandles
<1>12. CASE kind = "SEND_PLAY"
  <2>1. y = IF phone[p].on THEN Key(x, p, "play") ELSE x
    BY <1>12 DEF Handled
  <2>2. Passes(x, y)
    BY <2>1, EasedKey, EasedPasses, PassesSelf DEF Sane
  <2>3. QED
    BY <1>12, <2>2, PassesHandles
<1>13. CASE kind = "NO_ENERGY"
  <2>1. y = IF x.player = p THEN Send(x, "SWITCH", p) ELSE x
    BY <1>13 DEF Handled
  <2>2. Passes(x, y)
    BY <2>1, PassSwitch, PassesSelf
  <2>3. QED
    BY <1>13, <2>2, PassesHandles
<1>14. CASE kind \in Commands
  <2>1. y = Run(x, kind, p)
    BY <1>14 DEF Handled, Commands
  <2>2. link
    BY <1>14
  <2>3. QED
    BY <1>14, <2>1, <2>2, RunTypes DEF Handles, Sane
<1>15. QED
  BY <1>1, <1>2, <1>3, <1>4, <1>5, <1>6, <1>7, <1>8, <1>9, <1>10, <1>11, <1>12, <1>13, <1>14
     DEF StackEvents, AppMessages

(***************************************************************************)
(* The queue.                                                              *)
(***************************************************************************)

LEMMA QueueTail ==
    ASSUME NEW q \in Seq(Message), q # <<>>
    PROVE  /\ Head(q) \in Message /\ Tail(q) \in Seq(Message) /\ Head(q) = q[1]
           /\ 1 \in DOMAIN q
           /\ \A i \in DOMAIN Tail(q) : i + 1 \in DOMAIN q /\ Tail(q)[i] = q[i + 1]
           /\ \A i \in DOMAIN q : i = 1 \/ (i - 1 \in DOMAIN Tail(q) /\ q[i] = Tail(q)[i - 1])
<1>1. /\ Head(q) \in Message /\ Tail(q) \in Seq(Message) /\ Len(q) \in Nat /\ Len(q) # 0
      /\ Head(q) = q[1] /\ Len(Tail(q)) = Len(q) - 1
      /\ DOMAIN q = 1..Len(q) /\ DOMAIN Tail(q) = 1..(Len(q) - 1)
      /\ \A i \in 1..(Len(q) - 1) : Tail(q)[i] = q[i + 1]
  BY HeadTailProperties, LenProperties, EmptySeq
<1>2. \A i \in 1..Len(q) : i = 1 \/ (i - 1 \in 1..(Len(q) - 1) /\ q[i] = Tail(q)[i - 1])
  <2> TAKE i \in 1..Len(q)
  <2>1. i # 1 => i - 1 \in 1..(Len(q) - 1) /\ (i - 1) + 1 = i
    BY <1>1
  <2>2. QED
    BY <1>1, <2>1
<1>3. QED
  BY <1>1, <1>2

LEMMA HoldsTail ==
    ASSUME NEW q \in Seq(Message), q # <<>>, NEW a, NEW p, Holds(q, a, p), Head(q) # Msg(a, p)
    PROVE  Holds(Tail(q), a, p)
<1>1. PICK j \in DOMAIN q : q[j] = Msg(a, p)
  BY DEF Holds
<1>2. j # 1
  BY <1>1, QueueTail
<1>3. j - 1 \in DOMAIN Tail(q) /\ Tail(q)[j - 1] = Msg(a, p)
  BY <1>1, <1>2, QueueTail
<1>4. QED
  BY <1>3 DEF Holds

LEMMA FollowedTail ==
    ASSUME NEW q \in Seq(Message), q # <<>>, NEW a, NEW b, NEW p, Followed(q, a, b, p)
    PROVE  /\ Followed(Tail(q), a, b, p)
           /\ Head(q) = Msg(a, p) => Holds(Tail(q), b, p)
<1>1. \A i \in DOMAIN q : i \in Nat
  BY LenProperties
<1>2. \A i \in DOMAIN Tail(q) : i \in Nat
  BY QueueTail, LenProperties
<1>3. ASSUME NEW i \in DOMAIN Tail(q), Tail(q)[i] = Msg(a, p)
      PROVE  \E j \in DOMAIN Tail(q) : j > i /\ Tail(q)[j] = Msg(b, p)
  <2>1. i + 1 \in DOMAIN q /\ q[i + 1] = Msg(a, p) /\ i \in Nat /\ i # 0
    BY <1>2, <1>3, QueueTail, LenProperties
  <2>2. PICK j \in DOMAIN q : j > i + 1 /\ q[j] = Msg(b, p)
    BY <2>1 DEF Followed
  <2>3. j - 1 \in DOMAIN Tail(q) /\ Tail(q)[j - 1] = Msg(b, p) /\ j - 1 > i
    BY <1>1, <2>1, <2>2, QueueTail
  <2>4. QED
    BY <2>3
<1>4. ASSUME Head(q) = Msg(a, p) PROVE Holds(Tail(q), b, p)
  <2>1. PICK j \in DOMAIN q : j > 1 /\ q[j] = Msg(b, p)
    BY <1>4, QueueTail DEF Followed
  <2>2. j - 1 \in DOMAIN Tail(q) /\ Tail(q)[j - 1] = Msg(b, p)
    BY <1>1, <2>1, QueueTail
  <2>3. QED
    BY <2>2 DEF Holds
<1>5. QED
  BY <1>3, <1>4 DEF Followed

LEMMA QueueMore ==
    ASSUME NEW q \in Seq(Message), NEW k \in Seq(Message)
    PROVE  /\ q \o k \in Seq(Message)
           /\ \A i \in DOMAIN q : i \in DOMAIN (q \o k) /\ (q \o k)[i] = q[i]
           /\ \A i \in DOMAIN k : i + Len(q) \in DOMAIN (q \o k) /\ (q \o k)[i + Len(q)] = k[i]
           /\ \A i \in DOMAIN (q \o k) :
                i \in DOMAIN q \/ (i - Len(q) \in DOMAIN k /\ (q \o k)[i] = k[i - Len(q)])
<1>1. /\ DOMAIN q = 1..Len(q) /\ DOMAIN k = 1..Len(k) /\ Len(q) \in Nat /\ Len(k) \in Nat
      /\ q \o k \in Seq(Message) /\ Len(q \o k) = Len(q) + Len(k)
      /\ DOMAIN (q \o k) = 1..(Len(q) + Len(k))
      /\ \A i \in 1..(Len(q) + Len(k)) :
             (q \o k)[i] = IF i <= Len(q) THEN q[i] ELSE k[i - Len(q)]
  BY ConcatProperties, LenProperties
<1>2. \A i \in 1..Len(k) : /\ i + Len(q) \in 1..(Len(q) + Len(k))
                           /\ ~(i + Len(q) <= Len(q)) /\ (i + Len(q)) - Len(q) = i
  BY <1>1
<1>3. \A i \in 1..(Len(q) + Len(k)) : i \in 1..Len(q) \/ i - Len(q) \in 1..Len(k)
  BY <1>1
<1>4. \A i \in 1..Len(q) : i \in 1..(Len(q) + Len(k)) /\ i <= Len(q)
  BY <1>1
<1>5. \A i \in 1..(Len(q) + Len(k)) : i <= Len(q) => i \in 1..Len(q)
  BY <1>1
<1>6. QED
  BY <1>1, <1>2, <1>3, <1>4, <1>5

LEMMA HoldsMore ==
    ASSUME NEW q \in Seq(Message), NEW k \in Seq(Message), NEW a, NEW p,
           Holds(q, a, p) \/ Holds(k, a, p)
    PROVE  Holds(q \o k, a, p)
<1>1. ASSUME NEW j \in DOMAIN q, q[j] = Msg(a, p) PROVE Holds(q \o k, a, p)
  <2>1. j \in DOMAIN (q \o k) /\ (q \o k)[j] = Msg(a, p)
    BY <1>1, QueueMore
  <2>2. QED
    BY <2>1 DEF Holds
<1>2. ASSUME NEW j \in DOMAIN k, k[j] = Msg(a, p) PROVE Holds(q \o k, a, p)
  <2>1. j + Len(q) \in DOMAIN (q \o k) /\ (q \o k)[j + Len(q)] = Msg(a, p)
    BY <1>2, QueueMore
  <2>2. QED
    BY <2>1 DEF Holds
<1>3. QED
  BY <1>1, <1>2 DEF Holds

\* What comes in has no a of p, or ends with a b of p.
LEMMA FollowedMore ==
    ASSUME NEW q \in Seq(Message), NEW k \in Seq(Message), NEW a, NEW b, NEW p,
           Followed(q, a, b, p) \/ Holds(k, b, p), ~Holds(k, a, p)
    PROVE  Followed(q \o k, a, b, p)
<1> SUFFICES ASSUME NEW i \in DOMAIN (q \o k), (q \o k)[i] = Msg(a, p)
             PROVE  \E j \in DOMAIN (q \o k) : j > i /\ (q \o k)[j] = Msg(b, p)
  BY DEF Followed
<1>1. i \in DOMAIN q /\ q[i] = Msg(a, p)
  BY QueueMore DEF Holds
<1>2. CASE Followed(q, a, b, p)
  <2>1. PICK j \in DOMAIN q : j > i /\ q[j] = Msg(b, p)
    BY <1>1, <1>2 DEF Followed
  <2>2. QED
    BY <2>1, QueueMore
<1>3. CASE Holds(k, b, p)
  <2>1. PICK j \in DOMAIN k : k[j] = Msg(b, p)
    BY <1>3 DEF Holds
  <2>2. j + Len(q) > i
    BY <1>1, LenProperties
  <2>3. QED
    BY <2>1, <2>2, QueueMore
<1>4. QED
  BY <1>2, <1>3

(***************************************************************************)
(* The steps.                                                              *)
(***************************************************************************)

LEMMA QueueType == ASSUME TypeOK PROVE queue \in Seq(Message) /\ air \in Seq(Command)
BY DEF TypeOK, Message, Command

LEMMA SaneBud == ASSUME IInv PROVE Sane(bud) /\ NotedBy(bud) /\ TypeOK
BY DEF IInv, Alone, Sane, NotedBy, TypeOK

LEMMA AppCoreStep == ASSUME IInv, app_core PROVE IInv'
<1> DEFINE kind == Head(queue).kind
           p == Head(queue).of
           x == Handled(bud, kind, p)
<1>1. /\ queue # <<>> /\ bud' = [x EXCEPT !.out = <<>>] /\ air' = air \o x.out
      /\ queue' = Tail(queue)
      /\ UNCHANGED <<phone, link, deaf, short, tone, events>>
  BY DEF app_core, Done
<1>2. queue \in Seq(Message) /\ air \in Seq(Command) /\ TypeOK
  BY QueueType DEF IInv
<1>3. /\ Head(queue) \in Message /\ queue' \in Seq(Message) /\ Head(queue) = Msg(kind, p)
      /\ p \in Phones /\ kind \in StackEvents \cup AppMessages \cup Commands
      /\ \A i \in DOMAIN queue' : i + 1 \in DOMAIN queue /\ queue'[i] = queue[i + 1]
  <2>1. Head(queue) \in Message /\ Tail(queue) \in Seq(Message)
        /\ \A i \in DOMAIN Tail(queue) : i + 1 \in DOMAIN queue /\ Tail(queue)[i] = queue[i + 1]
    BY <1>1, <1>2, QueueTail
  <2>2. QED
    BY <1>1, <2>1 DEF Message, Msg
<1>4. ~link => kind \notin Commands
  <2>1. 1 \in DOMAIN queue /\ Head(queue) = queue[1]
    BY <1>1, <1>2, QueueTail
  <2>2. QED
    BY <2>1 DEF IInv, Alone
<1> HIDE DEF kind, p
<1>5. Handles(bud, x, kind, p)
  BY <1>3, <1>4, SaneBud, HandledHandles
<1> HIDE DEF x
<1>6. Sane(x) /\ x \in Bud
  BY <1>5 DEF Handles, Sane
<1>7. TypeOK'
  <2>1. bud' \in Bud /\ bud'.out = <<>>
    <3>1. <<>> \in Seq([kind : Commands, of : Phones])
      BY EmptySeq
    <3>2. QED
      BY <1>1, <1>6, <3>1 DEF Bud
  <2>2. air' \in Seq(Command)
    <3>1. x.out \in Seq(Command)
      BY <1>6 DEF Bud, Command
    <3>2. QED
      BY <1>1, <1>2, <3>1, ConcatProperties
  <2>3. QED
    BY <1>1, <1>2, <1>3, <2>1, <2>2 DEF TypeOK, Message, Command
<1>8. ASSUME ~link PROVE Alone'
  <2>1. Alone /\ x.out = <<>> /\ Lone(x)
    BY <1>6, <1>8 DEF IInv, Sane, Lone
  <2>2. bud' = x
    BY <1>1, <1>6, <2>1 DEF Bud
  <2>3. air' = <<>>
    BY <1>1, <2>1 DEF Alone
  <2>4. \A i \in DOMAIN queue' : queue'[i].kind \notin Commands
    BY <1>3, <2>1 DEF Alone
  <2>5. NotedBy(bud)'
    BY <1>1, <1>3, <1>5, <1>8, <2>1, <2>2 DEF Handles, NotedBy, Alone, CallEnds
  <2>6. AudioEnds'
    <3>1. SUFFICES ASSUME NEW r \in Phones, phone[r].sco # "up"
                   PROVE  /\ "late" \notin x.slips /\ x.esco = r => Holds(Tail(queue), "SCO_OFF", r)
                          /\ Followed(Tail(queue), "SCO_ON", "SCO_OFF", r)
      BY <1>1, <2>2 DEF AudioEnds
    <3>2. /\ "late" \notin bud.slips /\ bud.esco = r => Holds(queue, "SCO_OFF", r)
          /\ Followed(queue, "SCO_ON", "SCO_OFF", r)
      BY <2>1, <3>1 DEF Alone, AudioEnds
    <3>3. /\ Followed(Tail(queue), "SCO_ON", "SCO_OFF", r)
          /\ Head(queue) = Msg("SCO_ON", r) => Holds(Tail(queue), "SCO_OFF", r)
      BY <1>1, <1>2, <3>2, FollowedTail
    <3>4. ASSUME "late" \notin x.slips, x.esco = r PROVE Holds(Tail(queue), "SCO_OFF", r)
      <4>1. bud.esco = r \/ (kind = "SCO_ON" /\ p = r)
        BY <1>5, <1>8, <3>4, NoPhoneIsNone DEF Handles
      <4>2. Head(queue) # Msg("SCO_OFF", r)
        BY <1>3, <1>5, <1>8, <3>4 DEF Handles, Msg
      <4>3. "late" \notin bud.slips
        BY <1>5, <1>8, <3>4 DEF Handles
      <4>4. QED
        BY <1>1, <1>2, <1>3, <3>2, <3>3, <4>1, <4>2, <4>3, HoldsTail
    <3>5. QED
      BY <3>3, <3>4
  <2>7. CallEnds'
    <3>1. SUFFICES ASSUME NEW r \in Phones, ~InCall(r)
                   PROVE  /\ Followed(Tail(queue), "SCO_REQ", "PHONE_HANGUP", r)
                          /\ Followed(Tail(queue), "SCO_ON", "PHONE_HANGUP", r)
      BY <1>1, <2>1 DEF Alone, CallEnds, InCall
    <3>2. QED
      BY <1>1, <1>2, <2>1, <3>1, FollowedTail DEF Alone, CallEnds
  <2>8. ASSUME NEW r \in Phones, x.preempted = r
        PROVE  \/ x.trying \/ ~phone[r].on \/ Holds(Tail(queue), "CONNECTED", r)
               \/ \E q \in Phones : InCall(q) \/ Holds(Tail(queue), "PHONE_HANGUP", q)
    <3>1. CASE bud.preempted = r
      <4>1. Remembered(r)
        BY <2>1, <3>1 DEF Alone
      <4>2. Holds(queue, "CONNECTED", r) => Holds(Tail(queue), "CONNECTED", r)
        <5>1. Head(queue) # Msg("CONNECTED", r)
          BY <1>3, <1>5, <1>8, <2>8 DEF Handles, Msg
        <5>2. QED
          BY <1>1, <1>2, <5>1, HoldsTail
      <4>3. ASSUME NEW q \in Phones, Holds(queue, "PHONE_HANGUP", q)
            PROVE  \/ x.trying \/ ~phone[r].on \/ InCall(r)
                   \/ Holds(Tail(queue), "PHONE_HANGUP", q)
        <5>1. CASE Head(queue) = Msg("PHONE_HANGUP", q)
          BY <1>3, <1>5, <1>8, <2>8, <5>1, NoPhoneIsNone DEF Handles, Msg
        <5>2. CASE Head(queue) # Msg("PHONE_HANGUP", q)
          BY <1>1, <1>2, <4>3, <5>2, HoldsTail
        <5>3. QED
          BY <5>1, <5>2
      <4>4. bud.trying => x.trying
        BY <1>5, <1>8 DEF Handles
      <4>5. QED
        BY <4>1, <4>2, <4>3, <4>4 DEF Remembered
    <3>2. CASE bud.preempted # r /\ ~x.trying
      <4>1. kind \in {"SCO_REQ", "SCO_ON"}
        BY <1>5, <1>8, <2>8, <3>2, NoPhoneIsNone DEF Handles
      <4>2. InCall(p) \/ Holds(Tail(queue), "PHONE_HANGUP", p)
        BY <1>1, <1>2, <1>3, <2>1, <4>1, FollowedTail DEF Alone, CallEnds
      <4>3. QED
        BY <1>3, <4>2
    <3>3. QED
      BY <3>1, <3>2
  <2>9. \A r \in Phones : bud'.preempted = r => Remembered(r)'
    BY <1>1, <2>2, <2>8 DEF Remembered, InCall
  <2>10. QED
    BY <2>1, <2>2, <2>3, <2>4, <2>5, <2>6, <2>7, <2>9 DEF Alone
<1>9. QED
  BY <1>1, <1>7, <1>8 DEF IInv

LEMMA DataInIrqStep == ASSUME IInv, data_in_irq PROVE IInv'
<1>1. queue \in Seq(Message) /\ air \in Seq(Command)
  BY QueueType DEF IInv
<1>2. /\ air # <<>> /\ queue' = Append(queue, Head(air)) /\ air' = Tail(air)
      /\ UNCHANGED <<bud, phone, link, deaf, short, tone, events>>
  BY DEF data_in_irq
<1>3. link
  BY <1>2 DEF IInv, Alone
<1>4. Head(air) \in Command /\ air' \in Seq(Command)
  BY <1>1, <1>2, HeadTailProperties
<1>5. Head(air) \in Message
  BY <1>4 DEF Command, Message
<1>6. queue' \in Seq(Message)
  BY <1>1, <1>2, <1>5, AppendProperties
<1>7. TypeOK'
  BY <1>2, <1>4, <1>6 DEF IInv, TypeOK, Message, Command
<1>8. QED
  BY <1>2, <1>3, <1>7 DEF IInv

\* What a timer does to the bud: a message of p may follow.
LEMMA InternalStep ==
    ASSUME IInv, NEW x, Internal(x), Sane(x), x.out = <<>>,
           NEW k \in Seq(Message), queue' = queue \o k,
           \A i \in DOMAIN k : k[i].kind \in AppMessages,
           ~link =>
             /\ "late" \notin x.slips => "late" \notin bud.slips
             /\ \/ x.esco = bud.esco /\ x.wait = bud.wait
                \/ x.esco = bud.wait /\ x.wait = NoPhone
             /\ x.preempted \in {bud.preempted, NoPhone}
             /\ bud.trying => x.trying \/ x.preempted = NoPhone
    PROVE  IInv'
<1>1. /\ bud' = x /\ UNCHANGED <<phone, air, link, deaf, short, tone, events>>
  BY DEF Internal
<1>2. queue \in Seq(Message) /\ air \in Seq(Command) /\ TypeOK
  BY QueueType DEF IInv
<1>3. queue' \in Seq(Message)
  BY <1>2, QueueMore
<1>4. TypeOK'
  BY <1>1, <1>2, <1>3 DEF TypeOK, Message, Command, Sane
<1>5. \A r, a : a \notin AppMessages => ~Holds(k, a, r)
  BY DEF Holds, Msg
<1>6. ASSUME ~link PROVE Alone'
  <2>1. Alone
    BY <1>6 DEF IInv
  <2>2. air' = <<>> /\ Lone(bud)'
    BY <1>1, <1>6, <2>1 DEF Alone, Sane
  <2>3. \A i \in DOMAIN queue' : queue'[i].kind \notin Commands
    <3>1. \A i \in DOMAIN queue' :
             \/ queue'[i] = queue[i] /\ i \in DOMAIN queue
             \/ \E j \in DOMAIN k : queue'[i] = k[j]
      BY <1>2, QueueMore
    <3>2. AppMessages \cap Commands = {}
      BY DEF AppMessages, Commands
    <3>3. QED
      BY <2>1, <3>1, <3>2 DEF Alone
  <2>4. NotedBy(bud)'
    BY <1>1, <1>6, <2>1 DEF Alone, NotedBy
  <2>5. AudioEnds'
    <3>1. SUFFICES ASSUME NEW r \in Phones, phone[r].sco # "up"
                   PROVE  /\ "late" \notin x.slips /\ x.esco = r
                                => Holds(queue \o k, "SCO_OFF", r)
                          /\ Followed(queue \o k, "SCO_ON", "SCO_OFF", r)
      BY <1>1 DEF AudioEnds
    <3>2. /\ "late" \notin bud.slips /\ bud.esco = r => Holds(queue, "SCO_OFF", r)
          /\ Followed(queue, "SCO_ON", "SCO_OFF", r)
      BY <2>1, <3>1 DEF Alone, AudioEnds
    <3>3. "late" \notin x.slips /\ x.esco = r => bud.esco = r /\ "late" \notin bud.slips
      BY <1>6, <2>1, <3>1, NoPhoneIsNone DEF Alone, NotedBy
    <3>4. Holds(queue, "SCO_OFF", r) => Holds(queue \o k, "SCO_OFF", r)
      BY <1>2, HoldsMore
    <3>5. ~Holds(k, "SCO_ON", r)
      BY <1>5 DEF AppMessages
    <3>6. Followed(queue \o k, "SCO_ON", "SCO_OFF", r)
      BY <1>2, <3>2, <3>5, FollowedMore
    <3>7. QED
      BY <3>2, <3>3, <3>4, <3>6
  <2>6. CallEnds'
    <3>1. SUFFICES ASSUME NEW r \in Phones, ~InCall(r)
                   PROVE  /\ Followed(queue \o k, "SCO_REQ", "PHONE_HANGUP", r)
                          /\ Followed(queue \o k, "SCO_ON", "PHONE_HANGUP", r)
      BY <1>1, <2>1 DEF Alone, CallEnds, InCall
    <3>2. ~Holds(k, "SCO_ON", r) /\ ~Holds(k, "SCO_REQ", r)
      BY <1>5 DEF AppMessages
    <3>3. QED
      BY <1>2, <2>1, <3>1, <3>2, FollowedMore DEF Alone, CallEnds
  <2>7. ASSUME NEW r \in Phones, x.preempted = r
        PROVE  \/ x.trying \/ ~phone[r].on \/ Holds(queue \o k, "CONNECTED", r)
               \/ \E q \in Phones : InCall(q) \/ Holds(queue \o k, "PHONE_HANGUP", q)
    <3>1. bud.preempted = r /\ (bud.trying => x.trying)
      BY <1>6, <2>7, NoPhoneIsNone
    <3>2. Remembered(r)
      BY <2>1, <3>1 DEF Alone
    <3>3. Holds(queue, "CONNECTED", r) => Holds(queue \o k, "CONNECTED", r)
      BY <1>2, HoldsMore
    <3>4. \A q \in Phones : Holds(queue, "PHONE_HANGUP", q) => Holds(queue \o k, "PHONE_HANGUP", q)
      BY <1>2, HoldsMore
    <3>5. QED
      BY <3>1, <3>2, <3>3, <3>4 DEF Remembered
  <2>8. \A r \in Phones : bud'.preempted = r => Remembered(r)'
    BY <1>1, <2>7 DEF Remembered, InCall
  <2>9. QED
    BY <2>2, <2>3, <2>4, <2>5, <2>6, <2>8 DEF Alone
<1>7. QED
  BY <1>1, <1>4, <1>6 DEF IInv

\* Phone p becomes r and reports the events in kinds.
LEMMA Reported ==
    ASSUME NEW p \in Phones, NEW kinds \in Seq(StackEvents)
    PROVE  LET k == [i \in DOMAIN kinds |-> Msg(kinds[i], p)]
           IN  /\ k \in Seq(Message) /\ DOMAIN k = DOMAIN kinds
               /\ \A i \in DOMAIN k : k[i].kind \in StackEvents
               /\ \A a : Holds(k, a, p) <=> \E i \in DOMAIN kinds : kinds[i] = a
               /\ \A a, q : q # p => ~Holds(k, a, q)
<1> DEFINE k == [i \in DOMAIN kinds |-> Msg(kinds[i], p)]
<1>1. DOMAIN kinds = 1..Len(kinds) /\ Len(kinds) \in Nat
      /\ \A i \in DOMAIN kinds : kinds[i] \in StackEvents
  BY LenProperties, ElementOfSeq
<1>2. \A i \in 1..Len(kinds) : Msg(kinds[i], p) \in Message
  BY <1>1 DEF Msg, Message
<1>3. k \in Seq(Message)
  <2>1. k \in [1..Len(kinds) -> Message]
    BY <1>1, <1>2
  <2>2. QED
    BY <1>1, <2>1, SeqDef
<1>4. DOMAIN k = DOMAIN kinds /\ \A i \in DOMAIN kinds : k[i] = Msg(kinds[i], p)
  OBVIOUS
<1> HIDE DEF k
<1>5. \A i \in DOMAIN k : k[i].kind \in StackEvents
  BY <1>1, <1>4 DEF Msg
<1>6. \A a : Holds(k, a, p) <=> \E i \in DOMAIN kinds : kinds[i] = a
  BY <1>4 DEF Holds, Msg
<1>7. \A a, q : q # p => ~Holds(k, a, q)
  BY <1>4 DEF Holds, Msg
<1>8. QED
  BY <1>3, <1>4, <1>5, <1>6, <1>7 DEF k

Tells(kinds, a) == \E i \in DOMAIN kinds : kinds[i] = a

\* What phone p reports when it becomes r: the end of its call and of its audio.
Reports(p, r, kinds) ==
    /\ r.sco = "may" => r.call # "no"
    /\ r.sco # "no" => r.on
    /\ r.sco # "up" => /\ ~Tells(kinds, "SCO_ON")
                       /\ phone[p].sco = "up" => Tells(kinds, "SCO_OFF")
    /\ r.call = "no" => /\ ~Tells(kinds, "SCO_REQ") /\ ~Tells(kinds, "SCO_ON")
                        /\ InCall(p) => Tells(kinds, "PHONE_HANGUP")
    /\ r.on /\ ~phone[p].on => Tells(kinds, "CONNECTED")

LEMMA PhonedStep ==
    ASSUME IInv, NEW p \in Phones, NEW r \in Phone, NEW kinds \in Seq(StackEvents),
           Phoned(p, r, kinds), events' \in 0..MaxEvents,
           Sane(bud'), bud'.out = <<>>,
           ~link =>
             /\ "late" \notin bud'.slips => "late" \notin bud.slips
             /\ bud'.esco = bud.esco /\ bud'.wait = bud.wait
             /\ bud'.preempted = bud.preempted /\ bud'.trying = bud.trying
             /\ "late" \notin bud'.slips /\ bud'.wait = p => r.on /\ r.sco = "up"
             /\ Reports(p, r, kinds)
    PROVE  IInv'
<1> DEFINE k == [i \in DOMAIN kinds |-> Msg(kinds[i], p)]
<1>1. /\ phone' = [phone EXCEPT ![p] = r] /\ queue' = queue \o k
      /\ UNCHANGED <<air, link, deaf, short, tone>>
  BY DEF Phoned
<1>2. queue \in Seq(Message) /\ air \in Seq(Command) /\ TypeOK
  BY QueueType DEF IInv
<1>3. /\ k \in Seq(Message) /\ DOMAIN k = DOMAIN kinds
      /\ \A i \in DOMAIN k : k[i].kind \in StackEvents
      /\ \A a : Holds(k, a, p) <=> Tells(kinds, a)
      /\ \A a, q : q # p => ~Holds(k, a, q)
  BY Reported DEF Tells
<1> HIDE DEF k
<1>4. queue' \in Seq(Message)
  BY <1>1, <1>2, <1>3, QueueMore
<1>5. phone' \in [Phones -> Phone] /\ phone'[p] = r
      /\ \A q \in Phones : q # p => phone'[q] = phone[q]
  BY <1>1, <1>2 DEF TypeOK
<1>6. TypeOK'
  BY <1>1, <1>2, <1>4, <1>5 DEF TypeOK, Message, Command, Sane
<1>7. ASSUME ~link PROVE Alone'
  <2>1. Alone
    BY <1>7 DEF IInv
  <2>2. air' = <<>> /\ Lone(bud)'
    BY <1>1, <1>7, <2>1 DEF Alone, Sane
  <2>3. \A i \in DOMAIN queue' : queue'[i].kind \notin Commands
    <3>1. \A i \in DOMAIN queue' :
             \/ queue'[i] = queue[i] /\ i \in DOMAIN queue
             \/ \E j \in DOMAIN k : queue'[i] = k[j]
      BY <1>1, <1>2, <1>3, QueueMore
    <3>2. StackEvents \cap Commands = {}
      BY DEF StackEvents, Commands
    <3>3. QED
      BY <1>3, <2>1, <3>1, <3>2 DEF Alone
  <2>4. NotedBy(bud)'
    <3>1. SUFFICES ASSUME "late" \notin bud'.slips, bud'.wait # NoPhone
                   PROVE  phone'[bud'.wait].on /\ phone'[bud'.wait].sco = "up"
      BY DEF NotedBy
    <3>2. phone[bud.wait].on /\ phone[bud.wait].sco = "up" /\ bud'.wait = bud.wait
      BY <1>7, <2>1, <3>1 DEF Alone, NotedBy
    <3>3. bud.wait \in Phones
      BY <1>2, <3>1, <3>2 DEF TypeOK, Bud, Some
    <3>4. QED
      BY <1>5, <1>7, <3>1, <3>2, <3>3
  <2>5. AudioEnds'
    <3>1. SUFFICES ASSUME NEW q \in Phones, phone'[q].sco # "up"
                   PROVE  /\ "late" \notin bud'.slips /\ bud'.esco = q
                                => Holds(queue \o k, "SCO_OFF", q)
                          /\ Followed(queue \o k, "SCO_ON", "SCO_OFF", q)
      BY <1>1 DEF AudioEnds
    <3>2. CASE phone[q].sco # "up"
      <4>1. /\ "late" \notin bud.slips /\ bud.esco = q => Holds(queue, "SCO_OFF", q)
            /\ Followed(queue, "SCO_ON", "SCO_OFF", q)
        BY <2>1, <3>2 DEF Alone, AudioEnds
      <4>2. ~Holds(k, "SCO_ON", q)
        BY <1>3, <1>5, <1>7, <3>1 DEF Reports
      <4>3. Followed(queue \o k, "SCO_ON", "SCO_OFF", q)
        BY <1>2, <1>3, <4>1, <4>2, FollowedMore
      <4>4. Holds(queue, "SCO_OFF", q) => Holds(queue \o k, "SCO_OFF", q)
        BY <1>2, <1>3, HoldsMore
      <4>5. QED
        BY <1>7, <4>1, <4>3, <4>4
    <3>3. CASE phone[q].sco = "up"
      <4>1. q = p /\ Holds(k, "SCO_OFF", p) /\ ~Holds(k, "SCO_ON", p)
        BY <1>3, <1>5, <1>7, <3>1, <3>3 DEF Reports
      <4>2. QED
        BY <1>2, <1>3, <4>1, FollowedMore, HoldsMore
    <3>4. QED
      BY <3>2, <3>3
  <2>6. CallEnds'
    <3>1. SUFFICES ASSUME NEW q \in Phones
                   PROVE  /\ phone'[q].sco = "may" => phone'[q].call # "no"
                          /\ phone'[q].sco # "no" => phone'[q].on
                          /\ phone'[q].call = "no" =>
                               /\ Followed(queue \o k, "SCO_REQ", "PHONE_HANGUP", q)
                               /\ Followed(queue \o k, "SCO_ON", "PHONE_HANGUP", q)
      BY <1>1 DEF CallEnds, InCall
    <3>2. /\ phone'[q].sco = "may" => phone'[q].call # "no"
          /\ phone'[q].sco # "no" => phone'[q].on
      BY <1>5, <1>7, <2>1 DEF Alone, CallEnds, InCall, Reports
    <3>3. ASSUME phone'[q].call = "no"
          PROVE  /\ Followed(queue \o k, "SCO_REQ", "PHONE_HANGUP", q)
                 /\ Followed(queue \o k, "SCO_ON", "PHONE_HANGUP", q)
      <4>1. ~Holds(k, "SCO_REQ", q) /\ ~Holds(k, "SCO_ON", q)
        BY <1>3, <1>5, <1>7, <3>3 DEF Reports
      <4>2. CASE InCall(q)
        <5>1. Holds(k, "PHONE_HANGUP", q)
          BY <1>3, <1>5, <1>7, <3>3, <4>2 DEF InCall, Reports
        <5>2. QED
          BY <1>2, <1>3, <4>1, <5>1, FollowedMore
      <4>3. CASE ~InCall(q)
        <5>1. /\ Followed(queue, "SCO_REQ", "PHONE_HANGUP", q)
              /\ Followed(queue, "SCO_ON", "PHONE_HANGUP", q)
          BY <2>1, <4>3 DEF Alone, CallEnds
        <5>2. QED
          BY <1>2, <1>3, <4>1, <5>1, FollowedMore
      <4>4. QED
        BY <4>2, <4>3
    <3>4. QED
      BY <3>2, <3>3
  <2>7. ASSUME NEW q \in Phones, bud'.preempted = q
        PROVE  \/ bud'.trying \/ ~phone'[q].on \/ Holds(queue \o k, "CONNECTED", q)
               \/ \E s \in Phones : phone'[s].call # "no" \/ Holds(queue \o k, "PHONE_HANGUP", s)
    <3>1. Remembered(q)
      BY <1>7, <2>1, <2>7 DEF Alone
    <3>2. Holds(queue, "CONNECTED", q) => Holds(queue \o k, "CONNECTED", q)
      BY <1>2, <1>3, HoldsMore
    <3>3. ~phone[q].on => ~phone'[q].on \/ Holds(queue \o k, "CONNECTED", q)
      <4>1. ~phone[q].on => ~phone'[q].on \/ Holds(k, "CONNECTED", q)
        BY <1>3, <1>5, <1>7 DEF Reports
      <4>2. QED
        BY <1>2, <1>3, <4>1, HoldsMore
    <3>4. \A s \in Phones : Holds(queue, "PHONE_HANGUP", s) => Holds(queue \o k, "PHONE_HANGUP", s)
      BY <1>2, <1>3, HoldsMore
    <3>5. ASSUME NEW s \in Phones, InCall(s)
          PROVE  phone'[s].call # "no" \/ Holds(queue \o k, "PHONE_HANGUP", s)
      <4>1. phone'[s].call # "no" \/ Holds(k, "PHONE_HANGUP", s)
        BY <1>3, <1>5, <1>7, <3>5 DEF InCall, Reports
      <4>2. QED
        BY <1>2, <1>3, <4>1, HoldsMore
    <3>6. QED
      BY <1>7, <3>1, <3>2, <3>3, <3>4, <3>5 DEF Remembered
  <2>8. \A q \in Phones : bud'.preempted = q => Remembered(q)'
    BY <1>1, <2>7 DEF Remembered, InCall
  <2>9. QED
    BY <2>2, <2>3, <2>4, <2>5, <2>6, <2>8 DEF Alone
<1>8. QED
  BY <1>1, <1>6, <1>7 DEF IInv

LEMMA NoMessage ==
    /\ <<>> \in Seq(Message) /\ DOMAIN <<>> = {}
    /\ \A q \in Seq(Message) : q \o <<>> = q
<1>1. <<>> \in Seq(Message)
  BY EmptySeq
<1>2. \A q \in Seq(Message) : q \o <<>> = q
  BY ConcatEmptySeq
<1>3. QED
  BY <1>1, <1>2

LEMMA OneMessage ==
    ASSUME NEW kind \in AppMessages, NEW p \in Phones
    PROVE  /\ <<Msg(kind, p)>> \in Seq(Message)
           /\ \A i \in DOMAIN <<Msg(kind, p)>> : <<Msg(kind, p)>>[i].kind \in AppMessages
           /\ \A q \in Seq(Message) : Append(q, Msg(kind, p)) = q \o <<Msg(kind, p)>>
<1>1. Msg(kind, p) \in Message
  BY DEF Msg, Message
<1>2. \A q \in Seq(Message) : Append(q, Msg(kind, p)) = q \o <<Msg(kind, p)>>
  BY <1>1, AppendIsConcat
<1>3. Msg(kind, p).kind = kind
  BY DEF Msg
<1>4. <<Msg(kind, p)>> \in Seq(Message)
  BY <1>1
<1>5. \A i \in DOMAIN <<Msg(kind, p)>> : <<Msg(kind, p)>>[i] = Msg(kind, p)
  OBVIOUS
<1>6. QED
  BY <1>2, <1>3, <1>4, <1>5

\* A timer that only changes marks.
LEMMA InternalLike ==
    ASSUME IInv, NEW x, Internal(x), Like(bud, x), UNCHANGED queue
    PROVE  IInv'
<1>1. Sane(bud) /\ bud.out = <<>> /\ queue \in Seq(Message)
  BY SaneBud, QueueType DEF IInv, TypeOK
<1>2. Sane(x)
  BY <1>1, LikePasses DEF Passes
<1>3. queue' = queue \o <<>>
  BY <1>1, NoMessage
<1>4. QED
  BY <1>1, <1>2, <1>3, NoMessage, InternalStep DEF Like

LEMMA PostsLike ==
    ASSUME IInv, NEW x, NEW kind \in AppMessages, NEW p \in Phones, Posts(x, kind, p), Like(bud, x)
    PROVE  IInv'
<1>1. Sane(bud) /\ bud.out = <<>> /\ queue \in Seq(Message)
  BY SaneBud, QueueType DEF IInv, TypeOK
<1>2. Sane(x)
  BY <1>1, LikePasses DEF Passes
<1> DEFINE k == <<Msg(kind, p)>>
<1>3. Internal(x) /\ queue' = queue \o k
  BY <1>1, OneMessage DEF Posts
<1>4. k \in Seq(Message) /\ \A i \in DOMAIN k : k[i].kind \in AppMessages
  BY OneMessage
<1> HIDE DEF k
<1>5. QED
  BY <1>1, <1>2, <1>3, <1>4, InternalStep DEF Like

LEMMA TryPlayStep == ASSUME IInv, try_play_preempted_a2dp PROVE IInv'
<1> DEFINE p == bud.preempted
           gone == IF p = NoPhone THEN TRUE ELSE ~phone[p].on
           y == IF gone \/ bud.player = p THEN bud ELSE Key(bud, p, "play")
           n == IF gone \/ bud.player # p THEN NoPhone ELSE y.preempted
           u == [y EXCEPT !.trying = FALSE]
           x == [u EXCEPT !.preempted = n]
<1>1. Sane(bud) /\ bud.out = <<>> /\ queue \in Seq(Message) /\ bud \in Bud
  BY SaneBud, QueueType DEF IInv, TypeOK
<1>2. Eased(bud, y)
  <2>1. CASE gone \/ bud.player = p
    BY <1>1, <2>1, EasedSelf
  <2>2. CASE ~(gone \/ bud.player = p)
    BY <1>1, <2>2, EasedKey DEF Bud, Some
  <2>3. QED
    BY <2>1, <2>2
<1>3. Internal(x) /\ UNCHANGED queue
  <2>1. x = [y EXCEPT !.trying = FALSE,
                      !.preempted = IF gone \/ bud.player # p THEN NoPhone ELSE @]
    BY <1>2 DEF Eased, Bud
  <2>2. QED
    BY <2>1 DEF try_play_preempted_a2dp
<1>4. n \in {NoPhone, bud.preempted} /\ n \in Some
  BY <1>1, <1>2 DEF Eased, Bud, Some
<1>5. ~link => n = NoPhone
  BY <1>1 DEF Sane, Lone
<1>6. Sane(y) /\ y \in Bud
  BY <1>1, <1>2, EasedSane DEF Eased
<1> HIDE DEF y, n
<1>7. /\ u \in Bud /\ u.slips = y.slips /\ u.player = y.player /\ u.out = y.out
      /\ u.slots = y.slots /\ u.esco = y.esco /\ u.wait = y.wait /\ u.open = y.open
  BY <1>6 DEF Bud
<1> HIDE DEF u
<1>8. /\ x \in Bud /\ x.slips = u.slips /\ x.player = u.player /\ x.out = u.out
      /\ x.slots = u.slots /\ x.esco = u.esco /\ x.wait = u.wait /\ x.open = u.open
      /\ x.preempted = n
  BY <1>4, <1>7 DEF Bud
<1> HIDE DEF x
<1>9. Sane(x)
  BY <1>5, <1>6, <1>7, <1>8 DEF Sane, Lone, Tidy, Called
<1>10. /\ x.out = <<>> /\ x.esco = bud.esco /\ x.wait = bud.wait
       /\ "late" \notin x.slips => "late" \notin bud.slips
  BY <1>1, <1>2, <1>7, <1>8 DEF Eased, SameCall, Bad
<1>11. queue' = queue \o <<>>
  BY <1>1, <1>3, NoMessage
<1>12. QED
  BY <1>3, <1>5, <1>8, <1>9, <1>10, <1>11, NoMessage, InternalStep

LEMMA SilenceDetectStep ==
    ASSUME IInv, NEW i \in {1, 2}, a2dp_slience_detect(i) PROVE IInv'
<1> DEFINE p == bud.slots[i].of
           f == [bud.slots EXCEPT ![i].open = FALSE]
           x == [bud EXCEPT !.slots = f]
<1>1. Sane(bud) /\ bud.out = <<>> /\ queue \in Seq(Message) /\ bud \in Bud
  BY SaneBud, QueueType DEF IInv, TypeOK
<1>2. CASE Internal([bud EXCEPT !.dead = TRUE]) /\ UNCHANGED queue
  <2>1. Like(bud, [bud EXCEPT !.dead = TRUE])
    BY <1>1 DEF Like, Bud
  <2>2. QED
    BY <1>2, <2>1, InternalLike
<1>3. CASE Posts([bud EXCEPT !.slots[i].open = FALSE], "A2DP_START", p)
  <2>1. f \in [{1, 2} -> Slot] /\ \A j \in {1, 2} : f[j].of = bud.slots[j].of
    <3> DEFINE s == bud.slots[i]
               e == [s EXCEPT !.open = FALSE]
    <3>1. bud.slots \in [{1, 2} -> Slot] /\ s \in Slot
      BY <1>1 DEF Bud
    <3>2. f = [bud.slots EXCEPT ![i] = e]
      BY <3>1
    <3> HIDE DEF s
    <3>3. e \in Slot /\ e.of = s.of
      BY <3>1 DEF Slot
    <3> HIDE DEF e
    <3>4. QED
      BY <3>1, <3>2, <3>3 DEF s
  <2>2. Internal(x) /\ queue' = Append(queue, Msg("A2DP_START", p))
    BY <1>1, <1>3 DEF Posts, Bud
  <2> HIDE DEF f
  <2>3. /\ x \in Bud /\ x.slips = bud.slips /\ x.player = bud.player /\ x.out = bud.out
        /\ x.slots = f /\ x.esco = bud.esco /\ x.wait = bud.wait /\ x.open = bud.open
        /\ x.preempted = bud.preempted /\ x.trying = bud.trying
    BY <1>1, <2>1 DEF Bud
  <2> HIDE DEF x
  <2>4. Sane(x)
    BY <1>1, <2>1, <2>3 DEF Sane, Lone, Tidy, Called
  <2>5. p \in Phones
    <3>1. bud.slots[i] \in Slot /\ bud.slots[i].open
      BY <1>1 DEF Bud, a2dp_slience_detect
    <3>2. QED
      BY <3>1 DEF Slot, Some
  <2> DEFINE k == <<Msg("A2DP_START", p)>>
  <2>6. /\ k \in Seq(Message) /\ \A j \in DOMAIN k : k[j].kind \in AppMessages
        /\ queue' = queue \o k
    BY <1>1, <2>2, <2>5, OneMessage DEF AppMessages
  <2> HIDE DEF k
  <2>7. QED
    BY <1>1, <2>2, <2>3, <2>4, <2>6, InternalStep
<1>4. QED
  BY <1>2, <1>3 DEF a2dp_slience_detect

LEMMA EnergyStep ==
    ASSUME IInv, NEW p \in Phones, EnergyAfterCall(p) \/ NoEnergy(p) PROVE IInv'
<1>1. bud \in Bud
  BY DEF IInv, TypeOK
<1>2. Like(bud, [bud EXCEPT !.energy = NoPhone])
  BY <1>1, Fields DEF Some
<1>3. Like(bud, [bud EXCEPT !.told = TRUE])
  BY <1>1 DEF Like, Bud
<1>4. CASE Internal([bud EXCEPT !.energy = NoPhone]) /\ UNCHANGED queue
  BY <1>2, <1>4, InternalLike
<1>5. CASE Posts([bud EXCEPT !.energy = NoPhone], "SEND_PLAY", p)
  BY <1>2, <1>5, PostsLike DEF AppMessages
<1>6. CASE Posts([bud EXCEPT !.told = TRUE], "NO_ENERGY", p)
  BY <1>3, <1>6, PostsLike DEF AppMessages
<1>7. QED
  BY <1>4, <1>5, <1>6 DEF EnergyAfterCall, NoEnergy

LEMMA RetryStep ==
    ASSUME IInv, retry_open_a2dp_player \/ retry_start_a2dp_player PROVE IInv'
<1>1. bud \in Bud /\ short \in {"no", "parse", "start"}
  BY DEF IInv, TypeOK
<1>2. ASSUME NEW st \in {"run", "parse", "start"} PROVE Like(bud, [bud EXCEPT !.stream = st])
  BY <1>1, <1>2 DEF Like, Bud
<1>3. CASE retry_open_a2dp_player
  <2> DEFINE st == IF short = "no" THEN "run" ELSE short
             y == [bud EXCEPT !.player = bud.player, !.stream = st]
  <2>1. a2dp_player_open(bud, bud.player) = y
    BY <1>1, <1>3 DEF retry_open_a2dp_player, a2dp_player_open, Slip, Bud
  <2>2. y = [bud EXCEPT !.stream = st]
    BY <1>1 DEF Bud
  <2>3. st \in {"run", "parse", "start"}
    BY <1>1
  <2> HIDE DEF st, y
  <2>4. Like(bud, y)
    BY <1>2, <2>2, <2>3
  <2>5. QED
    BY <1>3, <2>1, <2>4, InternalLike DEF retry_open_a2dp_player
<1>4. CASE retry_start_a2dp_player
  BY <1>2, <1>4, InternalLike DEF retry_start_a2dp_player
<1>5. QED
  BY <1>3, <1>4

LEMMA DelayOpenStep == ASSUME IInv, esco_delay_open PROVE IInv'
<1> DEFINE u == [bud EXCEPT !.esco = bud.wait]
           x == [u EXCEPT !.wait = NoPhone]
<1>1. Sane(bud) /\ bud.out = <<>> /\ queue \in Seq(Message) /\ bud \in Bud
  BY SaneBud, QueueType DEF IInv, TypeOK
<1>2. Internal(x) /\ queue' = queue \o <<>> /\ bud.wait # NoPhone
  <2>1. x = [bud EXCEPT !.esco = bud.wait, !.wait = NoPhone]
    BY <1>1 DEF Bud
  <2>2. QED
    BY <1>1, <2>1, NoMessage DEF esco_delay_open
<1>3. /\ u \in Bud /\ u.slips = bud.slips /\ u.player = bud.player /\ u.out = bud.out
      /\ u.slots = bud.slots /\ u.esco = bud.wait /\ u.open = bud.open
      /\ u.preempted = bud.preempted /\ u.trying = bud.trying
  BY <1>1 DEF Bud
<1> HIDE DEF u
<1>4. /\ x \in Bud /\ x.slips = u.slips /\ x.player = u.player /\ x.out = u.out
      /\ x.slots = u.slots /\ x.esco = u.esco /\ x.open = u.open
      /\ x.preempted = u.preempted /\ x.trying = u.trying /\ x.wait = NoPhone
  BY <1>3 DEF Bud, Some
<1> HIDE DEF x
<1>5. Sane(x)
  BY <1>1, <1>2, <1>3, <1>4 DEF Sane, Lone, Tidy, Called
<1>6. QED
  BY <1>1, <1>2, <1>3, <1>4, <1>5, NoMessage, InternalStep

LEMMA TimersStep == ASSUME IInv, Timers PROVE IInv'
BY TryPlayStep, RetryStep, DelayOpenStep, SilenceDetectStep, EnergyStep DEF Timers

LEMMA TellsMore ==
    ASSUME NEW s \in Seq(StackEvents), NEW t \in Seq(StackEvents)
    PROVE  /\ s \o t \in Seq(StackEvents)
           /\ \A a : Tells(s \o t, a) <=> Tells(s, a) \/ Tells(t, a)
<1>1. /\ DOMAIN s = 1..Len(s) /\ DOMAIN t = 1..Len(t) /\ Len(s) \in Nat /\ Len(t) \in Nat
      /\ s \o t \in Seq(StackEvents)
      /\ DOMAIN (s \o t) = 1..(Len(s) + Len(t))
      /\ \A i \in 1..(Len(s) + Len(t)) :
             (s \o t)[i] = IF i <= Len(s) THEN s[i] ELSE t[i - Len(s)]
  BY ConcatProperties, LenProperties
<1>2. ASSUME NEW a, Tells(s, a) PROVE Tells(s \o t, a)
  <2>1. PICK i \in 1..Len(s) : s[i] = a
    BY <1>1, <1>2 DEF Tells
  <2>2. i \in 1..(Len(s) + Len(t)) /\ i <= Len(s)
    BY <1>1
  <2>3. QED
    BY <1>1, <2>1, <2>2 DEF Tells
<1>3. ASSUME NEW a, Tells(t, a) PROVE Tells(s \o t, a)
  <2>1. PICK i \in 1..Len(t) : t[i] = a
    BY <1>1, <1>3 DEF Tells
  <2>2. /\ i + Len(s) \in 1..(Len(s) + Len(t)) /\ ~(i + Len(s) <= Len(s))
        /\ (i + Len(s)) - Len(s) = i
    BY <1>1
  <2>3. (s \o t)[i + Len(s)] = a
    BY <1>1, <2>1, <2>2
  <2>4. QED
    BY <1>1, <2>2, <2>3 DEF Tells
<1>4. ASSUME NEW a, Tells(s \o t, a) PROVE Tells(s, a) \/ Tells(t, a)
  <2>1. PICK i \in 1..(Len(s) + Len(t)) : (s \o t)[i] = a
    BY <1>1, <1>4 DEF Tells
  <2>2. CASE i <= Len(s)
    BY <1>1, <2>1, <2>2 DEF Tells
  <2>3. CASE ~(i <= Len(s))
    <3>1. i - Len(s) \in 1..Len(t)
      BY <1>1, <2>3
    <3>2. t[i - Len(s)] = a
      BY <1>1, <2>1, <2>3
    <3>3. QED
      BY <1>1, <3>1, <3>2 DEF Tells
  <2>4. QED
    BY <2>2, <2>3
<1>5. QED
  BY <1>1, <1>2, <1>3, <1>4

LEMMA TellsFew ==
    /\ <<>> \in Seq(StackEvents) /\ \A a : ~Tells(<<>>, a)
    /\ \A e \in StackEvents : <<e>> \in Seq(StackEvents) /\ \A a : Tells(<<e>>, a) <=> a = e
    /\ \A e, f \in StackEvents :
           <<e, f>> \in Seq(StackEvents) /\ \A a : Tells(<<e, f>>, a) <=> a \in {e, f}
<1>1. <<>> \in Seq(StackEvents) /\ \A a : ~Tells(<<>>, a)
  BY EmptySeq DEF Tells
<1>2. ASSUME NEW e \in StackEvents
      PROVE  <<e>> \in Seq(StackEvents) /\ \A a : Tells(<<e>>, a) <=> a = e
  BY DEF Tells
<1>3. ASSUME NEW e \in StackEvents, NEW f \in StackEvents
      PROVE  <<e, f>> \in Seq(StackEvents) /\ \A a : Tells(<<e, f>>, a) <=> a \in {e, f}
  <2>1. /\ DOMAIN <<e, f>> = 1..2 /\ 1 \in 1..2 /\ 2 \in 1..2 /\ <<e, f>>[1] = e
        /\ <<e, f>>[2] = f /\ \A i \in 1..2 : i = 1 \/ i = 2
    OBVIOUS
  <2>2. \A a : Tells(<<e, f>>, a) <=> a \in {e, f}
    BY <2>1 DEF Tells
  <2>3. QED
    BY <2>2
<1>4. QED
  BY <1>1, <1>2, <1>3

LEMMA StopsTells ==
    ASSUME NEW p \in Phones
    PROVE  /\ Stops(p) \in Seq(StackEvents)
           /\ \A a : Tells(Stops(p), a) => a \in {"AVDTP_SUSPEND", "MEDIA_STOP"}
<1>1. "AVDTP_SUSPEND" \in StackEvents /\ "MEDIA_STOP" \in StackEvents
  BY DEF StackEvents
<1>2. QED
  BY <1>1, TellsFew DEF Stops

LEMMA PhoneFacts ==
    ASSUME IInv, NEW p \in Phones
    PROVE  /\ phone[p] \in Phone /\ bud \in Bud /\ bud.out = <<>>
           /\ ~link => /\ phone[p].sco = "may" => InCall(p)
                       /\ phone[p].sco # "no" => phone[p].on
                       /\ "late" \notin bud.slips /\ bud.wait = p
                             => phone[p].on /\ phone[p].sco = "up"
<1>1. phone[p] \in Phone /\ bud \in Bud /\ bud.out = <<>>
  BY DEF IInv, TypeOK
<1>2. p # NoPhone
  BY NoPhoneIsNone
<1>3. QED
  BY <1>1, <1>2 DEF IInv, Alone, CallEnds, NotedBy

LEMMA EventsType == ASSUME TypeOK, Bounded \/ Unbounded PROVE events' \in 0..MaxEvents
BY PhonesAssumption DEF TypeOK, Bounded, Unbounded

\* y is x for all that the invariant says of a bud.
Same(x, y) == Like(x, y) /\ y.preempted = x.preempted /\ y.trying = x.trying

LEMMA SameFields ==
    ASSUME NEW x \in Bud, NEW p \in Phones
    PROVE  /\ Same(x, x)
           /\ Same(x, Stopped(x, p))
           /\ Same(x, [x EXCEPT !.media = @ \cup {p}])
           /\ Same(x, [x EXCEPT !.refused = @ \ {p}])
           /\ Same(x, [x EXCEPT !.muted = @ \ {p}])
           /\ Same(x, [x EXCEPT !.ask[p] = "none"])
<1>1. Same(x, x)
  BY DEF Same, Like
<1>2. Same(x, Stopped(x, p))
  BY DEF Same, Like, Stopped, Bud
<1>3. Same(x, [x EXCEPT !.media = @ \cup {p}])
  BY DEF Same, Like, Bud
<1>4. Same(x, [x EXCEPT !.refused = @ \ {p}])
  BY DEF Same, Like, Bud
<1>5. Same(x, [x EXCEPT !.muted = @ \ {p}])
  BY DEF Same, Like, Bud
<1>6. Same(x, [x EXCEPT !.ask[p] = "none"])
  <2> DEFINE f == [x.ask EXCEPT ![p] = "none"]
             y == [x EXCEPT !.ask = f]
  <2>1. f \in [Phones -> {"none", "play", "pause"}]
    BY DEF Bud
  <2>2. [x EXCEPT !.ask[p] = "none"] = y
    BY DEF Bud
  <2> HIDE DEF f
  <2>3. y \in Bud
    BY <2>1 DEF Bud
  <2>4. Same(x, y)
    BY <2>3 DEF Same, Like, Bud
  <2>5. QED
    BY <2>2, <2>4
<1>7. QED
  BY <1>1, <1>2, <1>3, <1>4, <1>5, <1>6

LEMMA SameTrans ==
    ASSUME NEW x, NEW y, NEW z, Same(x, y), Same(y, z) PROVE Same(x, z)
BY DEF Same, Like

LEMMA PhonedSame ==
    ASSUME IInv, NEW p \in Phones, NEW r \in Phone, NEW kinds \in Seq(StackEvents),
           Phoned(p, r, kinds), Bounded \/ Unbounded, Same(bud, bud'),
           ~link => Reports(p, r, kinds),
           phone[p].on /\ phone[p].sco = "up" => r.on /\ r.sco = "up"
    PROVE  IInv'
<1>1. Sane(bud) /\ bud.out = <<>> /\ TypeOK
  BY SaneBud DEF IInv, TypeOK
<1>2. Sane(bud')
  BY <1>1, LikePasses DEF Same, Passes
<1>3. events' \in 0..MaxEvents
  BY <1>1, EventsType
<1>4. ~link /\ "late" \notin bud.slips /\ bud.wait = p => phone[p].on /\ phone[p].sco = "up"
  BY PhoneFacts
<1>5. QED
  BY <1>1, <1>2, <1>3, <1>4, PhonedStep DEF Same, Like

LEMMA MusicSteps ==
    ASSUME IInv, NEW p \in Phones, StartMusic(p) \/ Silence(p) \/ StopMusic(p) \/ Notice(p)
    PROVE  IInv'
<1>1. phone[p] \in Phone /\ bud \in Bud
  BY PhoneFacts
<1>2. ASSUME NEW m \in {"off", "sound", "silence", "held"}, NEW kinds \in Seq(StackEvents),
             NEW r, r = [phone[p] EXCEPT !.music = m],
             \A a : Tells(kinds, a) => a \notin {"SCO_ON", "SCO_REQ"}
      PROVE  r \in Phone /\ (~link => Reports(p, r, kinds))
             /\ (phone[p].on /\ phone[p].sco = "up" => r.on /\ r.sco = "up")
  <2>1. r \in Phone /\ r.on = phone[p].on /\ r.sco = phone[p].sco /\ r.call = phone[p].call
    BY <1>1, <1>2 DEF Phone
  <2>2. QED
    BY <1>2, <2>1, PhoneFacts DEF Reports, InCall
<1>3. CASE StartMusic(p)
  <2> DEFINE r == [phone[p] EXCEPT !.music = "sound"]
  <2>1. PICK k \in {<<>>, <<"AVRCP_PLAY">>} : Phoned(p, r, k)
    BY <1>3 DEF StartMusic
  <2>2. k \in Seq(StackEvents) /\ \A a : Tells(k, a) => a \notin {"SCO_ON", "SCO_REQ"}
    <3>1. "AVRCP_PLAY" \in StackEvents
      BY DEF StackEvents
    <3>2. CASE k = <<>>
      BY <3>2, TellsFew
    <3>3. CASE k = <<"AVRCP_PLAY">>
      BY <3>1, <3>3, TellsFew
    <3>4. QED
      BY <3>2, <3>3
  <2>3. Bounded /\ Same(bud, bud')
    BY <1>1, <1>3, SameFields DEF StartMusic
  <2>4. r \in Phone /\ (~link => Reports(p, r, k))
        /\ (phone[p].on /\ phone[p].sco = "up" => r.on /\ r.sco = "up")
    BY <1>2, <2>2
  <2> HIDE DEF r
  <2>5. QED
    BY <2>1, <2>2, <2>3, <2>4, PhonedSame
<1>4. CASE Silence(p)
  <2>1. PICK m \in {"sound", "silence"} : Phoned(p, [phone[p] EXCEPT !.music = m], <<>>)
    BY <1>4 DEF Silence
  <2> DEFINE r == [phone[p] EXCEPT !.music = m]
  <2>2. <<>> \in Seq(StackEvents) /\ \A a : Tells(<<>>, a) => a \notin {"SCO_ON", "SCO_REQ"}
    BY TellsFew
  <2>3. Bounded /\ Same(bud, bud')
    BY <1>1, <1>4, SameFields DEF Silence
  <2>4. r \in Phone /\ (~link => Reports(p, r, <<>>))
        /\ (phone[p].on /\ phone[p].sco = "up" => r.on /\ r.sco = "up")
    BY <1>2, <2>2
  <2>5. Phoned(p, r, <<>>)
    BY <2>1
  <2> HIDE DEF r
  <2>6. QED
    BY <2>2, <2>3, <2>4, <2>5, PhonedSame
<1>5. CASE StopMusic(p)
  <2> DEFINE r == [phone[p] EXCEPT !.music = "off"]
             k == Stops(p)
  <2>1. Phoned(p, r, k) /\ Bounded /\ bud' = Stopped(bud, p)
    BY <1>5 DEF StopMusic
  <2>2. k \in Seq(StackEvents) /\ \A a : Tells(k, a) => a \notin {"SCO_ON", "SCO_REQ"}
    BY StopsTells
  <2>3. Same(bud, bud')
    BY <1>1, <2>1, SameFields
  <2> HIDE DEF k
  <2>4. r \in Phone /\ (~link => Reports(p, r, k))
        /\ (phone[p].on /\ phone[p].sco = "up" => r.on /\ r.sco = "up")
    BY <1>2, <2>2
  <2> HIDE DEF r
  <2>5. QED
    BY <2>1, <2>2, <2>3, <2>4, PhonedSame
<1>6. CASE Notice(p)
  <2> DEFINE r == phone[p]
             k == <<"MEDIA_START">>
  <2>1. Phoned(p, r, k) /\ Unbounded /\ bud' = [bud EXCEPT !.media = @ \cup {p}]
    BY <1>6 DEF Notice
  <2>2. k \in Seq(StackEvents) /\ \A a : Tells(k, a) => a \notin {"SCO_ON", "SCO_REQ"}
    BY TellsFew DEF StackEvents
  <2>3. Same(bud, bud')
    BY <1>1, <2>1, SameFields
  <2> HIDE DEF k
  <2>4. ~link => Reports(p, r, k)
    BY <2>2, PhoneFacts DEF Reports, InCall
  <2>5. QED
    BY <1>1, <2>1, <2>2, <2>3, <2>4, PhonedSame
<1>7. QED
  BY <1>3, <1>4, <1>5, <1>6

LEMMA ObeyStep == ASSUME IInv, NEW p \in Phones, Obey(p) PROVE IInv'
<1> DEFINE y == [bud EXCEPT !.ask[p] = "none"]
           r == phone[p]
<1>1. r \in Phone /\ bud \in Bud
  BY PhoneFacts
<1>2. Same(bud, y) /\ y \in Bud
  BY <1>1, SameFields DEF Same, Like
<1>3. Same(bud, Stopped(y, p))
  BY <1>2, SameFields, SameTrans
<1>4. ASSUME NEW m, NEW kinds \in Seq(StackEvents), m = r \/ \E k \in {"off", "sound"} : m = [r EXCEPT !.music = k],
             \A a : Tells(kinds, a) => a \notin {"SCO_ON", "SCO_REQ"},
             Phoned(p, m, kinds), Same(bud, bud')
      PROVE  IInv'
  <2>1. m \in Phone /\ m.on = r.on /\ m.sco = r.sco /\ m.call = r.call
    BY <1>1, <1>4 DEF Phone
  <2>2. ~link => Reports(p, m, kinds)
    BY <1>4, <2>1, PhoneFacts DEF Reports, InCall
  <2>3. Unbounded
    BY DEF Obey
  <2>4. QED
    BY <1>4, <2>1, <2>2, <2>3, PhonedSame
<1>5. CASE Phoned(p, [r EXCEPT !.music = "off"], Stops(p)) /\ bud' = Stopped(y, p)
  BY <1>3, <1>4, <1>5, StopsTells
<1>6. CASE Phoned(p, [r EXCEPT !.music = "sound"], <<>>) /\ bud' = y
  BY <1>2, <1>4, <1>6, TellsFew
<1>7. CASE Phoned(p, r, <<>>) /\ bud' = y
  BY <1>2, <1>4, <1>7, TellsFew
<1>8. QED
  BY <1>5, <1>6, <1>7 DEF Obey

LEMMA CallSteps ==
    ASSUME IInv, NEW p \in Phones,
           (\E k \in {"in", "out"} : StartCall(p, k)) \/ Answer(p) \/ HangUp(p) \/ Back(p)
    PROVE  IInv'
<1>1. phone[p] \in Phone /\ bud \in Bud
  BY PhoneFacts
<1>2. Same(bud, bud) /\ <<>> \in Seq(StackEvents) /\ \A a : ~Tells(<<>>, a)
  BY <1>1, SameFields, TellsFew
<1>3. CASE \E k \in {"in", "out"} : StartCall(p, k)
  <2>1. PICK k \in {"in", "out"} : StartCall(p, k)
    BY <1>3
  <2> DEFINE r == [phone[p] EXCEPT !.call = k, !.sco = "may"]
  <2>2. /\ Phoned(p, r, <<>>) /\ Bounded /\ UNCHANGED bud
        /\ phone[p].on /\ ~InCall(p) /\ phone[p].sco = "no"
    BY <2>1 DEF StartCall
  <2>3. r \in Phone /\ r.on = phone[p].on /\ r.sco = "may" /\ r.call = k
    BY <1>1 DEF Phone
  <2> HIDE DEF r
  <2>4. Reports(p, r, <<>>)
    BY <1>2, <2>2, <2>3 DEF Reports
  <2>5. QED
    BY <1>2, <2>2, <2>3, <2>4, PhonedSame
<1>4. CASE Answer(p)
  <2> DEFINE r == [phone[p] EXCEPT !.call = "active"]
  <2>1. Phoned(p, r, <<>>) /\ Unbounded /\ UNCHANGED bud
    BY <1>4 DEF Answer
  <2>2. r \in Phone /\ r.on = phone[p].on /\ r.sco = phone[p].sco /\ r.call = "active"
    BY <1>1 DEF Phone
  <2> HIDE DEF r
  <2>3. ~link => Reports(p, r, <<>>)
    BY <1>2, <2>2, PhoneFacts DEF Reports
  <2>4. QED
    BY <1>2, <2>1, <2>2, <2>3, PhonedSame
<1>5. CASE HangUp(p)
  <2> DEFINE o == IF phone[p].sco = "may" THEN "no" ELSE phone[p].sco
             r == [phone[p] EXCEPT !.call = "no", !.sco = o]
             k == <<"PHONE_HANGUP">>
  <2>1. Phoned(p, r, k) /\ Unbounded /\ UNCHANGED bud
    <3>1. r = [phone[p] EXCEPT !.call = "no", !.sco = IF @ = "may" THEN "no" ELSE @]
      BY <1>1 DEF Phone
    <3>2. QED
      BY <1>5, <3>1 DEF HangUp
  <2>2. r \in Phone /\ r.on = phone[p].on /\ r.sco = o /\ r.call = "no"
    BY <1>1 DEF Phone
  <2> HIDE DEF r
  <2>3. k \in Seq(StackEvents) /\ \A a : Tells(k, a) <=> a = "PHONE_HANGUP"
    BY TellsFew DEF StackEvents
  <2> HIDE DEF k
  <2>4. ~link => Reports(p, r, k)
    BY <2>2, <2>3, PhoneFacts DEF Reports
  <2>5. QED
    BY <1>1, <1>2, <2>1, <2>2, <2>3, <2>4, PhonedSame
<1>6. CASE Back(p)
  <2> DEFINE r == [phone[p] EXCEPT !.on = TRUE]
             k == <<"CONNECTED">>
  <2>1. Phoned(p, r, k) /\ Unbounded /\ UNCHANGED bud
    BY <1>6 DEF Back
  <2>2. r \in Phone /\ r.on /\ r.sco = phone[p].sco /\ r.call = phone[p].call
    BY <1>1 DEF Phone
  <2> HIDE DEF r
  <2>3. k \in Seq(StackEvents) /\ \A a : Tells(k, a) <=> a = "CONNECTED"
    BY TellsFew DEF StackEvents
  <2> HIDE DEF k
  <2>4. ~link => Reports(p, r, k)
    BY <2>2, <2>3, PhoneFacts DEF Reports, InCall
  <2>5. QED
    BY <1>2, <2>1, <2>2, <2>3, <2>4, PhonedSame
<1>7. QED
  BY <1>3, <1>4, <1>5, <1>6

LEMMA AudioUpSteps ==
    ASSUME IInv, NEW p \in Phones, OpenSco(p) \/ ScoUp(p) PROVE IInv'
<1>1. phone[p] \in Phone /\ bud \in Bud
  BY PhoneFacts
<1>2. CASE OpenSco(p)
  <2> DEFINE m == IF phone[p].music = "off" THEN "off" ELSE "held"
             r == [phone[p] EXCEPT !.sco = "asked", !.music = m]
             k == Stops(p) \o <<"SCO_REQ">>
  <2>1. Phoned(p, r, k) /\ Unbounded /\ bud' = Stopped(bud, p) /\ phone[p].sco = "may"
    <3>1. r = [phone[p] EXCEPT !.sco = "asked", !.music = IF @ = "off" THEN @ ELSE "held"]
      BY <1>1 DEF Phone
    <3>2. QED
      BY <1>2, <3>1 DEF OpenSco
  <2>2. r \in Phone /\ r.on = phone[p].on /\ r.sco = "asked" /\ r.call = phone[p].call
    BY <1>1 DEF Phone
  <2> HIDE DEF r
  <2>3. "SCO_REQ" \in StackEvents
    BY DEF StackEvents
  <2>4. /\ k \in Seq(StackEvents)
        /\ \A a : Tells(k, a) => a \in {"AVDTP_SUSPEND", "MEDIA_STOP", "SCO_REQ"}
    BY <2>3, StopsTells, TellsFew, TellsMore
  <2> HIDE DEF k
  <2>5. Same(bud, bud')
    BY <1>1, <2>1, SameFields
  <2>6. ~link => Reports(p, r, k)
    BY <2>1, <2>2, <2>4, PhoneFacts DEF Reports, InCall
  <2>7. QED
    BY <2>1, <2>2, <2>4, <2>5, <2>6, PhonedSame
<1>3. CASE ScoUp(p)
  <2> DEFINE r == [phone[p] EXCEPT !.sco = "up"]
             k == <<"SCO_ON">>
  <2>1. /\ Phoned(p, r, k) /\ Unbounded /\ UNCHANGED bud
        /\ phone[p].sco = "asked" /\ InCall(p)
    BY <1>3 DEF ScoUp
  <2>2. r \in Phone /\ r.on = phone[p].on /\ r.sco = "up" /\ r.call = phone[p].call
    BY <1>1 DEF Phone
  <2> HIDE DEF r
  <2>3. k \in Seq(StackEvents)
    BY TellsFew DEF StackEvents
  <2> HIDE DEF k
  <2>4. ~link => Reports(p, r, k)
    BY <2>1, <2>2, PhoneFacts DEF Reports, InCall
  <2>5. Same(bud, bud')
    BY <1>1, <2>1, SameFields
  <2>6. QED
    BY <2>1, <2>2, <2>3, <2>4, <2>5, PhonedSame
<1>4. QED
  BY <1>2, <1>3

LEMMA OutlivedSane ==
    ASSUME NEW x, Sane(x), NEW p \in Phones
    PROVE  LET y == Outlived(x, p)
           IN  Sane(y) /\ Slipped(x, y, "late") /\ (x.wait = p => "late" \in y.slips)
<1> DEFINE y == Outlived(x, p)
<1>1. x \in Bud
  BY DEF Sane
<1>2. Slipped(x, y, "late") /\ (x.wait = p => "late" \in y.slips)
  BY <1>1, SlipTypes DEF Outlived
<1> HIDE DEF y
<1>3. y.slips \cap Bad = {} => x.slips \cap Bad = {}
  BY <1>2 DEF Slipped
<1>4. Sane(y)
  BY <1>2, <1>3 DEF Sane, Lone, Tidy, Called, Slipped, Bad
<1>5. QED
  BY <1>2, <1>4 DEF y

LEMMA ScoDownStep == ASSUME IInv, NEW p \in Phones, ScoDown(p) PROVE IInv'
<1> DEFINE m == IF phone[p].music = "held" THEN "sound" ELSE phone[p].music
           r == [phone[p] EXCEPT !.sco = "no", !.music = m]
           k == IF phone[p].sco = "up" THEN <<"SCO_OFF", "SCO_DISCON">> ELSE <<"SCO_DISCON">>
           y == Outlived(bud, p)
           z == [y EXCEPT !.refused = @ \ {p}]
<1>1. phone[p] \in Phone /\ bud \in Bud /\ bud.out = <<>>
  BY PhoneFacts
<1>2. Phoned(p, r, k) /\ Unbounded /\ bud' = z
  <2>1. r = [phone[p] EXCEPT !.sco = "no", !.music = IF @ = "held" THEN "sound" ELSE @]
    BY <1>1 DEF Phone
  <2>2. QED
    BY <2>1 DEF ScoDown
<1>3. r \in Phone /\ r.on = phone[p].on /\ r.sco = "no" /\ r.call = phone[p].call
  BY <1>1 DEF Phone
<1>4. Sane(y) /\ Slipped(bud, y, "late") /\ (bud.wait = p => "late" \in y.slips)
  BY SaneBud, OutlivedSane
<1>5. Same(y, z)
  BY <1>4, SameFields DEF Sane
<1> HIDE DEF r, y, z
<1>6. Sane(z)
  BY <1>4, <1>5, LikePasses DEF Same, Passes
<1>7. /\ k \in Seq(StackEvents) /\ ~Tells(k, "SCO_ON") /\ ~Tells(k, "SCO_REQ")
      /\ phone[p].sco = "up" => Tells(k, "SCO_OFF")
  <2>1. "SCO_OFF" \in StackEvents /\ "SCO_DISCON" \in StackEvents
    BY DEF StackEvents
  <2>2. QED
    BY <2>1, TellsFew
<1> HIDE DEF k
<1>8. Reports(p, r, k)
  <2>1. InCall(p) <=> r.call # "no"
    BY <1>3 DEF InCall
  <2>2. QED
    BY <1>3, <1>7, <2>1 DEF Reports
<1>9. TypeOK /\ events' \in 0..MaxEvents
  BY <1>2, EventsType DEF IInv
<1>10. /\ z.out = <<>> /\ z.esco = bud.esco /\ z.wait = bud.wait
       /\ z.preempted = bud.preempted /\ z.trying = bud.trying
       /\ "late" \notin z.slips => "late" \notin bud.slips /\ bud.wait # p
  BY <1>1, <1>4, <1>5 DEF Same, Like, Slipped
<1>11. QED
  BY <1>2, <1>3, <1>6, <1>7, <1>8, <1>9, <1>10, PhonedStep

\* Phone p is gone: what was open for it is closed.
LEMMA GoneSane ==
    ASSUME NEW x, Sane(x), NEW p \in Phones, x.wait = p => "late" \in x.slips
    PROVE  LET y == [x EXCEPT !.media = @ \ {p}, !.muted = @ \ {p}, !.open = @ \ {p},
                              !.refused = @ \ {p}, !.ask[p] = "none"]
           IN  /\ Sane(y) /\ y.out = x.out /\ y.esco = x.esco /\ y.wait = x.wait
               /\ y.preempted = x.preempted /\ y.trying = x.trying /\ y.slips = x.slips
<1> DEFINE y == [x EXCEPT !.media = @ \ {p}, !.muted = @ \ {p}, !.open = @ \ {p},
                          !.refused = @ \ {p}, !.ask[p] = "none"]
           s == Stopped(x, p)
           t == [s EXCEPT !.muted = @ \ {p}]
           u == [t EXCEPT !.refused = @ \ {p}]
           v == [u EXCEPT !.ask[p] = "none"]
           w == [v EXCEPT !.open = @ \ {p}]
<1>1. x \in Bud
  BY DEF Sane
<1>2. y = w
  BY <1>1 DEF Bud, Stopped
<1>3. Same(x, s) /\ s \in Bud
  BY <1>1, SameFields DEF Same, Like
<1> HIDE DEF y, s
<1>4. Same(s, t) /\ t \in Bud
  BY <1>3, SameFields DEF Same, Like
<1> HIDE DEF t
<1>5. Same(t, u) /\ u \in Bud
  BY <1>4, SameFields DEF Same, Like
<1> HIDE DEF u
<1>6. Same(u, v) /\ v \in Bud
  BY <1>5, SameFields DEF Same, Like
<1> HIDE DEF v
<1>7. Same(x, v)
  BY <1>3, <1>4, <1>5, <1>6, SameTrans
<1>8. /\ w \in Bud /\ w.slips = v.slips /\ w.player = v.player /\ w.out = v.out
      /\ w.slots = v.slots /\ w.esco = v.esco /\ w.wait = v.wait /\ w.open = v.open \ {p}
      /\ w.preempted = v.preempted /\ w.trying = v.trying
  BY <1>6 DEF Bud
<1> HIDE DEF w
<1>9. ASSUME ~link, w.slips \cap Bad = {} PROVE Tidy(w)
  <2>1. Tidy(x) /\ x.wait # p
    BY <1>7, <1>8, <1>9 DEF Same, Like, Sane, Lone, Bad
  <2>2. QED
    BY <1>7, <1>8, <2>1 DEF Same, Like, Tidy
<1>10. ASSUME ~link, "late" \notin w.slips PROVE Called(w)
  <2>1. Called(x) /\ x.wait # p
    BY <1>7, <1>8, <1>10 DEF Same, Like, Sane, Lone
  <2>2. QED
    BY <1>7, <1>8, <2>1 DEF Same, Like, Called
<1>11. Sane(w)
  BY <1>7, <1>8, <1>9, <1>10 DEF Same, Like, Sane, Lone, Bad
<1>12. QED
  BY <1>2, <1>7, <1>8, <1>11 DEF Same, Like, y

LEMMA LostStep == ASSUME IInv, NEW p \in Phones, Lost(p) PROVE IInv'
<1> DEFINE r == [on |-> FALSE, music |-> "off", call |-> "no", sco |-> "no"]
           a == IF phone[p].sco = "up" THEN <<"SCO_OFF", "SCO_DISCON">> ELSE <<>>
           b == IF InCall(p) THEN <<"PHONE_HANGUP">> ELSE <<>>
           c == IF p \in bud.media THEN <<"MEDIA_STOP">> ELSE <<>>
           d == <<"DISCONNECT">>
           k == a \o b \o c \o d
           y == Outlived(bud, p)
           z == [y EXCEPT !.media = @ \ {p}, !.muted = @ \ {p}, !.open = @ \ {p},
                          !.refused = @ \ {p}, !.ask[p] = "none"]
<1>1. bud.out = <<>>
  BY PhoneFacts
<1>2. Phoned(p, r, k) /\ Bounded /\ bud' = z
  BY DEF Lost
<1>3. r \in Phone /\ ~r.on /\ r.sco = "no" /\ r.call = "no"
  BY DEF Phone
<1>4. Sane(y) /\ Slipped(bud, y, "late") /\ (bud.wait = p => "late" \in y.slips)
  BY SaneBud, OutlivedSane
<1>5. y.wait = p => "late" \in y.slips
  BY <1>4 DEF Slipped
<1> HIDE DEF r, y
<1>6. /\ Sane(z) /\ z.out = y.out /\ z.esco = y.esco /\ z.wait = y.wait
      /\ z.preempted = y.preempted /\ z.trying = y.trying /\ z.slips = y.slips
  BY <1>4, <1>5, GoneSane
<1> HIDE DEF z
<1>7. {"SCO_OFF", "SCO_DISCON", "PHONE_HANGUP", "MEDIA_STOP", "DISCONNECT"} \subseteq StackEvents
  BY DEF StackEvents
<1>8. /\ a \in Seq(StackEvents) /\ ~Tells(a, "SCO_ON") /\ ~Tells(a, "SCO_REQ")
      /\ phone[p].sco = "up" => Tells(a, "SCO_OFF")
  BY <1>7, TellsFew
<1>9. /\ b \in Seq(StackEvents) /\ ~Tells(b, "SCO_ON") /\ ~Tells(b, "SCO_REQ")
      /\ InCall(p) => Tells(b, "PHONE_HANGUP")
  BY <1>7, TellsFew
<1>10. c \in Seq(StackEvents) /\ ~Tells(c, "SCO_ON") /\ ~Tells(c, "SCO_REQ")
  BY <1>7, TellsFew
<1>11. d \in Seq(StackEvents) /\ ~Tells(d, "SCO_ON") /\ ~Tells(d, "SCO_REQ")
  BY <1>7, TellsFew
<1> HIDE DEF a, b, c, d
<1>12. /\ k \in Seq(StackEvents)
       /\ \A e : Tells(k, e) <=> Tells(a, e) \/ Tells(b, e) \/ Tells(c, e) \/ Tells(d, e)
  <2>1. /\ a \o b \in Seq(StackEvents)
        /\ \A e : Tells(a \o b, e) <=> Tells(a, e) \/ Tells(b, e)
    BY <1>8, <1>9, TellsMore
  <2>2. /\ a \o b \o c \in Seq(StackEvents)
        /\ \A e : Tells(a \o b \o c, e) <=> Tells(a \o b, e) \/ Tells(c, e)
    BY <1>10, <2>1, TellsMore
  <2>3. /\ k \in Seq(StackEvents)
        /\ \A e : Tells(k, e) <=> Tells(a \o b \o c, e) \/ Tells(d, e)
    BY <1>11, <2>2, TellsMore
  <2> HIDE DEF k
  <2>4. QED
    BY <2>1, <2>2, <2>3
<1> HIDE DEF k
<1>13. Reports(p, r, k)
  BY <1>3, <1>8, <1>9, <1>10, <1>11, <1>12 DEF Reports
<1>14. TypeOK /\ events' \in 0..MaxEvents
  BY <1>2, EventsType DEF IInv
<1>15. /\ z.out = <<>> /\ z.esco = bud.esco /\ z.wait = bud.wait
       /\ z.preempted = bud.preempted /\ z.trying = bud.trying
       /\ "late" \notin z.slips => "late" \notin bud.slips /\ bud.wait # p
  BY <1>1, <1>4, <1>6 DEF Slipped
<1>16. QED
  BY <1>2, <1>3, <1>6, <1>12, <1>13, <1>14, <1>15, PhonedStep

LEMMA WorldStep == ASSUME IInv, World PROVE IInv'
<1>1. CASE Outside
  <2>1. UNCHANGED <<bud, phone, queue, air, link, deaf>>
    BY <1>1 DEF Outside
  <2>2. Bounded \/ Unbounded
    BY <1>1 DEF Outside
  <2>3. tone' \in BOOLEAN /\ short' \in {"no", "parse", "start"}
    BY <1>1 DEF Outside, IInv, TypeOK
  <2>4. TypeOK'
    BY <2>1, <2>2, <2>3, EventsType DEF IInv, TypeOK
  <2>5. Alone' <=> Alone
    BY <2>1 DEF Alone, Lone, Called, Tidy, NotedBy, AudioEnds, CallEnds, Remembered, InCall
  <2>6. QED
    BY <2>1, <2>4, <2>5 DEF IInv
<1>2. QED
  BY <1>1, MusicSteps, ObeyStep, CallSteps, AudioUpSteps, ScoDownStep, LostStep DEF World

LEMMA InitIInv == ASSUME Init PROVE IInv
<1>1. bud \in Bud /\ bud.out = <<>> /\ bud.wait = NoPhone /\ bud.esco = NoPhone
      /\ bud.open = {} /\ bud.player = NoPhone /\ bud.preempted = NoPhone
  <2>1. [i \in {1, 2} |-> NoSlot] \in [{1, 2} -> Slot]
    BY DEF NoSlot, Slot, Some
  <2>2. <<>> \in Seq([kind : Commands, of : Phones])
    BY EmptySeq
  <2>3. QED
    BY <2>1, <2>2 DEF Init, Bud, Some
<1>2. phone \in [Phones -> Phone] /\ \A p \in Phones : ~InCall(p) /\ phone[p].sco = "no"
  BY DEF Init, Phone, InCall
<1>3. queue = <<>> /\ air = <<>> /\ queue \in Seq(Message) /\ air \in Seq(Command)
  BY EmptySeq DEF Init
<1>4. TypeOK
  <2>1. events \in 0..MaxEvents
    BY PhonesAssumption DEF Init
  <2>2. link \in BOOLEAN /\ deaf \subseteq Phones /\ tone \in BOOLEAN
        /\ short \in {"no", "parse", "start"}
    BY DEF Init
  <2>3. QED
    BY <1>1, <1>2, <1>3, <2>1, <2>2 DEF TypeOK, Message, Command
<1>5. Lone(bud) /\ NotedBy(bud)
  BY <1>1 DEF Lone, Called, Tidy, NotedBy
<1>6. \A a, b, p : Followed(queue, a, b, p)
  BY <1>3 DEF Followed
<1>7. AudioEnds /\ CallEnds
  BY <1>1, <1>2, <1>6, NoPhoneIsNone DEF AudioEnds, CallEnds
<1>8. QED
  BY <1>1, <1>3, <1>4, <1>5, <1>7, NoPhoneIsNone DEF IInv, Alone

\* The strengthening of the four properties below, and with it the types, is an invariant.
THEOREM Inductive == Spec => []IInv
<1>1. Init => IInv
  BY InitIInv
<1>2. IInv /\ [Next]_vars => IInv'
  <2>1. ASSUME IInv, UNCHANGED vars PROVE IInv'
    BY <2>1 DEF vars, IInv, TypeOK, Alone, Lone, Called, Tidy, NotedBy, AudioEnds, CallEnds,
                Remembered, InCall
  <2>2. QED
    BY <2>1, AppCoreStep, DataInIrqStep, TimersStep, WorldStep DEF Next
<1>3. QED
  BY <1>1, <1>2, PTL DEF Spec

\* Every reachable state of the bud, the phones and the queues has its type: in particular
\* a detector whose file is open has a phone, and no command is left over after a step.
THEOREM TypeCorrect == Spec => []TypeOK
<1>1. IInv => TypeOK
  BY DEF IInv
<1>2. QED
  BY <1>1, Inductive, PTL

\* bt_phone_esco_play closes the player of the other phone, and no handler of a lone bud
\* gives it back while the call has its audio: MEDIA_START finds the call OPEN, the others
\* find the player theirs.
THEOREM MusicAlwaysYields == Spec => []MusicYields
<1>1. IInv => MusicYields
  BY DEF IInv, Alone, Lone, Tidy, MusicYields, Never
<1>2. QED
  BY <1>1, Inductive, PTL

\* The player is opened for a phone only after its detector is stopped, and the detector
\* is started only for a phone that the player does not have.
THEOREM AlwaysOneReader == Spec => []OneReader
<1>1. IInv => OneReader
  <2>1. SUFFICES ASSUME IInv, ~link, Never("in_call"), Never("late"),
                        NEW i \in {1, 2}, bud.slots[i].open
                 PROVE  bud.slots[i].of # bud.player
    BY DEF OneReader
  <2>2. bud.slots[i] \in Slot
    BY <2>1 DEF IInv, TypeOK, Bud
  <2>3. bud.slots[i].of # NoPhone
    BY <2>1, <2>2 DEF Slot
  <2>4. QED
    BY <2>1, <2>3 DEF IInv, Alone, Lone, Tidy, Never
<1>2. QED
  BY <1>1, Inductive, PTL

\* Every call audio that is open or noted has an SCO link that is up, or an SCO_OFF that
\* closes it is in the queue; a settled lone bud has marked as OPEN what it plays.
THEOREM CallAudioAlwaysMatches == Spec => []CallAudioMatches
<1>1. IInv => CallAudioMatches
  <2>1. SUFFICES ASSUME IInv, ~link, Never("late"), Settled
                 PROVE  /\ \A p \in bud.open : bud.esco = p
                        /\ Calm => bud.esco = NoPhone
    BY DEF CallAudioMatches
  <2>2. queue = <<>> /\ bud.wait = NoPhone /\ bud \in Bud
    BY <2>1 DEF Settled, IInv, TypeOK
  <2>3. \A p \in bud.open : bud.esco = p
    BY <2>1, <2>2, NoPhoneIsNone DEF IInv, Alone, Lone, Called, Never, Bud
  <2>4. ASSUME Calm, bud.esco # NoPhone PROVE FALSE
    <3>1. PICK p \in Phones : bud.esco = p
      BY <2>2, <2>4 DEF Bud, Some
    <3>2. phone[p].sco # "up"
      BY <2>4 DEF Calm
    <3>3. Holds(queue, "SCO_OFF", p)
      BY <2>1, <3>1, <3>2 DEF IInv, Alone, AudioEnds, Never
    <3>4. QED
      BY <2>2, <3>3 DEF Holds
  <2>5. QED
    BY <2>3, <2>4
<1>2. QED
  BY <1>1, Inductive, PTL

\* While the mark is set, a timer runs that will take it away, a call goes on, or the
\* message that ends one is in the queue; otherwise the phone is gone.
THEOREM MarkAlwaysEnds == Spec => []MarkEnds
<1>1. IInv => MarkEnds
  <2>1. SUFFICES ASSUME IInv, ~link, Settled, Calm, NEW p \in Phones, bud.preempted = p
                 PROVE  ~phone[p].on
    BY DEF MarkEnds
  <2>2. queue = <<>> /\ ~bud.trying
    BY <2>1 DEF Settled
  <2>3. Remembered(p)
    BY <2>1 DEF IInv, Alone
  <2>4. QED
    BY <2>1, <2>2, <2>3 DEF Remembered, Holds, Calm
<1>2. QED
  BY <1>1, Inductive, PTL

(***************************************************************************)
(* The music of no phone is lost.  A phone whose media is open streams,    *)
(* and it has the player or a detector (a detector, when it is muted), or  *)
(* a message that gives it one is on its way.  A detector that has closed  *)
(* its file has found music: what then starts the player is on its way.    *)
(***************************************************************************)
Attending == {"MEDIA_START", "PLAY", "SLIENCE_DETECT", "MUTE", "MUTE_BY_CALL"}
Asked(msgs, p) == \E kind \in Attending : Holds(msgs, kind, p)
Safe(x, p) == (p = x.player \/ Detects(x, p)) /\ (p \in x.muted => Detects(x, p))
Shut(x, p) == \E i \in {1, 2} : x.slots[i].of = p /\ ~x.slots[i].open
Robbed(x) == "robbed" \in x.slips

CareInv ==
    /\ \A p \in bud.media :
          /\ Streams(p) /\ Followed(queue, "AVRCP_PLAY", "MEDIA_START", p)
          /\ ~Robbed(bud) => Safe(bud, p) \/ Asked(queue, p) \/ Asked(air, p)
    /\ \A p \in Phones : Shut(bud, p) =>
          Holds(queue, "A2DP_START", p) \/ Holds(queue, "PLAY", p) \/ Holds(air, "PLAY", p)

\* An operator takes care of all phones but those in E: it takes nobody's player or detector
\* away without closing the media, or asking for another, and closes no detector's file.
Tends(x, y, E) ==
    /\ y \in Bud
    /\ y.media \subseteq x.media
    /\ Robbed(x) => Robbed(y)
    /\ \A a, r : Holds(x.out, a, r) => Holds(y.out, a, r)
    /\ \A r \in y.media \ E : ~Robbed(y) /\ Safe(x, r) => Safe(y, r) \/ Asked(y.out, r)
    /\ \A r \in Phones : Shut(y, r) => Shut(x, r)

\* The bud takes care of p.
Minds(y, p) == p \in y.media /\ ~Robbed(y) => Safe(y, p) \/ Asked(y.out, p)

LEMMA TendsTrans ==
    ASSUME NEW x, NEW y, NEW z, NEW E, Tends(x, y, E), Tends(y, z, E)
    PROVE  Tends(x, z, E)
<1>1. ASSUME NEW r \in z.media \ E, ~Robbed(z), Safe(x, r) PROVE Safe(z, r) \/ Asked(z.out, r)
  <2>1. r \in y.media \ E /\ ~Robbed(y)
    BY <1>1 DEF Tends
  <2>2. Safe(y, r) \/ Asked(y.out, r)
    BY <1>1, <2>1 DEF Tends
  <2>3. Asked(y.out, r) => Asked(z.out, r)
    BY DEF Tends, Asked
  <2>4. QED
    BY <1>1, <2>2, <2>3 DEF Tends
<1>2. z.media \subseteq x.media /\ \A a, r : Holds(x.out, a, r) => Holds(z.out, a, r)
  BY DEF Tends
<1>3. QED
  BY <1>1, <1>2 DEF Tends

LEMMA TendsMore ==
    ASSUME NEW x, NEW y, NEW E, Tends(x, y, {}) PROVE Tends(x, y, E)
BY DEF Tends

LEMMA TendsAll ==
    ASSUME NEW x, NEW y, NEW p, Tends(x, y, {p}), Minds(y, p) PROVE Tends(x, y, {})
BY DEF Tends, Minds

LEMMA MindsKept ==
    ASSUME NEW x, NEW y, NEW p, Tends(x, y, {}), Minds(x, p) PROVE Minds(y, p)
<1>1. SUFFICES ASSUME p \in y.media, ~Robbed(y) PROVE Safe(y, p) \/ Asked(y.out, p)
  BY DEF Minds
<1>2. p \in x.media /\ ~Robbed(x)
  BY <1>1 DEF Tends
<1>3. Asked(x.out, p) => Asked(y.out, p)
  BY DEF Tends, Asked
<1>4. QED
  BY <1>1, <1>2, <1>3 DEF Tends, Minds

\* What leaves player and detectors alone.
LEMMA TendsAlike ==
    ASSUME NEW x, NEW y \in Bud, y.player = x.player, y.slots = x.slots,
           y.muted \subseteq x.muted, y.media \subseteq x.media, Robbed(x) => Robbed(y), y.out = x.out
    PROVE  Tends(x, y, {})
BY DEF Tends, Safe, Shut, Detects

LEMMA TendsSelf == ASSUME NEW x \in Bud PROVE Tends(x, x, {})
BY TendsAlike

LEMMA TendsUnmute ==
    ASSUME NEW x \in Bud, NEW p \in Phones
    PROVE  /\ Tends(x, a2dp_media_unmute(x, p), {}) /\ p \notin a2dp_media_unmute(x, p).muted
           /\ Tends(x, a2dp_media_close(x, p), {}) /\ p \notin a2dp_media_close(x, p).media
           /\ a2dp_media_unmute(x, p).media = x.media
<1> DEFINE y == a2dp_media_unmute(x, p)
           z == a2dp_media_close(x, p)
<1>1. /\ y \in Bud /\ y.player = x.player /\ y.slots = x.slots /\ y.muted = x.muted \ {p}
      /\ y.media = x.media /\ y.slips = x.slips /\ y.out = x.out
  BY DEF a2dp_media_unmute, Bud
<1>2. /\ z \in Bud /\ z.player = x.player /\ z.slots = x.slots /\ z.muted = x.muted
      /\ z.media = x.media \ {p} /\ z.slips = x.slips /\ z.out = x.out
  BY DEF a2dp_media_close, Bud
<1> HIDE DEF y, z
<1>3. Tends(x, y, {})
  BY <1>1, TendsAlike DEF Robbed
<1>4. Tends(x, z, {})
  BY <1>2, TendsAlike DEF Robbed
<1>5. QED
  BY <1>1, <1>2, <1>3, <1>4 DEF y, z

LEMMA TendsMute ==
    ASSUME NEW x \in Bud, NEW p \in Phones
    PROVE  Tends(x, a2dp_media_mute(x, p), {p}) /\ a2dp_media_mute(x, p).media = x.media
<1> DEFINE y == a2dp_media_mute(x, p)
<1>1. /\ y \in Bud /\ y.player = x.player /\ y.slots = x.slots /\ y.muted = x.muted \cup {p}
      /\ y.media = x.media /\ y.slips = x.slips /\ y.out = x.out
  BY DEF a2dp_media_mute, Bud
<1> HIDE DEF y
<1>2. Tends(x, y, {p})
  BY <1>1 DEF Tends, Safe, Shut, Detects, Robbed
<1>3. QED
  BY <1>1, <1>2 DEF y

LEMMA TendsClosePlayer ==
    ASSUME NEW x \in Bud, NEW p \in Some
    PROVE  Tends(x, a2dp_player_close(x, p), {p}) /\ a2dp_player_close(x, p).media = x.media
<1> DEFINE y == a2dp_player_close(x, p)
<1>1. /\ y \in Bud /\ (x.player # p => y.player = x.player) /\ y.slots = x.slots
      /\ y.muted = x.muted /\ y.media = x.media /\ y.slips = x.slips /\ y.out = x.out
  <2> DEFINE z == [x EXCEPT !.player = NoPhone, !.stream = "none"]
  <2>1. /\ z \in Bud /\ z.slots = x.slots /\ z.muted = x.muted
        /\ z.media = x.media /\ z.slips = x.slips /\ z.out = x.out
    BY DEF Bud, Some
  <2>2. y = IF x.player = p THEN z ELSE x
    BY DEF a2dp_player_close
  <2> HIDE DEF z, y
  <2>3. QED
    BY <2>1, <2>2
<1> HIDE DEF y
<1>2. Tends(x, y, {p})
  BY <1>1 DEF Tends, Safe, Shut, Detects, Robbed
<1>3. QED
  BY <1>1, <1>2 DEF y

LEMMA TendsStop ==
    ASSUME NEW x \in Bud, NEW p \in Phones
    PROVE  LET y == bt_stop_a2dp_slience_detect(x, p)
           IN  /\ Tends(x, y, {p}) /\ ~Shut(y, p)
               /\ y.media = x.media /\ y.muted = x.muted /\ y.player = x.player
               /\ y.stream = x.stream
<1> DEFINE f == [i \in {1, 2} |-> IF x.slots[i].of = p THEN NoSlot ELSE x.slots[i]]
           y == [x EXCEPT !.slots = f, !.dual = FALSE]
<1>1. bt_stop_a2dp_slience_detect(x, p) = y
  BY DEF bt_stop_a2dp_slience_detect, Bud
<1>2. x.slots \in [{1, 2} -> Slot] /\ NoSlot \in Slot /\ NoSlot.of = NoPhone
  BY DEF Bud, NoSlot, Slot, Some
<1>3. /\ f \in [{1, 2} -> Slot]
      /\ \A i \in {1, 2} : /\ x.slots[i].of # p => f[i] = x.slots[i]
                           /\ f[i].of # p
                           /\ \A r \in Phones : f[i].of = r => f[i] = x.slots[i]
  BY <1>2, NoPhoneIsNone
<1> HIDE DEF f
<1>4. /\ y \in Bud /\ y.player = x.player /\ y.slots = f /\ y.muted = x.muted
      /\ y.media = x.media /\ y.slips = x.slips /\ y.out = x.out /\ y.stream = x.stream
      /\ y.media \subseteq Phones
  BY <1>3 DEF Bud
<1> HIDE DEF y
<1>5. ~Shut(y, p) /\ \A r \in Phones : Shut(y, r) => Shut(x, r)
  BY <1>3, <1>4 DEF Shut
<1>6. \A r \in Phones \ {p} : Detects(x, r) => Detects(y, r)
  BY <1>3, <1>4 DEF Detects
<1>7. Tends(x, y, {p})
  BY <1>4, <1>5, <1>6 DEF Tends, Safe, Robbed
<1>8. QED
  BY <1>1, <1>4, <1>5, <1>7

LEMMA TendsStart ==
    ASSUME NEW x \in Bud, NEW p \in Phones
    PROVE  LET y == bt_start_a2dp_slience_detect(x, p)
           IN  /\ Tends(x, y, {}) /\ y.media = x.media
               /\ Streams(p) => Detects(y, p)
<1>1. CASE ~Streams(p)
  BY <1>1, TendsSelf DEF bt_start_a2dp_slience_detect
<1>2. CASE Streams(p)
  <2> DEFINE k == SlotOf(x, p)
             f == [x.slots EXCEPT ![k] = [of |-> p, open |-> TRUE]]
             y == [x EXCEPT !.slots = f, !.dual = TRUE]
  <2>1. bt_start_a2dp_slience_detect(x, p) = y
    BY <1>2 DEF bt_start_a2dp_slience_detect, Bud
  <2>2. x.slots \in [{1, 2} -> Slot] /\ k \in {1, 2} /\ x.media \subseteq Phones
    BY DEF SlotOf, Bud
  <2>3. /\ f \in [{1, 2} -> Slot]
        /\ f[k].of = p /\ f[k].open
        /\ \A i \in {1, 2} : i # k => f[i] = x.slots[i]
    <3>1. [of |-> p, open |-> TRUE] \in Slot
      BY NoPhoneIsNone DEF Slot, Some
    <3>2. QED
      BY <2>2, <3>1
  <2>4. \/ x.slots[k].of \in {p, NoPhone}
        \/ \E i \in {1, 2} : i # k /\ x.slots[i].of = x.slots[k].of
        \/ k = 2 /\ x.slots[1].of # p /\ x.slots[1].of # NoPhone
    BY <2>2 DEF SlotOf
  <2>5. k = 2 /\ x.slots[1].of # p /\ x.slots[1].of # NoPhone => x.slots[1].of = Other(p)
    <3>1. x.slots[1].of \in Some
      BY <2>2 DEF Slot
    <3>2. QED
      BY <3>1, TheOther DEF Some
  <2>6. x.slots[k].of \in Some
    BY <2>2 DEF Slot
  <2> HIDE DEF f, k
  <2>7. /\ y \in Bud /\ y.player = x.player /\ y.slots = f /\ y.muted = x.muted
        /\ y.media = x.media /\ y.slips = x.slips /\ y.out = x.out
    BY <2>3 DEF Bud
  <2> HIDE DEF y
  <2>8. \A r \in Phones : Shut(y, r) => Shut(x, r)
    BY <2>2, <2>3, <2>7 DEF Shut
  <2>9. Detects(y, p)
    BY <2>2, <2>3, <2>7 DEF Detects
  <2>10. ASSUME NEW r \in Phones, Detects(x, r) PROVE Detects(y, r)
    <3>1. r = p \/ r = Other(p)
      BY TheOther
    <3>2. CASE r = Other(p)
      <4>1. PICK i \in {1, 2} : x.slots[i].of = r
        BY <2>10 DEF Detects
      <4>2. CASE i # k
        BY <2>3, <2>7, <4>1, <4>2 DEF Detects
      <4>3. CASE i = k
        <5>1. r # p /\ r # NoPhone
          BY <3>2, TheOther, NoPhoneIsNone
        <5>2. PICK j \in {1, 2} : j # k /\ x.slots[j].of = r
          BY <2>4, <2>5, <3>2, <4>1, <4>3, <5>1
        <5>3. QED
          BY <2>3, <2>7, <5>2 DEF Detects
      <4>4. QED
        BY <4>2, <4>3
    <3>3. QED
      BY <2>9, <3>1, <3>2
  <2>11. Tends(x, y, {})
    BY <2>2, <2>7, <2>8, <2>10 DEF Tends, Safe, Robbed
  <2>12. QED
    BY <2>1, <2>7, <2>9, <2>11
<1>3. QED
  BY <1>1, <1>2

Playing(x) == \A r \in x.media : Streams(r)

LEMMA TendsPlaying == ASSUME NEW x, NEW y, NEW E, Playing(x), Tends(x, y, E) PROVE Playing(y)
BY DEF Playing, Tends

LEMMA TendsClosed ==
    ASSUME NEW x, NEW y, NEW p, Tends(x, y, {p}), p \notin y.media PROVE Tends(x, y, {})
BY DEF Tends

LEMMA TendsReopen ==
    ASSUME NEW x \in Bud, NEW p \in Phones
    PROVE  Tends(x, Reopen(x, p), {}) /\ p \notin Reopen(x, p).media
<1> DEFINE y == a2dp_media_unmute(x, p)
           z == a2dp_media_close(y, p)
<1>1. Tends(x, y, {}) /\ y \in Bud
  BY TendsUnmute DEF Tends
<1> HIDE DEF y
<1>2. Tends(y, z, {}) /\ p \notin z.media
  BY <1>1, TendsUnmute
<1>3. Reopen(x, p) = z
  BY DEF Reopen, y
<1> HIDE DEF z
<1>4. QED
  BY <1>1, <1>2, <1>3, TendsTrans

\* A detector that is stopped for good has its music reported again.
LEMMA TendsReport ==
    ASSUME NEW x \in Bud, NEW p \in Phones
    PROVE  LET y == Reopen(bt_stop_a2dp_slience_detect(x, p), p)
           IN  Tends(x, y, {}) /\ p \notin y.media
<1> DEFINE y == bt_stop_a2dp_slience_detect(x, p)
           z == Reopen(y, p)
<1>1. Tends(x, y, {p}) /\ y \in Bud
  BY TendsStop DEF Tends
<1> HIDE DEF y
<1>2. Tends(y, z, {}) /\ p \notin z.media
  BY <1>1, TendsReopen
<1> HIDE DEF z
<1>3. Tends(x, z, {p})
  BY <1>1, <1>2, TendsMore, TendsTrans
<1>4. Tends(x, z, {})
  BY <1>2, <1>3, TendsClosed
<1>5. QED
  BY <1>2, <1>4 DEF y, z

LEMMA TendsTwsClose ==
    ASSUME NEW x \in Bud, NEW p \in Phones
    PROVE  LET y == tws_a2dp_player_close(x, p) IN Tends(x, y, {}) /\ p \notin y.media
<1> DEFINE y == a2dp_player_close(x, p)
           z == Reopen(bt_stop_a2dp_slience_detect(y, p), p)
<1>1. Tends(x, y, {p}) /\ y \in Bud
  BY TendsClosePlayer DEF Tends, Some
<1> HIDE DEF y
<1>2. Tends(y, z, {}) /\ p \notin z.media
  BY <1>1, TendsReport
<1>3. tws_a2dp_player_close(x, p) = z
  BY DEF tws_a2dp_player_close, y
<1> HIDE DEF z
<1>4. Tends(x, z, {p})
  BY <1>1, <1>2, TendsMore, TendsTrans
<1>5. QED
  BY <1>2, <1>3, <1>4, TendsClosed

\* From the player to a detector.
LEMMA TendsDetect ==
    ASSUME NEW x \in Bud, NEW y, NEW p \in Phones, Playing(x), Tends(x, y, {p})
    PROVE  LET z == bt_start_a2dp_slience_detect(y, p) IN Tends(x, z, {}) /\ Minds(z, p)
<1> DEFINE z == bt_start_a2dp_slience_detect(y, p)
<1>1. Tends(y, z, {}) /\ (Streams(p) => Detects(z, p))
  BY TendsStart DEF Tends
<1> HIDE DEF z
<1>2. Tends(x, z, {p})
  BY <1>1, TendsMore, TendsTrans
<1>3. p \in z.media => Streams(p)
  BY <1>2 DEF Tends, Playing
<1>4. Minds(z, p)
  BY <1>1, <1>3 DEF Minds, Safe
<1>5. QED
  BY <1>2, <1>4, TendsAll DEF z

LEMMA TendsBackground ==
    ASSUME NEW x \in Bud, NEW p \in Phones, Playing(x)
    PROVE  Tends(x, Background(x, p), {}) /\ Minds(Background(x, p), p)
<1> DEFINE y == a2dp_player_close(x, p)
           z == a2dp_media_mute(y, p)
<1>1. Tends(x, y, {p}) /\ y \in Bud
  BY TendsClosePlayer DEF Tends, Some
<1>2. Background(x, p) = bt_start_a2dp_slience_detect(z, p)
  BY DEF Background
<1> HIDE DEF y
<1>3. Tends(y, z, {p})
  BY <1>1, TendsMute
<1> HIDE DEF z
<1>4. Tends(x, z, {p})
  BY <1>1, <1>3, TendsTrans
<1>5. QED
  BY <1>2, <1>4, TendsDetect

LEMMA TendsSlip ==
    ASSUME NEW x \in Bud, NEW s \in {"robbed", "in_call", "late"}, NEW h
    PROVE  LET y == Slip(x, s, h)
           IN  /\ Tends(x, y, {}) /\ y.player = x.player /\ y.muted = x.muted
               /\ s = "robbed" /\ h => Robbed(y)
<1> DEFINE y == [x EXCEPT !.slips = @ \cup {s}]
<1>1. /\ y \in Bud /\ y.player = x.player /\ y.slots = x.slots /\ y.muted = x.muted
      /\ y.media = x.media /\ y.slips = x.slips \cup {s} /\ y.out = x.out
  BY DEF Bud
<1>2. (h => Slip(x, s, h) = y) /\ (~h => Slip(x, s, h) = x)
  BY DEF Slip
<1> HIDE DEF y
<1>3. Tends(x, y, {}) /\ Tends(x, x, {}) /\ (s = "robbed" => Robbed(y))
  BY <1>1, TendsAlike DEF Robbed
<1>4. QED
  BY <1>1, <1>2, <1>3

LEMMA TendsOpen ==
    ASSUME TypeOK, NEW x \in Bud, NEW p \in Phones,
           x.stream \in {"start", "run"} => x.player = p, p \notin x.muted
    PROVE  LET y == a2dp_player_open(x, p) IN Tends(x, y, {p}) /\ Minds(y, p)
<1>1. CASE x.stream \in {"start", "run"}
  <2>1. a2dp_player_open(x, p) = x /\ Safe(x, p)
    BY <1>1 DEF a2dp_player_open, Safe
  <2>2. QED
    BY <2>1, TendsSelf, TendsMore DEF Minds
<1>2. CASE x.stream \notin {"start", "run"}
  <2> DEFINE st == IF short = "no" THEN "run" ELSE short
             t == [x EXCEPT !.player = p]
             u == [t EXCEPT !.stream = st]
             h == x.player \notin {NoPhone, p}
             w == Slip(u, "robbed", h)
  <2>1. a2dp_player_open(x, p) = w
    BY <1>2 DEF a2dp_player_open, Bud
  <2>2. st \in {"none", "parse", "start", "run"}
    BY DEF TypeOK
  <2> HIDE DEF st
  <2>3. /\ u \in Bud /\ u.player = p /\ u.slots = x.slots /\ u.muted = x.muted
        /\ u.media = x.media /\ u.slips = x.slips /\ u.out = x.out
    <3>1. /\ t \in Bud /\ t.player = p /\ t.slots = x.slots /\ t.muted = x.muted
          /\ t.media = x.media /\ t.slips = x.slips /\ t.out = x.out
      BY DEF Bud, Some
    <3> HIDE DEF t
    <3>2. QED
      BY <2>2, <3>1 DEF Bud
  <2> HIDE DEF u
  <2>4. Tends(u, w, {}) /\ w.player = p /\ w.muted = x.muted /\ (h => Robbed(w)) /\ (~h => w = u)
    BY <2>3, TendsSlip DEF Slip
  <2>5. x.media \subseteq Phones /\ NoPhone \notin Phones
    BY NoPhoneIsNone DEF Bud
  <2> HIDE DEF w
  <2>6. CASE h
    <3>1. /\ w.media \subseteq x.media /\ (Robbed(x) => Robbed(w))
          /\ \A r \in Phones : Shut(w, r) => Shut(x, r)
      BY <2>3, <2>4 DEF Tends, Shut, Robbed
    <3>2. \A a, r : Holds(x.out, a, r) => Holds(w.out, a, r)
      BY <2>3, <2>4 DEF Tends
    <3>3. Tends(x, w, {p})
      BY <2>4, <2>6, <3>1, <3>2 DEF Tends
    <3>4. QED
      BY <2>1, <2>4, <2>6, <3>3 DEF Minds
  <2>7. CASE ~h
    <3>1. w = u /\ x.player \in {NoPhone, p}
      BY <2>4, <2>7
    <3> HIDE DEF h
    <3>2. Tends(x, u, {p})
      BY <2>3, <2>5, <3>1 DEF Tends, Safe, Shut, Detects, Robbed
    <3>3. Safe(u, p)
      BY <2>3 DEF Safe
    <3>4. QED
      BY <2>1, <3>1, <3>2, <3>3 DEF Minds
  <2>8. QED
    BY <2>6, <2>7
<1>3. QED
  BY <1>1, <1>2

LEMMA TendsPlay ==
    ASSUME TypeOK, NEW x \in Bud, NEW p \in Phones, Playing(x)
    PROVE  LET y == Play(x, p) IN Tends(x, y, {}) /\ Minds(y, p) /\ ~Shut(y, p)
<1> DEFINE u == a2dp_media_unmute(x, p)
           v == bt_stop_a2dp_slience_detect(u, p)
           e == IF v.preempted = p THEN NoPhone ELSE v.preempted
           d == IF v.drop = p THEN NoPhone ELSE v.drop
           z1 == [v EXCEPT !.preempted = e]
           z2 == [z1 EXCEPT !.drop = d]
           z == [z2 EXCEPT !.told = FALSE]
           busy == z.stream \in {"start", "run"} /\ z.player # p
           s == bt_start_a2dp_slience_detect(z, p)
           o == a2dp_player_open(z, p)
<1>1. Play(x, p) = IF busy THEN s ELSE o
  BY DEF Play, Bud
<1>2. Tends(x, u, {}) /\ u \in Bud /\ p \notin u.muted
  BY TendsUnmute DEF Tends
<1> HIDE DEF u
<1>3. Tends(u, v, {p}) /\ v \in Bud /\ v.muted = u.muted /\ ~Shut(v, p)
  BY <1>2, TendsStop DEF Tends
<1> HIDE DEF v
<1>4. /\ z \in Bud /\ z.player = v.player /\ z.slots = v.slots /\ z.muted = v.muted
      /\ z.media = v.media /\ z.slips = v.slips /\ z.out = v.out
  <2>1. e \in Some /\ d \in Some
    BY <1>3 DEF Bud, Some
  <2> HIDE DEF e, d
  <2>2. /\ z1 \in Bud /\ z1.player = v.player /\ z1.slots = v.slots /\ z1.muted = v.muted
        /\ z1.media = v.media /\ z1.slips = v.slips /\ z1.out = v.out
    BY <1>3, <2>1 DEF Bud
  <2> HIDE DEF z1
  <2>3. /\ z2 \in Bud /\ z2.player = v.player /\ z2.slots = v.slots /\ z2.muted = v.muted
        /\ z2.media = v.media /\ z2.slips = v.slips /\ z2.out = v.out
    BY <2>1, <2>2 DEF Bud
  <2> HIDE DEF z2
  <2>4. QED
    BY <2>3 DEF Bud
<1> HIDE DEF z
<1>5. Tends(v, z, {}) /\ ~Shut(z, p) /\ p \notin z.muted
  BY <1>2, <1>3, <1>4, TendsAlike DEF Robbed, Shut
<1>6. Tends(x, z, {p})
  BY <1>2, <1>3, <1>5, TendsMore, TendsTrans
<1>7. CASE busy
  <2>1. Tends(x, s, {}) /\ Minds(s, p)
    BY <1>6, TendsDetect
  <2>2. Tends(z, s, {})
    BY <1>4, TendsStart
  <2>3. ~Shut(s, p)
    BY <1>5, <2>2 DEF Tends
  <2>4. QED
    BY <1>1, <1>7, <2>1, <2>3
<1>8. CASE ~busy
  <2>1. Tends(z, o, {p}) /\ Minds(o, p)
    BY <1>4, <1>5, <1>8, TendsOpen
  <2> HIDE DEF o
  <2>2. Tends(x, o, {})
    BY <1>6, <2>1, TendsTrans, TendsAll
  <2>3. ~Shut(o, p)
    BY <1>5, <2>1 DEF Tends
  <2>4. QED
    BY <1>1, <1>8, <2>1, <2>2, <2>3
<1>9. QED
  BY <1>7, <1>8

LEMMA TendsClose ==
    ASSUME NEW x \in Bud, NEW p \in Phones PROVE Tends(x, Close(x, p), {})
<1> DEFINE y == tws_a2dp_player_close(x, p)
           q == bt_slience_get_detect_addr(y)
           z == Reopen(bt_stop_a2dp_slience_detect(y, q), q)
<1>1. Close(x, p) = IF q = NoPhone THEN y ELSE z
  BY DEF Close
<1>2. Tends(x, y, {}) /\ y \in Bud
  BY TendsTwsClose DEF Tends
<1> HIDE DEF y
<1>3. q \in Some
  BY <1>2, Detected
<1> HIDE DEF q
<1>4. q # NoPhone => Tends(y, z, {})
  BY <1>2, <1>3, TendsReport DEF Some
<1> HIDE DEF z
<1>5. QED
  BY <1>1, <1>2, <1>4, TendsTrans

LEMMA TendsSwitch ==
    ASSUME NEW x \in Bud, NEW p \in Phones, Playing(x) PROVE Tends(x, Switch(x, p), {})
<1> DEFINE q == bt_slience_get_detect_addr(x)
           y == Background(x, p)
           z == Reopen(bt_stop_a2dp_slience_detect(y, q), q)
<1>1. Switch(x, p) = IF q = NoPhone THEN x ELSE z
  BY DEF Switch
<1>2. Tends(x, y, {}) /\ y \in Bud /\ Tends(x, x, {})
  BY TendsBackground, TendsSelf DEF Tends
<1> HIDE DEF y
<1>3. q \in Some
  BY Detected
<1> HIDE DEF q
<1>4. q # NoPhone => Tends(y, z, {})
  BY <1>2, <1>3, TendsReport DEF Some
<1> HIDE DEF z
<1>5. QED
  BY <1>1, <1>2, <1>4, TendsTrans

LEMMA TendsEsco ==
    ASSUME NEW x \in Bud, NEW p \in Phones
    PROVE  Tends(x, bt_phone_esco_play(x, p), {}) /\ Tends(x, bt_phone_esco_stop(x, p), {})
<1> DEFINE c == a2dp_player_close(x, x.player)
           y == IF a2dp_player_runing(x) THEN a2dp_media_close(c, x.player) ELSE x
           k == bt_stop_a2dp_slience_detect(y, p)
           m == a2dp_media_close(k, p)
           z == [m EXCEPT !.open = @ \cup {p}]
           o == [z EXCEPT !.esco = p]
           w == IF z.wait = NoPhone THEN p ELSE z.wait
           n == [z EXCEPT !.wait = w]
           g == Slip(o, "late", x.wait # NoPhone)
           h == Slip(n, "late", x.wait \notin {NoPhone, p} \/ phone[p].sco # "up")
           s == [x EXCEPT !.esco = NoPhone, !.open = @ \ {p}]
<1>1. bt_phone_esco_play(x, p) = IF x.esco # NoPhone THEN x ELSE IF ~tone THEN g ELSE h
  BY DEF bt_phone_esco_play, Bud
<1>2. Tends(x, x, {})
  BY TendsSelf
<1>3. Tends(x, y, {}) /\ y \in Bud
  <2>1. CASE a2dp_player_runing(x)
    <3>1. x.player \in Phones
      BY <2>1 DEF a2dp_player_runing, Bud, Some
    <3>2. Tends(x, c, {x.player}) /\ c \in Bud
      BY <3>1, TendsClosePlayer DEF Tends, Some
    <3> HIDE DEF c
    <3>3. Tends(c, y, {}) /\ x.player \notin y.media
      BY <2>1, <3>1, <3>2, TendsUnmute
    <3> HIDE DEF y
    <3>4. Tends(x, y, {})
      BY <3>2, <3>3, TendsMore, TendsTrans, TendsClosed
    <3>5. QED
      BY <3>4 DEF Tends
  <2>2. CASE ~a2dp_player_runing(x)
    BY <1>2, <2>2
  <2>3. QED
    BY <2>1, <2>2
<1> HIDE DEF y
<1>4. Tends(x, m, {}) /\ m \in Bud
  <2>1. Tends(y, k, {p}) /\ k \in Bud
    BY <1>3, TendsStop DEF Tends
  <2> HIDE DEF k
  <2>2. Tends(k, m, {}) /\ p \notin m.media
    BY <2>1, TendsUnmute
  <2> HIDE DEF m
  <2>3. Tends(y, m, {})
    BY <2>1, <2>2, TendsMore, TendsTrans, TendsClosed
  <2>4. QED
    BY <1>3, <2>3, TendsTrans DEF Tends
<1> HIDE DEF m
<1>5. Tends(m, z, {}) /\ z \in Bud
  <2>1. /\ z \in Bud /\ z.player = m.player /\ z.slots = m.slots /\ z.muted = m.muted
        /\ z.media = m.media /\ z.slips = m.slips /\ z.out = m.out
    BY <1>4 DEF Bud
  <2> HIDE DEF z
  <2>2. QED
    BY <2>1, TendsAlike DEF Robbed
<1> HIDE DEF z
<1>6. Tends(z, o, {}) /\ o \in Bud
  <2>1. /\ o \in Bud /\ o.player = z.player /\ o.slots = z.slots /\ o.muted = z.muted
        /\ o.media = z.media /\ o.slips = z.slips /\ o.out = z.out
    BY <1>5 DEF Bud, Some
  <2> HIDE DEF o
  <2>2. QED
    BY <2>1, TendsAlike DEF Robbed
<1>7. Tends(z, n, {}) /\ n \in Bud
  <2>1. /\ n \in Bud /\ n.player = z.player /\ n.slots = z.slots /\ n.muted = z.muted
        /\ n.media = z.media /\ n.slips = z.slips /\ n.out = z.out
    <3>1. w \in Some
      BY <1>5 DEF Bud, Some
    <3> HIDE DEF w
    <3>2. QED
      BY <1>5, <3>1 DEF Bud
  <2> HIDE DEF n
  <2>2. QED
    BY <2>1, TendsAlike DEF Robbed
<1> HIDE DEF o, n
<1>8. Tends(o, g, {}) /\ Tends(n, h, {})
  BY <1>6, <1>7, TendsSlip
<1> HIDE DEF g, h
<1>9. Tends(x, g, {}) /\ Tends(x, h, {})
  BY <1>4, <1>5, <1>6, <1>7, <1>8, TendsTrans
<1>10. Tends(x, s, {})
  <2>1. /\ s \in Bud /\ s.player = x.player /\ s.slots = x.slots /\ s.muted = x.muted
        /\ s.media = x.media /\ s.slips = x.slips /\ s.out = x.out
    BY DEF Bud, Some
  <2> HIDE DEF s
  <2>2. QED
    BY <2>1, TendsAlike DEF Robbed
<1>11. bt_phone_esco_stop(x, p) = IF x.esco # p THEN x ELSE s
  BY DEF bt_phone_esco_stop
<1> HIDE DEF s
<1>12. QED
  BY <1>1, <1>2, <1>9, <1>10, <1>11

LEMMA TendsRun ==
    ASSUME TypeOK, NEW x \in Bud, NEW p \in Phones, Playing(x), NEW cmd \in Commands
    PROVE  LET y == Run(x, cmd, p)
           IN  /\ Tends(x, y, {})
               /\ cmd \in Attending => Minds(y, p)
               /\ cmd = "PLAY" => ~Shut(y, p)
<1> DEFINE y == Run(x, cmd, p)
<1>1. CASE cmd = "PLAY"
  <2>1. y = Play(x, p)
    BY <1>1 DEF Run
  <2>2. QED
    BY <2>1, TendsPlay
<1>2. CASE cmd = "SLIENCE_DETECT"
  <2>1. y = bt_start_a2dp_slience_detect(a2dp_player_close(x, p), p)
    BY <1>2 DEF Run
  <2>2. Tends(x, a2dp_player_close(x, p), {p})
    BY TendsClosePlayer DEF Some
  <2>3. QED
    BY <1>2, <2>1, <2>2, TendsDetect
<1>3. CASE cmd = "MUTE"
  <2>1. y = Background(x, p)
    BY <1>3 DEF Run
  <2>2. QED
    BY <1>3, <2>1, TendsBackground
<1>4. CASE cmd = "MUTE_BY_CALL"
  <2> DEFINE u == Background(x, p)
             v == [u EXCEPT !.preempted = p, !.energy = NoPhone]
  <2>1. y = v
    BY <1>4 DEF Run
  <2>2. Tends(x, u, {}) /\ Minds(u, p) /\ u \in Bud
    BY TendsBackground DEF Tends
  <2> HIDE DEF u
  <2>3. /\ v \in Bud /\ v.player = u.player /\ v.slots = u.slots /\ v.muted = u.muted
        /\ v.media = u.media /\ v.slips = u.slips /\ v.out = u.out
    BY <2>2 DEF Bud, Some
  <2> HIDE DEF v
  <2>4. Tends(u, v, {})
    BY <2>3, TendsAlike DEF Robbed
  <2>5. Tends(x, v, {}) /\ Minds(v, p)
    BY <2>2, <2>4, TendsTrans, MindsKept
  <2>6. QED
    BY <1>4, <2>1, <2>5
<1>5. CASE cmd = "CLOSE"
  <2>1. y = Close(x, p)
    BY <1>5 DEF Run
  <2>2. QED
    BY <1>5, <2>1, TendsClose DEF Attending
<1>6. CASE cmd = "SWITCH"
  <2>1. y = Switch(x, p)
    BY <1>6 DEF Run
  <2>2. QED
    BY <1>6, <2>1, TendsSwitch DEF Attending
<1>7. CASE cmd \in {"OPEN_ESCO", "CLOSE_ESCO"}
  <2>1. y \in {bt_phone_esco_play(x, p), bt_phone_esco_stop(x, p)}
    BY <1>7 DEF Run
  <2>2. QED
    BY <1>7, <2>1, TendsEsco DEF Attending
<1>8. QED
  BY <1>1, <1>2, <1>3, <1>4, <1>5, <1>6, <1>7 DEF Commands

LEMMA TendsSend ==
    ASSUME TypeOK, NEW x \in Bud, NEW p \in Phones, Playing(x), NEW cmd \in Commands
    PROVE  LET y == Send(x, cmd, p)
           IN  /\ Tends(x, y, {})
               /\ cmd \in Attending => Minds(y, p)
               /\ cmd = "PLAY" => (Shut(y, p) => Holds(y.out, "PLAY", p))
<1>1. CASE link
  <2> DEFINE m == Msg(cmd, p)
             o == Append(x.out, m)
             y == [x EXCEPT !.out = o]
  <2>1. Send(x, cmd, p) = y
    BY <1>1 DEF Send
  <2>2. m \in Command /\ x.out \in Seq(Command)
    BY DEF Msg, Command, Bud
  <2>3. o \in Seq(Command) /\ Len(x.out) + 1 \in DOMAIN o /\ o[Len(x.out) + 1] = m
        /\ \A i \in DOMAIN x.out : i \in DOMAIN o /\ o[i] = x.out[i]
    BY <2>2
  <2>4. Holds(o, cmd, p) /\ \A a, r : Holds(x.out, a, r) => Holds(o, a, r)
    BY <2>3 DEF Holds
  <2> HIDE DEF o
  <2>5. /\ y \in Bud /\ y.player = x.player /\ y.slots = x.slots /\ y.muted = x.muted
        /\ y.media = x.media /\ y.slips = x.slips /\ y.out = o
    BY <2>3 DEF Bud, Command
  <2> HIDE DEF y
  <2>6. Tends(x, y, {})
    BY <2>4, <2>5 DEF Tends, Safe, Shut, Detects, Robbed
  <2>7. cmd \in Attending => Minds(y, p)
    BY <2>4, <2>5 DEF Minds, Asked
  <2>8. QED
    BY <2>1, <2>4, <2>5, <2>6, <2>7
<1>2. CASE ~link
  BY <1>2, TendsRun DEF Send
<1>3. QED
  BY <1>1, <1>2

LEMMA TendsMarks ==
    ASSUME NEW x \in Bud, NEW p \in Some
    PROVE  /\ Tends(x, [x EXCEPT !.energy = p], {}) /\ Tends(x, [x EXCEPT !.preempted = p], {})
           /\ Tends(x, [x EXCEPT !.drop = p], {}) /\ Tends(x, [x EXCEPT !.trying = TRUE], {})
<1> DEFINE a == [x EXCEPT !.energy = p]
           b == [x EXCEPT !.preempted = p]
           c == [x EXCEPT !.drop = p]
           d == [x EXCEPT !.trying = TRUE]
<1>1. /\ a \in Bud /\ a.player = x.player /\ a.slots = x.slots /\ a.muted = x.muted
      /\ a.media = x.media /\ a.slips = x.slips /\ a.out = x.out
  BY DEF Bud
<1>2. /\ b \in Bud /\ b.player = x.player /\ b.slots = x.slots /\ b.muted = x.muted
      /\ b.media = x.media /\ b.slips = x.slips /\ b.out = x.out
  BY DEF Bud
<1>3. /\ c \in Bud /\ c.player = x.player /\ c.slots = x.slots /\ c.muted = x.muted
      /\ c.media = x.media /\ c.slips = x.slips /\ c.out = x.out
  BY DEF Bud
<1>4. /\ d \in Bud /\ d.player = x.player /\ d.slots = x.slots /\ d.muted = x.muted
      /\ d.media = x.media /\ d.slips = x.slips /\ d.out = x.out
  BY DEF Bud
<1> HIDE DEF a, b, c, d
<1>5. Tends(x, a, {}) /\ Tends(x, b, {})
  BY <1>1, <1>2, TendsAlike DEF Robbed
<1>6. Tends(x, c, {}) /\ Tends(x, d, {})
  BY <1>3, <1>4, TendsAlike DEF Robbed
<1>7. QED
  BY <1>5, <1>6 DEF a, b, c, d

LEMMA TendsKey ==
    ASSUME NEW x \in Bud, NEW p \in Phones, NEW k \in {"none", "play", "pause"}
    PROVE  Tends(x, Key(x, p, k), {})
<1> DEFINE f == [x.ask EXCEPT ![p] = k]
           y == [x EXCEPT !.ask = f]
<1>1. f \in [Phones -> {"none", "play", "pause"}]
  BY DEF Bud
<1>2. Key(x, p, k) = y
  BY DEF Key, Bud
<1> HIDE DEF f
<1>3. /\ y \in Bud /\ y.player = x.player /\ y.slots = x.slots /\ y.muted = x.muted
      /\ y.media = x.media /\ y.slips = x.slips /\ y.out = x.out
  BY <1>1 DEF Bud
<1> HIDE DEF y
<1>4. QED
  BY <1>2, <1>3, TendsAlike DEF Robbed

\* What app_core does with a message: only AVRCP_PLAY mutes a phone and leaves it at that.
Cares(x, y, kind, p) ==
    /\ Tends(x, y, IF kind = "AVRCP_PLAY" THEN {p} ELSE {})
    /\ kind \in Attending => Minds(y, p)
    /\ kind \in {"A2DP_START", "PLAY"} => (Shut(y, p) => Holds(y.out, "PLAY", p))

LEMMA TendsCares ==
    ASSUME NEW x, NEW y, NEW p, Tends(x, y, {}),
           NEW kind, kind \notin Attending \cup {"AVRCP_PLAY", "A2DP_START"}
    PROVE  Cares(x, y, kind, p)
BY DEF Cares, Attending

LEMMA MediaStartCares ==
    ASSUME TypeOK, NEW x \in Bud, Playing(x), NEW p \in Phones
    PROVE  Cares(x, MediaStart(x, p), "MEDIA_START", p)
<1> DEFINE q == Other(p)
           y == IF x.drop = p THEN [x EXCEPT !.drop = NoPhone] ELSE x
           taken == phone[q].on /\ q \in x.open
           z == MediaStart(x, p)
<1>1. Tends(x, y, {}) /\ y \in Bud /\ Playing(y)
  <2>1. Tends(x, y, {})
    BY TendsMarks, TendsSelf DEF Some
  <2>2. QED
    BY <2>1, TendsPlaying DEF Tends
<1>2. Tends(x, z, {}) /\ Minds(z, p)
  <2>1. CASE taken
    <3> DEFINE u == a2dp_media_mute(x, p)
               v == bt_start_a2dp_slience_detect(u, p)
               w == Key(v, p, "pause")
    <3>1. z = w
      BY <2>1 DEF MediaStart
    <3>2. Tends(x, u, {p})
      BY TendsMute
    <3> HIDE DEF u
    <3>3. Tends(x, v, {}) /\ Minds(v, p) /\ v \in Bud
      BY <3>2, TendsDetect DEF Tends
    <3> HIDE DEF v
    <3>4. Tends(v, w, {})
      BY <3>3, TendsKey
    <3> HIDE DEF w, z
    <3>5. QED
      BY <3>1, <3>3, <3>4, TendsTrans, MindsKept
  <2>2. CASE ~taken /\ x.esco # NoPhone
    <3>1. z = a2dp_media_close(x, p)
      BY <2>2 DEF MediaStart
    <3>2. QED
      BY <3>1, TendsUnmute DEF Minds
  <2>3. CASE ~taken /\ x.esco = NoPhone
    <3> DEFINE a == Send(x, "MUTE", p)
               b == Send(y, "SLIENCE_DETECT", p)
               c == Send(y, "PLAY", p)
    <3>1. z \in {a, b, c}
      BY <2>3 DEF MediaStart
    <3> HIDE DEF z, y
    <3>2. Tends(x, a, {}) /\ Minds(a, p)
      BY TendsSend DEF Commands, Attending
    <3>3. Tends(y, b, {}) /\ Minds(b, p) /\ Tends(y, c, {}) /\ Minds(c, p)
      BY <1>1, TendsSend DEF Commands, Attending
    <3> HIDE DEF a, b, c
    <3>4. QED
      BY <1>1, <3>1, <3>2, <3>3, TendsTrans
  <2>4. QED
    BY <2>1, <2>2, <2>3
<1> HIDE DEF z
<1>3. QED
  BY <1>2 DEF Cares, z

LEMMA TendsMediaStop ==
    ASSUME TypeOK, NEW x \in Bud, Playing(x), NEW p \in Phones
    PROVE  Tends(x, MediaStop(x, p), {})
<1> DEFINE u == [x EXCEPT !.preempted = p]
           v == [u EXCEPT !.energy = NoPhone]
           w == [v EXCEPT !.trying = TRUE]
           y == IF x.energy = p THEN w ELSE x
           z == Send(y, "CLOSE", p)
<1>1. MediaStop(x, p) = z
  BY DEF MediaStop, Bud
<1>2. Tends(x, u, {}) /\ u \in Bud
  BY TendsMarks DEF Tends, Some
<1> HIDE DEF u
<1>3. Tends(u, v, {}) /\ v \in Bud
  BY <1>2, TendsMarks DEF Tends, Some
<1> HIDE DEF v
<1>4. Tends(v, w, {})
  BY <1>3, TendsMarks DEF Some
<1> HIDE DEF w
<1>5. Tends(x, y, {})
  BY <1>2, <1>3, <1>4, TendsTrans, TendsSelf
<1> HIDE DEF y
<1>6. Tends(y, z, {})
  BY <1>5, TendsPlaying, TendsSend DEF Tends, Commands
<1> HIDE DEF z
<1>7. QED
  BY <1>1, <1>5, <1>6, TendsTrans

LEMMA TendsAvrcpPlay ==
    ASSUME NEW x \in Bud, NEW p \in Phones PROVE Tends(x, AvrcpPlay(x, p), {p})
<1> DEFINE u == a2dp_media_mute(x, p)
           v == Key(u, p, "pause")
<1>1. AvrcpPlay(x, p) \in {x, v}
  BY DEF AvrcpPlay
<1>2. Tends(x, u, {p}) /\ u \in Bud
  BY TendsMute DEF Tends
<1> HIDE DEF u
<1>3. Tends(u, v, {p})
  BY <1>2, TendsKey, TendsMore
<1> HIDE DEF v
<1>4. Tends(x, x, {p})
  BY TendsSelf, TendsMore
<1>5. QED
  BY <1>1, <1>2, <1>3, <1>4, TendsTrans

LEMMA TendsSuspend ==
    ASSUME TypeOK, NEW x \in Bud, Playing(x), NEW q \in Phones
    PROVE  Tends(x, a2dp_suspend_by_call(x, q), {})
<1> DEFINE u == [x EXCEPT !.preempted = q]
           v == [u EXCEPT !.energy = NoPhone]
           k == Key(v, q, "pause")
           y == Send(k, "MUTE_BY_CALL", q)
<1>1. a2dp_suspend_by_call(x, q) \in {x, y}
  BY DEF a2dp_suspend_by_call, Bud
<1>2. Tends(x, u, {}) /\ u \in Bud
  BY TendsMarks DEF Tends, Some
<1> HIDE DEF u
<1>3. Tends(u, v, {}) /\ v \in Bud
  BY <1>2, TendsMarks DEF Tends, Some
<1> HIDE DEF v
<1>4. Tends(v, k, {})
  BY <1>3, TendsKey
<1> HIDE DEF k
<1>5. Tends(x, k, {})
  BY <1>2, <1>3, <1>4, TendsTrans
<1>6. Tends(k, y, {})
  BY <1>5, TendsPlaying, TendsSend DEF Tends, Commands
<1> HIDE DEF y
<1>7. QED
  BY <1>1, <1>5, <1>6, TendsTrans, TendsSelf

LEMMA TendsScoRequest ==
    ASSUME TypeOK, NEW x \in Bud, Playing(x), NEW p \in Phones
    PROVE  Tends(x, ScoRequest(x, p), {})
<1> DEFINE q == Other(p)
           r == x.refused \cup IF phone[q].on THEN Refused(x, p) ELSE {}
           u == [x EXCEPT !.refused = r]
           y == a2dp_suspend_by_call(u, q)
<1>1. q \in Phones
  BY TheOther
<1>2. ScoRequest(x, p) = y
  BY DEF ScoRequest, Bud
<1>3. Refused(x, p) \subseteq Phones
  <2>1. Refused(x, p) \in {{p}, {q}, {}}
    BY DEF Refused
  <2>2. QED
    BY <1>1, <2>1
<1>4. r \subseteq Phones
  BY <1>3 DEF Bud
<1> HIDE DEF r, q
<1>5. /\ u \in Bud /\ u.player = x.player /\ u.slots = x.slots /\ u.muted = x.muted
      /\ u.media = x.media /\ u.slips = x.slips /\ u.out = x.out
  BY <1>4 DEF Bud
<1> HIDE DEF u
<1>6. Tends(x, u, {})
  BY <1>5, TendsAlike DEF Robbed
<1>7. Tends(u, y, {})
  BY <1>1, <1>5, <1>6, TendsPlaying, TendsSuspend
<1> HIDE DEF y
<1>8. QED
  BY <1>2, <1>6, <1>7, TendsTrans

LEMMA TendsScoOn ==
    ASSUME TypeOK, NEW x \in Bud, Playing(x), NEW p \in Phones
    PROVE  Tends(x, ScoOn(x, p), {})
<1> DEFINE q == Other(p)
           u == a2dp_suspend_by_call(x, q)
           y == Send(u, "OPEN_ESCO", p)
<1>1. q \in Phones
  BY TheOther
<1>2. ScoOn(x, p) = y
  BY DEF ScoOn
<1> HIDE DEF q
<1>3. Tends(x, u, {})
  BY <1>1, TendsSuspend
<1> HIDE DEF u
<1>4. Tends(u, y, {})
  BY <1>3, TendsPlaying, TendsSend DEF Tends, Commands
<1> HIDE DEF y
<1>5. QED
  BY <1>2, <1>3, <1>4, TendsTrans

LEMMA TendsScoOff ==
    ASSUME TypeOK, NEW x \in Bud, Playing(x), NEW p \in Phones
    PROVE  Tends(x, ScoOff(x, p), {})
<1>1. Tends(x, Send(x, "CLOSE_ESCO", p), {})
  BY TendsSend DEF Commands
<1>2. QED
  BY <1>1, TendsSelf DEF ScoOff

LEMMA TendsCallOver ==
    ASSUME NEW x \in Bud, NEW p \in Phones PROVE Tends(x, CallOver(x, p), {})
<1> DEFINE q == Other(p)
           free == phone[q].on /\ ~InCall(q)
           try == [x EXCEPT !.trying = TRUE]
           s == Reopen(bt_stop_a2dp_slience_detect(x, q), q)
           y == IF free /\ q \in x.muted THEN s ELSE x
           r == Reopen(x, q)
           r1 == [r EXCEPT !.energy = q]
           r2 == [r1 EXCEPT !.preempted = NoPhone]
           r3 == [r2 EXCEPT !.drop = p]
           t1 == [try EXCEPT !.drop = p]
           y1 == [y EXCEPT !.trying = TRUE]
<1>1. q \in Phones /\ q \in Some /\ p \in Some /\ NoPhone \in Some
  BY TheOther DEF Some
<1>2. Tends(x, y, {}) /\ y \in Bud
  <2>1. Tends(x, s, {}) /\ Tends(x, x, {})
    BY <1>1, TendsReport, TendsSelf
  <2> HIDE DEF s
  <2>2. QED
    BY <2>1 DEF Tends
<1>3. Tends(x, r, {}) /\ r \in Bud
  BY <1>1, TendsReopen DEF Tends
<1>4. CallOver(x, p) = IF free /\ x.preempted = q
                       THEN IF q \in x.muted THEN r3 ELSE t1
                       ELSE IF x.preempted = p THEN y1 ELSE y
  BY <1>2, <1>3 DEF CallOver, Bud
<1> HIDE DEF y, r, q, free
<1>5. Tends(x, r3, {})
  <2>1. Tends(r, r1, {}) /\ r1 \in Bud
    BY <1>1, <1>3, TendsMarks DEF Tends
  <2> HIDE DEF r1
  <2>2. Tends(r1, r2, {}) /\ r2 \in Bud
    BY <1>1, <2>1, TendsMarks DEF Tends
  <2> HIDE DEF r2
  <2>3. Tends(r2, r3, {})
    BY <1>1, <2>2, TendsMarks
  <2> HIDE DEF r3
  <2>4. QED
    BY <1>3, <2>1, <2>2, <2>3, TendsTrans
<1>6. Tends(x, t1, {})
  <2>1. Tends(x, try, {}) /\ try \in Bud
    BY <1>1, TendsMarks DEF Tends
  <2> HIDE DEF try
  <2>2. Tends(try, t1, {})
    BY <1>1, <2>1, TendsMarks
  <2> HIDE DEF t1
  <2>3. QED
    BY <2>1, <2>2, TendsTrans
<1>7. Tends(x, y1, {})
  <2>1. Tends(y, y1, {})
    BY <1>1, <1>2, TendsMarks
  <2> HIDE DEF y1
  <2>2. QED
    BY <1>2, <2>1, TendsTrans
<1> HIDE DEF r3, t1, y1
<1>8. QED
  BY <1>2, <1>4, <1>5, <1>6, <1>7

LEMMA TendsConnected ==
    ASSUME NEW x \in Bud, NEW p \in Phones
    PROVE  Tends(x, Connected(x, p), {}) /\ Tends(x, Disconnected(x, p), {})
<1> DEFINE u == tws_a2dp_player_close(x, p)
           y == bt_phone_esco_stop(u, p)
<1>1. Tends(x, Connected(x, p), {})
  BY TendsMarks, TendsSelf DEF Connected, Some
<1>2. Disconnected(x, p) = y
  BY DEF Disconnected
<1>3. Tends(x, u, {}) /\ u \in Bud
  BY TendsTwsClose DEF Tends
<1> HIDE DEF u
<1>4. Tends(u, y, {})
  BY <1>3, TendsEsco
<1> HIDE DEF y
<1>5. QED
  BY <1>1, <1>2, <1>3, <1>4, TendsTrans

LEMMA TakeOverCares ==
    ASSUME TypeOK, NEW x \in Bud, Playing(x), NEW p \in Phones
    PROVE  Cares(x, TakeOver(x, p), "A2DP_START", p)
<1> DEFINE q == x.player
           y == IF phone[q].on THEN Key(x, q, "pause") ELSE x
           w == IF a2dp_player_runing(x) THEN Send(y, "MUTE", q) ELSE x
           h == x.open # {} \/ x.esco # NoPhone
           z == Slip(w, "in_call", h)
           s == Send(z, "PLAY", p)
<1>1. TakeOver(x, p) = s
  BY DEF TakeOver
<1>2. Tends(x, w, {}) /\ w \in Bud
  <2>1. CASE ~a2dp_player_runing(x)
    BY <2>1, TendsSelf
  <2>2. CASE a2dp_player_runing(x)
    <3>1. q \in Phones
      BY <2>2 DEF a2dp_player_runing, Bud, Some
    <3>2. Tends(x, y, {}) /\ y \in Bud
      BY <3>1, TendsKey, TendsSelf DEF Tends
    <3> HIDE DEF y, q
    <3>3. Tends(y, Send(y, "MUTE", q), {})
      BY <3>1, <3>2, TendsPlaying, TendsSend DEF Commands
    <3>4. Tends(x, Send(y, "MUTE", q), {})
      BY <3>2, <3>3, TendsTrans
    <3>5. QED
      BY <2>2, <3>4 DEF Tends
  <2>3. QED
    BY <2>1, <2>2
<1> HIDE DEF w
<1>3. Tends(w, z, {}) /\ z \in Bud
  BY <1>2, TendsSlip DEF Tends
<1> HIDE DEF z, h
<1>4. Tends(x, z, {})
  BY <1>2, <1>3, TendsTrans
<1>5. Tends(z, s, {}) /\ (Shut(s, p) => Holds(s.out, "PLAY", p))
  BY <1>3, <1>4, TendsPlaying, TendsSend DEF Commands
<1> HIDE DEF s
<1>6. Tends(x, s, {})
  BY <1>4, <1>5, TendsTrans
<1>7. QED
  BY <1>1, <1>5, <1>6 DEF Cares, Attending

LEMMA HandledCares ==
    ASSUME TypeOK, NEW x \in Bud, Playing(x), NEW p \in Phones,
           NEW kind \in StackEvents \cup AppMessages \cup Commands
    PROVE  Cares(x, Handled(x, kind, p), kind, p)
<1> DEFINE y == Handled(x, kind, p)
<1>1. CASE kind = "MEDIA_START"
  <2>1. y = MediaStart(x, p)
    BY <1>1 DEF Handled
  <2>2. QED
    BY <1>1, <2>1, MediaStartCares
<1>2. CASE kind = "A2DP_START"
  <2>1. y = TakeOver(x, p)
    BY <1>2 DEF Handled
  <2>2. QED
    BY <1>2, <2>1, TakeOverCares
<1>3. CASE kind = "AVRCP_PLAY"
  <2>1. y = AvrcpPlay(x, p)
    BY <1>3 DEF Handled
  <2>2. QED
    BY <1>3, <2>1, TendsAvrcpPlay DEF Cares, Attending
<1>4. CASE kind \in Commands
  <2>1. y = Run(x, kind, p)
    BY <1>4 DEF Handled, Commands
  <2>2. /\ Tends(x, y, {}) /\ (kind \in Attending => Minds(y, p))
        /\ kind = "PLAY" => ~Shut(y, p)
    BY <1>4, <2>1, TendsRun
  <2> HIDE DEF y
  <2>3. kind \notin {"AVRCP_PLAY", "A2DP_START"}
    BY <1>4 DEF Commands
  <2>4. Cares(x, y, kind, p)
    BY <2>2, <2>3 DEF Cares
  <2>5. QED
    BY <2>4 DEF y
<1>5. CASE kind \in {"MEDIA_STOP", "AVDTP_SUSPEND", "SCO_REQ", "SCO_ON", "SCO_OFF"}
  <2>1. y \in {MediaStop(x, p), a2dp_media_unmute(x, p), ScoRequest(x, p), ScoOn(x, p), ScoOff(x, p)}
    BY <1>5 DEF Handled
  <2> HIDE DEF y
  <2>2. Tends(x, y, {})
    BY <2>1, TendsMediaStop, TendsUnmute, TendsScoRequest, TendsScoOn, TendsScoOff
  <2>3. QED
    BY <1>5, <2>2, TendsCares DEF y, Attending
<1>6. CASE kind \in {"SCO_DISCON", "PHONE_HANGUP", "CONNECTED", "DISCONNECT"}
  <2>1. y \in {CallOver(x, p), Connected(x, p), Disconnected(x, p)}
    BY <1>6 DEF Handled
  <2> HIDE DEF y
  <2>2. Tends(x, y, {})
    BY <2>1, TendsCallOver, TendsConnected
  <2>3. QED
    BY <1>6, <2>2, TendsCares DEF y, Attending
<1>7. CASE kind \in {"SEND_PLAY", "NO_ENERGY"}
  <2>1. y \in {x, Key(x, p, "play"), Send(x, "SWITCH", p)}
    BY <1>7 DEF Handled
  <2> HIDE DEF y
  <2>2. Tends(x, y, {})
    BY <2>1, TendsSelf, TendsKey, TendsSend DEF Commands
  <2>3. QED
    BY <1>7, <2>2, TendsCares DEF y, Attending
<1>8. QED
  BY <1>1, <1>2, <1>3, <1>4, <1>5, <1>6, <1>7 DEF StackEvents, AppMessages

LEMMA CommandsAreMessages == ASSUME NEW s \in Seq(Command) PROVE s \in Seq(Message)
<1>1. \A m \in Command : m \in Message
  BY DEF Command, Message
<1>2. s \in [1..Len(s) -> Command] /\ Len(s) \in Nat
  BY LenProperties
<1>3. s \in [1..Len(s) -> Message]
  BY <1>1, <1>2
<1>4. QED
  BY <1>2, <1>3, SeqDef

LEMMA AskedMore ==
    ASSUME NEW q \in Seq(Message), NEW k \in Seq(Message), NEW p, Asked(q, p) \/ Asked(k, p)
    PROVE  Asked(q \o k, p)
BY HoldsMore DEF Asked

LEMMA AskedTail ==
    ASSUME NEW q \in Seq(Message), q # <<>>, NEW p, Asked(q, p),
           \A a \in Attending : Head(q) # Msg(a, p)
    PROVE  Asked(Tail(q), p)
BY HoldsTail DEF Asked

LEMMA CareAppCore == ASSUME IInv, CareInv, app_core PROVE CareInv'
<1> DEFINE kind == Head(queue).kind
           p == Head(queue).of
           x == Handled(bud, kind, p)
<1>1. /\ queue # <<>> /\ bud' = [x EXCEPT !.out = <<>>] /\ air' = air \o x.out
      /\ queue' = Tail(queue)
      /\ UNCHANGED <<phone, link, deaf, short, tone, events>>
  BY DEF app_core, Done
<1>2. queue \in Seq(Message) /\ air \in Seq(Message) /\ TypeOK /\ bud \in Bud /\ bud.out = <<>>
  BY QueueType, CommandsAreMessages DEF IInv, TypeOK
<1>3. /\ Head(queue) = Msg(kind, p) /\ p \in Phones
      /\ kind \in StackEvents \cup AppMessages \cup Commands
  <2>1. Head(queue) \in Message
    BY <1>1, <1>2, QueueTail
  <2>2. QED
    BY <2>1 DEF Message, Msg
<1>4. \A a, r : Head(queue) = Msg(a, r) <=> a = kind /\ r = p
  BY <1>3 DEF Msg
<1> HIDE DEF kind, p
<1>5. Playing(bud) /\ \A r \in bud.media : r \in Phones
  BY <1>2 DEF CareInv, Playing, Bud
<1>6. Cares(bud, x, kind, p)
  BY <1>2, <1>3, <1>5, HandledCares
<1> HIDE DEF x
<1>7. /\ x \in Bud /\ x.out \in Seq(Message) /\ x.media \subseteq bud.media
      /\ Robbed(bud) => Robbed(x)
  <2>1. x \in Bud /\ x.media \subseteq bud.media /\ (Robbed(bud) => Robbed(x))
    BY <1>6 DEF Cares, Tends
  <2>2. x.out \in Seq(Command)
    BY <2>1 DEF Bud, Command
  <2>3. QED
    BY <2>1, <2>2, CommandsAreMessages
<1>8. /\ bud'.media = x.media /\ (Robbed(bud') <=> Robbed(x))
      /\ \A r : (Safe(bud', r) <=> Safe(x, r)) /\ (Shut(bud', r) <=> Shut(x, r))
  <2>1. /\ bud'.media = x.media /\ bud'.slips = x.slips /\ bud'.player = x.player
        /\ bud'.slots = x.slots /\ bud'.muted = x.muted
    BY <1>1, <1>7 DEF Bud
  <2>2. QED
    BY <2>1 DEF Safe, Shut, Detects, Robbed
<1>9. ASSUME NEW r \in x.media
      PROVE  /\ Streams(r) /\ Followed(queue', "AVRCP_PLAY", "MEDIA_START", r)
             /\ ~Robbed(x) => Safe(x, r) \/ Asked(queue', r) \/ Asked(air', r)
  <2>1. r \in bud.media /\ r \in Phones
    BY <1>5, <1>7
  <2>2. /\ Streams(r) /\ Followed(queue, "AVRCP_PLAY", "MEDIA_START", r)
        /\ ~Robbed(bud) => Safe(bud, r) \/ Asked(queue, r) \/ Asked(air, r)
    BY <2>1 DEF CareInv
  <2>3. /\ Followed(queue', "AVRCP_PLAY", "MEDIA_START", r)
        /\ Head(queue) = Msg("AVRCP_PLAY", r) => Holds(queue', "MEDIA_START", r)
    BY <1>1, <1>2, <2>2, FollowedTail
  <2>4. ASSUME ~Robbed(x) PROVE Safe(x, r) \/ Asked(queue', r) \/ Asked(air', r)
    <3>1. Asked(air, r) \/ Asked(x.out, r) => Asked(air', r)
      BY <1>1, <1>2, <1>7, AskedMore
    <3>2. CASE r = p /\ kind = "AVRCP_PLAY"
      BY <1>3, <2>3, <3>2 DEF Asked, Attending
    <3>3. CASE r = p /\ kind \in Attending
      BY <1>6, <1>9, <2>4, <3>1, <3>3 DEF Cares, Minds
    <3>4. CASE ~(r = p /\ (kind = "AVRCP_PLAY" \/ kind \in Attending))
      <4>1. Safe(bud, r) => Safe(x, r) \/ Asked(x.out, r)
        BY <1>6, <1>9, <2>4, <3>4 DEF Cares, Tends
      <4>2. Asked(queue, r) => Asked(queue', r)
        BY <1>1, <1>2, <1>4, <3>4, AskedTail
      <4>3. QED
        BY <1>7, <2>2, <2>4, <3>1, <4>1, <4>2
    <3>5. QED
      BY <3>2, <3>3, <3>4
  <2>5. QED
    BY <2>2, <2>3, <2>4
<1>10. ASSUME NEW r \in Phones, Shut(x, r)
       PROVE  Holds(queue', "A2DP_START", r) \/ Holds(queue', "PLAY", r) \/ Holds(air', "PLAY", r)
  <2>1. Holds(air, "PLAY", r) \/ Holds(x.out, "PLAY", r) => Holds(air', "PLAY", r)
    BY <1>1, <1>2, <1>7, HoldsMore
  <2>2. CASE r = p /\ kind \in {"A2DP_START", "PLAY"}
    BY <1>6, <1>10, <2>1, <2>2 DEF Cares
  <2>3. CASE ~(r = p /\ kind \in {"A2DP_START", "PLAY"})
    <3>1. Shut(bud, r)
      BY <1>6, <1>10 DEF Cares, Tends
    <3>2. Holds(queue, "A2DP_START", r) => Holds(queue', "A2DP_START", r)
      BY <1>1, <1>2, <1>4, <2>3, HoldsTail
    <3>3. Holds(queue, "PLAY", r) => Holds(queue', "PLAY", r)
      BY <1>1, <1>2, <1>4, <2>3, HoldsTail
    <3>4. QED
      BY <2>1, <3>1, <3>2, <3>3 DEF CareInv
  <2>4. QED
    BY <2>2, <2>3
<1>11. \A r : Streams(r)' <=> Streams(r)
  BY <1>1 DEF Streams
<1>12. QED
  BY <1>8, <1>9, <1>10, <1>11 DEF CareInv

\* Nothing on the air is lost.
LEMMA CareDataInIrq == ASSUME IInv, CareInv, data_in_irq PROVE CareInv'
<1> DEFINE m == Head(air)
<1>1. /\ air # <<>> /\ queue' = Append(queue, m) /\ air' = Tail(air)
      /\ UNCHANGED <<bud, phone, link, deaf, short, tone, events>>
  BY DEF data_in_irq
<1>2. queue \in Seq(Message) /\ air \in Seq(Command) /\ air \in Seq(Message) /\ bud \in Bud
  BY QueueType, CommandsAreMessages DEF IInv, TypeOK
<1>3. m \in Command /\ m \in Message
  <2>1. m \in Command
    BY <1>1, <1>2, HeadTailProperties
  <2>2. QED
    BY <2>1 DEF Command, Message
<1>4. queue' = queue \o <<m>> /\ <<m>> \in Seq(Message)
  BY <1>1, <1>2, <1>3, AppendIsConcat
<1>5. \A p : ~Holds(<<m>>, "AVRCP_PLAY", p)
  <2>1. m.kind # "AVRCP_PLAY"
    BY <1>3 DEF Command, Commands
  <2>2. \A i \in DOMAIN <<m>> : <<m>>[i] = m
    OBVIOUS
  <2>3. QED
    BY <2>1, <2>2 DEF Holds, Msg
<1>6. \A a, p : m = Msg(a, p) => Holds(<<m>>, a, p)
  <2>1. 1 \in DOMAIN <<m>> /\ <<m>>[1] = m
    OBVIOUS
  <2>2. QED
    BY <2>1 DEF Holds
<1> HIDE DEF m
<1>7. \A a, p : Holds(queue, a, p) => Holds(queue', a, p)
  BY <1>2, <1>4, HoldsMore
<1>8. \A a, p : Holds(air, a, p) => Holds(queue', a, p) \/ Holds(air', a, p)
  <2> TAKE a, p
  <2> HAVE Holds(air, a, p)
  <2>1. CASE m = Msg(a, p)
    BY <1>2, <1>4, <1>6, <2>1, HoldsMore
  <2>2. CASE m # Msg(a, p)
    BY <1>1, <1>2, <2>2, HoldsTail DEF m
  <2>3. QED
    BY <2>1, <2>2
<1>9. \A p : Followed(queue, "AVRCP_PLAY", "MEDIA_START", p)
               => Followed(queue', "AVRCP_PLAY", "MEDIA_START", p)
  BY <1>2, <1>4, <1>5, FollowedMore
<1>10. \A p : /\ Streams(p)' <=> Streams(p)
              /\ Asked(queue, p) \/ Asked(air, p) => Asked(queue', p) \/ Asked(air', p)
  BY <1>1, <1>7, <1>8 DEF Streams, Asked
<1>11. QED
  BY <1>1, <1>7, <1>8, <1>9, <1>10 DEF CareInv

\* The bud but for what it detects and the media that is open.
Steady(x, y) ==
    y.player = x.player /\ y.muted \subseteq x.muted /\ (Robbed(x) => Robbed(y))

\* A timer that finds music with a detector posts A2DP_START.
LEMMA CareTimer ==
    ASSUME IInv, CareInv, NEW x, Internal(x), NEW k \in Seq(Message), queue' = queue \o k,
           \A i \in DOMAIN k : k[i].kind \in AppMessages,
           Steady(bud, x), x.media = bud.media,
           \A p \in Phones : /\ Detects(bud, p) => Detects(x, p)
                             /\ Shut(x, p) => Shut(bud, p) \/ Holds(k, "A2DP_START", p)
    PROVE  CareInv'
<1>1. bud' = x /\ UNCHANGED <<phone, air>>
  BY DEF Internal
<1>2. queue \in Seq(Message) /\ bud.media \subseteq Phones
  BY QueueType DEF IInv, TypeOK, Bud
<1>3. \A p : ~Holds(k, "AVRCP_PLAY", p)
  BY DEF Holds, Msg, AppMessages
<1>4. \A a, p : Holds(queue, a, p) \/ Holds(k, a, p) => Holds(queue', a, p)
  BY <1>2, HoldsMore
<1>5. \A p : Followed(queue, "AVRCP_PLAY", "MEDIA_START", p)
               => Followed(queue', "AVRCP_PLAY", "MEDIA_START", p)
  BY <1>2, <1>3, FollowedMore
<1>6. \A p : (Streams(p)' <=> Streams(p)) /\ (Asked(queue, p) => Asked(queue', p))
  BY <1>1, <1>4 DEF Streams, Asked
<1>7. \A p \in Phones : Safe(bud, p) => Safe(x, p)
  BY DEF Safe, Steady
<1>8. QED
  BY <1>1, <1>2, <1>4, <1>5, <1>6, <1>7 DEF CareInv, Steady

\* What the phones and the stack do takes no player and no detector; a phone whose media is
\* open streams, and when it is reported so is its MEDIA_START.
LEMMA CareWorld ==
    ASSUME IInv, CareInv, NEW p \in Phones, NEW r \in Phone, NEW kinds \in Seq(StackEvents),
           Phoned(p, r, kinds), Steady(bud, bud'), bud'.slots = bud.slots,
           \A q \in bud'.media : q \in bud.media \/ (q = p /\ Tells(kinds, "MEDIA_START")),
           p \in bud'.media => /\ r.music \in {"sound", "silence"}
                               /\ ~Tells(kinds, "AVRCP_PLAY")
    PROVE  CareInv'
<1> DEFINE k == [i \in DOMAIN kinds |-> Msg(kinds[i], p)]
<1>1. /\ phone' = [phone EXCEPT ![p] = r] /\ queue' = queue \o k
      /\ UNCHANGED <<air, link, deaf, short, tone>>
  BY DEF Phoned
<1>2. queue \in Seq(Message) /\ bud.media \subseteq Phones /\ phone \in [Phones -> Phone]
  BY QueueType DEF IInv, TypeOK, Bud
<1>3. /\ k \in Seq(Message)
      /\ \A a : Holds(k, a, p) <=> Tells(kinds, a)
      /\ \A a, q : q # p => ~Holds(k, a, q)
  BY Reported DEF Tells
<1> HIDE DEF k
<1>4. \A a, q : Holds(queue, a, q) \/ Holds(k, a, q) => Holds(queue', a, q)
  BY <1>1, <1>2, <1>3, HoldsMore
<1>5. \A q : Safe(bud, q) => Safe(bud', q)
  BY DEF Safe, Steady, Detects
<1>6. \A q : Shut(bud', q) <=> Shut(bud, q)
  BY DEF Shut
<1>7. ASSUME NEW q \in bud'.media
      PROVE  /\ Streams(q)' /\ Followed(queue', "AVRCP_PLAY", "MEDIA_START", q)
             /\ ~Robbed(bud') => Safe(bud', q) \/ Asked(queue', q) \/ Asked(air', q)
  <2>1. ~Holds(k, "AVRCP_PLAY", q) /\ q \in Phones
    BY <1>2, <1>3, <1>7
  <2>2. CASE q \in bud.media
    <3>1. /\ Streams(q) /\ Followed(queue, "AVRCP_PLAY", "MEDIA_START", q)
          /\ ~Robbed(bud) => Safe(bud, q) \/ Asked(queue, q) \/ Asked(air, q)
      BY <2>2 DEF CareInv
    <3>2. Streams(q)'
      BY <1>1, <1>2, <1>7, <2>1, <3>1 DEF Streams
    <3>3. Followed(queue', "AVRCP_PLAY", "MEDIA_START", q)
      BY <1>1, <1>2, <1>3, <2>1, <3>1, FollowedMore
    <3>4. Asked(queue, q) => Asked(queue', q)
      BY <1>4 DEF Asked
    <3>5. QED
      BY <1>1, <1>5, <3>1, <3>2, <3>3, <3>4 DEF Steady
  <2>3. CASE q = p /\ Tells(kinds, "MEDIA_START")
    <3>1. Holds(k, "MEDIA_START", q) /\ Holds(queue', "MEDIA_START", q)
      BY <1>3, <1>4, <2>3
    <3>2. Streams(q)'
      BY <1>1, <1>2, <1>7, <2>1, <2>3 DEF Streams
    <3>3. Followed(queue', "AVRCP_PLAY", "MEDIA_START", q)
      BY <1>1, <1>2, <1>3, <2>1, <3>1, FollowedMore
    <3>4. QED
      BY <3>1, <3>2, <3>3 DEF Asked, Attending
  <2>4. QED
    BY <1>7, <2>2, <2>3
<1>8. QED
  BY <1>1, <1>4, <1>6, <1>7 DEF CareInv

\* A timer that changes marks and may post.
LEMMA CareMarks ==
    ASSUME IInv, CareInv, NEW x, Internal(x), x.slots = bud.slots, Steady(bud, x),
           x.media = bud.media,
           \/ UNCHANGED queue
           \/ \E kind \in AppMessages, p \in Phones : queue' = Append(queue, Msg(kind, p))
    PROVE  CareInv'
<1>1. queue \in Seq(Message)
  BY QueueType DEF IInv
<1>2. PICK k \in Seq(Message) : queue' = queue \o k /\ \A i \in DOMAIN k : k[i].kind \in AppMessages
  <2>1. CASE UNCHANGED queue
    BY <1>1, <2>1, NoMessage
  <2>2. ASSUME NEW kind \in AppMessages, NEW p \in Phones, queue' = Append(queue, Msg(kind, p))
        PROVE  \E k \in Seq(Message) :
                 queue' = queue \o k /\ \A i \in DOMAIN k : k[i].kind \in AppMessages
    <3> DEFINE k == <<Msg(kind, p)>>
    <3>1. /\ k \in Seq(Message) /\ queue' = queue \o k
          /\ \A i \in DOMAIN k : k[i].kind \in AppMessages
      BY <1>1, <2>2, OneMessage
    <3> HIDE DEF k
    <3>2. QED
      BY <3>1
  <2>3. QED
    BY <2>1, <2>2
<1>3. \A p : (Detects(bud, p) => Detects(x, p)) /\ (Shut(x, p) => Shut(bud, p))
  BY DEF Detects, Shut
<1>4. QED
  BY <1>2, <1>3, CareTimer

LEMMA CareTryPlay == ASSUME IInv, CareInv, try_play_preempted_a2dp PROVE CareInv'
<1> DEFINE p == bud.preempted
           gone == IF p = NoPhone THEN TRUE ELSE ~phone[p].on
           y == IF gone \/ bud.player = p THEN bud ELSE Key(bud, p, "play")
           n == IF gone \/ bud.player # p THEN NoPhone ELSE y.preempted
           u == [y EXCEPT !.trying = FALSE]
           x == [u EXCEPT !.preempted = n]
<1>1. bud \in Bud
  BY DEF IInv, TypeOK
<1>2. /\ y \in Bud /\ y.player = bud.player /\ y.slots = bud.slots /\ y.muted = bud.muted
      /\ y.media = bud.media /\ y.slips = bud.slips
  <2>1. CASE gone \/ bud.player = p
    BY <1>1, <2>1
  <2>2. CASE ~(gone \/ bud.player = p)
    <3>1. p \in Phones
      BY <1>1, <2>2 DEF Bud, Some
    <3> DEFINE f == [bud.ask EXCEPT ![p] = "play"]
               v == [bud EXCEPT !.ask = f]
    <3>2. f \in [Phones -> {"none", "play", "pause"}]
      BY <1>1 DEF Bud
    <3>3. y = v
      BY <1>1, <2>2 DEF Key, Bud
    <3> HIDE DEF f, y
    <3>4. v \in Bud
      BY <1>1, <3>2 DEF Bud
    <3>5. QED
      BY <1>1, <3>3, <3>4 DEF Bud
  <2>3. QED
    BY <2>1, <2>2
<1>3. Internal(x) /\ UNCHANGED queue
  <2>1. x = [y EXCEPT !.trying = FALSE,
                      !.preempted = IF gone \/ bud.player # p THEN NoPhone ELSE @]
    BY <1>2 DEF Bud
  <2>2. QED
    BY <2>1 DEF try_play_preempted_a2dp
<1> HIDE DEF y, n
<1>4. /\ x.player = y.player /\ x.slots = y.slots /\ x.muted = y.muted
      /\ x.media = y.media /\ x.slips = y.slips
  BY <1>2 DEF Bud
<1> HIDE DEF x
<1>5. QED
  BY <1>2, <1>3, <1>4, CareMarks DEF Steady, Robbed

LEMMA CareDetect == ASSUME IInv, CareInv, NEW i \in {1, 2}, a2dp_slience_detect(i) PROVE CareInv'
<1> DEFINE p == bud.slots[i].of
           f == [bud.slots EXCEPT ![i].open = FALSE]
           x == [bud EXCEPT !.slots = f]
<1>1. queue \in Seq(Message) /\ bud \in Bud
  BY QueueType DEF IInv, TypeOK
<1>2. CASE Internal([bud EXCEPT !.dead = TRUE]) /\ UNCHANGED queue
  <2> DEFINE y == [bud EXCEPT !.dead = TRUE]
  <2>1. /\ y.player = bud.player /\ y.slots = bud.slots /\ y.muted = bud.muted
        /\ y.media = bud.media /\ y.slips = bud.slips /\ Internal(y)
    BY <1>1, <1>2 DEF Bud
  <2> HIDE DEF y
  <2>2. QED
    BY <1>2, <2>1, CareMarks DEF Steady, Robbed
<1>3. CASE Posts([bud EXCEPT !.slots[i].open = FALSE], "A2DP_START", p)
  <2>1. bud.slots \in [{1, 2} -> Slot] /\ bud.slots[i].open
    BY <1>1 DEF Bud, a2dp_slience_detect
  <2>2. p \in Phones
    <3>1. bud.slots[i] \in Slot
      BY <2>1
    <3>2. QED
      BY <2>1, <3>1 DEF Slot, Some
  <2>3. \A j \in {1, 2} : f[j].of = bud.slots[j].of /\ (j # i => f[j] = bud.slots[j])
    BY <2>1 DEF Slot
  <2>4. Internal(x) /\ queue' = Append(queue, Msg("A2DP_START", p))
    BY <1>1, <1>3 DEF Posts, Bud
  <2> HIDE DEF f
  <2>5. /\ x.player = bud.player /\ x.slots = f /\ x.muted = bud.muted
        /\ x.media = bud.media /\ x.slips = bud.slips
    BY <1>1 DEF Bud
  <2> HIDE DEF x
  <2> DEFINE k == <<Msg("A2DP_START", p)>>
  <2>6. /\ k \in Seq(Message) /\ \A j \in DOMAIN k : k[j].kind \in AppMessages
        /\ queue' = queue \o k
    BY <1>1, <2>2, <2>4, OneMessage DEF AppMessages
  <2>7. Holds(k, "A2DP_START", p)
    <3>1. 1 \in DOMAIN k /\ k[1] = Msg("A2DP_START", p)
      OBVIOUS
    <3>2. QED
      BY <3>1 DEF Holds
  <2> HIDE DEF k
  <2>8. \A r \in Phones : /\ Detects(bud, r) => Detects(x, r)
                          /\ Shut(x, r) => Shut(bud, r) \/ r = p
    BY <2>3, <2>5 DEF Detects, Shut
  <2>9. QED
    BY <2>4, <2>5, <2>6, <2>7, <2>8, CareTimer DEF Steady, Robbed
<1>4. QED
  BY <1>2, <1>3 DEF a2dp_slience_detect

LEMMA CareEnergy ==
    ASSUME IInv, CareInv, NEW p \in Phones, EnergyAfterCall(p) \/ NoEnergy(p) PROVE CareInv'
<1> DEFINE y == [bud EXCEPT !.energy = NoPhone]
           z == [bud EXCEPT !.told = TRUE]
<1>1. bud \in Bud
  BY DEF IInv, TypeOK
<1>2. /\ y.player = bud.player /\ y.slots = bud.slots /\ y.muted = bud.muted
      /\ y.media = bud.media /\ y.slips = bud.slips
  BY <1>1 DEF Bud
<1>3. /\ z.player = bud.player /\ z.slots = bud.slots /\ z.muted = bud.muted
      /\ z.media = bud.media /\ z.slips = bud.slips
  BY <1>1 DEF Bud
<1>4. \/ Internal(y) /\ (UNCHANGED queue \/ queue' = Append(queue, Msg("SEND_PLAY", p)))
      \/ Internal(z) /\ queue' = Append(queue, Msg("NO_ENERGY", p))
  BY DEF EnergyAfterCall, NoEnergy, Posts
<1> HIDE DEF y, z
<1>5. Steady(bud, y) /\ Steady(bud, z)
  BY <1>2, <1>3 DEF Steady, Robbed
<1>6. "SEND_PLAY" \in AppMessages /\ "NO_ENERGY" \in AppMessages
  BY DEF AppMessages
<1>7. CASE Internal(y) /\ (UNCHANGED queue \/ queue' = Append(queue, Msg("SEND_PLAY", p)))
  BY <1>2, <1>5, <1>6, <1>7, CareMarks
<1>8. CASE Internal(z) /\ queue' = Append(queue, Msg("NO_ENERGY", p))
  BY <1>3, <1>5, <1>6, <1>8, CareMarks
<1>9. QED
  BY <1>4, <1>7, <1>8

LEMMA CareRetry ==
    ASSUME IInv, CareInv,
           retry_open_a2dp_player \/ retry_start_a2dp_player \/ esco_delay_open
    PROVE  CareInv'
<1>1. bud \in Bud /\ short \in {"no", "parse", "start"}
  BY DEF IInv, TypeOK
<1>2. ASSUME NEW y, Internal(y), UNCHANGED queue, y.player = bud.player, y.slots = bud.slots,
             y.muted = bud.muted, y.media = bud.media, y.slips = bud.slips
      PROVE  CareInv'
  BY <1>2, CareMarks DEF Steady, Robbed
<1>3. CASE retry_open_a2dp_player
  <2> DEFINE st == IF short = "no" THEN "run" ELSE short
             y == [bud EXCEPT !.player = bud.player, !.stream = st]
  <2>1. a2dp_player_open(bud, bud.player) = y
    BY <1>1, <1>3 DEF retry_open_a2dp_player, a2dp_player_open, Slip, Bud
  <2>2. Internal(y) /\ UNCHANGED queue
    BY <1>3, <2>1 DEF retry_open_a2dp_player
  <2> HIDE DEF st
  <2>3. /\ y.player = bud.player /\ y.slots = bud.slots /\ y.muted = bud.muted
        /\ y.media = bud.media /\ y.slips = bud.slips
    BY <1>1 DEF Bud
  <2> HIDE DEF y
  <2>4. QED
    BY <1>2, <2>2, <2>3
<1>4. CASE retry_start_a2dp_player
  <2> DEFINE y == [bud EXCEPT !.stream = "run"]
  <2>1. Internal(y) /\ UNCHANGED queue
    BY <1>4 DEF retry_start_a2dp_player
  <2>2. /\ y.player = bud.player /\ y.slots = bud.slots /\ y.muted = bud.muted
        /\ y.media = bud.media /\ y.slips = bud.slips
    BY <1>1 DEF Bud
  <2> HIDE DEF y
  <2>3. QED
    BY <1>2, <2>1, <2>2
<1>5. CASE esco_delay_open
  <2> DEFINE y == [bud EXCEPT !.esco = bud.wait, !.wait = NoPhone]
  <2>1. Internal(y) /\ UNCHANGED queue
    BY <1>5 DEF esco_delay_open
  <2>2. /\ y.player = bud.player /\ y.slots = bud.slots /\ y.muted = bud.muted
        /\ y.media = bud.media /\ y.slips = bud.slips
    BY <1>1 DEF Bud
  <2> HIDE DEF y
  <2>3. QED
    BY <1>2, <2>1, <2>2
<1>6. QED
  BY <1>3, <1>4, <1>5

LEMMA CareTimers == ASSUME IInv, CareInv, Timers PROVE CareInv'
BY CareTryPlay, CareRetry, CareDetect, CareEnergy DEF Timers

\* The bud stays as it is: only a phone whose media is not open starts to play.
LEMMA CareUnmoved ==
    ASSUME IInv, CareInv, NEW p \in Phones, NEW r \in Phone, NEW kinds \in Seq(StackEvents),
           Phoned(p, r, kinds), UNCHANGED bud,
           \/ ~Streams(p)
           \/ r.music \in {"sound", "silence"} /\ ~Tells(kinds, "AVRCP_PLAY")
    PROVE  CareInv'
<1>1. Steady(bud, bud') /\ bud'.slots = bud.slots /\ bud'.media = bud.media
  BY DEF Steady
<1>2. p \in bud.media => Streams(p)
  BY DEF CareInv
<1>3. QED
  BY <1>1, <1>2, CareWorld

\* The media of p is closed.
LEMMA CareClosed ==
    ASSUME IInv, CareInv, NEW p \in Phones, NEW r \in Phone, NEW kinds \in Seq(StackEvents),
           Phoned(p, r, kinds), Steady(bud, bud'), bud'.slots = bud.slots,
           bud'.media = bud.media \ {p}
    PROVE  CareInv'
BY CareWorld

LEMMA SteadyFields ==
    ASSUME NEW x \in Bud, NEW p \in Phones
    PROVE  LET y == [x EXCEPT !.ask[p] = "none"]
           IN  /\ Steady(x, y) /\ y.slots = x.slots /\ y.media = x.media /\ y \in Bud
               /\ Steady(x, Stopped(x, p)) /\ Stopped(x, p).slots = x.slots
               /\ Stopped(x, p).media = x.media \ {p}
<1> DEFINE f == [x.ask EXCEPT ![p] = "none"]
           y == [x EXCEPT !.ask = f]
           z == Stopped(x, p)
<1>1. f \in [Phones -> {"none", "play", "pause"}]
  BY DEF Bud
<1>2. [x EXCEPT !.ask[p] = "none"] = y
  BY DEF Bud
<1> HIDE DEF f
<1>3. /\ y \in Bud /\ y.player = x.player /\ y.slots = x.slots /\ y.muted = x.muted
      /\ y.media = x.media /\ y.slips = x.slips
  BY <1>1 DEF Bud
<1>4. /\ z.player = x.player /\ z.slots = x.slots /\ z.muted = x.muted
      /\ z.media = x.media \ {p} /\ z.slips = x.slips
  BY DEF Stopped, Bud
<1> HIDE DEF y, z
<1>5. QED
  BY <1>2, <1>3, <1>4 DEF Steady, Robbed, z

LEMMA CareMusic ==
    ASSUME IInv, CareInv, NEW p \in Phones,
           StartMusic(p) \/ Silence(p) \/ StopMusic(p) \/ Notice(p)
    PROVE  CareInv'
<1>1. phone[p] \in Phone /\ bud \in Bud
  BY PhoneFacts
<1>2. \A m \in {"off", "sound", "silence"} : [phone[p] EXCEPT !.music = m] \in Phone
                                             /\ [phone[p] EXCEPT !.music = m].music = m
  BY <1>1 DEF Phone
<1>3. <<>> \in Seq(StackEvents) /\ <<"AVRCP_PLAY">> \in Seq(StackEvents) /\ ~Tells(<<>>, "AVRCP_PLAY")
  BY TellsFew DEF StackEvents
<1>4. CASE StartMusic(p)
  <2>1. PICK k \in {<<>>, <<"AVRCP_PLAY">>} : Phoned(p, [phone[p] EXCEPT !.music = "sound"], k)
    BY <1>4 DEF StartMusic
  <2>2. k \in Seq(StackEvents) /\ UNCHANGED bud /\ ~Streams(p)
    BY <1>3, <1>4 DEF StartMusic, Streams
  <2>3. QED
    BY <1>2, <2>1, <2>2, CareUnmoved
<1>5. CASE Silence(p)
  <2>1. PICK m \in {"sound", "silence"} : Phoned(p, [phone[p] EXCEPT !.music = m], <<>>)
    BY <1>5 DEF Silence
  <2>2. UNCHANGED bud
    BY <1>5 DEF Silence
  <2>3. QED
    BY <1>2, <1>3, <2>1, <2>2, CareUnmoved
<1>6. CASE StopMusic(p)
  <2>1. Phoned(p, [phone[p] EXCEPT !.music = "off"], Stops(p)) /\ bud' = Stopped(bud, p)
    BY <1>6 DEF StopMusic
  <2>2. QED
    BY <1>1, <1>2, <2>1, StopsTells, SteadyFields, CareClosed
<1>7. CASE Notice(p)
  <2> DEFINE k == <<"MEDIA_START">>
             y == [bud EXCEPT !.media = @ \cup {p}]
  <2>1. Phoned(p, phone[p], k) /\ bud' = y /\ phone[p].music \in {"sound", "silence"}
    BY <1>7 DEF Notice, Streams
  <2>2. k \in Seq(StackEvents) /\ Tells(k, "MEDIA_START") /\ ~Tells(k, "AVRCP_PLAY")
    BY TellsFew DEF StackEvents
  <2>3. /\ y.player = bud.player /\ y.slots = bud.slots /\ y.muted = bud.muted
        /\ y.media = bud.media \cup {p} /\ y.slips = bud.slips
    BY <1>1 DEF Bud
  <2> HIDE DEF k, y
  <2>4. Steady(bud, bud') /\ bud'.slots = bud.slots /\ bud'.media = bud.media \cup {p}
    BY <2>1, <2>3 DEF Steady, Robbed
  <2>5. QED
    BY <1>1, <2>1, <2>2, <2>4, CareWorld
<1>8. QED
  BY <1>4, <1>5, <1>6, <1>7

LEMMA CareObey == ASSUME IInv, CareInv, NEW p \in Phones, Obey(p) PROVE CareInv'
<1> DEFINE y == [bud EXCEPT !.ask[p] = "none"]
           r == phone[p]
<1>1. r \in Phone /\ bud \in Bud
  BY PhoneFacts
<1>2. \A m \in {"off", "sound"} : [r EXCEPT !.music = m] \in Phone /\ [r EXCEPT !.music = m].music = m
  BY <1>1 DEF Phone
<1>3. <<>> \in Seq(StackEvents) /\ \A a : ~Tells(<<>>, a)
  BY TellsFew
<1>4. /\ y \in Bud /\ Steady(bud, y) /\ y.slots = bud.slots /\ y.media = bud.media
  BY <1>1, SteadyFields
<1> HIDE DEF y
<1>5. /\ Steady(bud, Stopped(y, p)) /\ Stopped(y, p).slots = bud.slots
      /\ Stopped(y, p).media = bud.media \ {p}
  <2> DEFINE z == Stopped(y, p)
  <2>1. Steady(y, z) /\ z.slots = y.slots /\ z.media = y.media \ {p}
    BY <1>4, SteadyFields
  <2> HIDE DEF z
  <2>2. Steady(bud, z)
    BY <1>4, <2>1 DEF Steady
  <2>3. QED
    BY <1>4, <2>1, <2>2 DEF z
<1>6. p \in bud.media => r.music \in {"sound", "silence"}
  BY DEF CareInv, Streams
<1>7. CASE Phoned(p, [r EXCEPT !.music = "off"], Stops(p)) /\ bud' = Stopped(y, p)
  BY <1>2, <1>5, <1>7, StopsTells, CareClosed
<1>8. CASE Phoned(p, [r EXCEPT !.music = "sound"], <<>>) /\ bud' = y
  BY <1>2, <1>3, <1>4, <1>8, CareWorld
<1>9. CASE Phoned(p, r, <<>>) /\ bud' = y
  BY <1>1, <1>3, <1>4, <1>6, <1>9, CareWorld
<1>10. QED
  BY <1>7, <1>8, <1>9 DEF Obey, y

LEMMA CareCalls ==
    ASSUME IInv, CareInv, NEW p \in Phones,
           \/ \E k \in {"in", "out"} : StartCall(p, k)
           \/ Answer(p) \/ HangUp(p) \/ Back(p) \/ ScoUp(p)
    PROVE  CareInv'
<1>1. phone[p] \in Phone /\ bud \in Bud
  BY PhoneFacts
<1>2. ASSUME NEW r \in Phone, NEW kinds \in Seq(StackEvents), r.music = phone[p].music,
             ~Tells(kinds, "AVRCP_PLAY"), Phoned(p, r, kinds), UNCHANGED bud
      PROVE  CareInv'
  BY <1>2, CareUnmoved DEF Streams
<1>3. /\ <<>> \in Seq(StackEvents) /\ \A a : ~Tells(<<>>, a)
      /\ \A e \in {"PHONE_HANGUP", "CONNECTED", "SCO_ON"} :
             <<e>> \in Seq(StackEvents) /\ ~Tells(<<e>>, "AVRCP_PLAY")
  BY TellsFew DEF StackEvents
<1>4. CASE \E k \in {"in", "out"} : StartCall(p, k)
  <2>1. PICK k \in {"in", "out"} : StartCall(p, k)
    BY <1>4
  <2> DEFINE r == [phone[p] EXCEPT !.call = k, !.sco = "may"]
  <2>2. Phoned(p, r, <<>>) /\ UNCHANGED bud
    BY <2>1 DEF StartCall
  <2>3. r \in Phone /\ r.music = phone[p].music
    BY <1>1 DEF Phone
  <2> HIDE DEF r
  <2>4. QED
    BY <1>2, <1>3, <2>2, <2>3
<1>5. CASE Answer(p)
  <2> DEFINE r == [phone[p] EXCEPT !.call = "active"]
  <2>1. Phoned(p, r, <<>>) /\ UNCHANGED bud
    BY <1>5 DEF Answer
  <2>2. r \in Phone /\ r.music = phone[p].music
    BY <1>1 DEF Phone
  <2> HIDE DEF r
  <2>3. QED
    BY <1>2, <1>3, <2>1, <2>2
<1>6. CASE HangUp(p)
  <2> DEFINE o == IF phone[p].sco = "may" THEN "no" ELSE phone[p].sco
             r == [phone[p] EXCEPT !.call = "no", !.sco = o]
  <2>1. Phoned(p, r, <<"PHONE_HANGUP">>) /\ UNCHANGED bud
    <3>1. r = [phone[p] EXCEPT !.call = "no", !.sco = IF @ = "may" THEN "no" ELSE @]
      BY <1>1 DEF Phone
    <3>2. QED
      BY <1>6, <3>1 DEF HangUp
  <2>2. r \in Phone /\ r.music = phone[p].music
    BY <1>1 DEF Phone
  <2> HIDE DEF r
  <2>3. QED
    BY <1>2, <1>3, <2>1, <2>2
<1>7. CASE Back(p)
  <2> DEFINE r == [phone[p] EXCEPT !.on = TRUE]
  <2>1. Phoned(p, r, <<"CONNECTED">>) /\ UNCHANGED bud
    BY <1>7 DEF Back
  <2>2. r \in Phone /\ r.music = phone[p].music
    BY <1>1 DEF Phone
  <2> HIDE DEF r
  <2>3. QED
    BY <1>2, <1>3, <2>1, <2>2
<1>8. CASE ScoUp(p)
  <2> DEFINE r == [phone[p] EXCEPT !.sco = "up"]
  <2>1. Phoned(p, r, <<"SCO_ON">>) /\ UNCHANGED bud
    BY <1>8 DEF ScoUp
  <2>2. r \in Phone /\ r.music = phone[p].music
    BY <1>1 DEF Phone
  <2> HIDE DEF r
  <2>3. QED
    BY <1>2, <1>3, <2>1, <2>2
<1>9. QED
  BY <1>4, <1>5, <1>6, <1>7, <1>8

LEMMA CareOpenSco == ASSUME IInv, CareInv, NEW p \in Phones, OpenSco(p) PROVE CareInv'
<1> DEFINE m == IF phone[p].music = "off" THEN "off" ELSE "held"
           r == [phone[p] EXCEPT !.sco = "asked", !.music = m]
           k == Stops(p) \o <<"SCO_REQ">>
<1>1. phone[p] \in Phone /\ bud \in Bud
  BY PhoneFacts
<1>2. Phoned(p, r, k) /\ bud' = Stopped(bud, p)
  <2>1. r = [phone[p] EXCEPT !.sco = "asked", !.music = IF @ = "off" THEN @ ELSE "held"]
    BY <1>1 DEF Phone
  <2>2. QED
    BY <2>1 DEF OpenSco
<1>3. r \in Phone
  BY <1>1 DEF Phone
<1> HIDE DEF r
<1>4. "SCO_REQ" \in StackEvents
  BY DEF StackEvents
<1>5. k \in Seq(StackEvents)
  BY <1>4, StopsTells, TellsFew, TellsMore
<1> HIDE DEF k
<1>6. QED
  BY <1>1, <1>2, <1>3, <1>5, SteadyFields, CareClosed

LEMMA SteadyOutlived ==
    ASSUME NEW x \in Bud, NEW p \in Phones
    PROVE  LET y == Outlived(x, p)
           IN  /\ y \in Bud /\ y.player = x.player /\ y.slots = x.slots /\ y.muted = x.muted
               /\ y.media = x.media /\ (Robbed(x) => Robbed(y))
<1> DEFINE y == [x EXCEPT !.slips = @ \cup {"late"}]
<1>1. /\ y \in Bud /\ y.player = x.player /\ y.slots = x.slots /\ y.muted = x.muted
      /\ y.media = x.media /\ x.slips \subseteq y.slips
  BY DEF Bud
<1>2. Outlived(x, p) \in {x, y}
  BY DEF Outlived, Slip
<1> HIDE DEF y
<1>3. QED
  BY <1>1, <1>2 DEF Robbed

LEMMA CareScoDown == ASSUME IInv, CareInv, NEW p \in Phones, ScoDown(p) PROVE CareInv'
<1> DEFINE m == IF phone[p].music = "held" THEN "sound" ELSE phone[p].music
           r == [phone[p] EXCEPT !.sco = "no", !.music = m]
           k == IF phone[p].sco = "up" THEN <<"SCO_OFF", "SCO_DISCON">> ELSE <<"SCO_DISCON">>
           y == Outlived(bud, p)
           z == [y EXCEPT !.refused = @ \ {p}]
<1>1. phone[p] \in Phone /\ bud \in Bud
  BY PhoneFacts
<1>2. Phoned(p, r, k) /\ bud' = z
  <2>1. r = [phone[p] EXCEPT !.sco = "no", !.music = IF @ = "held" THEN "sound" ELSE @]
    BY <1>1 DEF Phone
  <2>2. QED
    BY <2>1 DEF ScoDown
<1>3. r \in Phone /\ r.music = m
  BY <1>1 DEF Phone
<1> HIDE DEF r
<1>4. /\ y \in Bud /\ y.player = bud.player /\ y.slots = bud.slots /\ y.muted = bud.muted
      /\ y.media = bud.media /\ (Robbed(bud) => Robbed(y))
  BY <1>1, SteadyOutlived
<1> HIDE DEF y
<1>5. /\ z.player = y.player /\ z.slots = y.slots /\ z.muted = y.muted
      /\ z.media = y.media /\ z.slips = y.slips
  BY <1>4 DEF Bud
<1> HIDE DEF z
<1>6. k \in Seq(StackEvents) /\ ~Tells(k, "AVRCP_PLAY")
  <2>1. "SCO_OFF" \in StackEvents /\ "SCO_DISCON" \in StackEvents
    BY DEF StackEvents
  <2>2. QED
    BY <2>1, TellsFew
<1> HIDE DEF k
<1>7. Steady(bud, bud') /\ bud'.slots = bud.slots /\ bud'.media = bud.media
  BY <1>2, <1>4, <1>5 DEF Steady, Robbed
<1>8. p \in bud.media => r.music \in {"sound", "silence"}
  BY <1>3 DEF CareInv, Streams
<1>9. QED
  BY <1>2, <1>3, <1>6, <1>7, <1>8, CareWorld

LEMMA CareLost == ASSUME IInv, CareInv, NEW p \in Phones, Lost(p) PROVE CareInv'
<1> DEFINE r == [on |-> FALSE, music |-> "off", call |-> "no", sco |-> "no"]
           a == IF phone[p].sco = "up" THEN <<"SCO_OFF", "SCO_DISCON">> ELSE <<>>
           b == IF InCall(p) THEN <<"PHONE_HANGUP">> ELSE <<>>
           c == IF p \in bud.media THEN <<"MEDIA_STOP">> ELSE <<>>
           d == <<"DISCONNECT">>
           k == a \o b \o c \o d
           y == Outlived(bud, p)
           z == [y EXCEPT !.media = @ \ {p}, !.muted = @ \ {p}, !.open = @ \ {p},
                          !.refused = @ \ {p}, !.ask[p] = "none"]
<1>1. Phoned(p, r, k) /\ bud' = z /\ bud \in Bud
  BY PhoneFacts DEF Lost
<1>2. r \in Phone
  BY DEF Phone
<1> HIDE DEF r
<1>3. /\ y \in Bud /\ y.player = bud.player /\ y.slots = bud.slots /\ y.muted = bud.muted
      /\ y.media = bud.media /\ (Robbed(bud) => Robbed(y))
  BY <1>1, SteadyOutlived
<1> HIDE DEF y
<1>4. /\ z.player = y.player /\ z.slots = y.slots /\ z.muted = y.muted \ {p}
      /\ z.media = y.media \ {p} /\ z.slips = y.slips
  BY <1>3 DEF Bud
<1> HIDE DEF z
<1>5. {"SCO_OFF", "SCO_DISCON", "PHONE_HANGUP", "MEDIA_STOP", "DISCONNECT"} \subseteq StackEvents
  BY DEF StackEvents
<1>6. /\ a \in Seq(StackEvents) /\ b \in Seq(StackEvents)
      /\ c \in Seq(StackEvents) /\ d \in Seq(StackEvents)
  BY <1>5, TellsFew
<1> HIDE DEF a, b, c, d
<1>7. a \o b \in Seq(StackEvents)
  BY <1>6, TellsMore
<1>8. a \o b \o c \in Seq(StackEvents)
  BY <1>6, <1>7, TellsMore
<1>9. k \in Seq(StackEvents)
  BY <1>6, <1>8, TellsMore
<1> HIDE DEF k
<1>10. Steady(bud, bud') /\ bud'.slots = bud.slots /\ bud'.media = bud.media \ {p}
  BY <1>1, <1>3, <1>4 DEF Steady, Robbed
<1>11. QED
  BY <1>1, <1>2, <1>9, <1>10, CareClosed

LEMMA CareOutside == ASSUME CareInv, Outside PROVE CareInv'
BY DEF Outside, CareInv, Streams

LEMMA CareWorlds == ASSUME IInv, CareInv, World PROVE CareInv'
BY CareMusic, CareObey, CareCalls, CareOpenSco, CareScoDown, CareLost, CareOutside DEF World

\* Whoever takes a phone's player or detector away has closed its media, so that the stack
\* reports its music again, or has asked for another.
THEOREM TakesCare == Spec => []CareInv
<1>1. Init => CareInv
  <2>1. SUFFICES ASSUME Init PROVE CareInv
    OBVIOUS
  <2>2. bud.media = {} /\ bud.slots = [i \in {1, 2} |-> NoSlot]
    BY <2>1 DEF Init
  <2>3. \A i \in {1, 2} : bud.slots[i].of = NoPhone
    BY <2>2 DEF NoSlot
  <2>4. QED
    BY <2>2, <2>3, NoPhoneIsNone DEF CareInv, Shut
<1>2. IInv /\ CareInv /\ [Next]_vars => CareInv'
  <2>1. ASSUME CareInv, UNCHANGED vars PROVE CareInv'
    BY <2>1 DEF vars, CareInv, Streams
  <2>2. QED
    BY <2>1, CareAppCore, CareDataInIrq, CareTimers, CareWorlds DEF Next
<1>3. QED
  BY <1>1, <1>2, Inductive, PTL DEF Spec

LEMMA SettledCare ==
    ASSUME IInv, CareInv, Settled, Never("robbed"), NEW p \in Phones, Streams(p)
    PROVE  Safe(bud, p) /\ ~Shut(bud, p)
<1>1. p \in bud.media /\ queue = <<>> /\ air = <<>>
  BY DEF Settled
<1>2. \A a, r : ~Holds(queue, a, r) /\ ~Holds(air, a, r)
  BY <1>1 DEF Holds
<1>3. QED
  BY <1>1, <1>2 DEF CareInv, Never, Robbed, Asked

\* The music of no phone is lost: where the code stops a detector or closes the player it
\* starts another, sends a command that does, or closes the media, after which the stack
\* reports the phone again.
THEOREM AlwaysAttended == Spec => []Attended
<1>1. IInv /\ CareInv => Attended
  BY SettledCare DEF Attended, Safe
<1>2. QED
  BY <1>1, Inductive, TakesCare, PTL

\* A settled bud plays while a phone that is not muted sends sound: a detector that has
\* closed its file has found music and A2DP_START or PLAY was on its way, and one whose
\* file is open would still find it.
THEOREM AlwaysHeard == Spec => []Heard
<1>1. IInv /\ CareInv => Heard
  <2>1. SUFFICES ASSUME IInv, CareInv, Settled, Never("robbed"), NEW p \in Phones, Audible(p)
                 PROVE  bud.player = p /\ Streams(p)
    BY DEF Heard
  <2>2. Streams(p)
    BY <2>1 DEF Audible, Streams
  <2>3. Safe(bud, p) /\ ~Shut(bud, p)
    BY <2>1, <2>2, SettledCare
  <2>4. ~Detects(bud, p)
    BY <2>1, <2>3 DEF Detects, Shut, Settled
  <2>5. QED
    BY <2>2, <2>3, <2>4 DEF Safe
<1>2. QED
  BY <1>1, Inductive, TakesCare, PTL
=============================================================================
