---------------------------- MODULE TwsRingProof ----------------------------
(***************************************************************************)
(* Proofs about TwsRing, for one or two buds and any number of events: the *)
(* types, that no bud keeps out of its low power after the calls, that     *)
(* both buds play the call audio that is up, that the ring ends with the   *)
(* calls, and that the last call rings, however far the commands to both   *)
(* buds lag behind.                                                        *)
(***************************************************************************)
EXTENDS TwsRing, SequenceTheorems, FiniteSetTheorems, TLAPS

(***************************************************************************)
(* Types.  A message that may open call audio has a phone; the stop of a   *)
(* ring names what rings in the background, which may be none.             *)
(***************************************************************************)
Nameless == {"PLAY", "CONNECTED", "OUTBAND_RING", "OUTBAND_RING_STOP"}
Command == {m \in [kind : Commands, of : Some] : m.kind \notin Nameless => m.of \in Phones}
Message == {m \in [kind : Reports \cup Commands, of : Some] :
                m.kind \notin Nameless => m.of \in Phones}
Rec == [ring : BOOLEAN, flag : BOOLEAN, sync : BOOLEAN, addr : Some, coexist : Some,
        timer : BOOLEAN, second : Nat, user : Nat, esco : Some, open : SUBSET Phones,
        out : Seq(Command)]

Typed ==
    /\ bud \in [Buds -> Rec] /\ \A b \in Buds : bud[b].out = <<>>
    /\ queue \in [Buds -> Seq(Message)]
    /\ air \in Seq(Command)
    /\ call \in [Phones -> {"no", "in", "out", "active"}]
    /\ sco \in Some /\ inband \subseteq Phones
    /\ link \in BOOLEAN /\ master \in Buds /\ events \in 0..MaxEvents
    /\ late \subseteq {"ring", "audio"}

(***************************************************************************)
(* The flag.  Once no phone calls in, whatever sets it is followed by the  *)
(* end of a call: as a report to the master, or as the command that it has *)
(* sent to both buds.                                                      *)
(***************************************************************************)
Quiet == \A p \in Phones : call[p] # "in"

Flagging == {"INCOME", "INCOME_AGAIN"}
Ending == {"ACTIVE", "HANGUP"}
Reported == {"PHONE_ACTIVE", "PHONE_HANGUP"}

HasEnd(q) == \E j \in DOMAIN q : q[j].kind \in Ending
HasReport(q) == \E j \in DOMAIN q : q[j].kind \in Reported
Calm(q) == \A i \in DOMAIN q : q[i].kind \notin Flagging
Ended(q) ==
    \A i \in DOMAIN q : q[i].kind \in Flagging => \E j \in DOMAIN q : j > i /\ q[j].kind \in Ending
ReportEnded(q) ==
    \A i \in DOMAIN q : q[i].kind = "PHONE_INCOME"
        => \E j \in DOMAIN q : j > i /\ q[j].kind \in Reported

\* The commands that b still has to handle clear its flag.
Clears(b) == Ended(queue[b]) /\ (bud[b].flag => HasEnd(queue[b]))
EndComes ==
    \/ HasReport(queue[master])
    \/ /\ Ended(air) /\ (HasEnd(air) \/ Clears(master))
       /\ \A b \in Buds \ {master} : Clears(b)

\* Without a link no command is on its way, and the other bud is idle.
Apart ==
    ~link =>
        /\ air = <<>>
        /\ \A i \in DOMAIN queue[master] : queue[master][i].kind \notin Commands
        /\ \A b \in Buds \ {master} :
               /\ queue[b] = <<>> /\ ~bud[b].flag /\ ~bud[b].timer
               /\ bud[b].second = 0 /\ bud[b].user = 0

FlagInv == Quiet => ReportEnded(queue[master]) /\ EndComes

IInv == Typed /\ Apart /\ FlagInv

(***************************************************************************)
(* Phones and messages.                                                    *)
(***************************************************************************)

LEMMA TheOther ==
    ASSUME NEW p \in Phones
    PROVE  Other(p) \in Phones /\ Other(p) # p
<1>1. IsFiniteSet(Phones) /\ Cardinality(Phones) = 2
  BY RingAssumption
<1>2. IsFiniteSet(Phones \ {p}) /\ Cardinality(Phones \ {p}) = 1
  BY <1>1, FS_RemoveElement
<1>3. PICK q : Phones \ {p} = {q}
  BY <1>2, FS_Singleton
<1>4. q \in Phones /\ q # p
  BY <1>3
<1>5. QED
  BY <1>4 DEF Other

LEMMA Msgs ==
    ASSUME NEW cmd \in Commands, NEW p \in Some, cmd \notin Nameless => p \in Phones
    PROVE  Msg(cmd, p) \in Command /\ Msg(cmd, p).kind = cmd /\ Msg(cmd, p).of = p
BY DEF Command, Msg

LEMMA NobodyCalls ==
    ASSUME Quiet, NEW b \in Buds
    PROVE  /\ \A p \in Phones : Status(b, p) # "in"
           /\ Incoming(b) = {}
BY DEF Quiet, Status, Incoming

(***************************************************************************)
(* What the operators of the program do.  An operator that is still sets   *)
(* no flag and sends nothing that would set one once no phone calls in;    *)
(* without a link none sends anything.                                     *)
(***************************************************************************)
Still(x, y) ==
    /\ y \in Rec
    /\ ~link => y.out = x.out
    /\ Quiet /\ Calm(x.out) => Calm(y.out)
    /\ y.flag => x.flag

LEMMA StillTrans ==
    ASSUME NEW x, NEW y, NEW z, Still(x, y), Still(y, z) PROVE Still(x, z)
BY DEF Still

LEMMA StillSelf == ASSUME NEW x \in Rec PROVE Still(x, x)
BY DEF Still

LEMMA Outs ==
    ASSUME NEW x \in Rec, NEW cmd \in Commands, NEW p \in Some,
           cmd \notin Nameless => p \in Phones
    PROVE  /\ Post(x, cmd, p) \in Rec
           /\ Post(x, cmd, p) = [x EXCEPT !.out = Append(@, Msg(cmd, p))]
           /\ Post(x, cmd, p).flag = x.flag
           /\ Calm(x.out) /\ cmd \notin Flagging => Calm(Post(x, cmd, p).out)
           /\ cmd \in Ending => HasEnd(Post(x, cmd, p).out) /\ Ended(Post(x, cmd, p).out)
<1> DEFINE m == Msg(cmd, p)
           y == Post(x, cmd, p)
<1>1. m \in Command /\ m.kind = cmd
  BY Msgs
<1>2. x.out \in Seq(Command)
  BY DEF Rec
<1>3. y = [x EXCEPT !.out = Append(x.out, m)]
  BY DEF Post
<1> HIDE DEF m
<1>4. Append(x.out, m) \in Seq(Command)
  BY <1>1, <1>2
<1>5. y \in Rec /\ y.out = Append(x.out, m) /\ y.flag = x.flag
  BY <1>3, <1>4 DEF Rec
<1>6. /\ Len(Append(x.out, m)) = Len(x.out) + 1 /\ Append(x.out, m)[Len(x.out) + 1] = m
      /\ \A i \in 1..Len(x.out) : Append(x.out, m)[i] = x.out[i]
  BY <1>1, <1>2
<1>7. DOMAIN x.out = 1..Len(x.out) /\ Len(x.out) \in Nat
      /\ DOMAIN Append(x.out, m) = 1..(Len(x.out) + 1)
  BY <1>1, <1>2, <1>4, <1>6
<1>8. Calm(x.out) /\ cmd \notin Flagging => Calm(Append(x.out, m))
  BY <1>1, <1>6, <1>7 DEF Calm
<1>9. cmd \in Ending => HasEnd(Append(x.out, m)) /\ Ended(Append(x.out, m))
  <2>1. SUFFICES ASSUME cmd \in Ending PROVE HasEnd(Append(x.out, m)) /\ Ended(Append(x.out, m))
    OBVIOUS
  <2>2. Append(x.out, m)[Len(x.out) + 1].kind \in Ending /\ cmd \notin Flagging
    BY <1>1, <1>6, <2>1 DEF Ending, Flagging
  <2>3. HasEnd(Append(x.out, m))
    BY <1>7, <2>2 DEF HasEnd
  <2>4. \A i \in DOMAIN Append(x.out, m) :
            Append(x.out, m)[i].kind \in Flagging => Len(x.out) + 1 > i
    BY <1>1, <1>6, <1>7, <2>2
  <2>5. Ended(Append(x.out, m))
    BY <1>7, <2>2, <2>4 DEF Ended
  <2>6. QED
    BY <2>3, <2>5
<1>10. QED
  BY <1>3, <1>5, <1>8, <1>9 DEF m

LEMMA StillStop == ASSUME NEW x \in Rec PROVE Still(x, tone_ring_player_stop(x))
BY DEF Still, Rec, tone_ring_player_stop

LEMMA StillPlayRing ==
    ASSUME NEW x \in Rec, NEW p \in Some PROVE Still(x, PlayRing(x, p))
<1> DEFINE y == [x EXCEPT !.coexist = p]
<1>1. y \in Rec /\ Still(x, y)
  BY DEF Rec, Still
<1>2. CASE link
  <2>1. PlayRing(x, p) = Post(y, "PLAY", NoPhone)
    BY <1>2 DEF PlayRing
  <2> HIDE DEF y
  <2>2. "PLAY" \in Commands /\ "PLAY" \in Nameless /\ "PLAY" \notin Flagging /\ NoPhone \in Some
    BY DEF Commands, Nameless, Flagging, Some
  <2>3. Still(y, Post(y, "PLAY", NoPhone))
    BY <1>1, <1>2, <2>2, Outs DEF Still
  <2>4. QED
    BY <1>1, <2>1, <2>3, StillTrans
<1>3. CASE ~link
  BY <1>3 DEF PlayRing, Still, Rec
<1>4. QED
  BY <1>2, <1>3

LEMMA StillSecond ==
    ASSUME NEW b \in Buds, NEW x \in Rec
    PROVE  /\ Still(x, phone_ring_play_start(b, x))
           /\ Still(x, phone_second_call_ring_play_start(b, x))
           /\ Still(x, user_phone_second_call_ring_play_start(b, x))
<1>1. x.addr \in Some
  BY DEF Rec
<1>2. Still(x, x) /\ Still(x, PlayRing(x, x.addr))
  BY <1>1, StillPlayRing, StillSelf
<1>3. QED
  BY <1>2 DEF phone_ring_play_start, phone_second_call_ring_play_start,
              user_phone_second_call_ring_play_start

LEMMA Timed ==
    ASSUME NEW x \in Rec
    PROVE  /\ [x EXCEPT !.second = @ + 1] \in Rec /\ [x EXCEPT !.second = @ + 1].out = x.out
           /\ [x EXCEPT !.user = @ + 1] \in Rec /\ [x EXCEPT !.user = @ + 1].out = x.out
           /\ Still(x, [x EXCEPT !.timer = FALSE])
           /\ x.second > 0 => Still(x, [x EXCEPT !.second = @ - 1])
           /\ x.user > 0 => Still(x, [x EXCEPT !.user = @ - 1])
<1>1. x.second \in Nat /\ x.user \in Nat
  BY DEF Rec
<1>2. x.second + 1 \in Nat /\ x.user + 1 \in Nat
  BY <1>1
<1>3. (x.second > 0 => x.second - 1 \in Nat) /\ (x.user > 0 => x.user - 1 \in Nat)
  BY <1>1
<1>4. [x EXCEPT !.second = x.second + 1] \in Rec /\ [x EXCEPT !.user = x.user + 1] \in Rec
  BY <1>2 DEF Rec
<1>5. Still(x, [x EXCEPT !.timer = FALSE])
  BY DEF Still, Rec
<1>6. x.second > 0 => Still(x, [x EXCEPT !.second = x.second - 1])
  BY <1>3 DEF Still, Rec
<1>7. x.user > 0 => Still(x, [x EXCEPT !.user = x.user - 1])
  BY <1>3 DEF Still, Rec
<1>8. QED
  BY <1>4, <1>5, <1>6, <1>7

\* Being told of a call sets the flag, whatever has become of it.
Told(x, y) ==
    /\ y \in Rec
    /\ ~link => y.out = x.out
    /\ Quiet /\ Calm(x.out) => Calm(y.out)

LEMMA ToldIncome ==
    ASSUME NEW b \in Buds, NEW x \in Rec, NEW p \in Phones, NEW again \in BOOLEAN
    PROVE  Told(x, bt_phone_income(b, x, p, again))
<1> DEFINE u == tone_ring_player_stop(x)
           y == [u EXCEPT !.sync = TRUE, !.addr = p]
           z == [y EXCEPT !.flag = TRUE]
<1>1. u \in Rec /\ u.out = x.out
  BY DEF Rec, tone_ring_player_stop
<1>2. y \in Rec /\ y.out = x.out /\ z \in Rec /\ z.out = x.out
  BY <1>1 DEF Rec, Some
<1>3. [z EXCEPT !.second = @ + 1] \in Rec /\ [z EXCEPT !.second = @ + 1].out = x.out
      /\ [z EXCEPT !.user = @ + 1] \in Rec /\ [z EXCEPT !.user = @ + 1].out = x.out
  BY <1>2, Timed
<1>4. bt_phone_income(b, x, p, again) \in {y, z, [z EXCEPT !.second = @ + 1],
                                           [z EXCEPT !.user = @ + 1], phone_ring_play_start(b, z)}
  BY DEF bt_phone_income
<1> HIDE DEF y, z
<1>5. Still(z, phone_ring_play_start(b, z))
  BY <1>2, StillSecond
<1>6. QED
  BY <1>2, <1>3, <1>4, <1>5 DEF Told, Still

LEMMA RingOverClears ==
    ASSUME NEW x \in Rec
    PROVE  RingOver(x) \in Rec /\ RingOver(x).out = x.out /\ ~RingOver(x).flag
BY DEF RingOver, Rec, tone_ring_player_stop

LEMMA HangupClears ==
    ASSUME NEW b \in Buds, NEW x \in Rec, NEW p \in Phones
    PROVE  /\ Told(x, bt_phone_hangup(b, x, p))
           /\ Quiet => bt_phone_hangup(b, x, p) = RingOver(x)
<1> DEFINE q == Other(p)
           u == RingOver(x)
           y == [u EXCEPT !.addr = q, !.sync = TRUE]
<1>1. q \in Phones
  BY TheOther
<1>2. u \in Rec /\ u.out = x.out
  BY RingOverClears
<1>3. y \in Rec /\ y.out = x.out
  BY <1>1, <1>2 DEF Rec, Some
<1>4. Quiet => bt_phone_hangup(b, x, p) = u
  BY <1>1, NobodyCalls DEF bt_phone_hangup
<1>5. CASE Quiet
  BY <1>2, <1>4, <1>5 DEF Told
<1>6. CASE ~Quiet
  <2>1. \/ bt_phone_hangup(b, x, p) \in {u, y}
        \/ link /\ bt_phone_hangup(b, x, p) = Post(y, "INCOME_AGAIN", q)
        \/ bt_phone_hangup(b, x, p) = bt_phone_income(b, y, q, TRUE)
    BY DEF bt_phone_hangup
  <2> HIDE DEF y, q, u
  <2>2. "INCOME_AGAIN" \in Commands /\ q \in Some
    BY <1>1 DEF Commands, Some
  <2>3. Post(y, "INCOME_AGAIN", q) \in Rec
    BY <1>1, <1>3, <2>2, Outs
  <2>4. Told(y, bt_phone_income(b, y, q, TRUE))
    BY <1>1, <1>3, ToldIncome
  <2>5. QED
    BY <1>2, <1>3, <1>6, <2>1, <2>3, <2>4 DEF Told
<1>7. QED
  BY <1>4, <1>5, <1>6

LEMMA StillEsco ==
    ASSUME NEW x \in Rec, NEW p \in Phones
    PROVE  Still(x, bt_phone_esco_play(x, p)) /\ Still(x, bt_phone_esco_stop(x, p))
<1>1. p \in Some /\ NoPhone \in Some
  BY DEF Some
<1>2. QED
  BY <1>1 DEF Still, Rec, bt_phone_esco_play, bt_phone_esco_stop, tone_ring_player_stop

LEMMA StillOutband ==
    ASSUME NEW b \in Buds, NEW x \in Rec, NEW p \in Some
    PROVE  /\ Still(x, bt_phone_outband_ring(b, x, p))
           /\ Still(x, bt_phone_outband_ring_stop(x, p))
<1> DEFINE y == [x EXCEPT !.coexist = p]
<1>1. y \in Rec /\ Still(x, y)
  BY DEF Rec, Still
<1>2. bt_phone_outband_ring(b, x, p) \in {y, PlayRing(y, p)}
  BY DEF bt_phone_outband_ring
<1> HIDE DEF y
<1>3. Still(y, PlayRing(y, p))
  BY <1>1, StillPlayRing
<1>4. Still(x, bt_phone_outband_ring(b, x, p))
  BY <1>1, <1>2, <1>3, StillTrans
<1>5. Still(x, bt_phone_outband_ring_stop(x, p))
  BY StillStop, StillSelf DEF bt_phone_outband_ring_stop
<1>6. QED
  BY <1>4, <1>5

(***************************************************************************)
(* The commands.                                                           *)
(***************************************************************************)

Named(cmd, p) == p \in Some /\ (cmd \notin Nameless => p \in Phones)

LEMMA RunDoes ==
    ASSUME NEW b \in Buds, NEW x \in Rec, NEW cmd \in Commands, NEW p, Named(cmd, p)
    PROVE  /\ Told(x, Run(b, x, cmd, p))
           /\ cmd \notin Flagging /\ (Quiet \/ cmd \notin Ending) => Still(x, Run(b, x, cmd, p))
           /\ Quiet /\ cmd \in Ending => ~Run(b, x, cmd, p).flag
<1>1. CASE cmd \in {"INCOME", "INCOME_AGAIN"}
  <2>1. p \in Phones
    BY <1>1 DEF Named, Nameless
  <2>2. Run(b, x, cmd, p) \in {bt_phone_income(b, x, p, FALSE), bt_phone_income(b, x, p, TRUE)}
    BY <1>1 DEF Run
  <2>3. QED
    BY <1>1, <2>1, <2>2, ToldIncome DEF Flagging, Ending
<1>2. CASE cmd = "ACTIVE"
  <2>1. Run(b, x, cmd, p) = RingOver(x)
    BY <1>2 DEF Run
  <2>2. QED
    BY <2>1, <1>2, RingOverClears DEF Told, Still, Ending
<1>3. CASE cmd = "HANGUP"
  <2>1. Run(b, x, cmd, p) = bt_phone_hangup(b, x, p) /\ p \in Phones
    BY <1>3 DEF Run, Named, Nameless
  <2>2. QED
    BY <1>3, <2>1, HangupClears, RingOverClears DEF Told, Still, Ending
<1>4. CASE cmd \in {"OPEN_ESCO", "CLOSE_ESCO"}
  <2>1. p \in Phones
    BY <1>4 DEF Named, Nameless
  <2>2. Run(b, x, cmd, p) \in {bt_phone_esco_play(x, p), bt_phone_esco_stop(x, p)}
    BY <1>4 DEF Run
  <2>3. Still(x, Run(b, x, cmd, p))
    BY <2>1, <2>2, StillEsco
  <2>4. QED
    BY <1>4, <2>3 DEF Told, Still, Ending
<1>5. CASE cmd \in {"OUTBAND_RING", "OUTBAND_RING_STOP"}
  <2>1. p \in Some
    BY <1>5 DEF Named
  <2>2. Run(b, x, cmd, p) \in {bt_phone_outband_ring(b, x, p), bt_phone_outband_ring_stop(x, p)}
    BY <1>5 DEF Run
  <2>3. Still(x, Run(b, x, cmd, p))
    BY <2>1, <2>2, StillOutband
  <2>4. QED
    BY <1>5, <2>3 DEF Told, Still, Ending
<1>6. CASE cmd = "PLAY"
  <2>1. Run(b, x, cmd, p) = [x EXCEPT !.ring = TRUE]
    BY <1>6 DEF Run
  <2>2. Still(x, Run(b, x, cmd, p))
    BY <2>1 DEF Still, Rec
  <2>3. QED
    BY <1>6, <2>2 DEF Told, Still, Ending
<1>7. QED
  BY <1>1, <1>2, <1>3, <1>4, <1>5, <1>6 DEF Commands

LEMMA SendDoes ==
    ASSUME NEW b \in Buds, NEW x \in Rec, NEW cmd \in Commands, NEW p, Named(cmd, p)
    PROVE  LET y == tws_phone_call_send_cmd(b, x, cmd, p)
           IN  /\ y \in Rec /\ (~link => y.out = x.out)
               /\ cmd \notin Flagging /\ (Quiet \/ cmd \notin Ending) => Still(x, y)
               /\ Quiet /\ cmd \in Ending =>
                      IF link THEN HasEnd(y.out) /\ Ended(y.out) ELSE ~y.flag
<1>1. CASE link
  <2>1. tws_phone_call_send_cmd(b, x, cmd, p) = Post(x, cmd, p)
    BY <1>1 DEF tws_phone_call_send_cmd
  <2>2. QED
    BY <1>1, <2>1, Outs DEF Named, Still
<1>2. CASE ~link
  <2>1. tws_phone_call_send_cmd(b, x, cmd, p) = Run(b, x, cmd, p)
    BY <1>2 DEF tws_phone_call_send_cmd
  <2>2. QED
    BY <1>2, <2>1, RunDoes DEF Told
<1>3. QED
  BY <1>1, <1>2

LEMMA StillRingStop ==
    ASSUME NEW b \in Buds, NEW x \in Rec PROVE Still(x, second_phone_call_ring_stop(b, x))
<1> DEFINE y == [x EXCEPT !.timer = FALSE]
<1>1. Still(x, y) /\ y \in Rec
  BY Timed DEF Still
<1>2. x.coexist \in Some
  BY DEF Rec
<1>3. second_phone_call_ring_stop(b, x)
          = tws_phone_call_send_cmd(b, y, "OUTBAND_RING_STOP", x.coexist)
  BY DEF second_phone_call_ring_stop
<1> HIDE DEF y
<1>4. /\ "OUTBAND_RING_STOP" \in Commands /\ "OUTBAND_RING_STOP" \notin Flagging
      /\ "OUTBAND_RING_STOP" \notin Ending /\ Named("OUTBAND_RING_STOP", x.coexist)
  BY <1>2 DEF Commands, Flagging, Ending, Named, Nameless
<1>5. Still(y, second_phone_call_ring_stop(b, x))
  BY <1>1, <1>3, <1>4, SendDoes
<1>6. QED
  BY <1>1, <1>5, StillTrans

LEMMA StillDelay ==
    ASSUME NEW x \in Rec, NEW p \in Phones
    PROVE  Still(x, Delay(x, p)) /\ Still(x, IfSilent(x, p))
<1>1. Still(x, Delay(x, p))
  BY DEF Still, Rec, Delay, Some
<1>2. QED
  BY <1>1, StillSelf DEF IfSilent

(***************************************************************************)
(* The reports.                                                            *)
(***************************************************************************)

\* What handling a message of kind may do.
Handles(b, kind, x, y) ==
    /\ y \in Rec /\ (~link => y.out = x.out)
    /\ Quiet /\ Calm(x.out) /\ kind # "PHONE_INCOME" => Calm(y.out)
    /\ Quiet /\ kind \notin Flagging /\ kind # "PHONE_INCOME" => (y.flag => x.flag)
    /\ Quiet /\ kind \in Ending => ~y.flag
    /\ Quiet /\ kind \in Reported /\ Master(b) =>
           IF link THEN HasEnd(y.out) /\ Ended(y.out) ELSE ~y.flag
    /\ kind = "PHONE_INCOME" /\ ~Master(b) => y = x

LEMMA StillHandles ==
    ASSUME NEW b \in Buds, NEW x \in Rec, NEW y, NEW kind, Still(x, y),
           kind \notin Flagging \cup Ending \cup Reported \cup {"PHONE_INCOME"}
    PROVE  Handles(b, kind, x, y)
BY DEF Handles, Still

LEMMA IncomeHandled ==
    ASSUME NEW b \in Buds, NEW x \in Rec, NEW p \in Phones, Master(b)
    PROVE  Handles(b, "PHONE_INCOME", x, PhoneIncome(b, x, p))
<1> DEFINE y == [x EXCEPT !.sync = TRUE]
<1>1. y \in Rec /\ y.out = x.out
  BY DEF Rec
<1>2. PhoneIncome(b, x, p) \in {y, tws_phone_call_send_cmd(b, y, "OUTBAND_RING", p),
                                tws_phone_call_send_cmd(b, y, "INCOME", p)}
  BY DEF PhoneIncome
<1> HIDE DEF y
<1>3. {"OUTBAND_RING", "INCOME"} \subseteq Commands /\ \A cmd : Named(cmd, p)
  BY DEF Commands, Named, Some
<1>4. \A cmd \in {"OUTBAND_RING", "INCOME"} :
          /\ tws_phone_call_send_cmd(b, y, cmd, p) \in Rec
          /\ ~link => tws_phone_call_send_cmd(b, y, cmd, p).out = y.out
  BY <1>1, <1>3, SendDoes
<1>5. QED
  BY <1>1, <1>2, <1>4 DEF Handles, Flagging, Ending, Reported

LEMMA EndHandled ==
    ASSUME NEW b \in Buds, NEW x \in Rec, NEW p \in Phones, NEW cmd \in Ending,
           NEW kind \in Reported
    PROVE  Handles(b, kind, x,
               tws_phone_call_send_cmd(b, second_phone_call_ring_stop(b, x), cmd, p))
<1> DEFINE u == second_phone_call_ring_stop(b, x)
           y == tws_phone_call_send_cmd(b, u, cmd, p)
<1>1. Still(x, u) /\ u \in Rec
  BY StillRingStop DEF Still
<1> HIDE DEF u
<1>2. cmd \in Commands /\ cmd \notin Flagging /\ Named(cmd, p)
  BY DEF Ending, Commands, Flagging, Named, Some
<1>3. /\ y \in Rec /\ (~link => y.out = u.out)
      /\ Quiet => Still(u, y)
      /\ Quiet => IF link THEN HasEnd(y.out) /\ Ended(y.out) ELSE ~y.flag
  BY <1>1, <1>2, SendDoes
<1> HIDE DEF y
<1>4. kind \notin Flagging /\ kind \notin Ending /\ kind # "PHONE_INCOME"
  BY DEF Reported, Flagging, Ending
<1>5. Handles(b, kind, x, y)
  BY <1>1, <1>3, <1>4 DEF Handles, Still
<1>6. QED
  BY <1>5 DEF y, u

LEMMA ScoHandled ==
    ASSUME NEW b \in Buds, NEW x \in Rec, NEW p \in Phones
    PROVE  Still(x, ScoOn(b, x, p)) /\ Still(x, ScoOff(b, x, p))
<1> DEFINE q == Other(p)
           u == second_phone_call_ring_stop(b, x)
           y == tws_phone_call_send_cmd(b, u, "OPEN_ESCO", p)
           z == tws_phone_call_send_cmd(b, u, "CLOSE_ESCO", p)
<1>1. q \in Phones
  BY TheOther
<1>2. ScoOn(b, x, p) \in {Delay(y, q), IfSilent(y, p), y}
  BY DEF ScoOn
<1>3. ScoOff(b, x, p) \in {x, Delay(z, q), Delay(z, p), IfSilent(z, p), IfSilent(z, q), z}
  BY DEF ScoOff
<1>4. Still(x, u) /\ u \in Rec
  BY StillRingStop DEF Still
<1> HIDE DEF u, q
<1>5. /\ {"OPEN_ESCO", "CLOSE_ESCO"} \subseteq Commands \ (Flagging \cup Ending)
      /\ \A cmd : Named(cmd, p)
  BY DEF Commands, Flagging, Ending, Named, Some
<1>6. Still(u, y) /\ Still(u, z)
  BY <1>4, <1>5, SendDoes
<1> HIDE DEF y, z
<1>7. Still(x, y) /\ Still(x, z) /\ y \in Rec /\ z \in Rec
  BY <1>4, <1>6, StillTrans DEF Still
<1>8. /\ Still(y, Delay(y, q)) /\ Still(y, IfSilent(y, p))
      /\ Still(z, Delay(z, q)) /\ Still(z, Delay(z, p))
      /\ Still(z, IfSilent(z, p)) /\ Still(z, IfSilent(z, q))
  BY <1>1, <1>7, StillDelay
<1>9. Still(x, ScoOn(b, x, p))
  BY <1>2, <1>7, <1>8, StillTrans
<1>10. Still(x, ScoOff(b, x, p))
  BY <1>3, <1>7, <1>8, StillTrans, StillSelf
<1>11. QED
  BY <1>9, <1>10

LEMMA MonitorHandled ==
    ASSUME NEW b \in Buds, NEW x \in Rec, NEW p \in Phones
    PROVE  Handles(b, "MONITOR_START", x, MonitorStart(b, x, p))
<1> DEFINE y == [x EXCEPT !.sync = TRUE]
<1>1. y \in Rec /\ y.out = x.out
  BY DEF Rec
<1>2. MonitorStart(b, x, p) \in {x, tws_phone_call_send_cmd(b, y, "INCOME", p),
                                 tws_phone_call_send_cmd(b, x, "OUTBAND_RING", p)}
  BY DEF MonitorStart
<1>3. Quiet => MonitorStart(b, x, p) = x
  BY NobodyCalls DEF MonitorStart
<1> HIDE DEF y
<1>4. {"OUTBAND_RING", "INCOME"} \subseteq Commands /\ \A cmd : Named(cmd, p)
  BY DEF Commands, Named, Some
<1>5. /\ MonitorStart(b, x, p) \in Rec
      /\ ~link => MonitorStart(b, x, p).out = x.out
  BY <1>1, <1>2, <1>4, SendDoes
<1>6. QED
  BY <1>3, <1>5 DEF Handles, Flagging, Ending, Reported

LEMMA HandledDoes ==
    ASSUME NEW b \in Buds, NEW x \in Rec, NEW m \in Message
    PROVE  Handles(b, m.kind, x, Handled(b, x, m.kind, m.of))
<1> DEFINE p == m.of
           y == Handled(b, x, m.kind, p)
<1>1. /\ m.kind \in Reports \cup Commands /\ p \in Some /\ Named(m.kind, p)
  BY DEF Message, Named
<1>2. CASE m.kind \in Commands
  <2>1. y = Run(b, x, m.kind, p)
    BY <1>2 DEF Handled, Commands
  <2>2. m.kind \notin Reported /\ m.kind # "PHONE_INCOME"
    BY <1>2 DEF Commands, Reported
  <2>3. /\ Told(x, y)
        /\ m.kind \notin Flagging /\ (Quiet \/ m.kind \notin Ending) => Still(x, y)
        /\ Quiet /\ m.kind \in Ending => ~y.flag
    BY <1>1, <1>2, <2>1, RunDoes
  <2>4. QED
    BY <2>2, <2>3 DEF Handles, Told, Still
<1>3. CASE m.kind = "CONNECTED"
  <2>1. y = [x EXCEPT !.sync = FALSE]
    BY <1>3 DEF Handled, Commands
  <2>2. Still(x, y)
    BY <2>1 DEF Still, Rec
  <2>3. QED
    BY <1>3, <2>2, StillHandles DEF Flagging, Ending, Reported
<1>4. CASE m.kind = "MONITOR_START"
  <2>1. y = MonitorStart(b, x, p) /\ p \in Phones
    BY <1>1, <1>4 DEF Handled, Named, Nameless, Commands
  <2>2. QED
    BY <1>4, <2>1, MonitorHandled
<1>5. CASE m.kind = "S_START_ENTER_ESCO"
  <2>1. y = bt_phone_esco_play(x, p) /\ p \in Phones
    BY <1>1, <1>5 DEF Handled, Named, Nameless, Commands
  <2>2. QED
    BY <1>5, <2>1, StillEsco, StillHandles DEF Flagging, Ending, Reported
<1>6. CASE m.kind \in {"PHONE_INCOME", "PHONE_ACTIVE", "PHONE_HANGUP", "SCO_ON", "SCO_OFF"}
  <2>1. y = PhoneStatus(b, x, m.kind, p) /\ p \in Phones
    BY <1>1, <1>6 DEF Handled, Named, Nameless, Commands
  <2>2. CASE ~Master(b)
    <3>1. y = x
      BY <2>1, <2>2 DEF PhoneStatus
    <3>2. m.kind \notin Ending
      BY <1>6 DEF Ending
    <3>3. QED
      BY <2>2, <3>1, <3>2 DEF Handles
  <2>3. CASE Master(b) /\ m.kind = "PHONE_INCOME"
    <3>1. y = PhoneIncome(b, x, p)
      BY <2>1, <2>3 DEF PhoneStatus
    <3>2. QED
      BY <2>1, <2>3, <3>1, IncomeHandled
  <2>4. CASE Master(b) /\ m.kind \in {"PHONE_ACTIVE", "PHONE_HANGUP"}
    <3>1. PICK cmd \in Ending :
              y = tws_phone_call_send_cmd(b, second_phone_call_ring_stop(b, x), cmd, p)
      BY <2>1, <2>4 DEF PhoneStatus, Ending
    <3>2. m.kind \in Reported
      BY <2>4 DEF Reported
    <3>3. QED
      BY <2>1, <3>1, <3>2, EndHandled
  <2>5. CASE Master(b) /\ m.kind \in {"SCO_ON", "SCO_OFF"}
    <3>1. y \in {ScoOn(b, x, p), ScoOff(b, x, p)}
      BY <2>1, <2>5 DEF PhoneStatus
    <3>2. QED
      BY <2>1, <2>5, <3>1, ScoHandled, StillHandles DEF Flagging, Ending, Reported
  <2>6. QED
    BY <1>6, <2>2, <2>3, <2>4, <2>5
<1>7. QED
  BY <1>1, <1>2, <1>3, <1>4, <1>5, <1>6 DEF Reports

(***************************************************************************)
(* Queues.                                                                 *)
(***************************************************************************)

\* How a queue grows and shrinks, position by position.
LEMMA Joined ==
    ASSUME NEW q \in Seq(Message), NEW o \in Seq(Message)
    PROVE  /\ q \o o \in Seq(Message)
           /\ DOMAIN q = 1..Len(q) /\ DOMAIN o = 1..Len(o)
           /\ DOMAIN (q \o o) = 1..(Len(q) + Len(o)) /\ Len(q) \in Nat /\ Len(o) \in Nat
           /\ \A i \in DOMAIN q : i \in DOMAIN (q \o o) /\ (q \o o)[i] = q[i]
           /\ \A i \in DOMAIN o : Len(q) + i \in DOMAIN (q \o o) /\ (q \o o)[Len(q) + i] = o[i]
           /\ \A i \in DOMAIN (q \o o) :
                  \/ i \in DOMAIN q
                  \/ i > Len(q) /\ i - Len(q) \in DOMAIN o /\ (q \o o)[i] = o[i - Len(q)]
<1>1. /\ DOMAIN q = 1..Len(q) /\ DOMAIN o = 1..Len(o) /\ Len(q) \in Nat /\ Len(o) \in Nat
      /\ q \o o \in Seq(Message)
  OBVIOUS
<1>2. Len(q \o o) = Len(q) + Len(o)
  OBVIOUS
<1>3. DOMAIN (q \o o) = 1..(Len(q) + Len(o))
  BY <1>1, <1>2
<1>4. \A i \in 1..(Len(q) + Len(o)) :
          (q \o o)[i] = IF i <= Len(q) THEN q[i] ELSE o[i - Len(q)]
  OBVIOUS
<1>5. \A i \in DOMAIN q : i \in DOMAIN (q \o o) /\ (q \o o)[i] = q[i]
  BY <1>1, <1>3, <1>4
<1>6. \A i \in DOMAIN o : Len(q) + i \in DOMAIN (q \o o) /\ (q \o o)[Len(q) + i] = o[i]
  <2>1. TAKE i \in DOMAIN o
  <2>2. Len(q) + i \in 1..(Len(q) + Len(o)) /\ ~(Len(q) + i <= Len(q)) /\ (Len(q) + i) - Len(q) = i
    BY <1>1
  <2>3. QED
    BY <1>3, <1>4, <2>2
<1>7. \A i \in DOMAIN (q \o o) :
          \/ i \in DOMAIN q
          \/ i > Len(q) /\ i - Len(q) \in DOMAIN o /\ (q \o o)[i] = o[i - Len(q)]
  BY <1>1, <1>3, <1>4
<1>8. QED
  BY <1>1, <1>3, <1>5, <1>6, <1>7

LEMMA Rest ==
    ASSUME NEW q \in Seq(Message), q # <<>>
    PROVE  /\ Head(q) \in Message /\ Head(q) = q[1] /\ Tail(q) \in Seq(Message)
           /\ DOMAIN q = 1..Len(q) /\ Len(q) \in Nat /\ Len(q) >= 1
           /\ DOMAIN Tail(q) = 1..(Len(q) - 1)
           /\ \A i \in DOMAIN Tail(q) : Tail(q)[i] = q[i + 1] /\ i + 1 \in DOMAIN q
           /\ \A i \in DOMAIN q : i = 1 \/ (i > 1 /\ i - 1 \in DOMAIN Tail(q) /\ Tail(q)[i - 1] = q[i])
<1>1. /\ Head(q) \in Message /\ Head(q) = q[1] /\ Tail(q) \in Seq(Message)
      /\ DOMAIN q = 1..Len(q) /\ Len(q) \in Nat /\ Len(q) >= 1
  OBVIOUS
<1>2. Len(Tail(q)) = Len(q) - 1 /\ DOMAIN Tail(q) = 1..(Len(q) - 1)
  BY <1>1
<1>3. \A i \in 1..(Len(q) - 1) : Tail(q)[i] = q[i + 1]
  OBVIOUS
<1>4. \A i \in DOMAIN Tail(q) : Tail(q)[i] = q[i + 1] /\ i + 1 \in DOMAIN q
  BY <1>1, <1>2, <1>3
<1>5. \A i \in DOMAIN q : i = 1 \/ (i > 1 /\ i - 1 \in DOMAIN Tail(q) /\ Tail(q)[i - 1] = q[i])
  <2>1. TAKE i \in DOMAIN q
  <2>2. CASE i # 1
    <3>1. i - 1 \in 1..(Len(q) - 1) /\ (i - 1) + 1 = i /\ i > 1
      BY <1>1, <2>2
    <3>2. QED
      BY <1>2, <1>3, <3>1
  <2>3. QED
    BY <2>2
<1>6. QED
  BY <1>1, <1>2, <1>4, <1>5

\* Sending: what was followed by an end still is, and so is what comes before a new end.
LEMMA JoinedEnds ==
    ASSUME NEW q \in Seq(Message), NEW o \in Seq(Message)
    PROVE  /\ HasEnd(q) \/ HasEnd(o) => HasEnd(q \o o)
           /\ HasReport(q) \/ HasReport(o) => HasReport(q \o o)
           /\ Ended(q) /\ Ended(o) => Ended(q \o o)
           /\ HasEnd(o) /\ Ended(o) => Ended(q \o o)
<1> DEFINE r == q \o o
<1>1. /\ Len(q) \in Nat /\ DOMAIN q = 1..Len(q) /\ DOMAIN o = 1..Len(o) /\ Len(o) \in Nat
      /\ \A i \in DOMAIN q : i \in DOMAIN r /\ r[i] = q[i]
      /\ \A i \in DOMAIN o : Len(q) + i \in DOMAIN r /\ r[Len(q) + i] = o[i]
      /\ \A i \in DOMAIN r :
             \/ i \in DOMAIN q
             \/ i > Len(q) /\ i - Len(q) \in DOMAIN o /\ r[i] = o[i - Len(q)]
  BY Joined
<1> HIDE DEF r
<1>2. HasEnd(q) \/ HasEnd(o) => HasEnd(r)
  BY <1>1 DEF HasEnd
<1>3. HasReport(q) \/ HasReport(o) => HasReport(r)
  BY <1>1 DEF HasReport
<1>4. ASSUME Ended(o), Ended(q) \/ HasEnd(o) PROVE Ended(r)
  <2>1. SUFFICES ASSUME NEW i \in DOMAIN r, r[i].kind \in Flagging
                 PROVE  \E j \in DOMAIN r : j > i /\ r[j].kind \in Ending
    BY DEF Ended
  <2>2. CASE i \in DOMAIN q
    <3>1. CASE HasEnd(o)
      <4>1. PICK j \in DOMAIN o : o[j].kind \in Ending
        BY <3>1 DEF HasEnd
      <4>2. Len(q) + j \in DOMAIN r /\ r[Len(q) + j] = o[j] /\ Len(q) + j > i
        BY <1>1, <2>2
      <4>3. QED
        BY <4>1, <4>2
    <3>2. CASE Ended(q)
      <4>1. PICK j \in DOMAIN q : j > i /\ q[j].kind \in Ending
        BY <1>1, <2>1, <2>2, <3>2 DEF Ended
      <4>2. QED
        BY <1>1, <4>1
    <3>3. QED
      BY <1>4, <3>1, <3>2
  <2>3. CASE i > Len(q) /\ i - Len(q) \in DOMAIN o /\ r[i] = o[i - Len(q)]
    <3>1. PICK j \in DOMAIN o : j > i - Len(q) /\ o[j].kind \in Ending
      BY <1>4, <2>1, <2>3 DEF Ended
    <3>2. i \in Nat /\ j \in Nat
      <4>1. DOMAIN r = 1..(Len(q) + Len(o))
        BY Joined DEF r
      <4>2. QED
        BY <1>1, <4>1
    <3>3. Len(q) + j > i
      BY <1>1, <3>1, <3>2
    <3>4. QED
      BY <1>1, <3>1, <3>3
  <2>4. QED
    BY <1>1, <2>2, <2>3
<1>5. QED
  BY <1>2, <1>3, <1>4 DEF r

LEMMA CalmEnds == ASSUME NEW q, Calm(q) PROVE Ended(q)
BY DEF Calm, Ended

LEMMA RestEnds ==
    ASSUME NEW q \in Seq(Message), q # <<>>
    PROVE  /\ HasEnd(q) => HasEnd(Tail(q)) \/ Head(q).kind \in Ending
           /\ HasReport(q) => HasReport(Tail(q)) \/ Head(q).kind \in Reported
           /\ Ended(q) => Ended(Tail(q))
           /\ Ended(q) /\ Head(q).kind \in Flagging => HasEnd(Tail(q))
           /\ ReportEnded(q) => ReportEnded(Tail(q))
           /\ ReportEnded(q) /\ Head(q).kind = "PHONE_INCOME" => HasReport(Tail(q))
<1> DEFINE r == Tail(q)
<1>1. /\ Head(q) = q[1] /\ DOMAIN q = 1..Len(q) /\ Len(q) \in Nat /\ 1 \in DOMAIN q
      /\ \A i \in DOMAIN r : r[i] = q[i + 1] /\ i + 1 \in DOMAIN q /\ i \in Nat
      /\ \A i \in DOMAIN q : i = 1 \/ (i > 1 /\ i - 1 \in DOMAIN r /\ r[i - 1] = q[i])
  BY Rest
<1> HIDE DEF r
<1>2. HasEnd(q) => HasEnd(r) \/ Head(q).kind \in Ending
  BY <1>1 DEF HasEnd
<1>3. HasReport(q) => HasReport(r) \/ Head(q).kind \in Reported
  BY <1>1 DEF HasReport
<1>4. Ended(q) => Ended(r)
  <2>1. SUFFICES ASSUME Ended(q), NEW i \in DOMAIN r, r[i].kind \in Flagging
                 PROVE  \E j \in DOMAIN r : j > i /\ r[j].kind \in Ending
    BY DEF Ended
  <2>2. PICK j \in DOMAIN q : j > i + 1 /\ q[j].kind \in Ending
    BY <1>1, <2>1 DEF Ended
  <2>3. j - 1 \in DOMAIN r /\ r[j - 1] = q[j] /\ j - 1 > i
    BY <1>1, <2>2
  <2>4. QED
    BY <2>2, <2>3
<1>5. ReportEnded(q) => ReportEnded(r)
  <2>1. SUFFICES ASSUME ReportEnded(q), NEW i \in DOMAIN r, r[i].kind = "PHONE_INCOME"
                 PROVE  \E j \in DOMAIN r : j > i /\ r[j].kind \in Reported
    BY DEF ReportEnded
  <2>2. PICK j \in DOMAIN q : j > i + 1 /\ q[j].kind \in Reported
    BY <1>1, <2>1 DEF ReportEnded
  <2>3. j - 1 \in DOMAIN r /\ r[j - 1] = q[j] /\ j - 1 > i
    BY <1>1, <2>2
  <2>4. QED
    BY <2>2, <2>3
<1>6. Ended(q) /\ Head(q).kind \in Flagging => HasEnd(r)
  <2>1. SUFFICES ASSUME Ended(q), q[1].kind \in Flagging PROVE HasEnd(r)
    BY <1>1
  <2>2. PICK j \in DOMAIN q : j > 1 /\ q[j].kind \in Ending
    BY <1>1, <2>1 DEF Ended
  <2>3. QED
    BY <1>1, <2>2 DEF HasEnd
<1>7. ReportEnded(q) /\ Head(q).kind = "PHONE_INCOME" => HasReport(r)
  <2>1. SUFFICES ASSUME ReportEnded(q), q[1].kind = "PHONE_INCOME" PROVE HasReport(r)
    BY <1>1
  <2>2. PICK j \in DOMAIN q : j > 1 /\ q[j].kind \in Reported
    BY <1>1, <2>1 DEF ReportEnded
  <2>3. QED
    BY <1>1, <2>2 DEF HasReport
<1>8. QED
  BY <1>2, <1>3, <1>4, <1>5, <1>6, <1>7 DEF r

\* A report is added at the end of the master's queue.
LEMMA Added ==
    ASSUME NEW q \in Seq(Message), NEW m \in Message
    PROVE  /\ Append(q, m) \in Seq(Message)
           /\ m.kind \notin Flagging /\ Ended(q) => Ended(Append(q, m))
           /\ m.kind \in Ending => Ended(Append(q, m)) /\ HasEnd(Append(q, m))
           /\ HasEnd(q) => HasEnd(Append(q, m))
           /\ HasReport(q) => HasReport(Append(q, m))
           /\ m.kind \in Reported => HasReport(Append(q, m)) /\ ReportEnded(Append(q, m))
           /\ m.kind # "PHONE_INCOME" /\ ReportEnded(q) => ReportEnded(Append(q, m))
<1> DEFINE r == Append(q, m)
           n == Len(q) + 1
<1>1. /\ r \in Seq(Message) /\ DOMAIN r = 1..n /\ DOMAIN q = 1..Len(q) /\ Len(q) \in Nat
      /\ n \in DOMAIN r /\ r[n] = m
      /\ \A i \in DOMAIN q : i \in DOMAIN r /\ r[i] = q[i] /\ n > i
      /\ \A i \in DOMAIN r : i = n \/ i \in DOMAIN q
  OBVIOUS
<1> HIDE DEF r, n
<1>2. m.kind \notin Flagging /\ Ended(q) => Ended(r)
  BY <1>1 DEF Ended
<1>3. m.kind \in Ending => Ended(r) /\ HasEnd(r)
  BY <1>1 DEF Ended, HasEnd, Ending, Flagging
<1>4. (HasEnd(q) => HasEnd(r)) /\ (HasReport(q) => HasReport(r))
  BY <1>1 DEF HasEnd, HasReport
<1>5. m.kind \in Reported => HasReport(r) /\ ReportEnded(r)
  BY <1>1 DEF HasReport, ReportEnded, Reported
<1>6. m.kind # "PHONE_INCOME" /\ ReportEnded(q) => ReportEnded(r)
  BY <1>1 DEF ReportEnded
<1>7. QED
  BY <1>1, <1>2, <1>3, <1>4, <1>5, <1>6 DEF r

LEMMA JoinedReports ==
    ASSUME NEW q \in Seq(Message), NEW o \in Seq(Message), ReportEnded(q),
           \A i \in DOMAIN o : o[i].kind # "PHONE_INCOME"
    PROVE  ReportEnded(q \o o)
<1> DEFINE r == q \o o
<1>1. /\ \A i \in DOMAIN q : i \in DOMAIN r /\ r[i] = q[i]
      /\ \A i \in DOMAIN r : i \in DOMAIN q \/ (i - Len(q) \in DOMAIN o /\ r[i] = o[i - Len(q)])
  BY Joined
<1> HIDE DEF r
<1>2. ReportEnded(r)
  BY <1>1 DEF ReportEnded
<1>3. QED
  BY <1>2 DEF r

LEMMA CommandsAreMessages ==
    /\ Command \subseteq Message
    /\ \A o \in Seq(Command) : o \in Seq(Message) /\ \A i \in DOMAIN o : o[i].kind # "PHONE_INCOME"
<1>1. \A m \in Command : m \in Message /\ m.kind # "PHONE_INCOME"
  BY DEF Command, Message, Commands
<1>2. ASSUME NEW o \in Seq(Command)
      PROVE  o \in Seq(Message) /\ \A i \in DOMAIN o : o[i].kind # "PHONE_INCOME"
  <2>1. \A i \in DOMAIN o : o[i] \in Command
    OBVIOUS
  <2>2. QED
    BY <1>1, <2>1
<1>3. QED
  BY <1>1, <1>2

(***************************************************************************)
(* The steps of the program.                                               *)
(***************************************************************************)

LEMMA DoneDoes ==
    ASSUME Typed, NEW b \in Buds, NEW y \in Rec, NEW rest \in Seq(Message), Done(b, y, rest),
           late' \subseteq {"ring", "audio"}
    PROVE  /\ Typed'
           /\ queue'[b] = rest /\ bud'[b].flag = y.flag /\ bud'[b].timer = y.timer
           /\ bud'[b].second = y.second /\ bud'[b].user = y.user
           /\ \A c \in Buds \ {b} : queue'[c] = queue[c] \o y.out /\ bud'[c] = bud[c]
           /\ air' = air \o y.out /\ y.out \in Seq(Message) /\ air' \in Seq(Message)
           /\ UNCHANGED <<call, link, master>> /\ (Quiet <=> Quiet')
<1> DEFINE z == [y EXCEPT !.out = <<>>]
<1>1. /\ bud' = [bud EXCEPT ![b] = z] /\ air' = air \o y.out
      /\ queue' = [c \in Buds |-> IF c = b THEN rest ELSE queue[c] \o y.out]
      /\ UNCHANGED <<call, sco, inband, link, master, events>>
  BY DEF Done
<1>2. z \in Rec /\ z.out = <<>> /\ z.flag = y.flag /\ z.timer = y.timer /\ z.second = y.second
      /\ z.user = y.user
  <2>1. <<>> \in Seq(Command)
    OBVIOUS
  <2>2. QED
    BY <2>1 DEF Rec
<1> HIDE DEF z
<1>3. y.out \in Seq(Command) /\ y.out \in Seq(Message)
  BY CommandsAreMessages DEF Rec
<1>4. air \in Seq(Command) /\ bud \in [Buds -> Rec] /\ queue \in [Buds -> Seq(Message)]
      /\ \A c \in Buds : bud[c].out = <<>>
  BY DEF Typed
<1>5. air' \in Seq(Command) /\ air' \in Seq(Message)
  BY <1>1, <1>3, <1>4, CommandsAreMessages
<1>6. \A c \in Buds : queue[c] \o y.out \in Seq(Message)
  BY <1>3, <1>4
<1>7. queue' \in [Buds -> Seq(Message)]
  BY <1>1, <1>6
<1>8. /\ bud' \in [Buds -> Rec] /\ bud'[b] = z /\ \A c \in Buds \ {b} : bud'[c] = bud[c]
  BY <1>1, <1>2, <1>4
<1>9. \A c \in Buds : bud'[c].out = <<>>
  BY <1>2, <1>4, <1>8
<1>10. Typed'
  BY <1>1, <1>5, <1>7, <1>8, <1>9 DEF Typed
<1>11. Quiet <=> Quiet'
  BY <1>1 DEF Quiet
<1>12. QED
  BY <1>1, <1>2, <1>3, <1>5, <1>8, <1>10, <1>11

LEMMA DoneApart ==
    ASSUME Typed, Apart, NEW b \in Buds, NEW y \in Rec, NEW rest \in Seq(Message),
           Done(b, y, rest), late' \subseteq {"ring", "audio"}, ~link => y.out = <<>> /\ b = master,
           rest = queue[b] \/ (queue[b] # <<>> /\ rest = Tail(queue[b]))
    PROVE  Apart'
<1>1. /\ queue'[b] = rest /\ air' = air \o y.out /\ UNCHANGED <<link, master>>
      /\ \A c \in Buds \ {b} : queue'[c] = queue[c] \o y.out /\ bud'[c] = bud[c]
  BY DoneDoes
<1>2. SUFFICES ASSUME ~link PROVE Apart'
  BY <1>1 DEF Apart
<1>3. /\ y.out = <<>> /\ b = master /\ air = <<>>
      /\ \A i \in DOMAIN queue[b] : queue[b][i].kind \notin Commands
      /\ \A c \in Buds \ {b} :
             /\ queue[c] = <<>> /\ ~bud[c].flag /\ ~bud[c].timer
             /\ bud[c].second = 0 /\ bud[c].user = 0
  BY <1>2 DEF Apart
<1>4. queue[b] \in Seq(Message)
  BY DEF Typed
<1>5. \A i \in DOMAIN rest : rest[i].kind \notin Commands
  <2>1. CASE rest = queue[b]
    BY <1>3, <2>1
  <2>2. CASE queue[b] # <<>> /\ rest = Tail(queue[b])
    <3>1. \A i \in DOMAIN rest : rest[i] = queue[b][i + 1] /\ i + 1 \in DOMAIN queue[b]
      BY <1>4, <2>2, Rest
    <3>2. QED
      BY <1>3, <3>1
  <2>3. QED
    BY <2>1, <2>2
<1>6. air' = <<>> /\ \A c \in Buds \ {b} : queue'[c] = <<>>
  BY <1>1, <1>3
<1>7. QED
  BY <1>1, <1>3, <1>5, <1>6 DEF Apart

\* The other buds, to whom what is sent is news.
LEMMA OthersClear ==
    ASSUME Typed, NEW b \in Buds, NEW y \in Rec, NEW rest \in Seq(Message),
           Done(b, y, rest), late' \subseteq {"ring", "audio"}, NEW c \in Buds \ {b},
           Ended(y.out), Clears(c) \/ HasEnd(y.out)
    PROVE  Clears(c)'
<1>1. queue'[c] = queue[c] \o y.out /\ bud'[c] = bud[c] /\ y.out \in Seq(Message)
  BY DoneDoes
<1>2. queue[c] \in Seq(Message)
  BY DEF Typed
<1>3. QED
  BY <1>1, <1>2, JoinedEnds DEF Clears

\* The bud itself.
LEMMA OwnClear ==
    ASSUME Typed, Quiet, NEW b \in Buds, NEW y, queue[b] # <<>>, Clears(b),
           Handles(b, Head(queue[b]).kind, bud[b], y),
           Head(queue[b]).kind # "PHONE_INCOME" \/ y = bud[b]
    PROVE  Ended(Tail(queue[b])) /\ (y.flag => HasEnd(Tail(queue[b])))
<1> DEFINE k == Head(queue[b]).kind
<1>1. queue[b] \in Seq(Message)
  BY DEF Typed
<1>2. /\ Ended(queue[b]) /\ Ended(Tail(queue[b]))
      /\ bud[b].flag => HasEnd(Tail(queue[b])) \/ k \in Ending
      /\ k \in Flagging => HasEnd(Tail(queue[b]))
  BY <1>1, RestEnds DEF Clears
<1>3. CASE k \in Ending
  BY <1>2, <1>3 DEF Handles, Ending
<1>4. CASE k \notin Ending
  BY <1>2, <1>4 DEF Handles
<1>5. QED
  BY <1>3, <1>4

LEMMA HandleFlag ==
    ASSUME IInv, NEW b \in Buds, queue[b] # <<>>, NEW y,
           Handles(b, Head(queue[b]).kind, bud[b], y), Done(b, y, Tail(queue[b])),
           late' \subseteq {"ring", "audio"}
    PROVE  IInv'
<1> DEFINE k == Head(queue[b]).kind
           rest == Tail(queue[b])
<1>1. Typed /\ Apart /\ FlagInv /\ y \in Rec /\ rest \in Seq(Message)
      /\ queue[b] \in Seq(Message) /\ bud[b].out = <<>> /\ bud[b] \in Rec /\ master \in Buds
  BY Rest DEF IInv, Typed, Handles
<1>2. ~link => b = master /\ y.out = <<>>
  BY <1>1 DEF Apart, Handles
<1>3. Typed' /\ Apart'
  BY <1>1, <1>2, DoneDoes, DoneApart
<1>4. /\ queue'[b] = rest /\ bud'[b].flag = y.flag /\ UNCHANGED <<link, master>>
      /\ \A c \in Buds \ {b} : queue'[c] = queue[c] \o y.out /\ bud'[c] = bud[c]
      /\ air' = air \o y.out /\ y.out \in Seq(Message) /\ (Quiet <=> Quiet')
  BY <1>1, DoneDoes
<1>5. air \in Seq(Message) /\ y.out \in Seq(Command) /\ queue[master] \in Seq(Message)
  BY <1>1, CommandsAreMessages DEF Typed, Rec
<1>6. ASSUME Quiet PROVE ReportEnded(queue[master])' /\ EndComes'
  <2>1. ReportEnded(queue[master]) /\ EndComes
    BY <1>1, <1>6 DEF FlagInv
  <2>2. ReportEnded(queue[master])'
    <3>1. CASE b = master
      BY <1>1, <1>4, <2>1, <3>1, RestEnds
    <3>2. CASE b # master
      <4>1. queue'[master'] = queue[master] \o y.out
        BY <1>1, <1>4, <3>2
      <4>2. ReportEnded(queue[master] \o y.out)
        BY <1>4, <1>5, <2>1, JoinedReports, CommandsAreMessages
      <4>3. QED
        BY <4>1, <4>2
    <3>3. QED
      BY <3>1, <3>2
  <2>3. Calm(bud[b].out)
    BY <1>1 DEF Calm
  <2>4. ASSUME k # "PHONE_INCOME" \/ y = bud[b], k \notin Reported \/ b # master
        PROVE  EndComes'
    <3>1. Ended(y.out)
      BY <1>6, <2>3, <2>4, CalmEnds DEF Handles
    <3>2. CASE HasReport(queue[master])
      <4>1. HasReport(queue'[master'])
        <5>1. CASE b = master
          BY <1>1, <1>4, <2>4, <3>2, <5>1, RestEnds
        <5>2. CASE b # master
          <6>1. queue'[master'] = queue[master] \o y.out
            BY <1>1, <1>4, <5>2
          <6>2. QED
            BY <1>4, <1>5, <3>2, <6>1, JoinedEnds
        <5>3. QED
          BY <5>1, <5>2
      <4>2. QED
        BY <4>1 DEF EndComes
    <3>3. CASE /\ Ended(air) /\ (HasEnd(air) \/ Clears(master))
               /\ \A c \in Buds \ {master} : Clears(c)
      <4>1. Ended(air') /\ (HasEnd(air) => HasEnd(air'))
        BY <1>4, <1>5, <3>1, <3>3, JoinedEnds
      <4>2. \A c \in Buds \ {b} : Clears(c) => Clears(c)'
        BY <1>1, <3>1, OthersClear
      <4>3. Clears(b) => Clears(b)'
        BY <1>1, <1>4, <1>6, <2>4, OwnClear DEF Clears
      <4>4. QED
        BY <1>1, <1>4, <3>3, <4>1, <4>2, <4>3 DEF EndComes
    <3>4. QED
      BY <2>1, <3>2, <3>3 DEF EndComes
  <2>5. CASE b = master /\ k = "PHONE_INCOME"
    <3>1. HasReport(rest)
      BY <1>1, <2>1, <2>5, RestEnds
    <3>2. queue'[master'] = rest
      BY <1>4, <2>5
    <3>3. HasReport(queue'[master'])
      BY <3>1, <3>2
    <3>4. QED
      BY <2>2, <3>3 DEF EndComes
  <2>6. CASE b # master /\ k = "PHONE_INCOME"
    <3>1. ~Master(b)
      BY <1>2, <2>6 DEF Master
    <3>2. y = bud[b]
      BY <2>6, <3>1 DEF Handles
    <3>3. QED
      BY <2>2, <2>4, <2>6, <3>2
  <2>7. CASE b = master /\ k \in Reported
    <3>1. Master(b)
      BY <2>7 DEF Master
    <3>2. CASE link
      <4>1. HasEnd(y.out) /\ Ended(y.out)
        BY <1>6, <2>7, <3>1, <3>2 DEF Handles
      <4>2. Ended(air') /\ HasEnd(air')
        BY <1>4, <1>5, <4>1, JoinedEnds
      <4>3. \A c \in Buds \ {b} : Clears(c)'
        BY <1>1, <4>1, OthersClear
      <4>4. QED
        BY <1>4, <2>2, <2>7, <4>2, <4>3 DEF EndComes
    <3>3. CASE ~link
      <4>1. ~y.flag
        BY <1>6, <2>7, <3>1, <3>3 DEF Handles
      <4>2. air' = <<>> /\ \A c \in Buds \ {b} : queue'[c] = <<>> /\ ~bud'[c].flag
        BY <1>4, <2>7, <3>3, <1>3 DEF Apart
      <4>3. \A i \in DOMAIN rest : rest[i].kind \notin Commands
        BY <1>3, <1>4, <2>7, <3>3 DEF Apart
      <4>4. Ended(rest)
        BY <4>3 DEF Ended, Flagging, Commands
      <4>5. Ended(<<>>)
        BY DEF Ended
      <4>6. Clears(b)' /\ \A c \in Buds \ {b} : Clears(c)'
        BY <1>4, <4>1, <4>2, <4>4, <4>5 DEF Clears
      <4>7. QED
        BY <1>4, <2>2, <2>7, <4>2, <4>5, <4>6 DEF EndComes
    <3>4. QED
      BY <3>2, <3>3
  <2>8. EndComes'
    BY <2>4, <2>5, <2>6, <2>7
  <2>9. QED
    BY <2>2, <2>8
<1>7. QED
  BY <1>3, <1>4, <1>6 DEF IInv, FlagInv

LEMMA StillFlag ==
    ASSUME IInv, NEW b \in Buds, NEW y, Still(bud[b], y), Done(b, y, queue[b]), UNCHANGED late,
           ~link => b = master
    PROVE  IInv'
<1>1. Typed /\ Apart /\ FlagInv /\ y \in Rec /\ queue[b] \in Seq(Message)
      /\ bud[b].out = <<>> /\ master \in Buds /\ late' \subseteq {"ring", "audio"}
  BY DEF IInv, Typed, Still
<1>2. ~link => y.out = <<>> /\ b = master
  BY <1>1 DEF Still
<1>3. Typed' /\ Apart'
  BY <1>1, <1>2, DoneDoes, DoneApart
<1>4. /\ queue'[b] = queue[b] /\ bud'[b].flag = y.flag /\ UNCHANGED <<link, master>>
      /\ \A c \in Buds \ {b} : queue'[c] = queue[c] \o y.out /\ bud'[c] = bud[c]
      /\ air' = air \o y.out /\ y.out \in Seq(Message) /\ (Quiet <=> Quiet')
  BY <1>1, DoneDoes
<1>5. air \in Seq(Message) /\ y.out \in Seq(Command) /\ queue[master] \in Seq(Message)
  BY <1>1, CommandsAreMessages DEF Typed, Rec
<1>6. ASSUME Quiet PROVE ReportEnded(queue[master])' /\ EndComes'
  <2>1. ReportEnded(queue[master]) /\ EndComes
    BY <1>1, <1>6 DEF FlagInv
  <2>2. Calm(bud[b].out)
    BY <1>1 DEF Calm
  <2>3. Ended(y.out) /\ (y.flag => bud[b].flag)
    BY <1>6, <2>2, CalmEnds DEF Still
  <2>4. queue'[master'] \in {queue[master], queue[master] \o y.out}
    BY <1>1, <1>4
  <2>5. ReportEnded(queue[master])'
    BY <1>4, <1>5, <2>1, <2>4, JoinedReports, CommandsAreMessages
  <2>6. HasReport(queue[master]) => HasReport(queue'[master'])
    BY <1>4, <1>5, <2>4, JoinedEnds
  <2>7. Ended(air) => Ended(air') /\ (HasEnd(air) => HasEnd(air'))
    BY <1>4, <1>5, <2>3, JoinedEnds
  <2>8. \A c \in Buds \ {b} : Clears(c) => Clears(c)'
    BY <1>1, <2>3, OthersClear
  <2>9. Clears(b) => Clears(b)'
    BY <1>4, <2>3 DEF Clears
  <2>10. EndComes'
    BY <1>1, <1>4, <2>1, <2>6, <2>7, <2>8, <2>9 DEF EndComes
  <2>11. QED
    BY <2>5, <2>10
<1>7. QED
  BY <1>3, <1>4, <1>6 DEF IInv, FlagInv

LEMMA ProgramIInv ==
    ASSUME IInv, NEW b \in Buds, Program(b) PROVE IInv'
<1>1. bud[b] \in Rec /\ queue[b] \in Seq(Message) /\ late \subseteq {"ring", "audio"}
  BY DEF IInv, Typed
<1>2. ~link => b = master \/ ~(CommandDelay(b) \/ SecondTimers(b))
  BY DEF IInv, Apart, CommandDelay, SecondTimers
<1>3. CASE Handle(b)
  <2>1. queue[b] # <<>> /\ Head(queue[b]) \in Message
    BY <1>1, <1>3 DEF Handle
  <2>2. Handles(b, Head(queue[b]).kind, bud[b],
                Handled(b, bud[b], Head(queue[b]).kind, Head(queue[b]).of))
    BY <1>1, <2>1, HandledDoes
  <2>3. late' \subseteq {"ring", "audio"}
    BY <1>1, <1>3 DEF Handle, Outruns
  <2>4. Done(b, Handled(b, bud[b], Head(queue[b]).kind, Head(queue[b]).of), Tail(queue[b]))
    BY <1>3 DEF Handle
  <2>5. QED
    BY <2>1, <2>2, <2>3, <2>4, HandleFlag
<1>4. CASE CommandDelay(b)
  <2> DEFINE x == [bud[b] EXCEPT !.timer = FALSE]
             p == bud[b].coexist
             y == tws_phone_call_send_cmd(b, x, "OUTBAND_RING", p)
  <2>1. Still(bud[b], x) /\ x \in Rec
    BY <1>1, Timed DEF Still
  <2>2. p \in Some
    BY <1>1 DEF Rec
  <2>3. Done(b, y, queue[b]) /\ UNCHANGED late
    BY <1>4 DEF CommandDelay
  <2> HIDE DEF x, p
  <2>4. /\ "OUTBAND_RING" \in Commands /\ "OUTBAND_RING" \notin Flagging
        /\ "OUTBAND_RING" \notin Ending /\ Named("OUTBAND_RING", p)
    BY <2>2 DEF Commands, Flagging, Ending, Named, Nameless
  <2>5. Still(x, y)
    BY <2>1, <2>4, SendDoes
  <2>6. QED
    BY <1>2, <1>4, <2>1, <2>3, <2>5, StillTrans, StillFlag
<1>5. CASE SecondTimers(b)
  <2> DEFINE u == [bud[b] EXCEPT !.second = @ - 1]
             v == [bud[b] EXCEPT !.user = @ - 1]
  <2>1. UNCHANGED late
    BY <1>5 DEF SecondTimers
  <2>2. CASE bud[b].second > 0
             /\ Done(b, phone_second_call_ring_play_start(b, u), queue[b])
    <3>1. Still(bud[b], u) /\ u \in Rec
      BY <1>1, <2>2, Timed DEF Still
    <3> HIDE DEF u
    <3>2. Still(u, phone_second_call_ring_play_start(b, u))
      BY <3>1, StillSecond
    <3>3. QED
      BY <1>2, <1>5, <2>1, <2>2, <3>1, <3>2, StillTrans, StillFlag
  <2>3. CASE bud[b].user > 0
             /\ Done(b, user_phone_second_call_ring_play_start(b, v), queue[b])
    <3>1. Still(bud[b], v) /\ v \in Rec
      BY <1>1, <2>3, Timed DEF Still
    <3> HIDE DEF v
    <3>2. Still(v, user_phone_second_call_ring_play_start(b, v))
      BY <3>1, StillSecond
    <3>3. QED
      BY <1>2, <1>5, <2>1, <2>3, <3>1, <3>2, StillTrans, StillFlag
  <2>4. QED
    BY <1>5, <2>2, <2>3 DEF SecondTimers
<1>6. QED
  BY <1>3, <1>4, <1>5 DEF Program

(***************************************************************************)
(* The other steps.                                                        *)
(***************************************************************************)

LEMMA DeliverIInv == ASSUME IInv, Deliver PROVE IInv'
<1> DEFINE m == Head(air)
           rest == Tail(air)
           q == Append(queue[master], m)
<1>1. Typed /\ Apart /\ FlagInv /\ air # <<>> /\ air \in Seq(Command) /\ air \in Seq(Message)
      /\ queue[master] \in Seq(Message) /\ master \in Buds /\ queue \in [Buds -> Seq(Message)]
  BY CommandsAreMessages DEF IInv, Typed, Deliver
<1>2. /\ queue' = [queue EXCEPT ![master] = q] /\ air' = rest
      /\ UNCHANGED <<bud, call, sco, inband, link, master, events, late>>
  BY DEF Deliver
<1>3. m \in Command /\ m \in Message /\ rest \in Seq(Command) /\ q \in Seq(Message)
  BY <1>1, CommandsAreMessages
<1>4. queue' \in [Buds -> Seq(Message)] /\ queue'[master'] = q
      /\ \A c \in Buds \ {master} : queue'[c] = queue[c] /\ bud'[c] = bud[c]
  BY <1>1, <1>2, <1>3
<1>5. Typed'
  BY <1>1, <1>2, <1>3, <1>4 DEF Typed
<1>6. Apart'
  BY <1>1, <1>2 DEF Apart
<1>7. m.kind \notin Reported /\ m.kind # "PHONE_INCOME"
  BY <1>3 DEF Command, Commands, Reported
<1>8. ASSUME Quiet PROVE ReportEnded(queue[master])' /\ EndComes'
  <2>1. ReportEnded(queue[master]) /\ EndComes
    BY <1>1, <1>8 DEF FlagInv
  <2>2. ReportEnded(q)
    BY <1>1, <1>3, <1>7, <2>1, Added
  <2>3. CASE HasReport(queue[master])
    <3>1. HasReport(q)
      BY <1>1, <1>3, <2>3, Added
    <3>2. QED
      BY <1>4, <2>2, <3>1 DEF EndComes
  <2>4. CASE /\ Ended(air) /\ (HasEnd(air) \/ Clears(master))
             /\ \A c \in Buds \ {master} : Clears(c)
    <3>1. Ended(rest) /\ (HasEnd(air) => HasEnd(rest) \/ m.kind \in Ending)
          /\ (m.kind \in Flagging => HasEnd(rest))
      BY <1>1, <2>4, RestEnds
    <3>2. HasEnd(rest) \/ (Ended(q) /\ (bud[master].flag => HasEnd(q)))
      <4>1. CASE m.kind \in Ending
        BY <1>1, <1>3, <4>1, Added
      <4>2. CASE m.kind \notin Ending /\ m.kind \notin Flagging
        BY <1>1, <1>3, <2>4, <3>1, <4>2, Added DEF Clears
      <4>3. QED
        BY <3>1, <4>1, <4>2
    <3>3. \A c \in Buds \ {master} : Clears(c)'
      BY <1>4, <2>4 DEF Clears
    <3>4. queue'[master'] = q /\ bud'[master'] = bud[master] /\ air' = rest /\ master' = master
      BY <1>2, <1>4
    <3>5. HasEnd(air') \/ Clears(master)'
      BY <3>2, <3>4 DEF Clears
    <3>6. QED
      BY <2>2, <3>1, <3>3, <3>4, <3>5 DEF EndComes
  <2>5. QED
    BY <2>1, <2>3, <2>4 DEF EndComes
<1>9. Quiet <=> Quiet'
  BY <1>2 DEF Quiet
<1>10. QED
  BY <1>5, <1>6, <1>8, <1>9 DEF IInv, FlagInv

\* A phone has something to report, or has nothing to.
LEMMA PhonedIInv ==
    ASSUME IInv, NEW p \in Phones, NEW kind \in Reports \ Nameless, Phoned(kind, p),
           call' \in [Phones -> {"no", "in", "out", "active"}], sco' \in Some,
           events' \in 0..MaxEvents, UNCHANGED late,
           \/ ~Quiet'
           \/ kind \in Reported
           \/ kind # "PHONE_INCOME" /\ Quiet
    PROVE  IInv'
<1> DEFINE m == Msg(kind, p)
           q == Append(queue[master], m)
<1>1. Typed /\ Apart /\ FlagInv /\ queue[master] \in Seq(Message) /\ master \in Buds
      /\ queue \in [Buds -> Seq(Message)]
  BY DEF IInv, Typed
<1>2. m \in Message /\ m.kind = kind
  BY DEF Msg, Message, Some
<1>3. /\ queue' = [queue EXCEPT ![master] = q]
      /\ UNCHANGED <<bud, air, inband, link, master>>
  BY DEF Phoned
<1> HIDE DEF m
<1>4. q \in Seq(Message)
  BY <1>1, <1>2
<1>5. queue' \in [Buds -> Seq(Message)] /\ queue'[master'] = q
      /\ \A c \in Buds \ {master} : queue'[c] = queue[c] /\ bud'[c] = bud[c]
  BY <1>1, <1>3, <1>4
<1>6. Typed'
  BY <1>1, <1>3, <1>5 DEF Typed
<1>7. kind \notin Commands
  BY DEF Reports, Commands, Nameless
<1>8. Apart'
  <2>1. SUFFICES ASSUME ~link PROVE Apart'
    BY <1>3 DEF Apart
  <2>2. \A i \in DOMAIN q : q[i].kind \notin Commands
    <3>1. \A i \in DOMAIN queue[master] : queue[master][i].kind \notin Commands
      BY <1>1, <2>1 DEF Apart
    <3>2. \A i \in DOMAIN q : q[i] = m \/ (i \in DOMAIN queue[master] /\ q[i] = queue[master][i])
      BY <1>1, <1>2
    <3>3. QED
      BY <1>2, <1>7, <3>1, <3>2
  <2>3. QED
    BY <1>1, <1>3, <1>5, <2>1, <2>2 DEF Apart
<1>9. ASSUME Quiet' PROVE ReportEnded(queue[master])' /\ EndComes'
  <2>1. CASE kind \in Reported
    BY <1>1, <1>2, <1>5, <2>1, Added DEF EndComes
  <2>2. CASE kind \notin Reported /\ kind # "PHONE_INCOME" /\ Quiet
    <3>1. ReportEnded(queue[master]) /\ EndComes
      BY <1>1, <2>2 DEF FlagInv
    <3>2. kind \notin Flagging
      BY <1>7 DEF Commands, Flagging
    <3>3. /\ ReportEnded(q)
          /\ HasReport(queue[master]) => HasReport(q)
          /\ Ended(queue[master]) => Ended(q)
          /\ HasEnd(queue[master]) => HasEnd(q)
      BY <1>1, <1>2, <2>2, <3>1, <3>2, Added
    <3>4. queue'[master'] = q /\ bud'[master'] = bud[master] /\ air' = air /\ master' = master
      BY <1>3, <1>5
    <3>5. Clears(master) => Clears(master)'
      BY <3>3, <3>4 DEF Clears
    <3>6. \A c \in Buds \ {master} : Clears(c) => Clears(c)'
      BY <1>5 DEF Clears
    <3>7. EndComes'
      BY <3>1, <3>3, <3>4, <3>5, <3>6 DEF EndComes
    <3>8. QED
      BY <3>3, <3>4, <3>7
  <2>3. QED
    BY <1>9, <2>1, <2>2
<1>10. QED
  BY <1>6, <1>8, <1>9 DEF IInv, FlagInv

\* What the library adds to a queue when the link comes up ends nothing and sets no flag.
Joining == {"CONNECTED", "MONITOR_START", "S_START_ENTER_ESCO"}

LEMMA JoiningAdds ==
    ASSUME NEW q \in Seq(Message), NEW o \in Seq(Message), \A i \in DOMAIN o : o[i].kind \in Joining
    PROVE  /\ q \o o \in Seq(Message)
           /\ Ended(q) => Ended(q \o o)
           /\ HasEnd(q) => HasEnd(q \o o)
           /\ HasReport(q) => HasReport(q \o o)
           /\ ReportEnded(q) => ReportEnded(q \o o)
<1>1. Calm(o) /\ \A i \in DOMAIN o : o[i].kind # "PHONE_INCOME"
  BY DEF Calm, Joining, Flagging
<1>2. q \o o \in Seq(Message)
  OBVIOUS
<1>3. QED
  BY <1>1, <1>2, CalmEnds, JoinedEnds, JoinedReports

LEMMA LinkUpIInv == ASSUME IInv, LinkUp, UNCHANGED late PROVE IInv'
<1>1. Typed /\ FlagInv /\ queue \in [Buds -> Seq(Message)] /\ master \in Buds /\ sco \in Some
  BY DEF IInv, Typed
<1>2. PICK p \in Phones :
          queue' = [b \in Buds |-> queue[b] \o <<Msg("CONNECTED", NoPhone)>> \o
                       IF b = master
                       THEN <<Msg("MONITOR_START", p), Msg("MONITOR_START", Other(p))>>
                       ELSE IF sco = NoPhone THEN <<>> ELSE <<Msg("S_START_ENTER_ESCO", sco)>>]
  BY DEF LinkUp
<1>3. ~link /\ link' = TRUE /\ UNCHANGED events
      /\ UNCHANGED <<bud, air, call, sco, inband, master>>
  BY DEF LinkUp, Unbounded
<1>4. Other(p) \in Phones
  BY TheOther
<1> DEFINE c == Msg("CONNECTED", NoPhone)
           m == Msg("MONITOR_START", p)
           n == Msg("MONITOR_START", Other(p))
           e == Msg("S_START_ENTER_ESCO", sco)
           t(b) == IF b = master THEN <<m, n>> ELSE IF sco = NoPhone THEN <<>> ELSE <<e>>
<1>5. {c, m, n} \subseteq Message /\ (sco # NoPhone => e \in Message)
  BY <1>1, <1>4 DEF Msg, Message, Some, Reports, Commands, Nameless
<1>6. c.kind \in Joining /\ m.kind \in Joining /\ n.kind \in Joining /\ e.kind \in Joining
  BY DEF Msg, Joining
<1>7. \A b \in Buds : queue'[b] = (queue[b] \o <<c>>) \o t(b)
  BY <1>2
<1> HIDE DEF c, m, n, e
<1>8. \A b \in Buds : t(b) \in Seq(Message) /\ \A i \in DOMAIN t(b) : t(b)[i].kind \in Joining
  BY <1>5, <1>6
<1>9. <<c>> \in Seq(Message) /\ \A i \in DOMAIN <<c>> : <<c>>[i].kind \in Joining
  BY <1>5, <1>6
<1> HIDE DEF t
<1>10. ASSUME NEW b \in Buds
       PROVE  /\ queue'[b] \in Seq(Message)
              /\ Ended(queue[b]) => Ended(queue'[b])
              /\ HasEnd(queue[b]) => HasEnd(queue'[b])
              /\ HasReport(queue[b]) => HasReport(queue'[b])
              /\ ReportEnded(queue[b]) => ReportEnded(queue'[b])
  <2> DEFINE u == queue[b] \o <<c>>
  <2>1. queue[b] \in Seq(Message)
    BY <1>1
  <2>2. /\ u \in Seq(Message)
        /\ Ended(queue[b]) => Ended(u)
        /\ HasEnd(queue[b]) => HasEnd(u)
        /\ HasReport(queue[b]) => HasReport(u)
        /\ ReportEnded(queue[b]) => ReportEnded(u)
    BY <1>9, <2>1, JoiningAdds
  <2>3. queue'[b] = u \o t(b)
    BY <1>7
  <2> HIDE DEF u
  <2>4. /\ u \o t(b) \in Seq(Message)
        /\ Ended(u) => Ended(u \o t(b))
        /\ HasEnd(u) => HasEnd(u \o t(b))
        /\ HasReport(u) => HasReport(u \o t(b))
        /\ ReportEnded(u) => ReportEnded(u \o t(b))
    BY <1>8, <2>2, JoiningAdds
  <2>5. QED
    BY <2>2, <2>3, <2>4
<1>11. queue' \in [Buds -> Seq(Message)]
  <2>1. queue' = [b \in Buds |-> queue'[b]]
    BY <1>2
  <2>2. QED
    BY <1>10, <2>1
<1>12. Typed' /\ Apart'
  BY <1>1, <1>3, <1>11 DEF Typed, Apart
<1>13. \A b \in Buds : Clears(b) => Clears(b)'
  BY <1>3, <1>10 DEF Clears
<1>14. ASSUME Quiet PROVE ReportEnded(queue[master])' /\ EndComes'
  <2>1. ReportEnded(queue[master]) /\ EndComes
    BY <1>1, <1>14 DEF FlagInv
  <2>2. master' = master /\ air' = air
    BY <1>3
  <2>3. /\ ReportEnded(queue[master]) => ReportEnded(queue'[master'])
        /\ HasReport(queue[master]) => HasReport(queue'[master'])
    BY <1>1, <1>10, <2>2
  <2>4. Clears(master) => Clears(master)'
    BY <1>1, <1>13, <2>2
  <2>5. EndComes'
    BY <1>13, <2>1, <2>2, <2>3, <2>4 DEF EndComes
  <2>6. QED
    BY <2>1, <2>3, <2>5
<1>15. Quiet <=> Quiet'
  BY <1>3 DEF Quiet
<1>16. QED
  BY <1>12, <1>14, <1>15 DEF IInv, FlagInv

LEMMA WorldIInv == ASSUME IInv, World PROVE IInv'
<1>1. /\ Typed /\ call \in [Phones -> {"no", "in", "out", "active"}] /\ sco \in Some
      /\ events \in 0..MaxEvents /\ MaxEvents \in Nat
  BY RingAssumption DEF IInv, Typed
<1>2. UNCHANGED late /\ NoPhone \in Some /\ Phones \subseteq Some
  BY DEF World, Some
<1>3. events' = events + 1 /\ events < MaxEvents => events' \in 0..MaxEvents
  BY <1>1
<1>4. {"PHONE_INCOME", "PHONE_ACTIVE", "PHONE_HANGUP", "SCO_ON", "SCO_OFF"} \subseteq Reports \ Nameless
  BY DEF Reports, Nameless
<1>5. ASSUME NEW p \in Phones, CallIn(p) PROVE IInv'
  <2>1. /\ call' \in [Phones -> {"no", "in", "out", "active"}] /\ call'[p] = "in"
        /\ sco' \in Some /\ events' \in 0..MaxEvents /\ Phoned("PHONE_INCOME", p)
    BY <1>1, <1>3, <1>5 DEF CallIn, Bounded
  <2>2. ~Quiet'
    BY <2>1 DEF Quiet
  <2>3. QED
    BY <1>2, <1>4, <2>1, <2>2, PhonedIInv
<1>6. ASSUME NEW p \in Phones, CallOut(p) PROVE IInv'
  <2>1. /\ call' \in [Phones -> {"no", "in", "out", "active"}]
        /\ call' = [call EXCEPT ![p] = "out"] /\ call[p] = "no" /\ events' \in 0..MaxEvents
        /\ UNCHANGED <<bud, queue, air, sco, inband, link, master, late>>
    BY <1>1, <1>2, <1>3, <1>6 DEF CallOut, Bounded
  <2>2. Quiet' => Quiet
    BY <1>1, <2>1 DEF Quiet
  <2>3. Typed' /\ Apart'
    BY <1>1, <2>1 DEF IInv, Typed, Apart
  <2>4. ReportEnded(queue[master]) /\ EndComes => ReportEnded(queue[master])' /\ EndComes'
    BY <2>1 DEF EndComes, Clears
  <2>5. QED
    BY <2>2, <2>3, <2>4 DEF IInv, FlagInv
<1>7. ASSUME NEW p \in Phones, Answer(p) \/ HangUp(p) PROVE IInv'
  <2>1. PICK kind \in Reported : Phoned(kind, p)
    BY <1>7 DEF Answer, HangUp, Reported
  <2>2. /\ call' \in [Phones -> {"no", "in", "out", "active"}] /\ sco' \in Some
        /\ events' \in 0..MaxEvents
    BY <1>1, <1>7 DEF Answer, HangUp, Unbounded
  <2>3. kind \in Reports \ Nameless
    BY <1>4 DEF Reported
  <2>4. QED
    BY <1>2, <2>1, <2>2, <2>3, PhonedIInv
<1>8. ASSUME NEW p \in Phones, ScoUp(p) \/ ScoDown(p) PROVE IInv'
  <2>1. PICK kind \in {"SCO_ON", "SCO_OFF"} : Phoned(kind, p)
    BY <1>8 DEF ScoUp, ScoDown
  <2>2. call' = call /\ sco' \in Some /\ events' \in 0..MaxEvents
    BY <1>1, <1>2, <1>3, <1>8 DEF ScoUp, ScoDown, Unbounded, Bounded
  <2>3. ~Quiet' \/ (kind # "PHONE_INCOME" /\ Quiet)
    BY <2>1, <2>2 DEF Quiet
  <2>4. QED
    BY <1>1, <1>2, <1>4, <2>1, <2>2, <2>3, PhonedIInv
<1>9. ASSUME LinkUp PROVE IInv'
  BY <1>2, <1>9, LinkUpIInv
<1>10. QED
  BY <1>5, <1>6, <1>7, <1>8, <1>9 DEF World

LEMMA InitIInv == ASSUME Init PROVE IInv
<1>1. <<>> \in Seq(Command) /\ <<>> \in Seq(Message)
  OBVIOUS
<1>2. MaxEvents \in Nat /\ NoPhone \in Some
  BY RingAssumption DEF Some
<1>3. Typed
  <2>1. /\ [ring |-> FALSE, flag |-> FALSE, sync |-> FALSE, addr |-> NoPhone,
            coexist |-> NoPhone, timer |-> FALSE, second |-> 0, user |-> 0,
            esco |-> NoPhone, open |-> {}, out |-> <<>>] \in Rec
    BY <1>1, <1>2 DEF Rec
  <2>2. bud \in [Buds -> Rec] /\ \A b \in Buds : bud[b].out = <<>>
    BY <2>1 DEF Init
  <2>3. /\ queue \in [Buds -> Seq(Message)] /\ air \in Seq(Command)
        /\ call \in [Phones -> {"no", "in", "out", "active"}] /\ sco \in Some
    BY <1>1, <1>2 DEF Init
  <2>4. link \in BOOLEAN
    <3>1. link \in IF Cardinality(Buds) = 2 THEN BOOLEAN ELSE {FALSE}
      BY DEF Init
    <3>2. QED
      BY <3>1
  <2>5. /\ inband \subseteq Phones /\ master \in Buds
        /\ events \in 0..MaxEvents /\ late \subseteq {"ring", "audio"}
    BY <1>2 DEF Init
  <2>6. QED
    BY <2>2, <2>3, <2>4, <2>5 DEF Typed
<1>4. master \in Buds /\ air = <<>> /\ \A b \in Buds : queue[b] = <<>> /\ ~bud[b].flag
      /\ ~bud[b].timer /\ bud[b].second = 0 /\ bud[b].user = 0
  BY DEF Init
<1>5. Apart
  BY <1>4 DEF Apart
<1>6. Ended(<<>>) /\ ReportEnded(<<>>)
  BY DEF Ended, ReportEnded
<1>7. FlagInv
  BY <1>4, <1>6 DEF FlagInv, EndComes, Clears
<1>8. QED
  BY <1>3, <1>5, <1>7 DEF IInv

LEMMA NextIInv == ASSUME IInv, [Next]_vars PROVE IInv'
<1>1. CASE Next
  BY <1>1, WorldIInv, DeliverIInv, ProgramIInv DEF Next
<1>2. CASE UNCHANGED vars
  BY <1>2 DEF vars, IInv, Typed, Apart, FlagInv, EndComes, Clears, Quiet
<1>3. QED
  BY <1>1, <1>2

(***************************************************************************)
(* The call audio.  A bud follows the commands for its player in their     *)
(* order, and the master the reports of the phones; what it plays in the   *)
(* end is found by running through the messages that are still to come.    *)
(***************************************************************************)
Orders == {"OPEN_ESCO", "CLOSE_ESCO", "S_START_ENTER_ESCO"}
ScoReports == {"SCO_ON", "SCO_OFF"}
Opening == {"OPEN_ESCO", "S_START_ENTER_ESCO", "SCO_ON"}

\* The phone played after message m, if it was e before and the kinds K count.
After(K, e, m) ==
    IF m.kind \notin K THEN e
    ELSE IF m.kind \in Opening THEN IF e = NoPhone THEN m.of ELSE e
    ELSE IF e = m.of THEN NoPhone ELSE e

\* An opening finds nothing played, a closing what it closes.
Fits(K, e, m) == m.kind \in K => e = IF m.kind \in Opening THEN NoPhone ELSE m.of

Inert(K, q) == \A i \in DOMAIN q : q[i].kind \notin K

\* h is what is played before and after each message of q, from e to w; strict: each fits.
IsRun(K, strict, h, e, q, w) ==
    /\ h \in [0..Len(q) -> Some] /\ h[0] = e
    /\ \A i \in 1..Len(q) : h[i] = After(K, h[i - 1], q[i]) /\ (strict => Fits(K, h[i - 1], q[i]))
    /\ \A i \in 0..Len(q) : (\A j \in 1..Len(q) : j > i => q[j].kind \notin K) => h[i] = w
\* Played first e, then in turn what the messages of q make of it, w is played after them.
Leads(K, strict, e, q, w) == \E h \in [0..Len(q) -> Some] : IsRun(K, strict, h, e, q, w)

\* The other bud plays what the reports still to come will make the audio that is up.
Follows(b) ==
    IF link THEN \E v \in Some : /\ Leads(Orders, FALSE, bud[b].esco, queue[b], v)
                                 /\ Leads(ScoReports, FALSE, v, queue[master], sco)
    ELSE bud[b].esco = NoPhone
NoStart(q) == \A i \in DOMAIN q : q[i].kind # "S_START_ENTER_ESCO"
\* The master's commands, those that come back to it, and then the reports that it has not
\* handled yet end with the audio that is up; each of these reports fits what precedes it.
AudioBody ==
    /\ \E u, w \in Some : /\ Leads(Orders, FALSE, bud[master].esco, queue[master], u)
                          /\ Leads(Orders, FALSE, u, air, w)
                          /\ Leads(ScoReports, TRUE, w, queue[master], sco)
    /\ \A b \in Buds \ {master} : Follows(b)
AudioInv == NoStart(queue[master]) /\ ("audio" \notin late => AudioBody)

LEMMA AfterType ==
    ASSUME NEW K, NEW e \in Some, NEW m \in Message PROVE After(K, e, m) \in Some
BY DEF After, Message, Some

LEMMA LeadsEmpty ==
    ASSUME NEW K, NEW strict, NEW e \in Some, NEW w
    PROVE  Leads(K, strict, e, <<>>, w) <=> e = w
<1>1. Len(<<>>) = 0 /\ 0..0 = {0} /\ 1..0 = {}
  OBVIOUS
<1>2. ASSUME Leads(K, strict, e, <<>>, w) PROVE e = w
  <2>1. PICK h : IsRun(K, strict, h, e, <<>>, w)
    BY <1>2 DEF Leads
  <2>2. QED
    BY <1>1, <2>1 DEF IsRun
<1>3. ASSUME e = w PROVE Leads(K, strict, e, <<>>, w)
  <2> DEFINE h == [i \in {0} |-> e]
  <2>1. h \in [0..Len(<<>>) -> Some] /\ h[0] = e
    BY <1>1
  <2> HIDE DEF h
  <2>2. IsRun(K, strict, h, e, <<>>, w)
    BY <1>1, <1>3, <2>1 DEF IsRun
  <2>3. QED
    BY <2>1, <2>2 DEF Leads
<1>4. QED
  BY <1>2, <1>3

LEMMA LeadsInert ==
    ASSUME NEW K, NEW strict, NEW e \in Some, NEW q \in Seq(Message), Inert(K, q)
    PROVE  /\ Leads(K, strict, e, q, e)
           /\ \A w : Leads(K, strict, e, q, w) => e = w
<1> DEFINE n == Len(q)
           h == [i \in 0..n |-> e]
<1>1. n \in Nat /\ DOMAIN q = 1..n /\ 0 \in 0..n /\ \A i \in 1..n : i \in 0..n /\ i - 1 \in 0..n
  OBVIOUS
<1>2. h \in [0..n -> Some] /\ h[0] = e /\ \A i \in 0..n : h[i] = e
  BY <1>1
<1>3. \A i \in 1..n : q[i].kind \notin K
  BY <1>1 DEF Inert
<1>4. \A i \in 1..n : After(K, e, q[i]) = e /\ Fits(K, e, q[i])
  BY <1>3 DEF After, Fits
<1> HIDE DEF h
<1>5. \A i \in 1..n : h[i] = After(K, h[i - 1], q[i]) /\ Fits(K, h[i - 1], q[i])
  BY <1>1, <1>2, <1>4
<1>6. IsRun(K, strict, h, e, q, e)
  BY <1>2, <1>5 DEF IsRun
<1>7. ASSUME NEW w, Leads(K, strict, e, q, w) PROVE e = w
  <2>1. PICK g : IsRun(K, strict, g, e, q, w)
    BY <1>7 DEF Leads
  <2>2. g[0] = e /\ ((\A j \in 1..n : j > 0 => q[j].kind \notin K) => g[0] = w)
    BY <1>1, <2>1 DEF IsRun
  <2>3. QED
    BY <1>3, <2>2
<1>8. QED
  BY <1>2, <1>6, <1>7 DEF Leads

LEMMA LeadsAppend ==
    ASSUME NEW K, NEW strict, NEW e \in Some, NEW w, NEW q \in Seq(Message), NEW m \in Message,
           Leads(K, strict, e, q, w), strict => Fits(K, w, m)
    PROVE  w \in Some /\ Leads(K, strict, e, Append(q, m), After(K, w, m))
<1> DEFINE n == Len(q)
           r == Append(q, m)
           f == After(K, w, m)
<1>1. n \in Nat /\ DOMAIN q = 1..n /\ Len(r) = n + 1 /\ r[n + 1] = m /\ \A i \in 1..n : r[i] = q[i]
  OBVIOUS
<1>2. PICK h \in [0..n -> Some] : IsRun(K, strict, h, e, q, w)
  BY DEF Leads
<1>3. /\ h[0] = e
      /\ \A i \in 1..n : h[i] = After(K, h[i - 1], q[i]) /\ (strict => Fits(K, h[i - 1], q[i]))
      /\ \A i \in 0..n : (\A j \in 1..n : j > i => q[j].kind \notin K) => h[i] = w
  BY <1>2 DEF IsRun
<1>4. h[n] = w /\ w \in Some
  <2>1. n \in 0..n /\ \A j \in 1..n : ~(j > n)
    BY <1>1
  <2>2. QED
    BY <1>2, <1>3, <2>1
<1>5. f \in Some
  BY <1>4, AfterType
<1> DEFINE g == [i \in 0..(n + 1) |-> IF i = n + 1 THEN f ELSE h[i]]
<1>6. /\ g \in [0..(n + 1) -> Some] /\ g[n + 1] = f /\ g[0] = e
      /\ \A i \in 0..n : g[i] = h[i]
  <2>1. \A i \in 0..(n + 1) : i # n + 1 => i \in 0..n
    BY <1>1
  <2>2. n + 1 \in 0..(n + 1) /\ 0 \in 0..n /\ \A i \in 0..n : i \in 0..(n + 1) /\ i # n + 1
    BY <1>1
  <2>3. \A i \in 0..n : h[i] \in Some
    BY <1>2
  <2>4. g \in [0..(n + 1) -> Some]
    BY <1>5, <2>1, <2>3
  <2>5. QED
    BY <1>3, <2>2, <2>4
<1> HIDE DEF g
<1>7. \A i \in 1..(n + 1) : g[i] = After(K, g[i - 1], r[i]) /\ (strict => Fits(K, g[i - 1], r[i]))
  <2>1. TAKE i \in 1..(n + 1)
  <2>2. CASE i = n + 1
    <3>1. i - 1 = n /\ n \in 0..n
      BY <1>1, <2>2
    <3>2. g[i - 1] = w /\ r[i] = m /\ g[i] = f
      BY <1>1, <1>4, <1>6, <2>2, <3>1
    <3>3. QED
      BY <3>2
  <2>3. CASE i # n + 1
    <3>1. i \in 1..n /\ i \in 0..n /\ i - 1 \in 0..n
      BY <1>1, <2>3
    <3>2. QED
      BY <1>1, <1>3, <1>6, <3>1
  <2>4. QED
    BY <2>2, <2>3
<1>8. \A i \in 0..(n + 1) : (\A j \in 1..(n + 1) : j > i => r[j].kind \notin K) => g[i] = f
  <2>1. SUFFICES ASSUME NEW i \in 0..(n + 1), \A j \in 1..(n + 1) : j > i => r[j].kind \notin K
                 PROVE  g[i] = f
    OBVIOUS
  <2>2. CASE i # n + 1
    <3>1. i \in 0..n /\ n + 1 > i /\ n + 1 \in 1..(n + 1)
      BY <1>1, <2>2
    <3>2. m.kind \notin K
      BY <1>1, <2>1, <3>1
    <3>3. \A j \in 1..n : j > i => q[j].kind \notin K
      BY <1>1, <2>1
    <3>4. h[i] = w /\ f = w
      BY <1>3, <3>1, <3>2, <3>3 DEF After
    <3>5. QED
      BY <1>6, <3>1, <3>4
  <2>3. QED
    BY <1>6, <2>2
<1>9. IsRun(K, strict, g, e, r, f)
  BY <1>1, <1>6, <1>7, <1>8 DEF IsRun
<1>10. QED
  BY <1>1, <1>4, <1>6, <1>9 DEF Leads

LEMMA LeadsJoin ==
    ASSUME NEW K, NEW strict, NEW e \in Some, NEW w, NEW q \in Seq(Message), NEW o \in Seq(Message),
           Leads(K, strict, e, q, w), Inert(K, o)
    PROVE  Leads(K, strict, e, q \o o, w)
<1> DEFINE n == Len(q)
           k == Len(o)
           r == q \o o
<1>1. /\ n \in Nat /\ k \in Nat /\ DOMAIN o = 1..k /\ Len(r) = n + k
      /\ \A i \in 1..n : r[i] = q[i]
      /\ \A i \in 1..(n + k) : i > n => r[i] = o[i - n] /\ i - n \in 1..k
  OBVIOUS
<1>2. PICK h \in [0..n -> Some] : IsRun(K, strict, h, e, q, w)
  BY DEF Leads
<1>3. /\ h[0] = e
      /\ \A i \in 1..n : h[i] = After(K, h[i - 1], q[i]) /\ (strict => Fits(K, h[i - 1], q[i]))
      /\ \A i \in 0..n : (\A j \in 1..n : j > i => q[j].kind \notin K) => h[i] = w
  BY <1>2 DEF IsRun
<1>4. h[n] = w /\ w \in Some
  <2>1. n \in 0..n /\ \A j \in 1..n : ~(j > n)
    BY <1>1
  <2>2. QED
    BY <1>2, <1>3, <2>1
<1> DEFINE g == [i \in 0..(n + k) |-> IF i > n THEN w ELSE h[i]]
<1>5. /\ g \in [0..(n + k) -> Some] /\ g[0] = e
      /\ \A i \in 0..n : g[i] = h[i]
      /\ \A i \in 0..(n + k) : i > n => g[i] = w
  <2>1. \A i \in 0..(n + k) : ~(i > n) => i \in 0..n
    BY <1>1
  <2>2. 0 \in 0..n /\ \A i \in 0..n : i \in 0..(n + k) /\ ~(i > n)
    BY <1>1
  <2>3. \A i \in 0..n : h[i] \in Some
    BY <1>2
  <2>4. g \in [0..(n + k) -> Some]
    BY <1>4, <2>1, <2>3
  <2>5. QED
    BY <1>3, <2>2, <2>4
<1> HIDE DEF g
<1>6. \A i \in 1..(n + k) : i > n => r[i].kind \notin K
  BY <1>1 DEF Inert
<1>7. \A i \in 1..(n + k) : g[i] = After(K, g[i - 1], r[i]) /\ (strict => Fits(K, g[i - 1], r[i]))
  <2>1. TAKE i \in 1..(n + k)
  <2>2. CASE i > n
    <3>1. i - 1 \in 0..(n + k) /\ (i - 1 > n \/ i - 1 = n) /\ n \in 0..n /\ i \in 0..(n + k)
      BY <1>1, <2>2
    <3>2. g[i - 1] = w /\ g[i] = w
      BY <1>4, <1>5, <2>2, <3>1
    <3>3. QED
      BY <1>6, <2>2, <3>2 DEF After, Fits
  <2>3. CASE ~(i > n)
    <3>1. i \in 1..n /\ i \in 0..n /\ i - 1 \in 0..n
      BY <1>1, <2>3
    <3>2. QED
      BY <1>1, <1>3, <1>5, <3>1
  <2>4. QED
    BY <2>2, <2>3
<1>8. \A i \in 0..(n + k) : (\A j \in 1..(n + k) : j > i => r[j].kind \notin K) => g[i] = w
  <2>1. SUFFICES ASSUME NEW i \in 0..(n + k), \A j \in 1..(n + k) : j > i => r[j].kind \notin K
                 PROVE  g[i] = w
    OBVIOUS
  <2>2. CASE ~(i > n)
    <3>1. i \in 0..n /\ \A j \in 1..n : j \in 1..(n + k)
      BY <1>1, <2>2
    <3>2. \A j \in 1..n : j > i => q[j].kind \notin K
      BY <1>1, <2>1, <3>1
    <3>3. QED
      BY <1>3, <1>5, <3>1, <3>2
  <2>3. QED
    BY <1>5, <2>2
<1>9. IsRun(K, strict, g, e, r, w)
  BY <1>1, <1>5, <1>7, <1>8 DEF IsRun
<1>10. QED
  BY <1>1, <1>5, <1>9 DEF Leads

LEMMA LeadsTail ==
    ASSUME NEW K, NEW strict, NEW e \in Some, NEW w, NEW q \in Seq(Message), q # <<>>,
           Leads(K, strict, e, q, w)
    PROVE  /\ Leads(K, strict, After(K, e, Head(q)), Tail(q), w)
           /\ strict => Fits(K, e, Head(q))
<1> DEFINE n == Len(q)
           r == Tail(q)
<1>1. /\ n \in Nat /\ n >= 1 /\ Len(r) = n - 1 /\ Head(q) = q[1]
      /\ \A i \in 1..(n - 1) : r[i] = q[i + 1]
  OBVIOUS
<1>2. PICK h \in [0..n -> Some] : IsRun(K, strict, h, e, q, w)
  BY DEF Leads
<1>3. /\ h[0] = e
      /\ \A i \in 1..n : h[i] = After(K, h[i - 1], q[i]) /\ (strict => Fits(K, h[i - 1], q[i]))
      /\ \A i \in 0..n : (\A j \in 1..n : j > i => q[j].kind \notin K) => h[i] = w
  BY <1>2 DEF IsRun
<1> DEFINE g == [i \in 0..(n - 1) |-> h[i + 1]]
<1>4. g \in [0..(n - 1) -> Some] /\ \A i \in 0..(n - 1) : g[i] = h[i + 1]
  <2>1. \A i \in 0..(n - 1) : i + 1 \in 0..n
    BY <1>1
  <2>2. QED
    BY <1>2, <2>1
<1> HIDE DEF g
<1>5. h[1] = After(K, e, Head(q)) /\ (strict => Fits(K, e, Head(q))) /\ g[0] = h[1]
  <2>1. 1 \in 1..n /\ 1 - 1 = 0 /\ 0 \in 0..(n - 1) /\ 0 + 1 = 1
    BY <1>1
  <2>2. QED
    BY <1>1, <1>3, <1>4, <2>1
<1>6. \A i \in 1..(n - 1) : g[i] = After(K, g[i - 1], r[i]) /\ (strict => Fits(K, g[i - 1], r[i]))
  <2>1. TAKE i \in 1..(n - 1)
  <2>2. i + 1 \in 1..n /\ i \in 0..(n - 1) /\ i - 1 \in 0..(n - 1) /\ (i - 1) + 1 = i /\ (i + 1) - 1 = i
    BY <1>1
  <2>3. g[i] = h[i + 1] /\ g[i - 1] = h[i] /\ r[i] = q[i + 1]
    BY <1>1, <1>4, <2>2
  <2>4. QED
    BY <1>3, <2>2, <2>3
<1>7. \A i \in 0..(n - 1) : (\A j \in 1..(n - 1) : j > i => r[j].kind \notin K) => g[i] = w
  <2>1. SUFFICES ASSUME NEW i \in 0..(n - 1), \A j \in 1..(n - 1) : j > i => r[j].kind \notin K
                 PROVE  g[i] = w
    OBVIOUS
  <2>2. ASSUME NEW j \in 1..n, j > i + 1 PROVE q[j].kind \notin K
    <3>1. j - 1 \in 1..(n - 1) /\ j - 1 > i /\ (j - 1) + 1 = j
      BY <1>1, <2>2
    <3>2. r[j - 1] = q[j]
      BY <1>1, <3>1
    <3>3. QED
      BY <2>1, <3>1, <3>2
  <2>3. i + 1 \in 0..n
    BY <1>1
  <2>4. h[i + 1] = w
    BY <1>3, <2>2, <2>3
  <2>5. QED
    BY <1>4, <2>4
<1>8. IsRun(K, strict, g, After(K, e, Head(q)), r, w)
  BY <1>1, <1>4, <1>5, <1>6, <1>7 DEF IsRun
<1>9. QED
  BY <1>1, <1>4, <1>5, <1>8 DEF Leads

(***************************************************************************)
(* What the program does to the call audio: nothing (mute), what an order  *)
(* says, or it hands a report on as an order to both buds.                 *)
(***************************************************************************)

\* An operator that neither plays nor stops call audio, nor orders it.
Mute(x, y) == y.esco = x.esco /\ (Inert(Orders, x.out) => Inert(Orders, y.out))

LEMMA MuteTrans == ASSUME NEW x, NEW y, NEW z, Mute(x, y), Mute(y, z) PROVE Mute(x, z)
BY DEF Mute

LEMMA MutePost ==
    ASSUME NEW x \in Rec, NEW cmd \in Commands \ Orders, NEW p \in Some,
           cmd \notin Nameless => p \in Phones
    PROVE  Mute(x, Post(x, cmd, p))
<1> DEFINE m == Msg(cmd, p)
<1>1. m \in Command /\ m.kind = cmd
  BY Msgs
<1>2. x.out \in Seq(Command)
  BY DEF Rec
<1>3. Post(x, cmd, p) = [x EXCEPT !.out = Append(x.out, m)]
  BY DEF Post
<1> HIDE DEF m
<1>4. Post(x, cmd, p).esco = x.esco /\ Post(x, cmd, p).out = Append(x.out, m)
  BY <1>3 DEF Rec
<1>5. \A i \in DOMAIN Append(x.out, m) :
          Append(x.out, m)[i] = m \/ (i \in DOMAIN x.out /\ Append(x.out, m)[i] = x.out[i])
  BY <1>1, <1>2
<1>6. Inert(Orders, x.out) => Inert(Orders, Append(x.out, m))
  BY <1>1, <1>5 DEF Inert
<1>7. QED
  BY <1>4, <1>6 DEF Mute

LEMMA MutePlayRing ==
    ASSUME NEW x \in Rec, NEW p \in Some PROVE Mute(x, PlayRing(x, p))
<1> DEFINE y == [x EXCEPT !.coexist = p]
<1>1. y \in Rec /\ Mute(x, y)
  BY DEF Rec, Mute
<1>2. CASE link
  <2>1. PlayRing(x, p) = Post(y, "PLAY", NoPhone)
    BY <1>2 DEF PlayRing
  <2> HIDE DEF y
  <2>2. "PLAY" \in Commands \ Orders /\ "PLAY" \in Nameless /\ NoPhone \in Some
    BY DEF Commands, Nameless, Orders, Some
  <2>3. Mute(y, Post(y, "PLAY", NoPhone))
    BY <1>1, <2>2, MutePost
  <2>4. QED
    BY <1>1, <2>1, <2>3, MuteTrans
<1>3. CASE ~link
  BY <1>3 DEF PlayRing, Mute, Rec
<1>4. QED
  BY <1>2, <1>3

LEMMA MuteSecond ==
    ASSUME NEW b \in Buds, NEW x \in Rec
    PROVE  /\ Mute(x, phone_ring_play_start(b, x))
           /\ Mute(x, phone_second_call_ring_play_start(b, x))
           /\ Mute(x, user_phone_second_call_ring_play_start(b, x))
<1>1. x.addr \in Some
  BY DEF Rec
<1>2. Mute(x, x) /\ Mute(x, PlayRing(x, x.addr))
  BY <1>1, MutePlayRing DEF Mute
<1>3. QED
  BY <1>2 DEF phone_ring_play_start, phone_second_call_ring_play_start,
              user_phone_second_call_ring_play_start

LEMMA MuteTimed ==
    ASSUME NEW x \in Rec
    PROVE  /\ Mute(x, [x EXCEPT !.second = @ + 1]) /\ Mute(x, [x EXCEPT !.user = @ + 1])
           /\ Mute(x, [x EXCEPT !.second = @ - 1]) /\ Mute(x, [x EXCEPT !.user = @ - 1])
           /\ Mute(x, [x EXCEPT !.timer = FALSE]) /\ Mute(x, [x EXCEPT !.sync = TRUE])
           /\ Mute(x, [x EXCEPT !.sync = FALSE]) /\ Mute(x, [x EXCEPT !.flag = TRUE])
           /\ Mute(x, [x EXCEPT !.ring = TRUE]) /\ Mute(x, tone_ring_player_stop(x))
           /\ Mute(x, RingOver(x))
           /\ \A p : /\ Mute(x, [x EXCEPT !.coexist = p]) /\ Mute(x, Delay(x, p))
                     /\ Mute(x, IfSilent(x, p)) /\ Mute(x, [x EXCEPT !.addr = p, !.sync = TRUE])
                     /\ Mute(x, [x EXCEPT !.sync = TRUE, !.addr = p])
BY DEF Rec, Mute, tone_ring_player_stop, RingOver, Delay, IfSilent

LEMMA MuteIncome ==
    ASSUME NEW b \in Buds, NEW x \in Rec, NEW p \in Phones, NEW again \in BOOLEAN
    PROVE  Mute(x, bt_phone_income(b, x, p, again))
<1> DEFINE u == tone_ring_player_stop(x)
           y == [u EXCEPT !.sync = TRUE, !.addr = p]
           z == [y EXCEPT !.flag = TRUE]
<1>1. u \in Rec /\ Mute(x, u)
  BY StillStop, MuteTimed DEF Still
<1>2. y \in Rec /\ z \in Rec
  BY <1>1 DEF Rec, Some
<1>3. Mute(u, y) /\ Mute(y, z)
  BY <1>1, <1>2, MuteTimed
<1>4. bt_phone_income(b, x, p, again) \in {y, z, [z EXCEPT !.second = @ + 1],
                                           [z EXCEPT !.user = @ + 1], phone_ring_play_start(b, z)}
  BY DEF bt_phone_income
<1> HIDE DEF u, y, z
<1>5. Mute(x, y) /\ Mute(x, z)
  BY <1>1, <1>3, MuteTrans
<1>6. /\ Mute(z, [z EXCEPT !.second = @ + 1]) /\ Mute(z, [z EXCEPT !.user = @ + 1])
      /\ Mute(z, phone_ring_play_start(b, z))
  BY <1>2, MuteTimed, MuteSecond
<1>7. QED
  BY <1>4, <1>5, <1>6, MuteTrans

LEMMA MuteHangup ==
    ASSUME NEW b \in Buds, NEW x \in Rec, NEW p \in Phones
    PROVE  Mute(x, bt_phone_hangup(b, x, p))
<1> DEFINE q == Other(p)
           u == RingOver(x)
           y == [u EXCEPT !.addr = q, !.sync = TRUE]
<1>1. q \in Phones
  BY TheOther
<1>2. u \in Rec /\ Mute(x, u)
  BY RingOverClears, MuteTimed
<1>3. y \in Rec /\ Mute(u, y)
  BY <1>1, <1>2, MuteTimed DEF Rec, Some
<1>4. bt_phone_hangup(b, x, p)
          \in {u, y, Post(y, "INCOME_AGAIN", q), bt_phone_income(b, y, q, TRUE)}
  BY DEF bt_phone_hangup
<1> HIDE DEF y, q, u
<1>5. "INCOME_AGAIN" \in Commands \ Orders /\ q \in Some
  BY <1>1 DEF Commands, Orders, Some
<1>6. Mute(y, Post(y, "INCOME_AGAIN", q)) /\ Mute(y, bt_phone_income(b, y, q, TRUE))
  BY <1>1, <1>3, <1>5, MutePost, MuteIncome
<1>7. Mute(x, y)
  BY <1>2, <1>3, MuteTrans
<1>8. Mute(x, Post(y, "INCOME_AGAIN", q))
  BY <1>6, <1>7, MuteTrans
<1>9. Mute(x, bt_phone_income(b, y, q, TRUE))
  BY <1>6, <1>7, MuteTrans
<1>10. QED
  BY <1>2, <1>4, <1>7, <1>8, <1>9

LEMMA MuteOutband ==
    ASSUME NEW b \in Buds, NEW x \in Rec, NEW p \in Some
    PROVE  /\ Mute(x, bt_phone_outband_ring(b, x, p))
           /\ Mute(x, bt_phone_outband_ring_stop(x, p))
<1> DEFINE y == [x EXCEPT !.coexist = p]
<1>1. y \in Rec /\ Mute(x, y) /\ Mute(x, x) /\ Mute(x, tone_ring_player_stop(x))
  BY MuteTimed DEF Rec, Mute
<1>2. bt_phone_outband_ring(b, x, p) \in {y, PlayRing(y, p)}
  BY DEF bt_phone_outband_ring
<1> HIDE DEF y
<1>3. Mute(x, bt_phone_outband_ring(b, x, p))
  BY <1>1, <1>2, MutePlayRing, MuteTrans
<1>4. Mute(x, bt_phone_outband_ring_stop(x, p))
  BY <1>1 DEF bt_phone_outband_ring_stop
<1>5. QED
  BY <1>3, <1>4

LEMMA EscoObeys ==
    ASSUME NEW x \in Rec, NEW p \in Phones, NEW m, m.of = p
    PROVE  /\ m.kind \in {"OPEN_ESCO", "S_START_ENTER_ESCO"} =>
                  /\ bt_phone_esco_play(x, p).esco = After(Orders, x.esco, m)
                  /\ bt_phone_esco_play(x, p).out = x.out
           /\ m.kind = "CLOSE_ESCO" =>
                  /\ bt_phone_esco_stop(x, p).esco = After(Orders, x.esco, m)
                  /\ bt_phone_esco_stop(x, p).out = x.out
<1>1. p # NoPhone
  BY RingAssumption
<1>2. m.kind \in {"OPEN_ESCO", "S_START_ENTER_ESCO"} =>
          After(Orders, x.esco, m) = IF x.esco = NoPhone THEN p ELSE x.esco
  BY DEF After, Orders, Opening
<1>3. m.kind = "CLOSE_ESCO" => After(Orders, x.esco, m) = IF x.esco = p THEN NoPhone ELSE x.esco
  BY DEF After, Orders, Opening
<1>4. /\ bt_phone_esco_play(x, p).esco = IF x.esco = NoPhone THEN p ELSE x.esco
      /\ bt_phone_esco_play(x, p).out = x.out
  BY DEF bt_phone_esco_play, tone_ring_player_stop, Rec
<1>5. /\ bt_phone_esco_stop(x, p).esco = IF x.esco = p THEN NoPhone ELSE x.esco
      /\ bt_phone_esco_stop(x, p).out = x.out
  BY <1>1 DEF bt_phone_esco_stop, Rec
<1>6. QED
  BY <1>2, <1>3, <1>4, <1>5

LEMMA RunAudio ==
    ASSUME NEW b \in Buds, NEW x \in Rec, NEW m \in Message, m.kind \in Commands
    PROVE  LET y == Run(b, x, m.kind, m.of)
           IN  /\ m.kind \notin Orders => Mute(x, y)
               /\ m.kind \in Orders => y.esco = After(Orders, x.esco, m) /\ y.out = x.out
<1> DEFINE p == m.of
           y == Run(b, x, m.kind, p)
<1>1. p \in Some /\ (m.kind \notin Nameless => p \in Phones)
  BY DEF Message
<1>2. CASE m.kind \in {"INCOME", "INCOME_AGAIN", "HANGUP"}
  <2>1. p \in Phones /\ m.kind \notin Orders
    BY <1>1, <1>2 DEF Nameless, Orders
  <2>2. y \in {bt_phone_income(b, x, p, FALSE), bt_phone_income(b, x, p, TRUE),
               bt_phone_hangup(b, x, p)}
    BY <1>2 DEF Run
  <2>3. QED
    BY <2>1, <2>2, MuteIncome, MuteHangup
<1>3. CASE m.kind \in {"ACTIVE", "PLAY"}
  <2>1. y \in {RingOver(x), [x EXCEPT !.ring = TRUE]} /\ m.kind \notin Orders
    BY <1>3 DEF Run, Orders
  <2>2. QED
    BY <2>1, MuteTimed
<1>4. CASE m.kind = "OPEN_ESCO"
  <2>1. p \in Phones /\ y = bt_phone_esco_play(x, p)
    BY <1>1, <1>4 DEF Nameless, Run
  <2>2. QED
    BY <1>4, <2>1, EscoObeys DEF Orders
<1>5. CASE m.kind = "CLOSE_ESCO"
  <2>1. p \in Phones /\ y = bt_phone_esco_stop(x, p)
    BY <1>1, <1>5 DEF Nameless, Run
  <2>2. QED
    BY <1>5, <2>1, EscoObeys DEF Orders
<1>6. CASE m.kind \in {"OUTBAND_RING", "OUTBAND_RING_STOP"}
  <2>1. y \in {bt_phone_outband_ring(b, x, p), bt_phone_outband_ring_stop(x, p)}
        /\ m.kind \notin Orders
    BY <1>6 DEF Run, Orders
  <2>2. QED
    BY <1>1, <2>1, MuteOutband
<1>7. QED
  BY <1>2, <1>3, <1>4, <1>5, <1>6 DEF Commands

\* A command of the master to both buds: it is the last that is sent, or obeyed at once.
Ordered(x, y, m) ==
    IF link THEN /\ y.esco = x.esco
                 /\ \E o \in Seq(Message) : /\ Inert(Orders, x.out) => Inert(Orders, o)
                                            /\ y.out = Append(o, m)
    ELSE y.esco = After(Orders, x.esco, m)

LEMMA SendAudio ==
    ASSUME NEW b \in Buds, NEW x \in Rec, NEW cmd \in Commands, NEW p, Named(cmd, p)
    PROVE  LET y == tws_phone_call_send_cmd(b, x, cmd, p)
           IN  /\ cmd \notin Orders => Mute(x, y)
               /\ cmd \in Orders => Ordered(x, y, Msg(cmd, p))
<1> DEFINE m == Msg(cmd, p)
<1>1. m \in Command /\ m \in Message /\ m.kind = cmd /\ m.of = p /\ x.out \in Seq(Message)
  BY Msgs, CommandsAreMessages DEF Named, Rec
<1>2. CASE link
  <2>1. tws_phone_call_send_cmd(b, x, cmd, p) = Post(x, cmd, p)
    BY <1>2 DEF tws_phone_call_send_cmd
  <2>2. Post(x, cmd, p).esco = x.esco /\ Post(x, cmd, p).out = Append(x.out, m)
    BY DEF Post, Rec
  <2>3. QED
    BY <1>1, <1>2, <2>1, <2>2, MutePost DEF Ordered, Named
<1>3. CASE ~link
  <2>1. tws_phone_call_send_cmd(b, x, cmd, p) = Run(b, x, m.kind, m.of)
    BY <1>1, <1>3 DEF tws_phone_call_send_cmd
  <2> HIDE DEF m
  <2>2. QED
    BY <1>1, <1>3, <2>1, RunAudio DEF Ordered, m
<1>4. QED
  BY <1>2, <1>3

LEMMA MuteRingStop ==
    ASSUME NEW b \in Buds, NEW x \in Rec PROVE Mute(x, second_phone_call_ring_stop(b, x))
<1> DEFINE y == [x EXCEPT !.timer = FALSE]
<1>1. Mute(x, y) /\ y \in Rec
  BY MuteTimed DEF Rec
<1>2. x.coexist \in Some
  BY DEF Rec
<1>3. second_phone_call_ring_stop(b, x)
          = tws_phone_call_send_cmd(b, y, "OUTBAND_RING_STOP", x.coexist)
  BY DEF second_phone_call_ring_stop
<1> HIDE DEF y
<1>4. /\ "OUTBAND_RING_STOP" \in Commands /\ "OUTBAND_RING_STOP" \notin Orders
      /\ Named("OUTBAND_RING_STOP", x.coexist)
  BY <1>2 DEF Commands, Orders, Named, Nameless
<1>5. Mute(y, second_phone_call_ring_stop(b, x))
  BY <1>1, <1>3, <1>4, SendAudio
<1>6. QED
  BY <1>1, <1>5, MuteTrans

LEMMA ScoOrders ==
    ASSUME NEW b \in Buds, NEW x \in Rec, NEW p \in Phones
    PROVE  /\ Ordered(x, ScoOn(b, x, p), Msg("OPEN_ESCO", p))
           /\ x.esco \in {p, NoPhone} => Ordered(x, ScoOff(b, x, p), Msg("CLOSE_ESCO", p))
<1> DEFINE q == Other(p)
           u == second_phone_call_ring_stop(b, x)
           y == tws_phone_call_send_cmd(b, u, "OPEN_ESCO", p)
           z == tws_phone_call_send_cmd(b, u, "CLOSE_ESCO", p)
<1>1. Mute(x, u) /\ u \in Rec
  BY MuteRingStop, StillRingStop DEF Still
<1>2. ScoOn(b, x, p) \in {Delay(y, q), IfSilent(y, p), y}
  BY DEF ScoOn
<1>3. x.esco \in {p, NoPhone} =>
          ScoOff(b, x, p) \in {Delay(z, q), Delay(z, p), IfSilent(z, p), IfSilent(z, q), z}
  BY DEF ScoOff
<1> HIDE DEF u, q
<1>4. /\ {"OPEN_ESCO", "CLOSE_ESCO"} \subseteq Commands \cap Orders
      /\ \A cmd : Named(cmd, p)
  BY DEF Commands, Orders, Named, Some
<1>5. /\ Ordered(u, y, Msg("OPEN_ESCO", p)) /\ Ordered(u, z, Msg("CLOSE_ESCO", p))
      /\ y \in Rec /\ z \in Rec
  BY <1>1, <1>4, SendAudio, SendDoes
<1>6. Ordered(x, y, Msg("OPEN_ESCO", p)) /\ Ordered(x, z, Msg("CLOSE_ESCO", p))
  BY <1>1, <1>5 DEF Ordered, Mute
<1> HIDE DEF y, z
<1>7. \A r : /\ Delay(y, r).esco = y.esco /\ Delay(y, r).out = y.out
             /\ Delay(z, r).esco = z.esco /\ Delay(z, r).out = z.out
             /\ IfSilent(y, r).esco = y.esco /\ IfSilent(y, r).out = y.out
             /\ IfSilent(z, r).esco = z.esco /\ IfSilent(z, r).out = z.out
  BY <1>5 DEF Delay, IfSilent, Rec
<1>8. Ordered(x, ScoOn(b, x, p), Msg("OPEN_ESCO", p))
  BY <1>2, <1>6, <1>7 DEF Ordered
<1>9. x.esco \in {p, NoPhone} => Ordered(x, ScoOff(b, x, p), Msg("CLOSE_ESCO", p))
  BY <1>3, <1>6, <1>7 DEF Ordered
<1>10. QED
  BY <1>8, <1>9

\* The rest of what is handled.
LEMMA HandledAudio ==
    ASSUME NEW b \in Buds, NEW x \in Rec, NEW m \in Message
    PROVE  LET y == Handled(b, x, m.kind, m.of)
           IN  /\ m.kind \in Orders => y.esco = After(Orders, x.esco, m) /\ y.out = x.out
               /\ m.kind \notin Orders /\ (m.kind \notin ScoReports \/ ~Master(b)) => Mute(x, y)
               /\ Master(b) /\ m.kind = "SCO_ON" => Ordered(x, y, Msg("OPEN_ESCO", m.of))
               /\ Master(b) /\ m.kind = "SCO_OFF" /\ x.esco \in {m.of, NoPhone}
                      => Ordered(x, y, Msg("CLOSE_ESCO", m.of))
<1> DEFINE p == m.of
           y == Handled(b, x, m.kind, p)
<1>1. /\ m.kind \in Reports \cup Commands /\ p \in Some /\ Named(m.kind, p)
      /\ m.kind \notin Nameless => p \in Phones
  BY DEF Message, Named
<1>2. CASE m.kind \in Commands
  <2>1. y = Run(b, x, m.kind, p)
    BY <1>2 DEF Handled, Commands
  <2>2. m.kind \notin ScoReports
    BY <1>2 DEF Commands, ScoReports
  <2>3. QED
    BY <1>2, <2>1, <2>2, RunAudio DEF ScoReports
<1>3. CASE m.kind = "CONNECTED"
  <2>1. y = [x EXCEPT !.sync = FALSE]
    BY <1>3 DEF Handled, Commands
  <2>2. QED
    BY <1>3, <2>1, MuteTimed DEF Orders, ScoReports
<1>4. CASE m.kind = "MONITOR_START"
  <2> DEFINE u == [x EXCEPT !.sync = TRUE]
  <2>1. y = MonitorStart(b, x, p) /\ p \in Phones
    BY <1>1, <1>4 DEF Handled, Nameless, Commands
  <2>2. y \in {x, tws_phone_call_send_cmd(b, u, "INCOME", p),
               tws_phone_call_send_cmd(b, x, "OUTBAND_RING", p)}
    BY <2>1 DEF MonitorStart
  <2>3. u \in Rec /\ Mute(x, u) /\ Mute(x, x)
    BY MuteTimed DEF Rec, Mute
  <2> HIDE DEF u
  <2>4. {"OUTBAND_RING", "INCOME"} \subseteq Commands \ Orders /\ \A cmd : Named(cmd, p)
    BY <2>1 DEF Commands, Orders, Named, Some
  <2>5. /\ Mute(u, tws_phone_call_send_cmd(b, u, "INCOME", p))
        /\ Mute(x, tws_phone_call_send_cmd(b, x, "OUTBAND_RING", p))
    BY <2>3, <2>4, SendAudio
  <2>6. Mute(x, y)
    BY <2>2, <2>3, <2>5, MuteTrans
  <2>7. QED
    BY <1>4, <2>6 DEF Orders, ScoReports
<1>5. CASE m.kind = "S_START_ENTER_ESCO"
  <2>1. y = bt_phone_esco_play(x, p) /\ p \in Phones
    BY <1>1, <1>5 DEF Handled, Nameless, Commands
  <2>2. QED
    BY <1>5, <2>1, EscoObeys DEF Orders, ScoReports
<1>6. CASE m.kind \in {"PHONE_INCOME", "PHONE_ACTIVE", "PHONE_HANGUP", "SCO_ON", "SCO_OFF"}
  <2>1. y = PhoneStatus(b, x, m.kind, p) /\ p \in Phones /\ m.kind \notin Orders
    BY <1>1, <1>6 DEF Handled, Nameless, Commands, Orders
  <2>2. CASE ~Master(b)
    <3>1. y = x
      BY <2>1, <2>2 DEF PhoneStatus
    <3>2. Mute(x, y)
      BY <3>1 DEF Mute
    <3>3. QED
      BY <2>1, <2>2, <3>2
  <2>3. CASE Master(b) /\ m.kind = "PHONE_INCOME"
    <3> DEFINE u == [x EXCEPT !.sync = TRUE]
    <3>1. y = PhoneIncome(b, x, p)
      BY <2>1, <2>3 DEF PhoneStatus
    <3>2. y \in {u, tws_phone_call_send_cmd(b, u, "OUTBAND_RING", p),
                 tws_phone_call_send_cmd(b, u, "INCOME", p)}
      BY <3>1 DEF PhoneIncome
    <3>3. u \in Rec /\ Mute(x, u)
      BY MuteTimed DEF Rec
    <3> HIDE DEF u
    <3>4. {"OUTBAND_RING", "INCOME"} \subseteq Commands \ Orders /\ \A cmd : Named(cmd, p)
      BY <2>1 DEF Commands, Orders, Named, Some
    <3>5. /\ Mute(u, tws_phone_call_send_cmd(b, u, "INCOME", p))
          /\ Mute(u, tws_phone_call_send_cmd(b, u, "OUTBAND_RING", p))
      BY <3>3, <3>4, SendAudio
    <3>6. Mute(x, y)
      BY <3>2, <3>3, <3>5, MuteTrans
    <3>7. QED
      BY <2>1, <2>3, <3>6
  <2>4. CASE Master(b) /\ m.kind \in {"PHONE_ACTIVE", "PHONE_HANGUP"}
    <3> DEFINE u == second_phone_call_ring_stop(b, x)
    <3>1. PICK cmd \in Ending : y = tws_phone_call_send_cmd(b, u, cmd, p)
      BY <2>1, <2>4 DEF PhoneStatus, Ending
    <3>2. u \in Rec /\ Mute(x, u)
      BY MuteRingStop, StillRingStop DEF Still
    <3> HIDE DEF u
    <3>3. cmd \in Commands \ Orders /\ Named(cmd, p)
      BY <2>1 DEF Ending, Commands, Orders, Named, Some
    <3>4. Mute(u, y)
      BY <3>1, <3>2, <3>3, SendAudio
    <3>5. Mute(x, y)
      BY <3>2, <3>4, MuteTrans
    <3>6. QED
      BY <2>1, <2>4, <3>5
  <2>5. CASE Master(b) /\ m.kind = "SCO_ON"
    <3>1. y = ScoOn(b, x, p)
      BY <2>1, <2>5 DEF PhoneStatus
    <3>2. QED
      BY <2>1, <2>5, <3>1, ScoOrders DEF ScoReports
  <2>6. CASE Master(b) /\ m.kind = "SCO_OFF"
    <3>1. y = ScoOff(b, x, p)
      BY <2>1, <2>6 DEF PhoneStatus
    <3>2. QED
      BY <2>1, <2>6, <3>1, ScoOrders DEF ScoReports
  <2>7. QED
    BY <1>6, <2>2, <2>3, <2>4, <2>5, <2>6
<1>7. QED
  BY <1>1, <1>2, <1>3, <1>4, <1>5, <1>6 DEF Reports

(***************************************************************************)
(* The steps of the program.                                               *)
(***************************************************************************)

LEMMA AudioKinds ==
    /\ \A m \in Command : m.kind \notin ScoReports /\ m.kind # "S_START_ENTER_ESCO"
    /\ \A o \in Seq(Command) : Inert(ScoReports, o) /\ NoStart(o)
<1>1. \A m \in Command : m.kind \notin ScoReports /\ m.kind # "S_START_ENTER_ESCO"
  BY DEF Command, Commands, ScoReports
<1>2. ASSUME NEW o \in Seq(Command) PROVE Inert(ScoReports, o) /\ NoStart(o)
  <2>1. \A i \in DOMAIN o : o[i] \in Command
    OBVIOUS
  <2>2. QED
    BY <1>1, <2>1 DEF Inert, NoStart
<1>3. QED
  BY <1>1, <1>2

LEMMA NoStartKept ==
    ASSUME NEW q \in Seq(Message), NoStart(q)
    PROVE  /\ q # <<>> => NoStart(Tail(q))
           /\ \A m \in Message : m.kind # "S_START_ENTER_ESCO" => NoStart(Append(q, m))
           /\ \A o \in Seq(Message) : NoStart(o) => NoStart(q \o o)
<1>1. q # <<>> => NoStart(Tail(q))
  BY Rest DEF NoStart
<1>2. ASSUME NEW m \in Message, m.kind # "S_START_ENTER_ESCO" PROVE NoStart(Append(q, m))
  <2>1. \A i \in DOMAIN Append(q, m) :
            Append(q, m)[i] = m \/ (i \in DOMAIN q /\ Append(q, m)[i] = q[i])
    OBVIOUS
  <2>2. QED
    BY <1>2, <2>1 DEF NoStart
<1>3. ASSUME NEW o \in Seq(Message), NoStart(o) PROVE NoStart(q \o o)
  BY <1>3, Joined DEF NoStart
<1>4. QED
  BY <1>1, <1>2, <1>3

\* A step of the program that orders no call audio.
LEMMA MuteStep ==
    ASSUME Typed, Apart, AudioInv, NEW b \in Buds, NEW y \in Rec, NEW rest \in Seq(Message),
           Done(b, y, rest), late \subseteq late', late' \subseteq {"ring", "audio"},
           ~link => b = master /\ y.out = <<>>,
           Inert(Orders, y.out),
           \A v : Leads(Orders, FALSE, bud[b].esco, queue[b], v) => Leads(Orders, FALSE, y.esco, rest, v),
           b = master => /\ NoStart(rest)
                         /\ \A v \in Some : \A strict \in BOOLEAN :
                                Leads(ScoReports, strict, v, queue[b], sco)
                                    => Leads(ScoReports, strict, v, rest, sco)
    PROVE  AudioInv'
<1>1. /\ queue'[b] = rest
      /\ \A c \in Buds \ {b} : queue'[c] = queue[c] \o y.out /\ bud'[c] = bud[c]
      /\ air' = air \o y.out /\ y.out \in Seq(Message)
      /\ UNCHANGED <<link, master>>
  BY DoneDoes
<1>2. bud'[b].esco = y.esco /\ sco' = sco
  <2>1. bud'[b] = [y EXCEPT !.out = <<>>] /\ sco' = sco
    BY DEF Done, Typed
  <2>2. QED
    BY <2>1 DEF Rec
<1>3. /\ y.out \in Seq(Command) /\ Inert(ScoReports, y.out) /\ NoStart(y.out)
      /\ air \in Seq(Message) /\ queue \in [Buds -> Seq(Message)] /\ master \in Buds
      /\ \A c \in Buds : bud[c].esco \in Some
  BY AudioKinds, CommandsAreMessages DEF Typed, Rec
<1>4. ASSUME NEW c \in Buds, NEW v, Leads(Orders, FALSE, bud[c].esco, queue[c], v)
      PROVE  Leads(Orders, FALSE, bud'[c].esco, queue'[c], v)
  <2>1. CASE c = b
    BY <1>1, <1>2, <1>4, <2>1
  <2>2. CASE c # b
    <3>1. queue'[c] = queue[c] \o y.out /\ bud'[c] = bud[c] /\ queue[c] \in Seq(Message)
      BY <1>1, <1>3, <2>2
    <3>2. Leads(Orders, FALSE, bud[c].esco, queue[c] \o y.out, v)
      BY <1>1, <1>3, <1>4, <3>1, LeadsJoin
    <3>3. QED
      BY <3>1, <3>2
  <2>3. QED
    BY <2>1, <2>2
<1>5. ASSUME NEW strict \in BOOLEAN, NEW v \in Some,
             Leads(ScoReports, strict, v, queue[master], sco)
      PROVE  Leads(ScoReports, strict, v, queue'[master], sco)
  <2>1. CASE master = b
    BY <1>1, <1>5, <2>1
  <2>2. CASE master # b
    <3>1. queue'[master] = queue[master] \o y.out /\ queue[master] \in Seq(Message)
      BY <1>1, <1>3, <2>2
    <3>2. Leads(ScoReports, strict, v, queue[master] \o y.out, sco)
      BY <1>1, <1>3, <1>5, <3>1, LeadsJoin
    <3>3. QED
      BY <3>1, <3>2
  <2>3. QED
    BY <2>1, <2>2
<1>6. NoStart(queue'[master])
  <2>1. NoStart(queue[master]) /\ queue[master] \in Seq(Message)
    BY <1>3 DEF AudioInv
  <2>2. CASE master = b
    BY <1>1, <2>2
  <2>3. CASE master # b
    BY <1>1, <1>3, <2>1, <2>3, NoStartKept
  <2>4. QED
    BY <2>2, <2>3
<1>7. ASSUME "audio" \notin late' PROVE AudioBody'
  <2>1. AudioBody
    BY <1>7 DEF AudioInv
  <2>2. PICK u \in Some, w \in Some :
            /\ Leads(Orders, FALSE, bud[master].esco, queue[master], u)
            /\ Leads(Orders, FALSE, u, air, w)
            /\ Leads(ScoReports, TRUE, w, queue[master], sco)
    BY <2>1 DEF AudioBody
  <2>3. /\ Leads(Orders, FALSE, bud'[master].esco, queue'[master], u)
        /\ Leads(Orders, FALSE, u, air', w)
        /\ Leads(ScoReports, TRUE, w, queue'[master], sco)
    BY <1>1, <1>3, <1>4, <1>5, <2>2, LeadsJoin
  <2>4. ASSUME NEW c \in Buds \ {master} PROVE Follows(c)'
    <3>1. Follows(c)
      BY <2>1 DEF AudioBody
    <3>2. CASE link
      <4>1. PICK v \in Some : /\ Leads(Orders, FALSE, bud[c].esco, queue[c], v)
                              /\ Leads(ScoReports, FALSE, v, queue[master], sco)
        BY <3>1, <3>2 DEF Follows
      <4>2. /\ Leads(Orders, FALSE, bud'[c].esco, queue'[c], v)
            /\ Leads(ScoReports, FALSE, v, queue'[master], sco)
        BY <1>4, <1>5, <4>1
      <4>3. QED
        BY <1>1, <1>2, <3>2, <4>2 DEF Follows
    <3>3. CASE ~link
      BY <1>1, <3>1, <3>3 DEF Follows
    <3>4. QED
      BY <3>2, <3>3
  <2>5. QED
    BY <1>1, <1>2, <2>3, <2>4 DEF AudioBody
<1>8. QED
  BY <1>1, <1>6, <1>7 DEF AudioInv

\* The master hands on that call audio has come up or gone.
LEMMA ScoStep ==
    ASSUME Typed, Apart, AudioInv, NEW b \in Buds, b = master, queue[b] # <<>>,
           NEW y \in Rec, NEW k, k = Head(queue[b]), NEW rest \in Seq(Message), rest = Tail(queue[b]),
           Done(b, y, rest), late \subseteq late',
           late' \subseteq {"ring", "audio"}, "audio" \notin late',
           NEW m \in Message, m.of = k.of,
           \/ k.kind = "SCO_ON" /\ m.kind = "OPEN_ESCO"
           \/ k.kind = "SCO_OFF" /\ m.kind = "CLOSE_ESCO",
           ~link => y.out = <<>>,
           Ordered(bud[b], y, m)
    PROVE  AudioInv'
<1>1. /\ b \in Buds /\ queue \in [Buds -> Seq(Message)] /\ queue[b] \in Seq(Message)
      /\ k \in Message /\ rest \in Seq(Message) /\ air \in Seq(Message)
      /\ \A c \in Buds : bud[c].esco \in Some /\ bud[c].out = <<>>
      /\ y.out \in Seq(Command)
  BY Rest, CommandsAreMessages DEF Typed, Rec
<1>2. /\ queue'[b] = rest
      /\ \A c \in Buds \ {b} : queue'[c] = queue[c] \o y.out /\ bud'[c] = bud[c]
      /\ air' = air \o y.out /\ y.out \in Seq(Message)
      /\ UNCHANGED <<link, master>>
  BY ONLY Typed, b \in Buds, y \in Rec, rest \in Seq(Message), Done(b, y, rest),
          late' \subseteq {"ring", "audio"}, DoneDoes
<1>3. bud'[b].esco = y.esco /\ sco' = sco
  <2>1. bud'[b] = [y EXCEPT !.out = <<>>] /\ sco' = sco
    BY DEF Done, Typed
  <2>2. QED
    BY <2>1 DEF Rec
<1>4. /\ k.kind \notin Orders /\ m.kind \notin ScoReports
      /\ \A e : After(Orders, e, m) = After(ScoReports, e, k)
      /\ \A e : After(Orders, e, k) = e
  BY DEF Orders, ScoReports, After, Opening
<1>5. NoStart(queue[b]) /\ NoStart(rest) /\ AudioBody
  BY <1>1, NoStartKept DEF AudioInv
<1>6. PICK u \in Some, w \in Some :
          /\ Leads(Orders, FALSE, bud[b].esco, queue[b], u)
          /\ Leads(Orders, FALSE, u, air, w)
          /\ Leads(ScoReports, TRUE, w, queue[b], sco)
  BY <1>5 DEF AudioBody
<1> DEFINE f == After(Orders, w, m)
<1>7. f \in Some /\ Leads(ScoReports, TRUE, f, rest, sco)
  BY <1>1, <1>4, <1>6, AfterType, LeadsTail
<1>8. CASE link
  <2>1. PICK o \in Seq(Message) : y.out = Append(o, m) /\ Inert(Orders, o)
    <3>1. Inert(Orders, <<>>)
      BY DEF Inert
    <3>2. QED
      BY <1>1, <1>8, <3>1 DEF Ordered
  <2>2. ASSUME NEW q \in Seq(Message), NEW e \in Some, NEW v, Leads(Orders, FALSE, e, q, v)
        PROVE  v \in Some /\ Leads(Orders, FALSE, e, q \o y.out, After(Orders, v, m))
    <3>1. Leads(Orders, FALSE, e, q \o o, v)
      BY <2>1, <2>2, LeadsJoin
    <3>5. q \o o \in Seq(Message)
      BY <2>1, <2>2
    <3>2. q \o Append(o, m) = Append(q \o o, m)
      OBVIOUS
    <3>3. v \in Some /\ Leads(Orders, FALSE, e, Append(q \o o, m), After(Orders, v, m))
      BY <3>1, <3>5, LeadsAppend
    <3>4. QED
      BY <2>1, <3>2, <3>3
  <2>3. Leads(Orders, FALSE, y.esco, rest, u)
    <3>1. y.esco = bud[b].esco
      BY <1>8 DEF Ordered
    <3>2. Leads(Orders, FALSE, After(Orders, bud[b].esco, k), rest, u)
      BY <1>1, <1>6, LeadsTail
    <3>3. QED
      BY <1>4, <3>1, <3>2
  <2>4. Leads(Orders, FALSE, u, air', f)
    BY <1>1, <1>2, <1>6, <2>2
  <2>5. ASSUME NEW c \in Buds \ {b} PROVE Follows(c)'
    <3>1. PICK v \in Some : /\ Leads(Orders, FALSE, bud[c].esco, queue[c], v)
                            /\ Leads(ScoReports, FALSE, v, queue[b], sco)
      BY <1>5, <1>8 DEF AudioBody, Follows
    <3>2. After(Orders, v, m) \in Some
      BY AfterType
    <3>3. Leads(Orders, FALSE, bud[c].esco, queue[c] \o y.out, After(Orders, v, m))
      BY <1>1, <2>2, <3>1
    <3>4. Leads(ScoReports, FALSE, After(Orders, v, m), rest, sco)
      <4>1. Leads(ScoReports, FALSE, After(ScoReports, v, k), rest, sco)
        BY <1>1, <3>1, LeadsTail
      <4>2. QED
        BY <1>4, <4>1
    <3>5. bud'[c] = bud[c] /\ queue'[c] = queue[c] \o y.out /\ queue'[master'] = rest /\ link'
      BY <1>2, <1>8
    <3>6. QED
      BY <1>3, <3>2, <3>3, <3>4, <3>5 DEF Follows
  <2>6. queue'[master'] = rest /\ bud'[master'].esco = y.esco
    BY <1>2, <1>3
  <2>7. AudioBody'
    BY <1>2, <1>3, <1>7, <2>3, <2>4, <2>5, <2>6 DEF AudioBody
  <2>8. QED
    BY <1>5, <2>6, <2>7 DEF AudioInv
<1>9. CASE ~link
  <2>1. air = <<>> /\ y.out = <<>> /\ air' = <<>>
    BY <1>2, <1>9 DEF Apart
  <2>2. Inert(Orders, queue[b])
    <3>1. \A i \in DOMAIN queue[b] : queue[b][i].kind \notin Commands
      BY <1>9 DEF Apart
    <3>2. QED
      BY <1>5, <3>1 DEF Inert, NoStart, Orders, Commands
  <2>3. Inert(Orders, rest)
    BY <1>1, <2>2, Rest DEF Inert
  <2>11. bud[b].esco = u
    BY <1>1, <1>6, <2>2, LeadsInert
  <2>12. u = w
    <3>1. Leads(Orders, FALSE, u, <<>>, w)
      BY <1>6, <2>1
    <3>3. Inert(Orders, <<>>) /\ <<>> \in Seq(Message)
      BY DEF Inert
    <3>2. QED
      BY <3>1, <3>3, LeadsInert
  <2>4. bud[b].esco = u /\ u = w
    BY <2>11, <2>12
  <2>5. y.esco = f
    BY <1>9, <2>4 DEF Ordered
  <2>13. Leads(Orders, FALSE, f, rest, f)
    BY <1>1, <1>7, <2>3, LeadsInert
  <2>14. Leads(Orders, FALSE, f, <<>>, f)
    BY <1>7, LeadsEmpty
  <2>6. Leads(Orders, FALSE, y.esco, rest, f) /\ Leads(Orders, FALSE, f, air', f)
    BY <2>1, <2>5, <2>13, <2>14
  <2>7. \A c \in Buds \ {b} : Follows(c)'
    BY <1>2, <1>5, <1>9 DEF AudioBody, Follows
  <2>8. queue'[master'] = rest /\ bud'[master'].esco = y.esco
    BY <1>2, <1>3
  <2>9. AudioBody'
    BY <1>2, <1>3, <1>7, <2>6, <2>7, <2>8 DEF AudioBody
  <2>10. QED
    BY <1>5, <2>8, <2>9 DEF AudioInv
<1>10. QED
  BY <1>8, <1>9

LEMMA HandleAudio ==
    ASSUME IInv, AudioInv, NEW b \in Buds, Handle(b) PROVE AudioInv'
<1> DEFINE x == bud[b]
           k == Head(queue[b])
           rest == Tail(queue[b])
           y == Handled(b, x, k.kind, k.of)
           comes == rest \o air
<1>1. /\ Typed /\ Apart /\ queue[b] # <<>> /\ Done(b, y, rest)
      /\ late' = late \cup Outruns(k.kind, comes)
  BY DEF Handle, IInv
<1>2. /\ x \in Rec /\ x.esco \in Some /\ x.out = <<>> /\ queue[b] \in Seq(Message)
      /\ air \in Seq(Command) /\ air \in Seq(Message) /\ late \subseteq {"ring", "audio"}
  BY <1>1, CommandsAreMessages DEF Typed, Rec
<1>3. k \in Message /\ rest \in Seq(Message)
  BY <1>1, <1>2, Rest
<1>4. late \subseteq late' /\ late' \subseteq {"ring", "audio"}
  BY <1>1, <1>2 DEF Outruns
<1>5. y \in Rec /\ (~link => y.out = <<>>)
  BY <1>2, <1>3, HandledDoes DEF Handles
<1>6. /\ k.kind \in Orders => y.esco = After(Orders, x.esco, k) /\ y.out = x.out
      /\ k.kind \notin Orders /\ (k.kind \notin ScoReports \/ ~Master(b)) => Mute(x, y)
      /\ Master(b) /\ k.kind = "SCO_ON" => Ordered(x, y, Msg("OPEN_ESCO", k.of))
      /\ Master(b) /\ k.kind = "SCO_OFF" /\ x.esco \in {k.of, NoPhone}
             => Ordered(x, y, Msg("CLOSE_ESCO", k.of))
  BY <1>2, <1>3, HandledAudio
<1>7. (~link => b = master) /\ (Master(b) <=> b = master)
  BY <1>1 DEF Apart, Master
<1> HIDE DEF y, k, rest, comes, x
<1>8. queue[b] # <<>> /\ k = Head(queue[b]) /\ rest = Tail(queue[b]) /\ x = bud[b]
      /\ comes = rest \o air
  BY <1>1 DEF k, rest, x, comes
<1>9. \A K, strict, v, w : v \in Some /\ Leads(K, strict, v, queue[b], w) =>
          Leads(K, strict, After(K, v, k), rest, w) /\ (strict => Fits(K, v, k))
  BY <1>2, <1>8, LeadsTail
<1>10. b = master => NoStart(queue[b]) /\ NoStart(rest)
  BY <1>2, <1>8, NoStartKept DEF AudioInv
<1>11. CASE k.kind \notin ScoReports \/ ~Master(b)
  <2>1. Inert(Orders, <<>>)
    BY DEF Inert
  <2>4. y.esco = After(Orders, x.esco, k) /\ Inert(Orders, y.out)
    <3>1. CASE k.kind \in Orders
      BY <1>2, <1>6, <2>1, <3>1
    <3>2. CASE k.kind \notin Orders
      <4>1. y.esco = x.esco /\ Inert(Orders, y.out)
        BY <1>2, <1>6, <1>11, <2>1, <3>2 DEF Mute
      <4>2. After(Orders, x.esco, k) = x.esco
        BY <3>2 DEF After
      <4>3. QED
        BY <4>1, <4>2
    <3>3. QED
      BY <3>1, <3>2
  <2>5. \A v : Leads(Orders, FALSE, bud[b].esco, queue[b], v) => Leads(Orders, FALSE, y.esco, rest, v)
    BY <1>2, <1>8, <1>9, <2>4
  <2>6. ASSUME b = master
        PROVE  /\ NoStart(rest)
               /\ \A v \in Some : \A strict \in BOOLEAN :
                      Leads(ScoReports, strict, v, queue[b], sco)
                          => Leads(ScoReports, strict, v, rest, sco)
    <3>1. \A v : After(ScoReports, v, k) = v
      BY <1>7, <1>11, <2>6 DEF After
    <3>2. QED
      BY <1>9, <1>10, <2>6, <3>1
  <2>7. QED
    BY <1>1, <1>3, <1>4, <1>5, <1>7, <2>4, <2>5, <2>6, MuteStep
<1>12. CASE Master(b) /\ k.kind \in ScoReports
  <2>1. b = master /\ (k.kind = "SCO_ON" \/ k.kind = "SCO_OFF") /\ k.kind \notin Nameless
    BY <1>7, <1>12 DEF ScoReports, Nameless
  <2>2. k.of \in Phones
    BY <1>3, <2>1 DEF Message
  <2>3. CASE "audio" \in late'
    <3>1. queue'[b] = rest /\ master' = master
      BY <1>1, <1>3, <1>4, <1>5, DoneDoes
    <3>2. QED
      BY <1>10, <2>1, <2>3, <3>1 DEF AudioInv
  <2>4. CASE "audio" \notin late'
    <3>1. ASSUME k.kind = "SCO_OFF" PROVE x.esco = k.of
      <4>1. AudioBody
        BY <1>4, <2>4 DEF AudioInv
      <4>2. PICK u \in Some, w \in Some :
                /\ Leads(Orders, FALSE, x.esco, queue[b], u)
                /\ Leads(Orders, FALSE, u, air, w)
                /\ Leads(ScoReports, TRUE, w, queue[b], sco)
        BY <1>8, <2>1, <4>1 DEF AudioBody
      <4>3. w = k.of
        <5>1. Fits(ScoReports, w, k)
          BY <1>9, <4>2
        <5>2. QED
          BY <3>1, <5>1 DEF Fits, ScoReports, Opening
      <4>4. \A i \in DOMAIN comes : comes[i].kind \notin {"OPEN_ESCO", "CLOSE_ESCO"}
        BY <1>1, <2>4, <3>1 DEF Outruns, OutrunsAudio, Comes
      <4>5. Inert(Orders, air)
        <5>1. ASSUME NEW i \in DOMAIN air PROVE air[i].kind \notin {"OPEN_ESCO", "CLOSE_ESCO"}
          <6>1. Len(rest) + i \in DOMAIN (rest \o air) /\ (rest \o air)[Len(rest) + i] = air[i]
            BY ONLY <1>2, <1>3, rest \in Seq(Message), air \in Seq(Message), i \in DOMAIN air, Joined
          <6>2. QED
            BY <1>8, <4>4, <6>1
        <5>2. NoStart(air)
          BY <1>2, AudioKinds
        <5>3. QED
          BY <5>1, <5>2 DEF Inert, NoStart, Orders
      <4>6. Inert(Orders, queue[b])
        <5>1. \A i \in DOMAIN rest : rest[i].kind \notin {"OPEN_ESCO", "CLOSE_ESCO"}
          BY <1>2, <1>3, <1>8, <4>4, Joined
        <5>2. \A i \in DOMAIN queue[b] : \/ i = 1 /\ queue[b][i] = k
                                         \/ i - 1 \in DOMAIN rest /\ queue[b][i] = rest[i - 1]
          BY <1>2, <1>8, Rest
        <5>3. \A i \in DOMAIN queue[b] : queue[b][i].kind \notin {"OPEN_ESCO", "CLOSE_ESCO"}
          BY <3>1, <5>1, <5>2
        <5>4. NoStart(queue[b])
          BY <1>10, <2>1
        <5>5. QED
          BY <5>3, <5>4 DEF Inert, NoStart, Orders
      <4>7. x.esco = u
        BY <1>2, <4>2, <4>6, LeadsInert
      <4>8. u = w
        BY <1>2, <4>2, <4>5, LeadsInert
      <4>9. QED
        BY <4>3, <4>7, <4>8
    <3> DEFINE m == Msg(IF k.kind = "SCO_ON" THEN "OPEN_ESCO" ELSE "CLOSE_ESCO", k.of)
    <3>2. /\ m \in Command /\ m.of = k.of
          /\ k.kind = "SCO_ON" => m.kind = "OPEN_ESCO" /\ m = Msg("OPEN_ESCO", k.of)
          /\ k.kind = "SCO_OFF" => m.kind = "CLOSE_ESCO" /\ m = Msg("CLOSE_ESCO", k.of)
      <4>1. k.of \in Some /\ {"OPEN_ESCO", "CLOSE_ESCO"} \subseteq Commands
        BY <2>2 DEF Some, Commands
      <4>2. QED
        BY <2>1, <2>2, <4>1, Msgs
    <3> HIDE DEF m
    <3>3. m \in Message
      BY <3>2, CommandsAreMessages
    <3>4. Ordered(bud[b], y, m)
      BY <1>6, <1>8, <1>12, <2>1, <3>1, <3>2
    <3>5. QED
      BY <1>1, <1>3, <1>4, <1>5, <1>8, <2>1, <2>4, <3>2, <3>3, <3>4, ScoStep
  <2>5. QED
    BY <2>3, <2>4
<1>13. QED
  BY <1>11, <1>12

LEMMA TimersAudio ==
    ASSUME IInv, AudioInv, NEW b \in Buds, CommandDelay(b) \/ SecondTimers(b) PROVE AudioInv'
<1>1. /\ Typed /\ Apart /\ bud[b] \in Rec /\ queue[b] \in Seq(Message) /\ bud[b].out = <<>>
      /\ late \subseteq {"ring", "audio"} /\ UNCHANGED late
  BY DEF IInv, Typed, CommandDelay, SecondTimers
<1>2. ~link => b = master
  BY <1>1 DEF Apart, CommandDelay, SecondTimers
<1>3. SUFFICES ASSUME NEW y, Mute(bud[b], y), Still(bud[b], y), Done(b, y, queue[b])
               PROVE  AudioInv'
  <2>1. CASE CommandDelay(b)
    <3> DEFINE x == [bud[b] EXCEPT !.timer = FALSE]
               p == bud[b].coexist
               y == tws_phone_call_send_cmd(b, x, "OUTBAND_RING", p)
    <3>1. Still(bud[b], x) /\ x \in Rec /\ Mute(bud[b], x)
      BY <1>1, Timed, MuteTimed DEF Still
    <3>2. p \in Some
      BY <1>1 DEF Rec
    <3>3. Done(b, y, queue[b])
      BY <2>1 DEF CommandDelay
    <3> HIDE DEF x, p
    <3>4. /\ "OUTBAND_RING" \in Commands /\ "OUTBAND_RING" \notin Flagging
          /\ "OUTBAND_RING" \notin Ending /\ "OUTBAND_RING" \notin Orders
          /\ Named("OUTBAND_RING", p)
      BY <3>2 DEF Commands, Flagging, Ending, Named, Nameless, Orders
    <3>5. Still(x, y) /\ Mute(x, y)
      BY <3>1, <3>4, SendDoes, SendAudio
    <3>6. Still(bud[b], y)
      BY <3>1, <3>5, StillTrans
    <3>7. Mute(bud[b], y)
      BY <3>1, <3>5, MuteTrans
    <3>8. QED
      BY <1>3, <3>3, <3>6, <3>7
  <2>2. CASE SecondTimers(b)
    <3> DEFINE u == [bud[b] EXCEPT !.second = @ - 1]
               v == [bud[b] EXCEPT !.user = @ - 1]
               p == phone_second_call_ring_play_start(b, u)
               q == user_phone_second_call_ring_play_start(b, v)
    <3>1. CASE bud[b].second > 0 /\ Done(b, p, queue[b])
      <4>1. Still(bud[b], u) /\ u \in Rec /\ Mute(bud[b], u)
        BY <1>1, <3>1, Timed, MuteTimed DEF Still
      <4> HIDE DEF u
      <4>2. Still(u, p) /\ Mute(u, p)
        BY <4>1, StillSecond, MuteSecond
      <4>3. Still(bud[b], p)
        BY <4>1, <4>2, StillTrans
      <4>4. Mute(bud[b], p)
        BY <4>1, <4>2, MuteTrans
      <4>5. QED
        BY <1>3, <3>1, <4>3, <4>4
    <3>2. CASE bud[b].user > 0 /\ Done(b, q, queue[b])
      <4>1. Still(bud[b], v) /\ v \in Rec /\ Mute(bud[b], v)
        BY <1>1, <3>2, Timed, MuteTimed DEF Still
      <4> HIDE DEF v
      <4>2. Still(v, q) /\ Mute(v, q)
        BY <4>1, StillSecond, MuteSecond
      <4>3. Still(bud[b], q)
        BY <4>1, <4>2, StillTrans
      <4>4. Mute(bud[b], q)
        BY <4>1, <4>2, MuteTrans
      <4>5. QED
        BY <1>3, <3>2, <4>3, <4>4
    <3>3. QED
      BY <2>2, <3>1, <3>2 DEF SecondTimers
  <2>3. QED
    BY <2>1, <2>2
<1>4. y \in Rec /\ (~link => y.out = <<>>)
  BY <1>1, <1>3 DEF Still
<1>5. y.esco = bud[b].esco /\ Inert(Orders, y.out)
  <2>1. Inert(Orders, <<>>)
    BY DEF Inert
  <2>2. QED
    BY <1>1, <1>3, <2>1 DEF Mute
<1>6. b = master => NoStart(queue[b])
  BY DEF AudioInv
<1>7. late \subseteq late' /\ late' \subseteq {"ring", "audio"}
  BY <1>1
<1>8. \A v : Leads(Orders, FALSE, bud[b].esco, queue[b], v)
                 => Leads(Orders, FALSE, y.esco, queue[b], v)
  BY <1>5
<1>9. QED
  BY <1>1, <1>2, <1>3, <1>4, <1>5, <1>6, <1>7, <1>8, MuteStep

(***************************************************************************)
(* The other steps.                                                        *)
(***************************************************************************)

\* Reports that each fit what is played before them end alike for a bud that begins with
\* what they lead to.
LEMMA LeadsMeet ==
    ASSUME NEW K, NEW e \in Some, NEW q \in Seq(Message), NEW w \in Some, Leads(K, TRUE, e, q, w)
    PROVE  Leads(K, FALSE, w, q, w)
<1> DEFINE n == Len(q)
<1>1. n \in Nat
  OBVIOUS
<1>2. PICK h \in [0..n -> Some] : IsRun(K, TRUE, h, e, q, w)
  BY DEF Leads
<1>3. /\ h[0] = e
      /\ \A i \in 1..n : h[i] = After(K, h[i - 1], q[i]) /\ Fits(K, h[i - 1], q[i])
      /\ \A i \in 0..n : (\A j \in 1..n : j > i => q[j].kind \notin K) => h[i] = w
  BY <1>2 DEF IsRun
<1> DEFINE Met(i) == \E j \in 0..i : h[j] = w
           g == [i \in 0..n |-> IF Met(i) THEN h[i] ELSE w]
<1>4. /\ g \in [0..n -> Some]
      /\ \A i \in 0..n : g[i] = IF Met(i) THEN h[i] ELSE w
  BY <1>2
<1> HIDE DEF g
<1>5. g[0] = w
  <2>1. 0 \in 0..n /\ 0..0 = {0}
    BY <1>1
  <2>2. QED
    BY <1>4, <2>1
<1>6. ASSUME NEW i \in 1..n PROVE g[i] = After(K, g[i - 1], q[i])
  <2>1. i \in 0..n /\ i - 1 \in 0..n /\ 0..i = 0..(i - 1) \cup {i} /\ i \in 0..i
    BY <1>1
  <2>2. h[i] = After(K, h[i - 1], q[i]) /\ Fits(K, h[i - 1], q[i])
    BY <1>3
  <2>3. CASE Met(i - 1)
    <3>1. Met(i)
      BY <2>1, <2>3
    <3>2. g[i - 1] = h[i - 1] /\ g[i] = h[i]
      BY <1>4, <2>1, <2>3, <3>1
    <3>3. QED
      BY <2>2, <3>2
  <2>4. CASE ~Met(i - 1)
    <3>1. h[i - 1] # w
      <4>1. i - 1 \in 0..(i - 1)
        BY <2>1
      <4>2. QED
        BY <2>4, <4>1
    <3>2. g[i - 1] = w
      BY <1>4, <2>1, <2>4
    <3>3. Met(i) => h[i] = w
      BY <2>1, <2>4
    <3>4. g[i] = w
      BY <1>4, <2>1, <3>3
    <3>5. After(K, w, q[i]) = w
      BY <2>2, <3>1 DEF After, Fits
    <3>6. QED
      BY <3>2, <3>4, <3>5
  <2>5. QED
    BY <2>3, <2>4
<1>7. ASSUME NEW i \in 0..n, \A j \in 1..n : j > i => q[j].kind \notin K PROVE g[i] = w
  BY <1>3, <1>4, <1>7
<1>8. IsRun(K, FALSE, g, w, q, w)
  BY <1>4, <1>5, <1>6, <1>7 DEF IsRun
<1>9. QED
  BY <1>4, <1>8 DEF Leads

\* A message that arrives at the master.
LEMMA ArriveAudio ==
    ASSUME Typed, AudioBody, NEW m \in Message, NEW w \in Some, NEW u \in Some,
           UNCHANGED <<bud, link, master>>,
           queue' = [queue EXCEPT ![master] = Append(@, m)],
           Leads(Orders, FALSE, bud[master].esco, queue[master], u),
           Leads(Orders, FALSE, After(Orders, u, m), air', w),
           Leads(ScoReports, TRUE, w, queue[master], sco),
           sco' = After(ScoReports, sco, m), Fits(ScoReports, sco, m)
    PROVE  AudioBody'
<1> DEFINE b == master
<1>1. /\ b \in Buds /\ queue[b] \in Seq(Message) /\ sco \in Some
      /\ \A c \in Buds : bud[c].esco \in Some
  BY DEF Typed, Rec
<1>2. queue'[b] = Append(queue[b], m) /\ \A c \in Buds \ {b} : queue'[c] = queue[c]
  BY DEF Typed
<1>3. After(Orders, u, m) \in Some
  BY AfterType
<1>4. Leads(Orders, FALSE, bud[b].esco, queue'[b], After(Orders, u, m))
  <2>1. Leads(Orders, FALSE, bud[b].esco, Append(queue[b], m), After(Orders, u, m))
    BY <1>1, LeadsAppend
  <2>2. QED
    BY <1>2, <2>1
<1>5. \A strict \in BOOLEAN, v \in Some :
          Leads(ScoReports, strict, v, queue[b], sco) => Leads(ScoReports, strict, v, queue'[b], sco')
  <2>1. TAKE strict \in BOOLEAN, v \in Some
  <2>2. HAVE Leads(ScoReports, strict, v, queue[b], sco)
  <2>3. Leads(ScoReports, strict, v, Append(queue[b], m), After(ScoReports, sco, m))
    BY <1>1, <2>2, LeadsAppend
  <2>4. QED
    BY <1>2, <2>3
<1>6. Leads(ScoReports, TRUE, w, queue'[b], sco')
  BY <1>5
<1>7. ASSUME NEW c \in Buds \ {b} PROVE Follows(c)'
  <2>1. Follows(c)
    BY DEF AudioBody
  <2>2. CASE link
    <3>1. PICK v \in Some : /\ Leads(Orders, FALSE, bud[c].esco, queue[c], v)
                            /\ Leads(ScoReports, FALSE, v, queue[b], sco)
      BY <2>1, <2>2 DEF Follows
    <3>2. Leads(ScoReports, FALSE, v, queue'[b], sco')
      BY <1>5, <3>1
    <3>3. QED
      BY <1>2, <2>2, <3>1, <3>2 DEF Follows
  <2>3. CASE ~link
    BY <2>1, <2>3 DEF Follows
  <2>4. QED
    BY <2>2, <2>3
<1>8. bud'[master'].esco = bud[b].esco /\ queue'[master'] = queue'[b]
  OBVIOUS
<1>9. QED
  BY <1>3, <1>4, <1>6, <1>7, <1>8 DEF AudioBody

LEMMA DeliverAudio == ASSUME IInv, AudioInv, Deliver PROVE AudioInv'
<1> DEFINE m == Head(air)
           rest == Tail(air)
<1>1. /\ Typed /\ air # <<>> /\ air \in Seq(Command) /\ air \in Seq(Message)
      /\ master \in Buds /\ queue[master] \in Seq(Message) /\ sco \in Some
  BY CommandsAreMessages DEF IInv, Typed, Deliver
<1>2. /\ queue' = [queue EXCEPT ![master] = Append(@, m)] /\ air' = rest
      /\ UNCHANGED <<bud, sco, link, master, late>>
  BY DEF Deliver
<1>3. m \in Command /\ m \in Message
  BY <1>1, CommandsAreMessages
<1>4. /\ m.kind \notin ScoReports /\ m.kind # "S_START_ENTER_ESCO"
      /\ After(ScoReports, sco, m) = sco /\ Fits(ScoReports, sco, m)
  BY <1>3, AudioKinds DEF After, Fits
<1> HIDE DEF m, rest
<1>6. NoStart(queue'[master'])
  <2>1. queue'[master'] = Append(queue[master], m)
    BY <1>1, <1>2 DEF Typed
  <2>2. NoStart(queue[master])
    BY DEF AudioInv
  <2>3. QED
    BY <1>1, <1>3, <1>4, <2>1, <2>2, NoStartKept
<1>7. ASSUME "audio" \notin late PROVE AudioBody'
  <2>1. AudioBody
    BY <1>7 DEF AudioInv
  <2>2. PICK u \in Some, w \in Some :
            /\ Leads(Orders, FALSE, bud[master].esco, queue[master], u)
            /\ Leads(Orders, FALSE, u, air, w)
            /\ Leads(ScoReports, TRUE, w, queue[master], sco)
    BY <2>1 DEF AudioBody
  <2>3. Leads(Orders, FALSE, After(Orders, u, m), air', w)
    BY <1>1, <1>2, <2>2, LeadsTail DEF m, rest
  <2>4. sco' = After(ScoReports, sco, m)
    BY <1>2, <1>4
  <2>5. QED
    BY <1>1, <1>2, <1>3, <1>4, <2>1, <2>2, <2>3, <2>4, ArriveAudio
<1>8. QED
  BY <1>2, <1>6, <1>7 DEF AudioInv

LEMMA PhonedAudio ==
    ASSUME IInv, AudioInv, NEW p \in Phones, NEW kind \in Reports \ Nameless, Phoned(kind, p),
           kind # "S_START_ENTER_ESCO", UNCHANGED late, sco' \in Some,
           sco' = After(ScoReports, sco, Msg(kind, p)), Fits(ScoReports, sco, Msg(kind, p))
    PROVE  AudioInv'
<1> DEFINE m == Msg(kind, p)
<1>1. /\ Typed /\ master \in Buds /\ queue[master] \in Seq(Message) /\ air \in Seq(Message)
  BY CommandsAreMessages DEF IInv, Typed
<1>2. /\ queue' = [queue EXCEPT ![master] = Append(@, m)]
      /\ UNCHANGED <<bud, air, link, master, late>>
  BY DEF Phoned
<1>3. m \in Message /\ m.kind = kind
  BY DEF Msg, Message, Some
<1>4. /\ sco' = After(ScoReports, sco, m) /\ Fits(ScoReports, sco, m)
  OBVIOUS
<1> HIDE DEF m
<1>5. \A v : After(Orders, v, m) = v
  BY <1>3 DEF After, Orders, Reports
<1>6. NoStart(queue'[master'])
  <2>1. queue'[master'] = Append(queue[master], m)
    BY <1>1, <1>2 DEF Typed
  <2>2. NoStart(queue[master])
    BY DEF AudioInv
  <2>3. QED
    BY <1>1, <1>3, <2>1, <2>2, NoStartKept
<1>7. ASSUME "audio" \notin late PROVE AudioBody'
  <2>1. AudioBody
    BY <1>7 DEF AudioInv
  <2>2. PICK u \in Some, w \in Some :
            /\ Leads(Orders, FALSE, bud[master].esco, queue[master], u)
            /\ Leads(Orders, FALSE, u, air, w)
            /\ Leads(ScoReports, TRUE, w, queue[master], sco)
    BY <2>1 DEF AudioBody
  <2>3. Leads(Orders, FALSE, After(Orders, u, m), air', w)
    BY <1>2, <1>5, <2>2
  <2>4. QED
    BY <1>1, <1>2, <1>3, <1>4, <2>1, <2>2, <2>3, ArriveAudio
<1>8. QED
  BY <1>2, <1>6, <1>7 DEF AudioInv

LEMMA LinkUpAudio == ASSUME IInv, AudioInv, LinkUp, UNCHANGED late PROVE AudioInv'
<1>1. /\ Typed /\ Apart /\ queue \in [Buds -> Seq(Message)] /\ master \in Buds /\ sco \in Some
      /\ queue[master] \in Seq(Message) /\ \A b \in Buds : bud[b].esco \in Some
  BY DEF IInv, Typed, Rec
<1>2. PICK p \in Phones :
          queue' = [b \in Buds |-> queue[b] \o <<Msg("CONNECTED", NoPhone)>> \o
                       IF b = master
                       THEN <<Msg("MONITOR_START", p), Msg("MONITOR_START", Other(p))>>
                       ELSE IF sco = NoPhone THEN <<>> ELSE <<Msg("S_START_ENTER_ESCO", sco)>>]
  BY DEF LinkUp
<1>3. ~link /\ link' = TRUE /\ UNCHANGED <<bud, air, sco, master>>
  BY DEF LinkUp
<1>4. Other(p) \in Phones
  BY TheOther
<1> DEFINE c == Msg("CONNECTED", NoPhone)
           m == Msg("MONITOR_START", p)
           n == Msg("MONITOR_START", Other(p))
           e == Msg("S_START_ENTER_ESCO", sco)
<1>5. {c, m, n} \subseteq Message /\ (sco # NoPhone => e \in Message)
  BY <1>1, <1>4 DEF Msg, Message, Some, Reports, Commands, Nameless
<1>6. /\ \A k \in {c, m, n} : k.kind \notin Orders /\ k.kind \notin ScoReports
                              /\ k.kind # "S_START_ENTER_ESCO"
      /\ e.kind = "S_START_ENTER_ESCO" /\ e.of = sco
  BY DEF Msg, Orders, ScoReports
<1>7. /\ queue'[master] = (queue[master] \o <<c>>) \o <<m, n>>
      /\ \A b \in Buds \ {master} :
             queue'[b] = (queue[b] \o <<c>>) \o IF sco = NoPhone THEN <<>> ELSE <<e>>
  BY <1>1, <1>2
<1> HIDE DEF c, m, n, e
<1>8. /\ <<c>> \in Seq(Message) /\ <<m, n>> \in Seq(Message) /\ <<>> \in Seq(Message)
      /\ Inert(Orders, <<c>>) /\ Inert(ScoReports, <<c>>) /\ NoStart(<<c>>)
      /\ Inert(Orders, <<m, n>>) /\ Inert(ScoReports, <<m, n>>) /\ NoStart(<<m, n>>)
      /\ Inert(Orders, <<>>)
  BY <1>5, <1>6 DEF Inert, NoStart
<1> DEFINE u == queue[master] \o <<c>>
<1>9. u \in Seq(Message)
  BY <1>1, <1>8
<1>10. NoStart(queue'[master'])
  <2>1. NoStart(queue[master])
    BY DEF AudioInv
  <2>2. NoStart(u)
    BY <1>1, <1>8, <2>1, NoStartKept
  <2>3. queue'[master'] = u \o <<m, n>>
    BY <1>3, <1>7
  <2> HIDE DEF u
  <2>4. QED
    BY <1>8, <1>9, <2>2, <2>3, NoStartKept
<1>11. ASSUME NEW K \in {Orders, ScoReports}, NEW strict \in BOOLEAN, NEW v \in Some, NEW w,
              Leads(K, strict, v, queue[master], w)
       PROVE  Leads(K, strict, v, queue'[master], w)
  <2>1. Inert(K, <<c>>) /\ Inert(K, <<m, n>>)
    BY <1>8, <1>11
  <2>2. Leads(K, strict, v, u, w)
    BY <1>1, <1>8, <1>11, <2>1, LeadsJoin
  <2>3. queue'[master] = u \o <<m, n>>
    BY <1>7
  <2> HIDE DEF u
  <2>4. Leads(K, strict, v, u \o <<m, n>>, w)
    BY <1>8, <1>9, <2>1, <2>2, LeadsJoin
  <2>5. QED
    BY <2>3, <2>4
<1>12. ASSUME NEW b \in Buds \ {master}, bud[b].esco = NoPhone
       PROVE  Leads(Orders, FALSE, bud[b].esco, queue'[b], sco)
  <2>1. queue[b] = <<>>
    BY <1>1, <1>3 DEF Apart
  <2>2. NoPhone \in Some
    BY DEF Some
  <2>3. Leads(Orders, FALSE, NoPhone, <<c>>, NoPhone)
    BY <1>8, <2>2, LeadsInert
  <2>4. queue[b] \o <<c>> = <<c>>
    BY <1>8, <2>1
  <2>5. CASE sco = NoPhone
    <3>1. queue'[b] = <<c>> \o <<>>
      BY <1>7, <2>4, <2>5
    <3>2. <<c>> \o <<>> = <<c>>
      BY <1>8
    <3>3. QED
      BY <1>12, <2>3, <2>5, <3>1, <3>2
  <2>6. CASE sco # NoPhone
    <3>1. queue'[b] = <<c>> \o <<e>>
      BY <1>7, <2>4, <2>6
    <3>2. <<c>> \o <<e>> = Append(<<c>>, e) /\ e \in Message
      BY <1>5, <1>8, <2>6
    <3>3. After(Orders, NoPhone, e) = sco
      BY <1>6 DEF After, Orders, Opening
    <3>4. Leads(Orders, FALSE, NoPhone, Append(<<c>>, e), After(Orders, NoPhone, e))
      BY <1>8, <2>2, <2>3, <3>2, LeadsAppend
    <3>5. QED
      BY <1>12, <3>1, <3>2, <3>3, <3>4
  <2>7. QED
    BY <2>5, <2>6
<1>13. ASSUME "audio" \notin late PROVE AudioBody'
  <2>1. AudioBody
    BY <1>13 DEF AudioInv
  <2>2. PICK u1 \in Some, w \in Some :
            /\ Leads(Orders, FALSE, bud[master].esco, queue[master], u1)
            /\ Leads(Orders, FALSE, u1, air, w)
            /\ Leads(ScoReports, TRUE, w, queue[master], sco)
    BY <2>1 DEF AudioBody
  <2>3. /\ Leads(Orders, FALSE, bud[master].esco, queue'[master], u1)
        /\ Leads(ScoReports, TRUE, w, queue'[master], sco)
    BY <1>1, <1>11, <2>2
  <2>4. Leads(ScoReports, FALSE, sco, queue[master], sco)
    BY <1>1, <2>2, LeadsMeet
  <2>5. Leads(ScoReports, FALSE, sco, queue'[master], sco)
    BY <1>1, <1>11, <2>4
  <2>6. ASSUME NEW b \in Buds \ {master} PROVE Follows(b)'
    <3>1. bud[b].esco = NoPhone
      BY <1>3, <2>1 DEF AudioBody, Follows
    <3>2. Leads(Orders, FALSE, bud[b].esco, queue'[b], sco)
      BY <1>12, <3>1
    <3>3. QED
      BY <1>1, <1>3, <2>5, <3>2 DEF Follows
  <2>7. QED
    BY <1>3, <2>2, <2>3, <2>6 DEF AudioBody
<1>14. QED
  BY <1>10, <1>13 DEF AudioInv

LEMMA WorldAudio == ASSUME IInv, AudioInv, World PROVE AudioInv'
<1>1. UNCHANGED late /\ sco \in Some /\ NoPhone \in Some /\ Phones \subseteq Some
  BY DEF World, IInv, Typed, Some
<1>2. /\ {"PHONE_INCOME", "PHONE_ACTIVE", "PHONE_HANGUP", "SCO_ON", "SCO_OFF"}
             \subseteq Reports \ Nameless
      /\ \A p, kind : Msg(kind, p).kind = kind /\ Msg(kind, p).of = p
  BY DEF Reports, Nameless, Msg
<1>3. ASSUME NEW p \in Phones, CallIn(p) \/ Answer(p) \/ HangUp(p) PROVE AudioInv'
  <2>1. PICK kind \in {"PHONE_INCOME", "PHONE_ACTIVE", "PHONE_HANGUP"} : Phoned(kind, p)
    BY <1>3 DEF CallIn, Answer, HangUp
  <2>2. sco' = sco
    BY <1>3 DEF CallIn, Answer, HangUp
  <2>3. kind \in Reports \ Nameless /\ kind \notin ScoReports /\ kind # "S_START_ENTER_ESCO"
    BY <1>2, <2>1 DEF ScoReports
  <2>4. After(ScoReports, sco, Msg(kind, p)) = sco /\ Fits(ScoReports, sco, Msg(kind, p))
    BY <1>2, <2>3 DEF After, Fits
  <2>5. QED
    BY <1>1, <2>1, <2>2, <2>3, <2>4, PhonedAudio
<1>4. ASSUME NEW p \in Phones, CallOut(p) PROVE AudioInv'
  BY <1>1, <1>4 DEF CallOut, AudioInv, AudioBody, Follows
<1>5. ASSUME NEW p \in Phones, ScoUp(p) PROVE AudioInv'
  <2>1. Phoned("SCO_ON", p) /\ sco = NoPhone /\ sco' = p
    BY <1>5 DEF ScoUp
  <2>2. "SCO_ON" \in Reports \ Nameless /\ Msg("SCO_ON", p).kind = "SCO_ON" /\ Msg("SCO_ON", p).of = p
    BY <1>2
  <2>3. sco' = After(ScoReports, sco, Msg("SCO_ON", p)) /\ Fits(ScoReports, sco, Msg("SCO_ON", p))
    BY <2>1, <2>2 DEF After, Fits, ScoReports, Opening
  <2>4. QED
    BY <1>1, <2>1, <2>2, <2>3, PhonedAudio
<1>6. ASSUME NEW p \in Phones, ScoDown(p) PROVE AudioInv'
  <2>1. Phoned("SCO_OFF", p) /\ sco = p /\ sco' = NoPhone
    BY <1>6 DEF ScoDown
  <2>2. "SCO_OFF" \in Reports \ Nameless /\ Msg("SCO_OFF", p).kind = "SCO_OFF" /\ Msg("SCO_OFF", p).of = p
    BY <1>2
  <2>3. sco' = After(ScoReports, sco, Msg("SCO_OFF", p)) /\ Fits(ScoReports, sco, Msg("SCO_OFF", p))
    BY <2>1, <2>2 DEF After, Fits, ScoReports, Opening
  <2>4. QED
    BY <1>1, <2>1, <2>2, <2>3, PhonedAudio
<1>7. ASSUME LinkUp PROVE AudioInv'
  BY <1>1, <1>7, LinkUpAudio
<1>8. QED
  BY <1>3, <1>4, <1>5, <1>6, <1>7 DEF World

LEMMA InitAudio == ASSUME Init PROVE AudioInv
<1>1. /\ master \in Buds /\ air = <<>> /\ sco = NoPhone /\ NoPhone \in Some
      /\ \A b \in Buds : queue[b] = <<>> /\ bud[b].esco = NoPhone
  BY DEF Init, Some
<1>2. NoStart(<<>>)
  BY DEF NoStart
<1>3. \A K, strict : Leads(K, strict, NoPhone, <<>>, NoPhone)
  BY <1>1, LeadsEmpty
<1>4. \A b \in Buds : Follows(b)
  BY <1>1, <1>3 DEF Follows
<1>5. AudioBody
  BY <1>1, <1>3, <1>4 DEF AudioBody
<1>6. QED
  BY <1>1, <1>2, <1>5 DEF AudioInv

LEMMA NextAudio == ASSUME IInv, AudioInv, [Next]_vars PROVE AudioInv'
<1>1. CASE Next
  BY <1>1, WorldAudio, DeliverAudio, HandleAudio, TimersAudio DEF Next, Program
<1>2. CASE UNCHANGED vars
  BY <1>2 DEF vars, AudioInv, AudioBody, Follows
<1>3. QED
  BY <1>1, <1>2

(***************************************************************************)
(* The ring.  Once no phone calls in, either the report of an end is still *)
(* to come, which sends a stop to the ring; or nothing will ask for one    *)
(* any more, and behind one that is there, or under way, is its stop.      *)
(***************************************************************************)
Noisy == {"PLAY", "OUTBAND_RING"}

Stops(q, p) == \E i \in DOMAIN q : q[i] = Msg("OUTBAND_RING_STOP", p)
Hushed ==
    LET x == bud[master]
        q == queue[master]
    IN  /\ ~x.timer /\ ~Comes(q, {"OUTBAND_RING"}) /\ ~Comes(air, {"OUTBAND_RING"})
        /\ x.ring \/ Comes(q, {"PLAY"}) \/ Comes(air, {"PLAY"})
               => Stops(q, x.coexist) \/ Stops(air, x.coexist)

\* A running 2 s timer has a phone to look for; only a master delays a command.
Noted(x) == x.second > 0 \/ x.user > 0 => x.addr \in Phones
Paced == /\ \A b \in Buds : Noted(bud[b])
         /\ \A b \in Buds \ {master} : ~bud[b].timer

HushInv == Paced /\ (Quiet /\ "ring" \notin late => HasReport(queue[master]) \/ Hushed)

\* An operator that starts no delay, and one that asks for no ring either, once no phone
\* calls in.
Keeps(x, y) == (y.timer => x.timer) /\ (Noted(x) => Noted(y))
Hush(x, y) ==
    /\ Keeps(x, y)
    /\ Quiet => /\ y.coexist = x.coexist /\ (y.ring => x.ring)
                /\ Inert(Noisy, x.out) => Inert(Noisy, y.out)

LEMMA HushTrans == ASSUME NEW x, NEW y, NEW z, Hush(x, y), Hush(y, z) PROVE Hush(x, z)
BY DEF Hush, Keeps

LEMMA KeepsTrans == ASSUME NEW x, NEW y, NEW z, Keeps(x, y), Keeps(y, z) PROVE Keeps(x, z)
BY DEF Keeps

LEMMA HushPost ==
    ASSUME NEW x \in Rec, NEW cmd \in Commands, NEW p \in Some,
           cmd \notin Nameless => p \in Phones
    PROVE  /\ Keeps(x, Post(x, cmd, p)) /\ (cmd \notin Noisy => Hush(x, Post(x, cmd, p)))
           /\ Post(x, cmd, p) \in Rec
           /\ \E i \in DOMAIN Post(x, cmd, p).out : Post(x, cmd, p).out[i] = Msg(cmd, p)
           /\ \A i \in DOMAIN x.out : /\ i \in DOMAIN Post(x, cmd, p).out
                                      /\ Post(x, cmd, p).out[i] = x.out[i]
<1> DEFINE m == Msg(cmd, p)
<1>1. m \in Command /\ m.kind = cmd
  BY Msgs
<1>2. x.out \in Seq(Command)
  BY DEF Rec
<1>3. Post(x, cmd, p) = [x EXCEPT !.out = Append(x.out, m)]
  BY DEF Post
<1> HIDE DEF m
<1>4. /\ Post(x, cmd, p).out = Append(x.out, m) /\ Keeps(x, Post(x, cmd, p))
      /\ Post(x, cmd, p).coexist = x.coexist /\ Post(x, cmd, p).ring = x.ring
  BY <1>3 DEF Rec, Keeps, Noted
<1>5. /\ \A i \in DOMAIN Append(x.out, m) :
             Append(x.out, m)[i] = m \/ (i \in DOMAIN x.out /\ Append(x.out, m)[i] = x.out[i])
      /\ \A i \in DOMAIN x.out : i \in DOMAIN Append(x.out, m) /\ Append(x.out, m)[i] = x.out[i]
      /\ Len(x.out) + 1 \in DOMAIN Append(x.out, m) /\ Append(x.out, m)[Len(x.out) + 1] = m
  BY <1>1, <1>2
<1>6. cmd \notin Noisy /\ Inert(Noisy, x.out) => Inert(Noisy, Append(x.out, m))
  BY <1>1, <1>5 DEF Inert
<1>7. Post(x, cmd, p) \in Rec
  BY Outs
<1>8. QED
  BY <1>4, <1>5, <1>6, <1>7 DEF Hush, m

LEMMA HushUpdates ==
    ASSUME NEW x \in Rec
    PROVE  /\ Hush(x, x) /\ Hush(x, [x EXCEPT !.timer = FALSE])
           /\ Hush(x, [x EXCEPT !.sync = TRUE]) /\ Hush(x, [x EXCEPT !.sync = FALSE])
           /\ Hush(x, [x EXCEPT !.flag = TRUE]) /\ Hush(x, tone_ring_player_stop(x))
           /\ Hush(x, RingOver(x)) /\ Keeps(x, [x EXCEPT !.ring = TRUE])
           /\ \A p \in Phones : /\ Hush(x, [x EXCEPT !.addr = p, !.sync = TRUE])
                                /\ Hush(x, [x EXCEPT !.sync = TRUE, !.addr = p])
                                /\ Hush(x, bt_phone_esco_play(x, p))
                                /\ Hush(x, bt_phone_esco_stop(x, p))
           /\ \A p : Keeps(x, [x EXCEPT !.coexist = p])
           /\ x.addr \in Phones => /\ Hush(x, [x EXCEPT !.second = @ + 1])
                                   /\ Hush(x, [x EXCEPT !.user = @ + 1])
BY DEF Rec, Hush, Keeps, Noted, tone_ring_player_stop, RingOver, bt_phone_esco_play,
       bt_phone_esco_stop

LEMMA PlayRingKeeps ==
    ASSUME NEW x \in Rec, NEW p \in Some PROVE Keeps(x, PlayRing(x, p))
<1> DEFINE y == [x EXCEPT !.coexist = p]
<1>1. y \in Rec /\ Keeps(x, y) /\ Keeps(y, [y EXCEPT !.ring = TRUE])
  BY HushUpdates DEF Rec
<1>2. "PLAY" \in Commands /\ "PLAY" \in Nameless /\ NoPhone \in Some
  BY DEF Commands, Nameless, Some
<1>3. PlayRing(x, p) \in {Post(y, "PLAY", NoPhone), [y EXCEPT !.ring = TRUE]}
  BY DEF PlayRing
<1> HIDE DEF y
<1>4. Keeps(y, Post(y, "PLAY", NoPhone))
  BY <1>1, <1>2, HushPost
<1>5. QED
  BY <1>1, <1>3, <1>4, KeepsTrans

LEMMA HushSecond ==
    ASSUME NEW b \in Buds, NEW x \in Rec, x.addr \in Phones
    PROVE  /\ Hush(x, phone_ring_play_start(b, x))
           /\ Hush(x, phone_second_call_ring_play_start(b, x))
           /\ Hush(x, user_phone_second_call_ring_play_start(b, x))
           /\ Quiet => /\ phone_second_call_ring_play_start(b, x) = x
                       /\ user_phone_second_call_ring_play_start(b, x) = x
<1>1. x.addr \in Some
  BY DEF Rec
<1>2. Hush(x, x) /\ Keeps(x, PlayRing(x, x.addr))
  BY <1>1, HushUpdates, PlayRingKeeps
<1>3. Quiet => Status(b, x.addr) # "in" /\ Cardinality(Incoming(b)) = 0
  BY NobodyCalls, FS_EmptySet
<1>4. Quiet => /\ phone_ring_play_start(b, x) = x
               /\ phone_second_call_ring_play_start(b, x) = x
               /\ user_phone_second_call_ring_play_start(b, x) = x
  BY <1>3 DEF phone_ring_play_start, phone_second_call_ring_play_start,
              user_phone_second_call_ring_play_start
<1>5. {phone_ring_play_start(b, x), phone_second_call_ring_play_start(b, x),
       user_phone_second_call_ring_play_start(b, x)} \subseteq {x, PlayRing(x, x.addr)}
  BY DEF phone_ring_play_start, phone_second_call_ring_play_start,
         user_phone_second_call_ring_play_start
<1>6. QED
  BY <1>2, <1>4, <1>5 DEF Hush

LEMMA HushIncome ==
    ASSUME NEW b \in Buds, NEW x \in Rec, NEW p \in Phones, NEW again \in BOOLEAN
    PROVE  Hush(x, bt_phone_income(b, x, p, again))
<1> DEFINE u == tone_ring_player_stop(x)
           y == [u EXCEPT !.sync = TRUE, !.addr = p]
           z == [y EXCEPT !.flag = TRUE]
<1>1. u \in Rec /\ Hush(x, u)
  BY StillStop, HushUpdates DEF Still
<1>2. y \in Rec /\ z \in Rec /\ z.addr = p
  BY <1>1 DEF Rec, Some
<1>3. Hush(u, y) /\ Hush(y, z)
  BY <1>1, <1>2, HushUpdates
<1>4. bt_phone_income(b, x, p, again) \in {y, z, [z EXCEPT !.second = @ + 1],
                                           [z EXCEPT !.user = @ + 1], phone_ring_play_start(b, z)}
  BY DEF bt_phone_income
<1> HIDE DEF u, y, z
<1>5. Hush(x, y) /\ Hush(x, z)
  BY <1>1, <1>3, HushTrans
<1>6. /\ Hush(z, [z EXCEPT !.second = @ + 1]) /\ Hush(z, [z EXCEPT !.user = @ + 1])
      /\ Hush(z, phone_ring_play_start(b, z))
  BY <1>2, HushUpdates, HushSecond
<1>7. QED
  BY <1>4, <1>5, <1>6, HushTrans

LEMMA HushHangup ==
    ASSUME NEW b \in Buds, NEW x \in Rec, NEW p \in Phones
    PROVE  Hush(x, bt_phone_hangup(b, x, p))
<1> DEFINE q == Other(p)
           u == RingOver(x)
           y == [u EXCEPT !.addr = q, !.sync = TRUE]
<1>1. q \in Phones
  BY TheOther
<1>2. u \in Rec /\ Hush(x, u)
  BY RingOverClears, HushUpdates
<1>3. y \in Rec /\ Hush(u, y)
  BY <1>1, <1>2, HushUpdates DEF Rec, Some
<1>4. bt_phone_hangup(b, x, p)
          \in {u, y, Post(y, "INCOME_AGAIN", q), bt_phone_income(b, y, q, TRUE)}
  BY DEF bt_phone_hangup
<1> HIDE DEF y, q, u
<1>5. "INCOME_AGAIN" \in Commands \ Noisy /\ q \in Some
  BY <1>1 DEF Commands, Noisy, Some
<1>6. Hush(y, Post(y, "INCOME_AGAIN", q)) /\ Hush(y, bt_phone_income(b, y, q, TRUE))
  BY <1>1, <1>3, <1>5, HushPost, HushIncome
<1>7. Hush(x, y)
  BY <1>2, <1>3, HushTrans
<1>8. Hush(x, Post(y, "INCOME_AGAIN", q))
  BY <1>6, <1>7, HushTrans
<1>9. Hush(x, bt_phone_income(b, y, q, TRUE))
  BY <1>6, <1>7, HushTrans
<1>10. QED
  BY <1>2, <1>4, <1>7, <1>8, <1>9

LEMMA HushOutband ==
    ASSUME NEW b \in Buds, NEW x \in Rec, NEW p \in Some
    PROVE  /\ Keeps(x, bt_phone_outband_ring(b, x, p))
           /\ Hush(x, bt_phone_outband_ring_stop(x, p))
           /\ p = x.coexist => ~bt_phone_outband_ring_stop(x, p).ring
<1> DEFINE y == [x EXCEPT !.coexist = p]
<1>1. y \in Rec /\ Keeps(x, y) /\ Hush(x, x) /\ Hush(x, tone_ring_player_stop(x))
  BY HushUpdates DEF Rec
<1>2. bt_phone_outband_ring(b, x, p) \in {y, PlayRing(y, p)}
  BY DEF bt_phone_outband_ring
<1> HIDE DEF y
<1>3. Keeps(x, bt_phone_outband_ring(b, x, p))
  BY <1>1, <1>2, PlayRingKeeps, KeepsTrans
<1>4. Hush(x, bt_phone_outband_ring_stop(x, p))
  BY <1>1 DEF bt_phone_outband_ring_stop
<1>5. p = x.coexist => ~bt_phone_outband_ring_stop(x, p).ring
  BY DEF bt_phone_outband_ring_stop, tone_ring_player_stop, Rec
<1>6. QED
  BY <1>3, <1>4, <1>5

LEMMA HushRun ==
    ASSUME NEW b \in Buds, NEW x \in Rec, NEW cmd \in Commands, NEW p, Named(cmd, p)
    PROVE  LET y == Run(b, x, cmd, p)
           IN  Keeps(x, y) /\ (cmd \notin Noisy => Hush(x, y))
<1> DEFINE y == Run(b, x, cmd, p)
<1>1. p \in Some /\ (cmd \notin Nameless => p \in Phones)
  BY DEF Named
<1>2. CASE cmd \in {"INCOME", "INCOME_AGAIN", "HANGUP"}
  <2>1. p \in Phones
    BY <1>1, <1>2 DEF Nameless
  <2>2. y \in {bt_phone_income(b, x, p, FALSE), bt_phone_income(b, x, p, TRUE),
               bt_phone_hangup(b, x, p)}
    BY <1>2 DEF Run
  <2>3. Hush(x, y)
    BY <2>1, <2>2, HushIncome, HushHangup
  <2>4. QED
    BY <2>3 DEF Hush
<1>3. CASE cmd = "ACTIVE"
  <2>1. y = RingOver(x)
    BY <1>3 DEF Run
  <2>2. Hush(x, y)
    BY <2>1, HushUpdates
  <2>3. QED
    BY <2>2 DEF Hush
<1>4. CASE cmd \in {"OPEN_ESCO", "CLOSE_ESCO"}
  <2>1. p \in Phones /\ y \in {bt_phone_esco_play(x, p), bt_phone_esco_stop(x, p)}
    BY <1>1, <1>4 DEF Nameless, Run
  <2>2. Hush(x, y)
    BY <2>1, HushUpdates
  <2>3. QED
    BY <2>2 DEF Hush
<1>5. CASE cmd = "PLAY"
  <2>1. y = [x EXCEPT !.ring = TRUE] /\ cmd \in Noisy
    BY <1>5 DEF Run, Noisy
  <2>2. QED
    BY <2>1, HushUpdates
<1>6. CASE cmd = "OUTBAND_RING"
  <2>1. y = bt_phone_outband_ring(b, x, p) /\ cmd \in Noisy
    BY <1>6 DEF Run, Noisy
  <2>2. QED
    BY <1>1, <2>1, HushOutband
<1>7. CASE cmd = "OUTBAND_RING_STOP"
  <2>1. y = bt_phone_outband_ring_stop(x, p)
    BY <1>7 DEF Run
  <2>2. QED
    BY <1>1, <2>1, HushOutband DEF Hush
<1>8. QED
  BY <1>2, <1>3, <1>4, <1>5, <1>6, <1>7 DEF Commands

LEMMA HushSend ==
    ASSUME NEW b \in Buds, NEW x \in Rec, NEW cmd \in Commands, NEW p, Named(cmd, p)
    PROVE  LET y == tws_phone_call_send_cmd(b, x, cmd, p)
           IN  Keeps(x, y) /\ (cmd \notin Noisy => Hush(x, y))
BY HushPost, HushRun DEF tws_phone_call_send_cmd, Named

\* A ring that is stopped: its command is sent, or obeyed at once.
Stopped(x, y) == ~y.timer /\ (IF link THEN Stops(y.out, x.coexist) ELSE ~y.ring)

LEMMA HushRingStop ==
    ASSUME NEW b \in Buds, NEW x \in Rec
    PROVE  LET y == second_phone_call_ring_stop(b, x)
           IN  y \in Rec /\ Hush(x, y) /\ Stopped(x, y)
<1> DEFINE u == [x EXCEPT !.timer = FALSE]
           y == second_phone_call_ring_stop(b, x)
<1>1. u \in Rec /\ Hush(x, u) /\ ~u.timer /\ u.coexist = x.coexist /\ x.coexist \in Some
  BY HushUpdates DEF Rec
<1>2. y = tws_phone_call_send_cmd(b, u, "OUTBAND_RING_STOP", x.coexist)
  BY DEF second_phone_call_ring_stop
<1>3. "OUTBAND_RING_STOP" \in (Commands \cap Nameless) \ Noisy
      /\ Named("OUTBAND_RING_STOP", x.coexist)
  BY <1>1 DEF Commands, Noisy, Nameless, Named
<1> HIDE DEF u, y
<1>4. Hush(u, y) /\ y \in Rec
  BY <1>1, <1>2, <1>3, HushSend, SendDoes
<1>5. link => Stops(y.out, x.coexist)
  BY <1>1, <1>2, <1>3, HushPost DEF tws_phone_call_send_cmd, Stops
<1>6. ~link => ~y.ring
  BY <1>1, <1>2, HushOutband DEF tws_phone_call_send_cmd, Run
<1>7. ~y.timer
  BY <1>1, <1>4 DEF Hush, Keeps
<1>8. QED
  BY <1>1, <1>4, <1>5, <1>6, <1>7, HushTrans DEF Stopped, y

\* What is sent after the stop leaves it sent, and the ring stopped.
LEMMA StoppedSend ==
    ASSUME NEW b \in Buds, NEW x \in Rec, NEW u \in Rec, Stopped(x, u),
           NEW cmd \in Commands \ Noisy, NEW p \in Phones, Quiet
    PROVE  Stopped(x, tws_phone_call_send_cmd(b, u, cmd, p))
<1> DEFINE y == tws_phone_call_send_cmd(b, u, cmd, p)
<1>1. p \in Some /\ Named(cmd, p)
  BY DEF Named, Some
<1>2. Hush(u, y)
  BY <1>1, HushSend
<1>3. link => \A i \in DOMAIN u.out : i \in DOMAIN y.out /\ y.out[i] = u.out[i]
  BY <1>1, HushPost DEF tws_phone_call_send_cmd
<1> HIDE DEF y
<1>4. Stopped(x, y)
  BY <1>2, <1>3 DEF Stopped, Stops, Hush, Keeps
<1>5. QED
  BY <1>4 DEF y

LEMMA HushEnd ==
    ASSUME NEW b \in Buds, NEW x \in Rec, NEW p \in Phones, NEW cmd \in Ending
    PROVE  LET y == tws_phone_call_send_cmd(b, second_phone_call_ring_stop(b, x), cmd, p)
           IN  Hush(x, y) /\ (Quiet => Stopped(x, y))
<1> DEFINE u == second_phone_call_ring_stop(b, x)
<1>1. u \in Rec /\ Hush(x, u) /\ Stopped(x, u)
  BY HushRingStop
<1>2. cmd \in Commands \ Noisy /\ Named(cmd, p)
  BY DEF Ending, Commands, Noisy, Named, Some
<1> HIDE DEF u
<1>3. Hush(u, tws_phone_call_send_cmd(b, u, cmd, p))
  BY <1>1, <1>2, HushSend
<1>4. Quiet => Stopped(x, tws_phone_call_send_cmd(b, u, cmd, p))
  BY <1>1, <1>2, StoppedSend
<1>5. Hush(x, tws_phone_call_send_cmd(b, u, cmd, p))
  BY <1>1, <1>3, HushTrans
<1>6. QED
  BY <1>4, <1>5 DEF u

\* Call audio: only while a phone calls in is a ring delayed.
LEMMA HushSco ==
    ASSUME NEW b \in Buds, NEW x \in Rec, NEW p \in Phones
    PROVE  /\ Noted(x) => Noted(ScoOn(b, x, p)) /\ Noted(ScoOff(b, x, p))
           /\ Quiet => Hush(x, ScoOn(b, x, p)) /\ Hush(x, ScoOff(b, x, p))
<1> DEFINE q == Other(p)
           u == second_phone_call_ring_stop(b, x)
           y == tws_phone_call_send_cmd(b, u, "OPEN_ESCO", p)
           z == tws_phone_call_send_cmd(b, u, "CLOSE_ESCO", p)
<1>1. u \in Rec /\ Hush(x, u) /\ q \in Phones
  BY HushRingStop, TheOther
<1>2. ScoOn(b, x, p) \in {Delay(y, q), IfSilent(y, p), y}
  BY DEF ScoOn
<1>3. ScoOff(b, x, p) \in {x, Delay(z, q), Delay(z, p), IfSilent(z, p), IfSilent(z, q), z}
  BY DEF ScoOff
<1>4. Quiet => ScoOn(b, x, p) = y /\ ScoOff(b, x, p) \in {x, z}
  BY <1>1, NobodyCalls DEF ScoOn, ScoOff
<1> HIDE DEF u, q
<1>5. /\ {"OPEN_ESCO", "CLOSE_ESCO"} \subseteq Commands \ Noisy
      /\ \A cmd : Named(cmd, p)
  BY DEF Commands, Noisy, Named, Some
<1>6. Hush(u, y) /\ Hush(u, z) /\ y \in Rec /\ z \in Rec
  BY <1>1, <1>5, HushSend, SendDoes
<1> HIDE DEF y, z
<1>7. Hush(x, y) /\ Hush(x, z) /\ Hush(x, x)
  BY <1>1, <1>6, HushTrans, HushUpdates
<1>8. \A r : /\ Noted(y) => Noted(Delay(y, r)) /\ Noted(IfSilent(y, r))
             /\ Noted(z) => Noted(Delay(z, r)) /\ Noted(IfSilent(z, r))
  BY <1>6 DEF Noted, Delay, IfSilent, Rec
<1>9. QED
  BY <1>2, <1>3, <1>4, <1>7, <1>8 DEF Hush, Keeps

LEMMA HushCalled ==
    ASSUME NEW b \in Buds, NEW x \in Rec, NEW p \in Phones
    PROVE  /\ Keeps(x, PhoneIncome(b, x, p)) /\ Keeps(x, MonitorStart(b, x, p))
           /\ Hush(x, MonitorStart(b, x, p))
<1> DEFINE y == [x EXCEPT !.sync = TRUE]
<1>1. y \in Rec /\ Keeps(x, y) /\ Hush(x, x) /\ Keeps(x, x)
  BY HushUpdates DEF Rec, Hush
<1>2. PhoneIncome(b, x, p) \in {y, tws_phone_call_send_cmd(b, y, "OUTBAND_RING", p),
                                tws_phone_call_send_cmd(b, y, "INCOME", p)}
  BY DEF PhoneIncome
<1>3. MonitorStart(b, x, p) \in {x, tws_phone_call_send_cmd(b, y, "INCOME", p),
                                 tws_phone_call_send_cmd(b, x, "OUTBAND_RING", p)}
  BY DEF MonitorStart
<1>4. Quiet => MonitorStart(b, x, p) = x
  BY NobodyCalls DEF MonitorStart
<1> HIDE DEF y
<1>5. {"OUTBAND_RING", "INCOME"} \subseteq Commands /\ \A cmd : Named(cmd, p)
  BY DEF Commands, Named, Some
<1>6. \A cmd \in {"OUTBAND_RING", "INCOME"} :
          /\ Keeps(y, tws_phone_call_send_cmd(b, y, cmd, p))
          /\ Keeps(x, tws_phone_call_send_cmd(b, x, cmd, p))
  BY <1>1, <1>5, HushSend
<1>7. \A cmd \in {"OUTBAND_RING", "INCOME"} : Keeps(x, tws_phone_call_send_cmd(b, y, cmd, p))
  BY <1>1, <1>6, KeepsTrans
<1>8. Keeps(x, PhoneIncome(b, x, p)) /\ Keeps(x, MonitorStart(b, x, p))
  BY <1>1, <1>2, <1>3, <1>6, <1>7
<1>9. QED
  BY <1>1, <1>4, <1>8 DEF Hush

\* Everything that is handled.
Muted(b, kind, x, y) ==
    /\ Noted(x) => Noted(y)
    /\ ~Master(b) => (y.timer => x.timer) /\ y.out = x.out
    /\ Quiet /\ kind \notin Noisy \cup {"PHONE_INCOME"} => Hush(x, y)
    /\ Quiet /\ Master(b) /\ kind \in Reported => Stopped(x, y)

LEMMA SlaveSilent ==
    ASSUME NEW b \in Buds, NEW x \in Rec, NEW m \in Message, ~Master(b)
    PROVE  Handled(b, x, m.kind, m.of).out = x.out
<1>1. \A y \in Rec, p \in Phones, again \in BOOLEAN : bt_phone_income(b, y, p, again).out = y.out
  BY DEF bt_phone_income, tone_ring_player_stop, Rec
<1>2. \A p : bt_phone_hangup(b, x, p) = RingOver(x)
  BY DEF bt_phone_hangup
<1>3. RingOver(x).out = x.out
  BY RingOverClears
<1>4. \A p : /\ bt_phone_esco_play(x, p).out = x.out /\ bt_phone_esco_stop(x, p).out = x.out
             /\ bt_phone_outband_ring(b, x, p).out = x.out
             /\ bt_phone_outband_ring_stop(x, p).out = x.out
  BY DEF bt_phone_esco_play, bt_phone_esco_stop, bt_phone_outband_ring,
         bt_phone_outband_ring_stop, tone_ring_player_stop, Rec
<1>5. [x EXCEPT !.ring = TRUE].out = x.out /\ [x EXCEPT !.sync = FALSE].out = x.out
  BY DEF Rec
<1>6. \A p : MonitorStart(b, x, p) = x /\ \A kind : PhoneStatus(b, x, kind, p) = x
  BY DEF MonitorStart, PhoneStatus
<1>7. /\ m.kind \in Reports \cup Commands /\ m.of \in Some
      /\ m.kind \notin Nameless => m.of \in Phones
  BY DEF Message
<1>8. CASE m.kind \in {"INCOME", "INCOME_AGAIN"}
  <2>1. m.of \in Phones
    BY <1>7, <1>8 DEF Nameless
  <2>2. Handled(b, x, m.kind, m.of) \in {bt_phone_income(b, x, m.of, TRUE),
                                         bt_phone_income(b, x, m.of, FALSE)}
    BY <1>8 DEF Handled, Commands, Run
  <2>3. QED
    BY <1>1, <2>1, <2>2
<1>9. CASE m.kind \in Commands \ {"INCOME", "INCOME_AGAIN"}
  <2>1. Handled(b, x, m.kind, m.of) \in
            {RingOver(x), bt_phone_hangup(b, x, m.of), bt_phone_esco_play(x, m.of),
             bt_phone_esco_stop(x, m.of), bt_phone_outband_ring(b, x, m.of),
             bt_phone_outband_ring_stop(x, m.of), [x EXCEPT !.ring = TRUE]}
    BY <1>9 DEF Handled, Commands, Run
  <2>2. QED
    BY <1>2, <1>3, <1>4, <1>5, <2>1
<1>10. CASE m.kind \in Reports
  <2>1. Handled(b, x, m.kind, m.of) \in
            {[x EXCEPT !.sync = FALSE], MonitorStart(b, x, m.of), bt_phone_esco_play(x, m.of),
             PhoneStatus(b, x, m.kind, m.of)}
    BY <1>10 DEF Handled, Commands, Reports
  <2>2. QED
    BY <1>4, <1>5, <1>6, <2>1
<1>11. QED
  BY <1>7, <1>8, <1>9, <1>10

LEMMA HandledMuted ==
    ASSUME NEW b \in Buds, NEW x \in Rec, NEW m \in Message
    PROVE  Muted(b, m.kind, x, Handled(b, x, m.kind, m.of))
<1> DEFINE p == m.of
           y == Handled(b, x, m.kind, p)
<1>1. /\ m.kind \in Reports \cup Commands /\ p \in Some /\ Named(m.kind, p)
      /\ m.kind \notin Nameless => p \in Phones
  BY DEF Message, Named
<1>2. ~Master(b) => y.out = x.out
  BY SlaveSilent
<1>3. CASE m.kind \in Commands
  <2>1. y = Run(b, x, m.kind, p)
    BY <1>3 DEF Handled, Commands
  <2>2. Keeps(x, y) /\ (m.kind \notin Noisy => Hush(x, y))
    BY <1>1, <1>3, <2>1, HushRun
  <2>3. m.kind \notin Reported
    BY <1>3 DEF Commands, Reported
  <2>4. QED
    BY <1>2, <2>2, <2>3 DEF Muted, Keeps
<1>4. CASE m.kind = "CONNECTED"
  <2>1. y = [x EXCEPT !.sync = FALSE]
    BY <1>4 DEF Handled, Commands
  <2>2. Hush(x, y)
    BY <2>1, HushUpdates
  <2>3. QED
    BY <1>2, <1>4, <2>2 DEF Muted, Hush, Keeps, Reported
<1>5. CASE m.kind = "MONITOR_START"
  <2>1. y = MonitorStart(b, x, p) /\ p \in Phones
    BY <1>1, <1>5 DEF Handled, Nameless, Commands
  <2>2. Hush(x, y)
    BY <2>1, HushCalled
  <2>3. QED
    BY <1>2, <1>5, <2>2 DEF Muted, Hush, Keeps, Reported
<1>6. CASE m.kind = "S_START_ENTER_ESCO"
  <2>1. y = bt_phone_esco_play(x, p) /\ p \in Phones
    BY <1>1, <1>6 DEF Handled, Nameless, Commands
  <2>2. Hush(x, y)
    BY <2>1, HushUpdates
  <2>3. QED
    BY <1>2, <1>6, <2>2 DEF Muted, Hush, Keeps, Reported
<1>7. CASE m.kind \in {"PHONE_INCOME", "PHONE_ACTIVE", "PHONE_HANGUP", "SCO_ON", "SCO_OFF"}
  <2>1. y = PhoneStatus(b, x, m.kind, p) /\ p \in Phones
    BY <1>1, <1>7 DEF Handled, Nameless, Commands
  <2>2. CASE ~Master(b)
    <3>1. y = x /\ Hush(x, x)
      BY <2>1, <2>2, HushUpdates DEF PhoneStatus
    <3>2. QED
      BY <2>2, <3>1 DEF Muted
  <2>3. CASE Master(b) /\ m.kind = "PHONE_INCOME"
    <3>1. y = PhoneIncome(b, x, p)
      BY <2>1, <2>3 DEF PhoneStatus
    <3>2. Keeps(x, y)
      BY <2>1, <3>1, HushCalled
    <3>3. QED
      BY <2>3, <3>2 DEF Muted, Keeps, Reported
  <2>4. CASE Master(b) /\ m.kind \in {"PHONE_ACTIVE", "PHONE_HANGUP"}
    <3>1. PICK cmd \in Ending :
              y = tws_phone_call_send_cmd(b, second_phone_call_ring_stop(b, x), cmd, p)
      BY <2>1, <2>4 DEF PhoneStatus, Ending
    <3>2. Hush(x, y) /\ (Quiet => Stopped(x, y))
      BY <2>1, <3>1, HushEnd
    <3>3. QED
      BY <2>4, <3>2 DEF Muted, Hush, Keeps
  <2>5. CASE Master(b) /\ m.kind \in {"SCO_ON", "SCO_OFF"}
    <3>1. y \in {ScoOn(b, x, p), ScoOff(b, x, p)}
      BY <2>1, <2>5 DEF PhoneStatus
    <3>2. QED
      BY <2>1, <2>5, <3>1, HushSco DEF Muted, Reported
  <2>6. QED
    BY <1>7, <2>2, <2>3, <2>4, <2>5
<1>8. QED
  BY <1>1, <1>3, <1>4, <1>5, <1>6, <1>7 DEF Reports

\* What is in a stream of messages, as it grows and shrinks.
LEMMA StreamJoined ==
    ASSUME NEW q \in Seq(Message), NEW o \in Seq(Message)
    PROVE  /\ \A K : Comes(q \o o, K) <=> Comes(q, K) \/ Comes(o, K)
           /\ \A p : Stops(q \o o, p) <=> Stops(q, p) \/ Stops(o, p)
<1> DEFINE r == q \o o
<1>1. /\ \A i \in DOMAIN q : i \in DOMAIN r /\ r[i] = q[i]
      /\ \A i \in DOMAIN o : Len(q) + i \in DOMAIN r /\ r[Len(q) + i] = o[i]
      /\ \A i \in DOMAIN r : \/ i \in DOMAIN q
                             \/ i - Len(q) \in DOMAIN o /\ r[i] = o[i - Len(q)]
  BY Joined
<1> HIDE DEF r
<1>2. \A K : Comes(r, K) <=> Comes(q, K) \/ Comes(o, K)
  BY <1>1 DEF Comes
<1>3. \A p : Stops(r, p) <=> Stops(q, p) \/ Stops(o, p)
  BY <1>1 DEF Stops
<1>4. QED
  BY <1>2, <1>3 DEF r

LEMMA StreamTail ==
    ASSUME NEW q \in Seq(Message), q # <<>>
    PROVE  /\ \A K : Comes(q, K) <=> Head(q).kind \in K \/ Comes(Tail(q), K)
           /\ \A p : Stops(q, p) <=> Head(q) = Msg("OUTBAND_RING_STOP", p) \/ Stops(Tail(q), p)
<1> DEFINE r == Tail(q)
<1>1. /\ Head(q) = q[1] /\ 1 \in DOMAIN q
      /\ \A i \in DOMAIN r : r[i] = q[i + 1] /\ i + 1 \in DOMAIN q
      /\ \A i \in DOMAIN q : i = 1 \/ (i - 1 \in DOMAIN r /\ r[i - 1] = q[i])
  BY Rest
<1> HIDE DEF r
<1>2. \A K : Comes(q, K) <=> Head(q).kind \in K \/ Comes(r, K)
  BY <1>1 DEF Comes
<1>3. \A p : Stops(q, p) <=> Head(q) = Msg("OUTBAND_RING_STOP", p) \/ Stops(r, p)
  BY <1>1 DEF Stops
<1>4. QED
  BY <1>2, <1>3 DEF r

LEMMA StreamAdded ==
    ASSUME NEW q \in Seq(Message), NEW m \in Message
    PROVE  /\ \A K : Comes(Append(q, m), K) <=> Comes(q, K) \/ m.kind \in K
           /\ \A p : Stops(Append(q, m), p) <=> Stops(q, p) \/ m = Msg("OUTBAND_RING_STOP", p)
<1> DEFINE r == Append(q, m)
           n == Len(q) + 1
<1>1. /\ n \in DOMAIN r /\ r[n] = m
      /\ \A i \in DOMAIN q : i \in DOMAIN r /\ r[i] = q[i]
      /\ \A i \in DOMAIN r : i = n \/ i \in DOMAIN q
  OBVIOUS
<1> HIDE DEF r, n
<1>2. \A K : Comes(r, K) <=> Comes(q, K) \/ m.kind \in K
  BY <1>1 DEF Comes
<1>3. \A p : Stops(r, p) <=> Stops(q, p) \/ m = Msg("OUTBAND_RING_STOP", p)
  BY <1>1 DEF Stops
<1>4. QED
  BY <1>2, <1>3 DEF r

\* The bud that takes a step, and the others.
LEMMA DonePaced ==
    ASSUME IInv, Paced, NEW b \in Buds, NEW y \in Rec, NEW rest \in Seq(Message), Done(b, y, rest),
           late' \subseteq {"ring", "audio"}, Noted(bud[b]) => Noted(y),
           b # master => (y.timer => bud[b].timer)
    PROVE  /\ Paced'
           /\ bud'[b] = [y EXCEPT !.out = <<>>]
<1>1. /\ bud' = [bud EXCEPT ![b] = [y EXCEPT !.out = <<>>]] /\ master' = master
      /\ bud \in [Buds -> Rec]
  BY DEF Done, IInv, Typed
<1>2. bud'[b] = [y EXCEPT !.out = <<>>] /\ \A c \in Buds \ {b} : bud'[c] = bud[c]
  BY <1>1
<1>3. Noted(bud'[b]) <=> Noted(y)
  BY <1>2 DEF Noted, Rec
<1>4. bud'[b].timer = y.timer
  BY <1>2 DEF Rec
<1>5. Paced'
  BY <1>1, <1>2, <1>3, <1>4 DEF Paced
<1>6. QED
  BY <1>2, <1>5

\* The master takes a message from its queue.
LEMMA MasterHush ==
    ASSUME IInv, HushInv, Quiet, Handle(master), "ring" \notin late'
    PROVE  (HasReport(queue[master]) \/ Hushed)'
<1> DEFINE x == bud[master]
           q == queue[master]
           m == Head(q)
           rest == Tail(q)
           y == Handled(master, x, m.kind, m.of)
<1>1. /\ q # <<>> /\ Done(master, y, rest) /\ late' = late \cup Outruns(m.kind, rest \o air)
  BY DEF Handle
<1>2. /\ Typed /\ Apart /\ FlagInv /\ master \in Buds /\ x \in Rec /\ x.out = <<>>
      /\ q \in Seq(Message) /\ air \in Seq(Command) /\ air \in Seq(Message)
      /\ late \subseteq {"ring", "audio"}
  BY CommandsAreMessages DEF IInv, Typed
<1>3. m \in Message /\ rest \in Seq(Message) /\ Master(master)
  BY <1>1, <1>2, Rest DEF Master
<1>4. y \in Rec /\ (~link => y.out = x.out) /\ Muted(master, m.kind, x, y)
  BY <1>2, <1>3, HandledDoes, HandledMuted DEF Handles
<1>5. "ring" \notin late /\ ~OutrunsRing(m.kind, rest \o air)
  BY <1>1 DEF Outruns
<1>6. late' \subseteq {"ring", "audio"}
  BY <1>1, <1>2 DEF Outruns
<1>7. /\ queue'[master'] = rest /\ air' = air \o y.out /\ master' = master /\ link' = link
      /\ y.out \in Seq(Message) /\ Apart'
  <2> HIDE DEF y
  <2>1. ~link => y.out = <<>>
    BY <1>2, <1>4
  <2>2. Apart'
    BY <1>1, <1>2, <1>3, <1>4, <1>6, <2>1, DoneApart
  <2> HIDE DEF rest, q, m, x
  <2>3. /\ queue'[master] = rest /\ air' = air \o y.out /\ UNCHANGED <<call, link, master>>
        /\ y.out \in Seq(Message)
    <3>1. Typed /\ y \in Rec /\ rest \in Seq(Message) /\ Done(master, y, rest) /\ master \in Buds
          /\ late' \subseteq {"ring", "audio"}
      BY <1>1, <1>2, <1>3, <1>4, <1>6
    <3>2. QED
      BY ONLY <3>1, DoneDoes
  <2>4. QED
    BY <2>2, <2>3
<1>8. bud'[master'] = [y EXCEPT !.out = <<>>]
  BY <1>1, <1>2, <1>7 DEF Done, Typed
<1>9. /\ bud'[master'].timer = y.timer /\ bud'[master'].ring = y.ring
      /\ bud'[master'].coexist = y.coexist
  BY <1>4, <1>8 DEF Rec
<1>10. HasReport(q) \/ Hushed
  BY <1>5 DEF HushInv
<1>11. m.kind = "PHONE_INCOME" => HasReport(rest)
  BY <1>1, <1>2, RestEnds DEF FlagInv
<1> HIDE DEF y
<1>12. /\ \A K : Comes(q, K) <=> m.kind \in K \/ Comes(rest, K)
       /\ \A p : Stops(q, p) <=> m = Msg("OUTBAND_RING_STOP", p) \/ Stops(rest, p)
       /\ \A K : Comes(air', K) <=> Comes(air, K) \/ Comes(y.out, K)
       /\ \A p : Stops(air', p) <=> Stops(air, p) \/ Stops(y.out, p)
       /\ \A K : Comes(rest \o air, K) <=> Comes(rest, K) \/ Comes(air, K)
  BY <1>1, <1>2, <1>3, <1>7, StreamTail, StreamJoined
<1> HIDE DEF rest, m, q, x
<1>13. \A K : K \subseteq Noisy /\ Inert(Noisy, y.out) => ~Comes(y.out, K)
  BY DEF Inert, Comes
<1>14. Inert(Noisy, x.out)
  BY <1>2 DEF Inert
<1>15. {"OUTBAND_RING"} \subseteq Noisy /\ {"PLAY"} \subseteq Noisy
  BY DEF Noisy
<1>16. CASE HasReport(rest)
  BY <1>7, <1>16
<1>17. CASE m.kind \in Reported /\ ~HasReport(rest)
  <2>1. Hush(x, y) /\ Stopped(x, y) /\ m.kind \notin Noisy
    BY <1>3, <1>4, <1>17 DEF Muted, Reported, Noisy
  <2>2. Inert(Noisy, y.out) /\ ~y.timer /\ y.coexist = x.coexist
    BY <1>14, <2>1 DEF Hush, Stopped
  <2>3. ~Comes(rest, {"OUTBAND_RING"}) /\ ~Comes(air', {"OUTBAND_RING"})
    BY <1>5, <1>12, <1>13, <1>15, <1>17, <2>2 DEF OutrunsRing, Reported
  <2>4. link => Stops(air', y.coexist)
    BY <1>12, <2>1, <2>2 DEF Stopped
  <2>5. ~link => ~y.ring /\ ~Comes(rest, {"PLAY"}) /\ ~Comes(air', {"PLAY"})
    BY <1>7, <2>1 DEF Stopped, Apart, Comes, Commands
  <2>6. Hushed'
    BY <1>7, <1>9, <2>2, <2>3, <2>4, <2>5 DEF Hushed
  <2>7. QED
    BY <2>6
<1>18. CASE m.kind \notin Reported /\ ~HasReport(rest)
  <2>1. Hushed /\ m.kind # "PHONE_INCOME" /\ m.kind # "OUTBAND_RING"
    <3>1. Hushed
      BY <1>1, <1>2, <1>10, <1>18, RestEnds DEF q, m, rest
    <3>2. QED
      BY <1>11, <1>12, <1>18, <3>1 DEF Hushed, q
  <2>2. /\ ~x.timer /\ ~Comes(rest, {"OUTBAND_RING"}) /\ ~Comes(air, {"OUTBAND_RING"})
        /\ x.ring \/ Comes(q, {"PLAY"}) \/ Comes(air, {"PLAY"})
               => Stops(q, x.coexist) \/ Stops(air, x.coexist)
    BY <1>12, <2>1 DEF Hushed, q, x
  <2>3. CASE m.kind = "PLAY"
    <3>1. y = [x EXCEPT !.ring = TRUE]
      BY <2>3 DEF y, Handled, Run, Commands
    <3>2. y.timer = x.timer /\ y.coexist = x.coexist /\ y.out = <<>>
      BY <1>2, <3>1 DEF Rec
    <3>3. Stops(rest, x.coexist) \/ Stops(air', x.coexist)
      BY <1>12, <2>2, <2>3 DEF Msg
    <3>4. ~Comes(air', {"OUTBAND_RING"})
      <4>1. \A K : ~Comes(<<>>, K)
        BY DEF Comes
      <4>2. QED
        BY <1>12, <2>2, <3>2, <4>1
    <3>5. Hushed'
      BY <1>7, <1>9, <2>2, <3>2, <3>3, <3>4 DEF Hushed
    <3>6. QED
      BY <3>5
  <2>4. CASE m.kind # "PLAY"
    <3>1. Hush(x, y)
      BY <1>4, <2>1, <2>4 DEF Muted, Noisy
    <3>2. Inert(Noisy, y.out) /\ (y.ring => x.ring) /\ ~y.timer /\ y.coexist = x.coexist
      BY <1>14, <2>2, <3>1 DEF Hush, Keeps
    <3>3. ~Comes(air', {"OUTBAND_RING"}) /\ (Comes(air', {"PLAY"}) => Comes(air, {"PLAY"}))
      BY <1>12, <1>13, <1>15, <2>2, <3>2
    <3>4. ASSUME y.ring \/ Comes(rest, {"PLAY"}) \/ Comes(air', {"PLAY"})
          PROVE  Stops(rest, y.coexist) \/ Stops(air', y.coexist)
      <4>1. Stops(q, x.coexist) \/ Stops(air, x.coexist)
        BY <1>12, <2>2, <3>2, <3>3, <3>4
      <4>2. CASE m = Msg("OUTBAND_RING_STOP", x.coexist)
        <5>1. m.kind = "OUTBAND_RING_STOP" /\ m.of = x.coexist
          BY <4>2 DEF Msg
        <5>2. y = bt_phone_outband_ring_stop(x, x.coexist)
          BY <5>1 DEF y, Handled, Run, Commands
        <5>3. x.coexist \in Some
          BY <1>2 DEF Rec
        <5>4. ~y.ring
          BY <1>2, <5>2, <5>3, HushOutband
        <5>5. Comes(rest \o air, {"PLAY"})
          BY <1>12, <3>3, <3>4, <5>4
        <5>6. QED
          BY <1>5, <5>1, <5>5 DEF OutrunsRing, Ends
      <4>3. QED
        BY <1>12, <3>2, <4>1, <4>2
    <3>5. Hushed'
      BY <1>7, <1>9, <2>2, <3>2, <3>3, <3>4 DEF Hushed
    <3>6. QED
      BY <3>5
  <2>5. QED
    BY <2>3, <2>4
<1>19. QED
  BY <1>16, <1>17, <1>18

LEMMA HandleHush ==
    ASSUME IInv, HushInv, NEW b \in Buds, Handle(b) PROVE HushInv'
<1> DEFINE x == bud[b]
           m == Head(queue[b])
           rest == Tail(queue[b])
           y == Handled(b, x, m.kind, m.of)
<1>1. queue[b] # <<>> /\ Done(b, y, rest) /\ late' = late \cup Outruns(m.kind, rest \o air)
  BY DEF Handle
<1>2. /\ Typed /\ Apart /\ Paced /\ master \in Buds /\ x \in Rec /\ x.out = <<>>
      /\ queue[b] \in Seq(Message) /\ queue[master] \in Seq(Message)
      /\ air \in Seq(Message) /\ late \subseteq {"ring", "audio"}
  BY CommandsAreMessages DEF IInv, Typed, HushInv
<1>3. m \in Message /\ rest \in Seq(Message)
  BY <1>1, <1>2, Rest
<1>4. y \in Rec /\ Muted(b, m.kind, x, y)
  BY <1>2, <1>3, HandledDoes, HandledMuted DEF Handles
<1>5. late' \subseteq {"ring", "audio"}
  BY <1>1, <1>2 DEF Outruns
<1>6. b # master => ~Master(b)
  BY <1>1, <1>2 DEF Apart, Master
<1>7. Paced'
  BY <1>1, <1>2, <1>3, <1>4, <1>5, <1>6, DonePaced DEF Muted
<1>8. ASSUME Quiet', "ring" \notin late' PROVE (HasReport(queue[master]) \/ Hushed)'
  <2>1. Quiet /\ "ring" \notin late
    BY <1>1, <1>2, <1>3, <1>4, <1>5, <1>8, DoneDoes
  <2>2. CASE b = master
    BY <1>8, <2>1, <2>2, MasterHush
  <2>3. CASE b # master
    <3>1. y.out = <<>>
      BY <1>2, <1>4, <1>6, <2>3 DEF Muted
    <3> HIDE DEF y, rest, m, x
    <3>2. /\ queue'[master] = queue[master] \o y.out /\ bud'[master] = bud[master]
          /\ air' = air \o y.out /\ UNCHANGED <<call, link, master>>
      <4>1. Typed /\ y \in Rec /\ rest \in Seq(Message) /\ Done(b, y, rest)
            /\ late' \subseteq {"ring", "audio"} /\ master \in Buds \ {b}
        BY <1>1, <1>2, <1>3, <1>4, <1>5, <2>3
      <4>2. QED
        BY ONLY <4>1, b \in Buds, DoneDoes
    <3>3. queue[master] \o <<>> = queue[master] /\ air \o <<>> = air
      BY <1>2
    <3>6. queue'[master'] = queue[master] /\ bud'[master'] = bud[master] /\ air' = air
          /\ master' = master
      BY <3>1, <3>2, <3>3
    <3>4. HasReport(queue[master]) \/ Hushed
      BY <2>1 DEF HushInv
    <3>5. QED
      BY <3>4, <3>6 DEF Hushed
  <2>4. QED
    BY <2>2, <2>3
<1>9. QED
  BY <1>7, <1>8 DEF HushInv

LEMMA TimersHush ==
    ASSUME IInv, HushInv, NEW b \in Buds, CommandDelay(b) \/ SecondTimers(b) PROVE HushInv'
<1>1. /\ Typed /\ Apart /\ Paced /\ master \in Buds /\ bud[b] \in Rec /\ bud[b].out = <<>>
      /\ queue[b] \in Seq(Message) /\ queue[master] \in Seq(Message) /\ Noted(bud[b])
      /\ air \in Seq(Message) /\ late \subseteq {"ring", "audio"}
  BY CommandsAreMessages DEF IInv, Typed, HushInv, Paced
<1>2. late' = late
  BY DEF CommandDelay, SecondTimers
<1>3. CASE CommandDelay(b)
  <2> DEFINE x == [bud[b] EXCEPT !.timer = FALSE]
             y == tws_phone_call_send_cmd(b, x, "OUTBAND_RING", bud[b].coexist)
  <2>1. b = master /\ Done(b, y, queue[b]) /\ bud[b].timer
    BY <1>1, <1>3 DEF CommandDelay, Paced
  <2>2. x \in Rec /\ Keeps(bud[b], x)
    BY <1>1, HushUpdates DEF Rec, Hush
  <2>3. "OUTBAND_RING" \in Commands /\ Named("OUTBAND_RING", bud[b].coexist)
    BY <1>1 DEF Commands, Named, Nameless, Rec
  <2> HIDE DEF x
  <2>4. y \in Rec /\ Keeps(bud[b], y)
    BY <2>2, <2>3, HushSend, SendDoes, KeepsTrans
  <2> HIDE DEF y
  <2>5. Paced'
    BY <1>1, <1>2, <2>1, <2>4, DonePaced DEF Keeps
  <2>6. queue'[master'] = queue[master] /\ (Quiet <=> Quiet')
    <3>1. queue'[b] = queue[b] /\ UNCHANGED <<call, link, master>> /\ (Quiet <=> Quiet')
      BY <1>1, <1>2, <2>1, <2>4, DoneDoes
    <3>2. QED
      BY <2>1, <3>1
  <2>7. Quiet /\ "ring" \notin late => HasReport(queue[master])
    BY <2>1 DEF HushInv, Hushed
  <2>8. QED
    BY <1>2, <2>5, <2>6, <2>7 DEF HushInv
<1>4. CASE SecondTimers(b)
  <2>1. PICK u \in Rec, y \in Rec :
            /\ Done(b, y, queue[b])
            /\ Keeps(bud[b], y) /\ u.out = <<>> /\ u.timer = bud[b].timer
            /\ u.ring = bud[b].ring /\ u.coexist = bud[b].coexist /\ (Quiet => y = u)
    <3> DEFINE u == [bud[b] EXCEPT !.second = @ - 1]
               v == [bud[b] EXCEPT !.user = @ - 1]
               y == phone_second_call_ring_play_start(b, u)
               z == user_phone_second_call_ring_play_start(b, v)
    <3>1. CASE bud[b].second > 0 /\ Done(b, y, queue[b])
      <4>1. u \in Rec
        BY <1>1, <3>1, Timed DEF Still
      <4>2. /\ bud[b].addr \in Phones /\ u.addr = bud[b].addr /\ u.out = <<>>
            /\ u.timer = bud[b].timer /\ u.ring = bud[b].ring /\ u.coexist = bud[b].coexist
        BY <1>1, <3>1 DEF Noted, Rec
      <4>3. Keeps(bud[b], u)
        BY <4>2 DEF Keeps, Noted
      <4> HIDE DEF u
      <4>4. Hush(u, y) /\ (Quiet => y = u) /\ Still(u, y)
        BY <4>1, <4>2, HushSecond, StillSecond
      <4> HIDE DEF y
      <4>5. Keeps(bud[b], y) /\ y \in Rec
        BY <4>3, <4>4, KeepsTrans DEF Hush, Still
      <4>6. QED
        BY <3>1, <4>1, <4>2, <4>4, <4>5
    <3>2. CASE bud[b].user > 0 /\ Done(b, z, queue[b])
      <4>1. v \in Rec
        BY <1>1, <3>2, Timed DEF Still
      <4>2. /\ bud[b].addr \in Phones /\ v.addr = bud[b].addr /\ v.out = <<>>
            /\ v.timer = bud[b].timer /\ v.ring = bud[b].ring /\ v.coexist = bud[b].coexist
        BY <1>1, <3>2 DEF Noted, Rec
      <4>3. Keeps(bud[b], v)
        BY <4>2 DEF Keeps, Noted
      <4> HIDE DEF v
      <4>4. Hush(v, z) /\ (Quiet => z = v) /\ Still(v, z)
        BY <4>1, <4>2, HushSecond, StillSecond
      <4> HIDE DEF z
      <4>5. Keeps(bud[b], z) /\ z \in Rec
        BY <4>3, <4>4, KeepsTrans DEF Hush, Still
      <4>6. QED
        BY <3>2, <4>1, <4>2, <4>4, <4>5
    <3>3. QED
      BY <1>4, <3>1, <3>2 DEF SecondTimers
  <2>2. Paced' /\ bud'[b] = [y EXCEPT !.out = <<>>]
    BY <1>1, <1>2, <2>1, DonePaced DEF Keeps
  <2>3. /\ queue'[b] = queue[b] /\ air' = air \o y.out /\ master' = master /\ (Quiet <=> Quiet')
        /\ \A c \in Buds \ {b} : queue'[c] = queue[c] \o y.out /\ bud'[c] = bud[c]
    BY <1>1, <1>2, <2>1, DoneDoes
  <2>4. ASSUME Quiet
        PROVE  HasReport(queue[master]) \/ Hushed => (HasReport(queue[master]) \/ Hushed)'
    <3>1. y.out = <<>> /\ y = u
      BY <2>1, <2>4
    <3>2. air' = air /\ queue'[master'] = queue[master]
      BY <1>1, <2>3, <3>1
    <3>3. /\ bud'[master'].timer = bud[master].timer /\ bud'[master'].ring = bud[master].ring
          /\ bud'[master'].coexist = bud[master].coexist
      <4>1. CASE b = master
        BY <2>1, <2>2, <2>3, <3>1, <4>1 DEF Rec
      <4>2. CASE b # master
        BY <1>1, <2>3, <4>2
      <4>3. QED
        BY <4>1, <4>2
    <3>4. QED
      BY <3>2, <3>3 DEF Hushed
  <2>5. QED
    BY <1>2, <2>2, <2>3, <2>4 DEF HushInv
<1>5. QED
  BY <1>3, <1>4

LEMMA DeliverHush == ASSUME IInv, HushInv, Deliver PROVE HushInv'
<1> DEFINE m == Head(air)
           rest == Tail(air)
           q == Append(queue[master], m)
<1>1. /\ air # <<>> /\ air \in Seq(Message) /\ queue[master] \in Seq(Message) /\ master \in Buds
      /\ queue \in [Buds -> Seq(Message)] /\ Paced
  BY CommandsAreMessages DEF IInv, Typed, Deliver, HushInv
<1>2. /\ queue' = [queue EXCEPT ![master] = q] /\ air' = rest
      /\ UNCHANGED <<bud, call, sco, inband, link, master, events, late>>
  BY DEF Deliver
<1>3. m \in Message /\ rest \in Seq(Message)
  BY <1>1
<1>4. queue'[master'] = q /\ bud'[master'] = bud[master] /\ Paced' /\ (Quiet <=> Quiet')
  BY <1>1, <1>2 DEF Paced, Quiet
<1>5. HasReport(queue[master]) => HasReport(q)
  BY <1>1, <1>3, Added
<1>6. /\ \A K : Comes(q, K) \/ Comes(rest, K) <=> Comes(queue[master], K) \/ Comes(air, K)
      /\ \A p : Stops(q, p) \/ Stops(rest, p) <=> Stops(queue[master], p) \/ Stops(air, p)
  BY <1>1, <1>3, StreamAdded, StreamTail
<1>7. Hushed => Hushed'
  BY <1>2, <1>4, <1>6 DEF Hushed
<1>8. QED
  BY <1>2, <1>4, <1>5, <1>7 DEF HushInv

\* A report that asks for no ring.
LEMMA PhonedHush ==
    ASSUME IInv, HushInv, NEW p \in Phones, NEW kind \in Reports \ Nameless, Phoned(kind, p),
           UNCHANGED late, ~Quiet' \/ kind \in Reported \/ (Quiet' <=> Quiet)
    PROVE  HushInv'
<1> DEFINE m == Msg(kind, p)
<1>1. /\ queue[master] \in Seq(Message) /\ master \in Buds /\ queue \in [Buds -> Seq(Message)]
      /\ Paced
  BY DEF IInv, Typed, HushInv
<1>2. m \in Message /\ m.kind = kind
  BY DEF Msg, Message, Some
<1>3. kind \notin {"PLAY", "OUTBAND_RING", "OUTBAND_RING_STOP"}
  BY DEF Reports
<1> HIDE DEF m
<1>4. /\ queue'[master'] = Append(queue[master], m)
      /\ UNCHANGED <<bud, air, master>>
  BY <1>1 DEF Phoned, m
<1>5. Paced'
  BY <1>1, <1>4 DEF Paced
<1>6. /\ HasReport(queue[master]) => HasReport(queue'[master'])
      /\ kind \in Reported => HasReport(queue'[master'])
      /\ \A K : K \subseteq Noisy => (Comes(queue'[master'], K) <=> Comes(queue[master], K))
      /\ \A r : Stops(queue[master], r) => Stops(queue'[master'], r)
  BY <1>1, <1>2, <1>3, <1>4, Added, StreamAdded DEF Noisy
<1>7. Hushed => Hushed'
  BY <1>4, <1>6 DEF Hushed, Noisy
<1>8. QED
  BY <1>5, <1>6, <1>7 DEF HushInv

LEMMA LinkUpHush == ASSUME IInv, HushInv, LinkUp, UNCHANGED late PROVE HushInv'
<1>1. /\ queue[master] \in Seq(Message) /\ master \in Buds /\ Paced
  BY DEF IInv, Typed, HushInv
<1>2. PICK p \in Phones :
          queue' = [b \in Buds |-> queue[b] \o <<Msg("CONNECTED", NoPhone)>> \o
                       IF b = master
                       THEN <<Msg("MONITOR_START", p), Msg("MONITOR_START", Other(p))>>
                       ELSE IF sco = NoPhone THEN <<>> ELSE <<Msg("S_START_ENTER_ESCO", sco)>>]
  BY DEF LinkUp
<1>3. UNCHANGED <<bud, air, call, sco, inband, master>>
  BY DEF LinkUp
<1> DEFINE c == Msg("CONNECTED", NoPhone)
           m == Msg("MONITOR_START", p)
           n == Msg("MONITOR_START", Other(p))
<1>4. Other(p) \in Phones
  BY TheOther
<1>5. {c, m, n} \subseteq Message /\ \A k \in {c, m, n} : k.kind \in Joining
  BY <1>4 DEF Msg, Message, Some, Reports, Commands, Nameless, Joining
<1>6. queue'[master'] = queue[master] \o <<c>> \o <<m, n>>
  BY <1>1, <1>2, <1>3
<1> HIDE DEF c, m, n
<1> DEFINE o == <<c, m, n>>
<1>7. o \in Seq(Message) /\ \A i \in DOMAIN o : o[i].kind \in Joining
  BY <1>5
<1>8. queue[master] \o <<c>> \o <<m, n>> = queue[master] \o o
  BY <1>1, <1>5
<1> HIDE DEF o
<1>9. ~Comes(o, {"PLAY"}) /\ ~Comes(o, {"OUTBAND_RING"})
  BY <1>7 DEF Comes, Joining
<1>10. /\ HasReport(queue[master]) => HasReport(queue'[master'])
       /\ \A K : Comes(queue'[master'], K) <=> Comes(queue[master], K) \/ Comes(o, K)
       /\ \A r : Stops(queue[master], r) => Stops(queue'[master'], r)
  <2> DEFINE q == queue[master]
  <2>1. q \in Seq(Message) /\ queue'[master'] = q \o o
    BY <1>1, <1>6, <1>8
  <2> HIDE DEF q
  <2>2. HasReport(q) => HasReport(q \o o)
    BY <1>7, <2>1, JoiningAdds
  <2>3. /\ \A K : Comes(q \o o, K) <=> Comes(q, K) \/ Comes(o, K)
        /\ \A r : Stops(q, r) => Stops(q \o o, r)
    BY <1>7, <2>1, StreamJoined
  <2>4. QED
    BY <2>1, <2>2, <2>3 DEF q
<1>11. Hushed => Hushed'
  BY <1>3, <1>9, <1>10 DEF Hushed
<1>12. Paced' /\ (Quiet <=> Quiet')
  BY <1>1, <1>3 DEF Paced, Quiet
<1>13. QED
  BY <1>10, <1>11, <1>12 DEF HushInv

LEMMA WorldHush == ASSUME IInv, HushInv, World PROVE HushInv'
<1>1. UNCHANGED late /\ call \in [Phones -> {"no", "in", "out", "active"}]
  BY DEF World, IInv, Typed
<1>2. {"PHONE_INCOME", "PHONE_ACTIVE", "PHONE_HANGUP", "SCO_ON", "SCO_OFF"} \subseteq Reports \ Nameless
  BY DEF Reports, Nameless
<1>3. ASSUME NEW p \in Phones, CallIn(p) PROVE HushInv'
  <2>1. ~Quiet' /\ Phoned("PHONE_INCOME", p)
    BY <1>1, <1>3 DEF CallIn, Quiet
  <2>2. QED
    BY <1>1, <1>2, <2>1, PhonedHush
<1>4. ASSUME NEW p \in Phones, CallOut(p) PROVE HushInv'
  <2>1. call' = [call EXCEPT ![p] = "out"] /\ call[p] = "no"
        /\ UNCHANGED <<bud, queue, air, master, late>>
    BY <1>1, <1>4 DEF CallOut
  <2>2. Quiet' => Quiet
    BY <1>1, <2>1 DEF Quiet
  <2>3. QED
    BY <2>1, <2>2 DEF HushInv, Paced, Hushed
<1>5. ASSUME NEW p \in Phones, Answer(p) \/ HangUp(p) PROVE HushInv'
  <2>1. PICK kind \in Reported : Phoned(kind, p)
    BY <1>5 DEF Answer, HangUp, Reported
  <2>2. kind \in Reports \ Nameless
    BY <1>2 DEF Reported
  <2>3. QED
    BY <1>1, <2>1, <2>2, PhonedHush
<1>6. ASSUME NEW p \in Phones, ScoUp(p) \/ ScoDown(p) PROVE HushInv'
  <2>1. PICK kind \in {"SCO_ON", "SCO_OFF"} : Phoned(kind, p)
    BY <1>6 DEF ScoUp, ScoDown
  <2>2. Quiet' <=> Quiet
    BY <1>6 DEF ScoUp, ScoDown, Quiet
  <2>3. QED
    BY <1>1, <1>2, <2>1, <2>2, PhonedHush
<1>7. ASSUME LinkUp PROVE HushInv'
  BY <1>1, <1>7, LinkUpHush
<1>8. QED
  BY <1>3, <1>4, <1>5, <1>6, <1>7 DEF World

LEMMA InitHush == ASSUME Init PROVE HushInv
<1>1. /\ master \in Buds /\ air = <<>> /\ \A b \in Buds : queue[b] = <<>>
      /\ \A b \in Buds : /\ ~bud[b].timer /\ ~bud[b].ring
                         /\ bud[b].second = 0 /\ bud[b].user = 0
  BY DEF Init
<1>2. Paced
  BY <1>1 DEF Paced, Noted
<1>3. Hushed
  BY <1>1 DEF Hushed, Comes
<1>4. QED
  BY <1>2, <1>3 DEF HushInv

LEMMA NextHush == ASSUME IInv, HushInv, [Next]_vars PROVE HushInv'
<1>1. CASE Next
  BY <1>1, WorldHush, DeliverHush, HandleHush, TimersHush DEF Next, Program
<1>2. CASE UNCHANGED vars
  BY <1>2 DEF vars, HushInv, Paced, Hushed, Quiet
<1>3. QED
  BY <1>1, <1>2

(***************************************************************************)
(* The last call.  While p calls in, sends no ring of its own, and the     *)
(* other phone has no call: a report whose handling stops the ring has one *)
(* behind it that brings it back; and if none is there, a ring is on its   *)
(* way, as a timer, as a command that asks for it, or as one that plays or *)
(* is about to, with nothing behind it that would stop it.                 *)
(***************************************************************************)
Alone(p) == p \notin inband /\ call[p] = "in" /\ call[Other(p)] = "no"

\* Of a report, that it brings the ring for p, or stops it; the same of a command.
Brings(p, m) ==
    (m.kind = "PHONE_INCOME" /\ m.of = p) \/ (m.kind = "PHONE_HANGUP" /\ m.of # p)
Halts(p, m) == m.kind \in {"PHONE_ACTIVE", "SCO_ON"} \/ (m.kind = "PHONE_HANGUP" /\ m.of = p)
Calls(p, m) == (m.kind \in Flagging /\ m.of = p) \/ (m.kind = "HANGUP" /\ m.of # p)
Silences(p, m) ==
    \/ m.kind \in {"ACTIVE", "OPEN_ESCO", "OUTBAND_RING_STOP"}
    \/ m.kind = "HANGUP" /\ m.of = p
    \/ m.kind \in Flagging /\ m.of # p

Bringing(p, q) == \E i \in DOMAIN q : Brings(p, q[i])
Followed(p, q) == \A i \in DOMAIN q :
    Halts(p, q[i]) => \E j \in DOMAIN q : j > i /\ Brings(p, q[j])
Calling(p, q) == \E i \in DOMAIN q : Calls(p, q[i])
Clear(p, q) == \A i \in DOMAIN q : ~Silences(p, q[i])
\* From a bud that rings or not, the messages leave one that rings, or has PLAY asked for.
Ringing(p, q, ring) ==
    \/ ring /\ Clear(p, q)
    \/ \E i \in DOMAIN q : /\ q[i].kind \in Noisy
                           /\ \A j \in DOMAIN q : j > i => ~Silences(p, q[j])

Coming(p) ==
    \/ bud[master].timer
    \/ Calling(p, queue[master]) \/ Calling(p, air)
    \/ Ringing(p, air, FALSE)
    \/ Clear(p, air) /\ Ringing(p, queue[master], bud[master].ring)

LastOf(p) == Followed(p, queue[master]) /\ (Bringing(p, queue[master]) \/ Coming(p))
LastInv == \A p \in Phones : Alone(p) => LastOf(p)

LEMMA OtherOnly ==
    ASSUME NEW p \in Phones, NEW r \in Phones
    PROVE  (r # p => r = Other(p)) /\ Other(Other(p)) = p
<1>1. IsFiniteSet(Phones) /\ Cardinality(Phones) = 2
  BY RingAssumption
<1>2. IsFiniteSet(Phones \ {p}) /\ Cardinality(Phones \ {p}) = 1
  BY <1>1, FS_RemoveElement
<1>3. PICK q : Phones \ {p} = {q}
  BY <1>2, FS_Singleton
<1>4. Other(p) \in Phones /\ Other(p) # p
  BY TheOther
<1>5. Other(Other(p)) \in Phones /\ Other(Other(p)) # Other(p)
  BY <1>4, TheOther
<1>6. QED
  BY <1>3, <1>4, <1>5

LEMMA LastTail ==
    ASSUME NEW q \in Seq(Message), q # <<>>, NEW p
    PROVE  /\ Bringing(p, q) => Brings(p, Head(q)) \/ Bringing(p, Tail(q))
           /\ Followed(p, q) => Followed(p, Tail(q)) /\ (Halts(p, Head(q)) => Bringing(p, Tail(q)))
           /\ Calling(p, q) => Calls(p, Head(q)) \/ Calling(p, Tail(q))
           /\ Clear(p, q) => ~Silences(p, Head(q)) /\ Clear(p, Tail(q))
           /\ \A r \in BOOLEAN : Ringing(p, q, r) =>
                  \/ Ringing(p, Tail(q), FALSE)
                  \/ /\ Clear(p, Tail(q))
                     /\ Head(q).kind \in Noisy \/ (r /\ ~Silences(p, Head(q)))
<1> DEFINE t == Tail(q)
<1>1. /\ Head(q) = q[1] /\ DOMAIN q = 1..Len(q) /\ Len(q) \in Nat /\ 1 \in DOMAIN q
      /\ \A i \in DOMAIN t : t[i] = q[i + 1] /\ i + 1 \in DOMAIN q /\ i \in Nat /\ i + 1 > 1
      /\ \A i \in DOMAIN q : i = 1 \/ (i > 1 /\ i - 1 \in DOMAIN t /\ t[i - 1] = q[i])
  BY Rest
<1> HIDE DEF t
<1>2. Bringing(p, q) => Brings(p, q[1]) \/ Bringing(p, t)
  BY <1>1 DEF Bringing
<1>3. ASSUME Followed(p, q) PROVE Followed(p, t) /\ (Halts(p, q[1]) => Bringing(p, t))
  <2>1. ASSUME NEW i \in DOMAIN t, Halts(p, t[i])
        PROVE  \E j \in DOMAIN t : j > i /\ Brings(p, t[j])
    <3>1. i + 1 \in DOMAIN q /\ Halts(p, q[i + 1])
      BY <1>1, <2>1
    <3>2. PICK j \in DOMAIN q : j > i + 1 /\ Brings(p, q[j])
      BY <1>3, <3>1 DEF Followed
    <3>3. j - 1 \in DOMAIN t /\ t[j - 1] = q[j] /\ j - 1 > i
      BY <1>1, <3>2
    <3>4. QED
      BY <3>2, <3>3
  <2>2. ASSUME Halts(p, q[1]) PROVE Bringing(p, t)
    <3>1. PICK j \in DOMAIN q : j > 1 /\ Brings(p, q[j])
      BY <1>1, <1>3, <2>2 DEF Followed
    <3>2. j - 1 \in DOMAIN t /\ t[j - 1] = q[j]
      BY <1>1, <3>1
    <3>3. QED
      BY <3>1, <3>2 DEF Bringing
  <2>3. QED
    BY <2>1, <2>2 DEF Followed
<1>4. Calling(p, q) => Calls(p, q[1]) \/ Calling(p, t)
  BY <1>1 DEF Calling
<1>5. Clear(p, q) => ~Silences(p, q[1]) /\ Clear(p, t)
  BY <1>1 DEF Clear
<1>6. ASSUME NEW r \in BOOLEAN, Ringing(p, q, r)
      PROVE  Ringing(p, t, FALSE) \/ (Clear(p, t) /\ (q[1].kind \in Noisy \/ (r /\ ~Silences(p, q[1]))))
  <2>1. CASE r /\ Clear(p, q)
    BY <1>5, <2>1
  <2>2. CASE \E i \in DOMAIN q : /\ q[i].kind \in Noisy
                                 /\ \A j \in DOMAIN q : j > i => ~Silences(p, q[j])
    <3>1. PICK i \in DOMAIN q : /\ q[i].kind \in Noisy
                                /\ \A j \in DOMAIN q : j > i => ~Silences(p, q[j])
      BY <2>2
    <3>2. \A j \in DOMAIN t : j + 1 > i => ~Silences(p, t[j])
      BY <1>1, <3>1
    <3>3. CASE i = 1
      BY <1>1, <3>1, <3>2, <3>3 DEF Clear
    <3>4. CASE i # 1
      <4>1. i - 1 \in DOMAIN t /\ t[i - 1] = q[i] /\ i \in Nat
        BY <1>1, <3>4
      <4>2. \A j \in DOMAIN t : j > i - 1 => ~Silences(p, t[j])
        BY <1>1, <3>2, <4>1
      <4>3. QED
        BY <3>1, <4>1, <4>2 DEF Ringing
    <3>5. QED
      BY <3>3, <3>4
  <2>3. QED
    BY <1>6, <2>1, <2>2 DEF Ringing
<1>7. \A r \in BOOLEAN : Ringing(p, q, r) =>
          Ringing(p, t, FALSE) \/ (Clear(p, t) /\ (q[1].kind \in Noisy \/ (r /\ ~Silences(p, q[1]))))
  BY <1>6
<1>8. Head(q) = q[1]
  BY <1>1
<1>9. QED
  BY <1>2, <1>3, <1>4, <1>5, <1>7, <1>8 DEF t

LEMMA LastAdded ==
    ASSUME NEW q \in Seq(Message), NEW m \in Message, NEW p
    PROVE  /\ Bringing(p, q) \/ Brings(p, m) => Bringing(p, Append(q, m))
           /\ Brings(p, m) /\ ~Halts(p, m) => Followed(p, Append(q, m))
           /\ ~Halts(p, m) /\ Followed(p, q) => Followed(p, Append(q, m))
           /\ Calling(p, q) \/ Calls(p, m) => Calling(p, Append(q, m))
           /\ Clear(p, q) /\ ~Silences(p, m) => Clear(p, Append(q, m))
           /\ \A r \in BOOLEAN : Ringing(p, q, r) /\ ~Silences(p, m) => Ringing(p, Append(q, m), r)
           /\ \A r \in BOOLEAN : m.kind \in Noisy => Ringing(p, Append(q, m), r)
<1> DEFINE t == Append(q, m)
           n == Len(q) + 1
<1>1. /\ t \in Seq(Message) /\ DOMAIN t = 1..n /\ DOMAIN q = 1..Len(q) /\ Len(q) \in Nat
      /\ n \in DOMAIN t /\ t[n] = m
      /\ \A i \in DOMAIN q : i \in DOMAIN t /\ t[i] = q[i] /\ n > i
      /\ \A i \in DOMAIN t : (i = n \/ i \in DOMAIN q) /\ ~(i > n)
  OBVIOUS
<1> HIDE DEF t, n
<1>2. Bringing(p, q) \/ Brings(p, m) => Bringing(p, t)
  BY <1>1 DEF Bringing
<1>3. Brings(p, m) /\ ~Halts(p, m) => Followed(p, t)
  BY <1>1 DEF Followed
<1>4. ~Halts(p, m) /\ Followed(p, q) => Followed(p, t)
  BY <1>1 DEF Followed
<1>5. Calling(p, q) \/ Calls(p, m) => Calling(p, t)
  BY <1>1 DEF Calling
<1>6. Clear(p, q) /\ ~Silences(p, m) => Clear(p, t)
  BY <1>1 DEF Clear
<1>7. \A r \in BOOLEAN : Ringing(p, q, r) /\ ~Silences(p, m) => Ringing(p, t, r)
  BY <1>1, <1>6 DEF Ringing
<1>8. \A r \in BOOLEAN : m.kind \in Noisy => Ringing(p, t, r)
  BY <1>1 DEF Ringing
<1>9. QED
  BY <1>2, <1>3, <1>4, <1>5, <1>6, <1>7, <1>8 DEF t

LEMMA LastJoined ==
    ASSUME NEW q \in Seq(Message), NEW o \in Seq(Message), NEW p
    PROVE  /\ Bringing(p, q) => Bringing(p, q \o o)
           /\ Followed(p, q) /\ (\A i \in DOMAIN o : ~Halts(p, o[i])) => Followed(p, q \o o)
           /\ Calling(p, q) \/ Calling(p, o) => Calling(p, q \o o)
           /\ Clear(p, q) /\ Clear(p, o) => Clear(p, q \o o)
           /\ \A r \in BOOLEAN : Ringing(p, q, r) /\ Clear(p, o) => Ringing(p, q \o o, r)
           /\ \A r \in BOOLEAN : Ringing(p, o, FALSE) => Ringing(p, q \o o, r)
<1> DEFINE t == q \o o
<1>1. /\ DOMAIN q = 1..Len(q) /\ DOMAIN o = 1..Len(o) /\ Len(q) \in Nat /\ Len(o) \in Nat
      /\ DOMAIN t = 1..(Len(q) + Len(o))
      /\ \A i \in DOMAIN q : i \in DOMAIN t /\ t[i] = q[i]
      /\ \A i \in DOMAIN o : Len(q) + i \in DOMAIN t /\ t[Len(q) + i] = o[i]
      /\ \A i \in DOMAIN t :
             \/ i \in DOMAIN q
             \/ i > Len(q) /\ i - Len(q) \in DOMAIN o /\ t[i] = o[i - Len(q)]
  BY Joined
<1> HIDE DEF t
<1>2. Bringing(p, q) => Bringing(p, t)
  BY <1>1 DEF Bringing
<1>3. Followed(p, q) /\ (\A i \in DOMAIN o : ~Halts(p, o[i])) => Followed(p, t)
  BY <1>1 DEF Followed
<1>4. Calling(p, q) \/ Calling(p, o) => Calling(p, t)
  BY <1>1 DEF Calling
<1>5. Clear(p, q) /\ Clear(p, o) => Clear(p, t)
  BY <1>1 DEF Clear
<1>6. \A r \in BOOLEAN : Ringing(p, q, r) /\ Clear(p, o) => Ringing(p, t, r)
  <2>1. TAKE r \in BOOLEAN
  <2>2. ASSUME Clear(p, o), NEW i \in DOMAIN q, q[i].kind \in Noisy,
               \A j \in DOMAIN q : j > i => ~Silences(p, q[j])
        PROVE  Ringing(p, t, r)
    <3>1. i \in DOMAIN t /\ t[i].kind \in Noisy
      BY <1>1, <2>2
    <3>2. \A j \in DOMAIN t : j > i => ~Silences(p, t[j])
      BY <1>1, <2>2 DEF Clear
    <3>3. QED
      BY <3>1, <3>2 DEF Ringing
  <2>3. QED
    BY <1>5, <2>2 DEF Ringing
<1>7. \A r \in BOOLEAN : Ringing(p, o, FALSE) => Ringing(p, t, r)
  <2>1. TAKE r \in BOOLEAN
  <2>2. SUFFICES ASSUME NEW i \in DOMAIN o, o[i].kind \in Noisy,
                        \A j \in DOMAIN o : j > i => ~Silences(p, o[j])
                 PROVE  Ringing(p, t, r)
    BY DEF Ringing
  <2>3. Len(q) + i \in DOMAIN t /\ t[Len(q) + i].kind \in Noisy
    BY <1>1, <2>2
  <2>4. ASSUME NEW j \in DOMAIN t, j > Len(q) + i PROVE ~Silences(p, t[j])
    <3>1. j - Len(q) \in DOMAIN o /\ t[j] = o[j - Len(q)] /\ j - Len(q) > i
      BY <1>1, <2>2, <2>4
    <3>2. QED
      BY <2>2, <3>1
  <2>5. QED
    BY <2>3, <2>4 DEF Ringing
<1>8. QED
  BY <1>2, <1>3, <1>4, <1>5, <1>6, <1>7 DEF t

\* Without messages for the ring, a bud that rings goes on ringing.
LEMMA RingingMore ==
    ASSUME NEW p, NEW q, NEW r \in BOOLEAN
    PROVE  /\ Ringing(p, q, FALSE) => Ringing(p, q, r)
           /\ Clear(p, q) /\ r => Ringing(p, q, r)
BY DEF Ringing

\* What an operator does for the last call: it brings the ring, or it sends nothing and
\* leaves a delayed command delayed.
Raises(p, y) ==
    \/ y.timer \/ Calling(p, y.out) \/ Ringing(p, y.out, FALSE)
    \/ ~link /\ y.ring
Spares(x, y) == (x.timer => y.timer) /\ y.out = x.out

LEMMA AloneStatus ==
    ASSUME NEW p \in Phones, Alone(p), Typed
    PROVE  /\ master \in Buds /\ Master(master)
           /\ \A r \in Phones : Status(master, r) = IF r = p THEN "in" ELSE "no"
           /\ Cardinality(Incoming(master)) = 1
<1>1. master \in Buds /\ Master(master)
  BY DEF Typed, Master
<1>2. \A r \in Phones : r # p => r = Other(p)
  BY OtherOnly
<1>3. Other(p) # p
  BY TheOther
<1>4. \A r \in Phones : Status(master, r) = IF r = p THEN "in" ELSE "no"
  BY <1>2, <1>3 DEF Status, Alone
<1>5. Incoming(master) = {p}
  BY <1>4 DEF Incoming
<1>6. Cardinality({p}) = 1
  BY FS_Singleton
<1>7. QED
  BY <1>1, <1>4, <1>5, <1>6

LEMMA RaisePost ==
    ASSUME NEW x \in Rec, NEW cmd \in Commands, NEW r \in Some,
           cmd \notin Nameless => r \in Phones, NEW p
    PROVE  /\ cmd \in Noisy \/ Calls(p, Msg(cmd, r)) => Raises(p, Post(x, cmd, r))
           /\ Post(x, cmd, r) \in Rec
<1> DEFINE m == Msg(cmd, r)
<1>1. m \in Command /\ m \in Message /\ m.kind = cmd
  BY Msgs, CommandsAreMessages
<1>2. x.out \in Seq(Command) /\ x.out \in Seq(Message)
  BY CommandsAreMessages DEF Rec
<1>3. Post(x, cmd, r) \in Rec /\ Post(x, cmd, r) = [x EXCEPT !.out = Append(x.out, m)]
  BY Outs
<1>4. Post(x, cmd, r).out = Append(x.out, m)
  BY <1>3 DEF Rec
<1>5. /\ Calls(p, m) => Calling(p, Append(x.out, m))
      /\ m.kind \in Noisy => Ringing(p, Append(x.out, m), FALSE)
  BY <1>1, <1>2, LastAdded
<1>6. QED
  BY <1>1, <1>3, <1>4, <1>5 DEF Raises

LEMMA RaisePlay ==
    ASSUME NEW x \in Rec, NEW r \in Some, NEW p
    PROVE  Raises(p, PlayRing(x, r))
<1> DEFINE y == [x EXCEPT !.coexist = r]
<1>1. y \in Rec
  BY DEF Rec
<1>2. CASE link
  <2>1. PlayRing(x, r) = Post(y, "PLAY", NoPhone)
    BY <1>2 DEF PlayRing
  <2> HIDE DEF y
  <2>2. "PLAY" \in Commands /\ "PLAY" \in Nameless /\ "PLAY" \in Noisy /\ NoPhone \in Some
    BY DEF Commands, Nameless, Noisy, Some
  <2>3. QED
    BY <1>1, <2>1, <2>2, RaisePost
<1>3. CASE ~link
  <2>1. PlayRing(x, r) = [y EXCEPT !.ring = TRUE]
    BY <1>3 DEF PlayRing
  <2> HIDE DEF y
  <2>2. [y EXCEPT !.ring = TRUE].ring
    BY <1>1 DEF Rec
  <2>3. QED
    BY <1>3, <2>1, <2>2 DEF Raises
<1>4. QED
  BY <1>2, <1>3

LEMMA RaiseIncome ==
    ASSUME NEW p \in Phones, Alone(p), Typed, NEW x \in Rec, NEW r \in Phones, NEW again \in BOOLEAN
    PROVE  LET y == bt_phone_income(master, x, r, again)
           IN  IF r = p THEN Raises(p, y) ELSE Spares(x, y)
<1> DEFINE u == tone_ring_player_stop(x)
           y == [u EXCEPT !.sync = TRUE, !.addr = r]
           z == [y EXCEPT !.flag = TRUE]
<1>1. u \in Rec /\ u.out = x.out /\ u.timer = x.timer
  BY DEF Rec, tone_ring_player_stop
<1>2. y \in Rec /\ z \in Rec /\ z.addr = r /\ y.out = x.out /\ y.timer = x.timer
  BY <1>1 DEF Rec, Some
<1>3. /\ Master(master) /\ Status(master, p) = "in" /\ Cardinality(Incoming(master)) = 1
      /\ r # p => Status(master, r) = "no"
  BY AloneStatus
<1>4. CASE r = p
  <2>1. p \notin inband
    BY DEF Alone
  <2>2. bt_phone_income(master, x, r, again) = phone_ring_play_start(master, z)
    BY <1>3, <1>4, <2>1 DEF bt_phone_income
  <2> HIDE DEF z
  <2>3. phone_ring_play_start(master, z) = PlayRing(z, z.addr) /\ z.addr \in Some
    BY <1>2, <1>3, <1>4 DEF phone_ring_play_start, Some
  <2>4. QED
    BY <1>2, <1>4, <2>2, <2>3, RaisePlay
<1>5. CASE r # p
  <2>1. bt_phone_income(master, x, r, again) = y
    BY <1>3, <1>5 DEF bt_phone_income
  <2> HIDE DEF y
  <2>2. QED
    BY <1>2, <1>5, <2>1 DEF Spares
<1>6. QED
  BY <1>4, <1>5

LEMMA SpareUpdates ==
    ASSUME NEW x \in Rec
    PROVE  /\ Spares(x, x) /\ Spares(x, RingOver(x)) /\ Spares(x, tone_ring_player_stop(x))
           /\ \A p : Spares(x, bt_phone_esco_play(x, p)) /\ Spares(x, bt_phone_esco_stop(x, p))
                     /\ Spares(x, bt_phone_outband_ring_stop(x, p))
                     /\ bt_phone_esco_stop(x, p).ring = x.ring
BY DEF Spares, RingOver, tone_ring_player_stop, bt_phone_esco_play, bt_phone_esco_stop,
       bt_phone_outband_ring_stop, Rec

LEMMA RaiseHangup ==
    ASSUME NEW p \in Phones, Alone(p), Typed, NEW x \in Rec, NEW r \in Phones
    PROVE  LET y == bt_phone_hangup(master, x, r)
           IN  IF r # p THEN Raises(p, y) ELSE Spares(x, y)
<1> DEFINE u == RingOver(x)
           y == [u EXCEPT !.addr = p, !.sync = TRUE]
<1>1. u \in Rec
  BY RingOverClears
<1>2. y \in Rec
  BY <1>1 DEF Rec, Some
<1>3. /\ Master(master) /\ Status(master, p) = "in" /\ Other(p) \in Phones /\ Other(p) # p
      /\ \A s \in Phones : s # p => Status(master, s) = "no" /\ Other(s) = p
  BY AloneStatus, OtherOnly, TheOther
<1>4. CASE r = p
  <2>1. bt_phone_hangup(master, x, r) = u
    BY <1>3, <1>4 DEF bt_phone_hangup
  <2>2. QED
    BY <1>4, <2>1, SpareUpdates
<1>5. CASE r # p
  <2>1. p \notin inband /\ Other(r) = p /\ Status(master, r) = "no"
    BY <1>3, <1>5 DEF Alone
  <2>2. bt_phone_hangup(master, x, r) =
            IF link THEN Post(y, "INCOME_AGAIN", p) ELSE bt_phone_income(master, y, p, TRUE)
    BY <1>3, <1>5, <2>1 DEF bt_phone_hangup
  <2> HIDE DEF y, u
  <2>3. "INCOME_AGAIN" \in Commands /\ p \in Some /\ Calls(p, Msg("INCOME_AGAIN", p))
    BY DEF Commands, Some, Calls, Msg, Flagging
  <2>4. Raises(p, Post(y, "INCOME_AGAIN", p))
    BY <1>2, <2>3, RaisePost
  <2>5. Raises(p, bt_phone_income(master, y, p, TRUE))
    BY <1>2, RaiseIncome
  <2>6. QED
    BY <1>5, <2>2, <2>4, <2>5
<1>6. QED
  BY <1>4, <1>5

LEMMA RaiseOutband ==
    ASSUME NEW p, Typed, NEW x \in Rec, NEW r \in Some
    PROVE  LET y == bt_phone_outband_ring(master, x, r)
           IN  Raises(p, y) \/ (Spares(x, y) /\ y.ring)
<1> DEFINE y == [x EXCEPT !.coexist = r]
<1>1. y \in Rec /\ y.ring = x.ring /\ Spares(x, y)
  BY DEF Rec, Spares
<1>2. Master(master)
  BY DEF Master
<1>3. bt_phone_outband_ring(master, x, r) = IF x.ring THEN y ELSE PlayRing(y, r)
  BY <1>2 DEF bt_phone_outband_ring
<1> HIDE DEF y
<1>4. Raises(p, PlayRing(y, r))
  BY <1>1, RaisePlay
<1>5. QED
  BY <1>1, <1>3, <1>4

\* A command that asks for the ring, sent or obeyed at once.
LEMMA RaiseSend ==
    ASSUME NEW p \in Phones, Alone(p), Typed, NEW x \in Rec, NEW cmd \in Commands, NEW r \in Phones,
           cmd = "OUTBAND_RING" \/ Calls(p, Msg(cmd, r))
    PROVE  Raises(p, tws_phone_call_send_cmd(master, x, cmd, r))
<1>1. r \in Some /\ (cmd = "OUTBAND_RING" => cmd \in Noisy)
  BY DEF Some, Noisy
<1>2. CASE link
  <2>1. tws_phone_call_send_cmd(master, x, cmd, r) = Post(x, cmd, r)
    BY <1>2 DEF tws_phone_call_send_cmd
  <2>2. QED
    BY <1>1, <2>1, RaisePost
<1>3. CASE ~link
  <2>1. tws_phone_call_send_cmd(master, x, cmd, r) = Run(master, x, cmd, r)
    BY <1>3 DEF tws_phone_call_send_cmd
  <2>2. CASE cmd = "OUTBAND_RING"
    <3>1. Run(master, x, cmd, r) = bt_phone_outband_ring(master, x, r)
      BY <2>2 DEF Run
    <3>2. QED
      BY <1>1, <1>3, <2>1, <3>1, RaiseOutband DEF Raises
  <2>3. CASE cmd \in Flagging /\ r = p
    <3>1. Run(master, x, cmd, r) \in {bt_phone_income(master, x, p, TRUE),
                                      bt_phone_income(master, x, p, FALSE)}
      BY <2>3 DEF Run, Flagging
    <3>2. QED
      BY <2>1, <3>1, RaiseIncome
  <2>4. CASE cmd = "HANGUP" /\ r # p
    <3>1. Run(master, x, cmd, r) = bt_phone_hangup(master, x, r)
      BY <2>4 DEF Run
    <3>2. QED
      BY <2>1, <2>4, <3>1, RaiseHangup
  <2>5. QED
    BY <2>2, <2>3, <2>4 DEF Calls, Msg
<1>4. QED
  BY <1>2, <1>3

\* What the master does with a message while p alone calls in.
Answers(p, m, x, y) ==
    /\ Brings(p, m) \/ Calls(p, m) => Raises(p, y)
    /\ ~Halts(p, m) => \/ Raises(p, y)
                       \/ /\ Spares(x, y)
                          /\ x.ring /\ ~Silences(p, m) => y.ring
                          /\ m.kind \in Noisy => y.ring

LEMMA AnswerRun ==
    ASSUME NEW p \in Phones, Alone(p), Typed, NEW x \in Rec, NEW m \in Message, m.kind \in Commands
    PROVE  Answers(p, m, x, Run(master, x, m.kind, m.of))
<1> DEFINE r == m.of
           y == Run(master, x, m.kind, r)
<1>1. r \in Some /\ (m.kind \notin Nameless => r \in Phones) /\ master \in Buds
  BY DEF Message, Typed
<1>2. ~Brings(p, m) /\ ~Halts(p, m)
  BY DEF Brings, Halts, Commands
<1>3. CASE m.kind \in {"INCOME", "INCOME_AGAIN"}
  <2>1. y \in {bt_phone_income(master, x, r, TRUE), bt_phone_income(master, x, r, FALSE)}
    BY <1>3 DEF Run
  <2>2. r \in Phones
    BY <1>1, <1>3 DEF Nameless
  <2>3. IF r = p THEN Raises(p, y) ELSE Spares(x, y)
    BY <2>1, <2>2, RaiseIncome
  <2>4. m.kind \notin Noisy /\ m.kind \in Flagging
    BY <1>3 DEF Noisy, Flagging
  <2>5. QED
    BY <1>2, <2>3, <2>4 DEF Answers, Silences, Calls, Flagging
<1>4. CASE m.kind = "HANGUP"
  <2>1. y = bt_phone_hangup(master, x, r) /\ r \in Phones
    BY <1>1, <1>4 DEF Run, Nameless
  <2>2. IF r # p THEN Raises(p, y) ELSE Spares(x, y)
    BY <2>1, RaiseHangup
  <2>3. QED
    BY <1>2, <1>4, <2>2 DEF Answers, Silences, Calls, Flagging, Noisy
<1>5. CASE m.kind \in {"ACTIVE", "OPEN_ESCO", "OUTBAND_RING_STOP"}
  <2>1. y \in {RingOver(x), bt_phone_esco_play(x, r), bt_phone_outband_ring_stop(x, r)}
    BY <1>5 DEF Run
  <2>2. Spares(x, y)
    BY <2>1, SpareUpdates
  <2>3. QED
    BY <1>2, <1>5, <2>2 DEF Answers, Silences, Calls, Flagging, Noisy
<1>6. CASE m.kind = "CLOSE_ESCO"
  <2>1. y = bt_phone_esco_stop(x, r)
    BY <1>6 DEF Run
  <2>2. Spares(x, y) /\ y.ring = x.ring
    BY <2>1, SpareUpdates
  <2>3. QED
    BY <1>2, <1>6, <2>2 DEF Answers, Calls, Flagging, Noisy
<1>7. CASE m.kind = "OUTBAND_RING"
  <2>1. y = bt_phone_outband_ring(master, x, r)
    BY <1>7 DEF Run
  <2>2. Raises(p, y) \/ (Spares(x, y) /\ y.ring)
    BY <1>1, <2>1, RaiseOutband
  <2>3. QED
    BY <1>2, <1>7, <2>2 DEF Answers, Calls, Flagging
<1>8. CASE m.kind = "PLAY"
  <2>1. y = [x EXCEPT !.ring = TRUE]
    BY <1>8 DEF Run
  <2>2. Spares(x, y) /\ y.ring
    BY <2>1 DEF Spares, Rec
  <2>3. QED
    BY <1>2, <1>8, <2>2 DEF Answers, Calls, Flagging
<1>9. QED
  BY <1>3, <1>4, <1>5, <1>6, <1>7, <1>8 DEF Commands

LEMMA AnswerSco ==
    ASSUME NEW p \in Phones, Alone(p), Typed, NEW x \in Rec, NEW r \in Phones
    PROVE  ScoOff(master, x, r) = x \/ Raises(p, ScoOff(master, x, r))
<1> DEFINE u == second_phone_call_ring_stop(master, x)
           z == tws_phone_call_send_cmd(master, u, "CLOSE_ESCO", r)
<1>1. master \in Buds /\ u \in Rec
  BY HushRingStop DEF Typed
<1>2. /\ \A s \in Phones : Status(master, s) = IF s = p THEN "in" ELSE "no"
      /\ Other(r) \in Phones /\ Other(r) # r /\ (r # p => Other(r) = p) /\ p \notin inband
  BY AloneStatus, OtherOnly, TheOther DEF Alone
<1>3. ScoOff(master, x, r) \in {x, Delay(z, p)}
  <2>1. CASE r = p
    BY <1>2, <2>1 DEF ScoOff, IfSilent
  <2>2. CASE r # p
    BY <1>2, <2>2 DEF ScoOff, IfSilent
  <2>3. QED
    BY <2>1, <2>2
<1>4. "CLOSE_ESCO" \in Commands /\ Named("CLOSE_ESCO", r)
  BY DEF Commands, Named, Some
<1> HIDE DEF u
<1>5. z \in Rec
  BY <1>1, <1>4, SendDoes
<1> HIDE DEF z
<1>6. Delay(z, p).timer
  BY <1>5 DEF Delay, Rec
<1>7. QED
  BY <1>3, <1>6 DEF Raises

LEMMA AnswerIncome ==
    ASSUME NEW p \in Phones, Alone(p), Typed, NEW x \in Rec, NEW r \in Phones
    PROVE  LET y == PhoneIncome(master, x, r)
           IN  \/ Raises(p, y)
               \/ r # p /\ Spares(x, y) /\ y.ring = x.ring
<1> DEFINE y == [x EXCEPT !.sync = TRUE]
<1>1. y \in Rec /\ Spares(x, y) /\ y.ring = x.ring
  BY DEF Rec, Spares
<1>2. /\ \A s \in Phones : Status(master, s) = IF s = p THEN "in" ELSE "no"
      /\ Other(r) \in Phones /\ Other(r) # r /\ (r # p => Other(r) = p)
  BY AloneStatus, OtherOnly, TheOther
<1>3. \/ PhoneIncome(master, x, r) = tws_phone_call_send_cmd(master, y, "OUTBAND_RING", r)
      \/ r = p /\ PhoneIncome(master, x, r) = tws_phone_call_send_cmd(master, y, "INCOME", r)
      \/ r # p /\ PhoneIncome(master, x, r) = y
  <2>1. CASE Other(r) \in x.open
    BY <2>1 DEF PhoneIncome
  <2>2. CASE Other(r) \notin x.open /\ r = p
    BY <1>2, <2>2 DEF PhoneIncome
  <2>3. CASE Other(r) \notin x.open /\ r # p
    BY <1>2, <2>3 DEF PhoneIncome
  <2>4. QED
    BY <2>1, <2>2, <2>3
<1> HIDE DEF y
<1>4. {"OUTBAND_RING", "INCOME"} \subseteq Commands /\ Calls(p, Msg("INCOME", p))
  BY DEF Commands, Calls, Msg, Flagging
<1>5. Raises(p, tws_phone_call_send_cmd(master, y, "OUTBAND_RING", r))
  BY <1>1, <1>4, RaiseSend
<1>6. Raises(p, tws_phone_call_send_cmd(master, y, "INCOME", p))
  BY <1>1, <1>4, RaiseSend
<1>7. QED
  BY <1>1, <1>3, <1>5, <1>6

LEMMA AnswerMonitor ==
    ASSUME NEW p \in Phones, Alone(p), Typed, NEW x \in Rec, NEW r \in Phones
    PROVE  LET y == MonitorStart(master, x, r) IN y = x \/ Raises(p, y)
<1> DEFINE y == [x EXCEPT !.sync = TRUE]
<1>1. y \in Rec
  BY DEF Rec
<1>2. \A s \in Phones : Status(master, s) = IF s = p THEN "in" ELSE "no"
  BY AloneStatus
<1>3. \/ MonitorStart(master, x, r) = x
      \/ r = p /\ MonitorStart(master, x, r) = tws_phone_call_send_cmd(master, y, "INCOME", r)
      \/ MonitorStart(master, x, r) = tws_phone_call_send_cmd(master, x, "OUTBAND_RING", r)
  BY <1>2 DEF MonitorStart
<1> HIDE DEF y
<1>4. {"OUTBAND_RING", "INCOME"} \subseteq Commands /\ Calls(p, Msg("INCOME", p))
  BY DEF Commands, Calls, Msg, Flagging
<1>5. Raises(p, tws_phone_call_send_cmd(master, x, "OUTBAND_RING", r))
  BY <1>4, RaiseSend
<1>6. Raises(p, tws_phone_call_send_cmd(master, y, "INCOME", p))
  BY <1>1, <1>4, RaiseSend
<1>7. QED
  BY <1>3, <1>5, <1>6

LEMMA AnswerHandled ==
    ASSUME NEW p \in Phones, Alone(p), Typed, NEW x \in Rec, NEW m \in Message,
           m.kind # "S_START_ENTER_ESCO"
    PROVE  Answers(p, m, x, Handled(master, x, m.kind, m.of))
<1> DEFINE r == m.of
           y == Handled(master, x, m.kind, r)
<1>1. /\ m.kind \in Reports \cup Commands /\ r \in Some /\ (m.kind \notin Nameless => r \in Phones)
      /\ master \in Buds /\ Master(master)
  BY DEF Message, Typed, Master
<1>2. CASE m.kind \in Commands
  <2>1. y = Run(master, x, m.kind, r)
    BY <1>2 DEF Handled, Commands
  <2>2. QED
    BY <1>2, <2>1, AnswerRun
<1>3. CASE m.kind = "CONNECTED"
  <2>1. y = [x EXCEPT !.sync = FALSE]
    BY <1>3 DEF Handled, Commands
  <2>2. Spares(x, y) /\ y.ring = x.ring
    BY <2>1 DEF Spares, Rec
  <2>3. QED
    BY <1>3, <2>2 DEF Answers, Brings, Calls, Flagging, Noisy
<1>4. CASE m.kind = "MONITOR_START"
  <2>1. y = MonitorStart(master, x, r) /\ r \in Phones
    BY <1>1, <1>4 DEF Handled, Nameless, Commands
  <2>2. y = x \/ Raises(p, y)
    BY <2>1, AnswerMonitor
  <2>3. Spares(x, x)
    BY SpareUpdates
  <2> HIDE DEF y
  <2>4. QED
    BY <1>4, <2>2, <2>3 DEF Answers, Brings, Calls, Flagging, Noisy, y
<1>5. CASE m.kind \in {"PHONE_INCOME", "PHONE_ACTIVE", "PHONE_HANGUP", "SCO_ON", "SCO_OFF"}
  <2>1. y = PhoneStatus(master, x, m.kind, r) /\ r \in Phones
    BY <1>1, <1>5 DEF Handled, Nameless, Commands
  <2>2. CASE m.kind = "PHONE_INCOME"
    <3>1. y = PhoneIncome(master, x, r)
      BY <1>1, <2>1, <2>2 DEF PhoneStatus
    <3>2. Raises(p, y) \/ (r # p /\ Spares(x, y) /\ y.ring = x.ring)
      BY <2>1, <3>1, AnswerIncome
    <3>3. QED
      BY <2>2, <3>2 DEF Answers, Brings, Calls, Flagging, Noisy
  <2>3. CASE m.kind = "PHONE_HANGUP"
    <3>1. y = tws_phone_call_send_cmd(master, second_phone_call_ring_stop(master, x), "HANGUP", r)
      BY <1>1, <2>1, <2>3 DEF PhoneStatus
    <3>2. second_phone_call_ring_stop(master, x) \in Rec /\ "HANGUP" \in Commands
      BY <1>1, HushRingStop DEF Commands
    <3>3. r # p => Calls(p, Msg("HANGUP", r))
      BY DEF Calls, Msg
    <3>4. r # p => Raises(p, y)
      BY <2>1, <3>1, <3>2, <3>3, RaiseSend
    <3>5. QED
      BY <2>3, <3>4 DEF Answers, Brings, Halts, Calls, Flagging
  <2>4. CASE m.kind = "SCO_OFF"
    <3>1. y = ScoOff(master, x, r)
      BY <1>1, <2>1, <2>4 DEF PhoneStatus
    <3>2. y = x \/ Raises(p, y)
      BY <2>1, <3>1, AnswerSco
    <3>3. Spares(x, x)
      BY SpareUpdates
    <3> HIDE DEF y
    <3>4. QED
      BY <2>4, <3>2, <3>3 DEF Answers, Brings, Calls, Flagging, Noisy, y
  <2>5. CASE m.kind \in {"PHONE_ACTIVE", "SCO_ON"}
    BY <2>5 DEF Answers, Brings, Halts, Calls, Flagging
  <2>6. QED
    BY <1>5, <2>2, <2>3, <2>4, <2>5
<1>6. QED
  BY <1>1, <1>2, <1>3, <1>4, <1>5 DEF Reports

\* A step of the master that brings the ring.
LEMMA RaisedComes ==
    ASSUME Typed, NEW y \in Rec, NEW rest \in Seq(Message), Done(master, y, rest),
           late' \subseteq {"ring", "audio"}, Apart', NEW p, Raises(p, y)
    PROVE  Coming(p)'
<1>1. /\ queue'[master] = rest /\ bud'[master].timer = y.timer
      /\ air' = air \o y.out /\ y.out \in Seq(Message) /\ UNCHANGED <<call, link, master>>
      /\ master \in Buds /\ air \in Seq(Message)
  <2>1. master \in Buds /\ air \in Seq(Message)
    BY CommandsAreMessages DEF Typed
  <2>2. QED
    BY <2>1, DoneDoes
<1>2. bud'[master].ring = y.ring
  BY <1>1 DEF Done, Typed, Rec
<1>3. CASE y.timer
  BY <1>1, <1>3 DEF Coming
<1>4. CASE Calling(p, y.out)
  BY <1>1, <1>4, LastJoined DEF Coming
<1>5. CASE Ringing(p, y.out, FALSE)
  <2>1. Ringing(p, air \o y.out, FALSE)
    BY <1>1, <1>5, LastJoined
  <2>2. QED
    BY <1>1, <2>1 DEF Coming
<1>6. CASE ~link /\ y.ring
  <2>1. air' = <<>> /\ \A i \in DOMAIN rest : rest[i].kind \notin Commands
    BY <1>1, <1>6 DEF Apart
  <2>2. \A m : m.kind \notin Commands => ~Silences(p, m)
    BY DEF Silences, Commands, Flagging
  <2>3. Clear(p, rest) /\ Clear(p, air')
    BY <2>1, <2>2 DEF Clear
  <2>4. Ringing(p, rest, y.ring)
    BY <1>6, <2>3 DEF Ringing
  <2>5. QED
    BY <1>1, <1>2, <2>3, <2>4 DEF Coming
<1>7. QED
  BY <1>3, <1>4, <1>5, <1>6 DEF Raises

\* Who calls is not for a bud to say.
LEMMA DoneAlone ==
    ASSUME NEW b, NEW y, NEW rest, Done(b, y, rest), NEW p
    PROVE  Alone(p)' => Alone(p)
BY DEF Done, Alone

\* A bud that is not the master: what it sends stops nothing.
LEMMA OtherLast ==
    ASSUME Typed, NEW b \in Buds \ {master}, NEW y \in Rec, NEW rest \in Seq(Message),
           Done(b, y, rest), late' \subseteq {"ring", "audio"}, NEW p,
           \A i \in DOMAIN y.out : ~Halts(p, y.out[i]) /\ ~Silences(p, y.out[i]), LastOf(p)
    PROVE  LastOf(p)'
<1> DEFINE o == y.out
           q == queue[master]
           r == bud[master].ring
<1>1. /\ queue'[master] = q \o o /\ bud'[master] = bud[master] /\ master' = master
      /\ air' = air \o o /\ o \in Seq(Message)
      /\ master \in Buds /\ air \in Seq(Message) /\ q \in Seq(Message) /\ r \in BOOLEAN
  <2>1. master \in Buds \ {b} /\ air \in Seq(Message) /\ q \in Seq(Message) /\ r \in BOOLEAN
    BY CommandsAreMessages DEF Typed, Rec
  <2>2. /\ \A c \in Buds \ {b} : queue'[c] = queue[c] \o y.out /\ bud'[c] = bud[c]
        /\ air' = air \o y.out /\ y.out \in Seq(Message) /\ master' = master
    BY DoneDoes
  <2>3. master \in Buds
    BY <2>1
  <2>4. queue'[master] = q \o o /\ bud'[master] = bud[master]
    BY <2>1, <2>2
  <2>5. QED
    BY <2>1, <2>2, <2>3, <2>4
<1>2. Clear(p, o) /\ \A i \in DOMAIN o : ~Halts(p, o[i])
  BY DEF Clear
<1> HIDE DEF o
<1>3. /\ Bringing(p, q) => Bringing(p, q \o o)
      /\ Followed(p, q) => Followed(p, q \o o)
      /\ Calling(p, q) => Calling(p, q \o o)
      /\ Ringing(p, q, r) => Ringing(p, q \o o, r)
  <2> HIDE DEF q, r
  <2>1. q \in Seq(Message) /\ o \in Seq(Message) /\ r \in BOOLEAN
    BY <1>1
  <2>2. QED
    BY <1>2, <2>1, LastJoined
<1>4. /\ Calling(p, air) => Calling(p, air \o o)
      /\ Clear(p, air) => Clear(p, air \o o)
      /\ Ringing(p, air, FALSE) => Ringing(p, air \o o, FALSE)
  BY <1>1, <1>2, LastJoined
<1>5. Coming(p) => Coming(p)'
  BY <1>1, <1>3, <1>4 DEF Coming
<1>6. QED
  BY <1>1, <1>3, <1>5 DEF LastOf

LEMMA MasterLast ==
    ASSUME IInv, NoStart(queue[master]), Handle(master), NEW p \in Phones, Alone(p), LastOf(p)
    PROVE  LastOf(p)'
<1> DEFINE x == bud[master]
           q == queue[master]
           m == Head(q)
           rest == Tail(q)
           y == Handled(master, x, m.kind, m.of)
<1>1. /\ q # <<>> /\ Done(master, y, rest) /\ late' = late \cup Outruns(m.kind, rest \o air)
  BY DEF Handle
<1>2. /\ Typed /\ Apart /\ master \in Buds /\ x \in Rec /\ x.out = <<>> /\ x.ring \in BOOLEAN
      /\ q \in Seq(Message) /\ air \in Seq(Message) /\ late \subseteq {"ring", "audio"}
  BY CommandsAreMessages DEF IInv, Typed, Rec
<1>3. m \in Message /\ rest \in Seq(Message) /\ m = q[1] /\ 1 \in DOMAIN q
  BY <1>1, <1>2, Rest
<1>4. m.kind # "S_START_ENTER_ESCO"
  BY <1>3 DEF NoStart
<1>5. y \in Rec /\ (~link => y.out = x.out)
  BY <1>2, <1>3, HandledDoes DEF Handles, Master
<1>6. Answers(p, m, x, y)
  BY <1>2, <1>3, <1>4, AnswerHandled
<1>7. late' \subseteq {"ring", "audio"}
  BY <1>1, <1>2 DEF Outruns
<1>8. Apart'
  <2> HIDE DEF y
  <2>1. ~link => y.out = <<>>
    BY <1>2, <1>5
  <2>2. QED
    BY <1>1, <1>2, <1>3, <1>5, <1>7, <2>1, DoneApart
<1> HIDE DEF y
<1>9. /\ bud'[master'].timer = y.timer /\ bud'[master'].ring = y.ring /\ master' = master
      /\ queue'[master'] = rest /\ air' = air \o y.out
  BY <1>1, <1>2, <1>5 DEF Done, Typed, Rec
<1>10. /\ Bringing(p, q) => Brings(p, m) \/ Bringing(p, rest)
       /\ Followed(p, rest) /\ (Halts(p, m) => Bringing(p, rest))
       /\ Calling(p, q) => Calls(p, m) \/ Calling(p, rest)
       /\ Ringing(p, q, x.ring) =>
              \/ Ringing(p, rest, FALSE)
              \/ Clear(p, rest) /\ (m.kind \in Noisy \/ (x.ring /\ ~Silences(p, m)))
  <2>1. Followed(p, q)
    BY DEF LastOf
  <2> HIDE DEF x
  <2>2. x.ring \in BOOLEAN
    BY <1>2
  <2>3. QED
    BY <1>1, <1>2, <2>1, <2>2, LastTail
<1>11. CASE Raises(p, y)
  <2> HIDE DEF rest
  <2>1. Coming(p)'
    BY <1>1, <1>2, <1>3, <1>5, <1>7, <1>8, <1>11, RaisedComes
  <2>2. QED
    BY <1>9, <1>10, <2>1 DEF LastOf
<1> HIDE DEF m, rest
<1>12. CASE ~Raises(p, y) /\ ~Bringing(p, rest)
  <2>1. ~Brings(p, m) /\ ~Calls(p, m) /\ ~Halts(p, m)
    BY <1>6, <1>10, <1>12 DEF Answers
  <2>2. Coming(p)
    BY <1>10, <1>12, <2>1 DEF LastOf
  <2>3. /\ x.timer => y.timer
        /\ y.out = x.out
        /\ x.ring /\ ~Silences(p, m) => y.ring
        /\ m.kind \in Noisy => y.ring
    BY <1>6, <1>12, <2>1 DEF Answers, Spares
  <2>4. air' = air
    BY <1>2, <1>9, <2>3
  <2>5. y.ring \in BOOLEAN
    BY <1>5 DEF Rec
  <2>6. Ringing(p, q, x.ring) => Ringing(p, rest, y.ring)
    BY <1>10, <2>3, <2>5, RingingMore
  <2>7. Coming(p)'
    BY <1>9, <1>10, <2>1, <2>2, <2>3, <2>4, <2>6 DEF Coming
  <2>8. QED
    BY <1>9, <1>10, <2>7 DEF LastOf
<1>13. CASE Bringing(p, rest)
  BY <1>9, <1>10, <1>13 DEF LastOf
<1>14. QED
  BY <1>11, <1>12, <1>13

LEMMA HandleLast ==
    ASSUME IInv, NoStart(queue[master]), LastInv, NEW b \in Buds, Handle(b) PROVE LastInv'
<1>1. SUFFICES ASSUME NEW p \in Phones, Alone(p)' PROVE LastOf(p)'
  BY DEF LastInv
<1> DEFINE x == bud[b]
           m == Head(queue[b])
           rest == Tail(queue[b])
           y == Handled(b, x, m.kind, m.of)
<1>2. queue[b] # <<>> /\ Done(b, y, rest) /\ late' = late \cup Outruns(m.kind, rest \o air)
  BY DEF Handle
<1>3. Alone(p) /\ LastOf(p)
  BY <1>1, <1>2, DoneAlone DEF LastInv
<1>4. CASE b = master
  BY <1>3, <1>4, MasterLast
<1>5. CASE b # master
  <2>1. /\ Typed /\ Apart /\ x \in Rec /\ x.out = <<>>
        /\ queue[b] \in Seq(Message) /\ late \subseteq {"ring", "audio"}
    BY DEF IInv, Typed
  <2>2. m \in Message /\ rest \in Seq(Message)
    BY <1>2, <2>1, Rest
  <2>3. ~Master(b)
    BY <1>2, <1>5, <2>1 DEF Apart, Master
  <2>4. y \in Rec /\ y.out = <<>>
    BY <2>1, <2>2, <2>3, HandledDoes, SlaveSilent DEF Handles
  <2>5. late' \subseteq {"ring", "audio"}
    BY <1>2, <2>1 DEF Outruns
  <2> HIDE DEF y, rest
  <2>6. \A i \in DOMAIN y.out : ~Halts(p, y.out[i]) /\ ~Silences(p, y.out[i])
    BY <2>4
  <2>7. QED
    BY <1>2, <1>3, <1>5, <2>1, <2>2, <2>4, <2>5, <2>6, OtherLast
<1>6. QED
  BY <1>4, <1>5

LEMMA DelayLast ==
    ASSUME IInv, Paced, LastInv, NEW b \in Buds, CommandDelay(b) PROVE LastInv'
<1>1. SUFFICES ASSUME NEW p \in Phones, Alone(p)' PROVE LastOf(p)'
  BY DEF LastInv
<1> DEFINE x == [bud[b] EXCEPT !.timer = FALSE]
           r == bud[b].coexist
           y == tws_phone_call_send_cmd(b, x, "OUTBAND_RING", r)
<1>2. b = master /\ Done(b, y, queue[b]) /\ late' = late
  BY DEF CommandDelay, Paced
<1>3. Alone(p) /\ LastOf(p)
  BY <1>1, <1>2, DoneAlone DEF LastInv
<1>4. /\ Typed /\ Apart /\ queue[b] \in Seq(Message) /\ late \subseteq {"ring", "audio"}
      /\ bud[b] \in Rec /\ bud[b].out = <<>> /\ r \in Some
  BY DEF IInv, Typed, Rec
<1>5. x \in Rec /\ x.out = <<>>
  BY <1>4 DEF Rec
<1>6. "OUTBAND_RING" \in Commands /\ Named("OUTBAND_RING", r)
      /\ "OUTBAND_RING" \in Nameless /\ "OUTBAND_RING" \in Noisy
  BY <1>4 DEF Commands, Named, Nameless, Noisy
<1> HIDE DEF x, r
<1>7. y \in Rec /\ (~link => y.out = <<>>)
  BY <1>5, <1>6, SendDoes
<1>8. Raises(p, y) \/ (~link /\ y.ring)
  <2>1. CASE link
    <3>1. y = Post(x, "OUTBAND_RING", r)
      BY <2>1 DEF tws_phone_call_send_cmd
    <3>2. QED
      BY <1>4, <1>5, <1>6, <3>1, RaisePost
  <2>2. CASE ~link
    <3>1. y = bt_phone_outband_ring(master, x, r)
      BY <1>2, <2>2 DEF tws_phone_call_send_cmd, Run
    <3> HIDE DEF y
    <3>2. QED
      BY <1>4, <1>5, <2>2, <3>1, RaiseOutband
  <2>3. QED
    BY <2>1, <2>2
<1> HIDE DEF y
<1>9. Apart'
  BY <1>2, <1>4, <1>7, DoneApart
<1>10. Coming(p)'
  BY <1>2, <1>4, <1>7, <1>8, <1>9, RaisedComes DEF Raises
<1>11. queue'[master'] = queue[master]
  BY <1>2, <1>4, <1>7, DoneDoes
<1>12. QED
  BY <1>3, <1>10, <1>11 DEF LastOf

LEMMA TimersLast ==
    ASSUME IInv, LastInv, NEW b \in Buds, SecondTimers(b) PROVE LastInv'
<1>1. /\ Typed /\ Apart /\ queue[b] \in Seq(Message) /\ late \subseteq {"ring", "audio"}
      /\ bud[b] \in Rec /\ bud[b].out = <<>> /\ late' = late
  BY DEF IInv, Typed, SecondTimers
<1>2. PICK u \in Rec, y \in Rec :
          /\ Done(b, y, queue[b]) /\ u.out = <<>> /\ u.timer = bud[b].timer
          /\ u.ring = bud[b].ring /\ y \in {u, PlayRing(u, u.addr)}
  <2> DEFINE u == [bud[b] EXCEPT !.second = @ - 1]
             v == [bud[b] EXCEPT !.user = @ - 1]
             y == phone_second_call_ring_play_start(b, u)
             z == user_phone_second_call_ring_play_start(b, v)
  <2>1. CASE bud[b].second > 0 /\ Done(b, y, queue[b])
    <3>1. u \in Rec
      BY <1>1, <2>1, Timed DEF Still
    <3>2. u.out = <<>> /\ u.timer = bud[b].timer /\ u.ring = bud[b].ring
      BY <1>1 DEF Rec
    <3> HIDE DEF u
    <3>3. y \in {u, PlayRing(u, u.addr)} /\ y \in Rec
      BY <3>1, StillSecond DEF phone_second_call_ring_play_start, Still
    <3>4. QED
      BY <2>1, <3>1, <3>2, <3>3
  <2>2. CASE bud[b].user > 0 /\ Done(b, z, queue[b])
    <3>1. v \in Rec
      BY <1>1, <2>2, Timed DEF Still
    <3>2. v.out = <<>> /\ v.timer = bud[b].timer /\ v.ring = bud[b].ring
      BY <1>1 DEF Rec
    <3> HIDE DEF v
    <3>3. z \in {v, PlayRing(v, v.addr)} /\ z \in Rec
      BY <3>1, StillSecond
         DEF user_phone_second_call_ring_play_start, phone_second_call_ring_play_start, Still
    <3>4. QED
      BY <2>2, <3>1, <3>2, <3>3
  <2>3. QED
    BY <2>1, <2>2 DEF SecondTimers
<1>3. SUFFICES ASSUME NEW p \in Phones, Alone(p)' PROVE LastOf(p)'
  BY DEF LastInv
<1>4. Alone(p) /\ LastOf(p)
  BY <1>2, <1>3, DoneAlone DEF LastInv
<1>5. u.addr \in Some
  BY <1>2 DEF Rec
<1>6. y = u \/ Raises(p, y)
  BY <1>2, <1>5, RaisePlay
<1>7. CASE b = master /\ y = u
  <2>1. y.out = <<>> /\ y.timer = bud[b].timer /\ y.ring = bud[b].ring
    BY <1>2, <1>7
  <2>2. /\ queue'[master'] = queue[master] /\ air' = air \o <<>> /\ master' = master
        /\ bud'[master'].timer = bud[master].timer /\ bud'[master'].ring = bud[master].ring
    BY <1>1, <1>2, <1>7, <2>1 DEF Done, Typed, Rec
  <2>3. air' = air
    BY <1>1, <2>2 DEF Typed
  <2>4. QED
    BY <1>4, <2>2, <2>3 DEF LastOf, Coming
<1>8. CASE b = master /\ Raises(p, y)
  <2>1. ~link => y.out = <<>>
    BY <1>2 DEF PlayRing, Rec
  <2>2. Apart'
    BY <1>1, <1>2, <1>8, <2>1, DoneApart
  <2>3. Coming(p)'
    BY <1>1, <1>2, <1>8, <2>2, RaisedComes
  <2>4. queue'[master'] = queue[master]
    BY <1>1, <1>2, <1>8, DoneDoes
  <2>5. QED
    BY <1>4, <2>3, <2>4 DEF LastOf
<1>9. CASE b # master
  <2>1. \A i \in DOMAIN y.out : y.out[i].kind = "PLAY"
    <3>1. CASE y = u
      BY <1>2, <3>1
    <3>2. CASE y = PlayRing(u, u.addr)
      <4>1. y.out \in {<<>>, Append(<<>>, Msg("PLAY", NoPhone))}
        BY <1>2, <3>2 DEF PlayRing, Post, Rec
      <4>2. QED
        BY <4>1 DEF Msg
    <3>3. QED
      BY <1>2, <3>1, <3>2
  <2>2. \A i \in DOMAIN y.out : ~Halts(p, y.out[i]) /\ ~Silences(p, y.out[i])
    BY <2>1 DEF Halts, Silences, Flagging
  <2>3. QED
    BY <1>1, <1>2, <1>4, <1>9, <2>2, OtherLast
<1>10. QED
  BY <1>6, <1>7, <1>8, <1>9

LEMMA DeliverLast == ASSUME IInv, LastInv, Deliver PROVE LastInv'
<1> DEFINE m == Head(air)
           rest == Tail(air)
           q == queue[master]
           r == bud[master].ring
<1>1. /\ air # <<>> /\ air \in Seq(Command) /\ air \in Seq(Message) /\ q \in Seq(Message)
      /\ master \in Buds /\ r \in BOOLEAN /\ queue \in [Buds -> Seq(Message)]
  BY CommandsAreMessages DEF IInv, Typed, Deliver, Rec
<1>2. /\ queue' = [queue EXCEPT ![master] = Append(q, m)] /\ air' = rest
      /\ UNCHANGED <<bud, call, inband, link, master>>
  BY DEF Deliver
<1>3. m \in Command /\ m \in Message /\ rest \in Seq(Message)
  BY <1>1, CommandsAreMessages
<1>4. queue'[master'] = Append(q, m) /\ bud'[master'] = bud[master]
  BY <1>1, <1>2
<1>5. SUFFICES ASSUME NEW p \in Phones, Alone(p)' PROVE LastOf(p)'
  BY DEF LastInv
<1>6. LastOf(p)
  BY <1>2, <1>5 DEF LastInv, Alone
<1>7. ~Halts(p, m)
  BY <1>3 DEF Halts, Command, Commands
<1>8. /\ Calling(p, air) => Calls(p, m) \/ Calling(p, rest)
      /\ Clear(p, air) => ~Silences(p, m) /\ Clear(p, rest)
      /\ Ringing(p, air, FALSE) => Ringing(p, rest, FALSE) \/ (Clear(p, rest) /\ m.kind \in Noisy)
  BY <1>1, LastTail
<1> HIDE DEF m, rest, q, r
<1>9. /\ Bringing(p, q) => Bringing(p, Append(q, m))
      /\ Followed(p, q) => Followed(p, Append(q, m))
      /\ Calling(p, q) \/ Calls(p, m) => Calling(p, Append(q, m))
      /\ Ringing(p, q, r) /\ ~Silences(p, m) => Ringing(p, Append(q, m), r)
      /\ m.kind \in Noisy => Ringing(p, Append(q, m), r)
  BY <1>1, <1>3, <1>7, LastAdded
<1>10. Coming(p) => Coming(p)'
  BY <1>2, <1>4, <1>8, <1>9 DEF Coming, q, r
<1>11. QED
  BY <1>4, <1>6, <1>9, <1>10 DEF LastOf, q

\* A report that does not stop the ring, for a call that is no news or brings it.
LEMMA PhonedLast ==
    ASSUME IInv, NEW r \in Phones, NEW kind \in Reports \ Nameless, Phoned(kind, r),
           NEW p \in Phones, ~Halts(p, Msg(kind, r)), Brings(p, Msg(kind, r)) \/ LastOf(p)
    PROVE  LastOf(p)'
<1> DEFINE m == Msg(kind, r)
           q == queue[master]
<1>1. /\ q \in Seq(Message) /\ master \in Buds /\ queue \in [Buds -> Seq(Message)]
      /\ bud[master].ring \in BOOLEAN
  BY DEF IInv, Typed, Rec
<1>2. m \in Message /\ m.kind \in Reports
  BY DEF Msg, Message, Some
<1>3. queue'[master'] = Append(q, m) /\ UNCHANGED <<bud, air, master>>
  BY <1>1 DEF Phoned
<1>4. ~Silences(p, m)
  BY <1>2 DEF Silences, Reports, Flagging
<1> HIDE DEF m
<1>5. ~Halts(p, m) /\ (Brings(p, m) \/ LastOf(p))
  BY DEF m
<1>6. /\ Bringing(p, q) \/ Brings(p, m) => Bringing(p, Append(q, m))
      /\ Brings(p, m) \/ Followed(p, q) => Followed(p, Append(q, m))
      /\ Calling(p, q) => Calling(p, Append(q, m))
      /\ Ringing(p, q, bud[master].ring) => Ringing(p, Append(q, m), bud[master].ring)
  BY <1>1, <1>2, <1>4, <1>5, LastAdded
<1>7. Coming(p) => Coming(p)'
  BY <1>3, <1>6 DEF Coming
<1>8. QED
  BY <1>3, <1>5, <1>6, <1>7 DEF LastOf

LEMMA LinkUpLast == ASSUME IInv, LastInv, LinkUp PROVE LastInv'
<1>1. /\ queue[master] \in Seq(Message) /\ master \in Buds /\ bud[master].ring \in BOOLEAN
  BY DEF IInv, Typed, Rec
<1>2. PICK p \in Phones :
          queue' = [b \in Buds |-> queue[b] \o <<Msg("CONNECTED", NoPhone)>> \o
                       IF b = master
                       THEN <<Msg("MONITOR_START", p), Msg("MONITOR_START", Other(p))>>
                       ELSE IF sco = NoPhone THEN <<>> ELSE <<Msg("S_START_ENTER_ESCO", sco)>>]
  BY DEF LinkUp
<1>3. UNCHANGED <<bud, air, call, sco, inband, master>>
  BY DEF LinkUp
<1> DEFINE c == Msg("CONNECTED", NoPhone)
           m == Msg("MONITOR_START", p)
           n == Msg("MONITOR_START", Other(p))
<1>4. Other(p) \in Phones
  BY TheOther
<1>5. {c, m, n} \subseteq Message /\ \A k \in {c, m, n} : k.kind \in Joining
  BY <1>4 DEF Msg, Message, Some, Reports, Commands, Nameless, Joining
<1>6. queue'[master'] = queue[master] \o <<c>> \o <<m, n>>
  BY <1>1, <1>2, <1>3
<1> HIDE DEF c, m, n
<1> DEFINE o == <<c, m, n>>
<1>7. o \in Seq(Message) /\ \A i \in DOMAIN o : o[i].kind \in Joining
  BY <1>5
<1>8. queue'[master'] = queue[master] \o o
  BY <1>1, <1>5, <1>6
<1> HIDE DEF o
<1>9. SUFFICES ASSUME NEW r \in Phones, Alone(r)' PROVE LastOf(r)'
  BY DEF LastInv
<1>10. LastOf(r)
  BY <1>3, <1>9 DEF LastInv, Alone
<1>11. Clear(r, o) /\ \A i \in DOMAIN o : ~Halts(r, o[i])
  BY <1>7 DEF Clear, Halts, Silences, Joining, Flagging
<1>12. /\ Bringing(r, queue[master]) => Bringing(r, queue[master] \o o)
       /\ Followed(r, queue[master]) => Followed(r, queue[master] \o o)
       /\ Calling(r, queue[master]) => Calling(r, queue[master] \o o)
       /\ Ringing(r, queue[master], bud[master].ring)
              => Ringing(r, queue[master] \o o, bud[master].ring)
  BY <1>1, <1>7, <1>11, LastJoined
<1>13. Coming(r) => Coming(r)'
  BY <1>3, <1>8, <1>12 DEF Coming
<1>14. QED
  BY <1>8, <1>10, <1>12, <1>13 DEF LastOf

LEMMA WorldLast == ASSUME IInv, LastInv, World PROVE LastInv'
<1>1. call \in [Phones -> {"no", "in", "out", "active"}]
  BY DEF IInv, Typed
<1>2. {"PHONE_INCOME", "PHONE_HANGUP", "SCO_OFF"} \subseteq Reports \ Nameless
  BY DEF Reports, Nameless
<1>3. ASSUME NEW r \in Phones, CallIn(r) \/ CallOut(r) \/ Answer(r) \/ HangUp(r) \/ ScoUp(r)
                                \/ ScoDown(r),
             NEW p \in Phones, Alone(p)'
      PROVE  LastOf(p)'
  <2>1. (r # p => r = Other(p)) /\ Other(p) \in Phones /\ Other(p) # p
    BY OtherOnly, TheOther
  <2>2. inband' = inband
    BY <1>3 DEF CallIn, CallOut, Answer, HangUp, ScoUp, ScoDown, Phoned
  <2>3. CASE CallIn(r)
    <3>1. call' = [call EXCEPT ![r] = "in"] /\ Phoned("PHONE_INCOME", r)
      BY <2>3 DEF CallIn
    <3>2. r = p
      BY <1>1, <1>3, <2>1, <3>1 DEF Alone
    <3>3. Brings(p, Msg("PHONE_INCOME", r)) /\ ~Halts(p, Msg("PHONE_INCOME", r))
      BY <3>2 DEF Brings, Halts, Msg
    <3>4. QED
      BY <1>2, <3>1, <3>3, PhonedLast
  <2>4. CASE CallOut(r) \/ Answer(r)
    <3>1. call'[r] \in {"out", "active"}
      BY <1>1, <2>4 DEF CallOut, Answer
    <3>2. QED
      BY <1>3, <2>1, <3>1 DEF Alone
  <2>5. CASE HangUp(r)
    <3>1. call' = [call EXCEPT ![r] = "no"] /\ Phoned("PHONE_HANGUP", r)
      BY <2>5 DEF HangUp
    <3>2. r # p
      BY <1>1, <1>3, <3>1 DEF Alone
    <3>3. Brings(p, Msg("PHONE_HANGUP", r)) /\ ~Halts(p, Msg("PHONE_HANGUP", r))
      BY <3>2 DEF Brings, Halts, Msg
    <3>4. QED
      BY <1>2, <3>1, <3>3, PhonedLast
  <2>6. CASE ScoUp(r)
    <3>1. call' = call /\ (call[r] \in {"out", "active"} \/ (call[r] = "in" /\ r \in inband))
      BY <2>6 DEF ScoUp
    <3>2. QED
      BY <1>3, <2>1, <2>2, <3>1 DEF Alone
  <2>7. CASE ScoDown(r)
    <3>1. call' = call /\ Phoned("SCO_OFF", r)
      BY <2>7 DEF ScoDown
    <3>2. LastOf(p)
      BY <1>3, <2>2, <3>1 DEF Alone, LastInv
    <3>3. ~Halts(p, Msg("SCO_OFF", r))
      BY DEF Halts, Msg
    <3>4. QED
      BY <1>2, <3>1, <3>2, <3>3, PhonedLast
  <2>8. QED
    BY <1>3, <2>3, <2>4, <2>5, <2>6, <2>7
<1>4. ASSUME LinkUp PROVE LastInv'
  BY <1>4, LinkUpLast
<1>5. ASSUME NEW r \in Phones, CallIn(r) \/ CallOut(r) \/ Answer(r) \/ HangUp(r) \/ ScoUp(r)
                                \/ ScoDown(r)
      PROVE  LastInv'
  BY <1>3, <1>5 DEF LastInv
<1>6. QED
  BY <1>4, <1>5 DEF World

LEMMA InitLast == ASSUME Init PROVE LastInv
BY DEF Init, LastInv, Alone

LEMMA NextLast ==
    ASSUME IInv, AudioInv, HushInv, LastInv, [Next]_vars PROVE LastInv'
<1>1. NoStart(queue[master]) /\ Paced
  BY DEF AudioInv, HushInv
<1>2. CASE Next
  BY <1>1, <1>2, WorldLast, DeliverLast, HandleLast, DelayLast, TimersLast DEF Next, Program
<1>3. CASE UNCHANGED vars
  BY <1>3 DEF vars, LastInv, LastOf, Alone, Coming
<1>4. QED
  BY <1>2, <1>3

(***************************************************************************)
(* Theorems.                                                               *)
(***************************************************************************)

\* The inductive invariant of the ringing buds: the types; without a link nothing is on its
\* way to the other bud; and once no phone calls in, the end of a call is behind whatever
\* makes a bud ring, as a report or as the command sent for it.
THEOREM Inductive == Spec => []IInv
<1>1. Init => IInv
  BY InitIInv
<1>2. IInv /\ [Next]_vars => IInv'
  BY NextIInv
<1>3. QED
  BY <1>1, <1>2, PTL DEF Spec

\* Every variable keeps its type for one or two buds and any bounds; among them that no
\* command is left over after a step.
THEOREM TypeCorrect == Spec => []TypeOK
<1>1. IInv => TypeOK
  <2>1. SUFFICES ASSUME IInv PROVE TypeOK
    OBVIOUS
  <2>2. Command \subseteq [kind : Commands, of : Some]
    BY DEF Command
  <2>3. Seq(Command) \subseteq Sent
    BY <2>2, SeqMonotonic DEF Sent
  <2>4. Rec \subseteq Bud
    BY <2>3 DEF Rec, Bud
  <2>5. Message \subseteq [kind : Reports \cup Commands, of : Some]
    BY DEF Message
  <2>6. Seq(Message) \subseteq Seq([kind : Reports \cup Commands, of : Some])
    BY <2>5, SeqMonotonic
  <2>7. QED
    BY <2>1, <2>3, <2>4, <2>6 DEF IInv, Typed, TypeOK
<1>2. QED
  BY <1>1, Inductive, PTL

\* phone_ring_flag, which keeps a bud out of its low power, is never left set when no phone
\* calls in and nothing is on its way, however calls, commands and a joining sibling cross.
THEOREM FlagAlwaysEnds == Spec => []FlagEnds
<1>1. IInv => FlagEnds
  <2>1. SUFFICES ASSUME IInv, Settled, NEW b \in Buds, bud[b].flag, Incoming(b) = {} PROVE FALSE
    BY DEF FlagEnds
  <2>2. air = <<>> /\ (\A c \in Buds : queue[c] = <<>>) /\ master \in Buds
    BY <2>1 DEF Settled, Idle, IInv, Typed
  <2>3. CASE ~link /\ b # master
    BY <2>1, <2>3 DEF IInv, Apart
  <2>4. CASE link \/ b = master
    <3>1. Quiet
      BY <2>1, <2>4 DEF Incoming, Status, Quiet
    <3>2. EndComes
      BY <2>1, <3>1 DEF IInv, FlagInv
    <3>3. ~HasEnd(<<>>) /\ ~HasReport(<<>>)
      BY DEF HasEnd, HasReport
    <3>4. QED
      BY <2>1, <2>2, <3>2, <3>3 DEF EndComes, Clears
  <2>5. QED
    BY <2>3, <2>4
<1>2. QED
  BY <1>1, Inductive, PTL

\* Once nothing is on its way both buds play the call audio that is up, and no other,
\* however reports, commands and a joining sibling interleave; but when an SCO_OFF has
\* outrun a command for the player (late), where TLC shows that audio can stay open.
THEOREM AudioAlwaysFollows == Spec => []AudioFollows
<1>1. Init => IInv /\ AudioInv
  BY InitIInv, InitAudio
<1>2. IInv /\ AudioInv /\ [Next]_vars => IInv' /\ AudioInv'
  BY NextIInv, NextAudio
<1>3. IInv /\ AudioInv => AudioFollows
  <2>1. SUFFICES ASSUME IInv, AudioInv, Settled, "audio" \notin late, NEW b \in Buds,
                        link \/ b = master
                 PROVE  bud[b].esco = sco
    BY DEF AudioFollows
  <2>2. /\ air = <<>> /\ (\A c \in Buds : queue[c] = <<>>) /\ master \in Buds
        /\ \A c \in Buds : bud[c].esco \in Some
    BY <2>1 DEF Settled, Idle, IInv, Typed, Rec
  <2>3. AudioBody
    BY <2>1 DEF AudioInv
  <2>4. \A K : Inert(K, <<>>) /\ <<>> \in Seq(Message)
    BY DEF Inert
  <2>5. ASSUME NEW K, NEW strict, NEW e \in Some, NEW w, Leads(K, strict, e, <<>>, w)
        PROVE  e = w
    BY <2>4, <2>5, LeadsInert
  <2>6. CASE b = master
    <3>1. PICK u \in Some, w \in Some :
              /\ Leads(Orders, FALSE, bud[b].esco, <<>>, u)
              /\ Leads(Orders, FALSE, u, <<>>, w)
              /\ Leads(ScoReports, TRUE, w, <<>>, sco)
      BY <2>2, <2>3, <2>6 DEF AudioBody
    <3>2. bud[b].esco = u /\ u = w /\ w = sco
      BY <2>2, <2>5, <3>1
    <3>3. QED
      BY <3>2
  <2>7. CASE b # master
    <3>1. PICK v \in Some : /\ Leads(Orders, FALSE, bud[b].esco, <<>>, v)
                            /\ Leads(ScoReports, FALSE, v, <<>>, sco)
      BY <2>1, <2>2, <2>3, <2>7 DEF AudioBody, Follows
    <3>2. QED
      BY <2>2, <2>5, <3>1
  <2>8. QED
    BY <2>6, <2>7
<1>4. QED
  BY <1>1, <1>2, <1>3, PTL DEF Spec

\* A ring tone ends with the calls it rings for, for any number of calls and however far
\* reports, commands and messages lag behind; but when a command or message for a ring is
\* still on its way at the end (late), where TLC shows that the ring can play on.
THEOREM RingAlwaysEnds == Spec => []RingEnds
<1>1. Init => IInv /\ HushInv
  BY InitIInv, InitHush
<1>2. IInv /\ HushInv /\ [Next]_vars => IInv' /\ HushInv'
  BY NextIInv, NextHush
<1>3. IInv /\ HushInv => RingEnds
  <2>1. SUFFICES ASSUME IInv, HushInv, Settled, "ring" \notin late, bud[master].ring,
                        Incoming(master) = {}
                 PROVE  FALSE
    BY DEF RingEnds
  <2>2. air = <<>> /\ queue[master] = <<>> /\ master \in Buds
    BY <2>1 DEF Settled, Idle, IInv, Typed
  <2>3. Quiet
    BY <2>1 DEF Incoming, Status, Quiet
  <2>4. HasReport(queue[master]) \/ Hushed
    BY <2>1, <2>3 DEF HushInv
  <2>5. QED
    BY <2>1, <2>2, <2>4 DEF HasReport, Hushed, Stops
<1>4. QED
  BY <1>1, <1>2, <1>3, PTL DEF Spec

\* A phone that is the only one to call, and sends no ring of its own, is rung for at the
\* master, for any number of calls and however far reports, commands and messages lag
\* behind, whatever calls of the other phone came, crossed or ended before.
THEOREM LastCallAlwaysRings == Spec => []LastCallRings
<1>1. Init => IInv /\ AudioInv /\ HushInv /\ LastInv
  BY InitIInv, InitAudio, InitHush, InitLast
<1>2. IInv /\ AudioInv /\ HushInv /\ LastInv /\ [Next]_vars
          => IInv' /\ AudioInv' /\ HushInv' /\ LastInv'
  BY NextIInv, NextAudio, NextHush, NextLast
<1>3. IInv /\ LastInv => LastCallRings
  <2>1. SUFFICES ASSUME IInv, LastInv, NEW p \in Phones \ inband, Settled, call[p] = "in",
                        call[Other(p)] = "no"
                 PROVE  bud[master].ring
    BY DEF LastCallRings
  <2>2. air = <<>> /\ queue[master] = <<>> /\ ~bud[master].timer
    BY <2>1 DEF Settled, Idle, IInv, Typed
  <2>3. LastOf(p)
    BY <2>1 DEF LastInv, Alone
  <2>4. QED
    BY <2>2, <2>3 DEF LastOf, Coming, Bringing, Calling, Ringing
<1>4. QED
  BY <1>1, <1>2, <1>3, PTL DEF Spec
=============================================================================
