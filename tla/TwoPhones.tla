----------------------------- MODULE TwoPhones -----------------------------
(***************************************************************************)
(* The music and the calls of two phones at a lone earbud or at the master *)
(* of a pair: dual_a2dp_play.c, which phone plays; bt_slience_detect.c,    *)
(* which listens to the phones that do not; a2dp_player.c; the call audio  *)
(* of tws_phone_call.c; and dual_phone_call.c, which call gets the audio.  *)
(*                                                                         *)
(* External: the phones, and the Bluetooth stack, which reports to         *)
(* app_core's queue.  A stack reports MEDIA_START when music arrives from  *)
(* a phone whose media is not open (comment at dual_a2dp_play.c:209), and  *)
(* keeps back the packets of a phone that is muted.                        *)
(***************************************************************************)
EXTENDS Naturals, Sequences, SequencesExt

CONSTANTS
    Phones,     \* two phones
    NoPhone,    \* the address ff:ff:ff:ff:ff:ff
    Faults,     \* what may happen besides music
    MaxEvents,  \* bound: what users, phones and faults do in a behaviour
    MaxQueue    \* bound: app_core's backlog when something more is reported

AllFaults == {"in", "out", "silent", "stop", "lost", "tone", "parse", "start"}

ASSUME PhonesAssumption ==
    /\ IsFiniteSet(Phones) /\ Cardinality(Phones) = 2 /\ NoPhone \notin Phones
    /\ Faults \subseteq AllFaults /\ MaxEvents \in Nat /\ MaxQueue \in Nat \ {0}

VARIABLES
    bud,     \* the program, and what the stack keeps for it
    phone,   \* phone[p]
    queue,   \* the messages of app_core
    air,     \* the commands on their way to both buds
    link,    \* there is a sibling: commands come back to app_core's queue
    deaf,    \* the phones that do not obey AVRCP
    short,   \* what the audio framework cannot do: "no", "parse" or "start"
    tone,    \* a prompt tone plays
    events

vars == <<bud, phone, queue, air, link, deaf, short, tone, events>>

Some == Phones \cup {NoPhone}
Other(p) == CHOOSE q \in Phones : q # p

StackEvents == {"MEDIA_START", "MEDIA_STOP", "AVDTP_SUSPEND", "AVRCP_PLAY", "SCO_REQ", "SCO_ON",
                "SCO_OFF", "SCO_DISCON", "PHONE_HANGUP", "CONNECTED", "DISCONNECT"}
AppMessages == {"A2DP_START", "SEND_PLAY", "NO_ENERGY"}
Commands == {"PLAY", "SLIENCE_DETECT", "MUTE", "MUTE_BY_CALL", "CLOSE", "SWITCH", "OPEN_ESCO",
             "CLOSE_ESCO"}

Msg(kind, p) == [kind |-> kind, of |-> p]

\* g_detect_hdl: a file and its timer are open for a phone.
Slot == {s \in [of : Some, open : BOOLEAN] : s.open => s.of # NoPhone}
NoSlot == [of |-> NoPhone, open |-> FALSE]

Bud == [player : Some,              \* g_a2dp_player
        stream : {"none", "parse", "start", "run"},  \* its stream, or the retry it waits for
        slots : [{1, 2} -> Slot],   \* g_detect_hdl
        dual : BOOLEAN,             \* g_dual_detect is allocated
        preempted : Some,           \* a2dp_preempted_addr
        energy : Some,              \* a2dp_energy_detect_addr
        drop : Some,                \* a2dp_drop_packet_detect_addr
        told : BOOLEAN,             \* g_a2dp_slience_detect = 2
        trying : BOOLEAN,           \* a timer of try_play_preempted_a2dp, 500 ms
        esco : Some,                \* g_esco_player
        wait : Some,                \* ed_ctl: its address while its timer runs
        muted : SUBSET Phones,      \* a2dp_media_is_mute
        media : SUBSET Phones,      \* MEDIA_START was reported, a2dp_media_close takes it back
        open : SUBSET Phones,       \* btstack_get_call_esco_status is OPEN
        ask : [Phones -> {"none", "play", "pause"}],  \* the AVRCP key on its way to a phone
        refused : SUBSET Phones,    \* USER_CTRL_DISCONN_SCO on its way
        out : Seq([kind : Commands, of : Phones]),  \* commands sent in this step
        slips : SUBSET {"robbed", "in_call", "late"},  \* history: what has gone wrong
        dead : BOOLEAN]             \* a NULL g_dual_detect was used

Phone == [on : BOOLEAN,             \* connected
          music : {"off", "sound", "silence", "held"},
          call : {"no", "in", "out", "active"},
          sco : {"no", "may", "asked", "up"}]

TypeOK ==
    /\ bud \in Bud /\ bud.out = <<>>
    /\ phone \in [Phones -> Phone]
    /\ queue \in Seq([kind : StackEvents \cup AppMessages \cup Commands, of : Phones])
    /\ air \in Seq([kind : Commands, of : Phones])
    /\ link \in BOOLEAN /\ deaf \subseteq Phones /\ tone \in BOOLEAN
    /\ short \in {"no", "parse", "start"} /\ events \in 0..MaxEvents

\* Packets of p reach an open file, and these have energy.
Streams(p) == phone[p].music \in {"sound", "silence"}
Audible(p) == phone[p].music = "sound" /\ p \notin bud.muted
InCall(p) == phone[p].call # "no"

(***************************************************************************)
(* The program: operators on the bud's record.                             *)
(***************************************************************************)

Slip(x, slip, happened) == IF happened THEN [x EXCEPT !.slips = @ \cup {slip}] ELSE x

a2dp_player_runing(x) == x.player # NoPhone

a2dp_player_close(x, p) ==
    IF x.player = p THEN [x EXCEPT !.player = NoPhone, !.stream = "none"] ELSE x

\* A player that waits for its stream is given to p; one that has it, keeps it.
a2dp_player_open(x, p) ==
    IF x.stream \in {"start", "run"} THEN x
    ELSE Slip([x EXCEPT !.player = p, !.stream = IF short = "no" THEN "run" ELSE short],
              "robbed", x.player \notin {NoPhone, p})

Detects(x, p) == \E i \in {1, 2} : x.slots[i].of = p

\* The slot of p, or the first free one.
SlotOf(x, p) ==
    IF x.slots[1].of = p \/ (x.slots[1].of = NoPhone /\ x.slots[2].of # p) THEN 1 ELSE 2

bt_start_a2dp_slience_detect(x, p) ==
    IF ~Streams(p) THEN x
    ELSE [x EXCEPT !.slots[SlotOf(x, p)] = [of |-> p, open |-> TRUE], !.dual = TRUE]

\* Mutant: the file stays open.
StopKeepsFile(x, p) == [x EXCEPT !.dual = FALSE]

bt_stop_a2dp_slience_detect(x, p) ==
    [x EXCEPT !.slots = [i \in {1, 2} |-> IF @[i].of = p THEN NoSlot ELSE @[i]], !.dual = FALSE]

bt_slience_get_detect_addr(x) ==
    IF x.slots[1].of # NoPhone THEN x.slots[1].of ELSE x.slots[2].of

a2dp_media_mute(x, p) == [x EXCEPT !.muted = @ \cup {p}]
a2dp_media_unmute(x, p) == [x EXCEPT !.muted = @ \ {p}]
a2dp_media_close(x, p) == [x EXCEPT !.media = @ \ {p}]
\* Mutant: the media stays open, so MEDIA_START is not reported again.
UnmuteOnly(x, p) == a2dp_media_unmute(x, p)

Reopen(x, p) == a2dp_media_close(a2dp_media_unmute(x, p), p)

tws_a2dp_player_close(x, p) ==
    Reopen(bt_stop_a2dp_slience_detect(a2dp_player_close(x, p), p), p)

Background(x, p) ==
    bt_start_a2dp_slience_detect(a2dp_media_mute(a2dp_player_close(x, p), p), p)

Key(x, p, key) == [x EXCEPT !.ask[p] = key]

\* Mutant: EBUSY is ignored.
PlayOnly(x, p) ==
    LET y == bt_stop_a2dp_slience_detect(a2dp_media_unmute(x, p), p)
    IN  IF y.stream \in {"start", "run"} /\ y.player # p THEN y ELSE a2dp_player_open(y, p)

\* CMD_A2DP_PLAY.  A player that is busy with the other phone leaves p to the detector.
Play(x, p) ==
    LET y == bt_stop_a2dp_slience_detect(a2dp_media_unmute(x, p), p)
        z == [y EXCEPT !.preempted = IF @ = p THEN NoPhone ELSE @,
                       !.drop = IF @ = p THEN NoPhone ELSE @, !.told = FALSE]
        busy == z.stream \in {"start", "run"} /\ z.player # p
    IN  IF busy THEN bt_start_a2dp_slience_detect(z, p) ELSE a2dp_player_open(z, p)

\* CMD_A2DP_CLOSE: the other phone's music is reported again.
Close(x, p) ==
    LET y == tws_a2dp_player_close(x, p)
        q == bt_slience_get_detect_addr(y)
    IN  IF q = NoPhone THEN y ELSE Reopen(bt_stop_a2dp_slience_detect(y, q), q)

\* CMD_A2DP_SWITCH: the phone that the first slot had is reported again.
Switch(x, p) ==
    LET q == bt_slience_get_detect_addr(x)
    IN  IF q = NoPhone THEN x
        ELSE Reopen(bt_stop_a2dp_slience_detect(Background(x, p), q), q)

\* Mutant: the music player is not closed.
EscoPlayOver(x, p) ==
    IF x.esco # NoPhone THEN x
    ELSE [bt_stop_a2dp_slience_detect(x, p) EXCEPT !.open = @ \cup {p}, !.esco = p]

bt_phone_esco_play(x, p) ==
    LET y == IF a2dp_player_runing(x)
             THEN a2dp_media_close(a2dp_player_close(x, x.player), x.player) ELSE x
        z == [a2dp_media_close(bt_stop_a2dp_slience_detect(y, p), p) EXCEPT !.open = @ \cup {p}]
    IN  IF x.esco # NoPhone THEN x
        ELSE IF ~tone THEN Slip([z EXCEPT !.esco = p], "late", x.wait # NoPhone)
        ELSE Slip([z EXCEPT !.wait = IF @ = NoPhone THEN p ELSE @],
                  "late", x.wait \notin {NoPhone, p} \/ phone[p].sco # "up")

\* Mutant: the status stays OPEN.
EscoStopOpen(x, p) == IF x.esco # p THEN x ELSE [x EXCEPT !.esco = NoPhone]

bt_phone_esco_stop(x, p) ==
    IF x.esco # p THEN x ELSE [x EXCEPT !.esco = NoPhone, !.open = @ \ {p}]

\* tws_a2dp_play_in_task, tws_esco_play_in_task
Run(x, cmd, p) ==
    CASE cmd = "PLAY" -> Play(x, p)
      [] cmd = "SLIENCE_DETECT" -> bt_start_a2dp_slience_detect(a2dp_player_close(x, p), p)
      [] cmd = "MUTE" -> Background(x, p)
      [] cmd = "MUTE_BY_CALL" -> [Background(x, p) EXCEPT !.preempted = p, !.energy = NoPhone]
      [] cmd = "CLOSE" -> Close(x, p)
      [] cmd = "SWITCH" -> Switch(x, p)
      [] cmd = "OPEN_ESCO" -> bt_phone_esco_play(x, p)
      [] cmd = "CLOSE_ESCO" -> bt_phone_esco_stop(x, p)

\* Both buds run a command when it has reached the sibling; a lone bud runs it now.
Send(x, cmd, p) ==
    IF link THEN [x EXCEPT !.out = Append(@, Msg(cmd, p))] ELSE Run(x, cmd, p)

(***************************************************************************)
(* The handlers of the stack's events.                                     *)
(***************************************************************************)

MediaStart(x, p) ==
    LET q == Other(p)
        y == IF x.drop = p THEN [x EXCEPT !.drop = NoPhone] ELSE x
    IN  IF phone[q].on /\ q \in x.open
        THEN Key(bt_start_a2dp_slience_detect(a2dp_media_mute(x, p), p), p, "pause")
        ELSE IF x.esco # NoPhone THEN a2dp_media_close(x, p)
        ELSE IF x.drop = p /\ phone[q].on /\ q \in {x.energy, x.preempted} THEN Send(x, "MUTE", p)
        ELSE IF y.player = q THEN Send(y, "SLIENCE_DETECT", p)
        ELSE Send(y, "PLAY", p)

MediaStop(x, p) ==
    Send(IF x.energy = p THEN [x EXCEPT !.preempted = p, !.energy = NoPhone, !.trying = TRUE] ELSE x,
         "CLOSE", p)

AvrcpPlay(x, p) ==
    IF phone[Other(p)].on /\ Other(p) \in x.open THEN Key(a2dp_media_mute(x, p), p, "pause") ELSE x

\* The call of p interrupts the music of the other phone.
a2dp_suspend_by_call(x, q) ==
    IF phone[q].on /\ x.player = q
    THEN Send(Key([x EXCEPT !.preempted = q, !.energy = NoPhone], q, "pause"), "MUTE_BY_CALL", q)
    ELSE x

\* Mutant: only the interrupted phone that is muted is thought of.
CallOverMuted(x, p) ==
    LET q == Other(p)
    IN  IF phone[q].on /\ ~InCall(q) /\ x.preempted = q /\ q \in x.muted
        THEN [Reopen(x, q) EXCEPT !.energy = q, !.preempted = NoPhone, !.drop = p] ELSE x

\* PHONE_HANGUP and SCO_DISCON (549-578).
CallOver(x, p) ==
    LET q == Other(p)
        try == [x EXCEPT !.trying = TRUE]
        free == phone[q].on /\ ~InCall(q)
        y == IF free /\ q \in x.muted THEN Reopen(bt_stop_a2dp_slience_detect(x, q), q) ELSE x
    IN  IF free /\ x.preempted = q
        THEN [IF q \in x.muted THEN [Reopen(x, q) EXCEPT !.energy = q, !.preempted = NoPhone]
              ELSE try EXCEPT !.drop = p]
        ELSE IF x.preempted = p THEN [y EXCEPT !.trying = TRUE] ELSE y

\* bt_dual_phone_call_msg_handler: whose SCO is refused when p asks for one.
Refused(x, p) ==
    LET q == Other(p)
        a == phone[p].call
        b == phone[q].call
        heard == q \in x.open
    IN  CASE a = "in" /\ (b = "out" \/ (b \in {"in", "active"} /\ heard)) -> {p}
          [] a = "out" /\ b = "active" /\ heard -> {p}
          [] a = "out" /\ b \in {"in", "out"} -> {q}
          [] a = "active" /\ b = "out" /\ heard -> {q}
          [] a = "active" /\ b = "active" /\ heard -> {p}
          [] OTHER -> {}

ScoRequest(x, p) ==
    a2dp_suspend_by_call(
        [x EXCEPT !.refused = @ \cup IF phone[Other(p)].on THEN Refused(x, p) ELSE {}], Other(p))

\* SCO_STATUS_CHANGE: dual_a2dp_play.c is linked before tws_phone_call.c.
ScoOn(x, p) == Send(a2dp_suspend_by_call(x, Other(p)), "OPEN_ESCO", p)
ScoOff(x, p) == IF x.esco \in {p, NoPhone} THEN Send(x, "CLOSE_ESCO", p) ELSE x

Connected(x, p) == IF x.preempted = p THEN [x EXCEPT !.preempted = NoPhone] ELSE x

\* HCI_EVENT_DISCONNECTION_COMPLETE
Disconnected(x, p) == bt_phone_esco_stop(tws_a2dp_player_close(x, p), p)

\* APP_MSG_BT_A2DP_START: the phone in the background has sound, and takes over.
TakeOver(x, p) ==
    LET q == x.player
        y == IF phone[q].on THEN Key(x, q, "pause") ELSE x
    IN  Send(Slip(IF a2dp_player_runing(x) THEN Send(y, "MUTE", q) ELSE x, "in_call",
                  x.open # {} \/ x.esco # NoPhone),
             "PLAY", p)

Handled(x, kind, p) ==
    CASE kind = "MEDIA_START" -> MediaStart(x, p)
      [] kind = "MEDIA_STOP" -> MediaStop(x, p)
      [] kind = "AVDTP_SUSPEND" -> a2dp_media_unmute(x, p)
      [] kind = "AVRCP_PLAY" -> AvrcpPlay(x, p)
      [] kind = "SCO_REQ" -> ScoRequest(x, p)
      [] kind = "SCO_ON" -> ScoOn(x, p)
      [] kind = "SCO_OFF" -> ScoOff(x, p)
      [] kind \in {"SCO_DISCON", "PHONE_HANGUP"} -> CallOver(x, p)
      [] kind = "CONNECTED" -> Connected(x, p)
      [] kind = "DISCONNECT" -> Disconnected(x, p)
      [] kind = "A2DP_START" -> TakeOver(x, p)
      [] kind = "SEND_PLAY" -> IF phone[p].on THEN Key(x, p, "play") ELSE x
      [] kind = "NO_ENERGY" -> IF x.player = p THEN Send(x, "SWITCH", p) ELSE x
      [] OTHER -> Run(x, kind, p)

\* Mutant: the commands are sent again with the next ones.
DoneAgain(x) == bud' = x /\ air' = air \o x.out

\* The bud after a step of the program, its commands on their way.
Done(x) ==
    /\ bud' = [x EXCEPT !.out = <<>>]
    /\ air' = air \o x.out

app_core ==
    /\ ~bud.dead /\ queue # <<>>
    /\ LET x == Handled(bud, Head(queue).kind, Head(queue).of) IN Done(x)
    /\ queue' = Tail(queue)
    /\ UNCHANGED <<phone, link, deaf, short, tone, events>>

\* tws_a2dp_player_data_in_irq, tws_esco_player_data_in_irq
data_in_irq ==
    /\ air # <<>>
    /\ queue' = Append(queue, Head(air))
    /\ air' = Tail(air)
    /\ UNCHANGED <<bud, phone, link, deaf, short, tone, events>>

(***************************************************************************)
(* Timers and the energy of the music.                                     *)
(***************************************************************************)

Internal(x) ==
    /\ ~bud.dead /\ air = <<>> /\ \A p \in Phones : bud.ask[p] = "none"
    /\ bud' = x
    /\ UNCHANGED <<phone, air, link, deaf, short, tone, events>>

Posts(x, kind, p) == Internal(x) /\ queue' = Append(queue, Msg(kind, p))

\* While any phone is in a call the timer is armed again.
try_play_preempted_a2dp ==
    LET p == bud.preempted
        gone == IF p = NoPhone THEN TRUE ELSE ~phone[p].on
    IN  /\ bud.trying
        /\ IF gone THEN TRUE ELSE \A q \in Phones : ~InCall(q)
        /\ Internal([(IF gone \/ bud.player = p THEN bud ELSE Key(bud, p, "play"))
                     EXCEPT !.trying = FALSE,
                            !.preempted = IF gone \/ bud.player # p THEN NoPhone ELSE @])
        /\ UNCHANGED queue

\* The timer of slot i finds enough energy; without g_dual_detect it uses NULL.
a2dp_slience_detect(i) ==
    LET p == bud.slots[i].of
    IN  /\ bud.slots[i].open
        /\ Audible(p)
        /\ \/ Posts([bud EXCEPT !.slots[i].open = FALSE], "A2DP_START", p)
           \/ ~bud.dual /\ Internal([bud EXCEPT !.dead = TRUE]) /\ UNCHANGED queue

Plays(p) == bud.player = p /\ bud.stream = "run" /\ Streams(p)

\* The first 100 ms after a call: a phone that sends silence is asked to play.
EnergyAfterCall(p) ==
    /\ bud.energy = p /\ Plays(p)
    /\ \/ phone[p].music = "sound" /\ Internal([bud EXCEPT !.energy = NoPhone]) /\ UNCHANGED queue
       \/ phone[p].music = "silence" /\ Posts([bud EXCEPT !.energy = NoPhone], "SEND_PLAY", p)

\* Five seconds of silence.
NoEnergy(p) ==
    /\ Plays(p) /\ phone[p].music = "silence" /\ ~bud.told
    /\ Posts([bud EXCEPT !.told = TRUE], "NO_ENERGY", p)

retry_open_a2dp_player ==
    /\ bud.stream = "parse" /\ short # "parse"
    /\ Internal(a2dp_player_open(bud, bud.player)) /\ UNCHANGED queue

retry_start_a2dp_player ==
    /\ bud.stream = "start" /\ short # "start"
    /\ Internal([bud EXCEPT !.stream = "run"]) /\ UNCHANGED queue

\* After the tone, or after three seconds with the tone stopped.
esco_delay_open ==
    /\ bud.wait # NoPhone
    /\ Internal([bud EXCEPT !.esco = bud.wait, !.wait = NoPhone])
    /\ UNCHANGED queue

(***************************************************************************)
(* The phones, the stack and the user.                                     *)
(***************************************************************************)

\* Phone p becomes r, and the stack reports the events in kinds.
Phoned(p, r, kinds) ==
    /\ kinds # <<>> => Len(queue) + Len(air) < MaxQueue
    /\ phone' = [phone EXCEPT ![p] = r]
    /\ queue' = queue \o [i \in DOMAIN kinds |-> Msg(kinds[i], p)]
    /\ UNCHANGED <<air, link, deaf, short, tone>>

Bounded == events < MaxEvents /\ events' = events + 1
Unbounded == UNCHANGED events

\* What the stack reports when the music of p stops.
Stops(p) ==
    IF ~Streams(p) THEN <<>>
    ELSE IF p \in bud.media THEN <<"AVDTP_SUSPEND", "MEDIA_STOP">> ELSE <<"AVDTP_SUSPEND">>

Stopped(x, p) == [x EXCEPT !.media = @ \ {p}]

\* History: the call audio of p ends and ed_ctl still has it noted.
Outlived(x, p) == Slip(x, "late", x.wait = p)

\* The user starts the music of p, perhaps with an AVRCP command.
StartMusic(p) ==
    /\ Bounded /\ phone[p].on /\ phone[p].music = "off" /\ phone[p].sco = "no"
    /\ \E k \in {<<>>, <<"AVRCP_PLAY">>} : Phoned(p, [phone[p] EXCEPT !.music = "sound"], k)
    /\ UNCHANGED bud

Silence(p) ==
    /\ Bounded /\ "silent" \in Faults
    /\ \/ phone[p].music = "sound" /\ Phoned(p, [phone[p] EXCEPT !.music = "silence"], <<>>)
       \/ phone[p].music = "silence" /\ Phoned(p, [phone[p] EXCEPT !.music = "sound"], <<>>)
    /\ UNCHANGED bud

StopMusic(p) ==
    /\ Bounded /\ "stop" \in Faults /\ Streams(p)
    /\ Phoned(p, [phone[p] EXCEPT !.music = "off"], Stops(p))
    /\ bud' = Stopped(bud, p)

\* The AVRCP key reaches the phone.
Obey(p) ==
    LET y == [bud EXCEPT !.ask[p] = "none"]
        r == phone[p]
    IN  /\ bud.ask[p] # "none" /\ Unbounded
        /\ \/ /\ bud.ask[p] = "pause" /\ p \notin deaf /\ Streams(p)
              /\ Phoned(p, [r EXCEPT !.music = "off"], Stops(p)) /\ bud' = Stopped(y, p)
           \/ /\ bud.ask[p] = "play" /\ p \notin deaf /\ r.on /\ r.sco = "no"
              /\ r.music \in {"off", "silence"}
              /\ Phoned(p, [r EXCEPT !.music = "sound"], <<>>) /\ bud' = y
           \/ /\ p \in deaf \/ (bud.ask[p] = "pause" /\ ~Streams(p))
                 \/ (bud.ask[p] = "play" /\ (r.music = "sound" \/ ~r.on \/ r.sco # "no"))
              /\ Phoned(p, r, <<>>) /\ bud' = y

\* The stack reports the music of p.
Notice(p) ==
    /\ Streams(p) /\ p \notin bud.media /\ Unbounded
    /\ Phoned(p, phone[p], <<"MEDIA_START">>)
    /\ bud' = [bud EXCEPT !.media = @ \cup {p}]

StartCall(p, kind) ==
    /\ Bounded /\ kind \in Faults /\ phone[p].on /\ ~InCall(p) /\ phone[p].sco = "no"
    /\ Phoned(p, [phone[p] EXCEPT !.call = kind, !.sco = "may"], <<>>)
    /\ UNCHANGED bud

Answer(p) ==
    /\ phone[p].call \in {"in", "out"} /\ Unbounded
    /\ Phoned(p, [phone[p] EXCEPT !.call = "active"], <<>>)
    /\ UNCHANGED bud

HangUp(p) ==
    /\ InCall(p) /\ Unbounded
    /\ Phoned(p, [phone[p] EXCEPT !.call = "no", !.sco = IF @ = "may" THEN "no" ELSE @],
              <<"PHONE_HANGUP">>)
    /\ UNCHANGED bud

\* The phone takes the audio of its call to the bud, and holds its own music.
OpenSco(p) ==
    /\ phone[p].sco = "may" /\ Unbounded
    /\ Phoned(p, [phone[p] EXCEPT !.sco = "asked", !.music = IF @ = "off" THEN @ ELSE "held"],
              Stops(p) \o <<"SCO_REQ">>)
    /\ bud' = Stopped(bud, p)

ScoUp(p) ==
    /\ phone[p].sco = "asked" /\ p \notin bud.refused /\ InCall(p) /\ Unbounded
    /\ Phoned(p, [phone[p] EXCEPT !.sco = "up"], <<"SCO_ON">>)
    /\ UNCHANGED bud

\* Refused by the bud, or closed by the phone after its call.
ScoDown(p) ==
    /\ phone[p].sco \in {"asked", "up"} /\ (p \in bud.refused \/ ~InCall(p)) /\ Unbounded
    /\ Phoned(p, [phone[p] EXCEPT !.sco = "no", !.music = IF @ = "held" THEN "sound" ELSE @],
              IF phone[p].sco = "up" THEN <<"SCO_OFF", "SCO_DISCON">> ELSE <<"SCO_DISCON">>)
    /\ bud' = [Outlived(bud, p) EXCEPT !.refused = @ \ {p}]

\* The link breaks: the stack reports what ends with it.
Lost(p) ==
    /\ Bounded /\ "lost" \in Faults /\ phone[p].on
    /\ Phoned(p, [on |-> FALSE, music |-> "off", call |-> "no", sco |-> "no"],
              (IF phone[p].sco = "up" THEN <<"SCO_OFF", "SCO_DISCON">> ELSE <<>>)
                  \o (IF InCall(p) THEN <<"PHONE_HANGUP">> ELSE <<>>)
                  \o (IF p \in bud.media THEN <<"MEDIA_STOP">> ELSE <<>>) \o <<"DISCONNECT">>)
    /\ bud' = [Outlived(bud, p) EXCEPT !.media = @ \ {p}, !.muted = @ \ {p}, !.open = @ \ {p},
                                        !.refused = @ \ {p}, !.ask[p] = "none"]

Back(p) ==
    /\ ~phone[p].on /\ Unbounded
    /\ Phoned(p, [phone[p] EXCEPT !.on = TRUE], <<"CONNECTED">>)
    /\ UNCHANGED bud

Outside ==
    /\ \/ Bounded /\ "tone" \in Faults /\ ~tone /\ tone' = TRUE /\ UNCHANGED short
       \/ Unbounded /\ tone /\ tone' = FALSE /\ UNCHANGED short
       \/ /\ Bounded /\ short = "no" /\ short' \in {"parse", "start"} \cap Faults
          /\ UNCHANGED tone
       \/ Unbounded /\ short # "no" /\ short' = "no" /\ UNCHANGED tone
    /\ UNCHANGED <<bud, phone, queue, air, link, deaf>>

Init ==
    /\ bud = [player |-> NoPhone, stream |-> "none", slots |-> [i \in {1, 2} |-> NoSlot],
              dual |-> FALSE, preempted |-> NoPhone, energy |-> NoPhone, drop |-> NoPhone,
              told |-> FALSE, trying |-> FALSE, esco |-> NoPhone, wait |-> NoPhone, muted |-> {},
              media |-> {}, open |-> {}, ask |-> [p \in Phones |-> "none"], refused |-> {},
              out |-> <<>>, slips |-> {}, dead |-> FALSE]
    /\ phone = [p \in Phones |-> [on |-> TRUE, music |-> "off", call |-> "no", sco |-> "no"]]
    /\ queue = <<>> /\ air = <<>>
    /\ link \in BOOLEAN /\ deaf \in SUBSET Phones
    /\ short = "no" /\ tone = FALSE /\ events = 0

Timers ==
    \/ try_play_preempted_a2dp \/ retry_open_a2dp_player \/ retry_start_a2dp_player
    \/ esco_delay_open
    \/ \E i \in {1, 2} : a2dp_slience_detect(i)
    \/ \E p \in Phones : EnergyAfterCall(p) \/ NoEnergy(p)

World ==
    \/ \E p \in Phones :
          \/ StartMusic(p) \/ Silence(p) \/ StopMusic(p) \/ Obey(p) \/ Notice(p)
          \/ Answer(p) \/ HangUp(p) \/ OpenSco(p) \/ ScoUp(p) \/ ScoDown(p)
          \/ Lost(p) \/ Back(p)
          \/ \E k \in {"in", "out"} : StartCall(p, k)
    \/ Outside

Next == app_core \/ data_in_irq \/ Timers \/ World

Spec == Init /\ [][Next]_vars

(***************************************************************************)
(* Properties.                                                             *)
(***************************************************************************)

Calm == \A p \in Phones : ~InCall(p) /\ phone[p].sco = "no"

\* Nothing is on its way: no message, key or timer, no SCO that opens or closes, no
\* music that the stack or the detector would report.
Settled ==
    /\ ~bud.dead /\ queue = <<>> /\ air = <<>> /\ bud.refused = {}
    /\ ~bud.trying /\ bud.wait = NoPhone /\ bud.stream \in {"none", "run"}
    /\ \A p \in Phones :
          /\ bud.ask[p] = "none" /\ (Streams(p) => p \in bud.media)
          /\ phone[p].sco # "asked" /\ (phone[p].sco = "up" => InCall(p))
    /\ \A i \in {1, 2} : ~(bud.slots[i].open /\ Audible(bud.slots[i].of))

Never(slip) == slip \notin bud.slips

\* The music of no phone is lost between the players: whatever races, calls included, once
\* the bud has settled a phone that streams has the player or a detector, and a muted one
\* a detector, by which CMD_A2DP_CLOSE finds it.  The exception is a player that waits for
\* its stream and is given to the other phone.
Attended ==
    Settled /\ Never("robbed") =>
        \A p \in Phones : Streams(p) =>
            /\ p = bud.player \/ Detects(bud, p)
            /\ p \in bud.muted => Detects(bud, p)

\* There is no silence while a phone that is not muted sends sound: once the bud has
\* settled its player plays a phone that streams.
Heard ==
    Settled /\ Never("robbed") /\ (\E p \in Phones : Audible(p))
        => \E p \in Phones : bud.player = p /\ Streams(p)

\* The mark of the phone that a call has interrupted does not outlive the calls, unless
\* the phone is gone: the next call would act on it.  For a lone bud: in a pair
\* MUTE_BY_CALL may come back after the call and set it again.
MarkEnds ==
    ~link /\ Settled /\ Calm => \A p \in Phones : bud.preempted = p => ~phone[p].on

\* A lone bud marks a call as OPEN exactly while it plays it, and no call audio outlives
\* the calls: the arbitration reads the marks.  The exception ("late") is esco_delay_open,
\* which opens the audio of the phone it once noted, whatever became of that call, and is
\* not told of another call whose audio opens before.
CallAudioMatches ==
    ~link /\ Never("late") /\ Settled =>
        /\ \A p \in bud.open : bud.esco = p
        /\ Calm => bud.esco = NoPhone

\* At a lone bud the music of a phone is not played over the other one's call, except
\* by APP_MSG_BT_A2DP_START, which does not look for a call, and when esco_delay_open is
\* late: a lost phone's call does not keep the other's music from the player.
MusicYields ==
    ~link /\ Never("in_call") /\ Never("late") /\ bud.esco # NoPhone
        => bud.player \in {NoPhone, bud.esco}

\* With the same exceptions the player and the detector of a lone bud never read the
\* packets of the same phone.
OneReader ==
    ~link /\ Never("in_call") /\ Never("late") =>
        \A i \in {1, 2} : bud.slots[i].open /\ bud.stream = "run" => bud.slots[i].of # bud.player
=============================================================================
