------------------------------ MODULE TwsRing ------------------------------
(***************************************************************************)
(* How one or two earbuds ring for the calls of two phones: the events and *)
(* the commands to both buds of tws_phone_call.c, and the ring tone that   *)
(* ring_player.c and tws_tone_player.c play on both.                       *)
(*                                                                         *)
(* External: the phones, and the Bluetooth and TWS libraries.  They report *)
(* to app_core and answer bt_get_call_status_for_addr().  A command of the *)
(* master reaches both buds in the order of the commands, and comes back   *)
(* to the master itself after a while; without a link it runs at once.     *)
(***************************************************************************)
EXTENDS Naturals, Sequences, SequencesExt

CONSTANTS
    Buds,       \* one or two earbuds
    Phones,     \* two phones
    NoPhone,    \* the address 0
    Faults,     \* what may happen besides incoming calls
    MaxEvents,  \* bound: what users, phones and faults do in a behaviour
    MaxQueue    \* bound: the backlog of a bud when the phones do something more

\* Outgoing calls, audio taken to the handset, the TWS link coming up.
AllFaults == {"out", "handset", "join"}

ASSUME RingAssumption ==
    /\ IsFiniteSet(Buds) /\ Cardinality(Buds) \in {1, 2}
    /\ IsFiniteSet(Phones) /\ Cardinality(Phones) = 2 /\ NoPhone \notin Phones
    /\ Faults \subseteq AllFaults /\ MaxEvents \in Nat /\ MaxQueue \in Nat \ {0}

VARIABLES
    bud,      \* bud[b]: the program of bud b
    queue,    \* queue[b]: what app_core of b has still to handle
    air,      \* the commands that have not come back to the master
    call,     \* call[p]: the call of phone p
    sco,      \* the phone with call audio up
    inband,   \* the phones that send their own ring tone as call audio
    link,     \* the TWS link is up
    master,   \* the bud that has the phones
    events,
    late      \* history: what was ended with its command still on its way

vars == <<bud, queue, air, call, sco, inband, link, master, events, late>>

Some == Phones \cup {NoPhone}
Other(p) == CHOOSE q \in Phones : q # p

Reports == {"PHONE_INCOME", "PHONE_ACTIVE", "PHONE_HANGUP", "SCO_ON", "SCO_OFF",
            "CONNECTED", "MONITOR_START", "S_START_ENTER_ESCO"}
\* CMD_PHONE_INCOME with the value 2 is INCOME_AGAIN; PLAY is the message of a ring tone.
Commands == {"INCOME", "INCOME_AGAIN", "ACTIVE", "HANGUP", "OPEN_ESCO", "CLOSE_ESCO",
             "OUTBAND_RING", "OUTBAND_RING_STOP", "PLAY"}
Msg(kind, p) == [kind |-> kind, of |-> p]
Sent == Seq([kind : Commands, of : Some])

Bud == [ring : BOOLEAN,        \* g_ring_player
        flag : BOOLEAN,        \* phone_ring_flag: no low power
        sync : BOOLEAN,        \* phone_ring_sync_tws
        addr : Some,           \* phone_ring_addr
        coexist : Some,        \* coexist_outband_ring_bt_addr
        timer : BOOLEAN,       \* second_phone_call_cmd_timer_id, 1.5 s
        second : Nat,          \* timers of phone_second_call_ring_play_start, 2 s
        user : Nat,            \* timers of user_phone_second_call_ring_play_start, 2 s
        esco : Some,           \* g_esco_player
        open : SUBSET Phones,  \* marked by bt_api_esco_status
        out : Sent]            \* commands sent in this step

TypeOK ==
    /\ bud \in [Buds -> Bud] /\ \A b \in Buds : bud[b].out = <<>>
    /\ queue \in [Buds -> Seq([kind : Reports \cup Commands, of : Some])]
    /\ air \in Sent
    /\ call \in [Phones -> {"no", "in", "out", "active"}]
    /\ sco \in Some /\ inband \subseteq Phones
    /\ link \in BOOLEAN /\ master \in Buds /\ events \in 0..MaxEvents
    /\ late \subseteq {"ring", "audio"}

\* tws_api_get_role(), and what the stack of b knows of a phone's call.
Master(b) == link => b = master
Status(b, p) == IF link \/ b = master THEN call[p] ELSE "no"
Incoming(b) == {p \in Phones : Status(b, p) = "in"}

(***************************************************************************)
(* The program: operators on the record x of bud b.                        *)
(***************************************************************************)

Post(x, cmd, p) == [x EXCEPT !.out = Append(@, Msg(cmd, p))]

tone_ring_player_stop(x) == [x EXCEPT !.ring = FALSE]

\* A ring tone for p on both buds; a bud that rings already goes on.
PlayRing(x, p) ==
    LET y == [x EXCEPT !.coexist = p]
    IN  IF link THEN Post(y, "PLAY", NoPhone) ELSE [y EXCEPT !.ring = TRUE]

phone_ring_play_start(b, x) == IF Status(b, x.addr) = "in" THEN PlayRing(x, x.addr) ELSE x

\* The timers look at the address that is noted when they run out.
phone_second_call_ring_play_start(b, x) ==
    IF Cardinality(Incoming(b)) > 1
         \/ (Status(b, x.addr) = "in" /\ Status(b, Other(x.addr)) # "out")
    THEN PlayRing(x, x.addr) ELSE x

user_phone_second_call_ring_play_start(b, x) ==
    IF x.addr \in x.open THEN x ELSE phone_second_call_ring_play_start(b, x)

bt_phone_income(b, x, p, again) ==
    LET y == [tone_ring_player_stop(x) EXCEPT !.sync = TRUE, !.addr = p]
        z == [y EXCEPT !.flag = TRUE]
    IN  IF ~Master(b) THEN z
        ELSE IF Status(b, p) = "no" THEN y
        ELSE IF Cardinality(Incoming(b)) > 1
             THEN IF p \in inband THEN z ELSE [z EXCEPT !.second = @ + 1]
        ELSE IF p \notin inband THEN phone_ring_play_start(b, z)
        ELSE IF again THEN [z EXCEPT !.user = @ + 1] ELSE z

\* Mutant: the bud is kept out of its low power.
RingOverAwake(x) == [(IF x.flag THEN tone_ring_player_stop(x) ELSE x) EXCEPT !.sync = FALSE]

\* The end of ringing at an answer or a hang-up.
RingOver(x) ==
    [(IF x.flag THEN tone_ring_player_stop(x) ELSE x) EXCEPT !.flag = FALSE, !.sync = FALSE]

\* Mutant: the other phone is forgotten.
HangupOnly(b, x, p) == RingOver(x)

\* The ring of the other phone, that the hang-up has stopped, goes on.
bt_phone_hangup(b, x, p) ==
    LET q == Other(p)
        y == [RingOver(x) EXCEPT !.addr = q, !.sync = TRUE]
    IN  IF ~Master(b) \/ Status(b, p) = "out" \/ Status(b, q) # "in" THEN RingOver(x)
        ELSE IF q \in inband /\ q \in x.open THEN y
        ELSE IF link THEN Post(y, "INCOME_AGAIN", q)
        ELSE bt_phone_income(b, y, q, TRUE)

\* Mutant: the address that had the player is marked, not the new one.
EscoMarksLast(x, p) ==
    IF x.esco # NoPhone THEN x
    ELSE [tone_ring_player_stop(x) EXCEPT !.esco = p, !.open = @ \cup {x.esco}]

bt_phone_esco_play(x, p) ==
    IF x.esco # NoPhone THEN x
    ELSE [tone_ring_player_stop(x) EXCEPT !.esco = p, !.open = @ \cup {p}]

bt_phone_esco_stop(x, p) ==
    IF x.esco # p \/ p = NoPhone THEN x ELSE [x EXCEPT !.esco = NoPhone, !.open = @ \ {p}]

bt_phone_outband_ring(b, x, p) ==
    LET y == [x EXCEPT !.coexist = p]
    IN  IF x.ring \/ ~Master(b) THEN y ELSE PlayRing(y, p)

\* Mutant: the ring goes on.
OutbandRingsOn(x, p) == x

bt_phone_outband_ring_stop(x, p) ==
    IF p = x.coexist THEN tone_ring_player_stop(x) ELSE x

\* tws_esco_play_in_task; PLAY is tws_tone_play_in_task of a ring.
Run(b, x, cmd, p) ==
    CASE cmd = "INCOME" -> bt_phone_income(b, x, p, FALSE)
      [] cmd = "INCOME_AGAIN" -> bt_phone_income(b, x, p, TRUE)
      [] cmd = "ACTIVE" -> RingOver(x)
      [] cmd = "HANGUP" -> bt_phone_hangup(b, x, p)
      [] cmd = "OPEN_ESCO" -> bt_phone_esco_play(x, p)
      [] cmd = "CLOSE_ESCO" -> bt_phone_esco_stop(x, p)
      [] cmd = "OUTBAND_RING" -> bt_phone_outband_ring(b, x, p)
      [] cmd = "OUTBAND_RING_STOP" -> bt_phone_outband_ring_stop(x, p)
      [] cmd = "PLAY" -> [x EXCEPT !.ring = TRUE]

\* Mutant: nothing is done for a command that cannot be sent.
CmdLost(b, x, cmd, p) == IF link THEN Post(x, cmd, p) ELSE x

tws_phone_call_send_cmd(b, x, cmd, p) == IF link THEN Post(x, cmd, p) ELSE Run(b, x, cmd, p)

second_phone_call_ring_stop(b, x) ==
    tws_phone_call_send_cmd(b, [x EXCEPT !.timer = FALSE], "OUTBAND_RING_STOP", x.coexist)

(***************************************************************************)
(* The handlers of what the libraries report.                              *)
(***************************************************************************)

PhoneIncome(b, x, p) ==
    LET q == Other(p)
        y == [x EXCEPT !.sync = TRUE]
        busy == Status(b, q) # "no" \/ q \in x.open
    IN  IF q \in x.open THEN tws_phone_call_send_cmd(b, y, "OUTBAND_RING", p)
        ELSE IF ~busy \/ Status(b, q) = "active" THEN tws_phone_call_send_cmd(b, y, "INCOME", p)
        ELSE y

\* After 1.5 s phone p rings in the background; IfSilent: unless it sends its own ring.
Delay(x, p) == [x EXCEPT !.coexist = p, !.timer = TRUE]
IfSilent(x, p) == IF p \in inband THEN x ELSE Delay(x, p)

ScoOn(b, x, p) ==
    LET q == Other(p)
        y == tws_phone_call_send_cmd(b, second_phone_call_ring_stop(b, x), "OPEN_ESCO", p)
        a == Status(b, p)
        c == Status(b, q)
    IN  CASE a = "in" /\ c = "in" -> Delay(y, q)
          [] a = "in" /\ c = "no" -> IfSilent(y, p)
          [] c = "in" /\ a \in {"out", "active"} -> Delay(y, q)
          [] OTHER -> y

ScoOff(b, x, p) ==
    LET q == Other(p)
        y == tws_phone_call_send_cmd(b, second_phone_call_ring_stop(b, x), "CLOSE_ESCO", p)
        a == Status(b, p)
        c == Status(b, q)
    IN  IF x.esco \notin {p, NoPhone} THEN x
        ELSE CASE a = "in" /\ c = "in" -> Delay(y, q)
               [] a = "in" /\ c = "active" -> Delay(y, p)
               [] a = "in" /\ c = "no" -> IfSilent(y, p)
               [] c = "in" /\ a = "active" -> Delay(y, q)
               [] c = "in" /\ a \in {"out", "no"} -> IfSilent(y, q)
               [] OTHER -> y

\* A sibling joins while phones call in.
MonitorStart(b, x, p) ==
    IF ~Master(b) \/ Status(b, p) # "in" THEN x
    ELSE IF x.addr = p /\ ~x.sync
         THEN tws_phone_call_send_cmd(b, [x EXCEPT !.sync = TRUE], "INCOME", p)
    ELSE IF x.coexist = p THEN tws_phone_call_send_cmd(b, x, "OUTBAND_RING", p)
    ELSE x

\* bt_phone_status_event_handler does nothing at a slave.
PhoneStatus(b, x, kind, p) ==
    IF ~Master(b) THEN x
    ELSE CASE kind = "PHONE_INCOME" -> PhoneIncome(b, x, p)
           [] kind = "PHONE_ACTIVE" ->
                  tws_phone_call_send_cmd(b, second_phone_call_ring_stop(b, x), "ACTIVE", p)
           [] kind = "PHONE_HANGUP" ->
                  tws_phone_call_send_cmd(b, second_phone_call_ring_stop(b, x), "HANGUP", p)
           [] kind = "SCO_ON" -> ScoOn(b, x, p)
           [] kind = "SCO_OFF" -> ScoOff(b, x, p)

\* The handlers of app_core: messages of its callbacks, of TWS, and of the phones.
Handled(b, x, kind, p) ==
    CASE kind = "CONNECTED" -> [x EXCEPT !.sync = FALSE]
      [] kind = "MONITOR_START" -> MonitorStart(b, x, p)
      [] kind = "S_START_ENTER_ESCO" -> bt_phone_esco_play(x, p)
      [] kind \in Commands -> Run(b, x, kind, p)
      [] OTHER -> PhoneStatus(b, x, kind, p)

\* What late remembers: a ring is ended with its command or message still to come;
\* SCO_OFF compares the player's address, with a command for the player still to come.
Comes(msgs, kinds) == \E i \in DOMAIN msgs : msgs[i].kind \in kinds
Ends == {"INCOME", "INCOME_AGAIN", "ACTIVE", "HANGUP", "OPEN_ESCO", "OUTBAND_RING_STOP"}
OutrunsRing(kind, msgs) ==
    \/ kind \in Ends /\ Comes(msgs, {"PLAY"})
    \/ kind \in {"PHONE_ACTIVE", "PHONE_HANGUP"} /\ Comes(msgs, {"OUTBAND_RING"})
OutrunsAudio(kind, msgs) == kind = "SCO_OFF" /\ Comes(msgs, {"OPEN_ESCO", "CLOSE_ESCO"})
Outruns(kind, msgs) ==
    (IF OutrunsRing(kind, msgs) THEN {"ring"} ELSE {})
        \cup (IF OutrunsAudio(kind, msgs) THEN {"audio"} ELSE {})

\* The bud after a step of its program, which has left rest in its queue.
Done(b, x, rest) ==
    /\ bud' = [bud EXCEPT ![b] = [x EXCEPT !.out = <<>>]]
    /\ air' = air \o x.out
    /\ queue' = [c \in Buds |-> IF c = b THEN rest ELSE queue[c] \o x.out]
    /\ UNCHANGED <<call, sco, inband, link, master, events>>

Handle(b) ==
    /\ queue[b] # <<>>
    /\ Done(b, Handled(b, bud[b], Head(queue[b]).kind, Head(queue[b]).of), Tail(queue[b]))
    /\ late' = late \cup Outruns(Head(queue[b]).kind, Tail(queue[b]) \o air)

\* The callback of tws_api_send_data_to_sibling at the master itself.
Deliver ==
    /\ air # <<>>
    /\ queue' = [queue EXCEPT ![master] = Append(@, Head(air))]
    /\ air' = Tail(air)
    /\ UNCHANGED <<bud, call, sco, inband, link, master, events, late>>

\* __second_phone_call_send_cmd_delay
CommandDelay(b) ==
    /\ bud[b].timer
    /\ Done(b, tws_phone_call_send_cmd(b, [bud[b] EXCEPT !.timer = FALSE], "OUTBAND_RING",
                                       bud[b].coexist), queue[b])
    /\ UNCHANGED late

SecondTimers(b) ==
    /\ \/ /\ bud[b].second > 0
          /\ Done(b, phone_second_call_ring_play_start(b, [bud[b] EXCEPT !.second = @ - 1]),
                  queue[b])
       \/ /\ bud[b].user > 0
          /\ Done(b, user_phone_second_call_ring_play_start(b, [bud[b] EXCEPT !.user = @ - 1]),
                  queue[b])
    /\ UNCHANGED late

(***************************************************************************)
(* The phones and the two buds' link.                                      *)
(***************************************************************************)

Bounded == events < MaxEvents /\ events' = events + 1
Unbounded == UNCHANGED events

Phoned(kind, p) ==
    /\ \A b \in Buds : Len(queue[b]) + Len(air) < MaxQueue
    /\ queue' = [queue EXCEPT ![master] = Append(@, Msg(kind, p))]
    /\ UNCHANGED <<bud, air, inband, link, master>>

CallIn(p) ==
    /\ call[p] = "no" /\ sco # p /\ Bounded
    /\ call' = [call EXCEPT ![p] = "in"]
    /\ Phoned("PHONE_INCOME", p)
    /\ UNCHANGED sco

CallOut(p) ==
    /\ "out" \in Faults /\ call[p] = "no" /\ sco # p /\ Bounded
    /\ call' = [call EXCEPT ![p] = "out"]
    /\ UNCHANGED <<bud, queue, air, sco, inband, link, master>>

Answer(p) ==
    /\ call[p] \in {"in", "out"} /\ Unbounded
    /\ call' = [call EXCEPT ![p] = "active"]
    /\ Phoned("PHONE_ACTIVE", p)
    /\ UNCHANGED sco

HangUp(p) ==
    /\ call[p] # "no" /\ Unbounded
    /\ call' = [call EXCEPT ![p] = "no"]
    /\ Phoned("PHONE_HANGUP", p)
    /\ UNCHANGED sco

\* One phone at a time; an outgoing call comes before an incoming one
\* (dual_phone_call.c:65).
ScoUp(p) ==
    /\ sco = NoPhone /\ Unbounded
    /\ \/ call[p] \in {"out", "active"}
       \/ call[p] = "in" /\ p \in inband /\ call[Other(p)] # "out"
    /\ sco' = p
    /\ Phoned("SCO_ON", p)
    /\ UNCHANGED call

ScoDown(p) ==
    /\ sco = p
    /\ \/ call[p] = "no" /\ Unbounded
       \/ "handset" \in Faults /\ Bounded
    /\ sco' = NoPhone
    /\ Phoned("SCO_OFF", p)
    /\ UNCHANGED call

\* The sibling joins, and the library reports the calls (MONITOR_START) and the audio.
LinkUp ==
    /\ "join" \in Faults /\ ~link /\ Cardinality(Buds) = 2 /\ Unbounded
    /\ link' = TRUE
    /\ \E p \in Phones :
           queue' = [b \in Buds |-> queue[b] \o <<Msg("CONNECTED", NoPhone)>> \o
                        IF b = master
                        THEN <<Msg("MONITOR_START", p), Msg("MONITOR_START", Other(p))>>
                        ELSE IF sco = NoPhone THEN <<>> ELSE <<Msg("S_START_ENTER_ESCO", sco)>>]
    /\ UNCHANGED <<bud, air, call, sco, inband, master>>

Init ==
    /\ bud = [b \in Buds |->
                 [ring |-> FALSE, flag |-> FALSE, sync |-> FALSE, addr |-> NoPhone,
                  coexist |-> NoPhone, timer |-> FALSE, second |-> 0, user |-> 0,
                  esco |-> NoPhone, open |-> {}, out |-> <<>>]]
    /\ queue = [b \in Buds |-> <<>>] /\ air = <<>>
    /\ call = [p \in Phones |-> "no"] /\ sco = NoPhone /\ inband \in SUBSET Phones
    /\ master \in Buds /\ link \in IF Cardinality(Buds) = 2 THEN BOOLEAN ELSE {FALSE}
    /\ events = 0 /\ late = {}

Program(b) == Handle(b) \/ CommandDelay(b) \/ SecondTimers(b)

World ==
    /\ \/ \E p \in Phones : \/ CallIn(p) \/ CallOut(p) \/ Answer(p) \/ HangUp(p)
                            \/ ScoUp(p) \/ ScoDown(p)
       \/ LinkUp
    /\ UNCHANGED late

Next == World \/ Deliver \/ \E b \in Buds : Program(b)

Spec == Init /\ [][Next]_vars

(***************************************************************************)
(* Properties.                                                             *)
(***************************************************************************)

Idle(b) == queue[b] = <<>> /\ air = <<>> /\ ~bud[b].timer /\ bud[b].second + bud[b].user = 0
Settled == (\A b \in Buds : Idle(b)) /\ (sco # NoPhone => call[sco] # "no")

\* A ring tone ends with the calls it rings for: nothing is left that would stop it
\* later.  Excepted is a ring whose command or message crosses the end of the call (late),
\* and the slave, which a ring of the 2 s timers may outlast.
RingEnds == Settled /\ "ring" \notin late /\ bud[master].ring => Incoming(master) # {}

\* No bud is kept out of low power (check_phone_income_idle) after the calls.
FlagEnds == Settled => \A b \in Buds : bud[b].flag => Incoming(b) # {}

\* A phone that is the only one to call, and sends no ring of its own, is rung for at
\* the master, whatever calls of the other phone came, crossed or ended before.
LastCallRings ==
    \A p \in Phones \ inband :
        Settled /\ sco = NoPhone /\ call[p] = "in" /\ call[Other(p)] = "no" => bud[master].ring

\* Both buds play the call audio that is up, and no other.  Excepted is an SCO_OFF that
\* the master handles before the commands of earlier ones have come back (late): it finds
\* the other phone in the player, sends no CLOSE_ESCO, and the audio stays open.
AudioFollows == Settled /\ "audio" \notin late => \A b \in Buds : (link \/ b = master) => bud[b].esco = sco
=============================================================================
