----------------------------- MODULE TwsPoweroff -----------------------------
(***************************************************************************)
(* Switching off one or two earbuds: tws_poweroff.c with what it runs      *)
(* through in app_core, the mode switch (app_main.c, app_mode_manager.c),  *)
(* leaving the Bluetooth mode (earphone.c), the idle mode (idle.c) and the *)
(* charger (charge.c).                                                     *)
(*                                                                         *)
(* The stack, the TWS library and the audio player have no source here:    *)
(* the actions from LinkUp on change what tws_api_get_tws_state(),         *)
(* tws_api_get_role(), a2dp_player_runing() and esco_player_runing()       *)
(* answer.                                                                 *)
(***************************************************************************)
EXTENDS Naturals, Sequences, FiniteSets

CONSTANTS
    Buds,       \* one or two earbuds
    MaxTicks,   \* stands for the 200 (224, 303) and 300 (235) ticks a poll waits
    Enabled,    \* events of the user and the environment enabled
    MaxEvents,  \* bound: those counted in a behaviour
    MaxQueue    \* bound: a timer or a plug waits while a queue is this long

\* The first four are not counted.
AllEvents == {"auto", "battery_low", "play", "led", "key",
              "link_up", "link_lost", "role_switch", "phone_up", "phone_lost",
              "plug_in", "plug_out", "keep", "call", "tone"}

ASSUME PowerAssumption ==
    /\ IsFiniteSet(Buds) /\ Cardinality(Buds) \in {1, 2}
    /\ MaxTicks \in Nat /\ MaxEvents \in Nat /\ MaxQueue \in Nat
    /\ Enabled \subseteq AllEvents

VARIABLES
    bud,      \* bud[b]: the state of bud b's program
    queue,    \* queue[b]: messages of its app_core task
    sync,     \* buds at which the call of tws_sync_poweroff is still to be made
    link,     \* the TWS link is up
    master,   \* the bud that is master while it is
    phone,    \* buds that see a phone connected
    talk,     \* buds with a call, or Siri: bt_app_exit_check() is 0
    player,   \* buds where a2dp or esco plays
    told,     \* buds whose library was told to drop the phone
    leave,    \* buds whose library was told to drop the TWS link
    charger,  \* buds that sit in a charger
    spoilt,   \* history: buds whose power-off went wrong, see Properties
    events

vars == <<bud, queue, sync, link, master, phone, talk, player, told, leave,
          charger, spoilt, events>>
world == <<link, master, phone, talk, player, charger, events>>

Reasons == {"NORMAL", "RESET", "POWER_KEEP", "NORMAL_TWS"}
\* Every soft power-off after the first needs a plug_out, so the ids suffice.
Ids == 1..(MaxEvents + 1)
NoPoll == [cb |-> "none", why |-> "NORMAL"]
Polls == [cb : {"none", "same", "detach", "exit"}, why : Reasons]
\* APP_MSG_GOTO_MODE with IDLE_MODE_PLAY_POWEROFF, IDLE_MODE_POWEROFF, or the
\* Bluetooth mode; APP_MSG_SOFT_POWEROFF; the calls of tws_sync_call_poweroff and
\* tws_tone_play_in_task; CHARGE_EVENT_LDO5V_IN, _OFF and _KEEP; a phone.
Goto == {"play", "off", "bt"}
Messages == Goto \cup {"softoff", "sync", "tone", "in", "out", "keep", "phone"}

Bud == [mode : {"bt", "idle", "off", "reset"},
        flag : BOOLEAN,                   \* goto_poweroff_flag
        cnt : 0..MaxTicks,                \* goto_poweroff_cnt
        handle : Ids \cup {0},            \* g_bt_detach_timer
        polls : [Ids -> Polls],           \* the periodic timers that run
        late : BOOLEAN,                   \* tws_slave_power_off is to run
        retry : BOOLEAN, saved : Goto,    \* retry_goto_mode, g_mode_switch_msg
        wait_exit : 0..4, exiting : BOOLEAN,
        tone : SUBSET {"local", "shared"},
        led : {"busy", "wait", "idle"},
        auto : {"none", "run", "stale"}]  \* g_poweroff_timer

TypeOK ==
    /\ bud \in [Buds -> Bud]
    /\ queue \in [Buds -> Seq(Messages)]
    /\ link \in BOOLEAN
    /\ master \in Buds
    /\ \A s \in {sync, phone, talk, player, told, leave, charger, spoilt} : s \subseteq Buds
    /\ events \in 0..MaxEvents

Blank(m) ==
    [mode |-> m, flag |-> FALSE, cnt |-> 0, handle |-> 0,
     polls |-> [i \in Ids |-> NoPoll], late |-> FALSE, retry |-> FALSE, saved |-> "play",
     wait_exit |-> 0, exiting |-> FALSE, tone |-> {}, led |-> "busy", auto |-> "none"]

Alive(b) == bud[b].mode \in {"bt", "idle"}
Waiting(b, msgs) == \E i \in DOMAIN queue[b] : queue[b][i] \in msgs
FreeId(S) == CHOOSE i \in S : TRUE

(***************************************************************************)
(* The program: operators on a bud's record.                               *)
(***************************************************************************)

\* sys_timer_add, with g_bt_detach_timer = ...
AddPoll(x, cb, why) ==
    LET i == FreeId({j \in Ids : x.polls[j] = NoPoll})
    IN  [x EXCEPT !.handle = i, !.polls[i] = [cb |-> cb, why |-> why]]

\* sys_timer_del(g_bt_detach_timer): the handle keeps its value.
DelPoll(x) == IF x.handle = 0 THEN x ELSE [x EXCEPT !.polls[x.handle] = NoPoll]

\* Mutant: a second power-off does not find the flag.
EnterTwice(x, reason) ==
    AddPoll([x EXCEPT !.flag = TRUE, !.cnt = 0, !.auto = "none"],
            IF reason = "NORMAL_TWS" THEN "same" ELSE "detach", reason)

sys_enter_soft_poweroff(x, reason) ==
    IF x.flag THEN x
    ELSE AddPoll([x EXCEPT !.flag = TRUE, !.cnt = 0, !.auto = "none"],
                 IF reason = "NORMAL_TWS" THEN "same" ELSE "detach", reason)

\* What it tells the libraries (354, 368): only the master drops the phone.
DropsPhone(b, reason) == ~bud[b].flag /\ reason = "NORMAL_TWS" /\ (link => master = b)
DropsLink(b, reason) == ~bud[b].flag /\ reason # "NORMAL_TWS"

\* Mutant: the count is tested before it is incremented.
TickLate(x) == IF x.cnt > MaxTicks THEN Blank("reset") ELSE [x EXCEPT !.cnt = @ + 1]

\* A poll that waits: reset when it has waited too long.
Tick(x) == IF x.cnt + 1 > MaxTicks THEN Blank("reset") ELSE [x EXCEPT !.cnt = @ + 1]

\* Mutant: a tone that does not play is not skipped.
IdleWaitsForTone(x, q, m) ==
    LET y == [x EXCEPT !.mode = "idle"]
    IN  IF ~x.flag THEN {[x |-> y, q |-> q]}
        ELSE IF m = "off" THEN {[x |-> y, q |-> <<"softoff">>]}
        ELSE {[x |-> y, q |-> <<>>], [x |-> [y EXCEPT !.tone = @ \cup {"local"}], q |-> <<>>]}

\* enter of the idle mode flushes the queue; a tone that does not play is skipped.
idle_mode_enter(x, q, m) ==
    LET y == [x EXCEPT !.mode = "idle"]
    IN  IF ~x.flag THEN {[x |-> y, q |-> q]}
        ELSE {[x |-> y, q |-> <<"softoff">>]} \cup
             IF m = "off" THEN {} ELSE {[x |-> [y EXCEPT !.tone = @ \cup {"local"}], q |-> <<>>]}

bt_mode_init(x) == [x EXCEPT !.mode = "bt", !.wait_exit = 0, !.exiting = FALSE]

\* Mutant: the rounds are not counted.
TryExitStays(x) ==
    IF x.wait_exit = 0 THEN [x EXCEPT !.wait_exit = 1, !.exiting = TRUE, !.auto = "none"]
    ELSE x

\* bt_mode_try_exit and the two rounds it waits; 0 is "may leave".
MayLeave(x) == x.wait_exit = 3 /\ ~x.exiting
bt_mode_try_exit(x) ==
    IF x.wait_exit = 0 THEN [x EXCEPT !.wait_exit = 1, !.exiting = TRUE, !.auto = "none"]
    ELSE IF x.exiting THEN x
    ELSE [x EXCEPT !.wait_exit = @ + 1]

\* Changing the mode: refused in a call, retried after 100 ms while the mode does
\* not leave.  The results are records with the new queue.
app_mode_switch_handler(x, q, m, busy) ==
    IF m = "bt" THEN {[x |-> IF x.mode = "bt" THEN x ELSE bt_mode_init(x), q |-> q]}
    ELSE IF x.mode = "idle" \/ busy THEN {[x |-> x, q |-> q]}
    ELSE IF MayLeave(x) THEN idle_mode_enter(bt_mode_try_exit(x), q, m)
    ELSE {[x |-> [bt_mode_try_exit(x) EXCEPT !.retry = TRUE, !.saved = m], q |-> q]}

(***************************************************************************)
(* Steps of the program.                                                   *)
(***************************************************************************)

Event(f) == f \in Enabled /\ events < MaxEvents /\ events' = events + 1
Set(b, x) == bud' = [bud EXCEPT ![b] = x]
Post(b, m) == queue' = [queue EXCEPT ![b] = Append(@, m)]
PostAll(S, m) == queue' = [b \in Buds |-> IF b \in S THEN Append(queue[b], m) ELSE queue[b]]
Room(b) == Len(queue[b]) < MaxQueue
TellDrop(b) == told' = told \cup ({b} \cap phone)
TellLeave(b) == leave' = IF link THEN leave \cup {b} ELSE leave

SoftPoweroff(b, x, reason) ==
    /\ Set(b, sys_enter_soft_poweroff(x, reason))
    /\ IF DropsPhone(b, reason) THEN TellDrop(b) ELSE UNCHANGED told
    /\ IF DropsLink(b, reason) THEN TellLeave(b) ELSE UNCHANGED leave

\* Mutant: only this bud is called.
SyncAlone(b, x) ==
    IF link THEN /\ sync' = sync \cup {b}
                 /\ Set(b, x)
                 /\ UNCHANGED <<told, leave>>
    ELSE SoftPoweroff(b, x, "NORMAL") /\ UNCHANGED sync

\* Both buds are called 400 ms later; without a sibling this bud goes alone.
tws_sync_poweroff(b, x) ==
    IF link THEN /\ sync' = sync \cup Buds
                 /\ Set(b, x)
                 /\ UNCHANGED <<told, leave>>
    ELSE SoftPoweroff(b, x, "NORMAL") /\ UNCHANGED sync

Key(b) ==
    /\ bud[b].mode = "bt" /\ Event("key")
    /\ tws_sync_poweroff(b, bud[b])
    /\ UNCHANGED <<queue, link, master, phone, talk, player, charger, spoilt>>

\* The handle is not cleared when the timer has run.
AutoOff(b) ==
    /\ Alive(b) /\ bud[b].auto = "run"
    /\ tws_sync_poweroff(b, [bud[b] EXCEPT !.auto = "stale"])
    /\ UNCHANGED <<queue, spoilt, world>>

\* APP_MSG_BT_IN_PAIRING_MODE with nothing connected.
AutoArm(b) ==
    /\ "auto" \in Enabled /\ bud[b].mode = "bt" /\ b \notin phone
    /\ bud[b].auto = "none" /\ bud[b].wait_exit = 0 /\ ~bud[b].flag
    /\ Set(b, [bud[b] EXCEPT !.auto = "run"])
    /\ UNCHANGED <<queue, sync, told, leave, spoilt, world>>

\* The library makes the call on both at the same time.
SyncCall ==
    /\ sync # {}
    /\ sync' = {}
    /\ PostAll(sync, "sync")
    /\ UNCHANGED <<bud, told, leave, spoilt, world>>

\* POWER_EVENT_POWER_LOW
BatteryLow(b) ==
    /\ "battery_low" \in Enabled /\ Alive(b)
    /\ IF bud[b].mode = "bt" THEN SoftPoweroff(b, bud[b], "NORMAL")
       ELSE Set(b, Blank("off")) /\ UNCHANGED <<told, leave>>
    /\ UNCHANGED <<queue, sync, spoilt, world>>

\* Mutant: the slave relies on the master's tone.
SlaveTrusts(x) == x

\* The slave leaves after 3 s, should the link be lost before the master's tone ends.
SlaveWaits(x) == [x EXCEPT !.late = TRUE]

\* A poll of the shared power-off.
power_off_at_same_time(b, i) ==
    LET x == bud[b] IN
    /\ Alive(b) /\ x.polls[i].cb = "same" /\ Room(b)
    /\ \/ /\ b \in player
          /\ Set(b, Tick(x))
          /\ UNCHANGED <<queue, told, leave, spoilt, events>>
       \/ /\ b \notin player /\ b \in phone      \* lmp_hci_reset
          /\ TellDrop(b) /\ TellLeave(b)
          /\ UNCHANGED <<bud, queue, spoilt, events>>
       \/ /\ b \notin player \cup phone /\ ~link
          /\ Set(b, DelPoll(x)) /\ Post(b, "play")
          /\ UNCHANGED <<told, leave, spoilt, events>>
       \/ /\ b \notin player \cup phone /\ link /\ master # b
          /\ Set(b, DelPoll(SlaveWaits(x)))
          /\ UNCHANGED <<queue, told, leave, spoilt, events>>
       \/ /\ b \notin player \cup phone /\ link /\ master = b
          /\ Set(b, DelPoll(x))
          /\ \/ /\ \E S \in SUBSET Buds : b \in S /\ PostAll(S, "tone")
                /\ UNCHANGED <<spoilt, events>>
             \/ /\ Event("tone")
                /\ spoilt' = spoilt \cup {b}
                /\ UNCHANGED queue
          /\ UNCHANGED <<told, leave>>
    /\ UNCHANGED <<sync, link, master, phone, talk, player, charger>>

\* Mutant: the timer is deleted after the next one took its handle.
DetachDeletesNext(b, i) ==
    LET x == bud[b] IN
    /\ Alive(b) /\ x.polls[i].cb = "detach"
    /\ IF link THEN Set(b, Tick(x)) /\ UNCHANGED told
       ELSE /\ TellDrop(b)
            /\ Set(b, DelPoll(AddPoll([x EXCEPT !.cnt = 0], "exit", x.polls[i].why)))
    /\ UNCHANGED <<queue, sync, leave, spoilt, world>>

wait_tws_detach_handler(b, i) ==
    LET x == bud[b] IN
    /\ Alive(b) /\ x.polls[i].cb = "detach"
    /\ IF link THEN Set(b, Tick(x)) /\ UNCHANGED told
       ELSE /\ TellDrop(b)
            /\ Set(b, AddPoll([DelPoll(x) EXCEPT !.cnt = 0], "exit", x.polls[i].why))
    /\ UNCHANGED <<queue, sync, leave, spoilt, world>>

\* Not charging: off; no charger: on again, through a reset.
app_charge_power_off_keep_mode(b) ==
    Set(b, Blank(IF b \in charger THEN "off" ELSE "reset")) \/ Set(b, Blank("reset"))

wait_exit_btstack_flag(b, i) ==
    LET x == bud[b] IN
    /\ Alive(b) /\ x.polls[i].cb = "exit" /\ Room(b)
    /\ IF b \in player THEN Set(b, Tick(x)) /\ UNCHANGED <<queue, told, leave>>
       ELSE /\ TellDrop(b) /\ TellLeave(b)        \* lmp_hci_reset
            /\ CASE x.polls[i].why = "NORMAL" -> Set(b, DelPoll(x)) /\ Post(b, "play")
                 [] x.polls[i].why = "RESET" -> Set(b, Blank("reset")) /\ UNCHANGED queue
                 [] OTHER -> app_charge_power_off_keep_mode(b) /\ UNCHANGED queue
    /\ UNCHANGED <<sync, spoilt, world>>

tws_slave_power_off(b) ==
    /\ Alive(b) /\ bud[b].late /\ Room(b)
    /\ Set(b, [bud[b] EXCEPT !.late = FALSE]) /\ Post(b, "play")
    /\ UNCHANGED <<sync, told, leave, spoilt, world>>

retry_goto_mode(b) ==
    /\ Alive(b) /\ bud[b].retry /\ Room(b)
    /\ Set(b, [bud[b] EXCEPT !.retry = FALSE]) /\ Post(b, bud[b].saved)
    /\ UNCHANGED <<sync, told, leave, spoilt, world>>

\* The LED effect is over when this has waited for it.
wait_led_ui_stop_timeout(b) ==
    /\ Alive(b) /\ bud[b].led = "wait" /\ Room(b)
    /\ Set(b, [bud[b] EXCEPT !.led = "idle"]) /\ Post(b, "softoff")
    /\ UNCHANGED <<sync, told, leave, spoilt, world>>

\* The slave of a link that ends loses the phone; calls in flight may be lost.
Unlink(dropped) ==
    LET rest == (IF link THEN {master} ELSE Buds) \ dropped IN
    /\ link' = FALSE /\ leave' = {}
    /\ phone' = phone \cap rest /\ talk' = talk \cap rest /\ told' = told \cap rest
    /\ IF link THEN sync' \in SUBSET sync ELSE UNCHANGED sync

\* btstack_exit closes the links of this bud.
bt_no_background_exit_check(b) ==
    /\ Alive(b) /\ bud[b].exiting /\ b \notin player
    /\ Set(b, [bud[b] EXCEPT !.exiting = FALSE])
    /\ Unlink({b})
    /\ UNCHANGED <<queue, master, player, charger, spoilt, events>>

\* STREAM_EVENT_STOP: app_power_off_tone_cb, tws_poweroff_tone_callback.
ToneStops(b, t) ==
    /\ Alive(b) /\ t \in bud[b].tone /\ Room(b)
    /\ Set(b, [bud[b] EXCEPT !.tone = @ \ {t}])
    /\ Post(b, IF t = "local" THEN "softoff" ELSE "off")
    /\ UNCHANGED <<sync, told, leave, spoilt, world>>

(***************************************************************************)
(* The head of the queue is handled.                                       *)
(***************************************************************************)

Next1(b) == Alive(b) /\ queue[b] # <<>>
Rest(b) == Tail(queue[b])
Take(b, m) == Next1(b) /\ Head(queue[b]) = m /\ queue' = [queue EXCEPT ![b] = Rest(b)]

HandleGoto(b) ==
    /\ Next1(b) /\ Head(queue[b]) \in Goto
    /\ LET x == bud[b]
           m == Head(queue[b])
           busy == x.mode = "bt" /\ b \in talk
       IN  /\ \E r \in app_mode_switch_handler(x, Rest(b), m, busy) :
                  Set(b, r.x) /\ queue' = [queue EXCEPT ![b] = r.q]
           /\ IF x.mode = "bt" /\ m # "bt" /\ ~busy /\ x.wait_exit = 0
              THEN TellDrop(b) /\ TellLeave(b) ELSE UNCHANGED <<told, leave>>
           /\ spoilt' = IF busy /\ m # "bt" THEN spoilt \cup {b} ELSE spoilt
    /\ UNCHANGED <<sync, world>>

\* app_idle_enter_softoff
HandleSoftoff(b) ==
    LET x == bud[b] IN
    /\ Take(b, "softoff")
    /\ IF x.mode # "idle" \/ ~x.flag THEN UNCHANGED bud
       ELSE \/ b \in charger /\ Set(b, Blank("reset"))   \* and not full
            \/ "led" \in Enabled /\ x.led # "idle" /\ Set(b, [x EXCEPT !.led = "wait"])
            \/ Set(b, Blank("off"))
    /\ UNCHANGED <<sync, told, leave, spoilt, world>>

tws_sync_call_poweroff(b) ==
    /\ Take(b, "sync")
    /\ SoftPoweroff(b, bud[b], "NORMAL_TWS")
    /\ UNCHANGED <<sync, spoilt, world>>

tws_tone_play_in_task(b) ==
    /\ Take(b, "tone")
    /\ Set(b, [bud[b] EXCEPT !.tone = @ \cup {"shared"}])
    /\ UNCHANGED <<sync, told, leave, spoilt, world>>

charge_ldo5v_in_deal(b) ==
    /\ Take(b, "in")
    /\ IF bud[b].mode = "bt" THEN SoftPoweroff(b, bud[b], "RESET")
       ELSE /\ bud' = IF bud[b].flag THEN [bud EXCEPT ![b] = Blank("reset")] ELSE bud
            /\ UNCHANGED <<told, leave>>
    /\ UNCHANGED <<sync, spoilt, world>>

\* Steps of a power-off that still come after the flag is cleared.
Unfinished(b) ==
    \/ bud[b].mode = "bt" \/ bud[b].late \/ bud[b].retry \/ "shared" \in bud[b].tone
    \/ \E i \in Ids : bud[b].polls[i] # NoPoll
    \/ Waiting(b, {"play", "off", "tone"})

\* Mutant: an idle bud is not switched on.
StaysIdle(b) ==
    LET x == bud[b] IN
    /\ Take(b, "out")
    /\ Set(b, [x EXCEPT !.flag = FALSE])
    /\ spoilt' = IF x.flag /\ Unfinished(b) THEN spoilt \cup {b} ELSE spoilt
    /\ UNCHANGED <<sync, told, leave, world>>

\* Out of the charger: the power-off is called off and an idle bud switched on;
\* a bud with an empty battery that was not going off goes off at once.
charge_ldo5v_off_deal(b) ==
    LET x == bud[b] IN
    /\ Next1(b) /\ Head(queue[b]) = "out"
    /\ \/ /\ Set(b, [x EXCEPT !.flag = FALSE])
          /\ queue' = [queue EXCEPT ![b] = IF x.mode = "idle" THEN Append(Rest(b), "bt") ELSE Rest(b)]
          /\ spoilt' = IF x.flag /\ Unfinished(b) THEN spoilt \cup {b} ELSE spoilt
       \/ /\ ~x.flag /\ x.mode = "idle"
          /\ Set(b, Blank("off"))
          /\ queue' = [queue EXCEPT ![b] = Rest(b)]
          /\ UNCHANGED spoilt
    /\ UNCHANGED <<sync, told, leave, world>>

\* The voltage of the charger is too low to charge.
ldo5v_keep_deal(b) ==
    /\ Take(b, "keep")
    /\ IF bud[b].mode = "bt" THEN SoftPoweroff(b, bud[b], "POWER_KEEP")
       ELSE app_charge_power_off_keep_mode(b) /\ UNCHANGED <<told, leave>>
    /\ UNCHANGED <<sync, spoilt, world>>

\* BT_STATUS_FIRST_CONNECTED
poweroff_btstack_event_handler(b) ==
    /\ Take(b, "phone")
    /\ Set(b, [bud[b] EXCEPT !.auto = "none"])
    /\ UNCHANGED <<sync, told, leave, spoilt, world>>

Handle(b) ==
    \/ tws_sync_call_poweroff(b) \/ tws_tone_play_in_task(b)
    \/ HandleGoto(b) \/ HandleSoftoff(b) \/ charge_ldo5v_in_deal(b)
    \/ charge_ldo5v_off_deal(b) \/ ldo5v_keep_deal(b) \/ poweroff_btstack_event_handler(b)

Program(b) ==
    \/ Key(b) \/ AutoOff(b) \/ AutoArm(b) \/ BatteryLow(b)
    \/ \E i \in Ids : \/ power_off_at_same_time(b, i) \/ wait_tws_detach_handler(b, i)
                      \/ wait_exit_btstack_flag(b, i)
    \/ tws_slave_power_off(b) \/ retry_goto_mode(b) \/ wait_led_ui_stop_timeout(b)
    \/ bt_no_background_exit_check(b)
    \/ \E t \in {"local", "shared"} : ToneStops(b, t)
    \/ Handle(b)

(***************************************************************************)
(* The libraries, the phone and the user.                                  *)
(***************************************************************************)

program == <<sync, told, leave, spoilt>>
Both(S) == IF S = {} THEN {} ELSE Buds

\* Two buds link while both are in use: tws_dual_conn_close stopped the scans of a
\* bud that is going off.  They never link with a phone each.  TWS_EVENT_CONNECTED
\* arms the automatic power-off again.  A new link takes longer than a call in flight.
LinkUp ==
    /\ ~link /\ Cardinality(Buds) = 2 /\ phone # Buds
    /\ \A b \in Buds : bud[b].mode = "bt" /\ ~bud[b].flag /\ bud[b].wait_exit = 0
    /\ sync = {} /\ \A b \in Buds : ~Waiting(b, {"sync"})
    /\ Event("link_up")
    /\ link' = TRUE
    /\ master' \in IF phone = {} THEN Buds ELSE phone
    /\ phone' = Both(phone) /\ talk' = Both(talk)
    /\ bud' = IF phone = {} /\ "auto" \in Enabled THEN [b \in Buds |-> [bud[b] EXCEPT !.auto = "run"]] ELSE bud
    /\ UNCHANGED <<queue, player, charger, program>>

\* Told to, or because a bud is gone, or at any moment.
LinkDown ==
    /\ link
    /\ \/ (leave # {} \/ \E b \in Buds : ~Alive(b)) /\ UNCHANGED events
       \/ Event("link_lost")
    /\ Unlink({})
    /\ UNCHANGED <<bud, queue, master, player, charger, spoilt>>

RoleSwitch ==
    /\ link /\ Event("role_switch")
    /\ master' \in Buds \ {master}
    /\ UNCHANGED <<bud, queue, link, phone, talk, player, charger, program>>

\* The buds that share b's phone.
Sharers(b) == IF link THEN Buds ELSE {b}

PhoneUp(b) ==
    /\ bud[b].mode = "bt" /\ ~bud[b].flag /\ bud[b].wait_exit = 0
    /\ phone = {} /\ (link => master = b) /\ Event("phone_up")
    /\ phone' = Sharers(b)
    /\ queue' = [c \in Buds |-> IF c \in Sharers(b) THEN Append(queue[c], "phone") ELSE queue[c]]
    /\ UNCHANGED <<bud, link, master, talk, player, charger, program>>

PhoneDown(b) ==
    /\ b \in phone /\ (link => master = b)
    /\ \/ (b \in told \/ ~Alive(b)) /\ UNCHANGED events
       \/ Event("phone_lost")
    /\ phone' = phone \ Sharers(b) /\ talk' = talk \ Sharers(b) /\ told' = told \ Sharers(b)
    /\ UNCHANGED <<bud, queue, sync, link, master, player, leave, charger, spoilt>>

\* A call begins or ends; it plays, or does not yet.
CallStarts(b) ==
    /\ b \in phone \ talk /\ (link => master = b) /\ Event("call")
    /\ talk' = talk \cup Sharers(b)
    /\ UNCHANGED <<bud, queue, link, master, phone, player, charger, program>>

CallEnds(b) ==
    /\ b \in talk /\ (link => master = b)
    /\ talk' = talk \ Sharers(b)
    /\ UNCHANGED <<bud, queue, link, master, phone, player, charger, events, program>>

\* Nothing starts to play while the bud goes off (dual_a2dp_play.c:386).
PlayerStarts(b) ==
    /\ "play" \in Enabled /\ b \in phone \ player /\ bud[b].mode = "bt" /\ ~bud[b].flag
    /\ player' = player \cup {b}
    /\ UNCHANGED <<bud, queue, link, master, phone, talk, charger, events, program>>

PlayerStops(b) ==
    /\ b \in player
    /\ player' = player \ {b}
    /\ UNCHANGED <<bud, queue, link, master, phone, talk, charger, events, program>>

PlugIn(b) ==
    /\ Alive(b) /\ b \notin charger /\ Room(b) /\ Event("plug_in")
    /\ charger' = charger \cup {b} /\ Post(b, "in")
    /\ UNCHANGED <<bud, link, master, phone, talk, player, program>>

PlugOut(b) ==
    /\ Alive(b) /\ b \in charger /\ Room(b) /\ Event("plug_out")
    /\ charger' = charger \ {b} /\ Post(b, "out")
    /\ UNCHANGED <<bud, link, master, phone, talk, player, program>>

PlugKeeps(b) ==
    /\ Alive(b) /\ b \in charger /\ Room(b) /\ Event("keep")
    /\ Post(b, "keep")
    /\ UNCHANGED <<bud, link, master, phone, talk, player, charger, program>>

World ==
    \/ LinkUp \/ LinkDown \/ RoleSwitch
    \/ \E b \in Buds : PhoneUp(b) \/ PhoneDown(b) \/ CallStarts(b) \/ CallEnds(b)
                       \/ PlayerStarts(b) \/ PlayerStops(b) \/ PlugIn(b) \/ PlugOut(b)
                       \/ PlugKeeps(b)

\* Buds in use, alone or linked, or a bud that boots in its charger (app_main.c:412).
Init ==
    /\ bud \in [Buds -> {Blank("bt"), Blank("idle")}]
    /\ queue = [b \in Buds |-> <<>>]
    /\ charger = {b \in Buds : bud[b].mode = "idle"}
    /\ link \in (IF Cardinality(Buds) = 2 /\ charger = {} THEN BOOLEAN ELSE {FALSE})
    /\ master \in Buds
    /\ phone \in SUBSET (Buds \ charger)
    /\ link => phone \in {{}, Buds}
    /\ player \in IF "play" \in Enabled THEN SUBSET phone ELSE {{}}
    /\ talk = {} /\ sync = {} /\ told = {} /\ leave = {} /\ spoilt = {}
    /\ events = 0

Next == World \/ SyncCall \/ \E b \in Buds : Program(b)

(***************************************************************************)
(* The task handles its messages, its timers and tones run out, the        *)
(* libraries do what they are told, and players stop without a phone.      *)
(***************************************************************************)
Fairness ==
    /\ \A b \in Buds :
          /\ \A i \in Ids : /\ WF_vars(power_off_at_same_time(b, i))
                            /\ WF_vars(wait_tws_detach_handler(b, i))
                            /\ WF_vars(wait_exit_btstack_flag(b, i))
          /\ WF_vars(tws_slave_power_off(b)) /\ WF_vars(retry_goto_mode(b))
          /\ WF_vars(wait_led_ui_stop_timeout(b)) /\ WF_vars(bt_no_background_exit_check(b))
          /\ \A t \in {"local", "shared"} : WF_vars(ToneStops(b, t))
          /\ WF_vars(Handle(b))
          /\ WF_vars(PhoneDown(b) /\ UNCHANGED events)
          /\ WF_vars(b \notin phone /\ PlayerStops(b))
    /\ WF_vars(SyncCall)
    /\ WF_vars(LinkDown /\ UNCHANGED events)

Spec == Init /\ [][Next]_vars /\ Fairness

(***************************************************************************)
(* Properties.  A power-off is spoilt, and owes nothing, when the bud is   *)
(* taken out of its charger while the Bluetooth mode is being left         *)
(* (charge.c:310), when a call or Siri refuses the change of mode          *)
(* (app_main.c:521), and when the tone both buds wait for cannot play.     *)
(***************************************************************************)
power == [b \in Buds |-> IF b \in spoilt THEN "lost"
                         ELSE IF ~Alive(b) THEN "gone"
                         ELSE IF bud[b].flag THEN "leaving"
                         ELSE IF bud[b].mode = "idle" THEN "charging" ELSE "on"]

PS == INSTANCE PowerSwitch WITH Buds <- Buds, power <- power

\* The power-off implements PowerSwitch: only a bud that was asked goes off, and one
\* that was asked ends off, reset, or called off by taking it out of its charger.
SwitchesOff == PS!Spec

\* A bud that is going off waits for something that takes it further: the timers are
\* deleted, and messages flushed, only when the next step is on its way.
NothingForgotten ==
    \A b \in Buds \ spoilt : Alive(b) /\ bud[b].flag =>
        \/ \E i \in Ids : bud[b].polls[i] # NoPoll
        \/ bud[b].late \/ bud[b].retry \/ bud[b].tone # {} \/ bud[b].led = "wait"
        \/ Waiting(b, {"play", "off", "softoff", "tone"})

\* A bud that sits in the idle mode, without keys, is going off or charging.
NotStranded ==
    \A b \in Buds \ spoilt : bud[b].mode = "idle" =>
        bud[b].flag \/ b \in charger \/ Waiting(b, {"out", "bt"})

\* Taking a bud out of its charger switches it on (sdk_config.h:33), whatever it was
\* doing; violated: during a power-off it ends in the idle mode, neither off nor on.
PulledOutSwitchesOn ==
    \A b \in Buds : bud[b].mode = "idle" =>
        bud[b].flag \/ b \in charger \/ Waiting(b, {"out", "bt"})

\* One power-off polls at a time, and g_bt_detach_timer names its timer.
OnePoll ==
    \A b \in Buds \ spoilt : \A i \in Ids :
        bud[b].polls[i] # NoPoll => bud[b].handle = i /\ bud[b].flag
=============================================================================
