# Verification of the earbud SDK's application logic

The repository is an SDK for true-wireless earbuds (JieLi, cpu `br28`): C sources of the application
under `src/SDK/apps`, of the audio framework under `src/SDK/audio`, and headers of the closed libraries
(Bluetooth stack, TWS link, controller, kernel) under `src/SDK/interface`.  There are no tests.  These
modules model the part of it that is hard to test: the control logic that two earbuds run at the same
time, driven by messages, timers and radio events in any order.

All line numbers are of the files under `src/SDK/apps/earphone` unless said otherwise.  The configuration is
the one of `board/br28/sdk_config.h`: TWS and dual connection on, automatic pairing, no audio share, no LE
audio, no Bluetooth background mode, charging without a charging box.

## 1. Inventory

How things run.  One task, `app_core`, handles a queue of messages; a handler runs to completion.
`sys_timeout`/`sys_timer` callbacks run in that task too, between messages.  Events of the stack, of the TWS
library and of the controller are posted to the queue, so what the libraries *say* (`tws_api_get_role()`,
`tws_api_get_tws_state()`, `bt_get_total_connect_dev()`) is often newer than the event being handled.  The two
buds exchange data with `tws_api_send_data_to_sibling` and calls to be made at the same time with
`tws_api_sync_call_by_uuid`.

| Component | State | Operations | Hard behaviour | What makes it correct |
|---|---|---|---|---|
| Reconnection and pairing, `mode/bt/tws_dual_conn.c` | one timer handle, the page list with a timer per entry, record count, last addresses, inquiry flag | the state handler, paging, four event handlers, eight timer callbacks, relay to the sibling | callbacks and events in any order, roles changing under the handlers, relays in flight, power off in between | it never stops looking for a phone or the sibling; nobody pages a connected phone; a slave is quiet; timers match the list |
| TWS glue, `mode/bt/bt_tws.c` | `gtws.state` | power on/off, esco, TWS events | library state against queued events | the reconnection logic is started and stopped at the right moment |
| BT mode, `mode/bt/earphone.c` | `g_bt_hdl` (init_ok, wait_exit, exiting) | enter, try_exit in rounds, exit check | leaving while events are queued | nothing is reopened after exit, the exit ends |
| Power off, `mode/bt/tws_poweroff.c` | `goto_poweroff_flag`, `g_bt_detach_timer`, `g_poweroff_timer`, a counter | soft power off with four reasons, shared power off, automatic shut-down | two buds at the same moment, link lost in between, players that do not stop, charger in and out | each bud ends off or reset, both if asked to |
| Mode manager, `../common/app_mode_manager`, `app_main.c` | current mode, pending switch | goto, try_exit with retries | retry timers against new requests | a requested mode is reached |
| Idle, `mode/idle/idle.c` | - | enter (play the tone, flush the queue), soft off | a tone that fails, LED busy | power off ends |
| Calls, `mode/bt/tws_phone_call.c`, `dual_phone_call.c` | ringing flags and timers, the esco player, a mark OPEN per phone, a late opening | calls, call audio on both buds, which of two calls gets it | two calls, audio that waits for a tone, commands in flight | a mark is set exactly while the audio plays; no call audio and no ring outlives its call; the one phone left calling is rung for; both buds play the same |
| Audio of two phones, `mode/bt/dual_a2dp_play.c`, `bt_slience_detect.c`, `audio/interface/player/a2dp_player.c` | the player and its retry timer, two detectors, three remembered addresses, muted phones | play, detect, mute, close, switch as commands to both buds; start and end of calls; energy and silence | commands run after the state they were chosen by; a call in between; a phone that does not pause; a player that cannot start | no streaming phone is left without player and detector; after a call the music is heard again; one phone at a time |
| Synchronised tones, `audio/interface/player/tws_tone_player.c`, `tone_player.c`, `ring_player.c` | the list of tones, the ring, `g_tws_tone_adding`, tones on two timers | ask for a tone or ring on one or both buds, its message, the streams' callbacks, stop | tones that meet, callbacks in another task, files and streams that fail, a lost link | every tone plays and ends once; none blocks the next |
| Battery and charging, `battery/` | charger state | plug in/out, low battery | during a power off | a bud is on, off or charging |
| Sniff, low latency, keys, LED, modes (linein, music, pc), update, devices | small | | little | not planned |
| Third-party protocols, LE audio, USB, sensors, effects, codecs | | | vendor code or signal processing over closed libraries | not planned |

## 2. Modules

| Module | Models | State and actions |
|---|---|---|
| `DualConnBud` | `tws_dual_conn.c` for one bud | a bud is a record; every C function is an operator from record to record with the C name |
| `TwsDualConn` | one or two buds, their queues, the data between them, the phones, the TWS library | `bud`, `queue`, `net`, `acl`, `events`; one action per handler, timer callback and library event |
| `MCTwsDualConn` | instances for TLC | sets of phones, buds, records; the symmetry of the buds |
| `PowerSwitch` | what switching off promises: who is asked goes off, nobody else does | `power[b]`: on, charging, leaving, gone, lost; `Safe` says what may happen, `Spec` adds that it does |
| `TwsPoweroff` | `tws_poweroff.c`, with the mode switch, the exit of the Bluetooth mode, `idle.c` and `charge.c`, on one or two buds | `bud`, `queue`, and what the libraries answer (`link`, `master`, `phone`, `player`, ...); one action per timer callback and per message |
| `MCTwsPoweroff` | instances for TLC | |
| `ToneLife` | what the tone players promise: a tone is played or given up with its fault, ends once, one prompt at a time | `life[b][t]`: idle, asked, playing, ended, lost, stuck |
| `TwsTone` | `tws_tone_player.c`, `tone_player.c` and `ring_player.c` on one or two buds | `bud`, `ask`, `air`, `link`; one action per request, timer, message, callback and fault |
| `MCTwsTone` | instances for TLC | |
| `TwoPhones` | `dual_a2dp_play.c`, `bt_slience_detect.c`, `a2dp_player.c`, the call audio of `tws_phone_call.c`, `dual_phone_call.c`, at a lone bud or a master, with two phones | `bud`, `phone`, `queue`, `air`; one operator per event handler and command, one action per timer, and the phones |
| `MCTwoPhones` | instances for TLC | |
| `TwsRing` | the ringing and call audio of `tws_phone_call.c` with the ring of `ring_player.c`, on one or two buds, with two phones | `bud`, `queue`, `air`, `call`, `sco`, `inband`, `link`, `master`; one operator per event handler and command, one action per timer, and the phones |
| `MCTwsRing` | instances for TLC | |
| `TwsRingProof` | the proofs about `TwsRing`: types, the flag, the call audio of both buds, the end of the ring, the last call | |
| `DualConnBudProof` | lemmas about the operators of `DualConnBud` | |
| `TwsDualConnProof` | the inductive invariant and the theorems about types, timers and the slave | |
| `TwsWakeProof` | on top of it, the search that never stalls, the roles that stay while a master pages, that a bud without a phone can be found and one with two cannot, and that no connected phone is listed | |
| `TwsToneProof`, `TwsToneOnceProof` | the same for `TwsTone`: the reservation, and on top of it where each tone is and that it implements `ToneLife` | |
| `TwsPoweroffProof` | the same for `TwsPoweroff`: types and polls, and on top of them that no power-off stops on its way and that `PowerSwitch` is implemented | |
| `TwoPhonesProof` | the same for `TwoPhones` at a lone bud; types, and that no phone's music is lost, also in a pair | |

How the record corresponds to the code.  `timer` is `g_dual_conn.timer`: 0 (`"none"`), a running timer, named by its
callback, or a handle whose timer has run (`"stale"`: only `tws_wait_conn_timeout` leaves one).  `orphans` are
timers that run while no handle names them, which happens because three messages (1291, 1303, 1326) and
`dual_conn_page_devices_init` (708) write the handle without a delete.  `list` is `page_head`; an entry's `timer`
says whether `info->timer` is set, `late` whether `jiffies` is past `info->timeout`; `ptimers` are the page timers
really running.  `num`, `disable`, `addr0..2` are `device_num_recorded`, `inquiry_scan_disable`, `remote_addr`.
`off` and `exit` are `goto_poweroff_flag` and `wait_exit`.  `role`, `tws`, `conn`, `scan`, `page`, `op`, `switch` are what the
libraries were told or answer.

A handler is one step, `HandlePhone`, `HandleHci`, `HandleConnected`, `HandleDetach`, `HandleSwitch`, `HandleData`, `HandleApp`,
`HandleStartProc`, `HandlePageDevice`, applied to the head of the queue; `Timeout`, `OrphanTimeout`, `PageTimeout`, `InquiryTimeout`
are the callbacks; `PhoneLink`, `PhoneUp`, `PhoneDown`, `PageFails`, `TwsLink`, `TwsDetach`, `RoleSwitch` are the libraries and change
their own answers at once, posting the event.

### Power off

In `TwsPoweroff` `flag`, `cnt`, `handle` are `goto_poweroff_flag`, `goto_poweroff_cnt`, `g_bt_detach_timer`; `polls` are the periodic timers really
running under their ids, each with its callback (`same`, `detach`, `exit`) and the reason it was given.  `late` is the
slave's 3 s timer (284), `retry` and `saved` are the retry of the mode switch and its message (`app_main.c:435`), `wait_exit` and `exiting` are
those of `g_bt_hdl`, `auto` is `g_poweroff_timer`.  `sync` is the call that both buds make 400 ms later.  `told` and `leave`
remember that a library was told to drop the phone or the link: it will, under fairness, but not at once.  A message is
handled in one step; messages the power-off does not look at are left out.

`TwsPoweroff` leaves the power-off's view of the reconnection logic at `tws_dual_conn_close`, whose effect is that a bud that is going off
neither links up with the sibling nor takes a new phone; `TwsDualConn` in turn sees the power-off as one message.

Three events make a bud's power-off `spoilt`: the code then forgets it, and the properties owe it nothing (see 5).  Every other
interleaving is covered by them.

The configuration decides several branches: no charging box (`TCFG_CHARGESTORE_ENABLE` 0, so 367-371 is the live branch),
no work while charging (`TCFG_CHARGE_POWERON_ENABLE` 0), on again when taken out (`TCFG_CHARGE_OFF_POWERON_EN` 1), an LED to wait for
(`TCFG_PWMLED_ENABLE` 1).  `set_wait_poweroff_time` has no caller, so `g_user_wait_timer` is always 0.

### Tones

A bud's record in `TwsTone` holds `list` (`g_head`), `adding` (`g_tws_tone_adding`), `ring` (`g_ring_player`), `later` and `retry` (the tones on a timer of
`tws_tone_player_add_timeout`, 30 ms, and `tws_play_tone_try_timeout`, 200 ms).  `pc` and `tone` say where `app_core` is in
`tone_player_add` or `ring_player_start`: the stream runs before the tone is listed, and a callback in another task may come in between
(`"link"`, with `g_tone_mutex` held, `"ring"`, without), or between `tone_player_stop` and the new tone (`"add"`).  `sent` says that it has sent
a shared tone (338) and not yet set `g_tws_tone_adding` for it (341, `SetAdding`): the interrupt that takes the messages (`Refuse` when it cannot) may come in between, and take
any of those not handled yet.  `early` is history: it refused the bud's own copy of that very tone before the flag was set.  `stream[t]`, `seen` and
`failed` are the audio stream: it runs, it is over, its event is on the way to the callback.  `end[t]` counts the STOP
callbacks; `dead` says that freed or unrelated memory was taken for a player.

`delivery` is the task in which the callbacks run.  `jlstream.h:539` lets a pipeline name a `callback_task`, and the library has no source, so both
are initial states: `"app_core"`, where nothing comes between the steps of `tone_player_add`, and `"any"`.

`ToneLife` is refined by `PlaysOut`: a tone is `"playing"` when its stream runs or its callback is to come, `"asked"` while a message, a
timer, `app_core` or the list holds it, `"lost"` when it is given up without a callback, `"stuck"` when the player waits for an event
that it missed, or the tone waits on its 200 ms timer for a flag that was set too late (`Jammed`).

### Two phones

The bud's record in `TwoPhones`: `player` and `stream` are `g_a2dp_player`, its pipeline and `retry_timer`; `slots` are `g_detect_hdl`, `dual` is `g_dual_detect`;
`preempted`, `energy`, `drop` are the three `a2dp_..._addr`, `told` is `g_a2dp_slience_detect` = 2, `trying` a timer of `try_play_preempted_a2dp`; `esco` and
`wait` are `g_esco_player` and `ed_ctl`.  What the stack keeps for the program is there too: `muted`, `media`, `open` (the esco status), `ask`
(an AVRCP key on its way), `refused`.  `air` holds the commands sent to both buds; a lone bud (`link` false) runs them at once, which is the
branch `err` of `tws_a2dp_play_send_cmd`.  The handlers run in link order: `dual_phone_call.c` from the Bluetooth mode's own handler
(`earphone.c:1314`), then `dual_a2dp_play.c`, then `tws_phone_call.c`.

`slips` is history.  Three known ways out of a property's reach are named there, so that the property holds of everything else: `"robbed"`
(a player that waits for its pipeline is given to the other phone), `"in_call"` (`APP_MSG_BT_A2DP_START` during a call), `"late"` (`esco_delay_open`
opens the audio of a call that is over or of a phone that is gone, or is passed by the audio of another call).  `Attended` and `Heard` except the first, `MusicYields` and
`OneReader` the other two, `CallAudioMatches` the last.  `dead` ends a behaviour in which `g_dual_detect` was used after it was freed.

### Ringing

A bud's record in `TwsRing`: `ring` is `g_ring_player`, `flag` is `phone_ring_flag` (no low power while set), `sync` is
`phone_ring_sync_tws`, `addr` and `coexist` are `phone_ring_addr` and `coexist_outband_ring_bt_addr`, `timer` is
`second_phone_call_cmd_timer_id` (1.5 s), `second` and `user` count the 2 s timers that `bt_phone_income` starts and keeps no id of, `esco` and `open`
are the esco player and the phones marked by `bt_api_esco_status`.  The master sends commands, and both buds run them in order (`queue`);
`air` holds those whose callback at the master itself is still to come.  Without a link a command runs at once, and the ring is the
bud's own.  The timers look at `phone_ring_addr` when they run out, not at the phone they were started for.

`late` is history, and names what commands that are under way lead to (see 5).  `"ring"`: a ring was ended while the message that starts it was under way, or a call while the
command that asks for a ring was; nothing stops that ring later, so `RingEnds` excepts it, and nothing else at the master.  `"audio"`: the master handled an `SCO_OFF` while commands
of an earlier SCO were still on their way to it, so that it compared the phone with an `esco` that was out of date (`tws_phone_call.c:969-976`);
`AudioFollows` excepts it.

### Assumptions about the libraries

- A bud without a link answers "master"; phone and HCI events are seen on both buds while linked; data in flight is
  lost when the link goes.
- Roles at link-up follow `tws_host_role_switch` (1193-1208): two buds that each hold a phone do not link.
- Timer ids are not handed out again while a stale handle holds one.  Two unnamed timers with the same callback
  count as one.
- `HCI_EVENT_VENDOR_NO_RECONN_ADDR` acts as the other errors that only re-run the state handler (862).
- The role switch of `bt_tws.c` is allowed when `tws_api_auto_role_switch_enable` was called last.
- `BT_STATUS_INIT_OK` comes first, so `page_head_inited` is always 1 in the model; `bt_tws_poweron` runs with it.

For `TwsPoweroff`, further:

- The synchronised call and the tone reach a bud through `app_core`'s queue and in order, and are flushed with it
  (`os_taskq_flush`).  A new link takes longer than a call in flight; a call in flight may be lost with the link.
- A tone that was started reports STOP in the end; an LED effect is over after one wait of 50 ms; two pending
  retries count as one; a new timer gets an id that no running timer has.
- `lmp_hci_reset` and the commands to disconnect end the links they are about, sooner or later.
- `bt_no_background_exit_check` finds `init_ok` set.  `TWS_EVENT_MONITOR_START` is not modelled.

For `TwsTone`:

- A bud's own message is delivered when it could be sent; the sibling's is lost with the link.  A full queue or no memory
  at a bud loses a message as the code does.
- Every prompt stream ends; a ring repeats and ends when it is stopped or fails.  Prompts are asked for in `app_core`.
- A tone has one further file at most (`second`): a third acts as the second.

For `TwoPhones`:

- A stack reports `MEDIA_START` when music arrives from a phone whose media is not open (comment at `dual_a2dp_play.c:209`), keeps back the packets
  of a muted phone, and opens a media file for any phone whose packets arrive.
- When a link breaks the stack reports what ends with it, SCO, call and media, before the disconnection.
- A phone holds its own music while its SCO is up, and goes on afterwards; it obeys an AVRCP key, or never does (`deaf`).
- A command is back, and a key obeyed, before a timer runs out (the shortest has 80 ms, the others 200 ms to 5 s).
- `esco_player_open` and allocations succeed.  (A failed one would leave the mark OPEN, 516, as 546 returns first.)

For `TwsRing`:

- Commands reach both buds, in the order they were sent; the master's own copy comes back after a while.
- A phone rings or talks in one call; both phones are connected; one phone's SCO is up at a time, that of an outgoing call before that of an
  incoming one (`dual_phone_call.c:65`).  A phone with a ring of its own (`inband`) sends it as call audio.
- A ring plays until it is stopped, and its start succeeds.
- When a sibling joins, the library reports `MONITOR_START` for both phones to the master and the call audio to the slave.
- A lost link and a role switch during a call are left out: what the library reports to the new master is not in the source, and the handlers
  of a slave return at once (`tws_phone_call.c:806`).

### Abstractions

Printing, LED, tones and messages to the UI are left out, as are the test box (`bt_get_remote_test_flag`), the lock
of the scans during an update, `low_latency.c:78` (scan off during a game), `DUAL_CONN_SET_ONE`/`CLOSE`, `page_mode_active` (read by
the update code only), `need_keep_scan` and `page_scan_auto_disable` (set by code that is compiled out).  Time is abstract:
a timer may run out at any moment, an entry's deadline may pass at any moment.  `APP_MSG_BT_PAGE_DEVICE` picks the
phones it adds nondeterministically, because the record is not kept in the model.  A list longer than two entries overflows
`data[20]` (996); the model relays it as it is.

In `TwsTone` clocks, time stamps and volumes are left out; in `TwoPhones` volume, thresholds and packet numbers of the detector, Siri and
what a slave does (it follows commands, and drops events); ringing is in `TwsRing`, which in turn leaves out numbers, volume, Siri and the music.

## 3. Runs

The runs use `MCTwsDualConn`, those of the power-off `MCTwsPoweroff`, `Tones`, `Phones` and `Rings` modules of their own, with `CHECK_DEADLOCK FALSE`: with bounded events a run may stop when everything is settled, and a bud
with nothing to do does stop.  `MaxEvents` bounds faults and user operations in a behaviour, `MaxQueue` the length at
which a queue takes no message from outside (handlers may still post).

| Run | Instance | Shows |
|---|---|---|
| `Pair` | two buds, one phone, three faults of link loss, detach, role switch, phone loss | `TypeOK`; a slave neither scans nor pages (`SlaveQuiet`); while there is something to page a timer is running (`NoLostWakeup`); the roles are not switched meanwhile (`NoSwitchWhilePaging`); a bud without a phone that is not paging can be found (`Reachable`) |
| `PairTwo` | two buds, two phones, one of them recorded or none, one event: a lost, rejected or gone phone, power off, mode exit, call audio, or a message of another module (start, page, paired, wait) | `NoLostWakeup` and `Reachable`: the bud left alone goes on; no connected phone is in the list (`ListedNotConnected`); with two phones the scans are off (`FullThenClosed`); `SlaveQuiet` |
| `PairLive` | two buds, one phone, fair; one of: a supervision timeout, a lost phone, a page that finds its connection there already, a message to connect | paired buds meet again and again (`SiblingsMeet`) |
| `Solo` | one bud, two phones, two events of the faults and `APP_MSG_BT_PAGE_DEVICE`, fair | every listed phone is paged out, connected or given up (`DeviceGivenUp`); timers match the list (`PageTimersMatch`), which has no duplicates (`NoDuplicatePage`); `NoLostWakeup` |
| `PowerSolo` | one bud, three events of every kind a bud alone can meet, fair | a bud that is going off waits for something that takes it on (`NothingForgotten`); no bud sits in the idle mode without being charged or going off (`NotStranded`); one timer polls and the handle names it (`OnePoll`); the whole implements `PowerSwitch` with its liveness (`SwitchesOff`) |
| `PowerPair` | two buds, three events of: key, link loss and link, role switch, charger, tone failure, fair | `NothingForgotten`, `OnePoll`, `SwitchesOff`: a bud the master asked goes off although the link, the role or the tone fails |
| `Tones` | two buds, two requests (local, shared, urgent, ring; a delayed urgent one goes on as one that plays alone), one fault or event: a file, stream or message that fails, a lost link, a stop, a second file; fair | a tone's STOP callback comes once (`OneStop`); a bud makes shared tones wait only for one that is coming, unless that one was refused before the flag was set (`AddingHasReason`, `early`); with callbacks in `app_core` the head of the list always plays or has its callback to come (`HeadPlays`); the whole implements `ToneLife` with its liveness (`PlaysOut`) |
| `Phones` | two phones, a lone bud or a master, three events of: music, silence, stop, calls in and out, a lost phone, a tone, a pipeline that cannot be parsed or started | once everything has settled, calls or not, a streaming phone has the player or a detector, a muted one a detector (`Attended`), and while a phone sends sound that is not muted the player plays one that streams (`Heard`); the mark of an interrupted phone goes with the calls (`MarkEnds`); the OPEN marks match the call audio (`CallAudioMatches`); no music over the other phone's call (`MusicYields`); one reader per phone (`OneReader`) |
| `Rings` | two phones, two buds with or without a link, or a sibling that joins; two calls in or out, audio taken to the handset | once all has settled, the master rings only while a phone calls in (`RingEnds`), no bud is kept from low power after the calls (`FlagEnds`), a phone that calls alone and has no ring of its own is rung for (`LastCallRings`), and both buds play the call audio that is up (`AudioFollows`) |
| `SyncCount`, `PulledOut`, `ReopenAfterExit` | small | what a comment or a declaration says and the code does not keep; see 5 |

Why these bounds.  Each property is about at most two phones and the two buds there are.  A
fault needs at most two others to do harm in this code: a role change and a loss while a relay is in flight.  Queues
of length one still hold several messages, because link events and handlers post without asking for room.  The symmetry of the
buds in `Pair`, `PairTwo` is sound: both run the same code, start from the same set of records, and no property of
these runs names a bud, and so are the phones of `Phones`, and buds and phones of `Rings`; the runs with liveness use none.  What follows from the power-off of a bud, the
detach its sibling sees, is not counted.  In `Tones` the first request is the left bud's, as both run the same code.  Three
events in `Phones` reach music on one phone, music or a call on the other, and a disturbance; what follows from an event
(answering, hanging up, SCO up and down, obeying, `MEDIA_START`) is not counted.  `MaxQueue` 2 lets a second report come in behind a command.  Two calls in `Rings` are all that two phones can have at once;
answers, hang-ups and SCO up and down are not counted.

Fairness (`Fairness` in `TwsDualConn`).  A task handles its messages and its timers run out (weak fairness: once
possible they stay possible until they happen); a phone that linked brings its profiles up; deadlines pass.  Two buds
that search again and again find each other (strong fairness of `TwsLink`): a single attempt owes nothing, but the library
repeats inquiry and page.  Faults, the user and phones that connect on their own owe nothing.

In `TwsPoweroff` the task handles its messages, timers and tones run out, `sync` calls are made, and the libraries drop what they were
told to drop; a player stops when its phone is gone, which is what the players do on a disconnection.  The user, the charger, calls, and links
that end or start on their own owe nothing.  `MaxTicks` stands for the 200 and 300 polls after which a wait resets the chip; 1
is enough, because a poll that waited once and one that waited 199 times do the same.  Three counted events reach a power-off, its
disturbance and a second power-off or charger event; the battery, the automatic timer and players are not counted.

In `TwsTone` each bud's `app_core` goes on, callbacks are handled and prompts end, each under weak fairness; requests, stops, links and
rings owe nothing.  `TwoPhones` and `TwsRing` have no liveness: their properties are about settled states, which every timer and message leads to.

Some properties hold only without certain faults, and the runs say so: `FullThenClosed` and `ListedNotConnected` are checked
without role switches, because a relay in flight over a role switch overwrites the new master's list and count;
`NoLostWakeup` is checked and proved without three things that stall a search (`Wakeful`): a detach by removing the pair, after which the code
waits for the user (1063); the messages `start_pair` and `start_conn`, which delete the timer that would page on and whose own timeouts do not page (1269, 1276);
and `already_exists`, a report that a phone still in the list is connected.  With any of them TLC finds a bud with a device to page and nothing that pages it.
`ListedNotConnected` is checked without `already_exists` for the same reason.

## 4. Proofs

`TwsDualConnProof` proves for any one or two buds, any finite set of phones, any records and any bounds:

- `TypeCorrect`: `Spec => []TypeOK`.
- `PageListsDistinct`: `Spec => []NoDuplicatePage`.
- `PageTimersSound`: `Spec => []PageTimersMatch`.

All three follow from `Inductive`: `Spec => []IInv`.  `IInv` joins the three: a bud's record is well typed, its list has no duplicate
and its timers match it (`GoodBud`), and every list in flight or in a queue has no duplicate.  The strengthening is needed
because neither of the last two is inductive alone: deleting an entry clears the timers of every entry of that
phone only if there is one such entry, and the list a relay brings is distinct only because the sender's was.
`DualConnBudProof` shows, operator by operator, that each C function takes a good bud to a good bud; `TwsDualConnProof` has one step per
action.  The assumptions are those of the modules (`PhonesAssumption`, `BudsAssumption`, `EnabledAssumption`).

- `SlaveAlwaysQuiet`: `Spec => []SlaveQuiet`.  Its `QuietInv` says that the last message about the link in a bud's queue tells the bud's role as the
  library has it, that a slave is linked, and that a bud whose queue holds no such message is quiet if it is a slave.  The first part is what makes it inductive: roles
  change at once and the handlers follow later, so a bud may page as a slave, but never with the news of it behind it.

`TwsWakeProof` proves, on top of it, `SearchNeverStalls`: `Wakeful` implies `Spec => []NoLostWakeup`.  `NoLostWakeup` speaks of settled states only; its strengthening
`WakeInv` speaks of all of them.  Each bud is excused, or awake.  Excused is who is not in charge (a slave, a bud going off or left, the sibling of one that is going off),
who has a phone linking up, and a new master to whom the old one's list is still to come.  Awake means that a timer whose callback pages or searches is running, or that a message
further back in the queue will arm one (`Rearms`); and each `HCI_EVENT_CONNECTION_COMPLETE` that reports a success, the one message that stops the timer and arms nothing, has such a message behind it.
A bud that was never paired and has two phones up arms nothing, which is harmless only because it then lists no phone (`Covered`), because a link it has lost is news on its way;
and the roles of two linked buds differ (`Pairing`).  The operators are classified by what they do to the timers: `Rouses` (arms one whenever there is something to
page), `Wakes` (keeps the bud awake), `Rests` (touches neither timers nor list).  `Wakeful` leaves out the faults and requests named in 3; each of them is needed, as TLC shows.
TLC checked `WakeInv` on the instances of `Pair`, `PairTwo` and `Solo` before it was proved.

The same module proves `RolesStay`: `"page_device" \notin UserOps` implies `Spec => []NoSwitchWhilePaging`.  Its `HeldInv` says of every bud, settled or not, that it is
exempt (not in charge, or its sibling going off), or the relay of the old master is still due, or it `Forbids` (as a linked master with a list it has told the library not to switch), or a message in its queue
will make it forbid (`Ruled`): the data of a relay, or the news that it is connected as master.  The operators are classified as before: `Steady` (keeps `Forbids`), `Settles` (establishes it), `Level` (touches neither
list nor switch).  Faults need no exception here; the request to page does, because its handler lists and pages without forbidding the switch (see 5).  TLC checked `HeldInv` on the instances of `Pair` and, without `page_device`, `PairTwo` first.

The same module proves `AlwaysReachable`: `"wait_pair" \notin UserOps` implies `Spec => []Reachable`.  A bud is `Findable` if it scans, searches or waits for its sibling, or has a page
timer; the state handler and the pager make it so (`Opens`), most of the rest keeps it so (`Stays`).  What undoes it is a phone that comes up, the role of a slave, and the timer of a request to wait to be
paired, which the hypothesis leaves out (see 5).  `FoundInv` says of every bud in charge without a phone that it is findable, unless the sibling is linked and about to lead, or a message in its
queue will open it (`Opening`) with none behind that closes it again (`Closing`).  The loss of the last phone is such a message: the connection ends at once, the handler that opens the scans comes later.
TLC checked `FoundInv` on the instances of `Pair` and `PairTwo` before it was proved.

Last, it proves what becomes of a bud with phones, from one invariant, `TidyInv`:

- `FullIsClosed`: without role switches, `Spec /\ []Prompt => []FullThenClosed`.
- `ConnectedUnlisted`: with `OnlyLost` as well, `Spec /\ []Prompt => []ListedNotConnected`.
- `NewsIsPrompt`: without role switches, `PromptLink` implies `Spec => []Prompt`; so `FullAlwaysClosed` and `ConnectedNeverListed` need hypotheses on the constants only.

The connections change at once and the handlers follow, so neither property says much of a state that is not settled.  `TidyInv` reads the queue instead: with two phones up the bud is
`Closed` and nothing that may open it is queued (`Spoilers`: a first connection, relayed data, the detach of a slave), or the second connection is still to be handled with no such message behind it (`Shut`);
and a phone that is connected is not in the list and nothing queued adds it (`Adds`), or the message that it is up is queued with no such message behind it (`Gone`).  `Closed` contains the count of recorded devices: with a single
one the state handler opens page scan for another phone, so the relays, which overwrite the count, have to be kept away.  Hence the rest of it: a slave is linked and has no phone, data is on its way
to slaves only, and no bud holds more than two.  `Prompt` is what keeps the last but one true: no slave has the news "connected as master" of an earlier link still to handle, which would make it send its list upwards.
`PromptLink` holds for a bud alone, for a link that is never lost, and where the queues take at most two messages from outside; the invariant behind it (`TimelyInv`) says that such news is with the
master, or its link is gone and the news of that is right behind it, which leaves no room for the next link.  Nothing weaker would do: with room for three, one lost link and two phones TLC finds `Prompt`, `ListedNotConnected`
and `FullThenClosed` violated (8, 22 and 27 states, see 5).  `OnlyLost` leaves out the two steps that list a phone which is connected (`already_exists`, `page_device`).  TLC checked `TidyInv` and `TimelyInv` on small instances first.

`TwsToneProof` proves for one or two buds, any number of tones, any choice of kinds and faults and any bounds:

- `TypeCorrect`: `Spec => []TypeOK`.
- `NeverAddsForNothing`: `Spec => []AddingHasReason`.

Both follow from its `Inductive`.  `AddingHasReason` alone is not inductive: `g_tws_tone_adding` is reset by the message of a shared tone,
so the invariant adds what that message needs.  `app_core`, in the middle of adding a tone, has one in hand, and the
mark that it came by message (`shared`) is set only there (`Sound`); and a tone under way to its own bud, or to be sent again, is one that
was asked for (`Asked`), since asking anew may make a tone a ring, whose message resets nothing.  Between the send and `SetAdding` no flag is set, and the invariant says instead
that the last of the bud's own messages is the shared tone just sent, unless it was refused (`SentLast`).  `AddingHasReason` excepts a bud whose tone was refused in that gap (`early`, see 5).  `Alike`, `Inherits`
and `Adds` say, for the operators that nest, what the outer one may rely on.  The assumption is `ToneAssumption`.

`TwsToneOnceProof` goes on from there:

- `StopsOnce`: `Spec => []OneStop`.
- `HeadAlwaysPlays`: `Spec => []HeadPlays`.
- `PlaysInOrder`: `Spec => Tone!Safe`, the refinement `PlaysOut` without its liveness.

Its `OnceInductive` says where a tone can be: at a bud it is in the list, on one of the two timers, in `app_core`'s hands or the ring, in one place and once, and has not ended
(`Apart`); rings are only where rings go (`Sorted`); and a message under way to a bud carries a tone that is at no such place there.  `OneStop` needs it because a
tone in two places is ended twice.  `HeadPlays` adds, for callbacks in `app_core`, that whatever is put first in the list or into the ring plays or has its
callback to come.  The relation `Steps` says what an operator takes out and puts in, so that nested calls compose.

For the refinement the invariant is strengthened once more: only the head of the list, the ring and what `app_core` is starting have a stream, and `app_core` starts a tone only when the list is
empty, and a ring when there is none (`Tuned`).  That gives one prompt and one ring at a time.  `Goes` says of an operator, and `Onward` of a whole handler, that no tone goes back: what has ended stays as it
ended, what does not end keeps its place and its stream; what waits for a flag that is jammed stays on its timer, silent, until the flag is reset (`RetryStays`, `JamWaits`); and what waits for a missed event goes on waiting, or ends, or, when an urgent tone stops the list, waits anew with nothing playing.  `Acting` adds
the message: a bud acts for itself, or asks for one tone, which only then can appear at its sibling.  `FateMoves`, `FateGets` and `CutMoves` turn these into `Step` and `Cut` of `ToneLife`, whose
specification is stated in two parts, `Safe` and `[]<>Settled`, so that the theorem can name the first.

`TwsPoweroffProof` proves for one or two buds and any bounds:

- `TypeCorrect`: `Spec => []TypeOK`.
- `PollsWithOne`: `Spec => []OnePoll`.

`TypeOK` is the harder one: the model has as many timer ids as events are counted, and one more, and a power-off that begins or goes on must
find one free.  A timer is left behind by its handle (`Spare`) only when a bud leaves its charger during a power-off, because
the flag is cleared (`charge.c:310`) and the next power-off writes the handle over.  So the invariant (`Paid`) counts: timers left behind, the
one that a cleared flag is about to leave behind, and the messages that will still clear it, are together no more than the events so far.
For the type of `wait_exit` it adds that the fourth round ends the mode.  The assumption is `PowerAssumption`.

- `ForgetsNothing`, `StrandsNobody`: `NoReunion` implies `Spec => []NothingForgotten` and `Spec => []NotStranded`.
- `SwitchesSafely`: `NoRecall` implies `Spec => PS!Safe`, the refinement `SwitchesOff` without its liveness.

All three follow from `OwesItsNextStep` (`[](IInv /\ Onway)`).  `Onway` says what each bud that is up and not spoilt owes (`Owed`).  One that is not going off is `Quiet`: no timer, tone or message of a
power-off is left, and a tone message has a synchronised call before it (`Covered`), which will set the flag first.  In the idle mode it is also `Parked`: in its charger, or the message that takes it back waits.
One that is going off has, in the Bluetooth mode, a timer, a tone or a message that goes on; in the idle mode what `Ends` it, or, if it was taken out of its charger and asked again, `Returns` it to the Bluetooth
mode with a power-off behind (`Behind`).  What makes this inductive is the order of messages in one queue, that leaving the Bluetooth mode ends the link and the automatic timer (`Calm`), and that
only taking a bud out of its charger clears the flag (`Held`).  `Together` relates the buds: a linked sibling of a bud that polls or has been called (`Asked`) is going off, or has the call waiting (`Answers`).
`Move` says what a step does to one bud, `Stride` what an operator does; `Turn` is the step of `PowerSwitch` it maps to.  TLC checked `Onway` on the instances of `PowerSolo` and `PowerPair` before it was proved.

The hypotheses are about two buds of which one is taken out of its charger in a power-off; one bud needs neither, and both hold in the runs.  `NoReunion` says that such buds do not link up again, `NoRecall` that there
are none.  Each is needed (see 5): TLC finds `NotStranded` violated without the first within five events, and `PS!Safe` without the second within three.

`TwoPhonesProof` proves for two phones, any events and faults, any backlog of messages:

- `TypeCorrect`: `Spec => []TypeOK`, for a lone bud and a master.
- `MusicAlwaysYields`, `AlwaysOneReader`, `CallAudioAlwaysMatches`, `MarkAlwaysEnds`: `Spec => []P` for `MusicYields`, `OneReader`, `CallAudioMatches`, `MarkEnds`, which are about a lone bud.

They follow from its `Inductive`: the types, and `Alone` at a bud without a link.  `Lone` relates what the bud holds: the player's phone is not the marked one; each `OPEN` mark is of the call that is played
(`Called`); player, call audio and detectors do not meet (`Tidy`).  The rest ties the bud to what is still in its queue, because the phones are ahead of it: call audio whose SCO
is down has its `SCO_OFF` in the queue, and no `SCO_ON` behind that (`AudioEnds`); what may interrupt the other phone is followed by the end of the call (`CallEnds`); and a phone marked as interrupted has a
timer, a call, the end of one, or its own disconnection to take the mark away (`Remembered`).  Commands play no part, as a lone bud runs them at once; with a
sibling they may come back late (see 5), and these properties fail.

- `AlwaysAttended`, `AlwaysHeard`: `Spec => []Attended`, `Spec => []Heard`, for a lone bud and a master.

They follow from `TakesCare` (`Spec => []CareInv`).  `CareInv` says, of all states and not of settled ones, that a phone whose media is open streams, and that it is `Safe` (it has the player or a detector, a
detector if it is muted) or a message that will make it so is in the queue or on its way to both buds: `MEDIA_START`, `PLAY`, `SLIENCE_DETECT`, `MUTE`, `MUTE_BY_CALL`.  The exception is a phone whose player was
robbed.  Two parts make it inductive: an `AVRCP_PLAY` is followed by its phone's `MEDIA_START`, as its handler relies on that; and a detector that has closed its media file (it heard sound) has the `A2DP_START` or `PLAY` on its way that will
start the player.  The operators are classified: `Tends` (who loses player or detector has its media closed, or something asked for that gives it another), `Minds` (looks after this phone, whatever was before), `Cares` (a
whole handler).  TLC checked `CareInv` on the instance of `Phones` first.

`TwsRingProof` proves for one or two buds, any faults and any number of events:

- `TypeCorrect`: `Spec => []TypeOK`.
- `FlagAlwaysEnds`: `Spec => []FlagEnds`.
- `AudioAlwaysFollows`: `Spec => []AudioFollows`.
- `RingAlwaysEnds`: `Spec => []RingEnds`.
- `LastCallAlwaysRings`: `Spec => []LastCallRings`.

`Inductive` gives the first two.  `FlagEnds` speaks of settled states; the invariant (`FlagInv`) of all in which no phone calls in: every `PHONE_INCOME` in the master's queue has the
report of an end behind it; and either such a report is still there, or every command that sets the flag has one behind it that clears it, in what has not come back
to the master as well as in each bud's queue, and a bud whose flag is set has one to come.  Without a link no command is on its way and the
other bud is idle (`Apart`).  For the audio, `After` says what a message makes of the phone that is played, and `Leads` that a queue leads from one phone to another.
`AudioInv` says of the master that its queue, then what has not come back to it, then the reports it has not handled (taken as the commands they will become) lead from
what it plays to the call audio that is up, and that each of these reports fits what precedes it; of the other bud, that its own queue and those reports do.  The fit is what
makes it inductive when a sibling joins: the library tells it what is up now (`S_START_ENTER_ESCO`), while older reports are still in the master's queue and reach it as commands;
because each fitted, they leave it with the same phone (`LeadsMeet`).  An `SCO_OFF` that outruns a command for the player is where the master sends nothing and `AudioInv` is lost, which is
the exception of `AudioFollows`.

For the end of the ring, `HushInv` says of the states in which no phone calls in that the report of an end is still in the master's queue, or the master is `Hushed`: no delayed command, no
`OUTBAND_RING` still to come, and behind a ring that plays or a `PLAY` under way the stop that names `coexist_outband_ring_bt_addr` as it will then be.  `Paced` adds that only the master delays a command and that a
running 2 s timer has a phone to look for.  For the last call, `LastInv` speaks of all states in which p alone calls in and sends no ring of its own: every report that stops the ring has one behind
it that brings it back (`Followed`); and one of those is queued (`Bringing`), or a ring is `Coming`: the delayed command, a command that asks for it, or a ring that plays or is about to with nothing
behind it that stops it, in what has not come back and then in the queue.  TLC checked the four invariants on the instance of `Rings` first.  The assumption is `RingAssumption`.

Found while proving, and changed in the models: two `CASE`s of `TwsRing` (`PhoneStatus`, `ScoOff`) had arms that overlapped, which means either arm in TLA+ and the first in TLC;
the code's early returns are now tested first.  `MusicYields` and `OneReader` excepted too little (a late opening over a lost phone), and so did `AudioFollows` (a
backlog of commands); both exceptions name the step of the code that leads there, and TLC reached neither within the earlier bounds.  `RingEnds` also excepted too little: an `OUTBAND_RING` may cross the stop
that a hang-up sends (see 5; TLC needs 57 steps and a third call).  `Attended` and `Heard` claimed too little: the proof needs neither the exception of a phone whose call audio is open nor that no phone calls, and TLC agrees.
`Reachable` claimed too little: it spoke of buds that wait for nothing, where no page timer is all it takes.

Only model-checked, and why:

- `ListedNotConnected` of `TwsDualConn` with `page_device`, which `PairTwo` enables and `OnlyLost` excludes: it holds for the one event of the run and not in general (see 5).
- `SwitchesOff` as a whole: its safety half, which is proved, needs `NoRecall` with two buds; without it, it is not true for every bound.
- Everything about liveness (`DeviceGivenUp`, `SiblingsMeet`, the liveness of both refinements), which is out of the prover's reach.

## 5. What the code does not keep

- `SyncCount`: a relayed `inquiry_scan_disable` has the value 2; relayed again it lands on the lowest bit of the count (954, 1003).
- `PulledOut`: a bud is taken out of its charger while a power-off is under way: `charge.c:310` clears `goto_poweroff_flag`, but timers,
  messages and tones go on to the idle mode, where nothing switches the bud off or on; `sdk_config.h:33` says that taking it
  out switches it on.
- `ReopenAfterExit`: profiles that come up while the Bluetooth mode is being left open page scan again (798), which the comment
  at 403 says must not happen.

In the runs of the power-off such a bud is excepted (`spoilt`), as it is in two more cases, which contradict no comment and have no run:

- A call or Siri when the power-off reaches the mode switch: `app_main.c:521` drops the message and nothing repeats it.
- The tone of a shared power-off does not play: the master waits for its callback only (`tws_poweroff.c:275-291`), the slave has a timer.

Also without a run of their own:

- A bud taken out of its charger during a power-off, once more.  If it links up again as master, a poll of the old power-off (`same`) takes the sibling along, which nobody asked (`NoReunion`).
  A synchronised call that was under way reaches it in the idle mode, or when it has a new power-off to answer for (`NoRecall`): it switches off, or goes on to leave, out of turn.
- A search that the user asks for between two pages (`APP_MSG_TWS_START_PAIR`, `APP_MSG_TWS_START_CONN`, 1329-1347) deletes the timer that would page on; its own
  timeout waits to be found, or does nothing (1269-1280), and the devices left in the list are not paged until the next event.
- `APP_MSG_BT_PAGE_DEVICE` lists and pages a phone without `tws_api_auto_role_switch_disable` (1131-1172); switching the roles stays allowed until the page timer
  runs the state handler (465).  With `page_device` enabled TLC finds `NoSwitchWhilePaging` violated, so `Pair` and the theorem leave it out.
- The same message compares what it reads from the record with `remote_addr` (1131-1172), which forgets a connected phone when the other one goes and comes back as the second:
  it then lists and pages a phone that is connected.  TLC finds `ListedNotConnected` violated for a bud alone with `page_device`, two phones that go, and queues of two; the one event of `PairTwo` is too few for it.
- A request to wait to be paired ends after a time by `tws_api_cancle_wait_pair` and nothing else (1263-1267): a bud without a pair and without a record neither scans
  nor waits then, until the user acts.  TLC finds `Reachable` violated in five states; the runs and the theorem leave the request out.
- The news "connected as master" is handled by whatever the bud is by then.  Lost and linked again as a slave, it relays its list and its count of inquiry scans
  to the master all the same (987-1003), which takes them over.  TLC finds it with one lost link and queues of three: the master then lists a phone it is connected to, or opens
  its scans with two phones up (`ListedNotConnected` and `FullThenClosed` violated in 22 and 27 states).  The theorems exclude it by `Prompt`; no document says otherwise, so it has no run.
- `MAX_PAGE_DEVICE_NUM` is 2 (35) and unused; with three phones the page list grows to three entries, and the relay packs it into a buffer
  for two (996).
- Tones.  `g_tws_tone_adding` is set after the message is sent (`tws_tone_player.c:338-341`).  If the interrupt that takes the bud's own copy has no memory, or no room in the queue,
  in between, it resets the flag (269) before line 341 sets it; nothing is left to reset it but a tone of the sibling, and every shared tone of the bud arms its
  200 ms timer again and again.  Without the exception (`early`) TLC finds `AddingHasReason` violated in four steps.  No comment says what the flag promises, so it has no run of its own.
  With callbacks in another task than `app_core`, an end reported between `tone_player_start` and `list_add_tail`
  (`tone_player.c:434-441`) is lost, and the finished tone blocks the later ones; the list is tested before the mutex is taken (109), `g_ring_player`
  read before (`ring_player.c:19`) and set after the stream runs (81).  A delayed request loses its preemption, for which the comment at
  `tws_tone_player.c:446` says that it stops the tone that plays, and all files but the first (308-316).  No memory for the sibling's tone
  resets the bud's own `g_tws_tone_adding` (269), and a tone whose file is missing is freed without its callback (202).
- Two phones.  `g_dual_detect` is freed by the stop of either detector and then used by the other (`bt_slience_detect.c:335`, 178).
  `APP_MSG_BT_A2DP_START` does not look for a call (`dual_a2dp_play.c:627`).  `esco_delay_open` opens the audio of the phone it once noted, whatever
  has become of the call (`tws_phone_call.c:449`), also that of a phone which was lost meanwhile, and the other phone's music then plays beside it; a second SCO that comes up before the first has closed is ignored (483), and nothing opens
  it later.  `dual_phone_call.c:22` compares the event with call states, so that the arbitration runs at `SCO_CONNECTION_REQ` only.

  In a pair, commands that come back late mark a phone after its call (`MUTE_BY_CALL`), play music over a call (`PLAY`) or open a
  player after the disconnection (`OPEN_ESCO`, `PLAY`): `MarkEnds`, `CallAudioMatches`, `MusicYields`, `OneReader` are therefore about a lone bud.
- Ringing.  A ring that is asked for when its call ends plays on: the command that stops it runs before the message that starts it, and nothing
  else stops a ring whose call is over (`tws_phone_call.c:199-204`).  The 2 s timers are not deleted with the call and ask for
  `phone_ring_addr` as it is when they run out (297-302).  A slave plays the ring the master asks for without having noted `coexist_outband_ring_bt_addr`, so that
  `OUTBAND_RING_STOP` passes it by (212, 317).  At the master, a hang-up while an `OUTBAND_RING` is still under way sends the stop with the address noted before; the ring that then starts has no end (`late` = `"ring"`).  Of two phones that call before either is answered, none is rung for (824-838).
  An `SCO_OFF` is compared with the call audio the master plays at that moment (969-976), not with what it has asked for: with commands of an earlier
  SCO still on their way it sends no `CLOSE_ESCO`, and the audio stays open at both buds.
  A sibling that joins while the master rings in the background stays silent (202, 1149).

## 6. Plan

Done, most important first: reconnection and pairing (`DualConnBud`, `TwsDualConn`), its inductive invariant and the proofs about timers, the slave, the search, the roles, being found, being closed and what is listed;
power-off (`TwsPoweroff`) and the abstract specification it implements (`PowerSwitch`); the tones (`TwsTone`) and theirs (`ToneLife`), with the
proofs of the safety of both refinements; the audio of two phones (`TwoPhones`) and ringing (`TwsRing`), with proofs of every invariant their runs check.  Next, in this order:

1. The message that a bud handles as something else than it was when it came (5), as a run of its own with longer queues.
2. `TwsTone` composed with `TwsPoweroff` in place of its one-step tone, so that `spoilt` shrinks to what the tone player really loses.
3. The slave of `TwoPhones`, and a role switch or a lost link in a call, as far as the replayed events are visible in the source.
4. `BtMode`: `earphone.c` with `app_mode_manager.c`, composing `TwsDualConn` and `TwsPoweroff`: a phone that connects during a power-off
   (`tws_dual_conn.c:750`), messages queued before it (1290).

Bounds stay as they are in kind: two buds, two phones, one to three counted events, queues of one or two.

## 7. Not modelled

- Compiled out on this board: `dual_conn.c`, `poweroff.c`, `phone_call.c` (single ear), `a2dp_play.c`,
  `update_tws_new.c`, LE audio, audio share, the charging box, ANC and GFPS
  branches, background mode, the music, line-in and PC modes, `dev_manager`.
- Without source: Bluetooth stack, TWS library, controller, kernel and timers; modelled as far as the code relies on them.
- Little state: keys, LED, sniff and low latency, clock; start-up is a fixed sequence of calls.
- Data, not control: effects, codecs, the audio framework; firmware update is file I/O around closed libraries.
- Memory: allocations succeed in the model, except where a comment above says otherwise.
