------------------------------ MODULE TwsTone ------------------------------
(***************************************************************************)
(* The prompt tones and rings of one or two earbuds: tone_player.c, the    *)
(* list of tones of a bud; ring_player.c; and tws_tone_player.c, which     *)
(* starts a tone on both buds.                                             *)
(*                                                                         *)
(* External: the audio streams (jlstream) and the TWS library.  A stream   *)
(* reports its end to a callback; jlstream.h:539 names a task for it but   *)
(* has no source here, so "delivery" is either app_core, where the tones   *)
(* are started, or any other task, whose steps come between app_core's.    *)
(***************************************************************************)
EXTENDS Naturals, Sequences, SequencesExt

CONSTANTS
    Buds,       \* one or two earbuds
    First,      \* the bud that asks first: they run the same code
    N,          \* bound: tones asked for in a behaviour
    Kinds,      \* the kinds of tone that are asked for
    Faults,     \* the faults that can happen, and what comes from outside
    MaxEvents   \* bound: those that happen in a behaviour, one to a bud at most

\* play_tone_file*; tws_play_tone_file with STREAM_COEXIST_AUTO, with DISABLE, and
\* with preemption; tws_play_ring_file.
AllKinds == {"local", "shared", "alone", "urgent", "ring"}
AllFaults == {"no_file", "no_start", "full", "failed", "link", "stop", "files"}

ASSUME ToneAssumption ==
    /\ IsFiniteSet(Buds) /\ Cardinality(Buds) \in {1, 2}
    /\ First \in Buds /\ N \in Nat \ {0} /\ MaxEvents \in Nat
    /\ Kinds \subseteq AllKinds /\ Faults \subseteq AllFaults

VARIABLES
    bud,       \* bud[b]: the tone players of bud b
    ask,       \* ask[t]: the request that tone t is
    air,       \* air[b][c]: messages from c that b's app_core has not handled
    link,      \* the TWS link is up
    delivery,  \* the task in which a stream's callback runs
    events

vars == <<bud, ask, air, link, delivery, events>>

Tones == 1..N
NoTone == 0

Bud == [list : Seq(Tones),        \* g_head
        pc : {"idle", "add", "link", "ring"},
        tone : Tones \cup {NoTone},  \* the tone app_core is adding
        shared : BOOLEAN,            \* it came by message: g_tws_tone_adding is reset
        stream : [Tones -> {"none", "run", "over"}],
        seen : SUBSET Tones,      \* ended streams whose callback is still to be handled
        failed : SUBSET Tones,    \* those that were preempted or could not negotiate
        second : SUBSET Tones,    \* tones that went on to their second file
        later : SUBSET Tones,     \* timers of tws_tone_player_add_timeout, 30 ms
        retry : SUBSET Tones,     \* timers of tws_play_tone_try_timeout, 200 ms
        adding : BOOLEAN,         \* g_tws_tone_adding
        sent : BOOLEAN,           \* app_core has sent a shared tone (338) and not set it yet
        early : BOOLEAN,          \* history: the interrupt refused that tone before it was set
        ring : Tones \cup {NoTone},  \* g_ring_player
        end : [Tones -> {"no", "once", "twice", "dropped"}],  \* STREAM_EVENT_STOP callbacks
        struck : BOOLEAN,         \* history: one of the faults has struck it
        dead : BOOLEAN]           \* freed or unrelated memory was used as a player

TypeOK ==
    /\ bud \in [Buds -> Bud]
    /\ ask \in [Tones -> [kind : AllKinds \cup {"none"}, more : BOOLEAN]]
    /\ air \in [Buds -> [Buds -> Seq(Tones)]]
    /\ link \in BOOLEAN
    /\ delivery \in {"app_core", "any"}
    /\ events \in 0..MaxEvents

Others(b) == Buds \ {b}
Is(t, kinds) == ask[t].kind \in kinds
Ready(b) == ~bud[b].dead /\ bud[b].pc = "idle" /\ ~bud[b].sent

(***************************************************************************)
(* The program: operators on a bud's record.                               *)
(***************************************************************************)

tone_player_runing(x) == x.list # <<>>

Left == events + Cardinality({b \in Buds : bud[b].struck}) < MaxEvents

\* The states x is left in when fault f may strike.
Struck(f, x) == IF f \in Faults /\ ~x.struck /\ Left THEN {[x EXCEPT !.struck = TRUE]} ELSE {}

\* The STOP callback of the tones in S: tone_player_free.
tone_player_free(x, S) ==
    [x EXCEPT !.stream = [t \in Tones |-> IF t \in S THEN "none" ELSE @[t]],
              !.end = [t \in Tones |-> IF t \notin S THEN @[t]
                                       ELSE IF @[t] = "no" THEN "once" ELSE "twice"]]

\* A tone that is given up without a callback.
Drop(x, t) == [x EXCEPT !.end[t] = "dropped"]

\* Mutant: the stopped tones stay in the list.
StopKeepsList(x) == tone_player_free(x, ToSet(x.list))

tone_player_stop(x) == tone_player_free([x EXCEPT !.list = <<>>], ToSet(x.list))

\* __try_play_next_tone: the first n tones of the list cannot be started.
PlayNext(x, n) ==
    LET rest == SubSeq(x.list, n + 1, Len(x.list))
        y == tone_player_free([x EXCEPT !.list = rest], ToSet(SubSeq(x.list, 1, n)))
    IN  IF rest = <<>> THEN y ELSE [y EXCEPT !.stream[Head(rest)] = "run"]

NextPlays(x) ==
    {PlayNext(x, 0)} \cup {PlayNext(y, n) : y \in Struck("no_start", x), n \in 1..Len(x.list)}

(***************************************************************************)
(* tone_player_add, in app_core: the stream is started with g_tone_mutex   *)
(* held ("link"), and only then the tone is put into the list.             *)
(***************************************************************************)

\* app_core has tone t in its hands; shared: g_tws_tone_adding is reset after it.
Hold(x, t, pc, shared) == [x EXCEPT !.pc = pc, !.tone = t, !.shared = shared]

\* Mutant: g_tws_tone_adding is not reset.
AddedStill(x) == Hold(x, NoTone, "idle", FALSE)

\* tone_player_add returns (173, 215).
Added(x) == [Hold(x, NoTone, "idle", FALSE) EXCEPT !.adding = @ /\ ~x.shared]

\* Mutant: list_add for list_add_tail.
LinkedFirst(x, t) == [x EXCEPT !.list = <<t>> \o @]

Linked(x, t) == [x EXCEPT !.list = Append(@, t)]

\* Mutant: the test of list_empty is forgotten.
AddAtOnce(x, t, shared) == {[Hold(x, t, "link", shared) EXCEPT !.stream[t] = "run"]}

tone_player_add(x, t, shared) ==
    LET y == Hold(x, t, "link", shared)
    IN  IF tone_player_runing(x) THEN {Added(Linked(y, t))}
        ELSE {[y EXCEPT !.stream[t] = "run"]}
                 \cup {Added(tone_player_free(z, {t})) : z \in Struck("no_start", y)}

\* After tone_player_stop, which has let go of the mutex (189, 352).
AddStart(b) ==
    /\ ~bud[b].dead /\ bud[b].pc = "add"
    /\ \E y \in tone_player_add(bud[b], bud[b].tone, bud[b].shared) : bud' = [bud EXCEPT ![b] = y]
    /\ UNCHANGED <<ask, air, link, delivery, events>>

\* Mutant: the tone is let go before it is put into the list.
LinkAfterwards(b) ==
    /\ ~bud[b].dead /\ bud[b].pc = "link"
    /\ bud' = [bud EXCEPT ![b] = LET y == Added(@) IN Linked(y, y.tone)]
    /\ UNCHANGED <<ask, air, link, delivery, events>>

AddLink(b) ==
    /\ ~bud[b].dead /\ bud[b].pc = "link"
    /\ bud' = [bud EXCEPT ![b] = Added(Linked(@, @.tone))]
    /\ UNCHANGED <<ask, air, link, delivery, events>>

\* ring_player_start: a bud plays one ring, a second one ends at once.
RingStarts(x, t) ==
    IF x.ring # NoTone THEN {tone_player_free(x, {t})}
    ELSE {[Hold(x, t, "ring", FALSE) EXCEPT !.stream[t] = "run"]}
             \cup {tone_player_free(y, {t}) : y \in Struck("no_start", x)}

\* g_ring_player = player, after jlstream_start.
RingLink(b) ==
    /\ ~bud[b].dead /\ bud[b].pc = "ring"
    /\ bud' = [bud EXCEPT ![b].ring = bud[b].tone, ![b].tone = NoTone, ![b].pc = "idle"]
    /\ UNCHANGED <<ask, air, link, delivery, events>>

(***************************************************************************)
(* Asking for a tone, in app_core.                                         *)
(***************************************************************************)

\* play_tone_file, play_ring_file and their variants: what becomes of x.
PlayedHere(x, t, kind) ==
    {tone_player_free(y, {t}) : y \in Struck("no_file", x)}
        \cup (IF kind # "ring" THEN tone_player_add(x, t, FALSE)
              ELSE IF x.ring # NoTone THEN {Drop(x, t)} ELSE RingStarts(x, t))

\* What the timer keeps of a request (304-318, 379).
Delayed(r) == [kind |-> IF r.kind = "urgent" THEN "alone" ELSE r.kind, more |-> FALSE]

\* __tws_play_tone_file: a tone that finds another one tries again later, with its
\* first file only and without its preemption; a ring does not look.  A message goes
\* to both buds; SetAdding is the rest of the call.
TwsPlayTone(b, x, t, r) ==
    LET busy == r.kind # "ring" /\ (tone_player_runing(x) \/ x.adding)
    IN  \/ /\ busy
           /\ bud' = [bud EXCEPT ![b] = [x EXCEPT !.retry = @ \cup {t}]]
           /\ ask' = [ask EXCEPT ![t] = Delayed(r)]
           /\ UNCHANGED air
        \/ /\ ~busy /\ link
           /\ air' = [c \in Buds |-> [air[c] EXCEPT ![b] = Append(@, t)]]
           /\ bud' = [bud EXCEPT ![b] = [x EXCEPT !.sent = r.kind # "ring",
                                                  !.early = @ /\ r.kind = "ring"]]
           /\ ask' = [ask EXCEPT ![t] = r]
        \/ /\ ~busy /\ ~link
           /\ \E y \in PlayedHere(x, t, r.kind) : bud' = [bud EXCEPT ![b] = y]
           /\ ask' = [ask EXCEPT ![t] = r]
           /\ UNCHANGED air

\* g_tws_tone_adding = 1 (341): an interrupt may have come since the tone was sent.
SetAdding(b) ==
    /\ ~bud[b].dead /\ bud[b].sent
    /\ bud' = [bud EXCEPT ![b].sent = FALSE, ![b].adding = TRUE]
    /\ UNCHANGED <<ask, air, link, delivery, events>>

Request(b, t, kind, more) ==
    LET r == [kind |-> kind, more |-> more]
    IN  /\ Ready(b) /\ (t = 1 => b = First)
        /\ Is(t, {"none"}) /\ \A u \in 1..(t - 1) : ~Is(u, {"none"})
        /\ more => "files" \in Faults /\ Left /\ kind \in {"local", "shared", "alone"}
        /\ events' = IF more THEN events + 1 ELSE events
        /\ \/ kind # "local" /\ TwsPlayTone(b, bud[b], t, r)
           \/ /\ kind = "local"
              /\ \E y \in PlayedHere(bud[b], t, kind) : bud' = [bud EXCEPT ![b] = y]
              /\ ask' = [ask EXCEPT ![t] = r]
              /\ UNCHANGED air
        /\ UNCHANGED <<link, delivery>>

\* tws_play_tone_try_timeout: while the bud is busy it only arms its timer again.
RetryTimeout(b, t) ==
    LET x == bud[b]
    IN  /\ Ready(b) /\ t \in x.retry
        /\ ~tone_player_runing(x) /\ ~x.adding
        /\ TwsPlayTone(b, [x EXCEPT !.retry = @ \ {t}], t, ask[t])
        /\ UNCHANGED <<link, delivery, events>>

(***************************************************************************)
(* The message of a tone, at both buds.                                    *)
(***************************************************************************)

\* A tone that plays alone is queued behind another one, one that mixes waits.
MayAdd(x, t) == ~tone_player_runing(x) \/ Is(t, {"alone"})

\* Where the message leaves the players of the bud.
Played(x, t) ==
    {Drop([y EXCEPT !.adding = FALSE], t) : y \in Struck("no_file", x)}
        \cup (IF Is(t, {"ring"}) THEN RingStarts(x, t)
              ELSE IF Is(t, {"urgent"}) THEN {Hold(x, t, "add", TRUE)}
              ELSE IF MayAdd(x, t) THEN tone_player_add(x, t, TRUE)
              ELSE {[x EXCEPT !.later = @ \cup {t}]})

tws_tone_play_in_task(b, c) ==
    LET x == bud[b]
        t == Head(air[b][c])
    IN  /\ Ready(b) /\ air[b][c] # <<>>
        /\ air' = [air EXCEPT ![b][c] = Tail(@)]
        /\ \E y \in Played(IF Is(t, {"urgent"}) THEN tone_player_stop(x) ELSE x, t) :
               bud' = [bud EXCEPT ![b] = y]
        /\ UNCHANGED <<ask, link, delivery, events>>

\* tws_tone_player_add_timeout; while a tone plays it only arms its timer again.
AddTimeout(b, t) ==
    LET x == bud[b]
    IN  /\ Ready(b) /\ t \in x.later /\ ~tone_player_runing(x)
        /\ \E y \in tone_player_add([x EXCEPT !.later = @ \ {t}], t, TRUE) :
               bud' = [bud EXCEPT ![b] = y]
        /\ UNCHANGED <<ask, air, link, delivery, events>>

\* tws_tone_file_data_in_irq, in an interrupt: no memory, or the queue of app_core is
\* full.  For a tone of the sibling only the lack of memory resets g_tws_tone_adding.
Refuse(b, c) ==
    /\ ~bud[b].dead
    /\ \E i \in 1..Len(air[b][c]), y \in Struck("full", bud[b]),
          a \in IF b = c THEN {FALSE} ELSE {FALSE, bud[b].adding} :
           LET last == b = c /\ y.sent /\ i = Len(air[b][c])
           IN  bud' = [bud EXCEPT ![b] = Drop([y EXCEPT !.adding = a, !.early = @ \/ last],
                                              air[b][c][i])]
               /\ air' = [air EXCEPT ![b][c] = RemoveAt(@, i)]
    /\ UNCHANGED <<ask, link, delivery, events>>

(***************************************************************************)
(* The callbacks of the streams.                                           *)
(***************************************************************************)

\* Both callbacks look before they take their mutex: at list_empty(&g_head), and at
\* g_ring_player.  A stream that finds nothing there is not looked after.
Looked(x, t) == IF Is(t, {"ring"}) THEN x.ring = t ELSE tone_player_runing(x)

\* The stream ends: all read, preempted, or no format in common.
StreamEnd(b, t) ==
    /\ ~bud[b].dead /\ bud[b].stream[t] = "run"
    /\ LET x == [bud[b] EXCEPT !.stream[t] = "over",
                                !.seen = IF delivery = "any" /\ ~Looked(bud[b], t) THEN @
                                         ELSE @ \cup {t}]
       IN  \E y \in {x} \cup {[z EXCEPT !.failed = @ \cup {t}] : z \in Struck("failed", x)} :
              bud' = [bud EXCEPT ![b] = y]
    /\ UNCHANGED <<ask, air, link, delivery, events>>

\* The callback goes on.  In another task than app_core it waits for the mutex, and
\* what it has looked at may be gone.
Runs(b) == IF delivery = "app_core" THEN Ready(b) ELSE ~bud[b].dead /\ bud[b].pc # "link"
Gone(x) == {x} \cup IF delivery = "any" THEN {[x EXCEPT !.dead = TRUE]} ELSE {}

\* tone_player_callback: the next file of the tone, or the next tone.
tone_player_callback(b, t) ==
    LET x == [bud[b] EXCEPT !.seen = @ \ {t}, !.failed = @ \ {t}]
        mine == tone_player_runing(x) /\ Head(x.list) = t
    IN  /\ Runs(b) /\ t \in bud[b].seen /\ ~Is(t, {"ring"})
        /\ \/ /\ ~tone_player_runing(x)
              /\ \E y \in Gone(x) : bud' = [bud EXCEPT ![b] = y]
           \/ /\ tone_player_runing(x) /\ ~mine
              /\ bud' = [bud EXCEPT ![b] = x]
           \/ /\ mine /\ ask[t].more /\ t \notin bud[b].failed \cup x.second
              /\ bud' = [bud EXCEPT ![b] = [x EXCEPT !.second = @ \cup {t}, !.stream[t] = "run"]]
           \/ /\ mine
              /\ \E y \in NextPlays([x EXCEPT !.list = Tail(@)]) :
                     bud' = [bud EXCEPT ![b] = tone_player_free(y, {t})]
        /\ UNCHANGED <<ask, air, link, delivery, events>>

\* ring_player_callback: with the player it read, which ring_player_stop may have freed.
ring_player_callback(b, t) ==
    LET x == [bud[b] EXCEPT !.seen = @ \ {t}]
    IN  /\ Runs(b) /\ t \in bud[b].seen /\ Is(t, {"ring"})
        /\ \/ /\ x.ring = t
              /\ bud' = [bud EXCEPT ![b] = tone_player_free([x EXCEPT !.ring = NoTone], {t})]
           \/ /\ x.ring # t
              /\ \E y \in Gone(x) : bud' = [bud EXCEPT ![b] = y]
        /\ UNCHANGED <<ask, air, link, delivery, events>>

(***************************************************************************)
(* From outside: calls, modes and the power-off stop the players, and the  *)
(* TWS link comes and goes.                                                *)
(***************************************************************************)

ring_player_stop(x) ==
    IF x.ring = NoTone THEN x ELSE tone_player_free([x EXCEPT !.ring = NoTone], {x.ring})

Stop(b) ==
    /\ "stop" \in Faults /\ Left /\ Ready(b)
    /\ \/ tone_player_runing(bud[b]) /\ bud' = [bud EXCEPT ![b] = tone_player_stop(@)]
       \/ bud[b].ring # NoTone /\ bud' = [bud EXCEPT ![b] = ring_player_stop(@)]
    /\ events' = events + 1
    /\ UNCHANGED <<ask, air, link, delivery>>

LinkLost ==
    /\ "link" \in Faults /\ Left /\ link
    /\ link' = FALSE
    /\ air' = [b \in Buds |-> [c \in Buds |-> IF c = b THEN air[b][c] ELSE <<>>]]
    /\ bud' = [b \in Buds |->
                  [bud[b] EXCEPT !.end = [t \in Tones |->
                      IF \E c \in Others(b) : t \in ToSet(air[b][c]) THEN "dropped" ELSE @[t]]]]
    /\ events' = events + 1
    /\ UNCHANGED <<ask, delivery>>

LinkUp ==
    /\ ~link /\ Cardinality(Buds) = 2
    /\ link' = TRUE
    /\ UNCHANGED <<bud, ask, air, delivery, events>>

Init ==
    /\ bud = [b \in Buds |->
                 [list |-> <<>>, pc |-> "idle", tone |-> NoTone, shared |-> FALSE,
                  stream |-> [t \in Tones |-> "none"], seen |-> {}, failed |-> {}, second |-> {},
                  later |-> {}, retry |-> {}, adding |-> FALSE, sent |-> FALSE,
                  early |-> FALSE, ring |-> NoTone,
                  end |-> [t \in Tones |-> "no"], struck |-> FALSE, dead |-> FALSE]]
    /\ ask = [t \in Tones |-> [kind |-> "none", more |-> FALSE]]
    /\ air = [b \in Buds |-> [c \in Buds |-> <<>>]]
    /\ link = (Cardinality(Buds) = 2)
    /\ delivery \in {"app_core", "any"}
    /\ events = 0

AppCore(b) ==
    \/ AddStart(b) \/ AddLink(b) \/ RingLink(b) \/ SetAdding(b)
    \/ \E t \in Tones : RetryTimeout(b, t) \/ AddTimeout(b, t)
    \/ \E c \in Buds : tws_tone_play_in_task(b, c)

Streams(b) == \E t \in Tones : tone_player_callback(b, t) \/ ring_player_callback(b, t)

World ==
    \/ \E b \in Buds, t \in Tones, k \in Kinds, m \in BOOLEAN : Request(b, t, k, m)
    \/ \E b \in Buds, t \in Tones : StreamEnd(b, t)
    \/ \E b, c \in Buds : Refuse(b, c)
    \/ \E b \in Buds : Stop(b)
    \/ LinkLost \/ LinkUp

Next == (\E b \in Buds : AppCore(b) \/ Streams(b)) \/ World

\* app_core goes on while it has a message, a timer or a tone in hand, a callback is
\* handled, and a tone (not a ring, which repeats its file) comes to its end.  Nobody
\* has to ask, to stop or to link up.
Fairness ==
    \A b \in Buds :
        /\ WF_vars(AppCore(b))
        /\ WF_vars(Streams(b))
        /\ WF_vars(\E t \in Tones : ~Is(t, {"ring"}) /\ StreamEnd(b, t))

Spec == Init /\ [][Next]_vars /\ Fairness

(***************************************************************************)
(* Properties.                                                             *)
(***************************************************************************)

\* g_tws_tone_adding was set for a tone whose message was refused before: line 341 took
\* back the reset of line 269, and only a message of the sibling can reset it again.
Jammed(x) == x.adding /\ x.early

\* The player waits for the end of a stream that has reported it.
Unheard(x, t) == x.stream[t] = "over" /\ t \notin x.seen
Stalled(x, t) ==
    \/ Jammed(x) /\ t \in x.retry
    \/ IF Is(t, {"ring"}) THEN x.ring = t /\ Unheard(x, t)
       ELSE tone_player_runing(x) /\ Unheard(x, Head(x.list))

\* Tone t waits at bud b: as a message, on a timer, in app_core or in the list.
Held(b, t) ==
    \/ \E c \in Buds : t \in ToSet(air[b][c])
    \/ t \in bud[b].later \cup bud[b].retry \cup ToSet(bud[b].list)
    \/ t \in {bud[b].tone, bud[b].ring}

Fate(b, t) ==
    LET x == bud[b]
    IN  CASE x.end[t] \in {"once", "twice"} -> "ended"
          [] x.end[t] = "dropped" -> "lost"
          [] x.end[t] = "no" /\ ~Held(b, t) -> "idle"
          [] OTHER -> IF x.dead THEN "lost"
                      ELSE IF Stalled(x, t) THEN "stuck"
                      ELSE IF x.stream[t] # "none" THEN "playing" ELSE "asked"

Tone == INSTANCE ToneLife WITH
    life <- [b \in Buds |-> [t \in Tones |-> Fate(b, t)]],
    rings <- {t \in Tones : Is(t, {"ring"})}

\* The players implement ToneLife: one prompt and one ring at a time, no tone plays
\* again after its end, and every tone that is asked for is played and ends, whichever
\* bud asks, while tones meet, links break, files fail and players are stopped.  Tones
\* that wait for a jammed flag are "stuck".
PlaysOut == Tone!Spec

\* The STOP callback of a tone, which frees a shared one (154), is called once.
OneStop == \A b \in Buds, t \in Tones : bud[b].end[t] # "twice"

\* g_tws_tone_adding makes every shared tone wait, so a bud has it set only while a
\* tone that resets it is still to come: its message, its timer, or tone_player_add.
\* Excepted is the one order in which the code breaks this: see Jammed.
AddingHasReason ==
    \A b \in Buds : bud[b].adding /\ ~bud[b].early /\ ~bud[b].dead =>
        \/ \E t \in ToSet(air[b][b]) : ~Is(t, {"ring"})
        \/ bud[b].later # {} \/ bud[b].shared

Attended(x, t) == x.stream[t] = "run" \/ t \in x.seen

\* While callbacks run in app_core none is missed and none meets a freed player: the
\* first tone of the list, and the ring, play or have their callback to come.
HeadPlays ==
    delivery = "app_core" =>
        \A b \in Buds : LET x == bud[b] IN
            /\ ~x.dead
            /\ tone_player_runing(x) => Attended(x, Head(x.list))
            /\ x.ring # NoTone => Attended(x, x.ring)
=============================================================================
