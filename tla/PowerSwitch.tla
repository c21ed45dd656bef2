----------------------------- MODULE PowerSwitch -----------------------------
(***************************************************************************)
(* What the power-off of an earbud promises, without its timers, tones,    *)
(* messages and links: a bud that was asked to go off goes off, and only a *)
(* bud that was asked does.  A bud that boots in its charger waits there   *)
(* and is switched on by taking it out.  "lost" promises nothing.          *)
(***************************************************************************)
CONSTANT Buds

VARIABLE power  \* power[b]

Power == {"on", "charging", "leaving", "gone", "lost"}

TypeOK == power \in [Buds -> Power]

Init == power \in [Buds -> {"on", "charging"}]

Go(b, from, to) == power[b] \in from /\ power' = [power EXCEPT ![b] = to]

\* The user, an empty battery, the charger or three minutes without a phone.
Ask(b) == Go(b, {"on"}, "leaving")

\* Off, or through a reset.
Finish(b) == Go(b, {"leaving"}, "gone")

\* Out of the charger: on again, or off at once when the battery is empty.
Recall(b) == Go(b, {"leaving"}, "charging")
SwitchOn(b) == Go(b, {"charging"}, "on")
Empty(b) == Go(b, {"charging"}, "gone")

Lose(b) == Go(b, {"on", "charging", "leaving"}, "lost")

Next == \E b \in Buds : Ask(b) \/ Finish(b) \/ Recall(b) \/ SwitchOn(b) \/ Empty(b) \/ Lose(b)

\* Nobody stays half way.
Leave(b) == power[b] = "leaving" /\ (Finish(b) \/ Recall(b) \/ Lose(b))

\* What may happen, and that it does.
Safe == Init /\ [][Next]_power
Spec == Safe /\ \A b \in Buds : WF_power(Leave(b))
=============================================================================
