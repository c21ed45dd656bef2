------------------------------ MODULE ToneLife ------------------------------
(***************************************************************************)
(* What the tone players promise, without their list, timers, streams and  *)
(* messages: a tone that is asked for on a bud is played, or it is given   *)
(* up with its fault, and it ends once; one prompt sounds at a time, and   *)
(* one ring.  "stuck" promises nothing: the player has missed an event.    *)
(***************************************************************************)
CONSTANTS Buds, Tones

VARIABLES life,  \* life[b][t]: what has become of tone t on bud b
          rings  \* the tones that are rings

Life == {"idle", "asked", "playing", "ended", "lost", "stuck"}

TypeOK == life \in [Buds -> [Tones -> Life]] /\ rings \subseteq Tones

Init == life = [b \in Buds |-> [t \in Tones |-> "idle"]] /\ rings = {}

\* Nothing leaves "ended" and "lost", and nothing that plays waits again.
Moves ==
    {<<"idle", "asked">>, <<"idle", "playing">>, <<"asked", "playing">>, <<"stuck", "asked">>}
        \cup ({"idle", "asked", "playing", "stuck"} \X {"ended", "lost"})
        \cup ({"idle", "asked", "playing"} \X {"stuck"})

Moved(b) == {t \in Tones : life[b][t] # life'[b][t]}

\* A step of one bud; its sibling gets at most one tone from it, to play too.
Step ==
    \E b \in Buds :
        /\ \A t \in Moved(b) : <<life[b][t], life'[b][t]>> \in Moves
        /\ \E u \in Tones : \A c \in Buds \ {b} : \A t \in Moved(c) :
               t = u /\ life[c][t] = "idle" /\ life'[c][t] \in {"asked", "stuck", "lost"}

\* What was under way to a bud is lost with the link.
Cut == \A b \in Buds : \A t \in Moved(b) :
           life[b][t] \in {"asked", "stuck"} /\ life'[b][t] = "lost"

OneAtATime ==
    \A b \in Buds, t, u \in Tones :
        life[b][t] = "playing" /\ life[b][u] = "playing" /\ (t \in rings <=> u \in rings)
            => t = u

Next == (Step \/ Cut) /\ rings \subseteq rings' /\ OneAtATime'

\* A prompt comes to its end; a ring may go on until it is stopped.
Settled ==
    \A b \in Buds, t \in Tones :
        life[b][t] # "asked" /\ (life[b][t] = "playing" => t \in rings)

Safe == Init /\ [][Next]_<<life, rings>>

Spec == Safe /\ []<>Settled
=============================================================================
