-------------------------- MODULE TwsToneOnceProof --------------------------
(***************************************************************************)
(* Proofs about TwsTone, for one or two buds and any number of tones: a    *)
(* tone is in one place of a bud at a time, so its STOP callback comes     *)
(* once; while callbacks run in app_core, the player never waits for a     *)
(* stream that has nothing more to report; and TwsTone implements the      *)
(* safety half of ToneLife.                                                *)
(***************************************************************************)
EXTENDS TwsToneProof

(***************************************************************************)
(* Where the tones of a bud are: in the list, on one of the two timers, in *)
(* the hands of app_core, or the ring.                                     *)
(***************************************************************************)
Hand(x) == IF x.pc = "idle" THEN {} ELSE {x.tone}
Ring(x) == {x.ring} \ {NoTone}
Own(x) == ToSet(x.list) \cup x.later \cup x.retry \cup Hand(x) \cup Ring(x)

\* Each is in one of them, once, and has not ended.
Apart(x) ==
    /\ IsInjective(x.list)
    /\ ToSet(x.list) \cap (x.later \cup x.retry \cup Hand(x) \cup Ring(x)) = {}
    /\ x.later \cap (x.retry \cup Hand(x) \cup Ring(x)) = {}
    /\ x.retry \cap (Hand(x) \cup Ring(x)) = {}
    /\ Hand(x) \cap Ring(x) = {}
    /\ \A t \in Own(x) : x.end[t] = "no"
    /\ \A t \in Tones : x.end[t] # "twice"

\* The tones in R go to the ring player and the others to the tone player.
Sorted(x, R) ==
    /\ (ToSet(x.list) \cup x.later) \cap R = {}
    /\ x.pc \in {"add", "link"} => x.tone \notin R
    /\ x.pc = "ring" => x.tone \in R
    /\ Ring(x) \subseteq R

Fit(x, R) == Sound(x) /\ Apart(x) /\ Sorted(x, R)

\* What plays, or is about to be put where it is listened to, will be heard of.
RestHeard(x) ==
    /\ ~x.dead
    /\ x.ring # NoTone => Attended(x, x.ring)
    /\ x.pc \in {"link", "ring"} => Attended(x, x.tone)
HeadHeard(x) == x.list # <<>> => Attended(x, Head(x.list))
Heard(x) == RestHeard(x) /\ HeadHeard(x)

\* y is x after a step that gave it at most the tones of T.
Steps(x, y, T, R) ==
    /\ Fit(y, R)
    /\ Own(y) \subseteq Own(x) \cup T
    /\ \A t \in Tones : t \notin Own(x) \cup T => y.end[t] = x.end[t]
    /\ Heard(x) => Heard(y)

(***************************************************************************)
(* Sequences without repetition.                                           *)
(***************************************************************************)

LEMMA InjAppend ==
    ASSUME NEW s \in Seq(Tones), NEW e \in Tones, IsInjective(s), e \notin ToSet(s)
    PROVE  IsInjective(Append(s, e))
<1>1. /\ DOMAIN Append(s, e) = 1..(Len(s) + 1) /\ DOMAIN s = 1..Len(s)
      /\ \A i \in 1..Len(s) : Append(s, e)[i] = s[i]
      /\ Append(s, e)[Len(s) + 1] = e /\ Len(s) \in Nat
  BY AppendProperties, LenProperties
<1>2. \A i \in 1..Len(s) : s[i] # e
  BY <1>1 DEF ToSet
<1>3. \A i, j \in 1..Len(s) : s[i] = s[j] => i = j
  BY <1>1 DEF IsInjective
<1>4. \A i \in 1..(Len(s) + 1) : i \in 1..Len(s) \/ i = Len(s) + 1
  BY <1>1
<1>5. QED
  BY <1>1, <1>2, <1>3, <1>4 DEF IsInjective

LEMMA InjEmpty == IsInjective(<<>>)
BY DEF IsInjective

\* A list cut after n tones.
LEMMA InjCut ==
    ASSUME NEW s \in Seq(Tones), NEW n \in Nat, n <= Len(s), IsInjective(s)
    PROVE  LET p == SubSeq(s, 1, n)
               r == SubSeq(s, n + 1, Len(s))
           IN  /\ r \in Seq(Tones) /\ IsInjective(r)
               /\ ToSet(p) \cap ToSet(r) = {}
               /\ ToSet(p) \cup ToSet(r) = ToSet(s)
               /\ r # <<>> => Head(r) \in ToSet(r)
<1> DEFINE p == SubSeq(s, 1, n)
           r == SubSeq(s, n + 1, Len(s))
           m == Len(s)
<1>1. m \in Nat /\ DOMAIN s = 1..m /\ \A i \in 1..m : s[i] \in Tones
  BY LenProperties, ElementOfSeq
<1>2. /\ p \in Seq(Tones) /\ Len(p) = n /\ \A i \in 1..n : p[i] = s[i]
  <2>1. \A i \in 1..n : s[i] \in Tones
    BY <1>1
  <2>2. Len(p) = IF 1 <= n THEN n - 1 + 1 ELSE 0
    BY <2>1, <1>1, SubSeqProperties
  <2>3. p \in Seq(Tones) /\ \A i \in 1..(n - 1 + 1) : p[i] = s[1 + i - 1]
    BY <2>1, <1>1, SubSeqProperties
  <2>4. \A i \in 1..n : i \in 1..(n - 1 + 1) /\ 1 + i - 1 = i
    OBVIOUS
  <2> HIDE DEF p
  <2>5. Len(p) = n
    BY <2>2
  <2>6. \A i \in 1..n : p[i] = s[i]
    BY <2>3, <2>4
  <2>7. QED
    BY <2>3, <2>5, <2>6
<1>3. /\ r \in Seq(Tones) /\ Len(r) = m - n /\ \A i \in 1..(m - n) : r[i] = s[n + i]
  <2>1. \A i \in (n + 1)..m : s[i] \in Tones
    BY <1>1
  <2>2. Len(r) = IF n + 1 <= m THEN m - (n + 1) + 1 ELSE 0
    BY <2>1, <1>1, SubSeqProperties
  <2>3. r \in Seq(Tones) /\ \A i \in 1..(m - (n + 1) + 1) : r[i] = s[(n + 1) + i - 1]
    BY <2>1, <1>1, SubSeqProperties
  <2>4. \A i \in 1..(m - n) : i \in 1..(m - (n + 1) + 1) /\ (n + 1) + i - 1 = n + i
    BY <1>1
  <2> HIDE DEF r
  <2>5. Len(r) = m - n
    <3>1. m \in Nat /\ n \in Nat /\ n <= m
      BY <1>1
    <3> HIDE DEF m
    <3>2. QED
      BY <2>2, <3>1
  <2>6. \A i \in 1..(m - n) : r[i] = s[n + i]
    BY <2>3, <2>4
  <2>7. QED
    BY <2>3, <2>5, <2>6
<1> HIDE DEF p, r
<1>4. DOMAIN p = 1..n /\ DOMAIN r = 1..(m - n)
  BY <1>2, <1>3, LenProperties
<1>5. \A i, j \in 1..m : s[i] = s[j] => i = j
  BY <1>1 DEF IsInjective
<1>6. \A i \in 1..(m - n) : n + i \in 1..m /\ ~(n + i <= n)
  BY <1>1
<1>7. \A i \in 1..n : i \in 1..m /\ i <= n
  BY <1>1
<1>8. IsInjective(r)
  <2> SUFFICES ASSUME NEW i \in 1..(m - n), NEW j \in 1..(m - n), r[i] = r[j] PROVE i = j
    BY <1>4 DEF IsInjective
  <2>1. n + i = n + j
    BY <1>3, <1>5, <1>6
  <2>2. QED
    BY <2>1
<1>9. \A i \in 1..n, j \in 1..(m - n) : p[i] # r[j]
  <2> TAKE i \in 1..n, j \in 1..(m - n)
  <2>1. p[i] = s[i] /\ r[j] = s[n + j]
    BY <1>2, <1>3
  <2>2. i # n + j
    BY <1>6, <1>7
  <2>3. QED
    BY <2>1, <2>2, <1>5, <1>6, <1>7
<1>10. ToSet(p) \cap ToSet(r) = {}
  BY <1>4, <1>9 DEF ToSet
<1>11. ToSet(p) \subseteq ToSet(s) /\ ToSet(r) \subseteq ToSet(s)
  BY <1>1, <1>2, <1>3, <1>4, <1>6, <1>7 DEF ToSet
<1>12. ToSet(s) \subseteq ToSet(p) \cup ToSet(r)
  <2> SUFFICES ASSUME NEW i \in 1..m PROVE s[i] \in ToSet(p) \cup ToSet(r)
    BY <1>1 DEF ToSet
  <2>1. CASE i <= n
    <3>1. i \in 1..n /\ p[i] = s[i]
      BY <2>1, <1>2
    <3>2. QED
      BY <3>1, <1>4 DEF ToSet
  <2>2. CASE ~(i <= n)
    <3>1. i - n \in 1..(m - n) /\ n + (i - n) = i
      BY <2>2, <1>1
    <3>2. r[i - n] = s[i]
      BY <3>1, <1>3
    <3>3. QED
      BY <3>1, <3>2, <1>4 DEF ToSet
  <2>3. QED
    BY <2>1, <2>2
<1>13. r # <<>> => Head(r) \in ToSet(r)
  BY <1>3, SetTail
<1>14. QED
  BY <1>3, <1>8, <1>10, <1>11, <1>12, <1>13 DEF p, r

LEMMA InjTail ==
    ASSUME NEW s \in Seq(Tones), s # <<>>, IsInjective(s)
    PROVE  /\ Head(s) \in Tones /\ Tail(s) \in Seq(Tones) /\ IsInjective(Tail(s))
           /\ Head(s) \notin ToSet(Tail(s)) /\ ToSet(s) = {Head(s)} \cup ToSet(Tail(s))
<1>1. /\ Head(s) \in Tones /\ Tail(s) \in Seq(Tones) /\ Len(s) \in Nat /\ Len(s) # 0
      /\ Head(s) = s[1] /\ Len(Tail(s)) = Len(s) - 1
      /\ DOMAIN s = 1..Len(s) /\ DOMAIN Tail(s) = 1..(Len(s) - 1)
      /\ \A i \in 1..(Len(s) - 1) : Tail(s)[i] = s[i + 1]
  BY HeadTailProperties, LenProperties, EmptySeq
<1>2. \A i \in 1..(Len(s) - 1) : i + 1 \in 1..Len(s) /\ i + 1 # 1
  BY <1>1
<1>3. \A i, j \in 1..Len(s) : s[i] = s[j] => i = j
  BY <1>1 DEF IsInjective
<1>4. IsInjective(Tail(s))
  <2> SUFFICES ASSUME NEW i \in 1..(Len(s) - 1), NEW j \in 1..(Len(s) - 1),
                      Tail(s)[i] = Tail(s)[j]
               PROVE  i = j
    BY <1>1 DEF IsInjective
  <2>1. i + 1 = j + 1
    BY <1>1, <1>2, <1>3
  <2>2. QED
    BY <2>1, <1>1
<1>5. 1 \in 1..Len(s)
  BY <1>1
<1>6. Head(s) \notin ToSet(Tail(s))
  BY <1>1, <1>2, <1>3, <1>5 DEF ToSet
<1>7. QED
  BY <1>1, <1>4, <1>6, SetTail

LEMMA InjRemove ==
    ASSUME NEW s \in Seq(Tones), IsInjective(s), NEW i \in 1..Len(s)
    PROVE  IsInjective(RemoveAt(s, i)) /\ s[i] \notin ToSet(RemoveAt(s, i))
<1> DEFINE n == Len(s)
           q == RemoveAt(s, i)
           at(j) == IF j <= i - 1 THEN j ELSE j + 1
<1>1. n \in Nat /\ i \in Nat /\ 1 <= i /\ i <= n /\ DOMAIN s = 1..n
  BY LenProperties
<1>2. /\ DOMAIN q = 1..(n - 1)
      /\ \A j \in 1..(n - 1) : q[j] = IF j <= i - 1 THEN s[j] ELSE s[j + 1]
  BY Removed
<1>3. \A j \in 1..n, k \in 1..n : s[j] = s[k] => j = k
  BY <1>1 DEF IsInjective
<1> HIDE DEF q, n
<1>4. \A j \in 1..(n - 1) : at(j) \in 1..n /\ at(j) # i
  BY <1>1
<1>5. \A j \in 1..(n - 1) : q[j] = s[at(j)]
  BY <1>2
<1>6. \A j, k \in 1..(n - 1) : at(j) = at(k) => j = k
  BY <1>1
<1> HIDE DEF at
<1>7. \A j, k \in 1..(n - 1) : q[j] = q[k] => j = k
  <2> TAKE j, k \in 1..(n - 1)
  <2> HAVE q[j] = q[k]
  <2>1. at(j) = at(k)
    BY <1>3, <1>4, <1>5
  <2>2. QED
    BY <2>1, <1>6
<1>8. IsInjective(q)
  BY <1>2, <1>7 DEF IsInjective
<1>9. i \in 1..n
  BY <1>1
<1>10. \A j \in 1..(n - 1) : q[j] # s[i]
  BY <1>3, <1>4, <1>5, <1>9
<1>11. s[i] \notin ToSet(q)
  BY <1>2, <1>10 DEF ToSet
<1>12. QED
  BY <1>8, <1>11 DEF q

(***************************************************************************)
(* The operators on a bud.                                                 *)
(***************************************************************************)

LEMMA StepsTrans ==
    ASSUME NEW x, NEW y, NEW z, NEW S, NEW T, NEW R, T \subseteq S,
           Steps(x, y, S, R), Steps(y, z, T, R)
    PROVE  Steps(x, z, S, R)
<1>1. Own(z) \subseteq Own(x) \cup S
  BY DEF Steps
<1>2. \A t \in Tones : t \notin Own(x) \cup S => z.end[t] = x.end[t]
  BY DEF Steps
<1>3. QED
  BY <1>1, <1>2 DEF Steps

LEMMA StepsMore ==
    ASSUME NEW x, NEW y, NEW S, NEW T, NEW R, T \subseteq S, Steps(x, y, T, R)
    PROVE  Steps(x, y, S, R)
BY DEF Steps

LEMMA StepsSelf == ASSUME NEW x, NEW R, Fit(x, R) PROVE Steps(x, x, {}, R)
BY DEF Steps

\* What a bud is made of, and its places are tones.
LEMMA FitTypes ==
    ASSUME NEW x, NEW R, Fit(x, R)
    PROVE  /\ x.list \in Seq(Tones) /\ ToSet(x.list) \subseteq Tones
           /\ x.later \subseteq Tones /\ x.retry \subseteq Tones
           /\ Hand(x) \subseteq Tones /\ Ring(x) \subseteq Tones
           /\ Own(x) \subseteq Tones
<1>1. x.list \in Seq(Tones) /\ x.later \subseteq Tones /\ x.retry \subseteq Tones
      /\ (x.pc # "idle" => x.tone \in Tones) /\ x.ring \in Tones \cup {NoTone}
  BY DEF Fit, Sound, Bud
<1>2. ToSet(x.list) \subseteq Tones
  <2>1. \A i \in DOMAIN x.list : x.list[i] \in Tones
    BY <1>1, LenProperties, ElementOfSeq
  <2>2. QED
    BY <2>1 DEF ToSet
<1>3. QED
  BY <1>1, <1>2 DEF Hand, Ring, Own

\* y has the tones of x where x has them.
Same(x, y) ==
    /\ y.list = x.list /\ y.later = x.later /\ y.retry = x.retry
    /\ y.pc = x.pc /\ y.tone = x.tone /\ y.ring = x.ring

LEMMA SameOwn ==
    ASSUME NEW x, NEW y, Same(x, y)
    PROVE  /\ Hand(y) = Hand(x) /\ Ring(y) = Ring(x) /\ Own(y) = Own(x)
BY DEF Same, Hand, Ring, Own

\* The callbacks of tones that are nowhere, or a change of what is not looked at.
LEMMA SameSteps ==
    ASSUME NEW x, NEW R, Fit(x, R), NEW y, Sound(y), Same(x, y), NEW S,
           S \cap Own(x) = {},
           \A t \in Tones : t \notin S => y.end[t] = x.end[t],
           \A t \in S \cap Tones : y.end[t] # "twice",
           \A t \in Own(x) : Attended(x, t) => Attended(y, t),
           ~x.dead => ~y.dead
    PROVE  Steps(x, y, S, R)
<1>1. Hand(y) = Hand(x) /\ Ring(y) = Ring(x) /\ Own(y) = Own(x)
  BY SameOwn
<1>2. Own(x) \subseteq Tones /\ x.list \in Seq(Tones)
  BY FitTypes
<1>3. Apart(y)
  BY <1>1, <1>2 DEF Fit, Apart, Same
<1>4. Sorted(y, R)
  BY <1>1 DEF Fit, Sorted, Same
<1>5. Heard(x) => Heard(y)
  <2>1. x.ring # NoTone => x.ring \in Own(x)
    BY DEF Own, Ring
  <2>2. x.pc \in {"link", "ring"} => x.tone \in Own(x)
    BY DEF Own, Hand
  <2>3. x.list # <<>> => Head(x.list) \in Own(x)
    BY <1>2, SetTail DEF Own
  <2>4. QED
    BY <2>1, <2>2, <2>3 DEF Heard, RestHeard, HeadHeard, Same
<1>6. QED
  BY <1>1, <1>3, <1>4, <1>5 DEF Fit, Steps

LEMMA FreeFields ==
    ASSUME NEW x, Sound(x), NEW S
    PROVE  LET y == tone_player_free(x, S)
           IN  /\ Same(x, y) /\ y.seen = x.seen /\ y.dead = x.dead
               /\ \A t \in Tones : /\ t \notin S => y.end[t] = x.end[t]
                                   /\ x.end[t] = "no" /\ t \in S => y.end[t] = "once"
                                   /\ y.stream[t] = IF t \in S THEN "none" ELSE x.stream[t]
BY DEF tone_player_free, Sound, Bud, Same

LEMMA FreeSteps ==
    ASSUME NEW x, NEW R, Fit(x, R), NEW S, S \cap Own(x) = {},
           \A t \in S \cap Tones : x.end[t] = "no"
    PROVE  Steps(x, tone_player_free(x, S), S, R)
<1> DEFINE y == tone_player_free(x, S)
<1>1. Sound(x) /\ Sound(y) /\ Own(x) \subseteq Tones
  BY AlikeFree, FitTypes DEF Alike, Fit
<1>2. /\ Same(x, y) /\ y.seen = x.seen /\ y.dead = x.dead
      /\ \A t \in Tones : /\ t \notin S => y.end[t] = x.end[t]
                          /\ x.end[t] = "no" /\ t \in S => y.end[t] = "once"
                          /\ y.stream[t] = IF t \in S THEN "none" ELSE x.stream[t]
  BY <1>1, FreeFields
<1> HIDE DEF y
<1>3. \A t \in Own(x) : Attended(x, t) => Attended(y, t)
  BY <1>1, <1>2 DEF Attended
<1>4. QED
  BY <1>1, <1>2, <1>3, SameSteps DEF y

LEMMA StruckFields ==
    ASSUME NEW x, Sound(x), NEW f, NEW y \in Struck(f, x)
    PROVE  /\ Sound(y) /\ Same(x, y) /\ y.seen = x.seen /\ y.dead = x.dead
           /\ y.end = x.end /\ y.stream = x.stream /\ y.failed = x.failed
           /\ y.second = x.second /\ y.shared = x.shared /\ y.adding = x.adding
<1>1. y = [x EXCEPT !.struck = TRUE]
  BY DEF Struck
<1>2. QED
  BY <1>1, AlikeStruck DEF Alike, Same, Sound, Bud

LEMMA StruckSteps ==
    ASSUME NEW x, NEW R, Fit(x, R), NEW f, NEW y \in Struck(f, x)
    PROVE  Steps(x, y, {}, R) /\ Own(y) = Own(x) /\ y.end = x.end
<1>1. /\ Sound(y) /\ Same(x, y) /\ y.seen = x.seen /\ y.dead = x.dead
      /\ y.end = x.end /\ y.stream = x.stream
  BY StruckFields DEF Fit
<1>2. QED
  BY <1>1, SameSteps, SameOwn DEF Attended

LEMMA DropSteps ==
    ASSUME NEW x, NEW R, Fit(x, R), NEW t \in Tones, t \notin Own(x)
    PROVE  Steps(x, Drop(x, t), {t}, R)
<1> DEFINE y == Drop(x, t)
<1>1. Sound(x) /\ Sound(y) /\ Own(x) \subseteq Tones
  BY AlikeDrop, FitTypes DEF Alike, Fit
<1>2. /\ Same(x, y) /\ y.seen = x.seen /\ y.dead = x.dead /\ y.stream = x.stream
      /\ y.end[t] = "dropped" /\ \A u \in Tones : u # t => y.end[u] = x.end[u]
  BY <1>1 DEF Drop, Sound, Bud, Same
<1> HIDE DEF y
<1>3. QED
  BY <1>1, <1>2, SameSteps DEF y, Attended

(***************************************************************************)
(* Adding a tone.                                                          *)
(***************************************************************************)

\* app_core may take t in its hands, or has it there already.
Spare(x, t) ==
    /\ t \notin ToSet(x.list) \cup x.later \cup x.retry \cup Ring(x)
    /\ Hand(x) \subseteq {t}
    /\ x.end[t] = "no"

LEMMA SpareNew ==
    ASSUME NEW x, NEW t, x.pc = "idle", t \notin Own(x), x.end[t] = "no" PROVE Spare(x, t)
BY DEF Spare, Own, Hand

LEMMA SpareHeld ==
    ASSUME NEW x, NEW R, Fit(x, R), x.pc # "idle" PROVE Spare(x, x.tone)
BY DEF Spare, Own, Hand, Fit, Apart

\* The timers and the ring are left alone, and of the streams all but that of t.
Beside(x, y, t) ==
    /\ y.later = x.later /\ y.retry = x.retry /\ y.ring = x.ring
    /\ y.dead = x.dead /\ y.seen = x.seen
    /\ \A u \in Tones \ {t} : y.stream[u] = x.stream[u] /\ y.end[u] = x.end[u]

LEMMA IntoList ==
    ASSUME NEW x, NEW R, Fit(x, R), NEW t \in Tones, Spare(x, t), t \notin R,
           NEW y, Sound(y), Beside(x, y, t), y.list = Append(x.list, t), y.pc = "idle",
           y.end[t] = x.end[t], y.stream[t] = x.stream[t],
           x.list # <<>> \/ (Heard(x) => Attended(x, t))
    PROVE  Steps(x, y, {t}, R)
<1>1. x.list \in Seq(Tones) /\ ToSet(x.list) \subseteq Tones /\ Own(x) \subseteq Tones
  BY FitTypes
<1>2. IsInjective(y.list) /\ ToSet(y.list) = ToSet(x.list) \cup {t}
  BY <1>1, InjAppend, SetAppend DEF Fit, Apart, Spare
<1>3. Hand(y) = {} /\ Ring(y) = Ring(x)
  BY DEF Hand, Ring, Beside
<1>4. Own(y) = ToSet(x.list) \cup {t} \cup x.later \cup x.retry \cup Ring(x)
  BY <1>2, <1>3 DEF Own, Beside
<1>5. \A u \in Tones : y.end[u] = x.end[u]
  BY DEF Beside
<1>6. Apart(y)
  <2>1. \A u \in Own(y) : y.end[u] = "no"
    BY <1>1, <1>4, <1>5 DEF Spare, Fit, Apart, Own
  <2>2. \A u \in Tones : y.end[u] # "twice"
    BY <1>5 DEF Fit, Apart
  <2>3. QED
    BY <1>2, <1>3, <2>1, <2>2 DEF Spare, Fit, Apart, Beside
<1>7. Sorted(y, R)
  BY <1>2, <1>3 DEF Fit, Sorted, Beside
<1>8. Own(y) \subseteq Own(x) \cup {t}
  BY <1>4 DEF Own
<1>9. \A u \in Tones : Attended(x, u) => Attended(y, u)
  BY DEF Attended, Beside
<1>10. ASSUME Heard(x) PROVE Heard(y)
  <2>1. y.ring # NoTone => Attended(y, y.ring)
    <3>1. x.ring # NoTone => x.ring \in Own(x) /\ Attended(x, x.ring)
      BY <1>10 DEF Heard, RestHeard, Own, Ring
    <3>2. QED
      BY <3>1, <1>1, <1>9 DEF Beside
  <2>2. Attended(y, Head(y.list))
    <3>1. CASE x.list = <<>>
      <4>1. Head(y.list) = t
        BY <3>1, <1>1, HeadTailProperties, AppendProperties
      <4>2. QED
        BY <4>1, <3>1, <1>9, <1>10
    <3>2. CASE x.list # <<>>
      <4>1. Head(y.list) = Head(x.list) /\ Head(x.list) \in Tones
        BY <3>2, <1>1, HeadTailProperties, AppendProperties
      <4>2. QED
        BY <4>1, <3>2, <1>9, <1>10 DEF Heard, HeadHeard
    <3>3. QED
      BY <3>1, <3>2
  <2>3. QED
    BY <1>10, <2>1, <2>2 DEF Heard, RestHeard, HeadHeard, Beside
<1>11. QED
  BY <1>5, <1>6, <1>7, <1>8, <1>10 DEF Steps, Fit

LEMMA IntoHand ==
    ASSUME NEW x, NEW R, Fit(x, R), NEW t \in Tones, Spare(x, t),
           NEW y, Sound(y), Beside(x, y, t), y.list = x.list,
           y.pc \in {"add", "link", "ring"}, y.tone = t, y.end[t] = x.end[t],
           y.pc = "ring" <=> t \in R, y.pc = "add" \/ y.stream[t] = "run"
    PROVE  Steps(x, y, {t}, R)
<1>1. x.list \in Seq(Tones) /\ ToSet(x.list) \subseteq Tones /\ Own(x) \subseteq Tones
  BY FitTypes
<1>2. Hand(y) = {t} /\ Ring(y) = Ring(x)
  BY DEF Hand, Ring, Beside
<1>3. Own(y) = ToSet(x.list) \cup {t} \cup x.later \cup x.retry \cup Ring(x)
  BY <1>2 DEF Own, Beside
<1>4. \A u \in Tones : y.end[u] = x.end[u]
  BY DEF Beside
<1>5. Apart(y)
  <2>1. \A u \in Own(y) : y.end[u] = "no"
    BY <1>1, <1>3, <1>4 DEF Spare, Fit, Apart, Own
  <2>2. \A u \in Tones : y.end[u] # "twice"
    BY <1>4 DEF Fit, Apart
  <2>3. QED
    BY <1>2, <2>1, <2>2 DEF Spare, Fit, Apart, Beside
<1>6. Sorted(y, R)
  BY <1>2 DEF Fit, Sorted, Beside
<1>7. Own(y) \subseteq Own(x) \cup {t}
  BY <1>3 DEF Own
<1>8. ASSUME Heard(x) PROVE Heard(y)
  <2>1. y.ring # NoTone => Attended(y, y.ring)
    <3>1. x.ring # NoTone => x.ring \in Tones \ {t} /\ Attended(x, x.ring)
      BY <1>8, <1>1 DEF Heard, RestHeard, Own, Ring, Spare
    <3>2. QED
      BY <3>1 DEF Beside, Attended
  <2>2. y.list # <<>> => Attended(y, Head(y.list))
    <3>1. x.list # <<>> => Head(x.list) \in Tones \ {t} /\ Attended(x, Head(x.list))
      BY <1>8, <1>1, SetTail DEF Heard, HeadHeard, Spare
    <3>2. QED
      BY <3>1 DEF Beside, Attended
  <2>3. QED
    BY <1>8, <2>1, <2>2 DEF Heard, RestHeard, HeadHeard, Beside, Attended
<1>9. QED
  BY <1>4, <1>5, <1>6, <1>7, <1>8 DEF Steps, Fit

LEMMA GivenUp ==
    ASSUME NEW x, NEW R, Fit(x, R), NEW t \in Tones, Spare(x, t),
           NEW y, Sound(y), Beside(x, y, t), y.list = x.list,
           y.pc = "idle", y.end[t] # "twice"
    PROVE  Steps(x, y, {t}, R)
<1>1. x.list \in Seq(Tones) /\ ToSet(x.list) \subseteq Tones /\ Own(x) \subseteq Tones
  BY FitTypes
<1>2. Hand(y) = {} /\ Ring(y) = Ring(x)
  BY DEF Hand, Ring, Beside
<1>3. Own(y) = ToSet(x.list) \cup x.later \cup x.retry \cup Ring(x)
  BY <1>2 DEF Own, Beside
<1>4. \A u \in Tones \ {t} : y.end[u] = x.end[u]
  BY DEF Beside
<1>5. Own(y) \subseteq Own(x) /\ t \notin Own(y)
  BY <1>3 DEF Own, Spare
<1>6. Apart(y)
  <2>1. \A u \in Own(y) : y.end[u] = "no"
    BY <1>1, <1>4, <1>5 DEF Fit, Apart
  <2>2. \A u \in Tones : y.end[u] # "twice"
    BY <1>4 DEF Fit, Apart
  <2>3. QED
    BY <1>2, <2>1, <2>2 DEF Fit, Apart, Beside
<1>7. Sorted(y, R)
  BY <1>2 DEF Fit, Sorted, Beside
<1>8. ASSUME Heard(x) PROVE Heard(y)
  <2>1. y.ring # NoTone => Attended(y, y.ring)
    <3>1. x.ring # NoTone => x.ring \in Tones \ {t} /\ Attended(x, x.ring)
      BY <1>8, <1>1 DEF Heard, RestHeard, Own, Ring, Spare
    <3>2. QED
      BY <3>1 DEF Beside, Attended
  <2>2. y.list # <<>> => Attended(y, Head(y.list))
    <3>1. x.list # <<>> => Head(x.list) \in Tones \ {t} /\ Attended(x, Head(x.list))
      BY <1>8, <1>1, SetTail DEF Heard, HeadHeard, Spare
    <3>2. QED
      BY <3>1 DEF Beside, Attended
  <2>3. QED
    BY <1>8, <2>1, <2>2 DEF Heard, RestHeard, HeadHeard, Beside
<1>9. QED
  BY <1>4, <1>5, <1>6, <1>7, <1>8 DEF Steps, Fit

LEMMA HoldFields ==
    ASSUME NEW x, Sound(x), NEW t \in Tones, NEW pc \in {"add", "link", "ring"},
           NEW shared \in BOOLEAN, shared => pc # "ring"
    PROVE  LET y == Hold(x, t, pc, shared)
           IN  /\ Sound(y) /\ Beside(x, y, t) /\ y.list = x.list /\ y.pc = pc /\ y.tone = t
               /\ y.end = x.end /\ y.stream = x.stream
<1>1. Sound(Hold(x, t, pc, shared))
  BY HoldSound
<1>2. QED
  BY <1>1 DEF Hold, Sound, Bud, Beside

LEMMA AddedFields ==
    ASSUME NEW x, Sound(x)
    PROVE  LET y == Added(x)
           IN  /\ Sound(y) /\ y.list = x.list /\ y.later = x.later /\ y.retry = x.retry
               /\ y.ring = x.ring /\ y.seen = x.seen /\ y.dead = x.dead
               /\ y.end = x.end /\ y.stream = x.stream /\ y.pc = "idle"
<1>1. Sound(Added(x))
  BY AddedSound
<1>2. QED
  BY <1>1 DEF Added, Hold, Sound, Bud, NoTone

LEMMA LinkedFields ==
    ASSUME NEW x, Sound(x), NEW t \in Tones
    PROVE  LET y == Linked(x, t)
           IN  /\ Sound(y) /\ y.list = Append(x.list, t) /\ y.later = x.later
               /\ y.retry = x.retry /\ y.ring = x.ring /\ y.seen = x.seen /\ y.dead = x.dead
               /\ y.end = x.end /\ y.stream = x.stream
<1>1. Sound(Linked(x, t))
  BY AlikeLinked DEF Alike
<1>2. QED
  BY <1>1 DEF Linked, Sound, Bud

LEMMA RunFields ==
    ASSUME NEW x, Sound(x), NEW t \in Tones
    PROVE  LET y == [x EXCEPT !.stream[t] = "run"]
           IN  /\ Sound(y) /\ Same(x, y) /\ y.seen = x.seen /\ y.dead = x.dead
               /\ y.end = x.end /\ y.stream[t] = "run"
               /\ \A u \in Tones \ {t} : y.stream[u] = x.stream[u]
<1> DEFINE f == [x.stream EXCEPT ![t] = "run"]
<1>1. Sound([x EXCEPT !.stream[t] = "run"])
  BY AlikeRun DEF Alike
<1>2. f[t] = "run" /\ \A u \in Tones \ {t} : f[u] = x.stream[u]
  BY StreamEndTypes
<1>3. [x EXCEPT !.stream[t] = "run"] = [x EXCEPT !.stream = f]
  OBVIOUS
<1> DEFINE y == [x EXCEPT !.stream = f]
<1> HIDE DEF f
<1>4. Same(x, y) /\ y.seen = x.seen /\ y.dead = x.dead /\ y.end = x.end /\ y.stream = f
  BY DEF Sound, Bud, Same
<1>5. Sound(y)
  BY <1>1, <1>3
<1> HIDE DEF y
<1>6. QED
  BY <1>2, <1>3, <1>4, <1>5 DEF y

LEMMA LinkSteps ==
    ASSUME NEW x, NEW R, Fit(x, R), NEW t \in Tones, Spare(x, t), t \notin R,
           x.list # <<>> \/ (Heard(x) => Attended(x, t)),
           NEW h, Sound(h), Beside(x, h, t), h.list = x.list, h.end = x.end,
           h.stream = x.stream
    PROVE  Steps(x, Added(Linked(h, t)), {t}, R)
<1> DEFINE k == Linked(h, t)
           y == Added(k)
<1>1. /\ Sound(k) /\ k.list = Append(h.list, t) /\ k.later = h.later
      /\ k.retry = h.retry /\ k.ring = h.ring /\ k.seen = h.seen /\ k.dead = h.dead
      /\ k.end = h.end /\ k.stream = h.stream
  BY LinkedFields
<1> HIDE DEF k
<1>2. /\ Sound(y) /\ y.list = k.list /\ y.later = k.later /\ y.retry = k.retry
      /\ y.ring = k.ring /\ y.seen = k.seen /\ y.dead = k.dead
      /\ y.end = k.end /\ y.stream = k.stream /\ y.pc = "idle"
  BY <1>1, AddedFields
<1> HIDE DEF y
<1>3. Beside(x, y, t) /\ y.list = Append(x.list, t) /\ y.end[t] = x.end[t]
      /\ y.stream[t] = x.stream[t]
  BY <1>1, <1>2 DEF Beside
<1>4. QED
  BY <1>2, <1>3, IntoList DEF y, k

LEMMA AddSteps ==
    ASSUME NEW x, NEW R, Fit(x, R), NEW t \in Tones, Spare(x, t), t \notin R,
           NEW shared \in BOOLEAN, NEW y \in tone_player_add(x, t, shared)
    PROVE  Steps(x, y, {t}, R)
<1> DEFINE h == Hold(x, t, "link", shared)
<1>1. /\ Sound(h) /\ Beside(x, h, t) /\ h.list = x.list /\ h.pc = "link" /\ h.tone = t
      /\ h.end = x.end /\ h.stream = x.stream
  BY HoldFields DEF Fit
<1>2. \/ x.list # <<>> /\ y = Added(Linked(h, t))
      \/ y = [h EXCEPT !.stream[t] = "run"]
      \/ \E z \in Struck("no_start", h) : y = Added(tone_player_free(z, {t}))
  BY DEF tone_player_add, tone_player_runing
<1> HIDE DEF h
<1>3. CASE x.list # <<>> /\ y = Added(Linked(h, t))
  BY <1>1, <1>3, LinkSteps
<1>4. CASE y = [h EXCEPT !.stream[t] = "run"]
  <2>1. /\ Sound(y) /\ Same(h, y) /\ y.seen = h.seen /\ y.dead = h.dead
        /\ y.end = h.end /\ y.stream[t] = "run"
        /\ \A u \in Tones \ {t} : y.stream[u] = h.stream[u]
    BY <1>1, <1>4, RunFields
  <2>2. Beside(x, y, t) /\ y.list = x.list /\ y.pc = "link" /\ y.tone = t
        /\ y.end[t] = x.end[t]
    BY <1>1, <2>1 DEF Beside, Same
  <2>3. QED
    BY <2>1, <2>2, IntoHand
<1>5. CASE \E z \in Struck("no_start", h) : y = Added(tone_player_free(z, {t}))
  <2>1. PICK z \in Struck("no_start", h) : y = Added(tone_player_free(z, {t}))
    BY <1>5
  <2> DEFINE k == tone_player_free(z, {t})
  <2>2. /\ Sound(z) /\ Same(h, z) /\ z.seen = h.seen /\ z.dead = h.dead
        /\ z.end = h.end /\ z.stream = h.stream
    BY <1>1, StruckFields
  <2>3. Sound(k)
    BY <2>2, AlikeFree DEF Alike
  <2>4. /\ Same(z, k) /\ k.seen = z.seen /\ k.dead = z.dead
        /\ \A u \in Tones : /\ u \notin {t} => k.end[u] = z.end[u]
                            /\ z.end[u] = "no" /\ u \in {t} => k.end[u] = "once"
                            /\ k.stream[u] = IF u \in {t} THEN "none" ELSE z.stream[u]
    BY <2>2, FreeFields
  <2> HIDE DEF k
  <2>5. /\ Sound(y) /\ y.list = k.list /\ y.later = k.later /\ y.retry = k.retry
        /\ y.ring = k.ring /\ y.seen = k.seen /\ y.dead = k.dead
        /\ y.end = k.end /\ y.stream = k.stream /\ y.pc = "idle"
    BY <2>1, <2>3, AddedFields DEF k
  <2>6. y.end[t] = "once"
    BY <1>1, <2>2, <2>4, <2>5 DEF Spare
  <2>7. Beside(x, y, t) /\ y.list = x.list
    BY <1>1, <2>2, <2>4, <2>5 DEF Beside, Same
  <2>8. QED
    BY <2>5, <2>6, <2>7, GivenUp
<1>6. QED
  BY <1>2, <1>3, <1>4, <1>5

LEMMA RingSteps ==
    ASSUME NEW x, NEW R, Fit(x, R), x.pc = "idle", NEW t \in R, t \in Tones,
           t \notin Own(x), x.end[t] = "no", NEW y \in RingStarts(x, t)
    PROVE  Steps(x, y, {t}, R)
<1> DEFINE h == Hold(x, t, "ring", FALSE)
<1>1. /\ Sound(h) /\ Beside(x, h, t) /\ h.list = x.list /\ h.pc = "ring" /\ h.tone = t
      /\ h.end = x.end /\ h.stream = x.stream
  BY HoldFields DEF Fit
<1>2. \/ y = tone_player_free(x, {t})
      \/ y = [h EXCEPT !.stream[t] = "run"]
      \/ \E z \in Struck("no_start", x) : y = tone_player_free(z, {t})
  BY DEF RingStarts
<1> HIDE DEF h
<1>3. CASE y = tone_player_free(x, {t})
  BY <1>3, FreeSteps
<1>4. CASE y = [h EXCEPT !.stream[t] = "run"]
  <2>1. /\ Sound(y) /\ Same(h, y) /\ y.seen = h.seen /\ y.dead = h.dead
        /\ y.end = h.end /\ y.stream[t] = "run"
        /\ \A u \in Tones \ {t} : y.stream[u] = h.stream[u]
    BY <1>1, <1>4, RunFields
  <2>2. Beside(x, y, t) /\ y.list = x.list /\ y.pc = "ring" /\ y.tone = t
        /\ y.end[t] = x.end[t]
    BY <1>1, <2>1 DEF Beside, Same
  <2>3. QED
    BY <2>1, <2>2, IntoHand, SpareNew
<1>5. CASE \E z \in Struck("no_start", x) : y = tone_player_free(z, {t})
  <2>1. PICK z \in Struck("no_start", x) : y = tone_player_free(z, {t})
    BY <1>5
  <2>2. Steps(x, z, {}, R) /\ Own(z) = Own(x) /\ z.end = x.end /\ Fit(z, R)
    BY StruckSteps DEF Steps
  <2>3. Steps(z, y, {t}, R)
    BY <2>1, <2>2, FreeSteps
  <2>4. QED
    BY <2>2, <2>3, StepsMore, StepsTrans
<1>6. QED
  BY <1>2, <1>3, <1>4, <1>5

LEMMA PlayedHereSteps ==
    ASSUME NEW x, NEW R, Fit(x, R), x.pc = "idle", NEW t \in Tones, t \notin Own(x),
           x.end[t] = "no", NEW kind, kind = "ring" <=> t \in R,
           NEW y \in PlayedHere(x, t, kind)
    PROVE  Steps(x, y, {t}, R)
<1>1. CASE \E z \in Struck("no_file", x) : y = tone_player_free(z, {t})
  <2>1. PICK z \in Struck("no_file", x) : y = tone_player_free(z, {t})
    BY <1>1
  <2>2. Steps(x, z, {}, R) /\ Own(z) = Own(x) /\ z.end = x.end /\ Fit(z, R)
    BY StruckSteps DEF Steps
  <2>3. Steps(z, y, {t}, R)
    BY <2>1, <2>2, FreeSteps
  <2>4. QED
    BY <2>2, <2>3, StepsMore, StepsTrans
<1>2. CASE kind # "ring" /\ y \in tone_player_add(x, t, FALSE)
  BY <1>2, SpareNew, AddSteps
<1>3. CASE y = Drop(x, t)
  BY <1>3, DropSteps
<1>4. CASE kind = "ring" /\ y \in RingStarts(x, t)
  BY <1>4, RingSteps
<1>5. QED
  BY <1>1, <1>2, <1>3, <1>4 DEF PlayedHere

LEMMA PlayedSteps ==
    ASSUME NEW x, NEW R, Fit(x, R), x.pc = "idle", NEW t \in Tones, t \notin Own(x),
           x.end[t] = "no", Is(t, {"ring"}) <=> t \in R, NEW y \in Played(x, t)
    PROVE  Steps(x, y, {t}, R)
<1>1. CASE \E z \in Struck("no_file", x) : y = Drop([z EXCEPT !.adding = FALSE], t)
  <2>1. PICK z \in Struck("no_file", x) : y = Drop([z EXCEPT !.adding = FALSE], t)
    BY <1>1
  <2> DEFINE k == [z EXCEPT !.adding = FALSE]
  <2>2. Steps(x, z, {}, R) /\ Own(z) = Own(x) /\ z.end = x.end /\ Fit(z, R)
    BY StruckSteps DEF Steps
  <2>3. Sound(k) /\ Same(z, k) /\ k.end = z.end /\ k.stream = z.stream /\ k.seen = z.seen
        /\ k.dead = z.dead
    BY <2>2 DEF Fit, Sound, Bud, Same
  <2> HIDE DEF k
  <2>4. Steps(z, k, {}, R) /\ Own(k) = Own(z) /\ Fit(k, R)
    <3>1. \A u \in Own(z) : Attended(z, u) => Attended(k, u)
      BY <2>3 DEF Attended
    <3>2. Steps(z, k, {}, R)
      BY <2>2, <2>3, <3>1, SameSteps
    <3>3. QED
      BY <2>3, <3>2, SameOwn DEF Steps
  <2>5. Steps(k, y, {t}, R)
    BY <2>1, <2>2, <2>4, DropSteps DEF k
  <2>6. QED
    BY <2>2, <2>4, <2>5, StepsMore, StepsTrans
<1>2. CASE Is(t, {"ring"}) /\ y \in RingStarts(x, t)
  BY <1>2, RingSteps
<1>3. CASE ~Is(t, {"ring"}) /\ y = Hold(x, t, "add", TRUE)
  <2>1. /\ Sound(y) /\ Beside(x, y, t) /\ y.list = x.list /\ y.pc = "add" /\ y.tone = t
        /\ y.end = x.end
    <3>1. Sound(x) /\ \E s \in BOOLEAN : s = TRUE
      BY DEF Fit
    <3>2. PICK s \in BOOLEAN : s = TRUE
      BY <3>1
    <3> DEFINE h == Hold(x, t, "add", s)
    <3>3. /\ Sound(h) /\ Beside(x, h, t) /\ h.list = x.list /\ h.pc = "add" /\ h.tone = t
          /\ h.end = x.end
      BY <3>1, HoldFields
    <3>4. y = h
      BY <1>3, <3>2
    <3> HIDE DEF h
    <3>5. QED
      BY <3>3, <3>4
  <2>2. QED
    BY <1>3, <2>1, SpareNew, IntoHand
<1>4. CASE ~Is(t, {"ring"}) /\ y \in tone_player_add(x, t, TRUE)
  BY <1>4, SpareNew, AddSteps
<1>5. CASE ~Is(t, {"ring"}) /\ y = [x EXCEPT !.later = @ \cup {t}]
  <2>1. /\ Sound(y) /\ y.list = x.list /\ y.later = x.later \cup {t} /\ y.retry = x.retry
        /\ y.pc = x.pc /\ y.tone = x.tone /\ y.ring = x.ring /\ y.end = x.end
        /\ y.stream = x.stream /\ y.seen = x.seen /\ y.dead = x.dead
    BY <1>5 DEF Fit, Sound, Bud
  <2>2. Hand(y) = Hand(x) /\ Ring(y) = Ring(x) /\ Own(y) = Own(x) \cup {t}
    BY <2>1 DEF Hand, Ring, Own
  <2>3. Apart(y)
    BY <2>1, <2>2 DEF Fit, Apart, Own
  <2>4. Sorted(y, R)
    BY <1>5, <2>1, <2>2 DEF Fit, Sorted
  <2>5. Heard(x) => Heard(y)
    BY <2>1 DEF Heard, RestHeard, HeadHeard, Attended
  <2>6. QED
    BY <2>1, <2>2, <2>3, <2>4, <2>5 DEF Steps, Fit
<1>6. QED
  BY <1>1, <1>2, <1>3, <1>4, <1>5 DEF Played, Is

(***************************************************************************)
(* Stopping, and the next tone.                                            *)
(***************************************************************************)

\* The list loses the tones of S; nothing else is changed.
Cut(x, y, S) ==
    /\ y.later = x.later /\ y.retry = x.retry /\ y.pc = x.pc /\ y.tone = x.tone
    /\ y.ring = x.ring /\ y.end = x.end /\ y.stream = x.stream /\ y.seen = x.seen
    /\ y.dead = x.dead
    /\ IsInjective(y.list) /\ ToSet(y.list) \subseteq ToSet(x.list)
    /\ S \subseteq ToSet(x.list) /\ S \cap ToSet(y.list) = {}

LEMMA CutFit ==
    ASSUME NEW x, NEW R, Fit(x, R), NEW S, NEW y, Sound(y), Cut(x, y, S)
    PROVE  /\ Fit(y, R) /\ Own(y) \subseteq Own(x) /\ S \cap Own(y) = {}
           /\ S \subseteq Own(x) /\ \A t \in S : y.end[t] = "no"
           /\ RestHeard(x) => RestHeard(y)
<1>1. Hand(y) = Hand(x) /\ Ring(y) = Ring(x)
  BY DEF Hand, Ring, Cut
<1>2. Own(y) \subseteq Own(x) /\ S \subseteq Own(x)
  BY <1>1 DEF Own, Cut
<1>3. S \cap Own(y) = {}
  BY <1>1 DEF Own, Cut, Fit, Apart
<1>4. Apart(y)
  BY <1>1, <1>2 DEF Fit, Apart, Cut
<1>5. Sorted(y, R)
  BY <1>1 DEF Fit, Sorted, Cut
<1>6. \A t \in S : y.end[t] = "no"
  BY <1>2 DEF Cut, Fit, Apart
<1>7. RestHeard(x) => RestHeard(y)
  BY DEF RestHeard, Cut, Attended
<1>8. QED
  BY <1>2, <1>3, <1>4, <1>5, <1>6, <1>7 DEF Fit

LEMMA StopSteps ==
    ASSUME NEW x, NEW R, Fit(x, R)
    PROVE  LET y == tone_player_stop(x)
           IN  Steps(x, y, {}, R) /\ y.pc = x.pc
<1> DEFINE S == ToSet(x.list)
           k == [x EXCEPT !.list = <<>>]
           y == tone_player_free(k, S)
<1>1. <<>> \in Seq(Tones) /\ ToSet(<<>>) = {} /\ IsInjective(<<>>)
  BY EmptySeq, SetNone, InjEmpty
<1>2. Sound(k) /\ k.list = <<>>
  BY <1>1 DEF Fit, Sound, Bud
<1>3. Cut(x, k, S)
  BY <1>1 DEF Fit, Sound, Bud, Cut
<1> HIDE DEF k
<1>4. /\ Fit(k, R) /\ Own(k) \subseteq Own(x) /\ S \cap Own(k) = {}
      /\ S \subseteq Own(x) /\ \A t \in S : k.end[t] = "no"
      /\ RestHeard(x) => RestHeard(k)
  <2> HIDE DEF S
  <2>1. QED
    BY <1>2, <1>3, CutFit
<1> HIDE DEF S
<1>5. Steps(k, y, S, R) /\ y.pc = k.pc
  BY <1>2, <1>4, FreeSteps, FreeFields DEF Same
<1>6. Heard(x) => Heard(k)
  BY <1>2, <1>4 DEF Heard, HeadHeard
<1>7. Steps(x, k, {}, R)
  BY <1>3, <1>4, <1>6 DEF Steps, Cut
<1>8. Own(y) \subseteq Own(x)
  BY <1>4, <1>5 DEF Steps
<1>9. \A t \in Tones : t \notin Own(x) => y.end[t] = x.end[t]
  BY <1>3, <1>4, <1>5 DEF Steps, Cut
<1>10. Steps(x, y, {}, R) /\ y.pc = x.pc
  BY <1>3, <1>5, <1>6, <1>8, <1>9 DEF Steps, Cut
<1>11. tone_player_stop(x) = y
  BY DEF tone_player_stop, k, S
<1>12. QED
  BY <1>10, <1>11

LEMMA PlayNextSteps ==
    ASSUME NEW x, NEW R, Fit(x, R), NEW n \in Nat, n <= Len(x.list)
    PROVE  LET y == PlayNext(x, n)
           IN  /\ Fit(y, R) /\ Own(y) \subseteq Own(x) /\ (RestHeard(x) => Heard(y))
               /\ \A t \in Tones : t \notin Own(x) => y.end[t] = x.end[t]
<1> DEFINE S == ToSet(SubSeq(x.list, 1, n))
           rest == SubSeq(x.list, n + 1, Len(x.list))
           k == [x EXCEPT !.list = rest]
           z == tone_player_free(k, S)
           y == IF rest = <<>> THEN z ELSE [z EXCEPT !.stream[Head(rest)] = "run"]
<1>1. /\ rest \in Seq(Tones) /\ IsInjective(rest) /\ S \cap ToSet(rest) = {}
      /\ S \subseteq ToSet(x.list) /\ ToSet(rest) \subseteq ToSet(x.list)
      /\ rest # <<>> => Head(rest) \in ToSet(rest)
  BY FitTypes, InjCut DEF Fit, Apart
<1>2. PlayNext(x, n) = y
  BY DEF PlayNext
<1> HIDE DEF S, rest
<1>3. Sound(k) /\ k.list = rest
  BY <1>1 DEF Fit, Sound, Bud
<1>4. Cut(x, k, S)
  BY <1>1 DEF Fit, Sound, Bud, Cut
<1> HIDE DEF k
<1>5. /\ Fit(k, R) /\ Own(k) \subseteq Own(x) /\ S \cap Own(k) = {}
      /\ S \subseteq Own(x) /\ \A t \in S : k.end[t] = "no"
      /\ RestHeard(x) => RestHeard(k)
  BY <1>3, <1>4, CutFit
<1>6. Steps(k, z, S, R) /\ Same(k, z) /\ z.seen = k.seen /\ z.dead = k.dead /\ Fit(z, R)
      /\ Own(z) = Own(k)
  BY <1>3, <1>5, FreeSteps, FreeFields, SameOwn DEF Steps
<1>7. Own(k) \subseteq Tones /\ Own(z) = Own(k)
  BY <1>5, <1>6, FitTypes
<1>8. \A t \in Tones : z.stream[t] = IF t \in S THEN "none" ELSE k.stream[t]
  BY <1>3, FreeFields
<1> HIDE DEF z
<1>9. RestHeard(k) => RestHeard(z)
  <2>1. \A t \in Own(k) : Attended(k, t) => Attended(z, t)
    BY <1>5, <1>6, <1>7, <1>8 DEF Attended
  <2>2. k.ring # NoTone => k.ring \in Own(k)
    BY DEF Own, Ring
  <2>3. k.pc \in {"link", "ring"} => k.tone \in Own(k)
    BY DEF Own, Hand
  <2>4. QED
    BY <1>6, <2>1, <2>2, <2>3 DEF RestHeard, Same
<1>10. \A t \in Tones : t \notin Own(x) => z.end[t] = x.end[t]
  BY <1>4, <1>5, <1>6 DEF Steps, Cut
<1>11. CASE rest = <<>>
  <2>1. y = z /\ z.list = <<>>
    BY <1>3, <1>6, <1>11 DEF Same
  <2> HIDE DEF y
  <2>2. RestHeard(x) => Heard(y)
    BY <1>5, <1>9, <2>1 DEF Heard, HeadHeard
  <2>3. QED
    BY <1>2, <1>5, <1>6, <1>10, <2>1, <2>2
<1>12. CASE rest # <<>>
  <2>1. Head(rest) \in Tones
    BY <1>1, <1>12, SetTail
  <2>2. /\ Sound(y) /\ Same(z, y) /\ y.seen = z.seen /\ y.dead = z.dead
        /\ y.end = z.end /\ y.stream[Head(rest)] = "run"
        /\ \A u \in Tones \ {Head(rest)} : y.stream[u] = z.stream[u]
    BY <1>6, <1>12, <2>1, RunFields DEF Fit
  <2> HIDE DEF y
  <2>3. \A t \in Own(z) : Attended(z, t) => Attended(y, t)
    BY <1>7, <2>2 DEF Attended
  <2>4. Steps(z, y, {}, R) /\ Own(y) = Own(z)
    BY <1>6, <2>2, <2>3, SameSteps, SameOwn
  <2>5. RestHeard(z) => RestHeard(y)
    <3>1. z.ring # NoTone => z.ring \in Own(z)
      BY DEF Own, Ring
    <3>2. z.pc \in {"link", "ring"} => z.tone \in Own(z)
      BY DEF Own, Hand
    <3>3. QED
      BY <2>2, <2>3, <3>1, <3>2 DEF RestHeard, Same
  <2>6. HeadHeard(y)
    BY <1>3, <1>6, <2>2 DEF HeadHeard, Attended, Same
  <2>7. QED
    BY <1>2, <1>5, <1>6, <1>9, <1>10, <2>2, <2>4, <2>5, <2>6 DEF Heard, Steps
<1>13. QED
  BY <1>11, <1>12

(***************************************************************************)
(* The invariant.  A tone whose message is under way to a bud is nowhere   *)
(* at that bud yet; one that waits to be sent, or that nobody asked for,   *)
(* is nowhere else.                                                        *)
(***************************************************************************)

Rings == {t \in Tones : Is(t, {"ring"})}
Sent(b) == UNION {ToSet(air[b][c]) : c \in Buds}

Fits == \A b \in Buds : Fit(bud[b], Rings)
AllHeard == delivery = "app_core" => \A b \in Buds : Heard(bud[b])
Messages ==
    /\ \A b, c \in Buds : IsInjective(air[b][c])
    /\ \A b, c, d \in Buds : c # d => ToSet(air[b][c]) \cap ToSet(air[b][d]) = {}
    /\ \A b \in Buds : \A t \in Sent(b) : t \notin Own(bud[b]) /\ bud[b].end[t] = "no"
Unasked ==
    \A t \in Tones, b \in Buds :
        Is(t, {"none"}) => t \notin Sent(b) \cup Own(bud[b]) /\ bud[b].end[t] = "no"
Waits ==
    \A b, c \in Buds : \A t \in bud[b].retry :
        t \notin Sent(c) /\ bud[c].end[t] = "no" /\ (c # b => t \notin Own(bud[c]))

Once == Fits /\ AllHeard /\ Messages /\ Unasked /\ Waits

LEMMA SentTones ==
    ASSUME IInv, NEW b \in Buds
    PROVE  Sent(b) \subseteq Tones
BY AirSound DEF Sent

LEMMA OnceFit ==
    ASSUME Once, NEW b \in Buds
    PROVE  /\ Fit(bud[b], Rings) /\ Sound(bud[b]) /\ Own(bud[b]) \subseteq Tones
           /\ delivery = "app_core" => Heard(bud[b])
BY FitTypes DEF Once, Fits, AllHeard, Fit

\* A step of one bud, which may take messages of the tones of T.
LEMMA OnceStep ==
    ASSUME IInv, Once, NEW b \in Buds, NEW y, bud' = [bud EXCEPT ![b] = y],
           NEW T, T \subseteq Sent(b), T \cap Sent(b)' = {},
           Fit(y, Rings), Own(y) \subseteq Own(bud[b]) \cup T, y.retry \subseteq bud[b].retry,
           \A t \in Tones : t \notin Own(bud[b]) \cup T => y.end[t] = bud[b].end[t],
           delivery = "app_core" /\ Heard(bud[b]) => Heard(y),
           \A c, d \in Buds : c # b => air'[c][d] = air[c][d],
           \A d \in Buds : IsInjective(air'[b][d]) /\ ToSet(air'[b][d]) \subseteq ToSet(air[b][d]),
           UNCHANGED <<ask, delivery>>
    PROVE  Once'
<1>1. bud'[b] = y /\ \A c \in Buds : c # b => bud'[c] = bud[c]
  BY DEF IInv
<1>2. Rings' = Rings /\ \A t, k : Is(t, k)' = Is(t, k)
  BY DEF Rings, Is
<1>3. \A c \in Buds : c # b => Sent(c)' = Sent(c)
  BY DEF Sent
<1>4. Sent(b)' \subseteq Sent(b) /\ Sent(b) \subseteq Tones
  BY SentTones DEF Sent
<1>5. Own(y) \subseteq Tones /\ Own(bud[b]) \subseteq Tones
  BY OnceFit, FitTypes
<1>6. Fits'
  BY <1>1, <1>2 DEF Once, Fits
<1>7. AllHeard'
  BY <1>1, OnceFit DEF AllHeard
<1>8. Messages'
  <2>1. \A d, e \in Buds : IsInjective(air'[d][e])
    BY DEF Once, Messages
  <2>2. \A d, c, e \in Buds : c # e => ToSet(air'[d][c]) \cap ToSet(air'[d][e]) = {}
    <3> SUFFICES ASSUME NEW d \in Buds, NEW c \in Buds, NEW e \in Buds, c # e
                 PROVE  ToSet(air'[d][c]) \cap ToSet(air'[d][e]) = {}
      OBVIOUS
    <3>1. ToSet(air[d][c]) \cap ToSet(air[d][e]) = {}
      BY DEF Once, Messages
    <3>2. ToSet(air'[d][c]) \subseteq ToSet(air[d][c]) /\ ToSet(air'[d][e]) \subseteq ToSet(air[d][e])
      OBVIOUS
    <3>3. QED
      BY <3>1, <3>2
  <2>3. \A d \in Buds : \A t \in Sent(d)' : t \notin Own(bud'[d]) /\ bud'[d].end[t] = "no"
    <3> SUFFICES ASSUME NEW d \in Buds, NEW t \in Sent(d)'
                 PROVE  t \notin Own(bud'[d]) /\ bud'[d].end[t] = "no"
      OBVIOUS
    <3>1. t \in Sent(d) /\ t \notin Own(bud[d]) /\ bud[d].end[t] = "no"
      BY <1>3, <1>4 DEF Once, Messages
    <3>2. QED
      BY <3>1, <1>1, <1>4
  <2>4. Messages' = /\ \A d, e \in Buds : IsInjective(air'[d][e])
                    /\ \A d, c, e \in Buds : c # e => ToSet(air'[d][c]) \cap ToSet(air'[d][e]) = {}
                    /\ \A d \in Buds : \A t \in Sent(d)' :
                           t \notin Own(bud'[d]) /\ bud'[d].end[t] = "no"
    BY DEF Messages
  <2>5. QED
    BY <2>1, <2>2, <2>3, <2>4
<1>9. Unasked'
  <2> SUFFICES ASSUME NEW t \in Tones, NEW c \in Buds, Is(t, {"none"})
               PROVE  t \notin Sent(c)' \cup Own(bud'[c]) /\ bud'[c].end[t] = "no"
    BY <1>2 DEF Unasked
  <2>1. t \notin Sent(c) \cup Own(bud[c]) /\ bud[c].end[t] = "no"
    BY DEF Once, Unasked
  <2>2. QED
    BY <2>1, <1>1, <1>3, <1>4
<1>10. Waits'
  <2> SUFFICES ASSUME NEW c \in Buds, NEW d \in Buds, NEW t \in bud'[c].retry
               PROVE  t \notin Sent(d)' /\ bud'[d].end[t] = "no" /\ (d # c => t \notin Own(bud'[d]))
    BY DEF Waits
  <2>1. t \in bud[c].retry
    BY <1>1
  <2>2. t \notin Sent(d) /\ bud[d].end[t] = "no" /\ (d # c => t \notin Own(bud[d]))
    BY <2>1 DEF Once, Waits
  <2>3. t \notin Sent(d)'
    BY <2>2, <1>3, <1>4
  <2>4. CASE d # b
    BY <2>2, <2>3, <2>4, <1>1
  <2>5. CASE d = b /\ c # b
    <3>1. t \notin Own(bud[b]) \cup T /\ t \in Tones
      BY <2>1, <2>2, <2>5, OnceFit DEF Own
    <3>2. QED
      BY <2>2, <2>3, <2>5, <3>1, <1>1
  <2>6. CASE d = b /\ c = b
    <3>1. t \in Own(y)
      BY <2>6, <1>1 DEF Own
    <3>2. y.end[t] = "no"
      BY <3>1 DEF Fit, Apart
    <3>3. QED
      BY <2>3, <2>6, <3>2, <1>1
  <2>7. QED
    BY <2>4, <2>5, <2>6
<1>11. QED
  BY <1>6, <1>7, <1>8, <1>9, <1>10 DEF Once

LEMMA OnceLocal ==
    ASSUME IInv, Once, NEW b \in Buds, NEW y, bud' = [bud EXCEPT ![b] = y],
           Steps(bud[b], y, {}, Rings), y.retry \subseteq bud[b].retry,
           UNCHANGED <<ask, air, delivery>>
    PROVE  Once'
<1>1. \A d \in Buds : IsInjective(air[b][d])
  BY DEF Once, Messages
<1>2. \A t \in Tones : t \notin Own(bud[b]) \cup {} => y.end[t] = bud[b].end[t]
  BY DEF Steps
<1> DEFINE T == {}
<1>3. /\ T \subseteq Sent(b) /\ T \cap Sent(b)' = {}
      /\ \A t \in Tones : t \notin Own(bud[b]) \cup T => y.end[t] = bud[b].end[t]
      /\ Own(y) \subseteq Own(bud[b]) \cup T /\ Fit(y, Rings)
      /\ delivery = "app_core" /\ Heard(bud[b]) => Heard(y)
  BY <1>2 DEF Steps
<1>4. /\ \A c, d \in Buds : c # b => air'[c][d] = air[c][d]
      /\ \A d \in Buds : IsInjective(air'[b][d]) /\ ToSet(air'[b][d]) \subseteq ToSet(air[b][d])
  BY <1>1
<1> HIDE DEF T
<1>5. QED
  BY <1>3, <1>4, OnceStep

\* The message of t is taken from those of c, which leaves q.
LEMMA OnceTake ==
    ASSUME IInv, Once, NEW b \in Buds, NEW c \in Buds, NEW t \in Tones, NEW q \in Seq(Tones),
           IsInjective(q), t \notin ToSet(q), ToSet(air[b][c]) = {t} \cup ToSet(q),
           air' = [air EXCEPT ![b][c] = q], NEW y, bud' = [bud EXCEPT ![b] = y],
           Steps(bud[b], y, {t}, Rings), y.retry \subseteq bud[b].retry,
           UNCHANGED <<ask, delivery>>
    PROVE  Once'
<1>3. /\ air'[b][c] = q
      /\ \A d, e \in Buds : d # b \/ e # c => air'[d][e] = air[d][e]
  BY DEF IInv, Around
<1>4. \A d \in Buds : IsInjective(air'[b][d]) /\ ToSet(air'[b][d]) \subseteq ToSet(air[b][d])
  <2> TAKE d \in Buds
  <2>1. CASE d = c
    BY <2>1, <1>3
  <2>2. CASE d # c
    BY <2>2, <1>3 DEF Once, Messages
  <2>3. QED
    BY <2>1, <2>2
<1>5. t \in Sent(b)
  BY DEF Sent
<1>6. t \notin Sent(b)'
  <2>1. \A d \in Buds : t \notin ToSet(air'[b][d])
    <3> TAKE d \in Buds
    <3>1. CASE d = c
      BY <3>1, <1>3
    <3>2. CASE d # c
      <4>1. ToSet(air[b][d]) \cap ToSet(air[b][c]) = {}
        BY <3>2 DEF Once, Messages
      <4>2. QED
        BY <4>1, <3>2, <1>3
    <3>3. QED
      BY <3>1, <3>2
  <2>2. QED
    BY <2>1 DEF Sent
<1>7. \A u \in Tones : u \notin Own(bud[b]) \cup {t} => y.end[u] = bud[b].end[u]
  BY DEF Steps
<1> DEFINE T == {t}
<1>8. /\ T \subseteq Sent(b) /\ T \cap Sent(b)' = {}
      /\ \A u \in Tones : u \notin Own(bud[b]) \cup T => y.end[u] = bud[b].end[u]
      /\ Own(y) \subseteq Own(bud[b]) \cup T /\ Fit(y, Rings)
      /\ delivery = "app_core" /\ Heard(bud[b]) => Heard(y)
  BY <1>5, <1>6, <1>7 DEF Steps
<1>9. \A d, e \in Buds : d # b => air'[d][e] = air[d][e]
  BY <1>3
<1> HIDE DEF T
<1>10. QED
  BY <1>4, <1>8, <1>9, OnceStep

(***************************************************************************)
(* One action at a time.                                                   *)
(***************************************************************************)

LEMMA OnceAddStart == ASSUME IInv, Once, NEW b \in Buds, AddStart(b) PROVE Once'
<1> DEFINE x == bud[b]
<1>1. PICK y \in tone_player_add(x, x.tone, x.shared) : bud' = [bud EXCEPT ![b] = y]
  BY DEF AddStart
<1>2. Fit(x, Rings) /\ Sound(x) /\ x.pc = "add" /\ x.tone \in Tones /\ x.shared \in BOOLEAN
  BY OnceFit DEF AddStart, Sound, Bud
<1>3. x.tone \notin Rings /\ Spare(x, x.tone)
  BY <1>2, SpareHeld DEF Fit, Sorted
<1>4. Steps(x, y, {x.tone}, Rings)
  BY <1>2, <1>3, AddSteps
<1>5. x.tone \in Own(x)
  BY <1>2 DEF Own, Hand
<1>6. Steps(x, y, {}, Rings)
  BY <1>4, <1>5 DEF Steps
<1>7. y.retry = x.retry
  BY <1>2, AddSound DEF Adds
<1>8. QED
  BY <1>1, <1>6, <1>7, OnceLocal DEF AddStart

LEMMA OnceAddLink == ASSUME IInv, Once, NEW b \in Buds, AddLink(b) PROVE Once'
<1> DEFINE x == bud[b]
           y == Added(Linked(x, x.tone))
<1>1. bud' = [bud EXCEPT ![b] = y] /\ UNCHANGED <<ask, air, link, delivery, events>>
  BY DEF AddLink
<1>2. Fit(x, Rings) /\ Sound(x) /\ x.pc = "link" /\ x.tone \in Tones
  BY OnceFit DEF AddLink, Sound, Bud
<1>3. x.tone \notin Rings /\ Spare(x, x.tone) /\ x.tone \in Own(x)
  BY <1>2, SpareHeld DEF Fit, Sorted, Own, Hand
<1>4. Heard(x) => Attended(x, x.tone)
  BY <1>2 DEF Heard, RestHeard
<1>5. Beside(x, x, x.tone)
  BY DEF Beside
<1>6. Steps(x, y, {x.tone}, Rings)
  BY <1>2, <1>3, <1>4, <1>5, LinkSteps
<1>7. Steps(x, y, {}, Rings)
  BY <1>3, <1>6 DEF Steps
<1>8. y.retry = x.retry
  BY <1>2, LinkedFields, AddedFields
<1> HIDE DEF y
<1>9. QED
  BY <1>1, <1>7, <1>8, OnceLocal

LEMMA OnceRingLink == ASSUME IInv, Once, NEW b \in Buds, RingLink(b) PROVE Once'
<1> DEFINE x == bud[b]
           y == [x EXCEPT !.ring = x.tone, !.tone = NoTone, !.pc = "idle"]
<1>1. Fit(x, Rings) /\ Sound(x) /\ x.tone \in Tones /\ x.pc = "ring" /\ x.shared = FALSE
  BY OnceFit DEF RingLink, Sound, Bud
<1>2. bud' = [bud EXCEPT ![b] = y] /\ UNCHANGED <<ask, air, link, delivery, events>>
  BY DEF RingLink, IInv
<1>3. /\ Sound(y) /\ y.list = x.list /\ y.later = x.later /\ y.retry = x.retry
      /\ y.pc = "idle" /\ y.ring = x.tone /\ y.end = x.end /\ y.stream = x.stream
      /\ y.seen = x.seen /\ y.dead = x.dead
  BY <1>1 DEF Sound, Bud, NoTone
<1> HIDE DEF y
<1>4. Hand(y) = {} /\ Hand(x) = {x.tone} /\ Ring(y) = {x.tone}
  BY <1>1, <1>3 DEF Hand, Ring, NoTone, Tones
<1>5. Own(y) \subseteq Own(x)
  BY <1>3, <1>4 DEF Own
<1>6. Apart(y)
  BY <1>1, <1>3, <1>4, <1>5 DEF Fit, Apart
<1>7. Sorted(y, Rings)
  BY <1>1, <1>3, <1>4 DEF Fit, Sorted
<1>8. Heard(x) => Heard(y)
  BY <1>1, <1>3 DEF Heard, RestHeard, HeadHeard, Attended
<1>9. Steps(x, y, {}, Rings)
  BY <1>3, <1>5, <1>6, <1>7, <1>8 DEF Steps, Fit
<1>10. QED
  BY <1>2, <1>3, <1>9, OnceLocal

\* A tone leaves one of the timers.
LEMMA Less ==
    ASSUME NEW x, NEW R, Fit(x, R), x.pc = "idle", NEW t \in x.later \cup x.retry, NEW y,
           Sound(y), y.later \subseteq x.later \ {t}, y.retry \subseteq x.retry \ {t},
           y.list = x.list, y.pc = x.pc, y.tone = x.tone, y.ring = x.ring, y.end = x.end,
           y.stream = x.stream, y.seen = x.seen, y.dead = x.dead
    PROVE  /\ Fit(y, R) /\ Own(y) \subseteq Own(x) /\ t \notin Own(y) /\ y.end[t] = "no"
           /\ Heard(x) => Heard(y)
<1>1. Hand(y) = {} /\ Hand(x) = {} /\ Ring(y) = Ring(x)
  BY DEF Hand, Ring
<1>2. Own(y) \subseteq Own(x) /\ t \in Own(x)
  BY <1>1 DEF Own
<1>3. Apart(y)
  BY <1>1, <1>2 DEF Fit, Apart
<1>4. Sorted(y, R)
  BY <1>1 DEF Fit, Sorted
<1>5. t \notin Own(y)
  BY <1>1 DEF Own, Fit, Apart
<1>6. y.end[t] = "no"
  BY <1>2 DEF Fit, Apart
<1>7. Heard(x) => Heard(y)
  BY DEF Heard, RestHeard, HeadHeard, Attended
<1>8. QED
  BY <1>2, <1>3, <1>4, <1>5, <1>6, <1>7 DEF Fit

LEMMA OnceAddTimeout ==
    ASSUME IInv, Once, NEW b \in Buds, NEW t \in Tones, AddTimeout(b, t) PROVE Once'
<1> DEFINE x == bud[b]
           k == [x EXCEPT !.later = @ \ {t}]
<1>1. Fit(x, Rings) /\ Sound(x) /\ x.pc = "idle" /\ t \in x.later
  BY OnceFit DEF AddTimeout, Ready
<1>2. /\ Sound(k) /\ k.later = x.later \ {t} /\ k.retry = x.retry /\ k.list = x.list
      /\ k.pc = x.pc /\ k.tone = x.tone /\ k.ring = x.ring /\ k.end = x.end
      /\ k.stream = x.stream /\ k.seen = x.seen /\ k.dead = x.dead
  BY <1>1 DEF Sound, Bud
<1>3. PICK y \in tone_player_add(k, t, TRUE) : bud' = [bud EXCEPT ![b] = y]
  BY DEF AddTimeout
<1> HIDE DEF k
<1>4. t \notin x.retry /\ t \notin Rings /\ t \in Own(x)
  BY <1>1 DEF Fit, Apart, Sorted, Own
<1>5. /\ Fit(k, Rings) /\ Own(k) \subseteq Own(x) /\ t \notin Own(k) /\ k.end[t] = "no"
      /\ Heard(x) => Heard(k)
  BY <1>1, <1>2, <1>4, Less
<1>6. Steps(k, y, {t}, Rings) /\ y.retry = k.retry
  <2>1. Spare(k, t)
    BY <1>1, <1>2, <1>5, SpareNew
  <2>2. y.retry = k.retry
    BY <1>2, <1>3, AddSound DEF Adds
  <2>3. Steps(k, y, {t}, Rings)
    BY <1>3, <1>4, <1>5, <2>1, AddSteps
  <2>4. QED
    BY <2>2, <2>3
<1>7. Steps(x, y, {}, Rings)
  <2>1. Own(y) \subseteq Own(x) \cup {}
    BY <1>4, <1>5, <1>6 DEF Steps
  <2>2. \A u \in Tones : u \notin Own(x) \cup {} => y.end[u] = x.end[u]
    BY <1>2, <1>4, <1>5, <1>6 DEF Steps
  <2>3. QED
    BY <1>5, <1>6, <2>1, <2>2 DEF Steps
<1>8. QED
  BY <1>2, <1>3, <1>6, <1>7, OnceLocal DEF AddTimeout

LEMMA OncePlay ==
    ASSUME IInv, Once, NEW b \in Buds, NEW c \in Buds, tws_tone_play_in_task(b, c) PROVE Once'
<1> DEFINE x == bud[b]
           t == Head(air[b][c])
           k == IF Is(t, {"urgent"}) THEN tone_player_stop(x) ELSE x
<1>1. Fit(x, Rings) /\ Sound(x) /\ x.pc = "idle"
  BY OnceFit DEF tws_tone_play_in_task, Ready
<1>2. t \in Tones /\ t \in Sent(b)
  BY AirSound, SetTail DEF tws_tone_play_in_task, Sent
<1>3. t \notin Own(x) /\ x.end[t] = "no"
  BY <1>2 DEF Once, Messages
<1>4. Steps(x, k, {}, Rings) /\ k.pc = "idle" /\ Sound(k) /\ k.retry = x.retry
  BY <1>1, StopSteps, StepsSelf, AlikeStop, AlikeSelf DEF Alike
<1>5. PICK y \in Played(k, t) : bud' = [bud EXCEPT ![b] = y]
  BY DEF tws_tone_play_in_task
<1>6. /\ air[b][c] # <<>> /\ air' = [air EXCEPT ![b][c] = Tail(@)]
      /\ UNCHANGED <<ask, link, delivery, events>>
  BY DEF tws_tone_play_in_task
<1> HIDE DEF k
<1>7. Fit(k, Rings) /\ t \notin Own(k) /\ k.end[t] = "no"
  BY <1>2, <1>3, <1>4 DEF Steps
<1>8. Is(t, {"ring"}) <=> t \in Rings
  BY <1>2 DEF Rings
<1>9. Steps(k, y, {t}, Rings) /\ y.retry = k.retry
  BY <1>2, <1>4, <1>5, <1>7, <1>8, PlayedSteps, PlayedSound
<1>10. Steps(x, y, {t}, Rings)
  BY <1>4, <1>9, StepsMore, StepsTrans
<1> DEFINE q == Tail(air[b][c])
<1>11. air[b][c] \in Seq(Tones) /\ IsInjective(air[b][c])
  BY AirSound DEF Once, Messages
<1>12. /\ q \in Seq(Tones) /\ IsInjective(q) /\ t \notin ToSet(q)
       /\ ToSet(air[b][c]) = {t} \cup ToSet(q)
  BY <1>6, <1>11, InjTail
<1>13. air' = [air EXCEPT ![b][c] = q]
  BY <1>6
<1> HIDE DEF q, t
<1>14. y.retry \subseteq bud[b].retry
  BY <1>4, <1>9
<1>15. QED
  BY <1>2, <1>5, <1>6, <1>10, <1>12, <1>13, <1>14, OnceTake

LEMMA OnceRefuse ==
    ASSUME IInv, Once, NEW b \in Buds, NEW c \in Buds, Refuse(b, c) PROVE Once'
<1> DEFINE x == bud[b]
           s == air[b][c]
<1>1. Fit(x, Rings) /\ Sound(x)
  BY OnceFit
<1>2. PICK i \in 1..Len(s), z \in Struck("full", x),
           a \in IF b = c THEN {FALSE} ELSE {FALSE, x.adding} :
          LET last == b = c /\ z.sent /\ i = Len(s)
          IN  bud' = [bud EXCEPT ![b] = Drop([z EXCEPT !.adding = a, !.early = @ \/ last], s[i])]
              /\ air' = [air EXCEPT ![b][c] = RemoveAt(@, i)]
  BY DEF Refuse
<1> DEFINE last == b = c /\ z.sent /\ i = Len(s)
           t == s[i]
           q == RemoveAt(s, i)
           k == [z EXCEPT !.adding = a, !.early = @ \/ last]
           y == Drop(k, t)
<1>3. UNCHANGED <<ask, link, delivery, events>>
  BY DEF Refuse
<1>4. /\ t \in Tones /\ q \in Seq(Tones) /\ ToSet(s) = {t} \cup ToSet(q)
      /\ IsInjective(q) /\ t \notin ToSet(q)
  <2>1. s \in Seq(Tones) /\ IsInjective(s)
    BY AirSound DEF Once, Messages
  <2> HIDE DEF s
  <2>2. QED
    BY <2>1, SetRemove, InjRemove
<1>5. t \in Sent(b) /\ t \notin Own(x)
  <2>1. t \in Sent(b)
    BY <1>4 DEF Sent
  <2>2. QED
    BY <2>1 DEF Once, Messages
<1>6. Steps(x, z, {}, Rings) /\ Own(z) = Own(x) /\ z.end = x.end /\ Fit(z, Rings)
      /\ Same(x, z)
  BY <1>1, StruckSteps, StruckFields DEF Steps
<1>7. a \in BOOLEAN
  BY <1>1, <1>2 DEF Sound, Bud
<1>8. bud' = [bud EXCEPT ![b] = y] /\ air' = [air EXCEPT ![b][c] = q]
  BY <1>2
<1> HIDE DEF q, t
<1>9. Sound(k) /\ Same(z, k) /\ k.end = z.end /\ k.stream = z.stream /\ k.seen = z.seen
      /\ k.dead = z.dead
  BY <1>6, <1>7 DEF Fit, Sound, Bud, Same
<1> HIDE DEF k
<1>10. Steps(z, k, {}, Rings) /\ Own(k) = Own(z) /\ Fit(k, Rings)
  <2>1. \A u \in Own(z) : Attended(z, u) => Attended(k, u)
    BY <1>9 DEF Attended
  <2>2. Steps(z, k, {}, Rings)
    BY <1>6, <1>9, <2>1, SameSteps
  <2>3. QED
    BY <1>9, <2>2, SameOwn DEF Steps
<1>11. Steps(k, y, {t}, Rings) /\ y.retry = k.retry
  <2>1. Sent(b) \subseteq Tones /\ x.end[t] = "no"
    BY <1>5, SentTones DEF Once, Messages
  <2>2. QED
    BY <1>4, <1>5, <1>6, <1>9, <1>10, <2>1, DropSteps, AlikeDrop DEF Alike
<1> HIDE DEF y
<1>12. Steps(x, y, {t}, Rings)
  BY <1>6, <1>10, <1>11, StepsMore, StepsTrans
<1>13. y.retry = x.retry
  BY <1>6, <1>9, <1>11 DEF Same
<1>14. QED
  BY <1>3, <1>4, <1>8, <1>12, <1>13, OnceTake

\* What does not move a tone is not seen here: g_tws_tone_adding is set.
LEMMA OnceSetAdding == ASSUME IInv, Once, NEW b \in Buds, SetAdding(b) PROVE Once'
<1> DEFINE x == bud[b]
           y == [x EXCEPT !.sent = FALSE, !.adding = TRUE]
<1>1. Fit(x, Rings) /\ Sound(x)
  BY OnceFit
<1>2. bud' = [bud EXCEPT ![b] = y] /\ UNCHANGED <<ask, air, delivery>>
  BY DEF SetAdding, IInv
<1>3. /\ Sound(y) /\ Same(x, y) /\ y.end = x.end /\ y.stream = x.stream
      /\ y.seen = x.seen /\ y.dead = x.dead
  BY <1>1 DEF Sound, Bud, Same
<1> HIDE DEF y
<1>4. Steps(x, y, {}, Rings)
  <2>1. \A u \in Own(x) : Attended(x, u) => Attended(y, u)
    BY <1>3 DEF Attended
  <2>2. QED
    BY <1>1, <1>3, <2>1, SameSteps
<1>5. QED
  BY <1>2, <1>3, <1>4, OnceLocal DEF Same

\* The ring ends.
LEMMA RingFreed ==
    ASSUME NEW x, NEW R, Fit(x, R), x.ring # NoTone, NEW k, Sound(k),
           k.list = x.list, k.later = x.later, k.retry = x.retry, k.pc = x.pc,
           k.tone = x.tone, k.ring = NoTone, k.end = x.end, k.stream = x.stream,
           \A t \in Own(x) \ {x.ring} : t \in x.seen => t \in k.seen, k.dead = x.dead
    PROVE  LET y == tone_player_free(k, {x.ring})
           IN  Steps(x, y, {}, R) /\ y.retry = x.retry
<1> DEFINE y == tone_player_free(k, {x.ring})
<1>1. Ring(x) = {x.ring} /\ Ring(k) = {} /\ Hand(k) = Hand(x)
  BY DEF Ring, Hand
<1>2. Own(k) \subseteq Own(x) \ {x.ring} /\ x.ring \in Own(x) /\ Own(x) \subseteq Tones
  BY <1>1, FitTypes DEF Own, Fit, Apart
<1>3. Apart(k)
  BY <1>1, <1>2 DEF Fit, Apart
<1>4. Sorted(k, R)
  BY <1>1 DEF Fit, Sorted
<1>5. Heard(x) => Heard(k)
  <2>1. k.list # <<>> => Head(k.list) \in Own(k)
    <3>1. k.list \in Seq(Tones)
      BY FitTypes
    <3>2. QED
      BY <3>1, SetTail DEF Own
  <2>2. k.pc \in {"link", "ring"} => k.tone \in Own(k)
    BY DEF Own, Hand
  <2>3. \A t \in Own(k) : Attended(x, t) => Attended(k, t)
    BY <1>2 DEF Attended
  <2>4. QED
    BY <2>1, <2>2, <2>3 DEF Heard, RestHeard, HeadHeard
<1>6. Fit(k, R) /\ k.end[x.ring] = "no"
  BY <1>2, <1>3, <1>4 DEF Fit, Apart
<1>7. {x.ring} \cap Own(k) = {} /\ \A t \in {x.ring} \cap Tones : k.end[t] = "no"
  BY <1>2, <1>6
<1>8. Steps(k, y, {x.ring}, R) /\ Same(k, y)
  BY <1>6, <1>7, FreeSteps, FreeFields
<1> HIDE DEF y
<1>9. Own(y) \subseteq Own(x) \cup {}
  BY <1>2, <1>8 DEF Steps
<1>10. \A t \in Tones : t \notin Own(x) \cup {} => y.end[t] = x.end[t]
  BY <1>2, <1>8 DEF Steps
<1>11. Steps(x, y, {}, R) /\ y.retry = x.retry
  BY <1>5, <1>8, <1>9, <1>10 DEF Steps, Same
<1>12. QED
  BY <1>11 DEF y
LEMMA OnceStreamEnd ==
    ASSUME IInv, Once, NEW b \in Buds, NEW t \in Tones, StreamEnd(b, t) PROVE Once'
<1> DEFINE x == bud[b]
           S == IF delivery = "any" /\ ~Looked(x, t) THEN x.seen ELSE x.seen \cup {t}
           f == [x.stream EXCEPT ![t] = "over"]
           k == [x EXCEPT !.stream = f]
           y == [k EXCEPT !.seen = S]
<1>1. Fit(x, Rings) /\ Sound(x) /\ Own(x) \subseteq Tones
  BY OnceFit
<1>2. f \in [Tones -> {"none", "run", "over"}] /\ S \in SUBSET Tones
  BY <1>1 DEF Sound, Bud
<1>3. /\ \A u \in Tones \ {t} : f[u] = x.stream[u]
      /\ x.seen \subseteq S /\ (delivery = "app_core" => t \in S)
  BY <1>1, StreamEndTypes
<1>4. \/ bud' = [bud EXCEPT ![b] = y]
      \/ \E z \in Struck("failed", y) :
             bud' = [bud EXCEPT ![b] = [z EXCEPT !.failed = @ \cup {t}]]
  BY DEF StreamEnd
<1> HIDE DEF f, S
<1>5. Sound(k) /\ Same(x, k) /\ k.end = x.end /\ k.stream = f /\ k.seen = x.seen
      /\ k.dead = x.dead
  <2>1. Sound(k)
    BY <1>1, <1>2, AlikeStream DEF Alike
  <2>2. QED
    BY <1>1, <2>1 DEF Sound, Bud, Same
<1> HIDE DEF k
<1>6. Sound(y) /\ Same(k, y) /\ y.end = k.end /\ y.stream = k.stream /\ y.seen = S
      /\ y.dead = k.dead
  BY <1>2, <1>5 DEF Sound, Bud, Same
<1> HIDE DEF y
<1>7. \E z : /\ bud' = [bud EXCEPT ![b] = z] /\ Sound(z) /\ Same(x, z) /\ z.end = x.end
             /\ z.stream = f /\ z.seen = S /\ z.dead = x.dead
  <2>1. CASE bud' = [bud EXCEPT ![b] = y]
    BY <1>5, <1>6, <2>1 DEF Same
  <2>2. CASE \E z \in Struck("failed", y) :
                 bud' = [bud EXCEPT ![b] = [z EXCEPT !.failed = @ \cup {t}]]
    <3>1. PICK w \in Struck("failed", y) :
              bud' = [bud EXCEPT ![b] = [w EXCEPT !.failed = @ \cup {t}]]
      BY <2>2
    <3>2. /\ Sound(w) /\ Same(y, w) /\ w.seen = y.seen /\ w.dead = y.dead
          /\ w.end = y.end /\ w.stream = y.stream
      BY <1>6, StruckFields
    <3> DEFINE z == [w EXCEPT !.failed = @ \cup {t}]
    <3>3. Sound(z) /\ Same(w, z) /\ z.end = w.end /\ z.stream = w.stream /\ z.seen = w.seen
          /\ z.dead = w.dead
      BY <3>2 DEF Sound, Bud, Same
    <3> HIDE DEF z
    <3>4. Same(x, z)
      BY <1>5, <1>6, <3>2, <3>3 DEF Same
    <3>5. bud' = [bud EXCEPT ![b] = z]
      BY <3>1 DEF z
    <3>6. QED
      BY <1>5, <1>6, <3>2, <3>3, <3>4, <3>5
  <2>3. QED
    BY <1>4, <2>1, <2>2
<1>8. PICK z : /\ bud' = [bud EXCEPT ![b] = z] /\ Sound(z) /\ Same(x, z) /\ z.end = x.end
               /\ z.stream = f /\ z.seen = S /\ z.dead = x.dead
  BY <1>7
<1>9. Hand(z) = Hand(x) /\ Ring(z) = Ring(x) /\ Own(z) = Own(x)
  BY <1>8, SameOwn
<1>10. Fit(z, Rings)
  BY <1>1, <1>8, <1>9 DEF Fit, Apart, Sorted, Same
<1>11. CASE delivery = "app_core"
  <2>1. \A u \in Own(x) : Attended(x, u) => Attended(z, u)
    <3> SUFFICES ASSUME NEW u \in Own(x), Attended(x, u) PROVE Attended(z, u)
      OBVIOUS
    <3>1. CASE u = t
      BY <1>3, <1>8, <1>11, <3>1 DEF Attended
    <3>2. CASE u # t
      BY <1>1, <1>3, <1>8, <3>2 DEF Attended
    <3>3. QED
      BY <3>1, <3>2
  <2>2. Steps(x, z, {}, Rings)
    BY <1>1, <1>8, <2>1, SameSteps
  <2>3. QED
    BY <1>8, <2>2, OnceLocal DEF StreamEnd, Same
<1>12. CASE delivery # "app_core"
  <2> DEFINE T == {}
  <2>1. /\ T \subseteq Sent(b) /\ T \cap Sent(b)' = {}
        /\ \A u \in Tones : u \notin Own(x) \cup T => z.end[u] = x.end[u]
        /\ Own(z) \subseteq Own(x) \cup T /\ z.retry \subseteq x.retry
    BY <1>8, <1>9 DEF Same
  <2>2. /\ \A c, d \in Buds : c # b => air'[c][d] = air[c][d]
        /\ \A d \in Buds : IsInjective(air'[b][d]) /\ ToSet(air'[b][d]) \subseteq ToSet(air[b][d])
        /\ UNCHANGED <<ask, delivery>>
    BY DEF StreamEnd, Once, Messages
  <2> HIDE DEF T
  <2>3. QED
    BY <1>8, <1>10, <1>12, <2>1, <2>2, OnceStep
<1>13. QED
  BY <1>11, <1>12

\* A bud that meets a freed player is dead; it has its tones where it had them.
LEMMA OnceDead ==
    ASSUME IInv, Once, NEW b \in Buds, NEW y, bud' = [bud EXCEPT ![b] = y],
           Sound(y), Same(bud[b], y), y.end = bud[b].end,
           UNCHANGED <<ask, air, delivery>>, delivery # "app_core"
    PROVE  Once'
<1> DEFINE x == bud[b]
           T == {}
<1>1. Fit(x, Rings)
  BY OnceFit
<1>2. Hand(y) = Hand(x) /\ Ring(y) = Ring(x) /\ Own(y) = Own(x)
  BY SameOwn
<1>3. Fit(y, Rings)
  BY <1>1, <1>2 DEF Fit, Apart, Sorted, Same
<1>4. /\ T \subseteq Sent(b) /\ T \cap Sent(b)' = {}
      /\ \A u \in Tones : u \notin Own(x) \cup T => y.end[u] = x.end[u]
      /\ Own(y) \subseteq Own(x) \cup T /\ y.retry \subseteq x.retry
  BY <1>2 DEF Same
<1>5. /\ \A c, d \in Buds : c # b => air'[c][d] = air[c][d]
      /\ \A d \in Buds : IsInjective(air'[b][d]) /\ ToSet(air'[b][d]) \subseteq ToSet(air[b][d])
  BY DEF Once, Messages
<1> HIDE DEF T
<1>6. QED
  BY <1>3, <1>4, <1>5, OnceStep

LEMMA OnceStop == ASSUME IInv, Once, NEW b \in Buds, Stop(b) PROVE Once'
<1> DEFINE x == bud[b]
<1>1. Fit(x, Rings) /\ Sound(x) /\ Own(x) \subseteq Tones /\ x.pc = "idle"
  BY OnceFit DEF Stop, Ready
<1>2. \/ bud' = [bud EXCEPT ![b] = tone_player_stop(x)]
      \/ x.ring # NoTone /\ bud' = [bud EXCEPT ![b] = ring_player_stop(x)]
  BY DEF Stop, IInv
<1>3. UNCHANGED <<ask, air, delivery>>
  BY DEF Stop
<1>4. CASE bud' = [bud EXCEPT ![b] = tone_player_stop(x)]
  <2>1. Steps(x, tone_player_stop(x), {}, Rings)
    BY <1>1, StopSteps
  <2>2. tone_player_stop(x).retry = x.retry
    BY <1>1, AlikeStop DEF Alike
  <2>3. QED
    BY <1>3, <1>4, <2>1, <2>2, OnceLocal
<1>5. CASE x.ring # NoTone /\ bud' = [bud EXCEPT ![b] = ring_player_stop(x)]
  <2> DEFINE k == [x EXCEPT !.ring = NoTone]
             S == {x.ring}
             y == tone_player_free(k, S)
  <2>1. /\ Sound(k) /\ k.list = x.list /\ k.later = x.later /\ k.retry = x.retry
        /\ k.pc = x.pc /\ k.tone = x.tone /\ k.ring = NoTone /\ k.end = x.end
        /\ k.stream = x.stream /\ k.seen = x.seen /\ k.dead = x.dead
    BY <1>1 DEF Sound, Bud
  <2>2. bud' = [bud EXCEPT ![b] = y]
    BY <1>5 DEF ring_player_stop
  <2>3. Steps(x, y, {}, Rings) /\ y.retry = x.retry
    <3> HIDE DEF k
    <3>1. QED
      BY <1>1, <1>5, <2>1, RingFreed
  <2> HIDE DEF y, k, S
  <2>4. QED
    BY <1>3, <2>2, <2>3, OnceLocal
<1>6. QED
  BY <1>2, <1>4, <1>5

\* The callback of a tone that nobody waits for.
LEMMA SeenLost ==
    ASSUME NEW x, NEW R, Fit(x, R), x.pc = "idle", NEW t, t \notin Ring(x),
           x.list # <<>> => Head(x.list) # t, NEW y, Sound(y), Same(x, y), y.end = x.end,
           y.stream = x.stream, y.seen = x.seen \ {t}, y.dead = x.dead
    PROVE  Steps(x, y, {}, R)
<1>1. Hand(y) = Hand(x) /\ Ring(y) = Ring(x) /\ Own(y) = Own(x)
  BY SameOwn
<1>2. Fit(y, R)
  BY <1>1 DEF Fit, Apart, Sorted, Same
<1>3. x.ring # NoTone => x.ring # t
  BY DEF Ring
<1>4. Heard(x) => Heard(y)
  BY <1>3 DEF Heard, RestHeard, HeadHeard, Attended, Same
<1>5. QED
  BY <1>1, <1>2, <1>4 DEF Steps

LEMMA SeenFields ==
    ASSUME NEW x, Sound(x), NEW t
    PROVE  /\ LET w == [x EXCEPT !.seen = @ \ {t}]
              IN  /\ Sound(w) /\ Same(x, w) /\ w.end = x.end /\ w.stream = x.stream
                  /\ w.seen = x.seen \ {t} /\ w.dead = x.dead
           /\ LET w == [x EXCEPT !.seen = @ \ {t}, !.failed = @ \ {t}]
              IN  /\ Sound(w) /\ Same(x, w) /\ w.end = x.end /\ w.stream = x.stream
                  /\ w.seen = x.seen \ {t} /\ w.dead = x.dead
BY DEF Sound, Bud, Same

LEMMA GoneFields ==
    ASSUME NEW w, Sound(w), NEW y \in Gone(w)
    PROVE  /\ Sound(y) /\ Same(w, y) /\ y.end = w.end
           /\ delivery = "app_core" => y = w
<1>1. y = w \/ (delivery = "any" /\ y = [w EXCEPT !.dead = TRUE])
  BY DEF Gone
<1>2. Sound([w EXCEPT !.dead = TRUE]) /\ Same(w, [w EXCEPT !.dead = TRUE])
      /\ [w EXCEPT !.dead = TRUE].end = w.end
  BY DEF Sound, Bud, Same
<1>3. Same(w, w)
  BY DEF Same
<1>4. QED
  BY <1>1, <1>2, <1>3

LEMMA TailCut ==
    ASSUME NEW x, NEW R, Fit(x, R), x.list # <<>>, NEW t, t = Head(x.list)
    PROVE  LET k == [x EXCEPT !.list = Tail(@)]
           IN  Sound(k) /\ k.retry = x.retry /\ Cut(x, k, {t})
<1> DEFINE q == Tail(x.list)
<1>1. /\ q \in Seq(Tones) /\ IsInjective(q) /\ t \notin ToSet(q)
      /\ ToSet(x.list) = {t} \cup ToSet(q)
  BY FitTypes, InjTail DEF Fit, Apart
<1> HIDE DEF q
<1> DEFINE k == [x EXCEPT !.list = q]
<1>2. Sound(k) /\ k.retry = x.retry
  BY <1>1 DEF Fit, Sound, Bud
<1>3. Cut(x, k, {t})
  BY <1>1 DEF Fit, Sound, Bud, Cut
<1>4. QED
  BY <1>2, <1>3 DEF q

\* w and k are x in the callback of t, the head of its list: without it in k.
AtHead(x, w, k, t, R) ==
    /\ Fit(x, R) /\ t \in Tones \ R /\ x.list # <<>> /\ Head(x.list) = t
    /\ Sound(w) /\ Same(x, w) /\ w.end = x.end /\ w.stream = x.stream
    /\ w.seen = x.seen \ {t} /\ w.dead = x.dead
    /\ Sound(k) /\ k.retry = w.retry /\ Cut(w, k, {t})

\* What it leaves, when it plays the next tone.
NextLeft(x, y, R) ==
    /\ Fit(y, R) /\ Own(y) \subseteq Own(x) /\ y.retry = x.retry
    /\ x.pc = "idle" /\ Heard(x) => Heard(y)
    /\ \A u \in Tones : u \notin Own(x) => y.end[u] = x.end[u]

LEMMA NextSteps ==
    ASSUME NEW x, NEW w, NEW k, NEW t, NEW R, AtHead(x, w, k, t, R), NEW z \in NextPlays(k),
           NEW S, S = {t}, NEW y, y = tone_player_free(z, S)
    PROVE  NextLeft(x, y, R)
<1>a. /\ Fit(x, R) /\ t \in Tones /\ t \notin R /\ x.list # <<>> /\ Head(x.list) = t
      /\ Sound(w) /\ Same(x, w) /\ w.end = x.end /\ w.stream = x.stream
      /\ w.seen = x.seen \ {t} /\ w.dead = x.dead
      /\ Sound(k) /\ k.retry = w.retry /\ Cut(w, k, {t})
  BY DEF AtHead
<1>1. t \in Own(x) /\ Own(x) \subseteq Tones
  BY <1>a, FitTypes, InjTail DEF Fit, Apart, Own
<1>2. Hand(w) = Hand(x) /\ Ring(w) = Ring(x) /\ Own(w) = Own(x)
  BY <1>a, SameOwn
<1>3. Fit(w, R)
  BY <1>a, <1>2 DEF Fit, Apart, Sorted, Same
<1>4. w.list = x.list /\ w.retry = x.retry /\ w.pc = x.pc
  BY <1>a DEF Same
<1>7. z \in NextPlays(k) /\ Cut(w, k, {t}) /\ y = tone_player_free(z, {t})
  BY <1>a
<1>8. /\ Fit(k, R) /\ Own(k) \subseteq Own(x) /\ t \notin Own(k) /\ t \in Own(x)
      /\ k.end[t] = "no" /\ (RestHeard(w) => RestHeard(k))
  BY <1>a, <1>1, <1>2, <1>3, <1>7, CutFit
<1>9. /\ Fit(z, R) /\ Own(z) \subseteq Own(k) /\ (RestHeard(k) => Heard(z))
      /\ \A u \in Tones : u \notin Own(k) => z.end[u] = k.end[u]
  <2>1. k.list \in Seq(Tones) /\ Len(k.list) \in Nat
    BY <1>a, LenProperties DEF Sound, Bud
  <2>2. CASE z = PlayNext(k, 0)
    BY <1>a, <1>8, <2>1, <2>2, PlayNextSteps
  <2>3. CASE \E v \in Struck("no_start", k), n \in 1..Len(k.list) : z = PlayNext(v, n)
    <3>1. PICK v \in Struck("no_start", k), n \in 1..Len(k.list) : z = PlayNext(v, n)
      BY <2>3
    <3>2. /\ Sound(v) /\ Same(k, v) /\ v.seen = k.seen /\ v.dead = k.dead
          /\ v.end = k.end /\ v.stream = k.stream
      BY <1>a, StruckFields
    <3>3. Fit(v, R) /\ Own(v) = Own(k)
      BY <1>8, StruckSteps DEF Steps
    <3>4. RestHeard(k) => RestHeard(v)
      BY <3>2 DEF RestHeard, Attended, Same
    <3>5. n \in Nat /\ n <= Len(v.list)
      BY <2>1, <3>2 DEF Same
    <3>6. QED
      BY <3>1, <3>2, <3>3, <3>4, <3>5, PlayNextSteps
  <2>4. QED
    BY <1>7, <2>2, <2>3 DEF NextPlays
<1>10. z.retry = x.retry
  BY <1>a, <1>4, <1>7, AlikeNextPlays DEF Alike
<1>11. t \notin Own(z) /\ z.end[t] = "no"
  BY <1>a, <1>8, <1>9
<1>12. Steps(z, y, {t}, R) /\ y.retry = z.retry
  <2>1. {t} \cap Own(z) = {} /\ \A u \in {t} \cap Tones : z.end[u] = "no"
    BY <1>11
  <2>2. QED
    BY <1>7, <1>9, <2>1, FreeSteps, AlikeFree DEF Alike, Fit
<1>14. Own(y) \subseteq Own(x)
  BY <1>8, <1>9, <1>12 DEF Steps
<1>15. \A u \in Tones : u \notin Own(x) => y.end[u] = x.end[u]
  BY <1>a, <1>1, <1>7, <1>8, <1>9, <1>12 DEF Steps, Cut
<1>16. x.pc = "idle" /\ Heard(x) => Heard(y)
  <2>1. x.ring # NoTone => x.ring # t
    BY <1>a DEF Fit, Sorted, Ring
  <2>2. x.pc = "idle" /\ Heard(x) => RestHeard(w)
    BY <1>a, <2>1 DEF Heard, RestHeard, Attended, Same
  <2>3. QED
    BY <1>8, <1>9, <1>12, <2>2 DEF Steps
<1>17. QED
  BY <1>10, <1>12, <1>14, <1>15, <1>16 DEF Steps, NextLeft

LEMMA OnceCallback ==
    ASSUME IInv, Once, NEW b \in Buds, NEW t \in Tones, tone_player_callback(b, t) PROVE Once'
<1> DEFINE x == bud[b]
           w == [x EXCEPT !.seen = @ \ {t}, !.failed = @ \ {t}]
           second == [w EXCEPT !.second = @ \cup {t}]
<1>1. Fit(x, Rings) /\ Sound(x) /\ Own(x) \subseteq Tones /\ t \notin Rings
      /\ (delivery = "app_core" => x.pc = "idle")
  BY OnceFit DEF tone_player_callback, Runs, Ready, Rings
<1>2. /\ Sound(w) /\ Same(x, w) /\ w.end = x.end /\ w.stream = x.stream
      /\ w.seen = x.seen \ {t} /\ w.dead = x.dead
  BY <1>1, SeenFields
<1>3. t \notin Ring(x) /\ w.list = x.list /\ delivery \in {"app_core", "any"}
  BY <1>1, <1>2 DEF Fit, Sorted, Same, IInv, Around
<1>4. UNCHANGED <<ask, air, link, delivery, events>>
  BY DEF tone_player_callback
<1>5. \/ x.list = <<>> /\ \E y \in Gone(w) : bud' = [bud EXCEPT ![b] = y]
      \/ x.list # <<>> /\ Head(x.list) # t /\ bud' = [bud EXCEPT ![b] = w]
      \/ bud' = [bud EXCEPT ![b] = [second EXCEPT !.stream[t] = "run"]]
      \/ /\ x.list # <<>> /\ Head(x.list) = t
         /\ \E y \in NextPlays([w EXCEPT !.list = Tail(@)]) :
                bud' = [bud EXCEPT ![b] = tone_player_free(y, {t})]
  <2>1. [second EXCEPT !.stream[t] = "run"]
           = [w EXCEPT !.second = @ \cup {t}, !.stream[t] = "run"]
    BY <1>2 DEF Sound, Bud
  <2>2. QED
    BY <1>3, <2>1 DEF tone_player_callback, tone_player_runing
<1> HIDE DEF w
<1>6. ASSUME NEW y, bud' = [bud EXCEPT ![b] = y], Sound(y), Same(x, y), y.end = x.end,
             delivery = "app_core" => y = w /\ (x.list # <<>> => Head(x.list) # t)
      PROVE  Once'
  <2>1. CASE delivery = "app_core"
    <3>1. Steps(x, w, {}, Rings)
      BY <1>1, <1>2, <1>3, <1>6, <2>1, SeenLost
    <3>2. QED
      BY <1>2, <1>4, <1>6, <2>1, <3>1, OnceLocal DEF Same
  <2>2. CASE delivery # "app_core"
    BY <1>4, <1>6, <2>2, OnceDead
  <2>3. QED
    BY <2>1, <2>2
<1>7. CASE x.list = <<>> /\ \E y \in Gone(w) : bud' = [bud EXCEPT ![b] = y]
  <2>1. PICK y \in Gone(w) : bud' = [bud EXCEPT ![b] = y]
    BY <1>7
  <2>2. Sound(y) /\ Same(w, y) /\ y.end = w.end /\ (delivery = "app_core" => y = w)
    BY <1>2, GoneFields
  <2>3. Same(x, y)
    BY <1>2, <2>2 DEF Same
  <2>4. QED
    BY <1>2, <1>6, <1>7, <2>1, <2>2, <2>3
<1>8. CASE x.list # <<>> /\ Head(x.list) # t /\ bud' = [bud EXCEPT ![b] = w]
  BY <1>2, <1>6, <1>8
<1>9. CASE bud' = [bud EXCEPT ![b] = [second EXCEPT !.stream[t] = "run"]]
  <2> DEFINE y == [second EXCEPT !.stream[t] = "run"]
  <2>1. /\ Sound(second) /\ Same(w, second) /\ second.end = w.end
        /\ second.stream = w.stream /\ second.seen = w.seen /\ second.dead = w.dead
    BY <1>2 DEF Sound, Bud, Same
  <2> HIDE DEF second
  <2>2. /\ Sound(y) /\ Same(second, y) /\ y.seen = second.seen /\ y.dead = second.dead
        /\ y.end = second.end /\ y.stream[t] = "run"
        /\ \A u \in Tones \ {t} : y.stream[u] = second.stream[u]
    BY <2>1, RunFields
  <2> HIDE DEF y
  <2>3. Same(x, y)
    BY <1>2, <2>1, <2>2 DEF Same
  <2>4. \A u \in Own(x) : Attended(x, u) => Attended(y, u)
    <3> SUFFICES ASSUME NEW u \in Own(x), Attended(x, u) PROVE Attended(y, u)
      OBVIOUS
    <3>1. CASE u = t
      BY <3>1, <2>2 DEF Attended
    <3>2. CASE u # t
      BY <3>2, <1>1, <1>2, <2>1, <2>2 DEF Attended
    <3>3. QED
      BY <3>1, <3>2
  <2>5. Steps(x, y, {}, Rings)
    BY <1>1, <1>2, <2>1, <2>2, <2>3, <2>4, SameSteps
  <2>6. bud' = [bud EXCEPT ![b] = y]
    BY <1>9 DEF y
  <2>7. QED
    BY <1>4, <2>3, <2>5, <2>6, OnceLocal DEF Same
<1>10. CASE /\ x.list # <<>> /\ Head(x.list) = t
            /\ \E y \in NextPlays([w EXCEPT !.list = Tail(@)]) :
                   bud' = [bud EXCEPT ![b] = tone_player_free(y, {t})]
  <2> DEFINE k == [w EXCEPT !.list = Tail(@)]
  <2>1. PICK z \in NextPlays(k) : bud' = [bud EXCEPT ![b] = tone_player_free(z, {t})]
    BY <1>10
  <2> DEFINE S == {t}
             y == tone_player_free(z, S)
             T == {}
  <2>2. /\ Fit(y, Rings) /\ Own(y) \subseteq Own(x) /\ y.retry = x.retry
        /\ x.pc = "idle" /\ Heard(x) => Heard(y)
        /\ \A u \in Tones : u \notin Own(x) => y.end[u] = x.end[u]
    <3>1. Fit(w, Rings)
      BY <1>1, <1>2, SameOwn DEF Fit, Apart, Sorted, Same
    <3>2. Sound(k) /\ k.retry = w.retry /\ Cut(w, k, S)
      BY <1>3, <1>10, <3>1, TailCut
    <3>3. AtHead(x, w, k, t, Rings)
      <4> HIDE DEF k, second
      <4>1. QED
        BY <1>1, <1>2, <1>10, <3>2 DEF AtHead
    <3>4. y = tone_player_free(z, S) /\ S = {t}
      OBVIOUS
    <3> HIDE DEF k, x, y, S, T, second
    <3>5. NextLeft(x, y, Rings)
      BY <2>1, <3>3, <3>4, NextSteps
    <3>6. QED
      BY <3>5 DEF NextLeft
  <2>3. bud' = [bud EXCEPT ![b] = y]
    BY <2>1
  <2> HIDE DEF y
  <2>4. /\ T \subseteq Sent(b) /\ T \cap Sent(b)' = {}
        /\ \A u \in Tones : u \notin Own(x) \cup T => y.end[u] = x.end[u]
        /\ Own(y) \subseteq Own(x) \cup T /\ y.retry \subseteq x.retry
        /\ delivery = "app_core" /\ Heard(x) => Heard(y)
    BY <1>1, <2>2
  <2>5. /\ \A c, d \in Buds : c # b => air'[c][d] = air[c][d]
        /\ \A d \in Buds : IsInjective(air'[b][d]) /\ ToSet(air'[b][d]) \subseteq ToSet(air[b][d])
    BY <1>4 DEF Once, Messages
  <2> HIDE DEF T
  <2>6. QED
    BY <1>4, <2>2, <2>3, <2>4, <2>5, OnceStep
<1>11. QED
  BY <1>5, <1>7, <1>8, <1>9, <1>10

LEMMA OnceRingCallback ==
    ASSUME IInv, Once, NEW b \in Buds, NEW t \in Tones, ring_player_callback(b, t) PROVE Once'
<1> DEFINE x == bud[b]
           w == [x EXCEPT !.seen = @ \ {t}]
           k == [w EXCEPT !.ring = NoTone]
<1>1. Fit(x, Rings) /\ Sound(x) /\ Own(x) \subseteq Tones /\ t \in Rings
      /\ (delivery = "app_core" => x.pc = "idle")
  BY OnceFit DEF ring_player_callback, Runs, Ready, Rings
<1>2. /\ Sound(w) /\ Same(x, w) /\ w.end = x.end /\ w.stream = x.stream
      /\ w.seen = x.seen \ {t} /\ w.dead = x.dead
  BY <1>1, SeenFields
<1>3. UNCHANGED <<ask, air, link, delivery, events>> /\ delivery \in {"app_core", "any"}
  BY DEF ring_player_callback, IInv, Around
<1>4. \/ x.ring = t /\ bud' = [bud EXCEPT ![b] = tone_player_free(k, {t})]
      \/ x.ring # t /\ \E y \in Gone(w) : bud' = [bud EXCEPT ![b] = y]
  <2>1. w.ring = x.ring
    BY <1>2 DEF Same
  <2>2. QED
    BY <2>1 DEF ring_player_callback
<1> HIDE DEF w
<1>5. CASE x.ring = t /\ bud' = [bud EXCEPT ![b] = tone_player_free(k, {t})]
  <2>1. /\ Sound(k) /\ k.list = w.list /\ k.later = w.later /\ k.retry = w.retry
        /\ k.pc = w.pc /\ k.tone = w.tone /\ k.ring = NoTone /\ k.end = w.end
        /\ k.stream = w.stream /\ k.seen = w.seen /\ k.dead = w.dead
    BY <1>2 DEF Sound, Bud
  <2> HIDE DEF k
  <2>2. x.ring # NoTone
    BY <1>5 DEF Tones, NoTone
  <2>3. \A u \in Own(x) \ {x.ring} : u \in x.seen => u \in k.seen
    BY <1>2, <1>5, <2>1
  <2> DEFINE y == tone_player_free(k, {t})
  <2>4. Steps(x, y, {}, Rings) /\ y.retry = x.retry
    BY <1>1, <1>2, <1>5, <2>1, <2>2, <2>3, RingFreed DEF Same
  <2> HIDE DEF y
  <2>5. bud' = [bud EXCEPT ![b] = y]
    BY <1>5 DEF y
  <2>6. QED
    BY <1>3, <2>4, <2>5, OnceLocal
<1>6. CASE x.ring # t /\ \E y \in Gone(w) : bud' = [bud EXCEPT ![b] = y]
  <2>1. PICK y \in Gone(w) : bud' = [bud EXCEPT ![b] = y]
    BY <1>6
  <2>2. Sound(y) /\ Same(w, y) /\ y.end = w.end /\ (delivery = "app_core" => y = w)
    BY <1>2, GoneFields
  <2>3. Same(x, y) /\ y.end = x.end
    BY <1>2, <2>2 DEF Same
  <2>4. CASE delivery = "app_core"
    <3>1. x.list # <<>> => Head(x.list) # t
      <4>1. x.list # <<>> => Head(x.list) \in ToSet(x.list)
        BY <1>1, FitTypes, SetTail
      <4>2. QED
        BY <4>1, <1>1 DEF Fit, Sorted
    <3>2. t \notin Ring(x)
      BY <1>6 DEF Ring
    <3>3. Steps(x, w, {}, Rings)
      BY <1>1, <1>2, <2>4, <3>1, <3>2, SeenLost
    <3>4. QED
      BY <1>2, <1>3, <2>1, <2>2, <2>4, <3>3, OnceLocal DEF Same
  <2>5. CASE delivery # "app_core"
    BY <1>3, <2>1, <2>2, <2>3, <2>5, OnceDead
  <2>6. QED
    BY <2>4, <2>5
<1>7. QED
  BY <1>4, <1>5, <1>6

LEMMA OnceLinkLost == ASSUME IInv, Once, LinkLost PROVE Once'
<1> DEFINE gone(b) == {t \in Tones : \E c \in Others(b) : t \in ToSet(air[b][c])}
           en(b) == [t \in Tones |-> IF t \in gone(b) THEN "dropped" ELSE bud[b].end[t]]
<1>1. \A b \in Buds : bud'[b] = [bud[b] EXCEPT !.end = en(b)]
  BY DEF LinkLost
<1>2. /\ \A b \in Buds : air'[b][b] = air[b][b]
      /\ \A b, c \in Buds : c # b => air'[b][c] = <<>>
      /\ UNCHANGED <<ask, delivery>>
  BY DEF LinkLost
<1>3. /\ ToSet(<<>>) = {} /\ IsInjective(<<>>)
      /\ \A b, c \in Buds : ToSet(air[b][c]) \subseteq Tones
  BY SetNone, InjEmpty, AirSound
<1>4. /\ \A b, c \in Buds : IsInjective(air'[b][c])
      /\ \A b, c \in Buds : ToSet(air'[b][c]) \subseteq ToSet(air[b][c])
      /\ \A b, c \in Buds : c # b => ToSet(air'[b][c]) = {}
  <2> SUFFICES ASSUME NEW b \in Buds, NEW c \in Buds
               PROVE  /\ IsInjective(air'[b][c]) /\ ToSet(air'[b][c]) \subseteq ToSet(air[b][c])
                      /\ c # b => ToSet(air'[b][c]) = {}
    OBVIOUS
  <2>1. CASE c = b
    BY <2>1, <1>2 DEF Once, Messages
  <2>2. CASE c # b
    BY <2>2, <1>2, <1>3
  <2>3. QED
    BY <2>1, <2>2
<1>5. \A b \in Buds : Sent(b)' \subseteq Sent(b) \ gone(b) /\ gone(b) \subseteq Sent(b)
  <2> TAKE b \in Buds
  <2>1. Sent(b)' = ToSet(air[b][b])
    <3>1. air'[b][b] = air[b][b] /\ \A c \in Buds : c # b => ToSet(air'[b][c]) = {}
      BY <1>2, <1>4
    <3> DEFINE s == [c \in Buds |-> ToSet(air'[b][c])]
    <3>2. s[b] = ToSet(air[b][b]) /\ \A c \in Buds : c # b => s[c] = {}
      BY <3>1
    <3>3. Sent(b)' = UNION {s[c] : c \in Buds}
      BY DEF Sent
    <3> HIDE DEF s
    <3>4. QED
      BY <3>2, <3>3
  <2>2. \A c \in Others(b) : ToSet(air[b][c]) \cap ToSet(air[b][b]) = {}
    BY DEF Others, Once, Messages
  <2>3. Sent(b)' \cap gone(b) = {}
    BY <2>1, <2>2
  <2>4. QED
    BY <2>1, <2>3 DEF Sent, Others
<1>6. ASSUME NEW b \in Buds
      PROVE  /\ Steps(bud[b], bud'[b], gone(b), Rings) /\ Same(bud[b], bud'[b])
             /\ \A t \in Tones : t \notin gone(b) => bud'[b].end[t] = bud[b].end[t]
  <2> DEFINE S == gone(b)
             f == en(b)
             x == bud[b]
             y == bud'[b]
  <2>1. Fit(x, Rings) /\ Sound(x)
    BY OnceFit
  <2>2. /\ f \in [Tones -> {"no", "once", "twice", "dropped"}]
        /\ \A t \in Tones : /\ t \notin S => f[t] = x.end[t]
                            /\ t \in S => f[t] = "dropped"
    BY <2>1, StreamEndTypes
  <2>3. y = [x EXCEPT !.end = f]
    BY <1>1
  <2>4. S \cap Own(x) = {}
    BY <1>5 DEF Once, Messages
  <2> HIDE DEF S, f, x, y
  <2>5. Sound(y) /\ y.dead = x.dead /\ y.end = f
    BY <2>1, <2>2, <2>3 DEF Sound, Bud
  <2>6. Same(x, y) /\ y.seen = x.seen /\ y.stream = x.stream
    BY <2>1, <2>3 DEF Sound, Bud, Same
  <2>7. \A t \in Own(x) : Attended(x, t) => Attended(y, t)
    BY <2>6 DEF Attended
  <2>8. Steps(x, y, S, Rings)
    BY <2>1, <2>2, <2>4, <2>5, <2>7, <2>6, SameSteps
  <2>9. QED
    BY <2>2, <2>5, <2>8, <2>6 DEF S, x, y
<1>7. Rings' = Rings
  BY <1>2 DEF Rings, Is
<1> HIDE DEF gone, en
<1>8. \A b \in Buds : Own(bud'[b]) = Own(bud[b])
  BY <1>6, SameOwn
<1>9. Fits'
  BY <1>6, <1>7 DEF Fits, Steps
<1>10. AllHeard'
  BY <1>2, <1>6 DEF Once, AllHeard, Steps
<1>11. Messages'
  <2>1. \A b, c, d \in Buds : c # d => ToSet(air'[b][c]) \cap ToSet(air'[b][d]) = {}
    BY <1>4
  <2>2. \A b \in Buds : \A t \in Sent(b)' : t \notin Own(bud'[b]) /\ bud'[b].end[t] = "no"
    <3> SUFFICES ASSUME NEW b \in Buds, NEW t \in Sent(b)'
                 PROVE  t \notin Own(bud'[b]) /\ bud'[b].end[t] = "no"
      OBVIOUS
    <3>1. t \in Sent(b) /\ t \notin gone(b) /\ t \in Tones
      BY <1>5, SentTones
    <3>2. t \notin Own(bud[b]) /\ bud[b].end[t] = "no"
      BY <3>1 DEF Once, Messages
    <3>3. QED
      BY <3>1, <3>2, <1>6, <1>8
  <2>3. QED
    BY <1>4, <2>1, <2>2 DEF Messages
<1>12. Unasked'
  <2> SUFFICES ASSUME NEW t \in Tones, NEW b \in Buds, Is(t, {"none"})
               PROVE  t \notin Sent(b)' \cup Own(bud'[b]) /\ bud'[b].end[t] = "no"
    BY <1>2 DEF Unasked, Is
  <2>1. t \notin Sent(b) \cup Own(bud[b]) /\ bud[b].end[t] = "no"
    BY DEF Once, Unasked
  <2>2. QED
    BY <2>1, <1>5, <1>6, <1>8
<1>13. Waits'
  <2> SUFFICES ASSUME NEW b \in Buds, NEW c \in Buds, NEW t \in bud'[b].retry
               PROVE  t \notin Sent(c)' /\ bud'[c].end[t] = "no" /\ (c # b => t \notin Own(bud'[c]))
    BY DEF Waits
  <2>1. t \in bud[b].retry /\ t \in Tones
    BY <1>6, OnceFit DEF Same, Own
  <2>2. t \notin Sent(c) /\ bud[c].end[t] = "no" /\ (c # b => t \notin Own(bud[c]))
    BY <2>1 DEF Once, Waits
  <2>3. QED
    BY <2>1, <2>2, <1>5, <1>6, <1>8
<1>14. QED
  BY <1>9, <1>10, <1>11, <1>12, <1>13 DEF Once

LEMMA OnceLinkUp == ASSUME Once, LinkUp PROVE Once'
<1>1. UNCHANGED <<bud, ask, air, delivery>>
  BY DEF LinkUp
<1>2. Rings' = Rings /\ \A b \in Buds : Sent(b)' = Sent(b)
  BY <1>1 DEF Rings, Sent, Is
<1>3. Fits' /\ AllHeard'
  BY <1>1, <1>2 DEF Once, Fits, AllHeard
<1>4. Messages'
  BY <1>1, <1>2 DEF Once, Messages
<1>5. Unasked' /\ Waits'
  BY <1>1, <1>2 DEF Once, Unasked, Waits, Is
<1>6. QED
  BY <1>3, <1>4, <1>5 DEF Once

(***************************************************************************)
(* A tone is asked for, or asked for again by its timer.                   *)
(***************************************************************************)

\* t is not at another bud than b, nor under way to one, and has not ended.
Fresh(b, t) ==
    \A c \in Buds : t \notin Sent(c) /\ bud[c].end[t] = "no" /\ (c # b => t \notin Own(bud[c]))

\* Whether t is a ring is not seen where it is not.
LEMMA FitOther ==
    ASSUME NEW x, NEW R, Fit(x, R), NEW t, t \notin Own(x), NEW S,
           \A u \in Tones \ {t} : u \in S <=> u \in R, S \subseteq Tones
    PROVE  Fit(x, S)
<1>1. Own(x) \subseteq Tones
  BY FitTypes
<1>2. \A u \in Own(x) : u \in S <=> u \in R
  BY <1>1
<1>3. /\ ToSet(x.list) \cup x.later \subseteq Own(x) /\ Ring(x) \subseteq Own(x)
      /\ x.pc # "idle" => x.tone \in Own(x)
  BY DEF Own, Hand
<1>4. Sorted(x, S)
  BY <1>2, <1>3 DEF Fit, Sorted
<1>5. QED
  BY <1>4 DEF Fit

\* The tone waits on the timer.
LEMMA IntoRetry ==
    ASSUME NEW x, NEW R, Fit(x, R), NEW t \in Tones, t \notin Own(x), x.end[t] = "no"
    PROVE  LET y == [x EXCEPT !.retry = @ \cup {t}]
           IN  Steps(x, y, {t}, R) /\ y.retry = x.retry \cup {t}
<1> DEFINE y == [x EXCEPT !.retry = @ \cup {t}]
<1>1. /\ Sound(y) /\ y.retry = x.retry \cup {t} /\ y.later = x.later /\ y.list = x.list
      /\ y.pc = x.pc /\ y.tone = x.tone /\ y.ring = x.ring /\ y.end = x.end
      /\ y.stream = x.stream /\ y.seen = x.seen /\ y.dead = x.dead
  BY DEF Fit, Sound, Bud
<1> HIDE DEF y
<1>2. Hand(y) = Hand(x) /\ Ring(y) = Ring(x)
  BY <1>1 DEF Hand, Ring
<1>3. Own(y) = Own(x) \cup {t}
  BY <1>1, <1>2 DEF Own
<1>4. Apart(y)
  <2>1. \A u \in Own(y) : y.end[u] = "no"
    BY <1>1, <1>3 DEF Fit, Apart
  <2>2. t \notin ToSet(x.list) \cup x.later \cup Hand(x) \cup Ring(x)
    BY DEF Own
  <2>3. QED
    BY <1>1, <1>2, <2>1, <2>2 DEF Fit, Apart
<1>5. Sorted(y, R)
  BY <1>1, <1>2 DEF Fit, Sorted
<1>6. Heard(x) => Heard(y)
  BY <1>1 DEF Heard, RestHeard, HeadHeard, Attended
<1>7. Steps(x, y, {t}, R)
  BY <1>1, <1>3, <1>4, <1>5, <1>6 DEF Steps, Fit
<1>8. QED
  BY <1>1, <1>7 DEF y

\* b, with y for its bud, has t or has sent it to all.
LEMMA OnceAsk ==
    ASSUME IInv, Once, NEW b \in Buds, NEW t \in Tones, Fresh(b, t), NEW r, r.kind # "none",
           ask' = [ask EXCEPT ![t] = r], NEW y, bud' = [bud EXCEPT ![b] = y],
           Fit(y, Rings'), Own(y) \subseteq Own(bud[b]) \cup {t},
           \A u \in Tones \ {t} : u \notin Own(bud[b]) => y.end[u] = bud[b].end[u],
           Heard(bud[b]) => Heard(y), UNCHANGED delivery,
           \/ UNCHANGED air /\ y.retry \subseteq bud[b].retry \cup {t}
           \/ /\ air' = [c \in Buds |-> [air[c] EXCEPT ![b] = Append(@, t)]]
              /\ y.retry \subseteq bud[b].retry
              /\ t \notin Own(y) /\ y.end[t] = "no"
    PROVE  Once'
<1>1. bud'[b] = y /\ \A c \in Buds : c # b => bud'[c] = bud[c]
  BY DEF IInv
<1>2. ask'[t] = r /\ \A u \in Tones \ {t} : ask'[u] = ask[u]
  BY DEF IInv, Around
<1>3. \A u \in Tones \ {t} : u \in Rings' <=> u \in Rings
  BY <1>2 DEF Rings, Is
<1>4. Own(y) \subseteq Tones /\ \A c \in Buds : Own(bud[c]) \subseteq Tones
  BY OnceFit, FitTypes
<1> DEFINE sent == air' = [c \in Buds |-> [air[c] EXCEPT ![b] = Append(@, t)]]
<1>5. sent => t \notin Own(y) /\ t \notin y.retry /\ y.end[t] = "no"
  <2>1. CASE sent /\ UNCHANGED air
    <3>1. air'[b][b] = air[b][b] /\ air'[b][b] = Append(air[b][b], t)
      BY <2>1 DEF IInv, Around
    <3>2. t \in ToSet(air[b][b])
      BY <3>1, AirSound, SetAppend
    <3>3. QED
      BY <3>2 DEF Fresh, Sent
  <2>2. CASE sent /\ t \notin Own(y) /\ y.end[t] = "no"
    BY <2>2 DEF Own
  <2>3. QED
    BY <2>1, <2>2
<1>6. \A c, d \in Buds : \/ air'[c][d] = air[c][d]
                         \/ sent /\ d = b /\ air'[c][d] = Append(air[c][d], t)
  <2>1. CASE UNCHANGED air
    BY <2>1
  <2>2. CASE sent
    <3> SUFFICES ASSUME NEW c \in Buds, NEW d \in Buds
                 PROVE  air'[c][d] = IF d = b THEN Append(air[c][d], t) ELSE air[c][d]
      BY <2>2
    <3>1. air'[c] = [air[c] EXCEPT ![b] = Append(@, t)] /\ air[c] \in [Buds -> Seq(Tones)]
      BY <2>2 DEF IInv, Around
    <3>2. QED
      BY <3>1
  <2>3. QED
    BY <2>1, <2>2
<1> HIDE DEF sent
<1>7. \A c, d \in Buds : /\ IsInjective(air'[c][d])
                         /\ \/ ToSet(air'[c][d]) = ToSet(air[c][d])
                            \/ sent /\ d = b /\ ToSet(air'[c][d]) = ToSet(air[c][d]) \cup {t}
  <2> TAKE c \in Buds, d \in Buds
  <2>1. air[c][d] \in Seq(Tones) /\ IsInjective(air[c][d]) /\ t \notin ToSet(air[c][d])
    BY AirSound DEF Once, Messages, Fresh, Sent
  <2>2. ToSet(Append(air[c][d], t)) = ToSet(air[c][d]) \cup {t}
        /\ IsInjective(Append(air[c][d], t))
    BY <2>1, InjAppend, SetAppend
  <2>3. QED
    BY <2>1, <2>2, <1>6
<1>8. \A c \in Buds : /\ Sent(c)' \subseteq Sent(c) \cup {t}
                      /\ t \in Sent(c)' => sent
  <2> TAKE c \in Buds
  <2>1. \A d \in Buds : t \notin ToSet(air[c][d])
    BY DEF Fresh, Sent
  <2>2. Sent(c)' = UNION {ToSet(air'[c][d]) : d \in Buds}
    BY DEF Sent
  <2>3. ASSUME NEW u \in Sent(c)' PROVE u \in Sent(c) \cup {t} /\ (u = t => sent)
    <3>1. PICK d \in Buds : u \in ToSet(air'[c][d])
      BY <2>2
    <3>2. \/ u \in ToSet(air[c][d])
          \/ sent /\ u = t
      <4>1. \/ ToSet(air'[c][d]) = ToSet(air[c][d])
            \/ sent /\ ToSet(air'[c][d]) = ToSet(air[c][d]) \cup {t}
        BY <1>7
      <4>2. QED
        BY <3>1, <4>1
    <3>3. u \in ToSet(air[c][d]) => u \in Sent(c) /\ u # t
      BY <2>1 DEF Sent
    <3>4. QED
      BY <3>2, <3>3
  <2>4. QED
    BY <2>3
<1>9. Fits'
  <2> SUFFICES ASSUME NEW c \in Buds PROVE Fit(bud'[c], Rings')
    BY DEF Fits
  <2>1. CASE c = b
    BY <2>1, <1>1
  <2>2. CASE c # b
    <3> DEFINE S == Rings'
    <3>1. Fit(bud[c], Rings) /\ t \notin Own(bud[c]) /\ S \subseteq Tones
      BY <2>2, OnceFit DEF Fresh, Rings
    <3>2. \A u \in Tones \ {t} : u \in S <=> u \in Rings
      BY <1>3
    <3> HIDE DEF S
    <3>3. Fit(bud[c], S)
      BY <3>1, <3>2, FitOther
    <3>4. QED
      BY <3>3, <2>2, <1>1 DEF S
  <2>3. QED
    BY <2>1, <2>2
<1>10. AllHeard'
  BY <1>1 DEF AllHeard, Once
<1>11. Messages'
  <2>1. \A c, d, e \in Buds : d # e => ToSet(air'[c][d]) \cap ToSet(air'[c][e]) = {}
    <3> SUFFICES ASSUME NEW c \in Buds, NEW d \in Buds, NEW e \in Buds, d # e
                 PROVE  ToSet(air'[c][d]) \cap ToSet(air'[c][e]) = {}
      OBVIOUS
    <3>1. ToSet(air[c][d]) \cap ToSet(air[c][e]) = {}
      BY DEF Once, Messages
    <3>2. t \notin ToSet(air[c][d]) \cup ToSet(air[c][e])
      BY DEF Fresh, Sent
    <3>3. ToSet(air'[c][d]) = ToSet(air[c][d]) \/ ToSet(air'[c][e]) = ToSet(air[c][e])
      BY <1>7
    <3>4. /\ ToSet(air'[c][d]) \subseteq ToSet(air[c][d]) \cup {t}
          /\ ToSet(air'[c][e]) \subseteq ToSet(air[c][e]) \cup {t}
      BY <1>7
    <3>5. QED
      BY <3>1, <3>2, <3>3, <3>4
  <2>2. \A c \in Buds : \A u \in Sent(c)' : u \notin Own(bud'[c]) /\ bud'[c].end[u] = "no"
    <3> SUFFICES ASSUME NEW c \in Buds, NEW u \in Sent(c)'
                 PROVE  u \notin Own(bud'[c]) /\ bud'[c].end[u] = "no"
      OBVIOUS
    <3>1. CASE u = t
      BY <3>1, <1>1, <1>5, <1>8 DEF Fresh
    <3>2. CASE u # t
      <4>1. u \in Sent(c) /\ u \in Tones \ {t}
        BY <3>2, <1>8, SentTones
      <4>2. u \notin Own(bud[c]) /\ bud[c].end[u] = "no"
        BY <4>1 DEF Once, Messages
      <4>3. QED
        BY <4>1, <4>2, <1>1
    <3>3. QED
      BY <3>1, <3>2
  <2>3. QED
    BY <1>7, <2>1, <2>2 DEF Messages
<1>12. Unasked'
  <2> SUFFICES ASSUME NEW u \in Tones, NEW c \in Buds, ask'[u].kind = "none"
               PROVE  u \notin Sent(c)' \cup Own(bud'[c]) /\ bud'[c].end[u] = "no"
    BY SMTT(30) DEF Unasked, Is
  <2>1. u # t /\ Is(u, {"none"})
    BY <1>2 DEF Is
  <2>2. u \notin Sent(c) \cup Own(bud[c]) /\ bud[c].end[u] = "no"
    BY <2>1 DEF Once, Unasked
  <2>3. QED
    BY <2>1, <2>2, <1>1, <1>8
<1>13. Waits'
  <2> SUFFICES ASSUME NEW c \in Buds, NEW d \in Buds, NEW u \in bud'[c].retry
               PROVE  u \notin Sent(d)' /\ bud'[d].end[u] = "no" /\ (d # c => u \notin Own(bud'[d]))
    BY DEF Waits
  <2>1. CASE u = t
    <3>1. c = b
      BY <2>1, <1>1 DEF Fresh, Own
    <3>2. t \in Own(y)
      BY <2>1, <3>1, <1>1 DEF Own
    <3>3. y.end[t] = "no"
      BY <3>2 DEF Fit, Apart
    <3>4. t \notin Sent(d)'
      BY <3>2, <1>5, <1>8
    <3>5. QED
      BY <2>1, <3>1, <3>3, <3>4, <1>1 DEF Fresh
  <2>2. CASE u # t
    <3>1. u \in bud[c].retry /\ u \in Own(bud[c]) /\ u \in Tones \ {t}
      <4>1. u \in bud[c].retry
        BY <2>2, <1>1
      <4>2. QED
        BY <2>2, <4>1, <1>4 DEF Own
    <3>2. u \notin Sent(d) /\ bud[d].end[u] = "no" /\ (d # c => u \notin Own(bud[d]))
      BY <3>1 DEF Once, Waits
    <3>3. u \notin Sent(d)'
      BY <2>2, <3>2, <1>8
    <3>4. CASE d # b
      BY <3>2, <3>3, <3>4, <1>1
    <3>5. CASE d = b /\ c # b
      BY <3>1, <3>2, <3>3, <3>5, <1>1
    <3>6. CASE d = b /\ c = b
      <4>1. u \in Own(y)
        BY <3>6, <1>1 DEF Own
      <4>2. y.end[u] = "no"
        BY <4>1 DEF Fit, Apart
      <4>3. QED
        BY <3>3, <3>6, <4>2, <1>1
    <3>7. QED
      BY <3>4, <3>5, <3>6
  <2>3. QED
    BY <2>1, <2>2
<1>14. QED
  BY <1>9, <1>10, <1>11, <1>12, <1>13 DEF Once

\* x is the bud, or the bud with t off its timer.
Freed(b, x, t) ==
    /\ Fit(x, Rings) /\ x.pc = "idle" /\ t \notin Own(x) /\ x.end = bud[b].end
    /\ Own(x) \subseteq Own(bud[b]) /\ x.retry \subseteq bud[b].retry
    /\ Heard(bud[b]) => Heard(x)

\* Once t is asked for as r, x is still in order.
LEMMA AskFit ==
    ASSUME IInv, NEW b \in Buds, NEW t \in Tones, NEW x, Freed(b, x, t), Fresh(b, t),
           NEW r, ask' = [ask EXCEPT ![t] = r]
    PROVE  Fit(x, Rings') /\ (r.kind = "ring" <=> t \in Rings') /\ x.end[t] = "no"
<1> DEFINE S == Rings'
<1>1. ask'[t] = r /\ \A u \in Tones \ {t} : ask'[u] = ask[u]
  BY DEF IInv, Around
<1>2. /\ \A u \in Tones \ {t} : u \in S <=> u \in Rings
      /\ r.kind = "ring" <=> t \in S
      /\ S \subseteq Tones
  BY <1>1 DEF Rings, Is
<1>3. Fit(x, Rings) /\ t \notin Own(x) /\ x.end[t] = "no"
  BY DEF Freed, Fresh
<1> HIDE DEF S
<1>4. Fit(x, S)
  BY <1>2, <1>3, FitOther
<1>5. QED
  BY <1>2, <1>3, <1>4 DEF S

\* What a step from x owes to OnceAsk.
LEMMA AskSteps ==
    ASSUME NEW b \in Buds, NEW t \in Tones, NEW x, Freed(b, x, t), NEW S, NEW y, NEW T,
           T \subseteq {t}, Steps(x, y, T, S)
    PROVE  /\ Fit(y, S) /\ Own(y) \subseteq Own(bud[b]) \cup T
           /\ \A u \in Tones \ {t} : u \notin Own(bud[b]) => y.end[u] = bud[b].end[u]
           /\ Heard(bud[b]) => Heard(y)
<1>1. Own(y) \subseteq Own(bud[b]) \cup T
  BY DEF Freed, Steps
<1>2. \A u \in Tones \ {t} : u \notin Own(bud[b]) => y.end[u] = bud[b].end[u]
  BY DEF Freed, Steps
<1>3. QED
  BY <1>1, <1>2 DEF Freed, Steps

\* The bud plays t by itself.
LEMMA OncePlayHere ==
    ASSUME IInv, Once, NEW b \in Buds, NEW t \in Tones, NEW x, Freed(b, x, t), Fresh(b, t),
           NEW r, r.kind # "none", ask' = [ask EXCEPT ![t] = r],
           NEW y \in PlayedHere(x, t, r.kind), bud' = [bud EXCEPT ![b] = y],
           UNCHANGED <<air, delivery>>
    PROVE  Once'
<1> DEFINE S == Rings'
           T == {t}
<1>1. /\ Fit(x, S) /\ (r.kind = "ring" <=> t \in S) /\ x.end[t] = "no"
      /\ x.pc = "idle" /\ t \notin Own(x) /\ T \subseteq {t}
  <2>1. Fit(x, Rings') /\ (r.kind = "ring" <=> t \in Rings') /\ x.end[t] = "no"
    BY AskFit
  <2>2. x.pc = "idle" /\ t \notin Own(x)
    BY DEF Freed
  <2>3. QED
    BY <2>1, <2>2
<1> HIDE DEF S
<1>2. Steps(x, y, T, S)
  <2>1. Steps(x, y, {t}, S)
    BY <1>1, PlayedHereSteps
  <2>2. QED
    BY <2>1
<1>3. y.retry = x.retry
  BY <1>1, PlayedHereSound DEF Adds, Fit
<1>4. y.retry \subseteq bud[b].retry \cup {t}
  BY <1>3 DEF Freed
<1> HIDE DEF T
<1>5. /\ Fit(y, S) /\ Own(y) \subseteq Own(bud[b]) \cup T
      /\ \A u \in Tones \ {t} : u \notin Own(bud[b]) => y.end[u] = bud[b].end[u]
      /\ Heard(bud[b]) => Heard(y)
  BY <1>1, <1>2, AskSteps
<1>6. Fit(y, Rings') /\ Own(y) \subseteq Own(bud[b]) \cup {t}
  BY <1>5 DEF S, T
<1>7. QED
  BY <1>4, <1>5, <1>6, OnceAsk

LEMMA OncePlayTone ==
    ASSUME IInv, Once, NEW b \in Buds, NEW t \in Tones, NEW x, Freed(b, x, t), Fresh(b, t),
           NEW r, Requested(t, r), TwsPlayTone(b, x, t, r), UNCHANGED delivery
    PROVE  Once'
<1>1. r.kind \in AllKinds /\ r.kind # "none" /\ Delayed(r).kind # "none"
  BY DEF Requested, Delayed, AllKinds
<1>2. CASE /\ bud' = [bud EXCEPT ![b] = [x EXCEPT !.retry = @ \cup {t}]]
           /\ ask' = [ask EXCEPT ![t] = Delayed(r)] /\ UNCHANGED air
  <2> DEFINE S == Rings'
             T == {t}
             d == Delayed(r)
             y == [x EXCEPT !.retry = @ \cup {t}]
  <2>1. d.kind # "none" /\ ask' = [ask EXCEPT ![t] = d]
    BY <1>1, <1>2
  <2> HIDE DEF d
  <2>2. Fit(x, S) /\ x.end[t] = "no" /\ t \notin Own(x) /\ T \subseteq {t}
    <3>1. Fit(x, Rings') /\ x.end[t] = "no"
      BY <2>1, AskFit
    <3>2. t \notin Own(x)
      BY DEF Freed
    <3>3. QED
      BY <3>1, <3>2
  <2> HIDE DEF S
  <2>3. Steps(x, y, T, S) /\ y.retry = x.retry \cup {t}
    BY <2>2, IntoRetry
  <2>4. bud' = [bud EXCEPT ![b] = y] /\ UNCHANGED air
    BY <1>2
  <2> HIDE DEF y, T
  <2>5. y.retry \subseteq bud[b].retry \cup {t}
    BY <2>3 DEF Freed
  <2>6. /\ Fit(y, S) /\ Own(y) \subseteq Own(bud[b]) \cup T
        /\ \A u \in Tones \ {t} : u \notin Own(bud[b]) => y.end[u] = bud[b].end[u]
        /\ Heard(bud[b]) => Heard(y)
    BY <2>2, <2>3, AskSteps
  <2>7. Fit(y, Rings') /\ Own(y) \subseteq Own(bud[b]) \cup {t}
    BY <2>6 DEF S, T
  <2>8. QED
    BY <2>1, <2>4, <2>5, <2>6, <2>7, OnceAsk
<1>3. CASE /\ air' = [c \in Buds |-> [air[c] EXCEPT ![b] = Append(@, t)]]
           /\ bud' = [bud EXCEPT ![b] = [x EXCEPT !.sent = r.kind # "ring",
                                                  !.early = @ /\ r.kind = "ring"]]
           /\ ask' = [ask EXCEPT ![t] = r]
  <2> DEFINE S == Rings'
             T == {}
             y == [x EXCEPT !.sent = r.kind # "ring", !.early = @ /\ r.kind = "ring"]
  <2>1. Fit(x, S) /\ Sound(x) /\ x.end[t] = "no" /\ t \notin Own(x) /\ T \subseteq {t}
    <3>1. Fit(x, Rings') /\ x.end[t] = "no"
      BY <1>3, AskFit
    <3>2. Sound(x) /\ t \notin Own(x)
      BY DEF Freed, Fit
    <3>3. QED
      BY <3>1, <3>2
  <2> HIDE DEF S
  <2>2. /\ Sound(y) /\ Same(x, y) /\ y.end = x.end /\ y.stream = x.stream
        /\ y.seen = x.seen /\ y.dead = x.dead
    BY <2>1 DEF Sound, Bud, Same
  <2> HIDE DEF y
  <2>3. Steps(x, y, T, S) /\ Own(y) = Own(x)
    <3>1. T \cap Own(x) = {} /\ \A u \in T \cap Tones : y.end[u] # "twice"
      OBVIOUS
    <3>2. \A u \in Own(x) : Attended(x, u) => Attended(y, u)
      BY <2>2 DEF Attended
    <3>3. \A u \in Tones : u \notin T => y.end[u] = x.end[u]
      BY <2>2
    <3> HIDE DEF T
    <3>4. QED
      BY <2>1, <2>2, <3>1, <3>2, <3>3, SameSteps, SameOwn
  <2>4. bud' = [bud EXCEPT ![b] = y]
    BY <1>3 DEF y
  <2>5. y.retry \subseteq bud[b].retry /\ t \notin Own(y) /\ y.end[t] = "no"
    BY <2>1, <2>2, <2>3 DEF Freed, Same
  <2> HIDE DEF T
  <2>6. /\ Fit(y, S) /\ Own(y) \subseteq Own(bud[b]) \cup T
        /\ \A u \in Tones \ {t} : u \notin Own(bud[b]) => y.end[u] = bud[b].end[u]
        /\ Heard(bud[b]) => Heard(y)
    BY <2>1, <2>3, AskSteps
  <2>7. Fit(y, Rings') /\ Own(y) \subseteq Own(bud[b]) \cup {t}
    BY <2>6 DEF S, T
  <2>8. QED
    BY <1>1, <1>3, <2>4, <2>5, <2>6, <2>7, OnceAsk
<1>4. CASE /\ \E y \in PlayedHere(x, t, r.kind) : bud' = [bud EXCEPT ![b] = y]
           /\ ask' = [ask EXCEPT ![t] = r] /\ UNCHANGED air
  BY <1>1, <1>4, OncePlayHere
<1>5. QED
  BY <1>2, <1>3, <1>4 DEF TwsPlayTone

LEMMA OnceRequest ==
    ASSUME IInv, Once, NEW b \in Buds, NEW t \in Tones, NEW kind \in Kinds, NEW more \in BOOLEAN,
           Request(b, t, kind, more)
    PROVE  Once'
<1> DEFINE r == [kind |-> kind, more |-> more]
           x == bud[b]
<1>1. Requested(t, r)
  BY ToneAssumption DEF Requested, Request
<1>2. r.kind = kind /\ kind # "none"
  BY ToneAssumption DEF AllKinds
<1>3. Fresh(b, t) /\ t \notin Own(x)
  BY DEF Request, Once, Unasked, Fresh
<1>4. Freed(b, x, t)
  BY <1>3, OnceFit DEF Freed, Request, Ready
<1>5. UNCHANGED delivery
  BY DEF Request
<1>6. CASE TwsPlayTone(b, x, t, r)
  <2> HIDE DEF r, x
  <2>1. QED
    BY <1>1, <1>3, <1>4, <1>5, <1>6, OncePlayTone
<1>7. CASE /\ \E y \in PlayedHere(bud[b], t, kind) : bud' = [bud EXCEPT ![b] = y]
           /\ ask' = [ask EXCEPT ![t] = r] /\ UNCHANGED air
  <2>1. PICK y \in PlayedHere(x, t, kind) : bud' = [bud EXCEPT ![b] = y]
    BY <1>7
  <2> HIDE DEF r, x
  <2>2. y \in PlayedHere(x, t, r.kind) /\ r.kind # "none"
    BY <1>2, <2>1
  <2>3. QED
    BY <1>3, <1>4, <1>5, <1>7, <2>1, <2>2, OncePlayHere
<1>8. QED
  BY <1>6, <1>7 DEF Request

LEMMA OnceRetry ==
    ASSUME IInv, Once, NEW b \in Buds, NEW t \in Tones, RetryTimeout(b, t) PROVE Once'
<1> DEFINE x == [bud[b] EXCEPT !.retry = @ \ {t}]
<1>1. /\ Fit(bud[b], Rings) /\ Sound(bud[b]) /\ bud[b].pc = "idle" /\ t \in bud[b].retry
  BY OnceFit DEF RetryTimeout, Ready
<1>2. ask[t] \in [kind : AllKinds \cup {"none"}, more : BOOLEAN] /\ ask[t].kind # "none"
  BY <1>1 DEF IInv, Around, Asked, Is
<1>3. Requested(t, ask[t])
  BY <1>2 DEF Requested, Is
<1>4. Fresh(b, t)
  BY <1>1 DEF Once, Waits, Fresh
<1>5. /\ Sound(x) /\ x.later = bud[b].later /\ x.retry = bud[b].retry \ {t}
      /\ x.list = bud[b].list /\ x.pc = bud[b].pc /\ x.tone = bud[b].tone
      /\ x.ring = bud[b].ring /\ x.end = bud[b].end /\ x.stream = bud[b].stream
      /\ x.seen = bud[b].seen /\ x.dead = bud[b].dead
  BY <1>1 DEF Sound, Bud
<1>6. TwsPlayTone(b, x, t, ask[t]) /\ UNCHANGED delivery
  BY DEF RetryTimeout
<1> HIDE DEF x
<1>7. t \notin bud[b].later
  BY <1>1 DEF Fit, Apart
<1>8. /\ Fit(x, Rings) /\ Own(x) \subseteq Own(bud[b]) /\ t \notin Own(x)
      /\ Heard(bud[b]) => Heard(x)
  <2> DEFINE w == bud[b]
  <2>1. /\ Fit(w, Rings) /\ w.pc = "idle" /\ t \in w.later \cup w.retry
        /\ Sound(x) /\ x.later \subseteq w.later \ {t} /\ x.retry \subseteq w.retry \ {t}
        /\ x.list = w.list /\ x.pc = w.pc /\ x.tone = w.tone /\ x.ring = w.ring
        /\ x.end = w.end /\ x.stream = w.stream /\ x.seen = w.seen /\ x.dead = w.dead
    BY <1>1, <1>5, <1>7
  <2> HIDE DEF w
  <2>2. /\ Fit(x, Rings) /\ Own(x) \subseteq Own(w) /\ t \notin Own(x)
        /\ Heard(w) => Heard(x)
    BY <2>1, Less
  <2>3. QED
    BY <2>2 DEF w
<1>9. Freed(b, x, t)
  BY <1>1, <1>5, <1>8 DEF Freed
<1>10. QED
  BY <1>3, <1>4, <1>6, <1>9, OncePlayTone

(***************************************************************************)
(* The theorems.                                                           *)
(***************************************************************************)

LEMMA InitOnce == Init => Once
<1> SUFFICES ASSUME Init PROVE Once
  OBVIOUS
<1>1. IInv
  BY InitIInv
<1>2. \A b, c \in Buds : air[b][c] = <<>>
  BY DEF Init
<1>3. \A b, c \in Buds : ToSet(air[b][c]) = {} /\ IsInjective(air[b][c])
  BY <1>2, SetNone, InjEmpty
<1>4. \A b \in Buds : Sent(b) = {}
  BY <1>3 DEF Sent
<1>5. ASSUME NEW b \in Buds
      PROVE  /\ bud[b].list = <<>> /\ bud[b].later = {} /\ bud[b].retry = {}
             /\ bud[b].pc = "idle" /\ bud[b].ring = NoTone /\ ~bud[b].dead
             /\ \A t \in Tones : bud[b].end[t] = "no"
  BY DEF Init
<1>6. \A b \in Buds : Own(bud[b]) = {}
  BY <1>5, SetNone DEF Own, Hand, Ring
<1>7. ASSUME NEW b \in Buds PROVE Fit(bud[b], Rings) /\ Heard(bud[b])
  <2>1. Sound(bud[b])
    BY <1>1, BudSound
  <2>2. Apart(bud[b])
    <3>1. ToSet(bud[b].list) = {} /\ IsInjective(bud[b].list)
      BY <1>5, SetNone, InjEmpty
    <3>2. Hand(bud[b]) = {} /\ Ring(bud[b]) = {}
      BY <1>5 DEF Hand, Ring
    <3>3. QED
      BY <1>5, <1>6, <3>1, <3>2 DEF Apart
  <2>3. Sorted(bud[b], Rings) /\ Heard(bud[b])
    BY <1>5, SetNone DEF Sorted, Ring, Heard, RestHeard, HeadHeard
  <2>4. QED
    BY <2>1, <2>2, <2>3 DEF Fit
<1>8. Fits /\ AllHeard
  BY <1>7 DEF Fits, AllHeard
<1>9. Messages /\ Unasked /\ Waits
  BY <1>3, <1>4, <1>5, <1>6 DEF Messages, Unasked, Waits
<1>10. QED
  BY <1>8, <1>9 DEF Once

LEMMA NextOnce == IInv /\ Once /\ [Next]_vars => Once'
<1> SUFFICES ASSUME IInv, Once, [Next]_vars PROVE Once'
  OBVIOUS
<1>1. CASE UNCHANGED vars
  <2>1. UNCHANGED <<bud, ask, air, delivery>>
    BY <1>1 DEF vars
  <2>2. Rings' = Rings /\ \A b \in Buds : Sent(b)' = Sent(b)
    BY <2>1 DEF Rings, Sent, Is
  <2>3. Fits' /\ AllHeard'
    BY <2>1, <2>2 DEF Once, Fits, AllHeard
  <2>4. Messages'
    BY <2>1, <2>2 DEF Once, Messages
  <2>5. Unasked' /\ Waits'
    BY <2>1, <2>2 DEF Once, Unasked, Waits, Is
  <2>6. QED
    BY <2>3, <2>4, <2>5 DEF Once
<1>2. ASSUME NEW b \in Buds, AppCore(b) PROVE Once'
  BY <1>2, OnceAddStart, OnceAddLink, OnceRingLink, OnceRetry, OnceAddTimeout, OncePlay,
     OnceSetAdding DEF AppCore
<1>3. ASSUME NEW b \in Buds, Streams(b) PROVE Once'
  BY <1>3, OnceCallback, OnceRingCallback DEF Streams
<1>4. CASE World
  BY <1>4, OnceRequest, OnceStreamEnd, OnceRefuse, OnceStop, OnceLinkLost, OnceLinkUp DEF World
<1>5. QED
  BY <1>1, <1>2, <1>3, <1>4 DEF Next

\* The invariant of both theorems: a tone is in one place of a bud, and in none while its
\* message is on its way there; what plays is listened to.
THEOREM OnceInductive == Spec => [](IInv /\ Once)
<1>1. Init => IInv /\ Once
  BY InitIInv, InitOnce
<1>2. (IInv /\ Once) /\ [Next]_vars => (IInv /\ Once)'
  BY NextIInv, NextOnce
<1>3. QED
  BY <1>1, <1>2, PTL DEF Spec

\* The STOP callback of a tone, which frees a shared one (154), comes at most once at a
\* bud, however tones meet, wait, are sent, stopped, preempted or lost.
THEOREM StopsOnce == Spec => []OneStop
<1>1. IInv /\ Once => OneStop
  BY DEF Once, Fits, Fit, Apart, OneStop
<1>2. QED
  BY <1>1, OnceInductive, PTL

\* When the streams' callbacks run in app_core, no bud meets a player that was freed, and
\* the first tone of its list and its ring play or have their callback to come.
THEOREM HeadAlwaysPlays == Spec => []HeadPlays
<1>1. IInv /\ Once => HeadPlays
  BY DEF Once, AllHeard, Heard, RestHeard, HeadHeard, HeadPlays, tone_player_runing
<1>2. QED
  BY <1>1, OnceInductive, PTL

(***************************************************************************)
(* TwsTone implements the safety half of ToneLife.  What is added to the   *)
(* invariant: only what the players hold first has a stream, and app_core  *)
(* holds a second one neither for the list nor for the ring.               *)
(***************************************************************************)

Foremost(x) == IF x.list = <<>> THEN {} ELSE {Head(x.list)}
Sounding(x) == Foremost(x) \cup Ring(x) \cup (IF x.pc \in {"link", "ring"} THEN {x.tone} ELSE {})

Tuned(x) ==
    /\ \A t \in Tones : x.stream[t] # "none" /\ x.end[t] = "no" => t \in Sounding(x)
    /\ x.pc = "link" => x.list = <<>>
    /\ x.pc = "ring" => x.ring = NoTone
    /\ x.pc = "idle" => x.tone = NoTone

HeadStuck(x) == x.list # <<>> /\ Unheard(x, Head(x.list))
RingStuck(x) == x.ring # NoTone /\ Unheard(x, x.ring)

\* From x to y no tone goes back: what has ended stays so, what does not end keeps its
\* place and its stream, and the tones of T get one; what is stuck stays stuck or ends.
Goes(x, y, T) ==
    /\ \A t \in Tones : x.end[t] # "no" => y.end[t] = x.end[t]
    /\ \A t \in Tones : y.end[t] = "no" =>
           /\ t \in Own(x) \cup T => t \in Own(y)
           /\ x.stream[t] # "none" => y.stream[t] # "none"
    /\ HeadStuck(x) => HeadStuck(y)
    /\ RingStuck(x) => (RingStuck(y) /\ y.ring = x.ring) \/ y.end[x.ring] # "no"
    /\ Tuned(x) => Tuned(y)

LEMMA GoesTrans ==
    ASSUME NEW x, NEW y, NEW z, NEW S, NEW T, Goes(x, y, S), Goes(y, z, T),
           x.ring \in Tones \cup {NoTone}
    PROVE  Goes(x, z, S \cup T)
<1>1. \A t \in Tones : x.end[t] # "no" => z.end[t] = x.end[t]
  BY DEF Goes
<1>2. \A t \in Tones : z.end[t] = "no" => y.end[t] = "no"
  BY DEF Goes
<1>3. \A t \in Tones : z.end[t] = "no" =>
           /\ t \in Own(x) \cup S \cup T => t \in Own(z)
           /\ x.stream[t] # "none" => z.stream[t] # "none"
  BY <1>2 DEF Goes
<1>4. HeadStuck(x) => HeadStuck(z)
  BY DEF Goes
<1>5. RingStuck(x) => (RingStuck(z) /\ z.ring = x.ring) \/ z.end[x.ring] # "no"
  <2> SUFFICES ASSUME RingStuck(x) PROVE (RingStuck(z) /\ z.ring = x.ring) \/ z.end[x.ring] # "no"
    OBVIOUS
  <2>1. x.ring \in Tones
    BY DEF RingStuck
  <2>2. QED
    BY <1>2, <2>1 DEF Goes
<1>6. QED
  BY <1>1, <1>3, <1>4, <1>5 DEF Goes

LEMMA GoesLess ==
    ASSUME NEW x, NEW y, NEW S, NEW T, T \subseteq S, Goes(x, y, S)
    PROVE  Goes(x, y, T)
BY DEF Goes

\* Where the streams of a bud in order can be.
LEMMA SoundingOwn ==
    ASSUME NEW x, NEW R, Fit(x, R)
    PROVE  /\ Sounding(x) \subseteq Own(x) /\ Own(x) \subseteq Tones
           /\ x.list # <<>> => Head(x.list) \in ToSet(x.list)
           /\ x.ring \in Tones \cup {NoTone} /\ NoTone \notin Tones
           /\ x.ring # NoTone => x.ring \in Ring(x)
           /\ \A t \in Own(x) : x.end[t] = "no"
<1>1. Own(x) \subseteq Tones /\ x.list \in Seq(Tones)
  BY FitTypes
<1>2. x.list # <<>> => Head(x.list) \in ToSet(x.list)
  BY <1>1, SetTail
<1>3. x.ring \in Tones \cup {NoTone} /\ NoTone \notin Tones
  BY DEF Fit, Sound, Bud, NoTone, Tones
<1>4. QED
  BY <1>1, <1>2, <1>3 DEF Sounding, Foremost, Own, Ring, Hand, Fit, Apart

\* The tones are where they were.
LEMMA GoSame ==
    ASSUME NEW x, NEW R, Fit(x, R), NEW y, Same(x, y), NEW S, S \cap Own(x) = {},
           \A t \in Tones : t \notin S => y.end[t] = x.end[t],
           \A t \in Tones \cap S : x.end[t] = "no" /\ y.end[t] # "no",
           \A t \in Tones \ S : y.stream[t] # "none" <=> x.stream[t] # "none",
           \A t \in Own(x) : Unheard(x, t) => Unheard(y, t)
    PROVE  Goes(x, y, S)
<1>1. Hand(y) = Hand(x) /\ Ring(y) = Ring(x) /\ Own(y) = Own(x)
  BY SameOwn
<1>2. /\ Sounding(x) \subseteq Own(x) /\ Own(x) \subseteq Tones
      /\ x.list # <<>> => Head(x.list) \in ToSet(x.list)
      /\ x.ring # NoTone => x.ring \in Ring(x)
  BY SoundingOwn
<1>3. Sounding(y) = Sounding(x)
  BY <1>1 DEF Sounding, Foremost, Same
<1>4. HeadStuck(x) => HeadStuck(y)
  BY <1>2 DEF HeadStuck, Same, Own
<1>5. RingStuck(x) => RingStuck(y) /\ y.ring = x.ring
  BY <1>2 DEF RingStuck, Same, Own
<1>6. \A t \in Tones : x.end[t] # "no" => y.end[t] = x.end[t]
  OBVIOUS
<1>7. \A t \in Tones : y.end[t] = "no" => t \notin S
  OBVIOUS
<1>8. Tuned(x) => Tuned(y)
  <2> SUFFICES ASSUME Tuned(x) PROVE Tuned(y)
    OBVIOUS
  <2>1. ASSUME NEW t \in Tones, y.stream[t] # "none", y.end[t] = "no" PROVE t \in Sounding(y)
    BY <1>3, <1>7, <2>1 DEF Tuned
  <2>2. QED
    BY <2>1 DEF Tuned, Same
<1>9. QED
  BY <1>1, <1>4, <1>5, <1>6, <1>7, <1>8 DEF Goes

LEMMA GoFree ==
    ASSUME NEW x, NEW R, Fit(x, R), NEW S, S \cap Own(x) = {},
           \A t \in S \cap Tones : x.end[t] = "no"
    PROVE  Goes(x, tone_player_free(x, S), S)
<1> DEFINE y == tone_player_free(x, S)
<1>1. Sound(x) /\ Own(x) \subseteq Tones
  BY FitTypes DEF Fit
<1>2. /\ Same(x, y) /\ y.seen = x.seen
      /\ \A t \in Tones : /\ t \notin S => y.end[t] = x.end[t]
                          /\ x.end[t] = "no" /\ t \in S => y.end[t] = "once"
                          /\ y.stream[t] = IF t \in S THEN "none" ELSE x.stream[t]
  BY <1>1, FreeFields
<1> HIDE DEF y
<1>3. \A t \in Own(x) : Unheard(x, t) => Unheard(y, t)
  BY <1>1, <1>2 DEF Unheard
<1>4. QED
  BY <1>2, <1>3, GoSame DEF y

LEMMA GoStruck ==
    ASSUME NEW x, NEW R, Fit(x, R), NEW f, NEW y \in Struck(f, x)
    PROVE  Goes(x, y, {})
<1>1. /\ Same(x, y) /\ y.seen = x.seen /\ y.end = x.end /\ y.stream = x.stream
  BY StruckFields DEF Fit
<1>2. QED
  BY <1>1, GoSame DEF Unheard

LEMMA GoDrop ==
    ASSUME NEW x, NEW R, Fit(x, R), NEW t \in Tones, t \notin Own(x), x.end[t] = "no"
    PROVE  Goes(x, Drop(x, t), {t})
<1> DEFINE y == Drop(x, t)
<1>1. /\ Same(x, y) /\ y.seen = x.seen /\ y.stream = x.stream
      /\ y.end[t] = "dropped" /\ \A u \in Tones : u # t => y.end[u] = x.end[u]
  BY DEF Drop, Fit, Sound, Bud, Same
<1> HIDE DEF y
<1>2. QED
  BY <1>1, GoSame DEF y, Unheard

LEMMA GoIntoList ==
    ASSUME NEW x, NEW R, Fit(x, R), NEW t \in Tones, Spare(x, t), t \notin R,
           NEW y, Beside(x, y, t), y.list = Append(x.list, t), y.pc = "idle",
           y.tone = NoTone, y.end[t] = x.end[t], y.stream[t] = x.stream[t]
    PROVE  Goes(x, y, {t})
<1>1. x.list \in Seq(Tones) /\ ToSet(x.list) \subseteq Tones /\ Own(x) \subseteq Tones
  BY FitTypes
<1>2. /\ Sounding(x) \subseteq Own(x) /\ Own(x) \subseteq Tones
      /\ x.list # <<>> => Head(x.list) \in ToSet(x.list)
      /\ x.ring # NoTone => x.ring \in Ring(x)
      /\ x.ring \in Tones \cup {NoTone} /\ NoTone \notin Tones
  BY SoundingOwn
<1>3. ToSet(y.list) = ToSet(x.list) \cup {t}
  BY <1>1, SetAppend
<1>4. y.list # <<>> /\ Head(y.list) = IF x.list = <<>> THEN t ELSE Head(x.list)
  BY <1>1, HeadTailProperties, AppendProperties
<1>5. Hand(y) = {} /\ Ring(y) = Ring(x)
  BY DEF Hand, Ring, Beside
<1>6. Own(x) \cup {t} \subseteq Own(y)
  BY <1>3, <1>5 DEF Own, Beside, Spare
<1>7. \A u \in Tones : y.end[u] = x.end[u] /\ y.stream[u] = x.stream[u]
  BY DEF Beside
<1>8. HeadStuck(x) => HeadStuck(y)
  BY <1>2, <1>4, <1>7, <1>1 DEF HeadStuck, Unheard, Beside
<1>9. RingStuck(x) => RingStuck(y) /\ y.ring = x.ring
  BY <1>2, <1>7 DEF RingStuck, Unheard, Beside
<1>10. ASSUME Tuned(x) PROVE Tuned(y)
  <2>1. ASSUME NEW u \in Tones, y.stream[u] # "none", y.end[u] = "no" PROVE u \in Sounding(y)
    <3>1. u \in Sounding(x)
      BY <1>7, <1>10, <2>1 DEF Tuned
    <3>2. CASE u \in Foremost(x)
      BY <1>4, <3>2 DEF Foremost, Sounding
    <3>3. CASE u \in Ring(x)
      BY <1>5, <3>3 DEF Sounding
    <3>4. CASE x.pc \in {"link", "ring"} /\ u = x.tone
      <4>1. u = t /\ x.pc = "link"
        BY <3>4 DEF Spare, Hand, Fit, Sorted
      <4>2. x.list = <<>>
        BY <4>1, <1>10 DEF Tuned
      <4>3. QED
        BY <4>1, <4>2, <1>4 DEF Sounding, Foremost
    <3>5. QED
      BY <3>1, <3>2, <3>3, <3>4 DEF Sounding
  <2>2. QED
    BY <2>1 DEF Tuned
<1>11. QED
  BY <1>6, <1>7, <1>8, <1>9, <1>10 DEF Goes

LEMMA GoIntoHand ==
    ASSUME NEW x, NEW R, Fit(x, R), NEW t \in Tones, Spare(x, t), x.pc \in {"idle", "add"},
           NEW y, Beside(x, y, t), y.list = x.list, y.pc \in {"add", "link", "ring"},
           y.tone = t, y.end[t] = x.end[t],
           y.stream[t] = IF y.pc = "add" THEN x.stream[t] ELSE "run",
           y.pc = "link" => x.list = <<>>, y.pc = "ring" => x.ring = NoTone
    PROVE  Goes(x, y, {t})
<1>1. /\ Sounding(x) \subseteq Own(x) /\ Own(x) \subseteq Tones
      /\ x.list # <<>> => Head(x.list) \in ToSet(x.list)
      /\ x.ring # NoTone => x.ring \in Ring(x)
      /\ x.ring \in Tones \cup {NoTone} /\ NoTone \notin Tones
  BY SoundingOwn
<1>2. Hand(y) = {t} /\ Ring(y) = Ring(x)
  BY DEF Hand, Ring, Beside
<1>3. Own(x) \cup {t} \subseteq Own(y)
  BY <1>2 DEF Own, Beside, Spare
<1>4. \A u \in Tones : y.end[u] = x.end[u]
  BY DEF Beside
<1>5. \A u \in Tones : x.stream[u] # "none" => y.stream[u] # "none"
  BY DEF Beside
<1>6. x.list # <<>> => Head(x.list) \in Tones \ {t}
  BY <1>1 DEF Spare, Own
<1>7. x.ring # NoTone => x.ring \in Tones \ {t}
  BY <1>1 DEF Spare
<1>8. HeadStuck(x) => HeadStuck(y)
  BY <1>6 DEF HeadStuck, Unheard, Beside
<1>9. RingStuck(x) => RingStuck(y) /\ y.ring = x.ring
  BY <1>7 DEF RingStuck, Unheard, Beside
<1>10. ASSUME Tuned(x) PROVE Tuned(y)
  <2>1. \A u \in Sounding(x) : u \in Foremost(x) \cup Ring(x)
    BY DEF Sounding
  <2>2. Foremost(y) = Foremost(x)
    BY DEF Foremost
  <2>3. ASSUME NEW u \in Tones, y.stream[u] # "none", y.end[u] = "no" PROVE u \in Sounding(y)
    <3>1. CASE u # t \/ y.pc = "add"
      <4>1. u \in Sounding(x)
        BY <1>4, <1>10, <2>3, <3>1 DEF Tuned, Beside
      <4>2. QED
        BY <4>1, <2>1, <2>2, <1>2 DEF Sounding
    <3>2. CASE u = t /\ y.pc # "add"
      BY <3>2 DEF Sounding
    <3>3. QED
      BY <3>1, <3>2
  <2>4. QED
    BY <2>3 DEF Tuned, Beside
<1>11. QED
  BY <1>3, <1>4, <1>5, <1>8, <1>9, <1>10 DEF Goes

LEMMA GoGivenUp ==
    ASSUME NEW x, NEW R, Fit(x, R), NEW t \in Tones, Spare(x, t), x.pc \in {"idle", "add"},
           NEW y, Beside(x, y, t), y.list = x.list, y.pc = "idle", y.tone = NoTone,
           y.end[t] # "no"
    PROVE  Goes(x, y, {t})
<1>1. /\ Sounding(x) \subseteq Own(x) /\ Own(x) \subseteq Tones
      /\ x.list # <<>> => Head(x.list) \in ToSet(x.list)
      /\ x.ring # NoTone => x.ring \in Ring(x)
      /\ x.ring \in Tones \cup {NoTone} /\ NoTone \notin Tones
  BY SoundingOwn
<1>2. Hand(y) = {} /\ Ring(y) = Ring(x)
  BY DEF Hand, Ring, Beside
<1>3. Own(x) \ {t} \subseteq Own(y)
  BY <1>2 DEF Own, Beside, Spare
<1>4. \A u \in Tones \ {t} : y.end[u] = x.end[u] /\ y.stream[u] = x.stream[u]
  BY DEF Beside
<1>5. x.end[t] = "no"
  BY DEF Spare
<1>6. x.list # <<>> => Head(x.list) \in Tones \ {t}
  BY <1>1 DEF Spare, Own
<1>7. x.ring # NoTone => x.ring \in Tones \ {t}
  BY <1>1 DEF Spare
<1>8. HeadStuck(x) => HeadStuck(y)
  BY <1>4, <1>6 DEF HeadStuck, Unheard, Beside
<1>9. RingStuck(x) => RingStuck(y) /\ y.ring = x.ring
  BY <1>4, <1>7 DEF RingStuck, Unheard, Beside
<1>10. ASSUME Tuned(x) PROVE Tuned(y)
  <2>1. \A u \in Sounding(x) : u \in Foremost(x) \cup Ring(x)
    BY DEF Sounding
  <2>2. Foremost(y) = Foremost(x)
    BY DEF Foremost
  <2>3. ASSUME NEW u \in Tones, y.stream[u] # "none", y.end[u] = "no" PROVE u \in Sounding(y)
    <3>1. u \in Sounding(x)
      BY <1>4, <1>10, <2>3 DEF Tuned
    <3>2. QED
      BY <3>1, <2>1, <2>2, <1>2 DEF Sounding
  <2>4. QED
    BY <2>3 DEF Tuned
<1>11. QED
  BY <1>3, <1>4, <1>5, <1>8, <1>9, <1>10 DEF Goes

(***************************************************************************)
(* What the program does with a tone.                                      *)
(***************************************************************************)

LEMMA AddedTone == ASSUME NEW x, Sound(x) PROVE Added(x).tone = NoTone
BY DEF Added, Hold, Sound, Bud

LEMMA GoLink ==
    ASSUME NEW x, NEW R, Fit(x, R), NEW t \in Tones, Spare(x, t), t \notin R,
           NEW h, Sound(h), Beside(x, h, t), h.list = x.list, h.end = x.end,
           h.stream = x.stream
    PROVE  Goes(x, Added(Linked(h, t)), {t})
<1> DEFINE k == Linked(h, t)
           y == Added(k)
<1>1. /\ Sound(k) /\ k.list = Append(h.list, t) /\ k.later = h.later
      /\ k.retry = h.retry /\ k.ring = h.ring /\ k.seen = h.seen /\ k.dead = h.dead
      /\ k.end = h.end /\ k.stream = h.stream
  BY LinkedFields
<1> HIDE DEF k
<1>2. /\ Sound(y) /\ y.list = k.list /\ y.later = k.later /\ y.retry = k.retry
      /\ y.ring = k.ring /\ y.seen = k.seen /\ y.dead = k.dead
      /\ y.end = k.end /\ y.stream = k.stream /\ y.pc = "idle" /\ y.tone = NoTone
  BY <1>1, AddedFields, AddedTone
<1> HIDE DEF y
<1>3. Beside(x, y, t) /\ y.list = Append(x.list, t) /\ y.end[t] = x.end[t]
      /\ y.stream[t] = x.stream[t]
  BY <1>1, <1>2 DEF Beside
<1>4. QED
  BY <1>2, <1>3, GoIntoList DEF y, k

LEMMA GoAdd ==
    ASSUME NEW x, NEW R, Fit(x, R), NEW t \in Tones, Spare(x, t), t \notin R,
           x.pc \in {"idle", "add"},
           NEW shared \in BOOLEAN, NEW y \in tone_player_add(x, t, shared)
    PROVE  Goes(x, y, {t})
<1> DEFINE h == Hold(x, t, "link", shared)
<1>1. /\ Sound(h) /\ Beside(x, h, t) /\ h.list = x.list /\ h.pc = "link" /\ h.tone = t
      /\ h.end = x.end /\ h.stream = x.stream
  BY HoldFields DEF Fit
<1>2. \/ y = Added(Linked(h, t))
      \/ x.list = <<>> /\ y = [h EXCEPT !.stream[t] = "run"]
      \/ \E z \in Struck("no_start", h) : y = Added(tone_player_free(z, {t}))
  BY DEF tone_player_add, tone_player_runing
<1> HIDE DEF h
<1>3. CASE y = Added(Linked(h, t))
  BY <1>1, <1>3, GoLink
<1>4. CASE x.list = <<>> /\ y = [h EXCEPT !.stream[t] = "run"]
  <2>a. y = [h EXCEPT !.stream[t] = "run"] /\ Sound(h)
    BY <1>1, <1>4
  <2>1. /\ Sound(y) /\ Same(h, y) /\ y.seen = h.seen /\ y.dead = h.dead
        /\ y.end = h.end /\ y.stream[t] = "run"
        /\ \A u \in Tones \ {t} : y.stream[u] = h.stream[u]
    BY <2>a, RunFields
  <2>2. Beside(x, y, t) /\ y.list = x.list /\ y.pc = "link" /\ y.tone = t
        /\ y.end[t] = x.end[t]
    BY <1>1, <2>1 DEF Beside, Same
  <2>3. QED
    BY <1>4, <2>1, <2>2, GoIntoHand
<1>5. CASE \E z \in Struck("no_start", h) : y = Added(tone_player_free(z, {t}))
  <2>1. PICK z \in Struck("no_start", h) : y = Added(tone_player_free(z, {t}))
    BY <1>5
  <2> DEFINE k == tone_player_free(z, {t})
  <2>2. /\ Sound(z) /\ Same(h, z) /\ z.seen = h.seen /\ z.dead = h.dead
        /\ z.end = h.end /\ z.stream = h.stream
    BY <1>1, StruckFields
  <2>3. Sound(k)
    BY <2>2, AlikeFree DEF Alike
  <2>4. /\ Same(z, k) /\ k.seen = z.seen /\ k.dead = z.dead
        /\ \A u \in Tones : /\ u \notin {t} => k.end[u] = z.end[u]
                            /\ z.end[u] = "no" /\ u \in {t} => k.end[u] = "once"
                            /\ k.stream[u] = IF u \in {t} THEN "none" ELSE z.stream[u]
    BY <2>2, FreeFields
  <2> HIDE DEF k
  <2>5. /\ Sound(y) /\ y.list = k.list /\ y.later = k.later /\ y.retry = k.retry
        /\ y.ring = k.ring /\ y.seen = k.seen /\ y.dead = k.dead
        /\ y.end = k.end /\ y.stream = k.stream /\ y.pc = "idle" /\ y.tone = NoTone
    BY <2>1, <2>3, AddedFields, AddedTone DEF k
  <2>6. y.end[t] = "once"
    BY <1>1, <2>2, <2>4, <2>5 DEF Spare
  <2>7. Beside(x, y, t) /\ y.list = x.list
    BY <1>1, <2>2, <2>4, <2>5 DEF Beside, Same
  <2>8. QED
    BY <2>5, <2>6, <2>7, GoGivenUp
<1>6. QED
  BY <1>2, <1>3, <1>4, <1>5

\* A fault strikes, and the tone's callback comes at once.
LEMMA GoStruckFree ==
    ASSUME NEW x, NEW R, Fit(x, R), NEW t \in Tones, t \notin Own(x), x.end[t] = "no",
           NEW f, NEW z \in Struck(f, x)
    PROVE  Goes(x, tone_player_free(z, {t}), {t})
<1> DEFINE y == tone_player_free(z, {t})
<1>1. Fit(z, R) /\ Own(z) = Own(x) /\ z.end = x.end
  BY StruckSteps DEF Steps
<1>2. Goes(x, z, {}) /\ x.ring \in Tones \cup {NoTone}
  BY GoStruck, SoundingOwn
<1>3. {t} \cap Own(z) = {} /\ \A u \in {t} \cap Tones : z.end[u] = "no"
  BY <1>1
<1>4. Goes(z, y, {t})
  BY <1>1, <1>3, GoFree
<1> HIDE DEF y
<1>5. Goes(x, y, {} \cup {t})
  BY <1>2, <1>4, GoesTrans
<1>6. {t} \subseteq {} \cup {t}
  OBVIOUS
<1>7. Goes(x, y, {t})
  BY <1>5, <1>6, GoesLess
<1>8. QED
  BY <1>7 DEF y

LEMMA GoRing ==
    ASSUME NEW x, NEW R, Fit(x, R), x.pc = "idle", NEW t \in R, t \in Tones,
           t \notin Own(x), x.end[t] = "no", NEW y \in RingStarts(x, t)
    PROVE  Goes(x, y, {t})
<1> DEFINE h == Hold(x, t, "ring", FALSE)
<1>1. /\ Sound(h) /\ Beside(x, h, t) /\ h.list = x.list /\ h.pc = "ring" /\ h.tone = t
      /\ h.end = x.end /\ h.stream = x.stream
  BY HoldFields DEF Fit
<1>2. \/ y = tone_player_free(x, {t})
      \/ x.ring = NoTone /\ y = [h EXCEPT !.stream[t] = "run"]
      \/ \E z \in Struck("no_start", x) : y = tone_player_free(z, {t})
  BY DEF RingStarts
<1> HIDE DEF h
<1>3. CASE y = tone_player_free(x, {t})
  BY <1>3, GoFree
<1>4. CASE x.ring = NoTone /\ y = [h EXCEPT !.stream[t] = "run"]
  <2>1. /\ Sound(y) /\ Same(h, y) /\ y.seen = h.seen /\ y.dead = h.dead
        /\ y.end = h.end /\ y.stream[t] = "run"
        /\ \A u \in Tones \ {t} : y.stream[u] = h.stream[u]
    BY <1>1, <1>4, RunFields
  <2>2. Beside(x, y, t) /\ y.list = x.list /\ y.pc = "ring" /\ y.tone = t
        /\ y.end[t] = x.end[t]
    BY <1>1, <2>1 DEF Beside, Same
  <2>3. QED
    BY <1>4, <2>1, <2>2, GoIntoHand, SpareNew
<1>5. CASE \E z \in Struck("no_start", x) : y = tone_player_free(z, {t})
  BY <1>5, GoStruckFree
<1>6. QED
  BY <1>2, <1>3, <1>4, <1>5

LEMMA GoPlayedHere ==
    ASSUME NEW x, NEW R, Fit(x, R), x.pc = "idle", NEW t \in Tones, t \notin Own(x),
           x.end[t] = "no", NEW kind, kind = "ring" <=> t \in R,
           NEW y \in PlayedHere(x, t, kind)
    PROVE  Goes(x, y, {t})
<1>1. CASE \E z \in Struck("no_file", x) : y = tone_player_free(z, {t})
  BY <1>1, GoStruckFree
<1>2. CASE kind # "ring" /\ y \in tone_player_add(x, t, FALSE)
  BY <1>2, SpareNew, GoAdd
<1>3. CASE y = Drop(x, t)
  BY <1>3, GoDrop
<1>4. CASE kind = "ring" /\ y \in RingStarts(x, t)
  BY <1>4, GoRing
<1>5. QED
  BY <1>1, <1>2, <1>3, <1>4 DEF PlayedHere

\* t is put on a timer.
LEMMA GoWait ==
    ASSUME NEW x, NEW R, Fit(x, R), NEW t \in Tones, NEW y,
           x.later \cup x.retry \cup {t} \subseteq y.later \cup y.retry,
           y.list = x.list, y.pc = x.pc, y.tone = x.tone, y.ring = x.ring, y.end = x.end,
           y.stream = x.stream, y.seen = x.seen
    PROVE  Goes(x, y, {t})
<1>1. Hand(y) = Hand(x) /\ Ring(y) = Ring(x)
  BY DEF Hand, Ring
<1>2. Own(x) \cup {t} \subseteq Own(y)
  BY <1>1 DEF Own
<1>3. Sounding(y) = Sounding(x)
  BY <1>1 DEF Sounding, Foremost
<1>4. HeadStuck(y) = HeadStuck(x) /\ RingStuck(y) = RingStuck(x)
  BY DEF HeadStuck, RingStuck, Unheard
<1>5. Tuned(x) => Tuned(y)
  BY <1>3 DEF Tuned
<1>6. QED
  BY <1>2, <1>4, <1>5 DEF Goes

\* A fault strikes and app_core forgets the message, with its g_tws_tone_adding or not.
LEMMA GoRefused ==
    ASSUME NEW x, NEW R, Fit(x, R), NEW t \in Tones, t \notin Own(x), x.end[t] = "no",
           NEW f, NEW z \in Struck(f, x), NEW a \in BOOLEAN,
           NEW e \in BOOLEAN
    PROVE  Goes(x, Drop([z EXCEPT !.adding = a, !.early = e], t), {t})
<1> DEFINE k == [z EXCEPT !.adding = a, !.early = e]
           y == Drop(k, t)
<1>1. Fit(z, R) /\ Own(z) = Own(x) /\ z.end = x.end
  BY StruckSteps DEF Steps
<1>2. Goes(x, z, {}) /\ x.ring \in Tones \cup {NoTone}
  BY GoStruck, SoundingOwn
<1>3. Sound(k) /\ Same(z, k) /\ k.end = z.end /\ k.stream = z.stream /\ k.seen = z.seen
  BY <1>1 DEF Fit, Sound, Bud, Same
<1> HIDE DEF k
<1>4. Fit(k, R) /\ Own(k) = Own(z) /\ k.ring = z.ring
  BY <1>1, <1>3, SameOwn DEF Fit, Apart, Sorted, Same
<1>5. Goes(z, k, {})
  BY <1>1, <1>3, GoSame DEF Unheard
<1>6. Goes(k, y, {t})
  BY <1>1, <1>3, <1>4, GoDrop
<1> HIDE DEF y
<1>7. Goes(x, k, {} \cup {})
  BY <1>2, <1>5, GoesTrans
<1>8. Goes(x, y, ({} \cup {}) \cup {t})
  BY <1>2, <1>6, <1>7, GoesTrans
<1>9. {t} \subseteq ({} \cup {}) \cup {t}
  OBVIOUS
<1>10. Goes(x, y, {t})
  BY <1>8, <1>9, GoesLess
<1>11. QED
  BY <1>10 DEF y, k

LEMMA GoPlayed ==
    ASSUME NEW x, NEW R, Fit(x, R), x.pc = "idle", NEW t \in Tones, t \notin Own(x),
           x.end[t] = "no", Is(t, {"ring"}) <=> t \in R, NEW y \in Played(x, t)
    PROVE  /\ Goes(x, y, {t})
           /\ Is(t, {"urgent"}) => y.stream = x.stream
<1>1. CASE \E z \in Struck("no_file", x) : y = Drop([z EXCEPT !.adding = FALSE], t)
  <2>1. PICK z \in Struck("no_file", x) : y = Drop([z EXCEPT !.adding = FALSE], t)
    BY <1>1
  <2>2. PICK a \in BOOLEAN : a = FALSE
    OBVIOUS
  <2> DEFINE e == z.early
  <2>3. z \in Bud /\ e \in BOOLEAN
    BY StruckFields DEF Fit, Sound, Bud
  <2>4. [z EXCEPT !.adding = FALSE] = [z EXCEPT !.adding = a, !.early = e]
    BY <2>2, <2>3 DEF Bud
  <2>5. y = Drop([z EXCEPT !.adding = a, !.early = e], t)
    BY <2>1, <2>4
  <2> HIDE DEF e
  <2>6. Goes(x, y, {t})
    BY <2>5, <2>3, GoRefused
  <2>7. y.stream = x.stream
    BY <2>1, StruckFields DEF Fit, Sound, Bud, Drop
  <2>8. QED
    BY <2>6, <2>7
<1>2. CASE Is(t, {"ring"}) /\ y \in RingStarts(x, t)
  BY <1>2, GoRing DEF Is
<1>3. CASE ~Is(t, {"ring"}) /\ y = Hold(x, t, "add", TRUE)
  <2>1. /\ Sound(y) /\ Beside(x, y, t) /\ y.list = x.list /\ y.pc = "add" /\ y.tone = t
        /\ y.end = x.end /\ y.stream = x.stream
    <3>2. PICK s \in BOOLEAN : s = TRUE
      OBVIOUS
    <3> DEFINE h == Hold(x, t, "add", s)
    <3>3. /\ Sound(h) /\ Beside(x, h, t) /\ h.list = x.list /\ h.pc = "add" /\ h.tone = t
          /\ h.end = x.end /\ h.stream = x.stream
      BY HoldFields DEF Fit
    <3>4. y = h
      BY <1>3, <3>2
    <3> HIDE DEF h
    <3>5. QED
      BY <3>3, <3>4
  <2>2. QED
    BY <1>3, <2>1, SpareNew, GoIntoHand
<1>4. CASE ~Is(t, {"ring"}) /\ ~Is(t, {"urgent"}) /\ y \in tone_player_add(x, t, TRUE)
  BY <1>4, SpareNew, GoAdd
<1>5. CASE ~Is(t, {"ring"}) /\ y = [x EXCEPT !.later = @ \cup {t}]
  <2>1. /\ y.list = x.list /\ y.later = x.later \cup {t} /\ y.retry = x.retry
        /\ y.pc = x.pc /\ y.tone = x.tone /\ y.ring = x.ring /\ y.end = x.end
        /\ y.stream = x.stream /\ y.seen = x.seen
    BY <1>5 DEF Fit, Sound, Bud
  <2>2. QED
    BY <2>1, GoWait
<1>6. QED
  BY <1>1, <1>2, <1>3, <1>4, <1>5 DEF Played, Is

(***************************************************************************)
(* A step of a bud.  What is stuck behind the head of the list goes on     *)
(* when the list is stopped: nothing that plays is behind it.              *)
(***************************************************************************)

Silent(x, R) == \A t \in Tones \ R : x.end[t] = "no" => x.stream[t] = "none"

Onward(x, y, R) ==
    /\ \A t \in Tones : x.end[t] # "no" => y.end[t] = x.end[t]
    /\ \A t \in Tones : y.end[t] = "no" /\ x.stream[t] # "none" => y.stream[t] # "none"
    /\ HeadStuck(x) => HeadStuck(y) \/ Silent(y, R)
    /\ RingStuck(x) => (RingStuck(y) /\ y.ring = x.ring) \/ y.end[x.ring] # "no"
    /\ Tuned(x) => Tuned(y)

Kept(x, y, T) == \A t \in Tones \cap (Own(x) \cup T) : y.end[t] = "no" => t \in Own(y)

LEMMA GoOnward ==
    ASSUME NEW x, NEW y, NEW R, NEW T, Goes(x, y, T)
    PROVE  Onward(x, y, R) /\ Kept(x, y, T)
BY DEF Goes, Onward, Kept

\* t is taken from a timer first.
LEMMA GoOff ==
    ASSUME NEW x, NEW R, NEW t, NEW k, k.list = x.list, k.pc = x.pc, k.tone = x.tone,
           k.ring = x.ring, k.end = x.end, k.stream = x.stream, k.seen = x.seen,
           Own(x) \subseteq Own(k) \cup {t}, NEW y, NEW T, Goes(k, y, T)
    PROVE  Onward(x, y, R) /\ (t \in T => Kept(x, y, T))
           /\ \A u \in Tones \cap Own(x) : u # t /\ y.end[u] = "no" => u \in Own(y)
<1>1. Ring(k) = Ring(x)
  BY DEF Ring
<1>2. HeadStuck(k) = HeadStuck(x) /\ RingStuck(k) = RingStuck(x)
  BY DEF HeadStuck, RingStuck, Unheard
<1>3. Tuned(x) => Tuned(k)
  BY <1>1 DEF Tuned, Sounding, Foremost
<1>4. Onward(x, y, R)
  BY <1>2, <1>3 DEF Goes, Onward
<1>5. \A u \in Tones \cap (Own(x) \cup T) : (u # t \/ t \in T) /\ y.end[u] = "no" => u \in Own(y)
  BY DEF Goes
<1>6. QED
  BY <1>4, <1>5 DEF Kept

\* g_ring_player is set.
LEMMA GoRingLink ==
    ASSUME NEW x, NEW R, Fit(x, R), Tuned(x), x.pc = "ring", NEW y,
           y.list = x.list, y.later = x.later, y.retry = x.retry, y.pc = "idle",
           y.ring = x.tone, y.tone = NoTone, y.end = x.end, y.stream = x.stream,
           y.seen = x.seen
    PROVE  Goes(x, y, {})
<1>1. x.tone \in Tones /\ x.ring = NoTone /\ NoTone \notin Tones
  BY DEF Fit, Sound, Bud, Tuned, NoTone, Tones
<1>2. Hand(y) = {} /\ Hand(x) = {x.tone} /\ Ring(y) = {x.tone} /\ Ring(x) = {}
  BY <1>1 DEF Hand, Ring
<1>3. Own(y) = Own(x)
  BY <1>2 DEF Own
<1>4. Sounding(y) = Sounding(x)
  BY <1>2 DEF Sounding, Foremost
<1>5. Tuned(y)
  BY <1>4 DEF Tuned
<1>6. HeadStuck(y) = HeadStuck(x) /\ ~RingStuck(x)
  BY <1>1 DEF HeadStuck, RingStuck, Unheard
<1>7. QED
  BY <1>3, <1>5, <1>6 DEF Goes

\* The ring ends.
LEMMA GoRingFreed ==
    ASSUME NEW x, NEW R, Fit(x, R), x.ring # NoTone, NEW k, Sound(k),
           k.list = x.list, k.later = x.later, k.retry = x.retry, k.pc = x.pc,
           k.tone = x.tone, k.ring = NoTone, k.end = x.end, k.stream = x.stream,
           k.seen \subseteq x.seen
    PROVE  Goes(x, tone_player_free(k, {x.ring}), {})
<1> DEFINE y == tone_player_free(k, {x.ring})
<1>1. /\ Same(k, y) /\ y.seen = k.seen
      /\ \A t \in Tones : /\ t \notin {x.ring} => y.end[t] = k.end[t]
                          /\ k.end[t] = "no" /\ t \in {x.ring} => y.end[t] = "once"
                          /\ y.stream[t] = IF t \in {x.ring} THEN "none" ELSE k.stream[t]
  BY FreeFields
<1> HIDE DEF y
<1>2. /\ x.ring \in Own(x) /\ Own(x) \subseteq Tones /\ x.end[x.ring] = "no"
      /\ x.ring \notin ToSet(x.list)
      /\ x.list # <<>> => Head(x.list) \in ToSet(x.list)
      /\ ToSet(x.list) \subseteq Own(x)
  BY SoundingOwn DEF Own, Ring, Fit, Apart
<1>3. Hand(y) = Hand(x) /\ Ring(y) = {} /\ Ring(x) = {x.ring}
  BY <1>1 DEF Hand, Ring, Same
<1>4. \A t \in Own(x) : t # x.ring => t \in Own(y)
  BY <1>1, <1>3 DEF Own, Same
<1>5. y.end[x.ring] = "once" /\ \A t \in Tones : t # x.ring => y.end[t] = x.end[t]
                                                             /\ y.stream[t] = x.stream[t]
  BY <1>1, <1>2
<1>6. HeadStuck(x) => HeadStuck(y)
  BY <1>1, <1>2, <1>5 DEF HeadStuck, Unheard, Same
<1>7. ASSUME Tuned(x) PROVE Tuned(y)
  <2>1. ASSUME NEW t \in Tones, y.stream[t] # "none", y.end[t] = "no" PROVE t \in Sounding(y)
    <3>1. t # x.ring /\ t \in Sounding(x)
      BY <1>5, <1>7, <2>1 DEF Tuned
    <3>2. QED
      BY <3>1, <1>1, <1>3 DEF Sounding, Foremost, Same
  <2>2. QED
    BY <1>1, <1>7, <2>1 DEF Tuned, Same
<1>8. \A t \in Tones : x.end[t] # "no" => y.end[t] = x.end[t]
  BY <1>2, <1>5
<1>9. \A t \in Tones : y.end[t] = "no" => t # x.ring
  BY <1>5
<1>10. \A t \in Tones : y.end[t] = "no" /\ x.stream[t] # "none" => y.stream[t] # "none"
  BY <1>5
<1>11. \A t \in Tones : y.end[t] = "no" /\ t \in Own(x) => t \in Own(y)
  BY <1>4, <1>9
<1>12. Goes(x, y, {})
  BY <1>5, <1>6, <1>7, <1>8, <1>10, <1>11 DEF Goes
<1>13. QED
  BY <1>12 DEF y

\* The list is stopped.
LEMMA GoStop ==
    ASSUME NEW x, NEW R, Fit(x, R), Tuned(x), x.pc = "idle"
    PROVE  LET y == tone_player_stop(x)
           IN  Onward(x, y, R) /\ Kept(x, y, {}) /\ Silent(y, R)
<1> DEFINE S == ToSet(x.list)
           k == [x EXCEPT !.list = <<>>]
           y == tone_player_free(k, S)
<1>1. <<>> \in Seq(Tones) /\ ToSet(<<>>) = {}
  BY EmptySeq, SetNone
<1>2. /\ Sound(k) /\ k.list = <<>> /\ k.later = x.later /\ k.retry = x.retry /\ k.pc = x.pc
      /\ k.tone = x.tone /\ k.ring = x.ring /\ k.end = x.end /\ k.stream = x.stream
      /\ k.seen = x.seen
  BY <1>1 DEF Fit, Sound, Bud
<1> HIDE DEF k
<1>3. /\ S \subseteq Own(x) /\ Own(x) \subseteq Tones /\ \A t \in Own(x) : x.end[t] = "no"
      /\ S \cap Ring(x) = {} /\ Ring(x) \subseteq R
      /\ x.list # <<>> => Head(x.list) \in S
      /\ x.ring # NoTone => x.ring \in Ring(x)
  BY SoundingOwn DEF Own, Fit, Apart, Sorted
<1> HIDE DEF S
<1>4. /\ Same(k, y) /\ y.seen = k.seen
      /\ \A t \in Tones : /\ t \notin S => y.end[t] = k.end[t]
                          /\ k.end[t] = "no" /\ t \in S => y.end[t] = "once"
                          /\ y.stream[t] = IF t \in S THEN "none" ELSE k.stream[t]
  BY <1>2, FreeFields
<1> HIDE DEF y
<1>5. \A t \in Tones : /\ t \in S => y.end[t] = "once" /\ y.stream[t] = "none"
                       /\ t \notin S => y.end[t] = x.end[t] /\ y.stream[t] = x.stream[t]
  BY <1>2, <1>3, <1>4
<1>6. Hand(y) = Hand(x) /\ Ring(y) = Ring(x)
  BY <1>2, <1>4 DEF Hand, Ring, Same
<1>7. \A t \in Own(x) : t \notin S => t \in Own(y)
  BY <1>2, <1>4, <1>6 DEF Own, Same, S
<1>8. \A t \in Tones : x.stream[t] # "none" /\ x.end[t] = "no" => t \in S \cup Ring(x)
  BY <1>3 DEF Tuned, Sounding, Foremost
<1>9. \A t \in Tones : y.stream[t] # "none" /\ y.end[t] = "no" => t \in Ring(x)
  BY <1>5, <1>8
<1>10. Silent(y, R)
  BY <1>3, <1>9 DEF Silent
<1>11. Tuned(y)
  BY <1>2, <1>4, <1>6, <1>9 DEF Tuned, Sounding, Same
<1>12. RingStuck(x) => RingStuck(y) /\ y.ring = x.ring
  <2>1. x.ring # NoTone => x.ring \in Tones /\ x.ring \notin S
    BY <1>3, SoundingOwn
  <2>2. y.ring = x.ring /\ y.seen = x.seen
    BY <1>2, <1>4 DEF Same
  <2>3. QED
    BY <2>1, <2>2, <1>5 DEF RingStuck, Unheard
<1>13. Onward(x, y, R)
  <2>1. \A t \in Tones : x.end[t] # "no" => y.end[t] = x.end[t]
    BY <1>3, <1>5
  <2>2. QED
    BY <1>5, <1>10, <1>11, <1>12, <2>1 DEF Onward
<1>14. Kept(x, y, {})
  BY <1>5, <1>7 DEF Kept
<1>15. tone_player_stop(x) = y
  BY DEF tone_player_stop, k, S, y
<1>16. QED
  BY <1>10, <1>13, <1>14, <1>15

\* A tone that interrupts the list is taken up after that.
LEMMA StopThen ==
    ASSUME NEW x, NEW k, NEW y, NEW R, Onward(x, k, R), Kept(x, k, {}), Silent(k, R),
           NEW T, Goes(k, y, T), y.stream = k.stream, x.ring \in Tones \cup {NoTone}
    PROVE  Onward(x, y, R) /\ Kept(x, y, T)
<1>1. \A t \in Tones : /\ k.end[t] # "no" => y.end[t] = k.end[t]
                       /\ y.end[t] = "no" => k.end[t] = "no"
  BY DEF Goes
<1>2. Silent(y, R)
  BY <1>1 DEF Silent
<1>3. RingStuck(x) => (RingStuck(y) /\ y.ring = x.ring) \/ y.end[x.ring] # "no"
  <2> SUFFICES ASSUME RingStuck(x) PROVE (RingStuck(y) /\ y.ring = x.ring) \/ y.end[x.ring] # "no"
    OBVIOUS
  <2>1. x.ring \in Tones
    BY DEF RingStuck
  <2>2. (RingStuck(k) /\ k.ring = x.ring) \/ k.end[x.ring] # "no"
    BY DEF Onward
  <2>3. QED
    BY <1>1, <2>1, <2>2 DEF Goes
<1>4. Onward(x, y, R)
  BY <1>1, <1>2, <1>3 DEF Onward, Goes
<1>5. Kept(x, y, T)
  BY <1>1 DEF Kept, Goes
<1>6. QED
  BY <1>4, <1>5

\* The next tone plays, after those of S that cannot.
Leaves(x, y, S) ==
    /\ y.later = x.later /\ y.retry = x.retry /\ y.pc = x.pc /\ y.tone = x.tone
    /\ y.ring = x.ring /\ y.seen = x.seen
    /\ ToSet(y.list) \subseteq ToSet(x.list) /\ ToSet(x.list) = S \cup ToSet(y.list)
    /\ \A t \in Tones : t \in S => y.end[t] # "no"
    /\ \A t \in Tones : t \notin S => y.end[t] = x.end[t] /\ (x.stream[t] # "none" => y.stream[t] # "none")
    /\ \A t \in Tones : t \notin ToSet(x.list) => y.stream[t] = x.stream[t]
    /\ \A t \in Tones : y.stream[t] # "none" => t \in Foremost(y) \/ x.stream[t] # "none"

LEMMA PlayNextLeaves ==
    ASSUME NEW x, NEW R, Fit(x, R), NEW n \in Nat, n <= Len(x.list)
    PROVE  \E S : Leaves(x, PlayNext(x, n), S)
<1> DEFINE S == ToSet(SubSeq(x.list, 1, n))
           rest == SubSeq(x.list, n + 1, Len(x.list))
           k == [x EXCEPT !.list = rest]
           z == tone_player_free(k, S)
           y == IF rest = <<>> THEN z ELSE [z EXCEPT !.stream[Head(rest)] = "run"]
<1>1. /\ rest \in Seq(Tones) /\ S \cap ToSet(rest) = {}
      /\ S \cup ToSet(rest) = ToSet(x.list)
      /\ rest # <<>> => Head(rest) \in ToSet(rest)
  BY FitTypes, InjCut DEF Fit, Apart
<1>2. PlayNext(x, n) = y
  BY DEF PlayNext
<1>3. ToSet(x.list) \subseteq Tones /\ \A t \in ToSet(x.list) : x.end[t] = "no"
  BY FitTypes DEF Fit, Apart, Own
<1> HIDE DEF S, rest
<1>4. /\ Sound(k) /\ k.list = rest /\ k.later = x.later /\ k.retry = x.retry /\ k.pc = x.pc
      /\ k.tone = x.tone /\ k.ring = x.ring /\ k.end = x.end /\ k.stream = x.stream
      /\ k.seen = x.seen
  BY <1>1 DEF Fit, Sound, Bud
<1> HIDE DEF k
<1>5. /\ Sound(z) /\ Same(k, z) /\ z.seen = k.seen
      /\ \A t \in Tones : /\ t \notin S => z.end[t] = k.end[t]
                          /\ k.end[t] = "no" /\ t \in S => z.end[t] = "once"
                          /\ z.stream[t] = IF t \in S THEN "none" ELSE k.stream[t]
  BY <1>4, FreeFields, AlikeFree DEF Alike
<1> HIDE DEF z
<1>6. Leaves(x, z, S)
  <2>1. /\ z.later = x.later /\ z.retry = x.retry /\ z.pc = x.pc /\ z.tone = x.tone
        /\ z.ring = x.ring /\ z.seen = x.seen /\ z.list = rest
    BY <1>4, <1>5 DEF Same
  <2>2. \A t \in Tones : t \in S => z.end[t] # "no"
    BY <1>1, <1>3, <1>4, <1>5
  <2>3. QED
    BY <1>1, <1>4, <1>5, <2>1, <2>2 DEF Leaves
<1>7. CASE rest = <<>>
  BY <1>2, <1>6, <1>7
<1>8. CASE rest # <<>>
  <2> DEFINE h == Head(rest)
  <2>1. h \in Tones /\ h \in ToSet(rest)
    BY <1>1, <1>3, <1>8
  <2> DEFINE w == [z EXCEPT !.stream[h] = "run"]
  <2>2. y = w
    BY <1>8
  <2> HIDE DEF y, h
  <2>3. /\ Same(z, y) /\ y.seen = z.seen /\ y.end = z.end /\ y.stream[h] = "run"
        /\ \A u \in Tones \ {h} : y.stream[u] = z.stream[u]
    <3>1. /\ Same(z, w) /\ w.seen = z.seen /\ w.end = z.end /\ w.stream[h] = "run"
          /\ \A u \in Tones \ {h} : w.stream[u] = z.stream[u]
      BY <1>5, <2>1, RunFields
    <3>2. QED
      BY <2>2, <3>1
  <2> USE DEF h
  <2>4. Foremost(y) = {h}
    BY <1>4, <1>5, <1>8, <2>3 DEF Foremost, Same
  <2> HIDE DEF h
  <2>5. Leaves(x, y, S)
    <3>1. \A t \in Tones : t \notin ToSet(x.list) => t # h
      BY <1>1, <2>1
    <3>2. \A t \in Tones : z.stream[t] # "none" => y.stream[t] # "none"
      BY <2>1, <2>3
    <3>3. \A t \in Tones : y.stream[t] # "none" => t \in Foremost(y) \/ x.stream[t] # "none"
      BY <1>4, <1>5, <2>3, <2>4
    <3>4. \A t \in Tones : t \notin ToSet(x.list) => y.stream[t] = x.stream[t]
      BY <1>6, <2>3, <3>1 DEF Leaves
    <3>5. QED
      BY <1>6, <2>3, <3>2, <3>3, <3>4 DEF Leaves, Same
  <2>6. QED
    BY <1>2, <2>5
<1>9. QED
  BY <1>7, <1>8

LEMMA GoNext ==
    ASSUME NEW x, NEW w, NEW k, NEW t, NEW R, AtHead(x, w, k, t, R), t \in x.seen,
           k.list = Tail(x.list), NEW z \in NextPlays(k), NEW y, y = tone_player_free(z, {t})
    PROVE  Goes(x, y, {})
<1>1. /\ Fit(x, R) /\ t \in Tones \ R /\ x.list # <<>> /\ Head(x.list) = t
      /\ Sound(w) /\ Same(x, w) /\ w.end = x.end /\ w.stream = x.stream
      /\ w.seen = x.seen \ {t} /\ Sound(k) /\ Cut(w, k, {t})
  BY DEF AtHead
<1>2. /\ k.later = x.later /\ k.retry = x.retry /\ k.pc = x.pc /\ k.tone = x.tone
      /\ k.ring = x.ring /\ k.end = x.end /\ k.stream = x.stream /\ k.seen = x.seen \ {t}
  BY <1>1 DEF Cut, Same
<1>3. Fit(w, R) /\ Fit(k, R)
  <2>1. Fit(w, R)
    BY <1>1, SameOwn DEF Fit, Apart, Sorted, Same
  <2>2. QED
    BY <1>1, <2>1, CutFit
<1>4. ToSet(x.list) = {t} \cup ToSet(k.list) /\ k.list \in Seq(Tones)
  BY <1>1, FitTypes, SetTail
<1>5. \E S : Leaves(k, z, S)
  <2>1. Len(k.list) \in Nat
    BY <1>4, LenProperties
  <2>2. CASE z = PlayNext(k, 0)
    BY <1>3, <2>1, <2>2, PlayNextLeaves
  <2>3. CASE \E v \in Struck("no_start", k), n \in 1..Len(k.list) : z = PlayNext(v, n)
    <3>1. PICK v \in Struck("no_start", k), n \in 1..Len(k.list) : z = PlayNext(v, n)
      BY <2>3
    <3>2. Same(k, v) /\ v.seen = k.seen /\ v.end = k.end /\ v.stream = k.stream
      BY <1>1, StruckFields
    <3>3. Fit(v, R) /\ n \in Nat /\ n <= Len(v.list)
      BY <1>3, <2>1, <3>2, StruckSteps DEF Steps, Same
    <3>4. PICK S : Leaves(v, z, S)
      BY <3>1, <3>3, PlayNextLeaves
    <3>5. Foremost(v) = Foremost(k)
      BY <3>2 DEF Foremost, Same
    <3>6. Leaves(k, z, S)
      BY <3>2, <3>4 DEF Leaves, Same
    <3>7. QED
      BY <3>6
  <2>4. QED
    BY <2>2, <2>3 DEF NextPlays
<1>6. PICK S : Leaves(k, z, S)
  BY <1>5
<1>7. /\ Same(z, y) /\ y.seen = z.seen
      /\ \A u \in Tones : /\ u \notin {t} => y.end[u] = z.end[u]
                          /\ z.end[u] = "no" /\ u \in {t} => y.end[u] = "once"
                          /\ y.stream[u] = IF u \in {t} THEN "none" ELSE z.stream[u]
  <2>1. Sound(z)
    BY <1>1, AlikeNextPlays DEF Alike
  <2>2. QED
    BY <2>1, FreeFields
<1>8. /\ x.end[t] = "no" /\ t \notin ToSet(k.list) /\ t \in Own(x)
      /\ Own(x) \subseteq Tones
      /\ x.ring # NoTone => x.ring \in Ring(x)
      /\ Ring(x) \cap ToSet(x.list) = {} /\ Ring(x) \subseteq Own(x)
      /\ \A u \in Own(x) : x.end[u] = "no"
  <2>1. t \notin ToSet(k.list)
    BY <1>1, <1>4, FitTypes, InjTail DEF Fit, Apart
  <2>2. t \in Own(x) /\ Ring(x) \subseteq Own(x)
    BY <1>4 DEF Own
  <2>3. QED
    BY <1>1, <2>1, <2>2, SoundingOwn DEF Fit, Apart
<1>9. S \subseteq ToSet(k.list) /\ t \notin S /\ ToSet(k.list) \subseteq Own(x)
  BY <1>4, <1>6, <1>8 DEF Leaves, Own
<1>10. y.end[t] = "once" /\ \A u \in Tones : u # t => y.end[u] = z.end[u] /\ y.stream[u] = z.stream[u]
  <2>1. z.end[t] = k.end[t]
    BY <1>1, <1>6, <1>9 DEF Leaves
  <2>2. z.end[t] = "no"
    BY <1>2, <1>8, <2>1
  <2>3. QED
    BY <1>1, <1>7, <2>2
<1>11. \A u \in Tones : x.end[u] # "no" => y.end[u] = x.end[u]
  BY <1>2, <1>6, <1>8, <1>9, <1>10 DEF Leaves
<1>12. \A u \in Tones : y.end[u] = "no" => u # t /\ u \notin S /\ x.end[u] = "no"
  BY <1>2, <1>6, <1>10, <1>11 DEF Leaves
<1>13. \A u \in Tones : y.end[u] = "no" /\ x.stream[u] # "none" => y.stream[u] # "none"
  BY <1>2, <1>6, <1>10, <1>12 DEF Leaves
<1>14. Hand(y) = Hand(x) /\ Ring(y) = Ring(x)
  <2>1. z.pc = x.pc /\ z.tone = x.tone /\ z.ring = x.ring
    BY <1>2, <1>6 DEF Leaves
  <2>2. QED
    BY <1>7, <2>1 DEF Hand, Ring, Same
<1>15. \A u \in Tones : y.end[u] = "no" /\ u \in Own(x) => u \in Own(y)
  <2> SUFFICES ASSUME NEW u \in Tones, y.end[u] = "no", u \in Own(x) PROVE u \in Own(y)
    OBVIOUS
  <2>1. u # t /\ u \notin S
    BY <1>12
  <2>2. ToSet(x.list) \subseteq {t} \cup S \cup ToSet(y.list)
    BY <1>4, <1>6, <1>7 DEF Leaves, Same
  <2>3. y.later = x.later /\ y.retry = x.retry
    BY <1>2, <1>6, <1>7 DEF Leaves, Same
  <2>4. QED
    BY <1>14, <2>1, <2>2, <2>3 DEF Own
<1>16. ~HeadStuck(x)
  BY <1>1 DEF HeadStuck, Unheard
<1>17. RingStuck(x) => RingStuck(y) /\ y.ring = x.ring
  <2>1. y.ring = x.ring /\ y.seen = x.seen \ {t}
    BY <1>2, <1>6, <1>7 DEF Leaves, Same
  <2>2. x.ring # NoTone => x.ring \in Tones /\ x.ring # t /\ x.ring \notin ToSet(k.list)
    BY <1>4, <1>8
  <2>3. x.ring # NoTone => y.stream[x.ring] = x.stream[x.ring]
    BY <1>2, <1>6, <1>10, <2>2 DEF Leaves
  <2>4. QED
    BY <2>1, <2>3 DEF RingStuck, Unheard
<1>18. ASSUME Tuned(x) PROVE Tuned(y)
  <2>1. Foremost(y) = Foremost(z) /\ Foremost(x) = {t}
    BY <1>1, <1>7 DEF Foremost, Same
  <2>2. y.pc = x.pc /\ y.tone = x.tone /\ y.ring = x.ring
    BY <1>2, <1>6, <1>7 DEF Leaves, Same
  <2>3. ASSUME NEW u \in Tones, y.stream[u] # "none", y.end[u] = "no" PROVE u \in Sounding(y)
    <3>1. u # t /\ x.end[u] = "no" /\ z.stream[u] # "none"
      BY <1>10, <1>12, <2>3
    <3>2. u \in Foremost(z) \/ x.stream[u] # "none"
      BY <1>2, <1>6, <3>1 DEF Leaves
    <3>3. CASE u \in Foremost(z)
      BY <2>1, <3>3 DEF Sounding
    <3>4. CASE x.stream[u] # "none"
      <4>1. u \in Sounding(x)
        BY <1>18, <3>1, <3>4 DEF Tuned
      <4>2. QED
        BY <4>1, <1>14, <2>1, <2>2, <3>1 DEF Sounding
    <3>5. QED
      BY <3>2, <3>3, <3>4
  <2>4. x.pc # "link"
    BY <1>1, <1>18 DEF Tuned
  <2>5. QED
    BY <1>18, <2>2, <2>3, <2>4 DEF Tuned
<1>19. QED
  BY <1>11, <1>13, <1>15, <1>16, <1>17, <1>18 DEF Goes

(***************************************************************************)
(* One action at a time.  A bud acts for itself, or asks for tone u.       *)
(***************************************************************************)

AllTuned == \A b \in Buds : Tuned(bud[b])

Acts(b) ==
    /\ ~bud[b].dead
    /\ \A c \in Buds : c # b => bud'[c] = bud[c]
    /\ Onward(bud[b], bud'[b], Rings)
    /\ \A t \in Tones : t \in Own(bud[b]) \cup Sent(b) /\ bud'[b].end[t] = "no" =>
           t \in Own(bud'[b]) \cup Sent(b)'

Alone(b) == ask' = ask /\ \A c \in Buds : c # b => Sent(c)' = Sent(c)

Asks(b, u) ==
    /\ Fresh(b, u)
    /\ \A t \in Tones : t # u => (t \in Rings' <=> t \in Rings)
    /\ u \in Rings => u \in Rings'
    /\ u \in Own(bud[b]) => (u \in Rings' <=> u \in Rings)
    /\ \A c \in Buds, t \in Tones : c # b /\ t # u => (t \in Sent(c)' <=> t \in Sent(c))

Acting(b) == Acts(b) /\ (Alone(b) \/ \E u \in Tones : Asks(b, u))

LEMMA ActLocal ==
    ASSUME IInv, NEW b \in Buds, ~bud[b].dead, NEW y, bud' = [bud EXCEPT ![b] = y],
           Onward(bud[b], y, Rings), Kept(bud[b], y, {}), UNCHANGED <<ask, air>>
    PROVE  Acting(b)
<1>1. bud'[b] = y /\ \A c \in Buds : c # b => bud'[c] = bud[c]
  BY DEF IInv
<1>2. \A c \in Buds : Sent(c)' = Sent(c)
  BY DEF Sent
<1>3. \A t \in Tones : t \in Own(bud[b]) /\ bud'[b].end[t] = "no" => t \in Own(bud'[b])
  BY <1>1 DEF Kept
<1>4. Acts(b)
  BY <1>1, <1>2, <1>3 DEF Acts
<1>5. QED
  BY <1>2, <1>4 DEF Acting, Alone

LEMMA ActGoes ==
    ASSUME IInv, NEW b \in Buds, ~bud[b].dead, NEW y, bud' = [bud EXCEPT ![b] = y],
           NEW T, Goes(bud[b], y, T), UNCHANGED <<ask, air>>
    PROVE  Acting(b)
<1>1. Onward(bud[b], y, Rings) /\ Kept(bud[b], y, T)
  BY GoOnward
<1>2. Kept(bud[b], y, {})
  BY <1>1 DEF Kept
<1>3. QED
  BY <1>1, <1>2, ActLocal

LEMMA ActTake ==
    ASSUME IInv, NEW b \in Buds, NEW c \in Buds, ~bud[b].dead, NEW u \in Tones,
           NEW q \in Seq(Tones), ToSet(air[b][c]) = {u} \cup ToSet(q),
           air' = [air EXCEPT ![b][c] = q], NEW y, bud' = [bud EXCEPT ![b] = y],
           Onward(bud[b], y, Rings), Kept(bud[b], y, {u}), UNCHANGED ask
    PROVE  Acting(b)
<1>1. bud'[b] = y /\ \A d \in Buds : d # b => bud'[d] = bud[d]
  BY DEF IInv
<1>3. /\ air'[b][c] = q
      /\ \A d, e \in Buds : d # b \/ e # c => air'[d][e] = air[d][e]
  BY DEF IInv, Around
<1>4. \A d \in Buds : d # b => Sent(d)' = Sent(d)
  BY <1>3 DEF Sent
<1>5. \A t \in Sent(b) : t = u \/ t \in Sent(b)'
  <2> SUFFICES ASSUME NEW t \in Sent(b), t # u PROVE t \in Sent(b)'
    OBVIOUS
  <2>1. PICK d \in Buds : t \in ToSet(air[b][d])
    BY DEF Sent
  <2>2. t \in ToSet(air'[b][d])
    <3>1. CASE d = c
      BY <3>1, <2>1, <1>3
    <3>2. CASE d # c
      BY <3>2, <2>1, <1>3
    <3>3. QED
      BY <3>1, <3>2
  <2>3. QED
    BY <2>2 DEF Sent
<1>6. \A t \in Tones : t \in Own(bud[b]) \cup {u} /\ y.end[t] = "no" => t \in Own(y)
  BY DEF Kept
<1>7. Acts(b)
  BY <1>1, <1>5, <1>6 DEF Acts
<1>8. QED
  BY <1>4, <1>7 DEF Acting, Alone

LEMMA ActAddStart ==
    ASSUME IInv, Once, AllTuned, NEW b \in Buds, AddStart(b) PROVE Acting(b)
<1> DEFINE x == bud[b]
<1>1. PICK y \in tone_player_add(x, x.tone, x.shared) : bud' = [bud EXCEPT ![b] = y]
  BY DEF AddStart
<1>2. Fit(x, Rings) /\ Sound(x) /\ x.pc = "add" /\ x.tone \in Tones /\ x.shared \in BOOLEAN
  BY OnceFit DEF AddStart, Sound, Bud
<1>3. x.tone \notin Rings /\ Spare(x, x.tone)
  BY <1>2, SpareHeld DEF Fit, Sorted
<1>4. Goes(x, y, {x.tone})
  BY <1>2, <1>3, GoAdd
<1>5. QED
  BY <1>1, <1>4, ActGoes DEF AddStart

LEMMA ActAddLink ==
    ASSUME IInv, Once, AllTuned, NEW b \in Buds, AddLink(b) PROVE Acting(b)
<1> DEFINE x == bud[b]
           y == Added(Linked(x, x.tone))
<1>1. bud' = [bud EXCEPT ![b] = y] /\ UNCHANGED <<ask, air>> /\ ~x.dead
  BY DEF AddLink
<1>2. Fit(x, Rings) /\ Sound(x) /\ x.pc = "link" /\ x.tone \in Tones
  BY OnceFit DEF AddLink, Sound, Bud
<1>3. x.tone \notin Rings /\ Spare(x, x.tone)
  BY <1>2, SpareHeld DEF Fit, Sorted
<1>4. Beside(x, x, x.tone)
  BY DEF Beside
<1>5. Goes(x, y, {x.tone})
  BY <1>2, <1>3, <1>4, GoLink
<1> HIDE DEF y
<1>6. QED
  BY <1>1, <1>5, ActGoes

LEMMA ActRingLink ==
    ASSUME IInv, Once, AllTuned, NEW b \in Buds, RingLink(b) PROVE Acting(b)
<1> DEFINE x == bud[b]
           y == [x EXCEPT !.ring = x.tone, !.tone = NoTone, !.pc = "idle"]
<1>1. Fit(x, Rings) /\ Sound(x) /\ x.pc = "ring" /\ Tuned(x) /\ ~x.dead
  BY OnceFit DEF RingLink, AllTuned
<1>2. bud' = [bud EXCEPT ![b] = y] /\ UNCHANGED <<ask, air, link, delivery, events>>
  BY DEF RingLink, IInv
<1>3. /\ y.list = x.list /\ y.later = x.later /\ y.retry = x.retry
      /\ y.pc = "idle" /\ y.ring = x.tone /\ y.tone = NoTone /\ y.end = x.end
      /\ y.stream = x.stream /\ y.seen = x.seen
  BY <1>1 DEF Sound, Bud
<1> HIDE DEF y
<1>4. Goes(x, y, {})
  BY <1>1, <1>3, GoRingLink
<1>5. QED
  BY <1>1, <1>2, <1>4, ActGoes

LEMMA ActAddTimeout ==
    ASSUME IInv, Once, AllTuned, NEW b \in Buds, NEW t \in Tones, AddTimeout(b, t)
    PROVE  Acting(b)
<1> DEFINE x == bud[b]
           k == [x EXCEPT !.later = @ \ {t}]
<1>1. Fit(x, Rings) /\ Sound(x) /\ x.pc = "idle" /\ t \in x.later /\ ~x.dead
  BY OnceFit DEF AddTimeout, Ready
<1>2. /\ Sound(k) /\ k.later = x.later \ {t} /\ k.retry = x.retry /\ k.list = x.list
      /\ k.pc = x.pc /\ k.tone = x.tone /\ k.ring = x.ring /\ k.end = x.end
      /\ k.stream = x.stream /\ k.seen = x.seen /\ k.dead = x.dead
  BY <1>1 DEF Sound, Bud
<1>3. PICK y \in tone_player_add(k, t, TRUE) : bud' = [bud EXCEPT ![b] = y]
  BY DEF AddTimeout
<1> HIDE DEF k
<1>4. t \notin x.retry /\ t \notin Rings
  BY <1>1 DEF Fit, Apart, Sorted
<1>5. Fit(k, Rings) /\ t \notin Own(k) /\ k.end[t] = "no"
  BY <1>1, <1>2, <1>4, Less
<1>6. Goes(k, y, {t})
  BY <1>1, <1>2, <1>3, <1>4, <1>5, SpareNew, GoAdd
<1>7. Own(x) \subseteq Own(k) \cup {t}
  BY <1>2 DEF Own, Hand, Ring
<1>8. Onward(x, y, Rings) /\ Kept(x, y, {t})
  BY <1>2, <1>6, <1>7, GoOff
<1>9. Kept(x, y, {})
  BY <1>8 DEF Kept
<1>10. QED
  BY <1>1, <1>3, <1>8, <1>9, ActLocal DEF AddTimeout

LEMMA ActPlay ==
    ASSUME IInv, Once, AllTuned, NEW b \in Buds, NEW c \in Buds, tws_tone_play_in_task(b, c)
    PROVE  Acting(b)
<1> DEFINE x == bud[b]
           t == Head(air[b][c])
           k == IF Is(t, {"urgent"}) THEN tone_player_stop(x) ELSE x
<1>1. Fit(x, Rings) /\ Sound(x) /\ x.pc = "idle" /\ Tuned(x) /\ ~x.dead
  BY OnceFit DEF tws_tone_play_in_task, Ready, AllTuned
<1>2. t \in Tones /\ t \in Sent(b)
  BY AirSound, SetTail DEF tws_tone_play_in_task, Sent
<1>3. t \notin Own(x) /\ x.end[t] = "no"
  BY <1>2 DEF Once, Messages
<1>4. Steps(x, k, {}, Rings) /\ k.pc = "idle"
  BY <1>1, StopSteps, StepsSelf
<1>5. PICK y \in Played(k, t) : bud' = [bud EXCEPT ![b] = y]
  BY DEF tws_tone_play_in_task
<1>6. /\ air[b][c] # <<>> /\ air' = [air EXCEPT ![b][c] = Tail(@)]
      /\ UNCHANGED <<ask, link, delivery, events>>
  BY DEF tws_tone_play_in_task
<1>7. IF Is(t, {"urgent"}) THEN Onward(x, k, Rings) /\ Kept(x, k, {}) /\ Silent(k, Rings)
      ELSE k = x
  BY <1>1, GoStop
<1> HIDE DEF k
<1>8. Fit(k, Rings) /\ t \notin Own(k) /\ k.end[t] = "no"
  BY <1>2, <1>3, <1>4 DEF Steps
<1>9. Is(t, {"ring"}) <=> t \in Rings
  BY <1>2 DEF Rings
<1>10. Goes(k, y, {t}) /\ (Is(t, {"urgent"}) => y.stream = k.stream)
  BY <1>2, <1>4, <1>5, <1>8, <1>9, GoPlayed
<1>11. Onward(x, y, Rings) /\ Kept(x, y, {t})
  <2>1. CASE Is(t, {"urgent"})
    BY <2>1, <1>1, <1>7, <1>10, StopThen, SoundingOwn
  <2>2. CASE ~Is(t, {"urgent"})
    BY <2>2, <1>7, <1>10, GoOnward
  <2>3. QED
    BY <2>1, <2>2
<1> DEFINE q == Tail(air[b][c])
<1>12. air[b][c] \in Seq(Tones)
  BY AirSound
<1>13. q \in Seq(Tones) /\ ToSet(air[b][c]) = {t} \cup ToSet(q)
  BY <1>6, <1>12, SetTail
<1>14. air' = [air EXCEPT ![b][c] = q]
  BY <1>6
<1> HIDE DEF q, t
<1>15. QED
  BY <1>1, <1>2, <1>5, <1>6, <1>11, <1>13, <1>14, ActTake

LEMMA ActRefuse ==
    ASSUME IInv, Once, AllTuned, NEW b \in Buds, NEW c \in Buds, Refuse(b, c)
    PROVE  Acting(b)
<1> DEFINE x == bud[b]
           s == air[b][c]
<1>1. Fit(x, Rings) /\ Sound(x) /\ ~x.dead
  BY OnceFit DEF Refuse
<1>2. PICK i \in 1..Len(s), z \in Struck("full", x),
           a \in IF b = c THEN {FALSE} ELSE {FALSE, x.adding} :
          LET last == b = c /\ z.sent /\ i = Len(s)
          IN  bud' = [bud EXCEPT ![b] = Drop([z EXCEPT !.adding = a, !.early = @ \/ last], s[i])]
              /\ air' = [air EXCEPT ![b][c] = RemoveAt(@, i)]
  BY DEF Refuse
<1> DEFINE e == z.early \/ (b = c /\ z.sent /\ i = Len(s))
           t == s[i]
           q == RemoveAt(s, i)
           y == Drop([z EXCEPT !.adding = a, !.early = e], t)
<1>3. UNCHANGED ask
  BY DEF Refuse
<1>4. t \in Tones /\ q \in Seq(Tones) /\ ToSet(s) = {t} \cup ToSet(q)
  BY AirSound, SetRemove
<1>5. t \notin Own(x) /\ x.end[t] = "no"
  <2>1. t \in Sent(b)
    BY <1>4 DEF Sent
  <2>2. QED
    BY <2>1 DEF Once, Messages
<1>6. a \in BOOLEAN /\ e \in BOOLEAN
  <2>1. x.adding \in BOOLEAN /\ x.early \in BOOLEAN /\ x.sent \in BOOLEAN
    BY <1>1 DEF Sound, Bud
  <2>2. QED
    BY <1>2, <2>1
<1>7. bud' = [bud EXCEPT ![b] = y] /\ air' = [air EXCEPT ![b][c] = q]
  BY <1>2
<1> HIDE DEF q, t, e
<1>8. Goes(x, y, {t})
  BY <1>1, <1>4, <1>5, <1>6, GoRefused
<1> HIDE DEF y
<1>9. Onward(x, y, Rings) /\ Kept(x, y, {t})
  BY <1>8, GoOnward
<1>10. QED
  BY <1>1, <1>3, <1>4, <1>7, <1>9, ActTake

LEMMA ActSetAdding ==
    ASSUME IInv, Once, NEW b \in Buds, SetAdding(b) PROVE Acting(b)
<1> DEFINE x == bud[b]
           y == [x EXCEPT !.sent = FALSE, !.adding = TRUE]
<1>1. Fit(x, Rings) /\ Sound(x) /\ ~x.dead
  BY OnceFit DEF SetAdding
<1>2. bud' = [bud EXCEPT ![b] = y] /\ UNCHANGED <<ask, air>>
  BY DEF SetAdding, IInv
<1>3. Same(x, y) /\ y.end = x.end /\ y.stream = x.stream /\ y.seen = x.seen
  BY <1>1 DEF Sound, Bud, Same
<1> HIDE DEF y
<1>4. Goes(x, y, {})
  BY <1>1, <1>3, GoSame DEF Unheard
<1>5. QED
  BY <1>1, <1>2, <1>4, ActGoes

LEMMA ActStop ==
    ASSUME IInv, Once, AllTuned, NEW b \in Buds, Stop(b) PROVE Acting(b)
<1> DEFINE x == bud[b]
<1>1. Fit(x, Rings) /\ Sound(x) /\ x.pc = "idle" /\ Tuned(x) /\ ~x.dead
  BY OnceFit DEF Stop, Ready, AllTuned
<1>2. \/ bud' = [bud EXCEPT ![b] = tone_player_stop(x)]
      \/ x.ring # NoTone /\ bud' = [bud EXCEPT ![b] = ring_player_stop(x)]
  BY DEF Stop, IInv
<1>3. UNCHANGED <<ask, air>>
  BY DEF Stop
<1>4. CASE bud' = [bud EXCEPT ![b] = tone_player_stop(x)]
  <2>1. Onward(x, tone_player_stop(x), Rings) /\ Kept(x, tone_player_stop(x), {})
    BY <1>1, GoStop
  <2>2. QED
    BY <1>1, <1>3, <1>4, <2>1, ActLocal
<1>5. CASE x.ring # NoTone /\ bud' = [bud EXCEPT ![b] = ring_player_stop(x)]
  <2> DEFINE k == [x EXCEPT !.ring = NoTone]
             y == tone_player_free(k, {x.ring})
  <2>1. /\ Sound(k) /\ k.list = x.list /\ k.later = x.later /\ k.retry = x.retry
        /\ k.pc = x.pc /\ k.tone = x.tone /\ k.ring = NoTone /\ k.end = x.end
        /\ k.stream = x.stream /\ k.seen = x.seen
    BY <1>1 DEF Sound, Bud
  <2>2. bud' = [bud EXCEPT ![b] = y]
    BY <1>5 DEF ring_player_stop
  <2> HIDE DEF k
  <2>3. Goes(x, y, {})
    BY <1>1, <1>5, <2>1, GoRingFreed
  <2> HIDE DEF y
  <2>4. QED
    BY <1>1, <1>3, <2>2, <2>3, ActGoes
<1>6. QED
  BY <1>2, <1>4, <1>5

LEMMA ActStreamEnd ==
    ASSUME IInv, Once, AllTuned, NEW b \in Buds, NEW t \in Tones, StreamEnd(b, t)
    PROVE  Acting(b)
<1> DEFINE x == bud[b]
           S == IF delivery = "any" /\ ~Looked(x, t) THEN x.seen ELSE x.seen \cup {t}
           f == [x.stream EXCEPT ![t] = "over"]
           k == [x EXCEPT !.stream = f]
           y == [k EXCEPT !.seen = S]
<1>1. Fit(x, Rings) /\ Sound(x) /\ Own(x) \subseteq Tones /\ ~x.dead /\ x.stream[t] = "run"
      /\ UNCHANGED <<ask, air>>
  BY OnceFit DEF StreamEnd
<1>2. /\ \A u \in Tones \ {t} : f[u] = x.stream[u]
      /\ f[t] = "over" /\ S \subseteq x.seen \cup {t}
  BY <1>1, StreamEndTypes
<1>3. \/ bud' = [bud EXCEPT ![b] = y]
      \/ \E z \in Struck("failed", y) :
             bud' = [bud EXCEPT ![b] = [z EXCEPT !.failed = @ \cup {t}]]
  BY DEF StreamEnd
<1> HIDE DEF f, S
<1>4. \E z : /\ bud' = [bud EXCEPT ![b] = z] /\ Same(x, z) /\ z.end = x.end
             /\ z.stream = f /\ z.seen = S
  <2>1. CASE bud' = [bud EXCEPT ![b] = y]
    <3>1. Same(x, y) /\ y.end = x.end /\ y.stream = f /\ y.seen = S
      BY <1>1 DEF Sound, Bud, Same
    <3> HIDE DEF y
    <3>2. QED
      BY <2>1, <3>1
  <2>2. CASE \E z \in Struck("failed", y) :
                 bud' = [bud EXCEPT ![b] = [z EXCEPT !.failed = @ \cup {t}]]
    <3>1. PICK w \in Struck("failed", y) :
              bud' = [bud EXCEPT ![b] = [w EXCEPT !.failed = @ \cup {t}]]
      BY <2>2
    <3> DEFINE z == [w EXCEPT !.failed = @ \cup {t}]
    <3>2. Same(x, z) /\ z.end = x.end /\ z.stream = f /\ z.seen = S
      BY <1>1 DEF Struck, Sound, Bud, Same
    <3> HIDE DEF z
    <3>3. bud' = [bud EXCEPT ![b] = z]
      BY <3>1 DEF z
    <3>4. QED
      BY <3>2, <3>3
  <2>3. QED
    BY <1>3, <2>1, <2>2
<1>5. PICK z : /\ bud' = [bud EXCEPT ![b] = z] /\ Same(x, z) /\ z.end = x.end
               /\ z.stream = f /\ z.seen = S
  BY <1>4
<1>6. \A u \in Own(x) : Unheard(x, u) => Unheard(z, u)
  BY <1>1, <1>2, <1>5 DEF Unheard
<1>7. \A u \in Tones \ {} : z.stream[u] # "none" <=> x.stream[u] # "none"
  BY <1>1, <1>2, <1>5
<1>8. Goes(x, z, {})
  BY <1>1, <1>5, <1>6, <1>7, GoSame
<1>9. QED
  BY <1>1, <1>5, <1>8, ActGoes

\* A callback that finds nothing to do, if it finds a player at all.
LEMMA GoSeen ==
    ASSUME NEW x, NEW R, Fit(x, R), NEW y, Same(x, y), y.end = x.end, y.stream = x.stream,
           y.seen \subseteq x.seen
    PROVE  Goes(x, y, {})
<1>1. \A u \in Own(x) : Unheard(x, u) => Unheard(y, u)
  BY DEF Unheard
<1>2. QED
  BY <1>1, GoSame

LEMMA GoneSeen ==
    ASSUME NEW w, Sound(w), NEW y \in Gone(w)
    PROVE  Same(w, y) /\ y.end = w.end /\ y.stream = w.stream /\ y.seen = w.seen
BY DEF Gone, Sound, Bud, Same

LEMMA ActCallback ==
    ASSUME IInv, Once, AllTuned, NEW b \in Buds, NEW t \in Tones, tone_player_callback(b, t)
    PROVE  Acting(b)
<1> DEFINE x == bud[b]
           w == [x EXCEPT !.seen = @ \ {t}, !.failed = @ \ {t}]
           second == [w EXCEPT !.second = @ \cup {t}]
<1>1. /\ Fit(x, Rings) /\ Sound(x) /\ Own(x) \subseteq Tones /\ t \notin Rings
      /\ t \in x.seen /\ ~x.dead
  BY OnceFit DEF tone_player_callback, Runs, Ready, Rings
<1>2. /\ Sound(w) /\ Same(x, w) /\ w.end = x.end /\ w.stream = x.stream
      /\ w.seen = x.seen \ {t} /\ w.dead = x.dead
  BY <1>1, SeenFields
<1>3. w.list = x.list /\ w.seen \subseteq x.seen
  BY <1>2 DEF Same
<1>4. UNCHANGED <<ask, air>>
  BY DEF tone_player_callback
<1>5. \/ \E y \in Gone(w) : bud' = [bud EXCEPT ![b] = y]
      \/ bud' = [bud EXCEPT ![b] = w]
      \/ x.list # <<>> /\ Head(x.list) = t
             /\ bud' = [bud EXCEPT ![b] = [second EXCEPT !.stream[t] = "run"]]
      \/ /\ x.list # <<>> /\ Head(x.list) = t
         /\ \E y \in NextPlays([w EXCEPT !.list = Tail(@)]) :
                bud' = [bud EXCEPT ![b] = tone_player_free(y, {t})]
  <2>1. [second EXCEPT !.stream[t] = "run"]
           = [w EXCEPT !.second = @ \cup {t}, !.stream[t] = "run"]
    BY <1>2 DEF Sound, Bud
  <2>2. QED
    BY <1>3, <2>1 DEF tone_player_callback, tone_player_runing
<1> HIDE DEF w
<1>6. CASE \E y \in Gone(w) : bud' = [bud EXCEPT ![b] = y]
  <2>1. PICK y \in Gone(w) : bud' = [bud EXCEPT ![b] = y]
    BY <1>6
  <2>2. Same(x, y) /\ y.end = x.end /\ y.stream = x.stream /\ y.seen \subseteq x.seen
    BY <1>2, <1>3, GoneSeen DEF Same
  <2>3. Goes(x, y, {})
    BY <1>1, <2>2, GoSeen
  <2>4. QED
    BY <1>1, <1>4, <2>1, <2>3, ActGoes
<1>7. CASE bud' = [bud EXCEPT ![b] = w]
  <2>1. Goes(x, w, {})
    BY <1>1, <1>2, <1>3, GoSeen
  <2>2. QED
    BY <1>1, <1>4, <1>7, <2>1, ActGoes
<1>8. CASE x.list # <<>> /\ Head(x.list) = t
               /\ bud' = [bud EXCEPT ![b] = [second EXCEPT !.stream[t] = "run"]]
  <2> DEFINE y == [second EXCEPT !.stream[t] = "run"]
  <2>1. /\ Sound(second) /\ Same(w, second) /\ second.end = w.end
        /\ second.stream = w.stream /\ second.seen = w.seen
    BY <1>2 DEF Sound, Bud, Same
  <2> HIDE DEF second
  <2>2. /\ Same(second, y) /\ y.seen = second.seen
        /\ y.end = second.end /\ y.stream[t] = "run"
        /\ \A u \in Tones \ {t} : y.stream[u] = second.stream[u]
    BY <2>1, RunFields
  <2> HIDE DEF y
  <2>3. Same(x, y) /\ y.end = x.end /\ y.seen = x.seen \ {t} /\ y.stream[t] = "run"
        /\ \A u \in Tones \ {t} : y.stream[u] = x.stream[u]
    BY <1>2, <2>1, <2>2 DEF Same
  <2>4. /\ Hand(y) = Hand(x) /\ Ring(y) = Ring(x) /\ Own(y) = Own(x)
        /\ x.ring # NoTone => x.ring \in Tones /\ x.ring # t
        /\ Foremost(x) = {t} /\ Foremost(y) = {t}
    <3>1. x.ring # NoTone => x.ring \in Tones /\ x.ring # t
      BY <1>1, SoundingOwn DEF Fit, Sorted
    <3>2. QED
      BY <1>8, <2>3, <3>1, SameOwn DEF Foremost, Same
  <2>5. ~HeadStuck(x)
    BY <1>1, <1>8 DEF HeadStuck, Unheard
  <2>6. RingStuck(x) => RingStuck(y) /\ y.ring = x.ring
    BY <2>3, <2>4 DEF RingStuck, Unheard, Same
  <2>7. ASSUME Tuned(x) PROVE Tuned(y)
    <3>1. ASSUME NEW u \in Tones, y.stream[u] # "none", y.end[u] = "no" PROVE u \in Sounding(y)
      <4>1. CASE u = t
        BY <2>4, <4>1 DEF Sounding
      <4>2. CASE u # t
        <5>1. u \in Sounding(x)
          BY <2>3, <2>7, <3>1, <4>2 DEF Tuned
        <5>2. QED
          BY <5>1, <2>3, <2>4 DEF Sounding, Same
      <4>3. QED
        BY <4>1, <4>2
    <3>2. QED
      BY <2>3, <2>7, <3>1 DEF Tuned, Same
  <2>8. \A u \in Tones : x.stream[u] # "none" => y.stream[u] # "none"
    BY <2>3
  <2>9. Goes(x, y, {})
    BY <2>3, <2>4, <2>5, <2>6, <2>7, <2>8 DEF Goes
  <2>10. bud' = [bud EXCEPT ![b] = y]
    BY <1>8 DEF y
  <2>11. QED
    BY <1>1, <1>4, <2>9, <2>10, ActGoes
<1>9. CASE /\ x.list # <<>> /\ Head(x.list) = t
           /\ \E y \in NextPlays([w EXCEPT !.list = Tail(@)]) :
                  bud' = [bud EXCEPT ![b] = tone_player_free(y, {t})]
  <2> DEFINE k == [w EXCEPT !.list = Tail(@)]
  <2>1. PICK z \in NextPlays(k) : bud' = [bud EXCEPT ![b] = tone_player_free(z, {t})]
    BY <1>9
  <2>2. Fit(w, Rings)
    BY <1>1, <1>2, SameOwn DEF Fit, Apart, Sorted, Same
  <2>3. Sound(k) /\ k.retry = w.retry /\ Cut(w, k, {t})
    BY <1>3, <1>9, <2>2, TailCut
  <2>4. k.list = Tail(x.list)
    BY <1>2, <1>3 DEF Sound, Bud
  <2> HIDE DEF k, second
  <2>5. AtHead(x, w, k, t, Rings)
    BY <1>1, <1>2, <1>9, <2>3 DEF AtHead
  <2> DEFINE y == tone_player_free(z, {t})
  <2>6. Goes(x, y, {})
    BY <1>1, <2>1, <2>4, <2>5, GoNext
  <2>7. bud' = [bud EXCEPT ![b] = y]
    BY <2>1
  <2> HIDE DEF y
  <2>8. QED
    BY <1>1, <1>4, <2>6, <2>7, ActGoes
<1>10. QED
  BY <1>5, <1>6, <1>7, <1>8, <1>9

LEMMA ActRingCallback ==
    ASSUME IInv, Once, AllTuned, NEW b \in Buds, NEW t \in Tones, ring_player_callback(b, t)
    PROVE  Acting(b)
<1> DEFINE x == bud[b]
           w == [x EXCEPT !.seen = @ \ {t}]
           k == [w EXCEPT !.ring = NoTone]
<1>1. Fit(x, Rings) /\ Sound(x) /\ ~x.dead /\ UNCHANGED <<ask, air>>
  BY OnceFit DEF ring_player_callback, Runs, Ready
<1>2. /\ Sound(w) /\ Same(x, w) /\ w.end = x.end /\ w.stream = x.stream
      /\ w.seen = x.seen \ {t} /\ w.dead = x.dead
  BY <1>1, SeenFields
<1>3. \/ x.ring = t /\ bud' = [bud EXCEPT ![b] = tone_player_free(k, {t})]
      \/ \E y \in Gone(w) : bud' = [bud EXCEPT ![b] = y]
  <2>1. w.ring = x.ring
    BY <1>2 DEF Same
  <2>2. QED
    BY <2>1 DEF ring_player_callback
<1> HIDE DEF w
<1>4. CASE x.ring = t /\ bud' = [bud EXCEPT ![b] = tone_player_free(k, {t})]
  <2>1. /\ Sound(k) /\ k.list = w.list /\ k.later = w.later /\ k.retry = w.retry
        /\ k.pc = w.pc /\ k.tone = w.tone /\ k.ring = NoTone /\ k.end = w.end
        /\ k.stream = w.stream /\ k.seen = w.seen
    BY <1>2 DEF Sound, Bud
  <2> HIDE DEF k
  <2>2. x.ring # NoTone
    BY <1>4 DEF Tones, NoTone
  <2> DEFINE y == tone_player_free(k, {x.ring})
  <2>3. Goes(x, y, {})
    BY <1>1, <1>2, <2>1, <2>2, GoRingFreed DEF Same
  <2>4. bud' = [bud EXCEPT ![b] = y]
    BY <1>4
  <2> HIDE DEF y
  <2>5. QED
    BY <1>1, <2>3, <2>4, ActGoes
<1>5. CASE \E y \in Gone(w) : bud' = [bud EXCEPT ![b] = y]
  <2>1. PICK y \in Gone(w) : bud' = [bud EXCEPT ![b] = y]
    BY <1>5
  <2>2. Same(x, y) /\ y.end = x.end /\ y.stream = x.stream /\ y.seen \subseteq x.seen
    BY <1>2, GoneSeen DEF Same
  <2>3. Goes(x, y, {})
    BY <1>1, <2>2, GoSeen
  <2>4. QED
    BY <1>1, <2>1, <2>3, ActGoes
<1>6. QED
  BY <1>3, <1>4, <1>5

(***************************************************************************)
(* Asking for a tone.                                                      *)
(***************************************************************************)

\* x is the bud, or the bud with t off its timer.
Off(b, x, t) ==
    /\ Freed(b, x, t)
    /\ x.list = bud[b].list /\ x.pc = bud[b].pc /\ x.tone = bud[b].tone
    /\ x.ring = bud[b].ring /\ x.stream = bud[b].stream /\ x.seen = bud[b].seen
    /\ Own(bud[b]) \subseteq Own(x) \cup {t}

LEMMA AskRings ==
    ASSUME IInv, Once, NEW b \in Buds, NEW t \in Tones, Fresh(b, t), NEW r, Requested(t, r),
           ask' = [ask EXCEPT ![t] = r],
           \A c \in Buds, u \in Tones : c # b /\ u # t => (u \in Sent(c)' <=> u \in Sent(c))
    PROVE  Asks(b, t)
<1>1. ask'[t] = r /\ \A u \in Tones \ {t} : ask'[u] = ask[u]
  BY DEF IInv, Around
<1>2. /\ \A u \in Tones : u # t => (u \in Rings' <=> u \in Rings)
      /\ t \in Rings' <=> r.kind = "ring"
      /\ t \in Rings <=> ask[t].kind = "ring"
  BY <1>1 DEF Rings, Is
<1>3. CASE Is(t, {"none"})
  <2>1. t \notin Own(bud[b]) /\ t \notin Rings
    BY <1>3 DEF Once, Unasked, Rings, Is
  <2>2. QED
    BY <1>2, <2>1 DEF Asks
<1>4. CASE Is(t, {"ring"}) <=> r.kind = "ring"
  BY <1>2, <1>4 DEF Asks, Is
<1>5. QED
  BY <1>3, <1>4 DEF Requested

\* The bud keeps t.
LEMMA ActKeep ==
    ASSUME IInv, Once, NEW b \in Buds, ~bud[b].dead, NEW t \in Tones, NEW x, Off(b, x, t),
           Fresh(b, t), NEW r, Requested(t, r), ask' = [ask EXCEPT ![t] = r],
           NEW y, bud' = [bud EXCEPT ![b] = y], Goes(x, y, {t}), UNCHANGED air
    PROVE  Acting(b)
<1>1. bud'[b] = y /\ \A c \in Buds : c # b => bud'[c] = bud[c]
  BY DEF IInv
<1>2. \A c \in Buds : Sent(c)' = Sent(c)
  BY DEF Sent
<1>3. Asks(b, t)
  BY <1>2, AskRings
<1>4. Onward(bud[b], y, Rings) /\ Kept(bud[b], y, {t})
  <2> DEFINE R == Rings
  <2>1. /\ x.list = bud[b].list /\ x.pc = bud[b].pc /\ x.tone = bud[b].tone
        /\ x.ring = bud[b].ring /\ x.end = bud[b].end /\ x.stream = bud[b].stream
        /\ x.seen = bud[b].seen /\ Own(bud[b]) \subseteq Own(x) \cup {t}
    BY DEF Off, Freed
  <2> HIDE DEF R
  <2>2. Onward(bud[b], y, R) /\ Kept(bud[b], y, {t})
    BY <2>1, GoOff
  <2>3. QED
    BY <2>2 DEF R
<1>5. Acts(b)
  BY <1>1, <1>2, <1>4 DEF Acts, Kept
<1>6. QED
  BY <1>3, <1>5 DEF Acting

LEMMA SentTo ==
    ASSUME IInv, NEW b \in Buds, NEW t \in Tones,
           air' = [c \in Buds |-> [air[c] EXCEPT ![b] = Append(@, t)]]
    PROVE  \A c \in Buds : Sent(c)' = Sent(c) \cup {t}
<1> SUFFICES ASSUME NEW c \in Buds PROVE Sent(c)' = Sent(c) \cup {t}
  OBVIOUS
<1>1. air'[c] = [air[c] EXCEPT ![b] = Append(@, t)] /\ air[c] \in [Buds -> Seq(Tones)]
  BY DEF IInv, Around
<1>2. \A d \in Buds : air'[c][d] = IF d = b THEN Append(air[c][d], t) ELSE air[c][d]
  BY <1>1
<1>3. \A d \in Buds : ToSet(Append(air[c][d], t)) = ToSet(air[c][d]) \cup {t}
  BY AirSound, SetAppend
<1>4. \A d \in Buds : ToSet(air'[c][d]) = IF d = b THEN ToSet(air[c][d]) \cup {t}
                                          ELSE ToSet(air[c][d])
  <2> SUFFICES ASSUME NEW d \in Buds
               PROVE  ToSet(air'[c][d]) = IF d = b THEN ToSet(air[c][d]) \cup {t}
                                          ELSE ToSet(air[c][d])
    OBVIOUS
  <2>1. CASE d = b
    <3>1. air'[c][d] = Append(air[c][d], t)
      BY <1>2, <2>1
    <3>2. QED
      BY <1>3, <2>1, <3>1
  <2>2. CASE d # b
    <3>1. air'[c][d] = air[c][d]
      BY <1>2, <2>2
    <3>2. QED
      BY <2>2, <3>1
  <2>3. QED
    BY <2>1, <2>2
<1>5. \A u : u \in Sent(c)' <=> \E d \in Buds : u \in ToSet(air'[c][d])
  BY DEF Sent
<1>6. \A u : u \in Sent(c) <=> \E d \in Buds : u \in ToSet(air[c][d])
  BY DEF Sent
<1>7. \A u : u \in Sent(c)' <=> u \in Sent(c) \/ u = t
  <2> DEFINE T(d) == ToSet(air[c][d])
             U(d) == ToSet(air'[c][d])
  <2>1. \A d \in Buds : U(d) = IF d = b THEN T(d) \cup {t} ELSE T(d)
    BY <1>4
  <2>2. \A u : (u \in Sent(c)' <=> \E d \in Buds : u \in U(d))
               /\ (u \in Sent(c) <=> \E d \in Buds : u \in T(d))
    BY <1>5, <1>6
  <2> HIDE DEF T, U
  <2>3. QED
    BY <2>1, <2>2
<1>8. QED
  BY <1>7

\* The bud sends t.
LEMMA ActSend ==
    ASSUME IInv, Once, NEW b \in Buds, ~bud[b].dead, NEW t \in Tones, NEW x, Off(b, x, t),
           Fresh(b, t), NEW r, Requested(t, r), ask' = [ask EXCEPT ![t] = r],
           NEW y, bud' = [bud EXCEPT ![b] = y], Goes(x, y, {}),
           air' = [c \in Buds |-> [air[c] EXCEPT ![b] = Append(@, t)]]
    PROVE  Acting(b)
<1>1. bud'[b] = y /\ \A c \in Buds : c # b => bud'[c] = bud[c]
  BY DEF IInv
<1>2. \A c \in Buds : Sent(c)' = Sent(c) \cup {t}
  BY SentTo
<1>3. Asks(b, t)
  <2>1. \A c \in Buds, u \in Tones : c # b /\ u # t => (u \in Sent(c)' <=> u \in Sent(c))
    BY <1>2
  <2>2. QED
    BY <2>1, AskRings
<1>4. Onward(bud[b], y, Rings)
      /\ \A u \in Tones \cap Own(bud[b]) : u # t /\ y.end[u] = "no" => u \in Own(y)
  <2> DEFINE R == Rings
  <2>1. /\ x.list = bud[b].list /\ x.pc = bud[b].pc /\ x.tone = bud[b].tone
        /\ x.ring = bud[b].ring /\ x.end = bud[b].end /\ x.stream = bud[b].stream
        /\ x.seen = bud[b].seen /\ Own(bud[b]) \subseteq Own(x) \cup {t}
    BY DEF Off, Freed
  <2> HIDE DEF R
  <2>2. Onward(bud[b], y, R)
        /\ \A u \in Tones \cap Own(bud[b]) : u # t /\ y.end[u] = "no" => u \in Own(y)
    BY <2>1, GoOff
  <2>3. QED
    BY <2>2 DEF R
<1>5. Acts(b)
  <2>1. \A u \in Tones : u \in Own(bud[b]) \cup Sent(b) /\ y.end[u] = "no" =>
            u \in Own(y) \cup Sent(b)'
    BY <1>2, <1>4
  <2>2. QED
    BY <1>1, <1>4, <2>1 DEF Acts
<1>6. QED
  BY <1>3, <1>5 DEF Acting

LEMMA ActHere ==
    ASSUME IInv, Once, NEW b \in Buds, ~bud[b].dead, NEW t \in Tones, NEW x, Off(b, x, t),
           Fresh(b, t), NEW r, Requested(t, r), ask' = [ask EXCEPT ![t] = r],
           NEW y \in PlayedHere(x, t, r.kind), bud' = [bud EXCEPT ![b] = y], UNCHANGED air
    PROVE  Acting(b)
<1> DEFINE S == Rings'
<1>1. /\ Fit(x, S) /\ (r.kind = "ring" <=> t \in S) /\ x.end[t] = "no"
      /\ x.pc = "idle" /\ t \notin Own(x)
  <2>1. Fit(x, Rings') /\ (r.kind = "ring" <=> t \in Rings') /\ x.end[t] = "no"
    <3>1. Freed(b, x, t)
      BY DEF Off
    <3>2. QED
      BY <3>1, AskFit
  <2>2. x.pc = "idle" /\ t \notin Own(x)
    BY DEF Off, Freed
  <2>3. QED
    BY <2>1, <2>2
<1> HIDE DEF S
<1>2. Goes(x, y, {t})
  BY <1>1, GoPlayedHere
<1>3. QED
  BY <1>2, ActKeep

LEMMA ActPlayTone ==
    ASSUME IInv, Once, NEW b \in Buds, ~bud[b].dead, NEW t \in Tones, NEW x, Off(b, x, t),
           Fresh(b, t), NEW r, Requested(t, r), TwsPlayTone(b, x, t, r)
    PROVE  Acting(b)
<1>1. Fit(x, Rings) /\ Sound(x) /\ t \notin Own(x)
  BY DEF Off, Freed, Fit
<1>2. CASE /\ bud' = [bud EXCEPT ![b] = [x EXCEPT !.retry = @ \cup {t}]]
           /\ ask' = [ask EXCEPT ![t] = Delayed(r)] /\ UNCHANGED air
  <2> DEFINE y == [x EXCEPT !.retry = @ \cup {t}]
             d == Delayed(r)
  <2>1. Requested(t, d)
    BY DEF Requested, Delayed, AllKinds
  <2>2. /\ y.later = x.later /\ y.retry = x.retry \cup {t} /\ y.list = x.list
        /\ y.pc = x.pc /\ y.tone = x.tone /\ y.ring = x.ring /\ y.end = x.end
        /\ y.stream = x.stream /\ y.seen = x.seen
    BY <1>1 DEF Sound, Bud
  <2>3. bud' = [bud EXCEPT ![b] = y] /\ ask' = [ask EXCEPT ![t] = d] /\ UNCHANGED air
    BY <1>2
  <2> HIDE DEF y, d
  <2>4. Goes(x, y, {t})
    <3> DEFINE R == Rings
    <3>1. Fit(x, R)
      BY <1>1
    <3> HIDE DEF R
    <3>2. QED
      BY <2>2, <3>1, GoWait
  <2>5. QED
    BY <2>1, <2>3, <2>4, ActKeep
<1>3. CASE /\ air' = [c \in Buds |-> [air[c] EXCEPT ![b] = Append(@, t)]]
           /\ bud' = [bud EXCEPT ![b] = [x EXCEPT !.sent = r.kind # "ring",
                                                  !.early = @ /\ r.kind = "ring"]]
           /\ ask' = [ask EXCEPT ![t] = r]
  <2> DEFINE y == [x EXCEPT !.sent = r.kind # "ring", !.early = @ /\ r.kind = "ring"]
  <2>1. /\ Same(x, y) /\ y.end = x.end /\ y.stream = x.stream /\ y.seen = x.seen
    BY <1>1 DEF Sound, Bud, Same
  <2> HIDE DEF y
  <2>2. Goes(x, y, {})
    BY <1>1, <2>1, GoSeen
  <2>3. bud' = [bud EXCEPT ![b] = y]
    BY <1>3 DEF y
  <2>4. QED
    BY <1>3, <2>2, <2>3, ActSend
<1>4. CASE /\ \E y \in PlayedHere(x, t, r.kind) : bud' = [bud EXCEPT ![b] = y]
           /\ ask' = [ask EXCEPT ![t] = r] /\ UNCHANGED air
  BY <1>4, ActHere
<1>5. QED
  BY <1>2, <1>3, <1>4 DEF TwsPlayTone

LEMMA ActRequest ==
    ASSUME IInv, Once, NEW b \in Buds, NEW t \in Tones, NEW kind \in Kinds,
           NEW more \in BOOLEAN, Request(b, t, kind, more)
    PROVE  Acting(b)
<1> DEFINE r == [kind |-> kind, more |-> more]
           x == bud[b]
<1>1. Requested(t, r) /\ r.kind = kind
  BY ToneAssumption DEF Requested, Request
<1>2. Fresh(b, t) /\ t \notin Own(x) /\ ~bud[b].dead
  BY DEF Request, Once, Unasked, Fresh, Ready
<1>3. Freed(b, x, t)
  BY <1>2, OnceFit DEF Freed, Request, Ready
<1>4. Off(b, x, t)
  BY <1>3 DEF Off
<1>5. CASE TwsPlayTone(b, x, t, r)
  <2> HIDE DEF r, x
  <2>1. QED
    BY <1>1, <1>2, <1>4, <1>5, ActPlayTone
<1>6. CASE /\ \E y \in PlayedHere(bud[b], t, kind) : bud' = [bud EXCEPT ![b] = y]
           /\ ask' = [ask EXCEPT ![t] = r] /\ UNCHANGED air
  <2>1. PICK y \in PlayedHere(x, t, kind) : bud' = [bud EXCEPT ![b] = y]
    BY <1>6
  <2> HIDE DEF r, x
  <2>2. y \in PlayedHere(x, t, r.kind)
    BY <1>1, <2>1
  <2>3. QED
    BY <1>1, <1>2, <1>4, <1>6, <2>1, <2>2, ActHere
<1>7. QED
  BY <1>5, <1>6 DEF Request

LEMMA ActRetry ==
    ASSUME IInv, Once, NEW b \in Buds, NEW t \in Tones, RetryTimeout(b, t)
    PROVE  Acting(b)
<1> DEFINE x == [bud[b] EXCEPT !.retry = @ \ {t}]
<1>1. /\ Fit(bud[b], Rings) /\ Sound(bud[b]) /\ bud[b].pc = "idle" /\ t \in bud[b].retry
      /\ ~bud[b].dead
  BY OnceFit DEF RetryTimeout, Ready
<1>2. ask[t] \in [kind : AllKinds \cup {"none"}, more : BOOLEAN] /\ ask[t].kind # "none"
  BY <1>1 DEF IInv, Around, Asked, Is
<1>3. Requested(t, ask[t])
  BY <1>2 DEF Requested, Is
<1>4. Fresh(b, t)
  BY <1>1 DEF Once, Waits, Fresh
<1>5. /\ Sound(x) /\ x.later = bud[b].later /\ x.retry = bud[b].retry \ {t}
      /\ x.list = bud[b].list /\ x.pc = bud[b].pc /\ x.tone = bud[b].tone
      /\ x.ring = bud[b].ring /\ x.end = bud[b].end /\ x.stream = bud[b].stream
      /\ x.seen = bud[b].seen /\ x.dead = bud[b].dead
  BY <1>1 DEF Sound, Bud
<1>6. TwsPlayTone(b, x, t, ask[t])
  BY DEF RetryTimeout
<1> HIDE DEF x
<1>7. t \notin bud[b].later
  BY <1>1 DEF Fit, Apart
<1>8. /\ Fit(x, Rings) /\ Own(x) \subseteq Own(bud[b]) /\ t \notin Own(x)
      /\ Heard(bud[b]) => Heard(x)
  <2> DEFINE w == bud[b]
  <2>1. /\ Fit(w, Rings) /\ w.pc = "idle" /\ t \in w.later \cup w.retry
        /\ Sound(x) /\ x.later \subseteq w.later \ {t} /\ x.retry \subseteq w.retry \ {t}
        /\ x.list = w.list /\ x.pc = w.pc /\ x.tone = w.tone /\ x.ring = w.ring
        /\ x.end = w.end /\ x.stream = w.stream /\ x.seen = w.seen /\ x.dead = w.dead
    BY <1>1, <1>5, <1>7
  <2> HIDE DEF w
  <2>2. /\ Fit(x, Rings) /\ Own(x) \subseteq Own(w) /\ t \notin Own(x)
        /\ Heard(w) => Heard(x)
    BY <2>1, Less
  <2>3. QED
    BY <2>2 DEF w
<1>9. Freed(b, x, t)
  BY <1>1, <1>5, <1>8 DEF Freed
<1>10. Own(bud[b]) \subseteq Own(x) \cup {t}
  BY <1>5 DEF Own, Hand, Ring
<1>11. Off(b, x, t)
  BY <1>5, <1>9, <1>10 DEF Off
<1>12. QED
  BY <1>1, <1>3, <1>4, <1>6, <1>11, ActPlayTone

(***************************************************************************)
(* What has become of a tone, from the bud x, the tones S under way to it  *)
(* and the rings R.                                                        *)
(***************************************************************************)

Ends == {"no", "once", "twice", "dropped"}
StuckIn(x, R, t) ==
    \/ Jammed(x) /\ t \in x.retry
    \/ IF t \in R THEN x.ring = t /\ Unheard(x, t) ELSE HeadStuck(x)

FateOf(x, S, R, t) ==
    IF x.end[t] \in {"once", "twice"} THEN "ended"
    ELSE IF x.end[t] = "dropped" THEN "lost"
    ELSE IF t \notin S \cup Own(x) THEN "idle"
    ELSE IF x.dead THEN "lost"
    ELSE IF StuckIn(x, R, t) THEN "stuck"
    ELSE IF x.stream[t] # "none" THEN "playing" ELSE "asked"

LEMMA EndOf ==
    ASSUME NEW x, NEW R, Fit(x, R), NEW t \in Tones PROVE x.end[t] \in Ends
BY DEF Fit, Sound, Bud, Ends

FatesOf == \A b \in Buds, t \in Tones : Fate(b, t) = FateOf(bud[b], Sent(b), Rings, t)

LEMMA FateIs == IInv /\ Once /\ AllTuned => FatesOf
<1> SUFFICES ASSUME IInv, Once, AllTuned, NEW b \in Buds, NEW t \in Tones
             PROVE  Fate(b, t) = FateOf(bud[b], Sent(b), Rings, t)
  BY DEF FatesOf
<1> DEFINE x == bud[b]
           held == Held(b, t)
           stuck == Stalled(bud[b], t)
<1>1. x.end[t] \in Ends /\ t # NoTone /\ (x.pc = "idle" => x.tone = NoTone)
  BY OnceFit, EndOf DEF AllTuned, Tuned, Tones, NoTone
<1>2. held <=> t \in Sent(b) \cup Own(x)
  <2>1. t \in {x.tone, x.ring} <=> t \in Hand(x) \cup Ring(x)
    BY <1>1 DEF Hand, Ring
  <2>2. (\E c \in Buds : t \in ToSet(air[b][c])) <=> t \in Sent(b)
    BY DEF Sent
  <2>3. QED
    BY <2>1, <2>2 DEF Held, Own
<1>3. stuck <=> StuckIn(x, Rings, t)
  BY DEF Stalled, StuckIn, Rings, HeadStuck, tone_player_runing
<1>4. Fate(b, t) = CASE x.end[t] \in {"once", "twice"} -> "ended"
          [] x.end[t] = "dropped" -> "lost"
          [] x.end[t] = "no" /\ ~held -> "idle"
          [] OTHER -> IF x.dead THEN "lost"
                      ELSE IF stuck THEN "stuck"
                      ELSE IF x.stream[t] # "none" THEN "playing" ELSE "asked"
  BY DEF Fate
<1> HIDE DEF x, held, stuck
<1>5. QED
  BY <1>1, <1>2, <1>3, <1>4 DEF FateOf, Ends, x

\* A step of a bud moves what is at it as ToneLife says.
LEMMA FateMoves ==
    ASSUME NEW x, NEW y, NEW R, NEW Q, NEW S, NEW P, NEW t \in Tones, ~x.dead,
           x.end[t] \in Ends, y.end[t] \in Ends, Onward(x, y, R),
           t \in S \cup Own(x) /\ y.end[t] = "no" => t \in P \cup Own(y),
           t \in S \cup Own(x) => (t \in Q <=> t \in R),
           Jammed(x) /\ t \in x.retry /\ y.end[t] = "no" => y.stream[t] = "none",
           FateOf(x, S, R, t) # FateOf(y, P, Q, t)
    PROVE  <<FateOf(x, S, R, t), FateOf(y, P, Q, t)>> \in Tone!Moves
<1> DEFINE from == FateOf(x, S, R, t)
           to == FateOf(y, P, Q, t)
<1>1. x.end[t] = "no"
  <2> SUFFICES ASSUME x.end[t] # "no" PROVE FALSE
    OBVIOUS
  <2>1. y.end[t] = x.end[t]
    BY DEF Onward
  <2>2. QED
    BY <2>1 DEF FateOf, Ends
<1>2. from \in {"idle", "asked", "playing", "stuck"}
  BY <1>1 DEF FateOf
<1>3. CASE y.end[t] # "no"
  <2>1. to \in {"ended", "lost"}
    BY <1>3 DEF FateOf, Ends
  <2> HIDE DEF from, to
  <2>2. <<from, to>> \in Tone!Moves
    BY <1>2, <2>1 DEF Tone!Moves
  <2>3. QED
    BY <2>2 DEF from, to
<1>4. CASE y.end[t] = "no" /\ t \notin S \cup Own(x)
  <2>1. from = "idle" /\ to \in {"idle", "asked", "playing", "stuck", "lost"}
    BY <1>1, <1>4 DEF FateOf
  <2>2. from # to
    OBVIOUS
  <2> HIDE DEF from, to
  <2>3. <<from, to>> \in Tone!Moves
    BY <2>1, <2>2 DEF Tone!Moves
  <2>4. QED
    BY <2>3 DEF from, to
<1>5. CASE y.end[t] = "no" /\ t \in S \cup Own(x)
  <2>1. t \in P \cup Own(y) /\ (t \in Q <=> t \in R)
    BY <1>5
  <2>2. from \in {"asked", "playing", "stuck"} /\ to \in {"asked", "playing", "stuck", "lost"}
    BY <1>1, <1>5, <2>1 DEF FateOf
  <2>3. ~(from = "playing" /\ to = "asked")
    BY <1>1, <1>5, <2>1 DEF FateOf, Onward
  <2>4. ~(from = "stuck" /\ to = "playing")
    <3> SUFFICES ASSUME from = "stuck", to = "playing" PROVE FALSE
      OBVIOUS
    <3>1. StuckIn(x, R, t) /\ ~StuckIn(y, Q, t) /\ y.stream[t] # "none"
          /\ ~(Jammed(x) /\ t \in x.retry)
      BY <1>1, <1>5, <2>1 DEF FateOf
    <3>2. CASE t \in R
      <4>1. RingStuck(x) /\ x.ring = t
        BY <3>1, <3>2 DEF StuckIn, RingStuck, Tones, NoTone
      <4>2. QED
        BY <1>5, <2>1, <3>1, <3>2, <4>1 DEF Onward, StuckIn, RingStuck
    <3>3. CASE t \notin R
      BY <1>5, <2>1, <3>1, <3>3 DEF Onward, StuckIn, Silent
    <3>4. QED
      BY <3>2, <3>3
  <2>5. from # to
    OBVIOUS
  <2> HIDE DEF from, to
  <2>6. <<from, to>> \in Tone!Moves
    BY <2>2, <2>3, <2>4, <2>5 DEF Tone!Moves
  <2>7. QED
    BY <2>6 DEF from, to
<1>6. QED
  BY <1>3, <1>4, <1>5

\* A bud that does nothing can get a message.
LEMMA FateGets ==
    ASSUME NEW x, NEW R, NEW Q, NEW S, NEW P, NEW t \in Tones, Fit(x, R), Tuned(x),
           t \notin S, t \notin Own(x), x.end[t] = "no",
           FateOf(x, S, R, t) # FateOf(x, P, Q, t)
    PROVE  FateOf(x, S, R, t) = "idle" /\ FateOf(x, P, Q, t) \in {"asked", "stuck", "lost"}
<1>1. x.stream[t] = "none"
  BY SoundingOwn DEF Tuned
<1>2. QED
  BY <1>1 DEF FateOf

LEMMA FateStays ==
    ASSUME NEW x, NEW R, NEW Q, NEW S, NEW P, NEW t, t \in P <=> t \in S, t \in Q <=> t \in R
    PROVE  FateOf(x, P, Q, t) = FateOf(x, S, R, t)
BY DEF FateOf, StuckIn

\* Of the tones that play one is a ring and one is not.
LEMMA OnePlays ==
    ASSUME NEW x, NEW R, NEW S, Fit(x, R), Tuned(x), NEW t \in Tones, NEW u \in Tones,
           FateOf(x, S, R, t) = "playing", FateOf(x, S, R, u) = "playing",
           t \in R <=> u \in R
    PROVE  t = u
<1>1. x.end[t] \in Ends /\ x.end[u] \in Ends
  BY EndOf
<1>2. t \in Sounding(x) /\ u \in Sounding(x)
  BY <1>1 DEF FateOf, Tuned, Ends
<1>3. /\ x.list # <<>> => Head(x.list) \notin R
      /\ Ring(x) \subseteq R /\ Ring(x) \subseteq {x.ring} /\ NoTone \notin Ring(x)
      /\ x.pc = "link" => x.tone \notin R
      /\ x.pc = "ring" => x.tone \in R
  BY SoundingOwn DEF Fit, Sorted, Ring
<1>4. QED
  BY <1>2, <1>3 DEF Sounding, Foremost, Tuned, Ring

(***************************************************************************)
(* Every step is one of three: a bud acts, the link is lost, or nothing    *)
(* that ToneLife sees happens.                                             *)
(***************************************************************************)

Idles == UNCHANGED <<bud, ask, air>>

LEMMA WhoActs ==
    IInv /\ Once /\ AllTuned /\ [Next]_vars =>
        (\E b \in Buds : Acting(b)) \/ LinkLost \/ Idles
<1> SUFFICES ASSUME IInv, Once, AllTuned, [Next]_vars
             PROVE  (\E b \in Buds : Acting(b)) \/ LinkLost \/ Idles
  OBVIOUS
<1>1. CASE UNCHANGED vars
  BY <1>1 DEF vars, Idles
<1>2. ASSUME NEW b \in Buds, AppCore(b) PROVE Acting(b)
  BY <1>2, ActAddStart, ActAddLink, ActRingLink, ActRetry, ActAddTimeout, ActPlay, ActSetAdding
     DEF AppCore
<1>3. ASSUME NEW b \in Buds, Streams(b) PROVE Acting(b)
  BY <1>3, ActCallback, ActRingCallback DEF Streams
<1>4. CASE World
  <2>1. ASSUME NEW b \in Buds, NEW t \in Tones, NEW k \in Kinds, NEW m \in BOOLEAN,
               Request(b, t, k, m)
        PROVE  Acting(b)
    BY <2>1, ActRequest
  <2>2. LinkUp => Idles
    BY DEF LinkUp, Idles
  <2>3. QED
    BY <1>4, <2>1, <2>2, ActStreamEnd, ActRefuse, ActStop DEF World
<1>5. QED
  BY <1>1, <1>2, <1>3, <1>4 DEF Next

\* The link is lost: what was under way to a bud is given up there.
LEMMA LinkGone ==
    ASSUME IInv, Once, AllTuned, LinkLost
    PROVE  \A b \in Buds :
               /\ bud'[b] = [bud[b] EXCEPT !.end = bud'[b].end]
               /\ \A t \in Tones : \/ /\ t \in Sent(b) /\ bud[b].end[t] = "no"
                                      /\ bud'[b].end[t] = "dropped"
                                   \/ /\ t \in Sent(b)' <=> t \in Sent(b)
                                      /\ bud'[b].end[t] = bud[b].end[t]
<1> SUFFICES ASSUME NEW b \in Buds
             PROVE  /\ bud'[b] = [bud[b] EXCEPT !.end = bud'[b].end]
                    /\ \A t \in Tones : \/ /\ t \in Sent(b) /\ bud[b].end[t] = "no"
                                           /\ bud'[b].end[t] = "dropped"
                                        \/ /\ t \in Sent(b)' <=> t \in Sent(b)
                                           /\ bud'[b].end[t] = bud[b].end[t]
  OBVIOUS
<1> DEFINE f == [t \in Tones |-> IF \E c \in Others(b) : t \in ToSet(air[b][c])
                                 THEN "dropped" ELSE bud[b].end[t]]
<1>1. bud'[b] = [bud[b] EXCEPT !.end = f]
  BY DEF LinkLost
<1>2. Sound(bud[b])
  BY OnceFit
<1>3. bud'[b].end = f
  BY <1>1, <1>2 DEF Sound, Bud
<1>4. bud'[b] = [bud[b] EXCEPT !.end = bud'[b].end]
  BY <1>1, <1>3
<1>5. air'[b][b] = air[b][b] /\ \A c \in Buds : c # b => ToSet(air'[b][c]) = {}
  BY SetNone DEF LinkLost
<1>6. Sent(b)' = ToSet(air[b][b])
  <2> DEFINE s == [c \in Buds |-> ToSet(air'[b][c])]
  <2>1. s[b] = ToSet(air[b][b]) /\ \A c \in Buds : c # b => s[c] = {}
    BY <1>5
  <2>2. Sent(b)' = UNION {s[c] : c \in Buds}
    BY DEF Sent
  <2> HIDE DEF s
  <2>3. QED
    BY <2>1, <2>2
<1>7. ASSUME NEW t \in Tones
      PROVE  \/ /\ t \in Sent(b) /\ bud[b].end[t] = "no" /\ bud'[b].end[t] = "dropped"
             \/ /\ t \in Sent(b)' <=> t \in Sent(b)
                /\ bud'[b].end[t] = bud[b].end[t]
  <2>1. CASE \E c \in Others(b) : t \in ToSet(air[b][c])
    <3>1. t \in Sent(b)
      BY <2>1 DEF Sent, Others
    <3>2. bud[b].end[t] = "no"
      BY <3>1 DEF Once, Messages
    <3>3. f[t] = "dropped"
      BY <2>1
    <3>4. QED
      BY <1>3, <3>1, <3>2, <3>3
  <2>2. CASE ~\E c \in Others(b) : t \in ToSet(air[b][c])
    <3>1. f[t] = bud[b].end[t]
      BY <2>2
    <3>2. t \in Sent(b) <=> t \in ToSet(air[b][b])
      BY <2>2 DEF Sent, Others
    <3>3. QED
      BY <1>3, <1>6, <3>1, <3>2
  <2>3. QED
    BY <2>1, <2>2
<1>8. QED
  BY <1>4, <1>7

LEMMA InitTuned == Init => AllTuned
<1> SUFFICES ASSUME Init, NEW b \in Buds PROVE Tuned(bud[b])
  BY DEF AllTuned
<1>1. /\ bud[b].list = <<>> /\ bud[b].pc = "idle" /\ bud[b].tone = NoTone
      /\ \A t \in Tones : bud[b].stream[t] = "none"
  BY DEF Init
<1>2. QED
  BY <1>1 DEF Tuned

LEMMA NextTuned == IInv /\ Once /\ AllTuned /\ [Next]_vars => AllTuned'
<1> SUFFICES ASSUME IInv, Once, AllTuned, [Next]_vars, NEW c \in Buds PROVE Tuned(bud'[c])
  BY DEF AllTuned
<1>1. Tuned(bud[c])
  BY DEF AllTuned
<1>2. CASE \E b \in Buds : Acting(b)
  BY <1>1, <1>2 DEF Acting, Acts, Onward
<1>3. CASE LinkLost
  <2> DEFINE x == bud[c]
             y == bud'[c]
  <2>1. y = [x EXCEPT !.end = y.end] /\ \A t \in Tones : y.end[t] = "no" => x.end[t] = "no"
    BY <1>3, LinkGone
  <2>2. Sound(x)
    BY OnceFit
  <2>3. y.list = x.list /\ y.pc = x.pc /\ y.tone = x.tone /\ y.ring = x.ring
        /\ y.stream = x.stream
    BY <2>1, <2>2 DEF Sound, Bud
  <2> HIDE DEF x, y
  <2>4. Sounding(y) = Sounding(x)
    BY <2>3 DEF Sounding, Foremost, Ring
  <2>5. Tuned(x)
    BY <1>1 DEF x
  <2>6. Tuned(y)
    BY <2>1, <2>3, <2>4, <2>5 DEF Tuned
  <2>7. QED
    BY <2>6 DEF y
<1>4. CASE Idles
  BY <1>1, <1>4 DEF Idles
<1>5. QED
  BY <1>2, <1>3, <1>4, WhoActs

LEMMA FateIsThen == (IInv /\ Once /\ AllTuned)' => FatesOf'
BY FateIs, PTL

LEMMA FateWillBe ==
    ASSUME IInv, Once, AllTuned, [Next]_vars, NEW b \in Buds, NEW t \in Tones
    PROVE  /\ Fate(b, t) = FateOf(bud[b], Sent(b), Rings, t)
           /\ Fate(b, t)' = FateOf(bud'[b], Sent(b)', Rings', t)
           /\ Fit(bud'[b], Rings') /\ Tuned(bud'[b]) /\ Fit(bud[b], Rings) /\ Tuned(bud[b])
           /\ bud[b].end[t] \in Ends /\ bud'[b].end[t] \in Ends
<1>1. IInv' /\ Once' /\ AllTuned'
  BY NextIInv, NextOnce, NextTuned
<1>2. FatesOf /\ FatesOf'
  BY <1>1, FateIs, FateIsThen
<1>3. /\ Fit(bud'[b], Rings') /\ Tuned(bud'[b]) /\ Fit(bud[b], Rings) /\ Tuned(bud[b])
  BY <1>1 DEF Once, Fits, AllTuned
<1>4. bud[b].end[t] \in Ends /\ bud'[b].end[t] \in Ends
  BY <1>3, EndOf
<1>5. Fate(b, t)' = FateOf(bud'[b], Sent(b)', Rings', t)
  BY <1>2 DEF FatesOf
<1>6. Fate(b, t) = FateOf(bud[b], Sent(b), Rings, t)
  BY <1>2 DEF FatesOf
<1>7. QED
  BY <1>3, <1>4, <1>5, <1>6

(***************************************************************************)
(* While g_tws_tone_adding is set the timers of the tones that wait for it *)
(* stay armed, and such a tone has no stream.                              *)
(***************************************************************************)

Patient == \A b \in Buds : bud[b].adding => bud[b].retry \subseteq bud'[b].retry

LEMMA PatientAt ==
    ASSUME IInv, NEW b \in Buds, NEW y, bud' = [bud EXCEPT ![b] = y],
           bud[b].adding => bud[b].retry \subseteq y.retry
    PROVE  Patient
BY DEF IInv, Patient

LEMMA PatientAlike == ASSUME IInv, NEW b \in Buds, Alikes(b) PROVE Patient
BY PatientAt DEF Alikes, Alike

LEMMA PatientAdd ==
    ASSUME IInv, NEW b \in Buds, NEW x, Sound(x), x.retry = bud[b].retry,
           NEW t \in Tones, NEW shared \in BOOLEAN,
           \E y \in tone_player_add(x, t, shared) : bud' = [bud EXCEPT ![b] = y]
    PROVE  Patient
<1>1. PICK y \in tone_player_add(x, t, shared) : bud' = [bud EXCEPT ![b] = y]
  OBVIOUS
<1>2. y.retry = x.retry
  BY AddSound DEF Adds
<1>3. QED
  BY <1>1, <1>2, PatientAt

LEMMA PatientAsk ==
    ASSUME IInv, NEW b \in Buds, NEW x, Sound(x), bud[b].adding => x.retry = bud[b].retry,
           NEW t \in Tones, NEW r, TwsPlayTone(b, x, t, r)
    PROVE  Patient
<1>1. CASE bud' = [bud EXCEPT ![b] = [x EXCEPT !.retry = @ \cup {t}]]
  <2> DEFINE y == [x EXCEPT !.retry = @ \cup {t}]
  <2>1. y.retry = x.retry \cup {t}
    BY DEF Sound, Bud
  <2>2. bud' = [bud EXCEPT ![b] = y]
    BY <1>1
  <2> HIDE DEF y
  <2>3. QED
    BY <2>1, <2>2, PatientAt
<1>2. CASE bud' = [bud EXCEPT ![b] = [x EXCEPT !.sent = r.kind # "ring",
                                               !.early = @ /\ r.kind = "ring"]]
  <2> DEFINE y == [x EXCEPT !.sent = r.kind # "ring", !.early = @ /\ r.kind = "ring"]
  <2>1. y.retry = x.retry
    BY DEF Sound, Bud
  <2>2. bud' = [bud EXCEPT ![b] = y]
    BY <1>2
  <2> HIDE DEF y
  <2>3. QED
    BY <2>1, <2>2, PatientAt
<1>3. CASE \E y \in PlayedHere(x, t, r.kind) : bud' = [bud EXCEPT ![b] = y]
  <2>1. PICK y \in PlayedHere(x, t, r.kind) : bud' = [bud EXCEPT ![b] = y]
    BY <1>3
  <2>2. y.retry = x.retry
    BY PlayedHereSound DEF Adds
  <2>3. QED
    BY <2>1, <2>2, PatientAt
<1>4. QED
  BY <1>1, <1>2, <1>3 DEF TwsPlayTone

LEMMA PatientCore == ASSUME IInv, NEW b \in Buds, AppCore(b) PROVE Patient
<1> DEFINE x == bud[b]
<1>1. Sound(x)
  BY BudSound
<1>2. CASE AddStart(b)
  <2>1. x.tone \in Tones /\ x.shared \in BOOLEAN
    BY <1>1, <1>2 DEF AddStart, Sound, Bud
  <2>2. QED
    BY <1>1, <1>2, <2>1, PatientAdd DEF AddStart
<1>3. CASE AddLink(b)
  <2> DEFINE k == Linked(x, x.tone)
  <2>1. x.tone \in Tones /\ bud' = [bud EXCEPT ![b] = Added(k)]
    BY <1>1, <1>3 DEF AddLink, Sound
  <2>2. Sound(k) /\ k.retry = x.retry
    BY <1>1, <2>1, AlikeLinked DEF Alike
  <2> HIDE DEF k
  <2>3. Added(k).retry = x.retry
    BY <2>2, AddedSound
  <2>4. QED
    BY <2>1, <2>3, PatientAt
<1>4. CASE RingLink(b)
  <2> DEFINE y == [x EXCEPT !.ring = x.tone, !.tone = NoTone, !.pc = "idle"]
  <2>1. bud' = [bud EXCEPT ![b] = y]
    BY <1>4 DEF RingLink, IInv
  <2>2. y.retry = x.retry
    BY <1>1 DEF Sound, Bud
  <2> HIDE DEF y
  <2>3. QED
    BY <2>1, <2>2, PatientAt
<1>5. CASE SetAdding(b)
  <2> DEFINE y == [x EXCEPT !.sent = FALSE, !.adding = TRUE]
  <2>1. bud' = [bud EXCEPT ![b] = y]
    BY <1>5 DEF SetAdding, IInv
  <2>2. y.retry = x.retry
    BY <1>1 DEF Sound, Bud
  <2> HIDE DEF y
  <2>3. QED
    BY <2>1, <2>2, PatientAt
<1>6. ASSUME NEW t \in Tones, RetryTimeout(b, t) PROVE Patient
  <2> DEFINE k == [x EXCEPT !.retry = @ \ {t}]
  <2>1. Sound(k) /\ ~x.adding /\ TwsPlayTone(b, k, t, ask[t])
    BY <1>1, <1>6 DEF RetryTimeout, Sound, Bud
  <2> HIDE DEF k
  <2>2. QED
    BY <2>1, PatientAsk
<1>7. ASSUME NEW t \in Tones, AddTimeout(b, t) PROVE Patient
  <2> DEFINE k == [x EXCEPT !.later = @ \ {t}]
  <2>1. Sound(k) /\ k.retry = x.retry
    BY <1>1 DEF Sound, Bud
  <2>2. \E y \in tone_player_add(k, t, TRUE) : bud' = [bud EXCEPT ![b] = y]
    BY <1>7 DEF AddTimeout
  <2> HIDE DEF k
  <2>3. QED
    BY <2>1, <2>2, PatientAdd
<1>8. ASSUME NEW c \in Buds, tws_tone_play_in_task(b, c) PROVE Patient
  <2> DEFINE t == Head(air[b][c])
             k == IF Is(t, {"urgent"}) THEN tone_player_stop(x) ELSE x
  <2>1. t \in Tones
    BY <1>8, AirSound, SetTail DEF tws_tone_play_in_task
  <2>2. Sound(k) /\ k.retry = x.retry
    BY <1>1, AlikeStop DEF Alike
  <2>3. PICK y \in Played(k, t) : bud' = [bud EXCEPT ![b] = y]
    BY <1>8 DEF tws_tone_play_in_task
  <2> HIDE DEF k, t
  <2>4. y.retry = x.retry
    BY <2>1, <2>2, <2>3, PlayedSound
  <2>5. QED
    BY <2>3, <2>4, PatientAt
<1>9. QED
  BY <1>2, <1>3, <1>4, <1>5, <1>6, <1>7, <1>8 DEF AppCore

LEMMA PatientRefuse == ASSUME IInv, NEW b \in Buds, NEW c \in Buds, Refuse(b, c) PROVE Patient
<1> DEFINE x == bud[b]
<1>1. Sound(x)
  BY BudSound
<1>2. PICK i \in 1..Len(air[b][c]), z \in Struck("full", x),
           a \in IF b = c THEN {FALSE} ELSE {FALSE, x.adding} :
          LET last == b = c /\ z.sent /\ i = Len(air[b][c])
          IN  bud' = [bud EXCEPT ![b] = Drop([z EXCEPT !.adding = a, !.early = @ \/ last],
                                             air[b][c][i])]
  BY DEF Refuse
<1> DEFINE last == b = c /\ z.sent /\ i = Len(air[b][c])
           e == z.early \/ last
           t == air[b][c][i]
<1>3. bud' = [bud EXCEPT ![b] = Drop([z EXCEPT !.adding = a, !.early = e], t)]
  BY <1>2
<1> HIDE DEF last, e, t
<1>4. Sound(z) /\ z.retry = x.retry
  BY <1>1, AlikeStruck DEF Alike
<1> DEFINE y == Drop([z EXCEPT !.adding = a, !.early = e], t)
<1>5. y.retry = z.retry
  BY <1>4 DEF Drop, Sound, Bud
<1> HIDE DEF y
<1>6. bud' = [bud EXCEPT ![b] = y]
  BY <1>3 DEF y
<1>7. QED
  BY <1>4, <1>5, <1>6, PatientAt

LEMMA RetryStays == ASSUME IInv, [Next]_vars PROVE Patient
<1>1. UNCHANGED bud => Patient
  BY DEF Patient
<1>2. ASSUME NEW b \in Buds, Streams(b) PROVE Patient
  BY <1>2, CallbackAlike, RingCallbackAlike, PatientAlike DEF Streams
<1>3. CASE World
  <2>1. ASSUME NEW b \in Buds, NEW t \in Tones, NEW k \in Kinds, NEW m \in BOOLEAN,
               Request(b, t, k, m)
        PROVE  Patient
    <3>1. Sound(bud[b])
      BY BudSound
    <3>2. ASSUME NEW r, TwsPlayTone(b, bud[b], t, r) PROVE Patient
      BY <3>1, <3>2, PatientAsk
    <3>3. CASE \E y \in PlayedHere(bud[b], t, k) : bud' = [bud EXCEPT ![b] = y]
      <4>1. PICK y \in PlayedHere(bud[b], t, k) : bud' = [bud EXCEPT ![b] = y]
        BY <3>3
      <4>2. y.retry = bud[b].retry
        BY <3>1, PlayedHereSound DEF Adds
      <4>3. QED
        BY <4>1, <4>2, PatientAt
    <3>4. QED
      BY <2>1, <3>2, <3>3 DEF Request
  <2>2. ASSUME LinkLost PROVE Patient
    <3> SUFFICES ASSUME NEW b \in Buds PROVE bud'[b].retry = bud[b].retry
      BY DEF Patient
    <3>1. bud'[b].retry = bud[b].retry
      BY <2>2, BudSound DEF LinkLost, Sound, Bud
    <3>2. QED
      BY <3>1
  <2>3. LinkUp => UNCHANGED bud
    BY DEF LinkUp
  <2>4. QED
    BY <1>1, <1>3, <2>1, <2>2, <2>3, StreamEndAlike, StopAlike, PatientAlike, PatientRefuse
       DEF World
<1>4. QED
  BY <1>1, <1>2, <1>3, PatientCore DEF Next, vars

LEMMA JamWaits ==
    ASSUME IInv, Once, AllTuned, [Next]_vars, NEW b \in Buds, NEW t \in Tones,
           Jammed(bud[b]), t \in bud[b].retry, bud'[b].end[t] = "no"
    PROVE  bud'[b].stream[t] = "none"
<1> DEFINE y == bud'[b]
           Q == Rings'
<1>1. t \in y.retry
  BY RetryStays DEF Patient, Jammed
<1>2. Fit(y, Q) /\ Tuned(y)
  BY FateWillBe
<1> HIDE DEF y, Q
<1>3. t \notin Sounding(y)
  BY <1>1, <1>2, SoundingOwn DEF Sounding, Foremost, Hand, Ring, Fit, Apart
<1>4. y.stream[t] = "none"
  BY <1>2, <1>3 DEF Tuned, y
<1>5. QED
  BY <1>4 DEF y

LEMMA ActMoves ==
    ASSUME IInv, Once, AllTuned, [Next]_vars, NEW b \in Buds, Acting(b), NEW t \in Tones,
           Fate(b, t) # Fate(b, t)'
    PROVE  <<Fate(b, t), Fate(b, t)'>> \in Tone!Moves
<1> DEFINE x == bud[b]
           y == bud'[b]
           S == Sent(b)
           P == Sent(b)'
           R == Rings
           Q == Rings'
<1>1. /\ Fate(b, t) = FateOf(x, S, R, t) /\ Fate(b, t)' = FateOf(y, P, Q, t)
      /\ x.end[t] \in Ends /\ y.end[t] \in Ends
  BY FateWillBe
<1>2. /\ ~x.dead /\ Onward(x, y, R)
      /\ t \in S \cup Own(x) /\ y.end[t] = "no" => t \in P \cup Own(y)
  BY DEF Acting, Acts
<1>3. t \in S \cup Own(x) => (t \in Q <=> t \in R)
  <2>1. CASE Alone(b)
    BY <2>1 DEF Alone, Rings, Is
  <2>2. CASE \E u \in Tones : Asks(b, u)
    <3>1. PICK u \in Tones : Asks(b, u)
      BY <2>2
    <3>2. CASE t = u
      BY <3>1, <3>2 DEF Asks, Fresh
    <3>3. CASE t # u
      BY <3>1, <3>3 DEF Asks
    <3>4. QED
      BY <3>2, <3>3
  <2>3. QED
    BY <2>1, <2>2 DEF Acting
<1>4. Jammed(x) /\ t \in x.retry /\ y.end[t] = "no" => y.stream[t] = "none"
  BY JamWaits
<1> HIDE DEF x, y, S, P, R, Q
<1>5. FateOf(x, S, R, t) # FateOf(y, P, Q, t)
  BY <1>1
<1>6. <<FateOf(x, S, R, t), FateOf(y, P, Q, t)>> \in Tone!Moves
  BY <1>1, <1>2, <1>3, <1>4, <1>5, FateMoves
<1>7. QED
  BY <1>1, <1>6

\* The other buds get at most the tone that is asked for.
LEMMA ActGets ==
    ASSUME IInv, Once, AllTuned, [Next]_vars, NEW b \in Buds, Acting(b)
    PROVE  \E u \in Tones : \A c \in Buds \ {b}, t \in Tones : Fate(c, t) # Fate(c, t)' =>
               t = u /\ Fate(c, t) = "idle" /\ Fate(c, t)' \in {"asked", "stuck", "lost"}
<1>1. \A c \in Buds \ {b} : bud'[c] = bud[c]
  BY DEF Acting, Acts
<1>2. CASE Alone(b)
  <2>1. ASSUME NEW c \in Buds \ {b}, NEW t \in Tones PROVE Fate(c, t) = Fate(c, t)'
    <3>1. Sent(c)' = Sent(c) /\ Rings' = Rings /\ bud'[c] = bud[c]
      BY <1>1, <1>2 DEF Alone, Rings, Is
    <3>2. QED
      BY <3>1, FateWillBe
  <2>2. 1 \in Tones
    BY ToneAssumption DEF Tones
  <2>3. QED
    BY <2>1, <2>2
<1>3. ASSUME NEW u \in Tones, Asks(b, u)
      PROVE  \A c \in Buds \ {b}, t \in Tones : Fate(c, t) # Fate(c, t)' =>
               t = u /\ Fate(c, t) = "idle" /\ Fate(c, t)' \in {"asked", "stuck", "lost"}
  <2> SUFFICES ASSUME NEW c \in Buds \ {b}, NEW t \in Tones, Fate(c, t) # Fate(c, t)'
               PROVE  t = u /\ Fate(c, t) = "idle" /\ Fate(c, t)' \in {"asked", "stuck", "lost"}
    OBVIOUS
  <2> DEFINE x == bud[c]
             S == Sent(c)
             P == Sent(c)'
             R == Rings
             Q == Rings'
  <2>1. /\ Fate(c, t) = FateOf(x, S, R, t) /\ Fate(c, t)' = FateOf(x, P, Q, t)
        /\ Fit(x, R) /\ Tuned(x)
    BY <1>1, FateWillBe
  <2>2. t # u => (t \in P <=> t \in S) /\ (t \in Q <=> t \in R)
    BY <1>3 DEF Asks
  <2>3. t = u => t \notin S /\ t \notin Own(x) /\ x.end[t] = "no"
    BY <1>3 DEF Asks, Fresh
  <2> HIDE DEF x, S, P, R, Q
  <2>4. FateOf(x, S, R, t) # FateOf(x, P, Q, t)
    BY <2>1
  <2>5. t = u
    BY <2>2, <2>4, FateStays
  <2>6. QED
    BY <2>1, <2>3, <2>4, <2>5, FateGets
<1>4. QED
  BY <1>2, <1>3 DEF Acting

LEMMA CutMoves ==
    ASSUME IInv, Once, AllTuned, [Next]_vars, LinkLost, NEW b \in Buds, NEW t \in Tones,
           Fate(b, t) # Fate(b, t)'
    PROVE  Fate(b, t) \in {"asked", "stuck"} /\ Fate(b, t)' = "lost"
<1> DEFINE x == bud[b]
           y == bud'[b]
           S == Sent(b)
           P == Sent(b)'
           R == Rings
<1>1. Rings' = R
  BY DEF LinkLost, Rings, Is
<1>2. /\ Fate(b, t) = FateOf(x, S, R, t) /\ Fate(b, t)' = FateOf(y, P, R, t)
      /\ Fit(x, R) /\ Tuned(x) /\ Sound(x)
  BY <1>1, FateWillBe DEF Fit
<1>3. /\ y = [x EXCEPT !.end = y.end]
      /\ \/ t \in S /\ x.end[t] = "no" /\ y.end[t] = "dropped"
         \/ (t \in P <=> t \in S) /\ y.end[t] = x.end[t]
  BY LinkGone
<1>4. /\ Same(x, y) /\ y.dead = x.dead /\ y.stream = x.stream /\ y.seen = x.seen
      /\ y.adding = x.adding /\ y.early = x.early
  BY <1>2, <1>3 DEF Sound, Bud, Same
<1>5. t \in S => t \notin Own(x)
  BY DEF Once, Messages
<1> HIDE DEF x, y, S, P, R
<1>6. Own(y) = Own(x) /\ StuckIn(y, R, t) = StuckIn(x, R, t)
  BY <1>4, SameOwn DEF StuckIn, HeadStuck, Unheard, Same, Jammed
<1>7. CASE t \in S /\ x.end[t] = "no" /\ y.end[t] = "dropped"
  <2>1. x.stream[t] = "none"
    BY <1>2, <1>5, <1>7, SoundingOwn DEF Tuned
  <2>2. FateOf(y, P, R, t) = "lost"
    BY <1>7 DEF FateOf
  <2>3. FateOf(x, S, R, t) \in {"asked", "stuck", "lost"}
    BY <1>7, <2>1 DEF FateOf
  <2>4. QED
    BY <1>2, <2>2, <2>3
<1>8. CASE (t \in P <=> t \in S) /\ y.end[t] = x.end[t]
  <2>1. FateOf(y, P, R, t) = FateOf(x, S, R, t)
    BY <1>4, <1>6, <1>8 DEF FateOf
  <2>2. QED
    BY <1>2, <2>1
<1>9. QED
  BY <1>3, <1>7, <1>8

LEMMA RingsGrow ==
    ASSUME IInv, Once, AllTuned, [Next]_vars
    PROVE  Rings \subseteq Rings'
<1>1. UNCHANGED ask => Rings' = Rings
  BY DEF Rings, Is
<1>2. Rings \subseteq Tones
  BY DEF Rings
<1>3. ASSUME NEW b \in Buds, Acting(b) PROVE Rings \subseteq Rings'
  <2>1. CASE Alone(b)
    BY <1>1, <2>1 DEF Alone
  <2>2. ASSUME NEW u \in Tones, Asks(b, u) PROVE Rings \subseteq Rings'
    BY <1>2, <2>2 DEF Asks
  <2>3. QED
    BY <1>3, <2>1, <2>2 DEF Acting
<1>4. LinkLost \/ Idles => UNCHANGED ask
  BY DEF LinkLost, Idles
<1>5. QED
  BY <1>1, <1>3, <1>4, WhoActs

LEMMA OneSounds ==
    ASSUME IInv, Once, AllTuned, [Next]_vars, NEW b \in Buds, NEW t \in Tones, NEW u \in Tones,
           Fate(b, t)' = "playing", Fate(b, u)' = "playing", t \in Rings' <=> u \in Rings'
    PROVE  t = u
<1> DEFINE y == bud'[b]
           P == Sent(b)'
           Q == Rings'
<1>1. /\ FateOf(y, P, Q, t) = "playing" /\ FateOf(y, P, Q, u) = "playing"
      /\ Fit(y, Q) /\ Tuned(y) /\ (t \in Q <=> u \in Q)
  BY FateWillBe
<1> HIDE DEF y, P, Q
<1>2. QED
  BY <1>1, OnePlays

Lives == [b \in Buds |-> [t \in Tones |-> Fate(b, t)]]

LEMMA InitTone == Init => Tone!Init
<1> SUFFICES ASSUME Init PROVE Tone!Init
  OBVIOUS
<1>1. IInv /\ Once /\ AllTuned
  BY InitIInv, InitOnce, InitTuned
<1>2. FatesOf
  BY <1>1, FateIs
<1>3. Rings = {} /\ \A t \in Tones : Is(t, {"none"})
  BY DEF Init, Rings, Is
<1>4. ASSUME NEW b \in Buds, NEW t \in Tones PROVE Fate(b, t) = "idle"
  <2>1. bud[b].end[t] = "no" /\ t \notin Sent(b) \cup Own(bud[b])
    BY <1>1, <1>3 DEF Once, Unasked
  <2>2. QED
    BY <1>2, <2>1 DEF FatesOf, FateOf
<1>5. Lives = [b \in Buds |-> [t \in Tones |-> "idle"]]
  BY <1>4 DEF Lives
<1>6. QED
  BY <1>3, <1>5 DEF Tone!Init, Lives, Rings

LEMMA LivesAt ==
    /\ \A b \in Buds, t \in Tones : Lives[b][t] = Fate(b, t)
    /\ \A b \in Buds, t \in Tones : Lives'[b][t] = Fate(b, t)'
BY DEF Lives

LEMMA StepTone ==
    ASSUME IInv, Once, AllTuned, [Next]_vars, NEW b \in Buds, Acting(b)
    PROVE  Tone!Step
<1>1. \A t \in Tones : Lives[b][t] # Lives'[b][t] =>
          <<Lives[b][t], Lives'[b][t]>> \in Tone!Moves
  BY LivesAt, ActMoves
<1>2. \E u \in Tones : \A c \in Buds \ {b}, t \in Tones : Lives[c][t] # Lives'[c][t] =>
          t = u /\ Lives[c][t] = "idle" /\ Lives'[c][t] \in {"asked", "stuck", "lost"}
  <2>1. PICK u \in Tones : \A c \in Buds \ {b}, t \in Tones : Fate(c, t) # Fate(c, t)' =>
               t = u /\ Fate(c, t) = "idle" /\ Fate(c, t)' \in {"asked", "stuck", "lost"}
    BY ActGets
  <2>2. \A c \in Buds \ {b}, t \in Tones : Lives[c][t] # Lives'[c][t] =>
          t = u /\ Lives[c][t] = "idle" /\ Lives'[c][t] \in {"asked", "stuck", "lost"}
    BY <2>1, LivesAt
  <2>3. QED
    BY <2>2
<1>3. QED
  BY <1>1, <1>2 DEF Tone!Step, Tone!Moved, Lives

LEMMA CutTone ==
    ASSUME IInv, Once, AllTuned, [Next]_vars, LinkLost PROVE Tone!Cut
<1>1. \A b \in Buds, t \in Tones : Lives[b][t] # Lives'[b][t] =>
          Lives[b][t] \in {"asked", "stuck"} /\ Lives'[b][t] = "lost"
  BY LivesAt, CutMoves
<1>2. QED
  BY <1>1 DEF Tone!Cut, Tone!Moved, Lives

LEMMA NextTone ==
    IInv /\ Once /\ AllTuned /\ [Next]_vars => [Tone!Next]_<<Lives, Rings>>
<1> SUFFICES ASSUME IInv, Once, AllTuned, [Next]_vars PROVE [Tone!Next]_<<Lives, Rings>>
  OBVIOUS
<1>1. Rings \subseteq Rings'
  BY RingsGrow
<1>2. \A b \in Buds, t, u \in Tones :
          Lives'[b][t] = "playing" /\ Lives'[b][u] = "playing" /\ (t \in Rings' <=> u \in Rings')
              => t = u
  BY LivesAt, OneSounds
<1>3. Tone!OneAtATime'
  BY <1>2 DEF Tone!OneAtATime, Lives, Rings
<1>4. CASE \E b \in Buds : Acting(b)
  <2>1. Tone!Step
    BY <1>4, StepTone
  <2>2. QED
    BY <1>1, <1>3, <2>1 DEF Tone!Next, Rings
<1>5. CASE LinkLost
  <2>1. Tone!Cut
    BY <1>5, CutTone
  <2>2. QED
    BY <1>1, <1>3, <2>1 DEF Tone!Next, Rings
<1>6. CASE Idles
  <2>1. \A b \in Buds, t \in Tones : Fate(b, t)' = Fate(b, t)
    <3> SUFFICES ASSUME NEW b \in Buds, NEW t \in Tones PROVE Fate(b, t)' = Fate(b, t)
      OBVIOUS
    <3>1. bud' = bud /\ Sent(b)' = Sent(b) /\ Rings' = Rings
      BY <1>6 DEF Idles, Sent, Rings, Is
    <3>2. QED
      BY <3>1, FateWillBe
  <2>2. Lives' = Lives
    BY <2>1 DEF Lives
  <2>3. Rings' = Rings
    BY <1>6 DEF Idles, Rings, Is
  <2>4. QED
    BY <2>2, <2>3
<1>7. QED
  BY <1>4, <1>5, <1>6, WhoActs

\* TwsTone implements the safety half of ToneLife, which PlaysOut names: every step of the
\* two buds is, for each of their tones, a move that ToneLife allows, or none.  What plays
\* never waits again, one prompt and one ring sound at a time, and what is given up or has
\* ended stays so, however tones meet, wait, are sent, stopped, fail or miss their callback.
THEOREM PlaysInOrder == Spec => Tone!Safe
<1>1. Init => AllTuned
  BY InitTuned
<1>2. IInv /\ Once /\ AllTuned /\ [Next]_vars => AllTuned'
  BY NextTuned
<1>3. IInv /\ Once /\ AllTuned /\ [Next]_vars =>
          [Tone!Next]_<<[b \in Buds |-> [t \in Tones |-> Fate(b, t)]],
                        {t \in Tones : Is(t, {"ring"})}>>
  BY NextTone DEF Lives, Rings
<1>4. Init => Tone!Init
  BY InitTone
<1>5. QED
  BY <1>1, <1>2, <1>3, <1>4, OnceInductive, PTL DEF Spec, Tone!Safe
=============================================================================
