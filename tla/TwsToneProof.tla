---------------------------- MODULE TwsToneProof ----------------------------
(***************************************************************************)
(* Proofs about TwsTone, for one or two buds, any number of tones and any  *)
(* choice of kinds and faults: the types, and that a bud makes shared      *)
(* tones wait for nothing in one order of steps only.                      *)
(***************************************************************************)
EXTENDS TwsTone, SequenceTheorems, FiniteSetTheorems, TLAPS

\* app_core has a tone in hand when it is in the middle of adding one, and only a
\* tone that came by message will reset g_tws_tone_adding.
Sound(x) ==
    /\ x \in Bud
    /\ x.pc # "idle" => x.tone \in Tones
    /\ x.shared => x.pc \in {"add", "link"}

\* y waits for what x waits for: the streams may differ.
Alike(x, y) ==
    /\ Sound(y)
    /\ y.adding = x.adding /\ y.later = x.later /\ y.shared = x.shared
    /\ y.retry = x.retry /\ (x.dead => y.dead)
    /\ y.sent = x.sent /\ y.early = x.early

\* What y owes to g_tws_tone_adding it has itself, unless x already left it to a message.
Inherits(x, y) ==
    y.adding /\ ~y.early /\ ~y.dead =>
        \/ y.later # {} \/ y.shared
        \/ x.adding /\ ~x.early /\ ~x.dead /\ x.later = {} /\ ~x.shared

\* y is x after tone_player_add has begun or ended.
Adds(x, y, shared) ==
    /\ Sound(y)
    /\ y.retry = x.retry /\ y.later = x.later /\ y.dead = x.dead
    /\ y.sent = x.sent /\ y.early = x.early
    /\ y.adding => x.adding /\ (shared => y.shared)

(***************************************************************************)
(* Sequences of tones.                                                     *)
(***************************************************************************)

LEMMA SetAppend ==
    ASSUME NEW S, NEW s \in Seq(S), NEW e \in S
    PROVE  Append(s, e) \in Seq(S) /\ ToSet(Append(s, e)) = ToSet(s) \cup {e}
<1>1. /\ Append(s, e) \in Seq(S)
      /\ DOMAIN Append(s, e) = 1..(Len(s) + 1) /\ DOMAIN s = 1..Len(s)
      /\ \A i \in 1..Len(s) : Append(s, e)[i] = s[i]
      /\ Append(s, e)[Len(s) + 1] = e /\ Len(s) \in Nat
  BY AppendProperties, LenProperties
<1>2. QED
  BY <1>1 DEF ToSet

LEMMA SetTail ==
    ASSUME NEW S, NEW s \in Seq(S), s # <<>>
    PROVE  /\ Head(s) \in S /\ Tail(s) \in Seq(S)
           /\ ToSet(s) = {Head(s)} \cup ToSet(Tail(s))
<1>1. /\ Head(s) \in S /\ Tail(s) \in Seq(S) /\ Len(s) \in Nat /\ Len(s) # 0
      /\ Head(s) = s[1] /\ Len(Tail(s)) = Len(s) - 1
      /\ DOMAIN s = 1..Len(s) /\ DOMAIN Tail(s) = 1..(Len(s) - 1)
      /\ \A i \in 1..(Len(s) - 1) : Tail(s)[i] = s[i + 1]
  BY HeadTailProperties, LenProperties, EmptySeq
<1>2. \A i \in 1..Len(s) : i = 1 \/ (i - 1 \in 1..(Len(s) - 1) /\ s[i] = Tail(s)[i - 1])
  <2> TAKE i \in 1..Len(s)
  <2>1. i # 1 => i - 1 \in 1..(Len(s) - 1) /\ (i - 1) + 1 = i
    BY <1>1
  <2>2. QED
    BY <1>1, <2>1
<1>3. ToSet(s) \subseteq {Head(s)} \cup ToSet(Tail(s))
  <2>1. ToSet(s) = {s[i] : i \in 1..Len(s)}
        /\ ToSet(Tail(s)) = {Tail(s)[i] : i \in 1..(Len(s) - 1)}
    BY <1>1 DEF ToSet
  <2>2. \A i \in 1..Len(s) : s[i] = Head(s) \/ s[i] \in ToSet(Tail(s))
    BY <1>1, <1>2, <2>1
  <2>3. QED
    BY <2>1, <2>2
<1>4. \A i \in 1..(Len(s) - 1) : i + 1 \in 1..Len(s) /\ s[i + 1] = Tail(s)[i]
  BY <1>1
<1>5. ToSet(Tail(s)) \subseteq ToSet(s)
  BY <1>1, <1>4 DEF ToSet
<1>6. Head(s) \in ToSet(s)
  BY <1>1 DEF ToSet
<1>7. QED
  BY <1>1, <1>3, <1>5, <1>6

LEMMA SetNone == ToSet(<<>>) = {}
BY DEF ToSet

LEMMA LastAppend ==
    ASSUME NEW S, NEW s \in Seq(S), NEW e \in S
    PROVE  Append(s, e) # <<>> /\ Last(Append(s, e)) = e
<1>1. Len(Append(s, e)) = Len(s) + 1 /\ Append(s, e)[Len(s) + 1] = e /\ Len(s) \in Nat
  BY AppendProperties, LenProperties
<1>2. Append(s, e) # <<>>
  BY AppendProperties
<1>3. QED
  BY <1>1, <1>2 DEF Last

LEMMA LastIn ==
    ASSUME NEW S, NEW s \in Seq(S), s # <<>> PROVE Last(s) \in ToSet(s)
<1>1. Len(s) \in Nat /\ Len(s) # 0 /\ DOMAIN s = 1..Len(s)
  BY LenProperties, EmptySeq
<1>2. Len(s) \in 1..Len(s)
  BY <1>1
<1>3. QED
  BY <1>1, <1>2 DEF Last, ToSet

\* A sequence without its i-th element.
LEMMA Removed ==
    ASSUME NEW S, NEW s \in Seq(S), NEW i \in 1..Len(s)
    PROVE  LET q == RemoveAt(s, i)
               n == Len(s)
           IN  /\ q \in Seq(S) /\ Len(q) = n - 1 /\ DOMAIN q = 1..(n - 1)
               /\ \A j \in 1..(n - 1) : q[j] = IF j <= i - 1 THEN s[j] ELSE s[j + 1]
<1> DEFINE n == Len(s)
           p == SubSeq(s, 1, i - 1)
           t == SubSeq(s, i + 1, n)
           q == p \o t
<1>1. n \in Nat /\ i \in Nat /\ 1 <= i /\ i <= n /\ DOMAIN s = 1..n
      /\ \A j \in 1..n : s[j] \in S
  BY LenProperties, ElementOfSeq
<1>2. /\ p \in Seq(S) /\ Len(p) = i - 1 /\ \A j \in 1..(i - 1) : p[j] = s[j]
  <2>1. \A j \in 1..(i - 1) : j \in 1..n
    BY <1>1
  <2>2. /\ p \in Seq(S)
        /\ Len(p) = IF 1 <= i - 1 THEN (i - 1) - 1 + 1 ELSE 0
        /\ \A j \in 1..((i - 1) - 1 + 1) : p[j] = s[1 + j - 1]
    BY <1>1, <2>1, SubSeqProperties
  <2> HIDE DEF p
  <2>3. Len(p) = i - 1
    BY <1>1, <2>2
  <2>4. \A j \in 1..(i - 1) : j \in 1..((i - 1) - 1 + 1) /\ 1 + j - 1 = j
    BY <1>1
  <2>5. QED
    BY <2>2, <2>3, <2>4
<1>3. /\ t \in Seq(S) /\ Len(t) = n - i /\ \A j \in 1..(n - i) : t[j] = s[i + j]
  <2> HIDE DEF n
  <2>1. \A j \in (i + 1)..n : j \in 1..n
    BY <1>1
  <2>2. /\ t \in Seq(S)
        /\ Len(t) = IF i + 1 <= n THEN n - (i + 1) + 1 ELSE 0
        /\ \A j \in 1..(n - (i + 1) + 1) : t[j] = s[(i + 1) + j - 1]
    BY <1>1, <2>1, SubSeqProperties
  <2> HIDE DEF t
  <2>3. Len(t) = n - i
    BY <1>1, <2>2
  <2>4. \A j \in 1..(n - i) : j \in 1..(n - (i + 1) + 1) /\ (i + 1) + j - 1 = i + j
    BY <1>1
  <2>5. QED
    BY <2>2, <2>3, <2>4
<1> HIDE DEF p, t
<1>4. /\ q \in Seq(S) /\ Len(q) = (i - 1) + (n - i)
      /\ \A j \in 1..Len(q) : q[j] = IF j <= i - 1 THEN p[j] ELSE t[j - (i - 1)]
  <2> HIDE DEF n
  <2>1. Len(p) = i - 1 /\ Len(t) = n - i /\ p \in Seq(S) /\ t \in Seq(S)
    BY <1>2, <1>3
  <2>2. /\ q \in Seq(S) /\ Len(q) = Len(p) + Len(t)
        /\ \A j \in 1..(Len(p) + Len(t)) :
               q[j] = IF j <= Len(p) THEN p[j] ELSE t[j - Len(p)]
    BY <2>1, ConcatProperties
  <2> HIDE DEF q
  <2>3. QED
    BY <2>1, <2>2
<1> HIDE DEF q, n
<1>5. Len(q) = n - 1
  BY <1>1, <1>4
<1>6. \A j \in 1..(n - 1) : q[j] = IF j <= i - 1 THEN s[j] ELSE s[j + 1]
  <2> TAKE j \in 1..(n - 1)
  <2>1. q[j] = IF j <= i - 1 THEN p[j] ELSE t[j - (i - 1)]
    BY <1>4, <1>5
  <2>2. CASE j <= i - 1
    <3>1. j \in 1..(i - 1)
      BY <1>1, <2>2
    <3>2. QED
      BY <2>1, <2>2, <3>1, <1>2
  <2>3. CASE ~(j <= i - 1)
    <3>1. j - (i - 1) \in 1..(n - i) /\ i + (j - (i - 1)) = j + 1
      BY <1>1, <2>3
    <3>2. t[j - (i - 1)] = s[j + 1]
      BY <3>1, <1>3
    <3>3. QED
      BY <2>1, <2>3, <3>2
  <2>4. QED
    BY <2>2, <2>3
<1>7. DOMAIN q = 1..(n - 1)
  BY <1>4, <1>5, LenProperties
<1>8. RemoveAt(s, i) = q
  BY DEF RemoveAt, q, p, t, n
<1>9. QED
  BY <1>4, <1>5, <1>6, <1>7, <1>8 DEF n

LEMMA SetRemove ==
    ASSUME NEW S, NEW s \in Seq(S), NEW i \in 1..Len(s)
    PROVE  LET q == RemoveAt(s, i)
           IN  /\ s[i] \in S /\ s[i] \in ToSet(s) /\ q \in Seq(S) /\ s # <<>>
               /\ ToSet(q) \subseteq ToSet(s) /\ ToSet(s) = {s[i]} \cup ToSet(q)
               /\ i # Len(s) => q # <<>> /\ Last(q) = Last(s)
<1> DEFINE n == Len(s)
           q == RemoveAt(s, i)
<1>1. n \in Nat /\ i \in Nat /\ 1 <= i /\ i <= n /\ DOMAIN s = 1..n
      /\ \A j \in 1..n : s[j] \in S
  BY LenProperties, ElementOfSeq
<1>2. /\ q \in Seq(S) /\ Len(q) = n - 1 /\ DOMAIN q = 1..(n - 1)
      /\ \A j \in 1..(n - 1) : q[j] = IF j <= i - 1 THEN s[j] ELSE s[j + 1]
  BY Removed
<1> HIDE DEF q, n
<1>3. ToSet(q) \subseteq ToSet(s)
  <2>1. \A j \in 1..(n - 1) : j \in 1..n /\ j + 1 \in 1..n
    BY <1>1
  <2>2. QED
    BY <1>1, <1>2, <2>1 DEF ToSet
<1>4. ToSet(s) \subseteq {s[i]} \cup ToSet(q)
  <2> SUFFICES ASSUME NEW j \in 1..n, j # i PROVE s[j] \in ToSet(q)
    BY <1>1 DEF ToSet
  <2>1. CASE j <= i - 1
    <3>1. j \in 1..(n - 1)
      BY <1>1, <2>1
    <3>2. QED
      BY <2>1, <3>1, <1>2 DEF ToSet
  <2>2. CASE ~(j <= i - 1)
    <3>1. j - 1 \in 1..(n - 1) /\ ~(j - 1 <= i - 1) /\ (j - 1) + 1 = j
      BY <1>1, <2>2
    <3>2. q[j - 1] = s[j]
      BY <3>1, <1>2
    <3>3. QED
      BY <3>1, <3>2, <1>2 DEF ToSet
  <2>3. QED
    BY <2>1, <2>2
<1>5. s[i] \in ToSet(s)
  BY <1>1 DEF ToSet
<1>6. ASSUME i # n PROVE q # <<>> /\ Last(q) = Last(s)
  <2>1. n - 1 \in 1..(n - 1) /\ ~(n - 1 <= i - 1) /\ (n - 1) + 1 = n
    BY <1>1, <1>6
  <2>2. q[n - 1] = s[n]
    BY <2>1, <1>2
  <2>3. Last(q) = q[n - 1] /\ Last(s) = s[n]
    BY <1>2 DEF Last, n
  <2>4. q # <<>>
    BY <2>1, <1>2, EmptySeq
  <2>5. QED
    BY <2>2, <2>3, <2>4
<1>7. s # <<>>
  BY <1>5, SetNone
<1>8. QED
  BY <1>1, <1>2, <1>3, <1>4, <1>5, <1>6, <1>7 DEF n, q

LEMMA AlikeSelf == ASSUME NEW x, Sound(x) PROVE Alike(x, x)
BY DEF Alike

LEMMA AlikeTrans ==
    ASSUME NEW x, NEW y, NEW z, Alike(x, y), Alike(y, z) PROVE Alike(x, z)
BY DEF Alike

LEMMA AlikeStruck ==
    ASSUME NEW x, Sound(x), NEW f, NEW y \in Struck(f, x) PROVE Alike(x, y)
<1>1. y = [x EXCEPT !.struck = TRUE]
  BY DEF Struck
<1>2. QED
  BY <1>1 DEF Alike, Sound, Bud

LEMMA AlikeStream ==
    ASSUME NEW x, Sound(x), NEW f \in [Tones -> {"none", "run", "over"}]
    PROVE  Alike(x, [x EXCEPT !.stream = f])
BY DEF Alike, Sound, Bud

LEMMA AlikeEnd ==
    ASSUME NEW x, Sound(x), NEW f \in [Tones -> {"no", "once", "twice", "dropped"}]
    PROVE  Alike(x, [x EXCEPT !.end = f])
BY DEF Alike, Sound, Bud

LEMMA StreamEndTypes ==
    ASSUME NEW x, Sound(x)
    PROVE  /\ x.stream \in [Tones -> {"none", "run", "over"}]
           /\ x.end \in [Tones -> {"no", "once", "twice", "dropped"}]
BY DEF Sound, Bud

LEMMA AlikeFree ==
    ASSUME NEW x, Sound(x), NEW S PROVE Alike(x, tone_player_free(x, S))
<1> DEFINE st == [t \in Tones |-> IF t \in S THEN "none" ELSE x.stream[t]]
           en == [t \in Tones |-> IF t \notin S THEN x.end[t]
                                  ELSE IF x.end[t] = "no" THEN "once" ELSE "twice"]
           y == [x EXCEPT !.stream = st]
<1>1. st \in [Tones -> {"none", "run", "over"}]
      /\ en \in [Tones -> {"no", "once", "twice", "dropped"}]
  BY StreamEndTypes
<1>2. tone_player_free(x, S) = [y EXCEPT !.end = en]
  BY DEF tone_player_free, Sound, Bud
<1> HIDE DEF st, en
<1>3. Alike(x, y) /\ Sound(y)
  BY <1>1, AlikeStream DEF Alike
<1> HIDE DEF y
<1>4. Alike(y, [y EXCEPT !.end = en])
  BY <1>1, <1>3, AlikeEnd
<1>5. QED
  BY <1>2, <1>3, <1>4, AlikeTrans

LEMMA AlikeDrop == ASSUME NEW x, Sound(x), NEW t PROVE Alike(x, Drop(x, t))
<1> DEFINE f == [x.end EXCEPT ![t] = "dropped"]
<1>1. f \in [Tones -> {"no", "once", "twice", "dropped"}]
  BY StreamEndTypes
<1>2. Drop(x, t) = [x EXCEPT !.end = f]
  BY DEF Drop
<1> HIDE DEF f
<1>3. QED
  BY <1>1, <1>2, AlikeEnd

LEMMA AlikeList ==
    ASSUME NEW x, Sound(x), NEW q \in Seq(Tones) PROVE Alike(x, [x EXCEPT !.list = q])
BY DEF Alike, Sound, Bud

LEMMA AlikeRun ==
    ASSUME NEW x, Sound(x), NEW t, NEW s \in {"none", "run", "over"}
    PROVE  Alike(x, [x EXCEPT !.stream[t] = s])
<1> DEFINE f == [x.stream EXCEPT ![t] = s]
<1>1. f \in [Tones -> {"none", "run", "over"}]
  BY StreamEndTypes
<1>2. [x EXCEPT !.stream[t] = s] = [x EXCEPT !.stream = f]
  OBVIOUS
<1> HIDE DEF f
<1>3. QED
  BY <1>1, <1>2, AlikeStream

LEMMA AlikeCut ==
    ASSUME NEW x, Sound(x), NEW q \in Seq(Tones), NEW S
    PROVE  Alike(x, tone_player_free([x EXCEPT !.list = q], S))
<1> DEFINE y == [x EXCEPT !.list = q]
<1>1. Alike(x, y) /\ Sound(y)
  BY AlikeList DEF Alike
<1> HIDE DEF y
<1>2. Alike(y, tone_player_free(y, S))
  BY <1>1, AlikeFree
<1>3. Alike(x, tone_player_free(y, S))
  BY <1>1, <1>2, AlikeTrans
<1>4. QED
  BY <1>3 DEF y

LEMMA AlikeStop == ASSUME NEW x, Sound(x) PROVE Alike(x, tone_player_stop(x))
<1>1. <<>> \in Seq(Tones)
  BY EmptySeq
<1>2. QED
  BY <1>1, AlikeCut DEF tone_player_stop

LEMMA AlikeRingStop == ASSUME NEW x, Sound(x) PROVE Alike(x, ring_player_stop(x))
<1>1. Alike(x, [x EXCEPT !.ring = NoTone])
  BY DEF Alike, Sound, Bud
<1>2. QED
  BY <1>1, AlikeSelf, AlikeFree, AlikeTrans DEF ring_player_stop, Alike

LEMMA AlikePlayNext ==
    ASSUME NEW x, Sound(x), NEW n \in Nat, n <= Len(x.list) PROVE Alike(x, PlayNext(x, n))
<1> DEFINE rest == SubSeq(x.list, n + 1, Len(x.list))
           y == tone_player_free([x EXCEPT !.list = rest], ToSet(SubSeq(x.list, 1, n)))
<1>1. rest \in Seq(Tones)
  <2>1. x.list \in Seq(Tones)
    BY DEF Sound, Bud
  <2>2. \A i \in (n + 1)..Len(x.list) : x.list[i] \in Tones
    BY <2>1, ElementOfSeq, LenProperties
  <2>3. QED
    BY <2>1, <2>2, SubSeqProperties, LenProperties
<1>2. Alike(x, y)
  <2> HIDE DEF rest
  <2>1. QED
    BY <1>1, AlikeCut
<1>3. PlayNext(x, n) \in {y, [y EXCEPT !.stream[Head(rest)] = "run"]}
  BY DEF PlayNext
<1> HIDE DEF rest, y
<1>4. Sound(y)
  BY <1>2 DEF Alike
<1>5. Alike(y, [y EXCEPT !.stream[Head(rest)] = "run"])
  BY <1>4, AlikeRun
<1>6. QED
  BY <1>2, <1>3, <1>5, AlikeTrans

LEMMA AlikeNextPlays ==
    ASSUME NEW x, Sound(x), NEW y \in NextPlays(x) PROVE Alike(x, y)
<1>1. CASE y = PlayNext(x, 0)
  <2>1. x.list \in Seq(Tones) /\ Len(x.list) \in Nat
    BY LenProperties DEF Sound, Bud
  <2>2. QED
    BY <1>1, <2>1, AlikePlayNext
<1>2. CASE \E z \in Struck("no_start", x), n \in 1..Len(x.list) : y = PlayNext(z, n)
  <2>1. PICK z \in Struck("no_start", x), n \in 1..Len(x.list) : y = PlayNext(z, n)
    BY <1>2
  <2>2. Alike(x, z) /\ Sound(z)
    BY AlikeStruck DEF Alike
  <2>3. z.list = x.list
    BY DEF Struck, Sound, Bud
  <2>4. n \in Nat /\ n <= Len(z.list)
    BY <2>3, LenProperties DEF Sound, Bud
  <2>5. QED
    BY <2>1, <2>2, <2>4, AlikePlayNext, AlikeTrans
<1>3. QED
  BY <1>1, <1>2 DEF NextPlays

(***************************************************************************)
(* Adding a tone.                                                          *)
(***************************************************************************)

LEMMA HoldSound ==
    ASSUME NEW x, Sound(x), NEW t \in Tones, NEW pc \in {"add", "link", "ring"},
           NEW shared \in BOOLEAN, shared => pc # "ring"
    PROVE  LET y == Hold(x, t, pc, shared)
           IN  /\ Sound(y) /\ y.shared = shared /\ y.adding = x.adding
               /\ y.later = x.later /\ y.retry = x.retry /\ y.dead = x.dead
               /\ y.list = x.list /\ y.sent = x.sent /\ y.early = x.early
BY DEF Hold, Sound, Bud

LEMMA AddedSound ==
    ASSUME NEW x, Sound(x)
    PROVE  LET y == Added(x)
           IN  /\ Sound(y) /\ ~y.shared /\ (y.adding <=> x.adding /\ ~x.shared)
               /\ y.later = x.later /\ y.retry = x.retry /\ y.dead = x.dead
               /\ y.sent = x.sent /\ y.early = x.early
BY DEF Added, Hold, Sound, Bud, NoTone

LEMMA AlikeLinked ==
    ASSUME NEW x, Sound(x), NEW t \in Tones
    PROVE  Alike(x, Linked(x, t)) /\ Linked(x, t).dead = x.dead
<1>1. Append(x.list, t) \in Seq(Tones)
  BY SetAppend DEF Sound, Bud
<1>2. Linked(x, t).dead = x.dead
  BY DEF Linked, Sound, Bud
<1>3. QED
  BY <1>1, <1>2, AlikeList DEF Linked

LEMMA SameDead ==
    ASSUME NEW x, Sound(x)
    PROVE  /\ \A S : tone_player_free(x, S).dead = x.dead
           /\ \A f : \A y \in Struck(f, x) : y.dead = x.dead
           /\ \A t : Drop(x, t).dead = x.dead
BY DEF tone_player_free, Struck, Drop, Sound, Bud

LEMMA AddSound ==
    ASSUME NEW x, Sound(x), NEW t \in Tones, NEW shared \in BOOLEAN,
           NEW y \in tone_player_add(x, t, shared)
    PROVE  Adds(x, y, shared)
<1> DEFINE h == Hold(x, t, "link", shared)
<1>1. /\ Sound(h) /\ h.shared = shared /\ h.adding = x.adding
      /\ h.later = x.later /\ h.retry = x.retry /\ h.dead = x.dead
      /\ h.sent = x.sent /\ h.early = x.early
  BY HoldSound
<1>2. \/ y = Added(Linked(h, t))
      \/ y = [h EXCEPT !.stream[t] = "run"]
      \/ \E z \in Struck("no_start", h) : y = Added(tone_player_free(z, {t}))
  BY DEF tone_player_add
<1> HIDE DEF h
<1>3. CASE y = Added(Linked(h, t))
  <2> DEFINE k == Linked(h, t)
  <2>1. Alike(h, k) /\ k.dead = h.dead
    BY <1>1, AlikeLinked
  <2> HIDE DEF k
  <2>2. QED
    BY <1>1, <1>3, <2>1, AddedSound DEF Alike, Adds, k
<1>4. CASE y = [h EXCEPT !.stream[t] = "run"]
  <2>1. Alike(h, y)
    BY <1>1, <1>4, AlikeRun
  <2>2. y.dead = h.dead
    BY <1>1, <1>4 DEF Sound, Bud
  <2>3. QED
    BY <1>1, <2>1, <2>2 DEF Alike, Adds
<1>5. CASE \E z \in Struck("no_start", h) : y = Added(tone_player_free(z, {t}))
  <2>1. PICK z \in Struck("no_start", h) : y = Added(tone_player_free(z, {t}))
    BY <1>5
  <2> DEFINE k == tone_player_free(z, {t})
  <2>2. Alike(h, z) /\ Sound(z) /\ z.dead = h.dead
    BY <1>1, AlikeStruck, SameDead DEF Alike
  <2>3. Alike(z, k) /\ k.dead = z.dead
    BY <2>2, AlikeFree, SameDead
  <2> HIDE DEF k
  <2>4. y = Added(k)
    BY <2>1 DEF k
  <2>5. QED
    BY <1>1, <2>2, <2>3, <2>4, AddedSound DEF Alike, Adds
<1>6. QED
  BY <1>2, <1>3, <1>4, <1>5

LEMMA RingSound ==
    ASSUME NEW x, Sound(x), NEW t \in Tones, NEW y \in RingStarts(x, t)
    PROVE  Adds(x, y, FALSE)
<1> DEFINE h == Hold(x, t, "ring", FALSE)
<1>1. /\ Sound(h) /\ h.adding = x.adding
      /\ h.later = x.later /\ h.retry = x.retry /\ h.dead = x.dead
      /\ h.sent = x.sent /\ h.early = x.early
  BY HoldSound
<1>2. \/ y = tone_player_free(x, {t})
      \/ y = [h EXCEPT !.stream[t] = "run"]
      \/ \E z \in Struck("no_start", x) : y = tone_player_free(z, {t})
  BY DEF RingStarts
<1> HIDE DEF h
<1>3. CASE y = tone_player_free(x, {t})
  BY <1>3, AlikeFree, SameDead DEF Alike, Adds
<1>4. CASE y = [h EXCEPT !.stream[t] = "run"]
  <2>1. Alike(h, y)
    BY <1>1, <1>4, AlikeRun
  <2>2. y.dead = h.dead
    BY <1>1, <1>4 DEF Sound, Bud
  <2>3. QED
    BY <1>1, <2>1, <2>2 DEF Alike, Adds
<1>5. CASE \E z \in Struck("no_start", x) : y = tone_player_free(z, {t})
  <2>1. PICK z \in Struck("no_start", x) : y = tone_player_free(z, {t})
    BY <1>5
  <2>2. Alike(x, z) /\ Sound(z) /\ z.dead = x.dead
    BY AlikeStruck, SameDead DEF Alike
  <2>3. Alike(z, y) /\ y.dead = z.dead
    BY <2>1, <2>2, AlikeFree, SameDead
  <2>4. QED
    BY <2>2, <2>3 DEF Alike, Adds
<1>6. QED
  BY <1>2, <1>3, <1>4, <1>5

LEMMA PlayedHereSound ==
    ASSUME NEW x, Sound(x), NEW t \in Tones, NEW kind, NEW y \in PlayedHere(x, t, kind)
    PROVE  Adds(x, y, FALSE)
<1>1. CASE \E z \in Struck("no_file", x) : y = tone_player_free(z, {t})
  <2>1. PICK z \in Struck("no_file", x) : y = tone_player_free(z, {t})
    BY <1>1
  <2>2. Alike(x, z) /\ Sound(z) /\ z.dead = x.dead
    BY AlikeStruck, SameDead DEF Alike
  <2>3. Alike(z, y) /\ y.dead = z.dead
    BY <2>1, <2>2, AlikeFree, SameDead
  <2>4. QED
    BY <2>2, <2>3 DEF Alike, Adds
<1>2. CASE y \in tone_player_add(x, t, FALSE)
  BY <1>2, AddSound
<1>3. CASE y = Drop(x, t)
  BY <1>3, AlikeDrop, SameDead DEF Alike, Adds
<1>4. CASE y \in RingStarts(x, t)
  BY <1>4, RingSound
<1>5. QED
  BY <1>1, <1>2, <1>3, <1>4 DEF PlayedHere

\* Only the message of a ring leaves g_tws_tone_adding as it was.
LEMMA PlayedSound ==
    ASSUME NEW x, Sound(x), NEW t \in Tones, NEW y \in Played(x, t)
    PROVE  /\ Sound(y) /\ y.retry = x.retry /\ y.sent = x.sent /\ y.early = x.early
           /\ y.adding => \/ y.later # {} \/ y.shared
                          \/ Is(t, {"ring"}) /\ x.adding /\ y.later = x.later /\ y.dead = x.dead
<1>1. CASE \E z \in Struck("no_file", x) : y = Drop([z EXCEPT !.adding = FALSE], t)
  <2>1. PICK z \in Struck("no_file", x) : y = Drop([z EXCEPT !.adding = FALSE], t)
    BY <1>1
  <2>2. Alike(x, z) /\ Sound(z)
    BY AlikeStruck DEF Alike
  <2> DEFINE k == [z EXCEPT !.adding = FALSE]
  <2>3. Sound(k) /\ ~k.adding /\ k.retry = z.retry /\ k.sent = z.sent /\ k.early = z.early
    BY <2>2 DEF Sound, Bud
  <2> HIDE DEF k
  <2>4. y = Drop(k, t)
    BY <2>1 DEF k
  <2>5. Alike(k, y)
    BY <2>3, <2>4, AlikeDrop
  <2>6. QED
    BY <2>2, <2>3, <2>5 DEF Alike
<1>2. CASE Is(t, {"ring"}) /\ y \in RingStarts(x, t)
  BY <1>2, RingSound DEF Adds
<1>3. CASE y = Hold(x, t, "add", TRUE)
  BY <1>3, HoldSound
<1>4. CASE y \in tone_player_add(x, t, TRUE)
  BY <1>4, AddSound DEF Adds
<1>5. CASE y = [x EXCEPT !.later = @ \cup {t}]
  BY <1>5 DEF Sound, Bud
<1>6. QED
  BY <1>1, <1>2, <1>3, <1>4, <1>5 DEF Played

(***************************************************************************)
(* The invariant.  That a tone under way was asked for is needed because   *)
(* a request makes its tone a ring, and a ring resets nothing.             *)
(***************************************************************************)

SoundBud == {x \in Bud : Sound(x)}

Around ==
    /\ ask \in [Tones -> [kind : AllKinds \cup {"none"}, more : BOOLEAN]]
    /\ air \in [Buds -> [Buds -> Seq(Tones)]]
    /\ link \in BOOLEAN
    /\ delivery \in {"app_core", "any"}
    /\ events \in 0..MaxEvents

Asked ==
    \A b \in Buds, t \in Tones :
        t \in ToSet(air[b][b]) \/ t \in bud[b].retry => ~Is(t, {"none"})

\* Until g_tws_tone_adding is set, what app_core sent is the last of its own messages.
SentLast ==
    \A b \in Buds : bud[b].sent /\ ~bud[b].early =>
        air[b][b] # <<>> /\ ~Is(Last(air[b][b]), {"ring"})

IInv == Around /\ bud \in [Buds -> SoundBud] /\ Asked /\ AddingHasReason /\ SentLast

LEMMA SoundIff == \A x : x \in SoundBud <=> Sound(x)
BY DEF SoundBud, Sound

LEMMA BudSound == ASSUME IInv, NEW b \in Buds PROVE Sound(bud[b])
BY SoundIff DEF IInv

LEMMA AirSound ==
    ASSUME IInv, NEW b \in Buds, NEW c \in Buds
    PROVE  air[b][c] \in Seq(Tones) /\ ToSet(air[b][c]) \subseteq Tones
<1>1. air[b][c] \in Seq(Tones)
  BY DEF IInv, Around
<1>2. \A i \in DOMAIN air[b][c] : air[b][c][i] \in Tones
  BY <1>1, LenProperties, ElementOfSeq
<1>3. QED
  BY <1>1, <1>2 DEF ToSet

\* A step of one bud that touches no message.
LEMMA LocalStep ==
    ASSUME IInv, NEW b \in Buds, NEW y, Sound(y), y.retry \subseteq bud[b].retry,
           Inherits(bud[b], y), y.sent = bud[b].sent, y.early = bud[b].early,
           bud' = [bud EXCEPT ![b] = y],
           UNCHANGED <<ask, air, link, delivery>>, events' \in 0..MaxEvents
    PROVE  IInv'
<1>1. bud' \in [Buds -> SoundBud]
  BY SoundIff DEF IInv
<1>2. bud'[b] = y /\ \A c \in Buds : c # b => bud'[c] = bud[c]
  BY DEF IInv
<1>3. Around'
  BY DEF IInv, Around
<1>4. Asked'
  BY <1>2 DEF IInv, Asked, Is
<1>5. AddingHasReason'
  <2> SUFFICES ASSUME NEW c \in Buds, bud'[c].adding, ~bud'[c].early, ~bud'[c].dead
               PROVE  \/ \E t \in ToSet(air'[c][c]) : ~Is(t, {"ring"})'
                      \/ bud'[c].later # {} \/ bud'[c].shared
    BY DEF AddingHasReason
  <2>1. CASE c # b
    BY <2>1, <1>2 DEF IInv, AddingHasReason, Is
  <2>2. CASE c = b
    BY <2>2, <1>2 DEF IInv, AddingHasReason, Inherits, Is
  <2>3. QED
    BY <2>1, <2>2
<1>6. SentLast'
  BY <1>2 DEF IInv, SentLast, Is
<1>7. QED
  BY <1>1, <1>3, <1>4, <1>5, <1>6 DEF IInv

LEMMA AlikeInherits ==
    ASSUME NEW x, NEW y, Alike(x, y), x.shared \in BOOLEAN
    PROVE  /\ Sound(y) /\ y.retry \subseteq x.retry /\ Inherits(x, y)
           /\ y.sent = x.sent /\ y.early = x.early
BY DEF Alike, Inherits

LEMMA AlikeStep ==
    ASSUME IInv, NEW b \in Buds, NEW y, Alike(bud[b], y), bud' = [bud EXCEPT ![b] = y],
           UNCHANGED <<ask, air, link, delivery>>, events' \in 0..MaxEvents
    PROVE  IInv'
<1>1. bud[b].shared \in BOOLEAN
  BY BudSound DEF Sound, Bud
<1>2. /\ Sound(y) /\ y.retry \subseteq bud[b].retry /\ Inherits(bud[b], y)
      /\ y.sent = bud[b].sent /\ y.early = bud[b].early
  BY <1>1, AlikeInherits
<1>3. QED
  BY <1>2, LocalStep

\* A step of one bud that takes a message: it may leave the flag to the messages
\* still to come only if this one was a ring, or the other bud's.
LEMMA TakeStep ==
    ASSUME IInv, NEW b \in Buds, NEW c \in Buds, air[b][c] # <<>>,
           NEW y, Sound(y), y.retry = bud[b].retry, ~y.sent,
           y.adding /\ ~y.early /\ ~y.dead =>
               \/ y.later # {} \/ y.shared
               \/ Inherits(bud[b], y) /\ (c # b \/ Is(Head(air[b][c]), {"ring"})),
           bud' = [bud EXCEPT ![b] = y], air' = [air EXCEPT ![b][c] = Tail(@)],
           UNCHANGED <<ask, link, delivery, events>>
    PROVE  IInv'
<1> DEFINE q == air[b][c]
<1>1. q \in Seq(Tones) /\ q # <<>>
  BY AirSound
<1>2. Head(q) \in Tones /\ Tail(q) \in Seq(Tones) /\ ToSet(q) = {Head(q)} \cup ToSet(Tail(q))
  BY <1>1, SetTail
<1>3. /\ air'[b][c] = Tail(q)
      /\ \A d, e \in Buds : d # b \/ e # c => air'[d][e] = air[d][e]
      /\ air' \in [Buds -> [Buds -> Seq(Tones)]]
  BY <1>2 DEF IInv, Around
<1>4. bud' \in [Buds -> SoundBud]
  BY SoundIff DEF IInv
<1>5. bud'[b] = y /\ \A d \in Buds : d # b => bud'[d] = bud[d]
  BY DEF IInv
<1>6. Around'
  BY <1>3 DEF IInv, Around
<1>7. \A d \in Buds : ToSet(air'[d][d]) \subseteq ToSet(air[d][d])
  BY <1>2, <1>3
<1> HIDE DEF q
<1>8. Asked'
  BY <1>5, <1>7 DEF IInv, Asked, Is
<1>9. AddingHasReason'
  <2> SUFFICES ASSUME NEW d \in Buds, bud'[d].adding, ~bud'[d].early, ~bud'[d].dead
               PROVE  \/ \E t \in ToSet(air'[d][d]) : ~Is(t, {"ring"})'
                      \/ bud'[d].later # {} \/ bud'[d].shared
    BY DEF AddingHasReason
  <2>1. CASE d # b
    BY <2>1, <1>3, <1>5 DEF IInv, AddingHasReason, Is
  <2>2. CASE d = b /\ ~(y.later # {} \/ y.shared)
    <3>1. Inherits(bud[b], y) /\ (c # b \/ Is(Head(air[b][c]), {"ring"}))
      BY <2>2, <1>5
    <3>2. \E t \in ToSet(air[b][b]) : ~Is(t, {"ring"})
      BY <3>1, <2>2, <1>5 DEF IInv, AddingHasReason, Inherits
    <3>3. CASE c # b
      BY <3>2, <3>3, <2>2, <1>3 DEF Is
    <3>4. CASE c = b
      BY <3>1, <3>2, <3>4, <2>2, <1>2, <1>3 DEF Is, q
    <3>5. QED
      BY <3>3, <3>4
  <2>3. QED
    BY <2>1, <2>2, <1>5
<1>10. SentLast'
  BY <1>3, <1>5 DEF IInv, SentLast, Is
<1>11. QED
  BY <1>4, <1>6, <1>8, <1>9, <1>10 DEF IInv

(***************************************************************************)
(* One action at a time.                                                   *)
(***************************************************************************)

LEMMA IdleBud ==
    ASSUME IInv, NEW b \in Buds, Ready(b)
    PROVE  Sound(bud[b]) /\ bud[b].shared = FALSE /\ ~bud[b].dead /\ ~bud[b].sent
BY BudSound DEF Ready, Sound, Bud

LEMMA AddStartStep == ASSUME IInv, NEW b \in Buds, AddStart(b) PROVE IInv'
<1> DEFINE x == bud[b]
<1>1. PICK y \in tone_player_add(x, x.tone, x.shared) : bud' = [bud EXCEPT ![b] = y]
  BY DEF AddStart
<1>2. Sound(x) /\ x.tone \in Tones /\ x.shared \in BOOLEAN /\ ~x.dead
  BY BudSound DEF AddStart, Sound, Bud
<1>3. Adds(x, y, x.shared)
  BY <1>2, AddSound
<1>4. Inherits(x, y)
  BY <1>2, <1>3 DEF Adds, Inherits
<1>5. QED
  BY <1>1, <1>3, <1>4, LocalStep DEF AddStart, Adds, IInv, Around

LEMMA AddLinkStep == ASSUME IInv, NEW b \in Buds, AddLink(b) PROVE IInv'
<1> DEFINE x == bud[b]
           k == Linked(x, x.tone)
           y == Added(k)
<1>1. Sound(x) /\ x.tone \in Tones /\ x.shared \in BOOLEAN /\ ~x.dead
  BY BudSound DEF AddLink, Sound, Bud
<1>2. Alike(x, k) /\ k.dead = x.dead /\ Sound(k)
  BY <1>1, AlikeLinked DEF Alike
<1>3. bud' = [bud EXCEPT ![b] = y] /\ UNCHANGED <<ask, air, link, delivery, events>>
  BY DEF AddLink
<1> HIDE DEF k
<1>4. /\ Sound(y) /\ ~y.shared /\ (y.adding <=> k.adding /\ ~k.shared)
      /\ y.later = k.later /\ y.retry = k.retry /\ y.dead = k.dead
      /\ y.sent = k.sent /\ y.early = k.early
  BY <1>2, AddedSound
<1> HIDE DEF y
<1>5. Inherits(x, y)
  BY <1>1, <1>2, <1>4 DEF Alike, Inherits
<1>6. QED
  BY <1>2, <1>3, <1>4, <1>5, LocalStep DEF Alike, IInv, Around

LEMMA RingLinkStep == ASSUME IInv, NEW b \in Buds, RingLink(b) PROVE IInv'
<1> DEFINE x == bud[b]
           y == [x EXCEPT !.ring = x.tone, !.tone = NoTone, !.pc = "idle"]
<1>1. Sound(x) /\ x.tone \in Tones /\ x.shared = FALSE
  BY BudSound DEF RingLink, Sound, Bud
<1>2. bud' = [bud EXCEPT ![b] = y] /\ UNCHANGED <<ask, air, link, delivery, events>>
  BY DEF RingLink, IInv
<1>3. /\ Sound(y) /\ y.retry = x.retry /\ Inherits(x, y)
      /\ y.sent = x.sent /\ y.early = x.early
  BY <1>1 DEF Sound, Bud, Inherits, NoTone
<1> HIDE DEF y
<1>4. QED
  BY <1>2, <1>3, LocalStep DEF IInv, Around

LEMMA AddTimeoutStep ==
    ASSUME IInv, NEW b \in Buds, NEW t \in Tones, AddTimeout(b, t) PROVE IInv'
<1> DEFINE x == bud[b]
           k == [x EXCEPT !.later = @ \ {t}]
<1>1. Sound(x)
  BY BudSound
<1>2. Sound(k) /\ k.retry = x.retry /\ k.sent = x.sent /\ k.early = x.early
  BY <1>1 DEF Sound, Bud
<1>3. PICK y \in tone_player_add(k, t, TRUE) : bud' = [bud EXCEPT ![b] = y]
  BY DEF AddTimeout
<1> HIDE DEF k
<1>4. Adds(k, y, TRUE)
  BY <1>2, AddSound
<1>5. Inherits(x, y)
  BY <1>4 DEF Adds, Inherits
<1>6. QED
  BY <1>2, <1>3, <1>4, <1>5, LocalStep DEF AddTimeout, Adds, IInv, Around

LEMMA PlayStep ==
    ASSUME IInv, NEW b \in Buds, NEW c \in Buds, tws_tone_play_in_task(b, c) PROVE IInv'
<1> DEFINE x == bud[b]
           t == Head(air[b][c])
           k == IF Is(t, {"urgent"}) THEN tone_player_stop(x) ELSE x
<1>1. Sound(x) /\ x.shared = FALSE /\ ~x.dead /\ ~x.sent
  BY IdleBud DEF tws_tone_play_in_task
<1>2. t \in Tones
  BY AirSound, SetTail DEF tws_tone_play_in_task
<1>3. /\ Sound(k) /\ k.retry = x.retry /\ k.adding = x.adding /\ k.later = x.later
      /\ k.sent = x.sent /\ k.early = x.early
  BY <1>1, AlikeStop, AlikeSelf DEF Alike
<1>4. PICK y \in Played(k, t) : bud' = [bud EXCEPT ![b] = y]
  BY DEF tws_tone_play_in_task
<1>5. /\ air[b][c] # <<>> /\ air' = [air EXCEPT ![b][c] = Tail(@)]
      /\ UNCHANGED <<ask, link, delivery, events>>
  BY DEF tws_tone_play_in_task
<1> HIDE DEF k
<1>6. /\ Sound(y) /\ y.retry = k.retry /\ y.sent = k.sent /\ y.early = k.early
      /\ y.adding => \/ y.later # {} \/ y.shared
                     \/ Is(t, {"ring"}) /\ k.adding /\ y.later = k.later
  BY <1>2, <1>3, <1>4, PlayedSound
<1>7. y.adding /\ ~y.early /\ ~y.dead => \/ y.later # {} \/ y.shared
                                         \/ Inherits(x, y) /\ Is(t, {"ring"})
  BY <1>1, <1>3, <1>6 DEF Inherits
<1>8. k.retry = x.retry /\ ~y.sent
  BY <1>1, <1>3, <1>6
<1>9. QED
  BY <1>4, <1>5, <1>6, <1>7, <1>8, TakeStep

\* g_tws_tone_adding is set for a tone that is still on its way, or is excepted.
LEMMA SetAddingStep == ASSUME IInv, NEW b \in Buds, SetAdding(b) PROVE IInv'
<1> DEFINE x == bud[b]
           y == [x EXCEPT !.sent = FALSE, !.adding = TRUE]
<1>1. Sound(x) /\ x.sent
  BY BudSound DEF SetAdding
<1>2. bud' = [bud EXCEPT ![b] = y] /\ UNCHANGED <<ask, air, link, delivery, events>>
  BY DEF SetAdding, IInv
<1>3. /\ Sound(y) /\ ~y.sent /\ y.retry = x.retry /\ y.early = x.early
      /\ y.later = x.later /\ y.shared = x.shared
  BY <1>1 DEF Sound, Bud
<1> HIDE DEF y
<1>4. /\ bud' \in [Buds -> SoundBud]
      /\ bud'[b] = y /\ \A c \in Buds : c # b => bud'[c] = bud[c]
  BY <1>2, <1>3, SoundIff DEF IInv
<1>5. Around' /\ Asked'
  BY <1>2, <1>3, <1>4 DEF IInv, Around, Asked, Is
<1>6. SentLast'
  BY <1>2, <1>3, <1>4 DEF IInv, SentLast, Is
<1>7. ~x.early => \E t \in ToSet(air[b][b]) : ~Is(t, {"ring"})
  <2>1. ~x.early => air[b][b] # <<>> /\ ~Is(Last(air[b][b]), {"ring"})
    BY <1>1 DEF IInv, SentLast
  <2>2. air[b][b] # <<>> => Last(air[b][b]) \in ToSet(air[b][b])
    BY AirSound, LastIn
  <2>3. QED
    BY <2>1, <2>2
<1>8. AddingHasReason'
  <2> SUFFICES ASSUME NEW c \in Buds, bud'[c].adding, ~bud'[c].early, ~bud'[c].dead
               PROVE  \/ \E t \in ToSet(air'[c][c]) : ~Is(t, {"ring"})'
                      \/ bud'[c].later # {} \/ bud'[c].shared
    BY DEF AddingHasReason
  <2>1. CASE c # b
    BY <2>1, <1>2, <1>4 DEF IInv, AddingHasReason, Is
  <2>2. CASE c = b
    BY <2>2, <1>2, <1>3, <1>4, <1>7 DEF Is
  <2>3. QED
    BY <2>1, <2>2
<1>9. QED
  BY <1>4, <1>5, <1>6, <1>8 DEF IInv

\* A message is refused: of the bud's own ones only the one that was sent last may be
\* what g_tws_tone_adding is about to be set for.
LEMMA RefuseStep ==
    ASSUME IInv, NEW b \in Buds, NEW c \in Buds, Refuse(b, c) PROVE IInv'
<1> DEFINE x == bud[b]
           s == air[b][c]
<1>1. Sound(x) /\ s \in Seq(Tones)
  BY BudSound, AirSound
<1>2. PICK i \in 1..Len(s), z \in Struck("full", x),
           a \in IF b = c THEN {FALSE} ELSE {FALSE, x.adding} :
          LET last == b = c /\ z.sent /\ i = Len(s)
          IN  bud' = [bud EXCEPT ![b] = Drop([z EXCEPT !.adding = a, !.early = @ \/ last], s[i])]
              /\ air' = [air EXCEPT ![b][c] = RemoveAt(@, i)]
  BY DEF Refuse
<1> DEFINE last == b = c /\ z.sent /\ i = Len(s)
           t == s[i]
           q == RemoveAt(s, i)
           k == [z EXCEPT !.adding = a, !.early = @ \/ last]
           y == Drop(k, t)
<1>3. UNCHANGED <<ask, link, delivery, events>>
  BY DEF Refuse
<1>4. Alike(x, z) /\ Sound(z) /\ z.dead = x.dead
  BY <1>1, AlikeStruck, SameDead DEF Alike
<1>5. a \in BOOLEAN /\ (a => c # b /\ x.adding)
  BY <1>1, <1>2 DEF Sound, Bud
<1>6. /\ t \in Tones /\ q \in Seq(Tones) /\ ToSet(q) \subseteq ToSet(s)
      /\ i # Len(s) => q # <<>> /\ Last(q) = Last(s)
  BY <1>1, SetRemove
<1>7. bud' = [bud EXCEPT ![b] = y] /\ air' = [air EXCEPT ![b][c] = q]
  BY <1>2
<1> HIDE DEF q, t
<1>8. /\ Sound(k) /\ k.adding = a /\ k.retry = z.retry /\ k.later = z.later
      /\ k.shared = z.shared /\ k.dead = z.dead /\ k.sent = z.sent
      /\ k.early = (z.early \/ last)
  BY <1>4, <1>5 DEF Sound, Bud
<1> HIDE DEF k
<1>9. Alike(k, y) /\ y.dead = k.dead
  BY <1>8, AlikeDrop, SameDead
<1> HIDE DEF y
<1>10. /\ Sound(y) /\ y.retry = x.retry /\ y.later = x.later /\ y.shared = x.shared
       /\ y.dead = x.dead /\ y.sent = x.sent /\ y.adding = a
       /\ y.early = (x.early \/ last)
  BY <1>4, <1>8, <1>9 DEF Alike
<1>11. /\ bud' \in [Buds -> SoundBud]
       /\ bud'[b] = y /\ \A d \in Buds : d # b => bud'[d] = bud[d]
  BY <1>7, <1>10, SoundIff DEF IInv
<1>12. /\ air'[b][c] = q /\ air' \in [Buds -> [Buds -> Seq(Tones)]]
       /\ \A d, e \in Buds : d # b \/ e # c => air'[d][e] = air[d][e]
  BY <1>6, <1>7 DEF IInv, Around
<1>13. Around'
  BY <1>3, <1>12 DEF IInv, Around
<1>14. \A d \in Buds : ToSet(air'[d][d]) \subseteq ToSet(air[d][d])
  BY <1>6, <1>12
<1>15. Asked'
  BY <1>3, <1>10, <1>11, <1>14 DEF IInv, Asked, Is
<1>16. AddingHasReason'
  <2> SUFFICES ASSUME NEW d \in Buds, bud'[d].adding, ~bud'[d].early, ~bud'[d].dead
               PROVE  \/ \E u \in ToSet(air'[d][d]) : ~Is(u, {"ring"})'
                      \/ bud'[d].later # {} \/ bud'[d].shared
    BY DEF AddingHasReason
  <2>1. air'[d][d] = air[d][d] /\ bud[d].adding /\ ~bud[d].early /\ ~bud[d].dead
        /\ bud'[d].later = bud[d].later /\ bud'[d].shared = bud[d].shared
    BY <1>5, <1>10, <1>11, <1>12
  <2>2. QED
    BY <2>1, <1>3 DEF IInv, AddingHasReason, Is
<1>17. SentLast'
  <2> SUFFICES ASSUME NEW d \in Buds, bud'[d].sent, ~bud'[d].early
               PROVE  air'[d][d] # <<>> /\ ask'[Last(air'[d][d])].kind \notin {"ring"}
    BY DEF SentLast, Is
  <2>1. bud[d].sent /\ ~bud[d].early
    BY <1>10, <1>11
  <2>2. air[d][d] # <<>> /\ ask[Last(air[d][d])].kind \notin {"ring"}
    BY <2>1 DEF IInv, SentLast, Is
  <2>3. air'[d][d] # <<>> /\ Last(air'[d][d]) = Last(air[d][d])
    <3>1. CASE d # b \/ d # c
      BY <3>1, <2>2, <1>12
    <3>2. CASE d = b /\ d = c
      <4>1. ~last /\ z.sent
        BY <3>2, <2>1, <1>4, <1>10, <1>11 DEF Alike
      <4>2. QED
        BY <4>1, <3>2, <1>6, <1>12
    <3>3. QED
      BY <3>1, <3>2
  <2>4. QED
    BY <2>2, <2>3, <1>3
<1>18. QED
  BY <1>11, <1>13, <1>15, <1>16, <1>17 DEF IInv

\* The steps that leave a bud waiting for what it waited for.
Alikes(b) == \E y : Alike(bud[b], y) /\ bud' = [bud EXCEPT ![b] = y]

LEMMA AlikesStep ==
    ASSUME IInv, NEW b \in Buds, Alikes(b), UNCHANGED <<ask, air, link, delivery>>,
           events' \in 0..MaxEvents
    PROVE  IInv'
BY AlikeStep DEF Alikes

LEMMA StreamEndAlike ==
    ASSUME IInv, NEW b \in Buds, NEW t \in Tones, StreamEnd(b, t) PROVE Alikes(b)
<1> DEFINE x == bud[b]
           S == IF delivery = "any" /\ ~Looked(x, t) THEN x.seen ELSE x.seen \cup {t}
           f == [x.stream EXCEPT ![t] = "over"]
           k == [x EXCEPT !.stream = f]
           y == [k EXCEPT !.seen = S]
<1>1. Sound(x) /\ x.shared \in BOOLEAN
  BY BudSound DEF Sound, Bud
<1>2. f \in [Tones -> {"none", "run", "over"}] /\ S \in SUBSET Tones
  BY <1>1 DEF Sound, Bud
<1>3. \/ bud' = [bud EXCEPT ![b] = y]
      \/ \E z \in Struck("failed", y) :
             bud' = [bud EXCEPT ![b] = [z EXCEPT !.failed = @ \cup {t}]]
  BY DEF StreamEnd
<1> HIDE DEF f, S
<1>4. Alike(x, k) /\ Sound(k)
  BY <1>1, <1>2, AlikeStream DEF Alike
<1> HIDE DEF k
<1>5. Alike(k, y) /\ Sound(y)
  BY <1>2, <1>4 DEF Alike, Sound, Bud
<1> HIDE DEF y
<1>6. \A z \in Struck("failed", y) : Alike(y, [z EXCEPT !.failed = @ \cup {t}])
  <2> TAKE z \in Struck("failed", y)
  <2>1. Alike(y, z) /\ Sound(z)
    BY <1>5, AlikeStruck DEF Alike
  <2>2. Alike(z, [z EXCEPT !.failed = @ \cup {t}])
    BY <2>1 DEF Alike, Sound, Bud
  <2>3. QED
    BY <2>1, <2>2, AlikeTrans
<1>7. \E z : Alike(x, z) /\ bud' = [bud EXCEPT ![b] = z]
  BY <1>3, <1>4, <1>5, <1>6, AlikeTrans
<1>8. QED
  BY <1>7 DEF Alikes

LEMMA StreamEndStep ==
    ASSUME IInv, NEW b \in Buds, NEW t \in Tones, StreamEnd(b, t) PROVE IInv'
BY StreamEndAlike, AlikesStep DEF StreamEnd, IInv, Around

LEMMA AlikeGone ==
    ASSUME NEW x, Sound(x), NEW y \in Gone(x) PROVE Alike(x, y)
<1>1. y = x \/ y = [x EXCEPT !.dead = TRUE]
  BY DEF Gone
<1>2. Alike(x, [x EXCEPT !.dead = TRUE])
  BY DEF Alike, Sound, Bud
<1>3. QED
  BY <1>1, <1>2, AlikeSelf

LEMMA SeenLess ==
    ASSUME NEW x, Sound(x), NEW t
    PROVE  LET v == [x EXCEPT !.seen = @ \ {t}]
               w == [x EXCEPT !.seen = @ \ {t}, !.failed = @ \ {t}]
           IN  Alike(x, v) /\ Sound(v) /\ Alike(x, w) /\ Sound(w)
BY DEF Alike, Sound, Bud

LEMMA CallbackAlike ==
    ASSUME IInv, NEW b \in Buds, NEW t \in Tones, tone_player_callback(b, t) PROVE Alikes(b)
<1> DEFINE x == bud[b]
           w == [x EXCEPT !.seen = @ \ {t}, !.failed = @ \ {t}]
           second == [w EXCEPT !.second = @ \cup {t}]
           tail == [w EXCEPT !.list = Tail(@)]
<1>1. Sound(x) /\ x.shared \in BOOLEAN
  BY BudSound DEF Sound, Bud
<1>2. Alike(x, w) /\ Sound(w)
  BY <1>1, SeenLess
<1>3. \/ \E y \in Gone(w) : bud' = [bud EXCEPT ![b] = y]
      \/ bud' = [bud EXCEPT ![b] = w]
      \/ bud' = [bud EXCEPT ![b] = [second EXCEPT !.stream[t] = "run"]]
      \/ /\ tone_player_runing(w)
         /\ \E y \in NextPlays(tail) : bud' = [bud EXCEPT ![b] = tone_player_free(y, {t})]
  <2>1. [second EXCEPT !.stream[t] = "run"]
           = [w EXCEPT !.second = @ \cup {t}, !.stream[t] = "run"]
    BY <1>2 DEF Sound, Bud
  <2>2. QED
    BY <2>1 DEF tone_player_callback
<1> HIDE DEF w
<1>4. CASE \E y \in Gone(w) : bud' = [bud EXCEPT ![b] = y]
  BY <1>2, <1>4, AlikeGone, AlikeTrans DEF Alikes
<1>5. CASE bud' = [bud EXCEPT ![b] = w]
  BY <1>2, <1>5 DEF Alikes
<1>6. CASE bud' = [bud EXCEPT ![b] = [second EXCEPT !.stream[t] = "run"]]
  <2>1. Alike(w, second) /\ Sound(second)
    BY <1>2 DEF Alike, Sound, Bud
  <2> HIDE DEF second
  <2>2. Alike(x, [second EXCEPT !.stream[t] = "run"])
    BY <1>2, <2>1, AlikeRun, AlikeTrans
  <2>3. QED
    BY <1>6, <2>2 DEF Alikes
<1>7. CASE /\ tone_player_runing(w)
           /\ \E y \in NextPlays(tail) : bud' = [bud EXCEPT ![b] = tone_player_free(y, {t})]
  <2>1. Tail(w.list) \in Seq(Tones)
    BY <1>2, <1>7, SetTail DEF tone_player_runing, Sound, Bud
  <2>2. Alike(w, tail) /\ Sound(tail)
    BY <1>2, <2>1, AlikeList DEF Alike
  <2>3. PICK y \in NextPlays(tail) : bud' = [bud EXCEPT ![b] = tone_player_free(y, {t})]
    BY <1>7
  <2> HIDE DEF tail
  <2>4. Alike(tail, y) /\ Sound(y)
    BY <2>2, AlikeNextPlays DEF Alike
  <2>5. Alike(x, tone_player_free(y, {t}))
    BY <1>2, <2>2, <2>4, AlikeFree, AlikeTrans
  <2>6. QED
    BY <2>3, <2>5 DEF Alikes
<1>8. QED
  BY <1>3, <1>4, <1>5, <1>6, <1>7

LEMMA CallbackStep ==
    ASSUME IInv, NEW b \in Buds, NEW t \in Tones, tone_player_callback(b, t) PROVE IInv'
BY CallbackAlike, AlikesStep DEF tone_player_callback, IInv, Around

LEMMA RingCallbackAlike ==
    ASSUME IInv, NEW b \in Buds, NEW t \in Tones, ring_player_callback(b, t) PROVE Alikes(b)
<1> DEFINE x == bud[b]
           w == [x EXCEPT !.seen = @ \ {t}]
           k == [w EXCEPT !.ring = NoTone]
<1>1. Sound(x) /\ x.shared \in BOOLEAN
  BY BudSound DEF Sound, Bud
<1>2. Alike(x, w) /\ Sound(w)
  BY <1>1, SeenLess
<1>3. Alike(w, k) /\ Sound(k)
  BY <1>2 DEF Alike, Sound, Bud
<1>4. \/ bud' = [bud EXCEPT ![b] = tone_player_free(k, {t})]
      \/ \E y \in Gone(w) : bud' = [bud EXCEPT ![b] = y]
  BY DEF ring_player_callback
<1> HIDE DEF w, k
<1>5. \E y : Alike(x, y) /\ bud' = [bud EXCEPT ![b] = y]
  BY <1>2, <1>3, <1>4, AlikeFree, AlikeGone, AlikeTrans
<1>6. QED
  BY <1>5 DEF Alikes

LEMMA RingCallbackStep ==
    ASSUME IInv, NEW b \in Buds, NEW t \in Tones, ring_player_callback(b, t) PROVE IInv'
BY RingCallbackAlike, AlikesStep DEF ring_player_callback, IInv, Around

\* A bound on the events is left while another one may happen.
LEMMA OneMore ==
    ASSUME IInv, Left PROVE events + 1 \in 0..MaxEvents
<1>1. IsFiniteSet({b \in Buds : bud[b].struck})
  BY ToneAssumption, FS_Subset
<1>2. Cardinality({b \in Buds : bud[b].struck}) \in Nat
  BY <1>1, FS_CardinalityType
<1>3. QED
  BY <1>2, ToneAssumption DEF Left, IInv, Around

LEMMA StopAlike == ASSUME IInv, NEW b \in Buds, Stop(b) PROVE Alikes(b)
<1>1. Sound(bud[b])
  BY BudSound
<1>2. \/ bud' = [bud EXCEPT ![b] = tone_player_stop(bud[b])]
      \/ bud' = [bud EXCEPT ![b] = ring_player_stop(bud[b])]
  BY DEF Stop, IInv
<1>3. QED
  BY <1>1, <1>2, AlikeStop, AlikeRingStop DEF Alikes

LEMMA StopStep == ASSUME IInv, NEW b \in Buds, Stop(b) PROVE IInv'
<1>1. events' \in 0..MaxEvents
  BY OneMore DEF Stop
<1>2. QED
  BY <1>1, StopAlike, AlikesStep DEF Stop

LEMMA LinkLostStep == ASSUME IInv, LinkLost PROVE IInv'
<1> DEFINE gone(b) == {t \in Tones : \E c \in Others(b) : t \in ToSet(air[b][c])}
           en(b) == [t \in Tones |-> IF t \in gone(b) THEN "dropped" ELSE bud[b].end[t]]
<1>1. bud' = [b \in Buds |-> [bud[b] EXCEPT !.end = en(b)]]
  BY DEF LinkLost
<1>2. \A b \in Buds : Alike(bud[b], bud'[b]) /\ bud'[b].dead = bud[b].dead
  <2> TAKE b \in Buds
  <2>1. Sound(bud[b])
    BY BudSound
  <2>2. en(b) \in [Tones -> {"no", "once", "twice", "dropped"}]
    BY <2>1, StreamEndTypes
  <2>3. bud'[b] = [bud[b] EXCEPT !.end = en(b)]
    BY <1>1
  <2> HIDE DEF en, gone
  <2>4. Alike(bud[b], bud'[b])
    BY <2>1, <2>2, <2>3, AlikeEnd
  <2>5. bud'[b].dead = bud[b].dead
    BY <2>1, <2>3 DEF Sound, Bud
  <2>6. QED
    BY <2>4, <2>5
<1>3. bud' \in [Buds -> SoundBud]
  <2>1. \A b \in Buds : bud'[b] \in SoundBud
    BY <1>2, SoundIff DEF Alike
  <2>2. bud' = [b \in Buds |-> bud'[b]]
    <3> HIDE DEF en, gone
    <3>1. QED
      BY <1>1
  <2> HIDE DEF en, gone
  <2>3. QED
    BY <2>1, <2>2
<1>4. \A b \in Buds : air'[b][b] = air[b][b]
  BY DEF LinkLost
<1>5. air' \in [Buds -> [Buds -> Seq(Tones)]]
  <2>1. <<>> \in Seq(Tones)
    BY EmptySeq
  <2>2. \A b, c \in Buds : air[b][c] \in Seq(Tones)
    BY AirSound
  <2>3. air' = [b \in Buds |-> [c \in Buds |-> IF c = b THEN air[b][c] ELSE <<>>]]
    BY DEF LinkLost
  <2>4. QED
    BY <2>1, <2>2, <2>3
<1>6. Around'
  BY <1>5, OneMore DEF LinkLost, IInv, Around
<1>7. Asked'
  BY <1>2, <1>4 DEF Asked, Alike, LinkLost, Is, IInv
<1>8. AddingHasReason'
  <2> SUFFICES ASSUME NEW c \in Buds, bud'[c].adding, ~bud'[c].early, ~bud'[c].dead
               PROVE  \/ \E t \in ToSet(air'[c][c]) : ~Is(t, {"ring"})'
                      \/ bud'[c].later # {} \/ bud'[c].shared
    BY DEF AddingHasReason
  <2>1. bud[c].adding /\ ~bud[c].early /\ ~bud[c].dead
        /\ bud'[c].later = bud[c].later /\ bud'[c].shared = bud[c].shared
    BY <1>2 DEF Alike
  <2>2. UNCHANGED ask
    BY DEF LinkLost
  <2>3. QED
    BY <2>1, <2>2, <1>4 DEF IInv, AddingHasReason, Is
<1>9. SentLast'
  <2>1. \A b \in Buds : bud'[b].sent = bud[b].sent /\ bud'[b].early = bud[b].early
    BY <1>2 DEF Alike
  <2>2. UNCHANGED ask
    BY DEF LinkLost
  <2>3. QED
    BY <2>1, <2>2, <1>4 DEF IInv, SentLast, Is
<1>10. QED
  BY <1>3, <1>6, <1>7, <1>8, <1>9 DEF IInv

LEMMA LinkUpStep == ASSUME IInv, LinkUp PROVE IInv'
<1>1. UNCHANGED <<bud, ask, air, delivery, events>> /\ link' \in BOOLEAN
  BY DEF LinkUp
<1>2. Around' /\ Asked' /\ bud' \in [Buds -> SoundBud]
  BY <1>1 DEF IInv, Around, Asked, Is
<1>3. AddingHasReason'
  BY <1>1 DEF IInv, AddingHasReason, Is
<1>4. SentLast'
  BY <1>1 DEF IInv, SentLast, Is
<1>5. QED
  BY <1>2, <1>3, <1>4 DEF IInv

(***************************************************************************)
(* A request: its tone is new, or it keeps what kind of tone it is.        *)
(***************************************************************************)

\* What a request may turn tone t into.
Requested(t, r) ==
    /\ r \in [kind : AllKinds, more : BOOLEAN]
    /\ Is(t, {"none"}) \/ (Is(t, {"ring"}) <=> r.kind = "ring")

LEMMA StepWithRequest ==
    ASSUME IInv, NEW b \in Buds, NEW t \in Tones, NEW r, Requested(t, r),
           NEW y, Sound(y), y.retry \subseteq bud[b].retry \cup {t},
           ask' = [ask EXCEPT ![t] = r], bud' = [bud EXCEPT ![b] = y],
           Inherits(bud[b], y),
           \/ UNCHANGED air /\ ~y.sent
           \/ /\ air' = [c \in Buds |-> [air[c] EXCEPT ![b] = Append(@, t)]]
              /\ y.sent => r.kind # "ring",
           UNCHANGED <<link, delivery>>, events' \in 0..MaxEvents
    PROVE  IInv'
<1>1. /\ bud' \in [Buds -> SoundBud]
      /\ bud'[b] = y /\ \A c \in Buds : c # b => bud'[c] = bud[c]
  <2>1. y \in SoundBud /\ bud \in [Buds -> SoundBud]
    BY SoundIff DEF IInv
  <2>2. QED
    BY <2>1
<1>2. /\ ask' \in [Tones -> [kind : AllKinds \cup {"none"}, more : BOOLEAN]]
      /\ ask'[t] = r /\ \A u \in Tones : u # t => ask'[u] = ask[u]
  <2>1. r \in [kind : AllKinds \cup {"none"}, more : BOOLEAN]
    BY DEF Requested
  <2>2. ask \in [Tones -> [kind : AllKinds \cup {"none"}, more : BOOLEAN]]
    BY DEF IInv, Around
  <2>3. QED
    BY <2>1, <2>2
<1>3. \A c, d \in Buds : /\ air[c][d] \in Seq(Tones)
                          /\ Append(air[c][d], t) \in Seq(Tones)
                          /\ ToSet(Append(air[c][d], t)) = ToSet(air[c][d]) \cup {t}
  BY AirSound, SetAppend
<1> DEFINE sent == air' = [c \in Buds |-> [air[c] EXCEPT ![b] = Append(@, t)]]
<1>4. /\ air' \in [Buds -> [Buds -> Seq(Tones)]]
      /\ \A c \in Buds : c # b => air'[c][c] = air[c][c]
      /\ air'[b][b] = air[b][b] \/ air'[b][b] = Append(air[b][b], t)
      /\ sent => air'[b][b] = Append(air[b][b], t)
  <2>1. air \in [Buds -> [Buds -> Seq(Tones)]]
    BY DEF IInv, Around
  <2>2. CASE UNCHANGED air /\ ~sent
    BY <2>1, <2>2
  <2>3. CASE sent
    <3>1. \A c \in Buds : [air[c] EXCEPT ![b] = Append(@, t)] \in [Buds -> Seq(Tones)]
      BY <2>1, <1>3
    <3>2. QED
      BY <2>1, <2>3, <3>1
  <2>4. QED
    BY <2>2, <2>3
<1>5. /\ \A c \in Buds : /\ ToSet(air[c][c]) \subseteq ToSet(air'[c][c])
                         /\ ToSet(air'[c][c]) \subseteq ToSet(air[c][c]) \cup {t}
      /\ sent => t \in ToSet(air'[b][b])
  <2> HIDE DEF sent
  <2>1. \/ air'[b][b] = air[b][b] /\ ~sent
        \/ ToSet(air'[b][b]) = ToSet(air[b][b]) \cup {t}
    <3>1. air'[b][b] = air[b][b] => ~sent \/ air[b][b] = Append(air[b][b], t)
      BY <1>4
    <3>2. QED
      BY <3>1, <1>3, <1>4
  <2>2. QED
    BY <2>1, <1>4
<1>6. Around'
  BY <1>2, <1>4 DEF IInv, Around
<1>7. Asked'
  <2> SUFFICES ASSUME NEW c \in Buds, NEW u \in Tones,
                      u \in ToSet(air'[c][c]) \/ u \in bud'[c].retry
               PROVE  ask'[u].kind # "none"
    BY SMTT(30) DEF Asked, Is
  <2>1. CASE u = t
    <3>1. r.kind \in AllKinds
      BY DEF Requested
    <3>2. QED
      BY <2>1, <3>1, <1>2 DEF AllKinds
  <2>2. CASE u # t
    <3>1. u \in ToSet(air[c][c]) \/ u \in bud[c].retry
      BY <2>2, <1>1, <1>5
    <3>2. ask[u].kind # "none"
      BY <3>1 DEF IInv, Asked, Is
    <3>3. QED
      BY <2>2, <3>2, <1>2
  <2>3. QED
    BY <2>1, <2>2
<1>8. \A u \in Tones : ~Is(u, {"none"}) /\ ~Is(u, {"ring"}) => ask'[u].kind # "ring"
  BY <1>2 DEF Requested, Is
<1>9. AddingHasReason'
  <2> SUFFICES ASSUME NEW c \in Buds, bud'[c].adding, ~bud'[c].early, ~bud'[c].dead
               PROVE  \/ \E u \in ToSet(air'[c][c]) : ask'[u].kind # "ring"
                      \/ bud'[c].later # {} \/ bud'[c].shared
    BY DEF AddingHasReason, Is
  <2>1. ASSUME bud[c].adding, ~bud[c].early, ~bud[c].dead, bud[c].later = {}, ~bud[c].shared
        PROVE  \E u \in ToSet(air'[c][c]) : ask'[u].kind # "ring"
    <3>1. PICK u \in ToSet(air[c][c]) : ~Is(u, {"ring"})
      BY <2>1 DEF IInv, AddingHasReason
    <3>2. u \in Tones /\ ~Is(u, {"none"})
      BY <3>1, AirSound DEF IInv, Asked
    <3>3. QED
      BY <3>1, <3>2, <1>5, <1>8
  <2>2. CASE c # b
    <3>1. bud'[c] = bud[c]
      BY <2>2, <1>1
    <3>2. QED
      BY <3>1, <2>1
  <2>3. CASE c = b
    BY <2>1, <2>3, <1>1 DEF Inherits
  <2>4. QED
    BY <2>2, <2>3
<1>10. SentLast'
  <2> SUFFICES ASSUME NEW c \in Buds, bud'[c].sent, ~bud'[c].early
               PROVE  air'[c][c] # <<>> /\ ask'[Last(air'[c][c])].kind # "ring"
    BY DEF SentLast, Is
  <2>1. CASE c # b
    <3>1. air[c][c] # <<>> /\ ~Is(Last(air[c][c]), {"ring"})
      BY <2>1, <1>1 DEF IInv, SentLast
    <3>2. Last(air[c][c]) \in ToSet(air[c][c])
      BY <3>1, AirSound, LastIn
    <3>3. Last(air[c][c]) \in Tones /\ ~Is(Last(air[c][c]), {"none"})
      BY <3>2, AirSound DEF IInv, Asked
    <3>4. QED
      BY <2>1, <3>1, <3>3, <1>4, <1>8
  <2>2. CASE c = b
    <3>1. sent /\ r.kind # "ring"
      BY <2>2, <1>1
    <3>2. air[b][b] \in Seq(Tones)
      BY AirSound
    <3>3. air'[b][b] # <<>> /\ Last(air'[b][b]) = t
      <4>1. air'[b][b] = Append(air[b][b], t)
        BY <3>1, <1>4
      <4>2. QED
        BY <3>2, <4>1, LastAppend
    <3>4. QED
      BY <2>2, <3>1, <3>3, <1>2
  <2>3. QED
    BY <2>1, <2>2
<1>11. QED
  BY <1>1, <1>6, <1>7, <1>9, <1>10 DEF IInv

LEMMA PlayToneStep ==
    ASSUME IInv, NEW b \in Buds, Ready(b), NEW t \in Tones, NEW r, Requested(t, r),
           NEW x, Sound(x), x.retry \subseteq bud[b].retry, x.adding = bud[b].adding,
           x.later = bud[b].later, x.shared = bud[b].shared, x.dead = bud[b].dead,
           x.sent = bud[b].sent, x.early = bud[b].early,
           TwsPlayTone(b, x, t, r), UNCHANGED <<link, delivery>>, events' \in 0..MaxEvents
    PROVE  IInv'
<1>1. bud[b].shared = FALSE /\ ~bud[b].dead /\ ~bud[b].sent
  BY IdleBud
<1>2. \A y : Adds(x, y, FALSE) => Sound(y) /\ y.retry = x.retry /\ Inherits(bud[b], y)
                                /\ ~y.sent
  BY <1>1 DEF Adds, Inherits
<1>3. CASE /\ bud' = [bud EXCEPT ![b] = [x EXCEPT !.retry = @ \cup {t}]]
           /\ ask' = [ask EXCEPT ![t] = Delayed(r)] /\ UNCHANGED air
  <2> DEFINE y == [x EXCEPT !.retry = @ \cup {t}]
  <2>1. Sound(y) /\ y.retry = x.retry \cup {t} /\ Inherits(bud[b], y) /\ ~y.sent
    BY <1>1 DEF Sound, Bud, Inherits
  <2>2. Requested(t, Delayed(r))
    BY DEF Requested, Delayed, AllKinds
  <2> HIDE DEF y
  <2>3. bud' = [bud EXCEPT ![b] = y]
    BY <1>3 DEF y
  <2>4. QED
    BY <1>3, <2>1, <2>2, <2>3, StepWithRequest
<1>4. CASE /\ r.kind # "ring" => ~x.adding
           /\ air' = [c \in Buds |-> [air[c] EXCEPT ![b] = Append(@, t)]]
           /\ bud' = [bud EXCEPT ![b] = [x EXCEPT !.sent = r.kind # "ring",
                                                  !.early = @ /\ r.kind = "ring"]]
           /\ ask' = [ask EXCEPT ![t] = r]
  <2> DEFINE y == [x EXCEPT !.sent = r.kind # "ring", !.early = @ /\ r.kind = "ring"]
  <2>1. /\ y.retry = x.retry /\ y.adding = x.adding /\ y.later = x.later
        /\ y.shared = x.shared /\ y.dead = x.dead /\ y.sent = (r.kind # "ring")
        /\ y.early = (x.early /\ r.kind = "ring") /\ Sound(y)
    BY DEF Sound, Bud
  <2>2. Inherits(bud[b], y) /\ (y.sent => r.kind # "ring")
    BY <1>1, <1>4, <2>1 DEF Inherits
  <2> HIDE DEF y
  <2>3. bud' = [bud EXCEPT ![b] = y]
    BY <1>4 DEF y
  <2>4. QED
    BY <1>4, <2>1, <2>2, <2>3, StepWithRequest
<1>5. CASE /\ \E y \in PlayedHere(x, t, r.kind) : bud' = [bud EXCEPT ![b] = y]
           /\ ask' = [ask EXCEPT ![t] = r] /\ UNCHANGED air
  <2>1. PICK y \in PlayedHere(x, t, r.kind) : bud' = [bud EXCEPT ![b] = y]
    BY <1>5
  <2>2. Adds(x, y, FALSE)
    BY PlayedHereSound
  <2>3. QED
    BY <1>2, <1>5, <2>1, <2>2, StepWithRequest
<1>6. QED
  BY <1>3, <1>4, <1>5 DEF TwsPlayTone

LEMMA RequestStep ==
    ASSUME IInv, NEW b \in Buds, NEW t \in Tones, NEW kind \in Kinds, NEW more \in BOOLEAN,
           Request(b, t, kind, more)
    PROVE  IInv'
<1> DEFINE r == [kind |-> kind, more |-> more]
           x == bud[b]
<1>1. Requested(t, r)
  BY ToneAssumption DEF Requested, Request
<1>2. Sound(x) /\ Ready(b) /\ x.shared = FALSE /\ ~x.dead /\ ~x.sent
  BY IdleBud DEF Request
<1>3. events' \in 0..MaxEvents /\ UNCHANGED <<link, delivery>>
  BY OneMore DEF Request, IInv, Around
<1>4. CASE TwsPlayTone(b, x, t, r)
  <2> HIDE DEF r
  <2>1. QED
    BY <1>1, <1>2, <1>3, <1>4, PlayToneStep
<1>5. CASE /\ \E y \in PlayedHere(x, t, kind) : bud' = [bud EXCEPT ![b] = y]
           /\ ask' = [ask EXCEPT ![t] = r] /\ UNCHANGED air
  <2>1. PICK y \in PlayedHere(x, t, kind) : bud' = [bud EXCEPT ![b] = y]
    BY <1>5
  <2>2. Adds(x, y, FALSE)
    BY <1>2, PlayedHereSound
  <2>3. Sound(y) /\ y.retry = x.retry /\ Inherits(x, y) /\ ~y.sent
    BY <1>2, <2>2 DEF Adds, Inherits
  <2> HIDE DEF r
  <2>4. QED
    BY <1>1, <1>3, <1>5, <2>1, <2>3, StepWithRequest
<1>6. QED
  BY <1>4, <1>5 DEF Request

LEMMA RetryStep ==
    ASSUME IInv, NEW b \in Buds, NEW t \in Tones, RetryTimeout(b, t) PROVE IInv'
<1> DEFINE x == [bud[b] EXCEPT !.retry = @ \ {t}]
<1>1. Sound(bud[b]) /\ Ready(b) /\ t \in bud[b].retry
  BY BudSound DEF RetryTimeout
<1>2. ask[t] \in [kind : AllKinds \cup {"none"}, more : BOOLEAN] /\ ask[t].kind # "none"
  BY <1>1 DEF IInv, Around, Asked, Is
<1>3. Requested(t, ask[t])
  BY <1>2 DEF Requested, Is
<1>4. /\ Sound(x) /\ x.retry \subseteq bud[b].retry /\ x.adding = bud[b].adding
      /\ x.later = bud[b].later /\ x.shared = bud[b].shared /\ x.dead = bud[b].dead
      /\ x.sent = bud[b].sent /\ x.early = bud[b].early
  BY <1>1 DEF Sound, Bud
<1>5. TwsPlayTone(b, x, t, ask[t]) /\ UNCHANGED <<link, delivery, events>>
  BY DEF RetryTimeout
<1> HIDE DEF x
<1>6. events' \in 0..MaxEvents
  BY <1>5 DEF IInv, Around
<1>7. QED
  BY <1>1, <1>3, <1>4, <1>5, <1>6, PlayToneStep

(***************************************************************************)
(* The theorems.                                                           *)
(***************************************************************************)

LEMMA InitIInv == Init => IInv
<1> SUFFICES ASSUME Init PROVE IInv
  OBVIOUS
<1> DEFINE st == [t \in Tones |-> "none"]
           en == [t \in Tones |-> "no"]
           x == [list |-> <<>>, pc |-> "idle", tone |-> NoTone, shared |-> FALSE,
                 stream |-> st, seen |-> {}, failed |-> {}, second |-> {},
                 later |-> {}, retry |-> {}, adding |-> FALSE, sent |-> FALSE,
                 early |-> FALSE, ring |-> NoTone, end |-> en, struck |-> FALSE, dead |-> FALSE]
<1>1. st \in [Tones -> {"none", "run", "over"}] /\ <<>> \in Seq(Tones)
      /\ en \in [Tones -> {"no", "once", "twice", "dropped"}]
  BY EmptySeq
<1>2. bud = [b \in Buds |-> x]
  BY DEF Init
<1> HIDE DEF st, en
<1>3. Sound(x) /\ ~x.adding /\ ~x.sent /\ x.retry = {}
  BY <1>1 DEF Sound, Bud
<1> HIDE DEF x
<1>4. bud \in [Buds -> SoundBud] /\ AddingHasReason /\ SentLast
  BY <1>2, <1>3, SoundIff DEF AddingHasReason, SentLast
<1>5. Asked
  BY <1>2, <1>3, SetNone DEF Init, Asked
<1>6. Around
  BY <1>1, ToneAssumption DEF Init, Around
<1>7. QED
  BY <1>4, <1>5, <1>6 DEF IInv

LEMMA NextIInv == IInv /\ [Next]_vars => IInv'
<1> SUFFICES ASSUME IInv, [Next]_vars PROVE IInv'
  OBVIOUS
<1>1. CASE UNCHANGED vars
  BY <1>1 DEF vars, IInv, Around, Asked, AddingHasReason, SentLast, Is
<1>2. ASSUME NEW b \in Buds, AppCore(b) PROVE IInv'
  BY <1>2, AddStartStep, AddLinkStep, RingLinkStep, SetAddingStep, RetryStep, AddTimeoutStep, PlayStep
     DEF AppCore
<1>3. ASSUME NEW b \in Buds, Streams(b) PROVE IInv'
  BY <1>3, CallbackStep, RingCallbackStep DEF Streams
<1>4. CASE World
  BY <1>4, RequestStep, StreamEndStep, RefuseStep, StopStep, LinkLostStep, LinkUpStep DEF World
<1>5. QED
  BY <1>1, <1>2, <1>3, <1>4 DEF Next

\* The invariant of both theorems: well-typed players, tones under way that somebody
\* asked for, and a reason for g_tws_tone_adding, whatever is asked for and whatever fails.
THEOREM Inductive == Spec => []IInv
BY InitIInv, NextIInv, PTL DEF Spec

LEMMA IInvTypeOK == IInv => TypeOK
BY DEF IInv, Around, SoundBud, TypeOK

\* The players, requests and messages keep their types.
THEOREM TypeCorrect == Spec => []TypeOK
BY Inductive, IInvTypeOK, PTL

\* g_tws_tone_adding, which keeps every shared tone of a bud waiting, is never left set
\* with nothing to reset it: however many tones meet, streams and files fail, memory or
\* queue give out, and links break.  The one exception is early: the interrupt refuses the
\* bud's own copy of a tone before app_core sets the flag for it.
THEOREM NeverAddsForNothing == Spec => []AddingHasReason
<1>1. IInv => AddingHasReason
  BY DEF IInv
<1>2. QED
  BY <1>1, Inductive, PTL
=============================================================================
