-------------------------- MODULE TwsPoweroffProof --------------------------
(***************************************************************************)
(* Proofs about TwsPoweroff, for one or two buds and any bounds: the       *)
(* types, among them that timer ids never run out; that a power-off polls  *)
(* with one timer, which its handle names; that it always waits for its    *)
(* next step; and that the program does nothing PowerSwitch does not.      *)
(***************************************************************************)
EXTENDS TwsPoweroff, SequenceTheorems, FiniteSetTheorems, TLAPS

\* The timers that run, and those of them that the handle does not name.
Active(x) == {i \in Ids : x.polls[i] # NoPoll}
Spare(x) == Active(x) \ {x.handle}

\* How often the bud is still to be told that it left its charger.
N(q) == Cardinality({k \in DOMAIN q : q[k] = "out"})

\* A timer outlives its power-off when the bud is taken out of its charger, so the
\* timers that no handle names are paid for by events that have been counted.
Paid(x, n, e) ==
    \/ Active(x) = {} /\ n <= e
    \/ x.flag /\ Cardinality(Spare(x)) + n <= e
    \/ ~x.flag /\ Cardinality(Spare(x)) + n + 1 <= e

One(x) == \A i \in Active(x) : x.handle = i /\ x.flag

\* A bud with n such messages, after e events; s says that its power-off is spoilt.
Fine(x, n, e, s) ==
    /\ x \in Bud
    /\ x.mode = "bt" => x.wait_exit <= 3
    /\ Paid(x, n, e)
    /\ ~s => One(x)

\* Nothing that Fine looks at has changed.
Kept(x, y) ==
    /\ y \in Bud /\ (y.mode = "bt" => y.wait_exit <= 3)
    /\ y.polls = x.polls /\ y.handle = x.handle /\ y.flag = x.flag

(***************************************************************************)
(* Counting.                                                               *)
(***************************************************************************)

LEMMA OutsFinite == ASSUME NEW q \in Seq(Messages)
                    PROVE  IsFiniteSet({k \in DOMAIN q : q[k] = "out"}) /\ N(q) \in Nat
<1>1. DOMAIN q = 1..Len(q) /\ Len(q) \in Nat
  BY LenProperties
<1>2. IsFiniteSet(1..Len(q))
  BY <1>1, FS_Interval
<1>3. {k \in DOMAIN q : q[k] = "out"} \in SUBSET (1..Len(q))
  BY <1>1
<1>4. IsFiniteSet({k \in DOMAIN q : q[k] = "out"})
  BY <1>2, <1>3, FS_Subset
<1>5. QED
  BY <1>4, FS_CardinalityType DEF N

LEMMA OutsEmpty == N(<<>>) = 0 /\ N(<<"softoff">>) = 0
<1>1. {k \in DOMAIN <<>> : <<>>[k] = "out"} = {}
  OBVIOUS
<1>2. {k \in DOMAIN <<"softoff">> : <<"softoff">>[k] = "out"} = {}
  OBVIOUS
<1>3. QED
  BY <1>1, <1>2, FS_EmptySet DEF N

LEMMA OutsAppend ==
    ASSUME NEW q \in Seq(Messages), NEW m \in Messages
    PROVE  /\ Append(q, m) \in Seq(Messages)
           /\ N(Append(q, m)) = IF m = "out" THEN N(q) + 1 ELSE N(q)
<1> DEFINE r == Append(q, m)
           S == {k \in DOMAIN q : q[k] = "out"}
           T == {k \in DOMAIN r : r[k] = "out"}
<1>1. /\ r \in Seq(Messages) /\ DOMAIN r = 1..(Len(q) + 1) /\ DOMAIN q = 1..Len(q)
      /\ \A k \in 1..Len(q) : r[k] = q[k]
      /\ r[Len(q) + 1] = m /\ Len(q) \in Nat
  BY AppendProperties, LenProperties
<1>2. T = IF m = "out" THEN S \cup {Len(q) + 1} ELSE S
  <2>1. S = {k \in 1..Len(q) : q[k] = "out"}
        /\ T = {k \in 1..(Len(q) + 1) : r[k] = "out"}
    BY <1>1
  <2>2. \A k : k \in 1..(Len(q) + 1) <=> k \in 1..Len(q) \/ k = Len(q) + 1
    BY <1>1
  <2> HIDE DEF r
  <2>3. \A k \in 1..Len(q) : k \in T <=> k \in S
    BY <2>1, <2>2, <1>1
  <2>4. Len(q) + 1 \in T <=> m = "out"
    BY <2>1, <2>2, <1>1
  <2>5. T \subseteq 1..(Len(q) + 1) /\ S \subseteq 1..Len(q)
    BY <2>1
  <2> HIDE DEF S, T
  <2>6. CASE m = "out"
    BY <2>2, <2>3, <2>4, <2>5, <2>6
  <2>7. CASE m # "out"
    <3>1. Len(q) + 1 \notin T
      BY <2>4, <2>7
    <3>2. T = S
      BY <2>2, <2>3, <2>5, <3>1
    <3>3. QED
      BY <2>7, <3>2
  <2>8. QED
    BY <2>6, <2>7
<1>3. IsFiniteSet(S)
  BY OutsFinite
<1>4. m = "out" => Cardinality(T) = Cardinality(S) + 1
  <2> SUFFICES ASSUME m = "out" PROVE Cardinality(T) = Cardinality(S) + 1
    OBVIOUS
  <2> DEFINE last == Len(q) + 1
  <2>1. last \notin S
    BY <1>1
  <2>2. T = S \cup {last}
    BY <1>2
  <2> HIDE DEF S, T, last
  <2>3. QED
    BY <2>1, <2>2, <1>3, FS_AddElement
<1> HIDE DEF S, T
<1>5. QED
  BY <1>1, <1>2, <1>4 DEF N, S, T

\* The rest of a queue has fewer of them when its head was one.
LEMMA OutsTail ==
    ASSUME NEW q \in Seq(Messages), q # <<>>
    PROVE  /\ Head(q) \in Messages /\ Tail(q) \in Seq(Messages)
           /\ N(Tail(q)) + (IF Head(q) = "out" THEN 1 ELSE 0) <= N(q)
<1> DEFINE r == Tail(q)
           S == {k \in DOMAIN q : q[k] = "out"}
           T == {k \in DOMAIN r : r[k] = "out"}
           U == S \ {1}
           f == [k \in T |-> k + 1]
<1>1. /\ Head(q) \in Messages /\ r \in Seq(Messages) /\ Head(q) = q[1]
      /\ Len(q) \in Nat /\ Len(q) # 0 /\ DOMAIN q = 1..Len(q) /\ DOMAIN r = 1..(Len(q) - 1)
      /\ \A k \in 1..(Len(q) - 1) : r[k] = q[k + 1]
  BY HeadTailProperties, LenProperties, EmptySeq
<1>2. IsFiniteSet(S) /\ Cardinality(S) \in Nat
  BY OutsFinite, FS_CardinalityType
<1>3. \A k \in T : k + 1 \in U /\ k \in Nat
  <2> SUFFICES ASSUME NEW k \in T PROVE k + 1 \in U /\ k \in Nat
    OBVIOUS
  <2>1. k \in 1..(Len(q) - 1) /\ r[k] = "out"
    BY <1>1
  <2>2. k + 1 \in 1..Len(q) /\ k + 1 # 1 /\ q[k + 1] = "out" /\ k \in Nat
    BY <1>1, <2>1
  <2>3. QED
    BY <2>2, <1>1
<1>4. f \in Injection(T, U)
  BY <1>3 DEF Injection, IsInjective
<1>5. (1 \in S) <=> Head(q) = "out"
  BY <1>1
<1> HIDE DEF S, T, f
<1>6. IsFiniteSet(U) /\ Cardinality(U) = IF 1 \in S THEN Cardinality(S) - 1 ELSE Cardinality(S)
  BY <1>2, FS_RemoveElement
<1>7. IsFiniteSet(T) /\ Cardinality(T) <= Cardinality(U)
  BY <1>4, <1>6, FS_Injection
<1>8. Cardinality(T) \in Nat
  BY <1>7, FS_CardinalityType
<1>9. N(r) = Cardinality(T) /\ N(q) = Cardinality(S)
  BY DEF N, S, T
<1> HIDE DEF r, U
<1>10. N(r) + (IF Head(q) = "out" THEN 1 ELSE 0) <= N(q)
  BY <1>2, <1>5, <1>6, <1>7, <1>8, <1>9
<1>11. QED
  BY <1>1, <1>10 DEF r

LEMMA IdsCount == IsFiniteSet(Ids) /\ Cardinality(Ids) = MaxEvents + 1 /\ Ids \subseteq Nat \ {0}
<1>1. MaxEvents \in Nat
  BY PowerAssumption
<1>2. QED
  BY <1>1, FS_Interval DEF Ids

LEMMA TimersCount ==
    ASSUME NEW x
    PROVE  /\ IsFiniteSet(Active(x)) /\ IsFiniteSet(Spare(x))
           /\ Cardinality(Active(x)) \in Nat /\ Cardinality(Spare(x)) \in Nat
           /\ Cardinality(Active(x)) <= Cardinality(Spare(x)) + 1
           /\ Cardinality(Spare(x)) <= Cardinality(Active(x))
           /\ Cardinality(Active(x)) <= MaxEvents => Active(x) # Ids
           /\ Spare(x) # {} => Cardinality(Spare(x)) > 0
<1>1. Active(x) \in SUBSET Ids
  BY DEF Active
<1>2. IsFiniteSet(Active(x))
  BY <1>1, IdsCount, FS_Subset
<1>3. IsFiniteSet(Spare(x))
      /\ Cardinality(Spare(x)) = IF x.handle \in Active(x) THEN Cardinality(Active(x)) - 1
                                 ELSE Cardinality(Active(x))
  BY <1>2, FS_RemoveElement DEF Spare
<1>4. Cardinality(Active(x)) \in Nat /\ Cardinality(Spare(x)) \in Nat
  BY <1>2, <1>3, FS_CardinalityType
<1>5. Cardinality(Active(x)) <= MaxEvents => Active(x) # Ids
  BY <1>4, IdsCount, PowerAssumption
<1>6. Spare(x) # {} => Cardinality(Spare(x)) # 0
  BY <1>3, FS_EmptySet
<1>7. QED
  BY <1>2, <1>3, <1>4, <1>5, <1>6

(***************************************************************************)
(* What the operators on a bud's record keep.                              *)
(***************************************************************************)

LEMMA FineKept ==
    ASSUME NEW x, NEW y, NEW n, NEW e, NEW s, Fine(x, n, e, s), Kept(x, y)
    PROVE  Fine(y, n, e, s)
<1>1. Active(y) = Active(x) /\ Spare(y) = Spare(x)
  BY DEF Active, Spare, Kept
<1>2. QED
  BY <1>1 DEF Fine, Kept, Paid, One

\* Messages that are handled or flushed, and events that are counted.
LEMMA FineMore ==
    ASSUME NEW x, NEW n \in Nat, NEW m \in Nat, NEW e \in Nat, NEW f \in Nat, NEW s, NEW t,
           Fine(x, n, e, s), m + e <= n + f, e <= f, s => t
    PROVE  Fine(x, m, f, t)
<1>1. Cardinality(Spare(x)) \in Nat
  BY TimersCount
<1>2. Paid(x, m, f)
  BY <1>1 DEF Fine, Paid
<1>3. QED
  BY <1>2 DEF Fine

LEMMA BlankType ==
    ASSUME NEW m \in {"bt", "idle", "off", "reset"}
    PROVE  /\ Blank(m) \in Bud /\ Blank(m).mode = m
           /\ Blank(m).wait_exit = 0 /\ Active(Blank(m)) = {}
<1>1. NoPoll \in Polls
  BY DEF NoPoll, Polls, Reasons
<1>2. [i \in Ids |-> NoPoll] \in [Ids -> Polls]
  BY <1>1
<1>3. MaxTicks \in Nat
  BY PowerAssumption
<1>4. QED
  BY <1>2, <1>3 DEF Blank, Bud, Active, Goto

LEMMA FineBlank ==
    ASSUME NEW m \in {"bt", "idle", "off", "reset"}, NEW n \in Nat, NEW e \in Nat, NEW s,
           n <= e
    PROVE  Fine(Blank(m), n, e, s)
BY BlankType DEF Fine, Paid, One

\* A bud is never owed more than has been counted.
LEMMA PaidFor ==
    ASSUME NEW x, NEW n \in Nat, NEW e \in Nat, NEW s, Fine(x, n, e, s)
    PROVE  n <= e /\ Cardinality(Spare(x)) + n <= e
<1>1. Cardinality(Spare(x)) \in Nat
  BY TimersCount
<1>2. Active(x) = {} => Cardinality(Spare(x)) = 0
  BY FS_EmptySet DEF Spare
<1>3. QED
  BY <1>1, <1>2 DEF Fine, Paid

LEMMA PollAdded ==
    ASSUME NEW x \in Bud, Active(x) # Ids,
           NEW cb \in {"same", "detach", "exit"}, NEW why \in Reasons
    PROVE  LET y == AddPoll(x, cb, why)
           IN  /\ y \in Bud /\ y.mode = x.mode /\ y.wait_exit = x.wait_exit
               /\ y.flag = x.flag /\ y.handle \notin Active(x)
               /\ Active(y) = Active(x) \cup {y.handle} /\ Spare(y) = Active(x)
<1> DEFINE i == FreeId({j \in Ids : x.polls[j] = NoPoll})
           y == AddPoll(x, cb, why)
<1>1. \E j \in Ids : x.polls[j] = NoPoll
  BY DEF Active
<1>2. i \in Ids /\ x.polls[i] = NoPoll
  BY <1>1 DEF FreeId
<1> HIDE DEF i
<1>3. y = [x EXCEPT !.handle = i, !.polls[i] = [cb |-> cb, why |-> why]]
  BY DEF AddPoll, i
<1> DEFINE r == [cb |-> cb, why |-> why]
           p == [x.polls EXCEPT ![i] = r]
<1>4. r \in Polls
  BY DEF Polls
<1>5. r # NoPoll
  <2>1. r.cb = cb /\ NoPoll.cb = "none"
    BY DEF NoPoll
  <2> HIDE DEF r
  <2>2. r.cb # NoPoll.cb
    BY <2>1
  <2>3. QED
    BY <2>2
<1>6. y = [x EXCEPT !.handle = i, !.polls = p]
  BY <1>3
<1> HIDE DEF r
<1>7. x.polls \in [Ids -> Polls] /\ p \in [Ids -> Polls]
  BY <1>2, <1>4 DEF Bud
<1>8. Active(x) \cup {i} = {j \in Ids : p[j] # NoPoll} /\ i \notin Active(x)
  BY <1>2, <1>5, <1>7 DEF Active
<1> HIDE DEF p, y
<1>9. /\ y.handle = i /\ y.mode = x.mode /\ y.wait_exit = x.wait_exit /\ y.flag = x.flag
      /\ y.polls = p /\ y \in Bud
  BY <1>2, <1>6, <1>7 DEF Bud
<1>10. Active(y) = Active(x) \cup {i}
  BY <1>8, <1>9 DEF Active
<1>11. QED
  BY <1>8, <1>9, <1>10 DEF Spare, y

LEMMA PollDeleted ==
    ASSUME NEW x \in Bud
    PROVE  LET y == DelPoll(x)
           IN  /\ y \in Bud /\ y.mode = x.mode /\ y.wait_exit = x.wait_exit
               /\ y.flag = x.flag /\ y.handle = x.handle
               /\ Active(y) = Spare(x) /\ Spare(y) = Spare(x)
<1> DEFINE y == DelPoll(x)
<1>1. CASE x.handle = 0
  <2>1. 0 \notin Active(x)
    BY IdsCount DEF Active
  <2>2. QED
    BY <1>1, <2>1 DEF DelPoll, Spare
<1>2. CASE x.handle # 0
  <2>1. x.handle \in Ids
    BY <1>2 DEF Bud
  <2>2. y = [x EXCEPT !.polls[x.handle] = NoPoll]
    BY <1>2 DEF DelPoll
  <2>3. NoPoll \in Polls
    BY DEF NoPoll, Polls, Reasons
  <2>4. /\ y.handle = x.handle /\ y.mode = x.mode /\ y.wait_exit = x.wait_exit /\ y.flag = x.flag
        /\ y.polls = [x.polls EXCEPT ![x.handle] = NoPoll] /\ y \in Bud
    BY <2>1, <2>2, <2>3 DEF Bud
  <2> HIDE DEF y
  <2>5. Active(y) = Spare(x)
    BY <2>1, <2>4 DEF Active, Spare, Bud
  <2>6. QED
    BY <2>4, <2>5 DEF Spare, y
<1>3. QED
  BY <1>1, <1>2

LEMMA FineDeleted ==
    ASSUME NEW x, NEW n \in Nat, NEW e \in Nat, NEW s, Fine(x, n, e, s)
    PROVE  Fine(DelPoll(x), n, e, s)
<1> DEFINE y == DelPoll(x)
<1>1. /\ y \in Bud /\ y.mode = x.mode /\ y.wait_exit = x.wait_exit
      /\ y.flag = x.flag /\ y.handle = x.handle
      /\ Active(y) = Spare(x) /\ Spare(y) = Spare(x)
  BY PollDeleted DEF Fine
<1> HIDE DEF y
<1>2. Spare(x) \subseteq Active(x)
  BY DEF Spare
<1>3. Paid(y, n, e)
  BY <1>1, <1>2 DEF Fine, Paid
<1>4. One(x) => One(y)
  BY <1>1, <1>2 DEF One
<1>5. Fine(y, n, e, s)
  BY <1>1, <1>3, <1>4 DEF Fine
<1>6. QED
  BY <1>5 DEF y

\* A power-off that begins keeps the timers of those that were called off.
LEMMA FineEnter ==
    ASSUME NEW x, NEW n \in Nat, NEW e \in 0..MaxEvents, NEW s, Fine(x, n, e, s),
           NEW reason \in Reasons
    PROVE  Fine(sys_enter_soft_poweroff(x, reason), n, e, s)
<1>1. CASE x.flag
  BY <1>1 DEF sys_enter_soft_poweroff
<1>2. CASE ~x.flag
  <2> DEFINE z == [x EXCEPT !.flag = TRUE, !.cnt = 0, !.auto = "none"]
             cb == IF reason = "NORMAL_TWS" THEN "same" ELSE "detach"
             y == AddPoll(z, cb, reason)
  <2>1. MaxTicks \in Nat /\ MaxEvents \in Nat
    BY PowerAssumption
  <2>2. /\ z \in Bud /\ z.mode = x.mode /\ z.wait_exit = x.wait_exit /\ z.flag = TRUE
        /\ z.polls = x.polls /\ z.handle = x.handle
    <3>1. x \in Bud
      BY DEF Fine
    <3>2. /\ z.mode = x.mode /\ z.wait_exit = x.wait_exit /\ z.flag = TRUE
          /\ z.polls = x.polls /\ z.handle = x.handle
      BY <3>1 DEF Bud
    <3> DEFINE u == [x EXCEPT !.flag = TRUE]
               v == [u EXCEPT !.cnt = 0]
    <3>3. u \in Bud
      BY <3>1 DEF Bud
    <3> HIDE DEF u
    <3>4. v \in Bud
      BY <2>1, <3>3 DEF Bud
    <3> HIDE DEF v
    <3>5. [v EXCEPT !.auto = "none"] \in Bud
      BY <3>4 DEF Bud
    <3>6. z \in Bud
      BY <3>1, <3>5 DEF Bud, u, v
    <3>7. QED
      BY <3>2, <3>6
  <2> HIDE DEF z
  <2>3. Active(z) = Active(x) /\ Spare(z) = Spare(x)
    BY <2>2 DEF Active, Spare
  <2>4. /\ Cardinality(Active(x)) \in Nat /\ Cardinality(Spare(x)) \in Nat
        /\ Cardinality(Active(x)) <= Cardinality(Spare(x)) + 1
        /\ Cardinality(Active(x)) <= MaxEvents => Active(x) # Ids
        /\ Active(x) = {} => Cardinality(Active(x)) = 0
    BY TimersCount, FS_EmptySet
  <2>5. Cardinality(Active(x)) + n <= e
    BY <1>2, <2>4 DEF Fine, Paid
  <2>6. Active(z) # Ids
    BY <2>1, <2>3, <2>4, <2>5
  <2>7. /\ y \in Bud /\ y.mode = z.mode /\ y.wait_exit = z.wait_exit /\ y.flag = z.flag
        /\ Active(y) = Active(z) \cup {y.handle} /\ Spare(y) = Active(z)
    BY <2>2, <2>6, PollAdded
  <2> HIDE DEF y
  <2>8. Paid(y, n, e)
    BY <2>2, <2>3, <2>5, <2>7 DEF Paid
  <2>9. One(x) => One(y)
    <3>1. One(x) => Active(x) = {}
      BY <1>2 DEF One
    <3>2. QED
      BY <3>1, <2>2, <2>3, <2>7 DEF One
  <2>10. Fine(y, n, e, s)
    BY <2>2, <2>7, <2>8, <2>9 DEF Fine
  <2>11. sys_enter_soft_poweroff(x, reason) = y
    BY <1>2 DEF sys_enter_soft_poweroff, y, z
  <2>12. QED
    BY <2>10, <2>11
<1>3. QED
  BY <1>1, <1>2

LEMMA FineDetach ==
    ASSUME NEW x, NEW n \in Nat, NEW e \in 0..MaxEvents, NEW s, Fine(x, n, e, s),
           Active(x) # {}, NEW why \in Reasons
    PROVE  Fine(AddPoll([DelPoll(x) EXCEPT !.cnt = 0], "exit", why), n, e, s)
<1> DEFINE w == DelPoll(x)
           z == [w EXCEPT !.cnt = 0]
           y == AddPoll(z, "exit", why)
<1>1. MaxTicks \in Nat /\ MaxEvents \in Nat
  BY PowerAssumption
<1>2. /\ w \in Bud /\ w.mode = x.mode /\ w.wait_exit = x.wait_exit
      /\ w.flag = x.flag /\ Active(w) = Spare(x)
  BY PollDeleted DEF Fine
<1> HIDE DEF w
<1>3. /\ z \in Bud /\ z.mode = x.mode /\ z.wait_exit = x.wait_exit /\ z.flag = x.flag
      /\ z.polls = w.polls
  BY <1>1, <1>2 DEF Bud
<1> HIDE DEF z
<1>4. Active(z) = Spare(x)
  BY <1>2, <1>3 DEF Active
<1>5. Cardinality(Spare(x)) \in Nat /\ Cardinality(Spare(x)) + n <= e
  BY TimersCount, PaidFor
<1>6. Active(z) # Ids
  BY <1>1, <1>4, <1>5, IdsCount
<1>7. /\ y \in Bud /\ y.mode = z.mode /\ y.wait_exit = z.wait_exit /\ y.flag = z.flag
      /\ Active(y) = Active(z) \cup {y.handle} /\ Spare(y) = Active(z)
  BY <1>3, <1>6, PollAdded
<1> HIDE DEF y
<1>8. Paid(y, n, e)
  BY <1>3, <1>4, <1>7 DEF Fine, Paid
<1>9. One(x) => One(y)
  <2> SUFFICES ASSUME One(x) PROVE One(y)
    OBVIOUS
  <2>1. x.flag /\ Spare(x) = {}
    BY DEF One, Spare
  <2>2. QED
    BY <2>1, <1>3, <1>4, <1>7 DEF One
<1>10. Fine(y, n, e, s)
  BY <1>3, <1>7, <1>8, <1>9 DEF Fine
<1>11. QED
  BY <1>10 DEF y, z, w

LEMMA FineTick ==
    ASSUME NEW x, NEW n \in Nat, NEW e \in Nat, NEW s, Fine(x, n, e, s)
    PROVE  Fine(Tick(x), n, e, s)
<1>1. MaxTicks \in Nat
  BY PowerAssumption
<1>2. CASE x.cnt + 1 > MaxTicks
  BY <1>2, PaidFor, FineBlank DEF Tick
<1>3. CASE ~(x.cnt + 1 > MaxTicks)
  <2>1. Tick(x) = [x EXCEPT !.cnt = @ + 1]
    BY <1>3 DEF Tick
  <2>2. Kept(x, Tick(x))
    BY <1>1, <1>3, <2>1 DEF Kept, Fine, Bud
  <2>3. QED
    BY <2>2, FineKept
<1>4. QED
  BY <1>2, <1>3

\* Taking the bud out of its charger uses up the message that was counted.
LEMMA FineOut ==
    ASSUME NEW x, NEW n \in Nat, NEW m \in Nat, NEW e \in Nat, NEW s, NEW t,
           Fine(x, n, e, s), m + 1 <= n, s => t, x.flag /\ Active(x) # {} => t
    PROVE  Fine([x EXCEPT !.flag = FALSE], m, e, t)
<1> DEFINE y == [x EXCEPT !.flag = FALSE]
<1>1. /\ y \in Bud /\ y.mode = x.mode /\ y.wait_exit = x.wait_exit /\ ~y.flag
      /\ y.polls = x.polls /\ y.handle = x.handle
  BY DEF Fine, Bud
<1> HIDE DEF y
<1>2. Active(y) = Active(x) /\ Spare(y) = Spare(x)
  BY <1>1 DEF Active, Spare
<1>3. Cardinality(Spare(x)) \in Nat /\ Cardinality(Spare(x)) + n <= e
  BY TimersCount, PaidFor
<1>4. Paid(y, m, e)
  BY <1>1, <1>2, <1>3 DEF Paid
<1>5. ~t => One(y)
  BY <1>2 DEF Fine, One
<1>6. Fine(y, m, e, t)
  BY <1>1, <1>4, <1>5 DEF Fine
<1>7. QED
  BY <1>6 DEF y

\* The mode is left in three rounds: wait_exit is 4 only once the mode is idle.
LEMMA FineGoto ==
    ASSUME NEW x, NEW q \in Seq(Messages), NEW e \in Nat, NEW s, Fine(x, N(q), e, s),
           x.mode \in {"bt", "idle"}, NEW m \in Goto, NEW busy,
           NEW r \in app_mode_switch_handler(x, q, m, busy)
    PROVE  Fine(r.x, N(q), e, s) /\ r.q \in Seq(Messages) /\ N(r.q) <= N(q)
<1> DEFINE t == bt_mode_try_exit(x)
<1>1. x \in Bud /\ (x.mode = "bt" => x.wait_exit <= 3) /\ N(q) \in Nat
  BY OutsFinite DEF Fine
<1>2. r.q \in {q, <<>>, <<"softoff">>}
  BY DEF app_mode_switch_handler, idle_mode_enter
<1>3. r.q \in Seq(Messages) /\ N(r.q) <= N(q)
  <2>1. <<>> \in Seq(Messages) /\ <<"softoff">> \in Seq(Messages)
    BY DEF Messages
  <2>2. N(<<>>) <= N(q) /\ N(<<"softoff">>) <= N(q) /\ N(q) <= N(q)
    BY <1>1, OutsEmpty
  <2>3. ASSUME NEW p \in {q, <<>>, <<"softoff">>}
        PROVE  p \in Seq(Messages) /\ N(p) <= N(q)
    <3>1. CASE p = q
      BY <2>2, <3>1
    <3>2. CASE p = <<>>
      BY <2>1, <2>2, <3>2
    <3>3. CASE p = <<"softoff">>
      BY <2>1, <2>2, <3>3
    <3>4. QED
      BY <3>1, <3>2, <3>3
  <2>4. QED
    BY <1>2, <2>3
<1>4. CASE m = "bt"
  <2>1. Kept(x, x) /\ Kept(x, bt_mode_init(x))
    <3> DEFINE u == [x EXCEPT !.mode = "bt"]
               v == [u EXCEPT !.wait_exit = 0]
               w == [v EXCEPT !.exiting = FALSE]
    <3>1. /\ u \in Bud /\ u.polls = x.polls /\ u.handle = x.handle /\ u.flag = x.flag
      BY <1>1 DEF Bud
    <3> HIDE DEF u
    <3>2. /\ v \in Bud /\ v.wait_exit = 0 /\ v.polls = x.polls /\ v.handle = x.handle
          /\ v.flag = x.flag
      BY <3>1 DEF Bud
    <3> HIDE DEF v
    <3>3. /\ w \in Bud /\ w.wait_exit = 0 /\ w.polls = x.polls /\ w.handle = x.handle
          /\ w.flag = x.flag
      BY <3>2 DEF Bud
    <3>4. bt_mode_init(x) = w
      BY <1>1 DEF Bud, bt_mode_init, u, v
    <3> HIDE DEF w
    <3>5. QED
      BY <1>1, <3>3, <3>4 DEF Kept
  <2>2. r.x \in {x, bt_mode_init(x)}
    BY <1>4 DEF app_mode_switch_handler
  <2>3. QED
    BY <1>3, <2>1, <2>2, FineKept
<1>5. CASE m # "bt" /\ (x.mode = "idle" \/ busy)
  BY <1>3, <1>5 DEF app_mode_switch_handler
<1>6. CASE m # "bt" /\ ~(x.mode = "idle" \/ busy) /\ MayLeave(x)
  <2> DEFINE y == [t EXCEPT !.mode = "idle"]
             z == [y EXCEPT !.tone = @ \cup {"local"}]
  <2>1. t = [x EXCEPT !.wait_exit = 4]
    BY <1>1, <1>6 DEF bt_mode_try_exit, MayLeave, Bud
  <2> HIDE DEF t
  <2>2. t \in Bud /\ t.polls = x.polls /\ t.handle = x.handle /\ t.flag = x.flag
    BY <1>1, <2>1 DEF Bud
  <2>3. /\ y \in Bud /\ y.polls = x.polls /\ y.handle = x.handle /\ y.flag = x.flag
        /\ y.mode = "idle"
    BY <2>2 DEF Bud
  <2>4. r.x \in {y, z}
    BY <1>6 DEF app_mode_switch_handler, idle_mode_enter, t
  <2> HIDE DEF y
  <2>5. /\ z \in Bud /\ z.polls = x.polls /\ z.handle = x.handle /\ z.flag = x.flag
        /\ z.mode = "idle"
    BY <2>3 DEF Bud
  <2>6. Kept(x, y) /\ Kept(x, z)
    BY <2>3, <2>5 DEF Kept
  <2> HIDE DEF z
  <2>7. QED
    BY <1>3, <2>4, <2>6, FineKept
<1>7. CASE m # "bt" /\ ~(x.mode = "idle" \/ busy) /\ ~MayLeave(x)
  <2> DEFINE y == [t EXCEPT !.retry = TRUE, !.saved = m]
  <2>1. x.mode = "bt" /\ x.wait_exit <= 3
    BY <1>1, <1>7
  <2>2. t = x \/ t = [x EXCEPT !.wait_exit = 1, !.exiting = TRUE, !.auto = "none"]
        \/ (x.wait_exit < 3 /\ t = [x EXCEPT !.wait_exit = @ + 1])
    <3>1. x.wait_exit \in 0..4
      BY <1>1 DEF Bud
    <3>2. CASE x.wait_exit = 0
      BY <3>2 DEF bt_mode_try_exit
    <3>3. CASE x.wait_exit # 0 /\ x.exiting
      BY <3>3 DEF bt_mode_try_exit
    <3>4. CASE x.wait_exit # 0 /\ ~x.exiting
      <4>1. x.wait_exit # 3
        BY <1>7, <3>4 DEF MayLeave
      <4>2. x.wait_exit < 3
        BY <2>1, <3>1, <4>1
      <4>3. QED
        BY <3>4, <4>2 DEF bt_mode_try_exit
    <3>5. QED
      BY <3>2, <3>3, <3>4
  <2> HIDE DEF t
  <2>3. Kept(x, t)
    <3>1. x \in Bud /\ x.wait_exit \in 0..4
      BY <1>1 DEF Bud
    <3>2. CASE t = x
      BY <1>1, <2>1, <3>2 DEF Kept
    <3>3. CASE t = [x EXCEPT !.wait_exit = 1, !.exiting = TRUE, !.auto = "none"]
      <4> DEFINE u == [x EXCEPT !.wait_exit = 1]
                 v == [u EXCEPT !.exiting = TRUE]
                 w == [v EXCEPT !.auto = "none"]
      <4>1. /\ u \in Bud /\ u.wait_exit = 1 /\ u.polls = x.polls /\ u.handle = x.handle
            /\ u.flag = x.flag /\ u.mode = x.mode
        BY <3>1 DEF Bud
      <4> HIDE DEF u
      <4>2. /\ v \in Bud /\ v.wait_exit = 1 /\ v.polls = x.polls /\ v.handle = x.handle
            /\ v.flag = x.flag /\ v.mode = x.mode
        BY <4>1 DEF Bud
      <4> HIDE DEF v
      <4>3. /\ w \in Bud /\ w.wait_exit = 1 /\ w.polls = x.polls /\ w.handle = x.handle
            /\ w.flag = x.flag /\ w.mode = x.mode
        BY <4>2 DEF Bud
      <4>4. t = w
        BY <3>1, <3>3 DEF Bud, u, v
      <4> HIDE DEF w
      <4>5. QED
        BY <4>3, <4>4 DEF Kept
    <3>4. CASE x.wait_exit < 3 /\ t = [x EXCEPT !.wait_exit = @ + 1]
      BY <3>1, <3>4 DEF Kept, Bud
    <3>5. QED
      BY <2>2, <3>2, <3>3, <3>4
  <2>4. Kept(x, y)
    BY <2>3 DEF Kept, Bud
  <2>5. r.x = y
    BY <1>7 DEF app_mode_switch_handler, t
  <2>6. QED
    BY <1>3, <2>4, <2>5, FineKept
<1>8. QED
  BY <1>4, <1>5, <1>6, <1>7

(***************************************************************************)
(* The invariant, and how a step of one bud keeps it.                      *)
(***************************************************************************)

Sets ==
    /\ link \in BOOLEAN /\ master \in Buds
    /\ \A s \in {sync, phone, talk, player, told, leave, charger, spoilt} : s \subseteq Buds

Core ==
    /\ bud \in [Buds -> Bud]
    /\ queue \in [Buds -> Seq(Messages)]
    /\ events \in 0..MaxEvents
    /\ \A b \in Buds : Fine(bud[b], N(queue[b]), events, b \in spoilt)

IInv == Core /\ Sets

\* What is counted and what is spoilt stays so.
Grow ==
    /\ spoilt \subseteq spoilt'
    /\ events' \in 0..MaxEvents /\ events <= events'

LEMMA CoreOf ==
    ASSUME Core, NEW b \in Buds
    PROVE  /\ bud[b] \in Bud /\ queue[b] \in Seq(Messages) /\ N(queue[b]) \in Nat
           /\ events \in 0..MaxEvents /\ events \in Nat /\ MaxEvents \in Nat
           /\ Fine(bud[b], N(queue[b]), events, b \in spoilt)
<1>1. bud[b] \in Bud /\ queue[b] \in Seq(Messages)
      /\ Fine(bud[b], N(queue[b]), events, b \in spoilt) /\ events \in 0..MaxEvents
  BY DEF Core
<1>2. N(queue[b]) \in Nat
  BY <1>1, OutsFinite
<1>3. MaxEvents \in Nat
  BY PowerAssumption
<1>4. QED
  BY <1>1, <1>2, <1>3

\* Nobody's messages become more: those who do not move stay fine.
LEMMA Others ==
    ASSUME Core, Grow, NEW b \in Buds, bud'[b] = bud[b],
           queue'[b] \in Seq(Messages), N(queue'[b]) <= N(queue[b])
    PROVE  Fine(bud'[b], N(queue'[b]), events', b \in spoilt')
<1>1. N(queue[b]) \in Nat /\ events \in Nat /\ MaxEvents \in Nat
      /\ Fine(bud[b], N(queue[b]), events, b \in spoilt)
  BY CoreOf
<1>2. events' \in Nat /\ events <= events' /\ (b \in spoilt => b \in spoilt')
  BY <1>1 DEF Grow
<1>3. N(queue'[b]) \in Nat
  BY OutsFinite
<1> DEFINE x == bud[b]
           n == N(queue[b])
           m == N(queue'[b])
           e == events
           f == events'
           s == b \in spoilt
           t == b \in spoilt'
<1>4. n \in Nat /\ m \in Nat /\ e \in Nat /\ f \in Nat /\ m <= n /\ e <= f /\ (s => t)
      /\ Fine(x, n, e, s)
  BY <1>1, <1>2, <1>3
<1> HIDE DEF x, n, m, e, f, s, t
<1>5. m + e <= n + f
  BY <1>4
<1>6. Fine(x, m, f, t)
  BY <1>4, <1>5, FineMore
<1>7. QED
  BY <1>6 DEF x, m, f, t

LEMMA OneBud ==
    ASSUME Core, Grow, NEW b \in Buds, NEW y, NEW q \in Seq(Messages), Set(b, y),
           queue' = [queue EXCEPT ![b] = q], Fine(y, N(q), events', b \in spoilt')
    PROVE  Core'
<1>1. bud \in [Buds -> Bud] /\ queue \in [Buds -> Seq(Messages)]
  BY DEF Core
<1>2. y \in Bud
  BY DEF Fine
<1>3. bud' \in [Buds -> Bud] /\ queue' \in [Buds -> Seq(Messages)]
      /\ bud'[b] = y /\ queue'[b] = q
  BY <1>1, <1>2 DEF Set
<1>4. ASSUME NEW c \in Buds PROVE Fine(bud'[c], N(queue'[c]), events', c \in spoilt')
  <2>1. CASE c = b
    BY <1>3, <2>1
  <2>2. CASE c # b
    <3>1. bud'[c] = bud[c] /\ queue'[c] = queue[c] /\ queue[c] \in Seq(Messages)
      BY <1>1, <2>2 DEF Set
    <3>2. N(queue'[c]) = N(queue[c]) /\ N(queue[c]) \in Nat
      BY <3>1, OutsFinite
    <3>3. N(queue'[c]) <= N(queue[c])
      BY <3>2
    <3>4. QED
      BY <3>1, <3>3, Others
  <2>3. QED
    BY <2>1, <2>2
<1>5. QED
  BY <1>3, <1>4 DEF Core, Grow

\* The same with a new queue that holds no more of the counted messages.
LEMMA OneLess ==
    ASSUME Core, Grow, NEW b \in Buds, NEW y, NEW q \in Seq(Messages), Set(b, y),
           queue' = [queue EXCEPT ![b] = q], N(q) <= N(queue[b]),
           Fine(y, N(queue[b]), events, b \in spoilt)
    PROVE  Core'
<1>1. N(queue[b]) \in Nat /\ events \in Nat /\ MaxEvents \in Nat
  BY CoreOf
<1>2. events' \in Nat /\ events <= events' /\ (b \in spoilt => b \in spoilt')
  BY <1>1 DEF Grow
<1>3. N(q) \in Nat
  BY OutsFinite
<1> DEFINE n == N(queue[b])
           m == N(q)
           e == events
           f == events'
           s == b \in spoilt
           t == b \in spoilt'
<1>4. n \in Nat /\ m \in Nat /\ e \in Nat /\ f \in Nat /\ m <= n /\ e <= f /\ (s => t)
      /\ Fine(y, n, e, s)
  BY <1>1, <1>2, <1>3
<1> HIDE DEF n, m, e, f, s, t
<1>5. m + e <= n + f
  BY <1>4
<1>6. Fine(y, m, f, t)
  BY <1>4, <1>5, FineMore
<1>7. Fine(y, N(q), events', b \in spoilt')
  BY <1>6 DEF m, f, t
<1>8. QED
  BY <1>7, OneBud

LEMMA Changed ==
    ASSUME Core, Grow, NEW b \in Buds, NEW y, Set(b, y), UNCHANGED queue,
           Fine(y, N(queue[b]), events, b \in spoilt)
    PROVE  Core'
<1>1. queue' = [queue EXCEPT ![b] = queue[b]]
  BY DEF Core
<1>2. queue[b] \in Seq(Messages) /\ N(queue[b]) \in Nat
  BY CoreOf
<1>3. N(queue[b]) <= N(queue[b])
  BY <1>2
<1>4. QED
  BY <1>1, <1>2, <1>3, OneLess

LEMMA Posted ==
    ASSUME Core, Grow, NEW b \in Buds, NEW y, Set(b, y),
           NEW m \in Messages, m # "out", Post(b, m),
           Fine(y, N(queue[b]), events, b \in spoilt)
    PROVE  Core'
<1>1. queue[b] \in Seq(Messages) /\ N(queue[b]) \in Nat
  BY CoreOf
<1> DEFINE q == Append(queue[b], m)
<1>2. q \in Seq(Messages) /\ N(q) = N(queue[b])
  BY <1>1, OutsAppend
<1>3. queue' = [queue EXCEPT ![b] = q]
  BY DEF Post
<1> HIDE DEF q
<1>4. N(q) <= N(queue[b])
  BY <1>1, <1>2
<1>5. QED
  BY <1>2, <1>3, <1>4, OneLess

LEMMA Taken ==
    ASSUME Core, Grow, NEW b \in Buds, NEW y, Set(b, y), queue[b] # <<>>,
           queue' = [queue EXCEPT ![b] = Rest(b)],
           Fine(y, N(queue[b]), events, b \in spoilt)
    PROVE  Core'
<1>1. queue[b] \in Seq(Messages) /\ N(queue[b]) \in Nat
  BY CoreOf
<1>2. /\ Tail(queue[b]) \in Seq(Messages)
      /\ N(Tail(queue[b])) + (IF Head(queue[b]) = "out" THEN 1 ELSE 0) <= N(queue[b])
  BY <1>1, OutsTail
<1>3. N(Tail(queue[b])) \in Nat
  BY <1>2, OutsFinite
<1>4. N(Tail(queue[b])) <= N(queue[b])
  BY <1>1, <1>2, <1>3
<1>5. QED
  BY <1>2, <1>4, OneLess DEF Rest

\* Messages, or nothing, for some buds.
LEMMA OnlyQueues ==
    ASSUME Core, Grow, UNCHANGED bud, queue' \in [Buds -> Seq(Messages)],
           \A b \in Buds : N(queue'[b]) <= N(queue[b])
    PROVE  Core'
<1>1. bud \in [Buds -> Bud]
  BY DEF Core
<1>2. ASSUME NEW b \in Buds PROVE Fine(bud'[b], N(queue'[b]), events', b \in spoilt')
  BY Others
<1>3. QED
  BY <1>1, <1>2 DEF Core, Grow

LEMMA StillCore == ASSUME Core, Grow, UNCHANGED <<bud, queue>> PROVE Core'
<1>1. ASSUME NEW b \in Buds PROVE N(queue'[b]) <= N(queue[b])
  <2>1. N(queue[b]) \in Nat
    BY CoreOf
  <2>2. N(queue'[b]) = N(queue[b])
    OBVIOUS
  <2>3. QED
    BY <2>1, <2>2
<1>2. queue' \in [Buds -> Seq(Messages)]
  BY DEF Core
<1>3. QED
  BY <1>1, <1>2, OnlyQueues

LEMMA OneMany ==
    ASSUME Core, Grow, NEW b \in Buds, NEW y, Set(b, y), queue' \in [Buds -> Seq(Messages)],
           \A c \in Buds : N(queue'[c]) <= N(queue[c]),
           Fine(y, N(queue[b]), events, b \in spoilt)
    PROVE  Core'
<1>1. bud \in [Buds -> Bud] /\ y \in Bud
  BY DEF Core, Fine
<1>2. bud' \in [Buds -> Bud] /\ bud'[b] = y
  BY <1>1 DEF Set
<1> DEFINE n == N(queue[b])
           m == N(queue'[b])
           e == events
           f == events'
           s == b \in spoilt
           t == b \in spoilt'
<1>3. n \in Nat /\ m \in Nat /\ e \in Nat /\ f \in Nat /\ m <= n /\ e <= f /\ (s => t)
      /\ Fine(y, n, e, s)
  <2>1. N(queue[b]) \in Nat /\ events \in Nat /\ MaxEvents \in Nat
    BY CoreOf
  <2>2. N(queue'[b]) \in Nat
    BY OutsFinite
  <2>3. QED
    BY <2>1, <2>2 DEF Grow
<1> HIDE DEF n, m, e, f, s, t
<1>4. m + e <= n + f
  BY <1>3
<1>5. Fine(y, m, f, t)
  BY <1>3, <1>4, FineMore
<1>6. Fine(y, N(queue'[b]), events', b \in spoilt')
  BY <1>5 DEF m, f, t
<1>7. ASSUME NEW c \in Buds PROVE Fine(bud'[c], N(queue'[c]), events', c \in spoilt')
  <2>1. CASE c = b
    BY <1>2, <1>6, <2>1
  <2>2. CASE c # b
    <3>1. bud'[c] = bud[c]
      BY <1>1, <2>2 DEF Set
    <3>2. QED
      BY <3>1, Others
  <2>3. QED
    BY <2>1, <2>2
<1>8. QED
  BY <1>2, <1>7 DEF Core, Grow

LEMMA PostedAll ==
    ASSUME Core, NEW S, NEW m \in Messages, m # "out", PostAll(S, m)
    PROVE  /\ queue' \in [Buds -> Seq(Messages)]
           /\ \A c \in Buds : N(queue'[c]) <= N(queue[c])
<1>1. ASSUME NEW c \in Buds
      PROVE  queue'[c] \in Seq(Messages) /\ N(queue'[c]) <= N(queue[c])
  <2>1. queue[c] \in Seq(Messages) /\ N(queue[c]) \in Nat
    BY CoreOf
  <2>2. Append(queue[c], m) \in Seq(Messages) /\ N(Append(queue[c], m)) = N(queue[c])
    BY <2>1, OutsAppend
  <2>3. CASE c \in S
    <3>1. queue'[c] = Append(queue[c], m)
      BY <2>3 DEF PostAll
    <3>2. N(queue'[c]) = N(queue[c])
      BY <2>2, <3>1
    <3>3. QED
      BY <2>1, <2>2, <3>1, <3>2
  <2>4. CASE c \notin S
    <3>1. queue'[c] = queue[c]
      BY <2>4 DEF PostAll
    <3>2. N(queue'[c]) = N(queue[c])
      BY <3>1
    <3>3. QED
      BY <2>1, <3>1, <3>2
  <2>5. QED
    BY <2>3, <2>4
<1>2. QED
  BY <1>1 DEF PostAll

(***************************************************************************)
(* The links and the sets of buds.                                         *)
(***************************************************************************)

LEMMA UnlinkSets ==
    ASSUME Sets, NEW S, Unlink(S)
    PROVE  /\ link' \in BOOLEAN /\ leave' = {}
           /\ phone' \subseteq Buds /\ talk' \subseteq Buds /\ told' \subseteq Buds
           /\ sync' \subseteq Buds
<1>1. link' = FALSE /\ leave' = {} /\ phone' \subseteq phone /\ talk' \subseteq talk
      /\ told' \subseteq told
  BY DEF Unlink
<1>2. sync' \subseteq sync
  BY DEF Unlink
<1>3. QED
  BY <1>1, <1>2 DEF Sets

LEMMA SetsKept == ASSUME Sets, [Next]_vars PROVE Sets'
<1> USE DEF Sets, world, program, TellDrop, TellLeave
<1>1. CASE UNCHANGED vars
  BY <1>1 DEF vars
<1>2. CASE SyncCall
  BY <1>2 DEF SyncCall
<1>3. ASSUME NEW b \in Buds, Program(b) PROVE Sets'
  <2>1. CASE Key(b)
    BY <2>1 DEF Key, tws_sync_poweroff, SoftPoweroff
  <2>2. CASE AutoOff(b)
    BY <2>2 DEF AutoOff, tws_sync_poweroff, SoftPoweroff
  <2>3. CASE AutoArm(b)
    BY <2>3 DEF AutoArm
  <2>4. CASE BatteryLow(b)
    BY <2>4 DEF BatteryLow, SoftPoweroff
  <2>5. ASSUME NEW i \in Ids,
                power_off_at_same_time(b, i) \/ wait_tws_detach_handler(b, i)
                \/ wait_exit_btstack_flag(b, i)
         PROVE  Sets'
    BY <2>5 DEF power_off_at_same_time, wait_tws_detach_handler, wait_exit_btstack_flag
  <2>6. CASE tws_slave_power_off(b)
    BY <2>6 DEF tws_slave_power_off
  <2>7. CASE retry_goto_mode(b)
    BY <2>7 DEF retry_goto_mode
  <2>8. CASE wait_led_ui_stop_timeout(b)
    BY <2>8 DEF wait_led_ui_stop_timeout
  <2>9. CASE bt_no_background_exit_check(b)
    BY <2>9, UnlinkSets DEF bt_no_background_exit_check
  <2>10. CASE tws_sync_call_poweroff(b)
    BY <2>10 DEF tws_sync_call_poweroff, SoftPoweroff
  <2>11. CASE tws_tone_play_in_task(b)
    BY <2>11 DEF tws_tone_play_in_task
  <2>12. CASE HandleGoto(b)
    BY <2>12 DEF HandleGoto
  <2>13. CASE HandleSoftoff(b)
    BY <2>13 DEF HandleSoftoff
  <2>14. CASE charge_ldo5v_in_deal(b)
    BY <2>14 DEF charge_ldo5v_in_deal, SoftPoweroff
  <2>15. CASE charge_ldo5v_off_deal(b)
    BY <2>15 DEF charge_ldo5v_off_deal
  <2>16. CASE ldo5v_keep_deal(b)
    BY <2>16 DEF ldo5v_keep_deal, SoftPoweroff
  <2>17. CASE poweroff_btstack_event_handler(b)
    BY <2>17 DEF poweroff_btstack_event_handler
  <2>18. ASSUME NEW t \in {"local", "shared"}, ToneStops(b, t) PROVE Sets'
    BY <2>18 DEF ToneStops
  <2>19. QED
    BY <1>3, <2>1, <2>2, <2>3, <2>4, <2>5, <2>6, <2>7, <2>8, <2>9, <2>10, <2>11,
       <2>12, <2>13, <2>14, <2>15, <2>16, <2>17, <2>18 DEF Program, Handle
<1>4. CASE LinkUp
  BY <1>4 DEF LinkUp, Both
<1>5. CASE LinkDown
  BY <1>5, UnlinkSets DEF LinkDown
<1>6. CASE RoleSwitch
  BY <1>6 DEF RoleSwitch
<1>7. ASSUME NEW b \in Buds,
             PhoneUp(b) \/ PhoneDown(b) \/ CallStarts(b) \/ CallEnds(b)
             \/ PlayerStarts(b) \/ PlayerStops(b) \/ PlugIn(b) \/ PlugOut(b) \/ PlugKeeps(b)
      PROVE  Sets'
  <2>1. CASE PhoneUp(b)
    BY <2>1 DEF PhoneUp, Sharers
  <2>2. CASE PhoneDown(b)
    BY <2>2 DEF PhoneDown, Sharers
  <2>3. CASE CallStarts(b)
    BY <2>3 DEF CallStarts, Sharers
  <2>4. CASE CallEnds(b)
    BY <2>4 DEF CallEnds, Sharers
  <2>5. CASE PlayerStarts(b)
    BY <2>5 DEF PlayerStarts
  <2>6. CASE PlayerStops(b)
    BY <2>6 DEF PlayerStops
  <2>7. CASE PlugIn(b)
    BY <2>7 DEF PlugIn
  <2>8. CASE PlugOut(b)
    BY <2>8 DEF PlugOut
  <2>9. CASE PlugKeeps(b)
    BY <2>9 DEF PlugKeeps
  <2>10. QED
    BY <1>7, <2>1, <2>2, <2>3, <2>4, <2>5, <2>6, <2>7, <2>8, <2>9
<1>8. QED
  BY <1>1, <1>2, <1>3, <1>4, <1>5, <1>6, <1>7 DEF Next, World

(***************************************************************************)
(* The buds and their queues: one step per action.                         *)
(***************************************************************************)

\* What no timer, flag or message depends on.
LEMMA FineFields ==
    ASSUME NEW x, NEW n, NEW e, NEW s, Fine(x, n, e, s)
    PROVE  /\ \A a \in {"none", "run", "stale"} : Fine([x EXCEPT !.auto = a], n, e, s)
           /\ \A v \in BOOLEAN : /\ Fine([x EXCEPT !.late = v], n, e, s)
                                 /\ Fine([x EXCEPT !.retry = v], n, e, s)
                                 /\ Fine([x EXCEPT !.exiting = v], n, e, s)
           /\ \A l \in {"busy", "wait", "idle"} : Fine([x EXCEPT !.led = l], n, e, s)
           /\ \A T \in SUBSET {"local", "shared"} : Fine([x EXCEPT !.tone = T], n, e, s)
<1>1. x \in Bud /\ (x.mode = "bt" => x.wait_exit <= 3)
  BY DEF Fine
<1>2. \A a \in {"none", "run", "stale"} : Kept(x, [x EXCEPT !.auto = a])
  BY <1>1 DEF Kept, Bud
<1>3. \A v \in BOOLEAN : Kept(x, [x EXCEPT !.late = v])
  BY <1>1 DEF Kept, Bud
<1>4. \A v \in BOOLEAN : Kept(x, [x EXCEPT !.retry = v])
  BY <1>1 DEF Kept, Bud
<1>5. \A v \in BOOLEAN : Kept(x, [x EXCEPT !.exiting = v])
  BY <1>1 DEF Kept, Bud
<1>6. \A l \in {"busy", "wait", "idle"} : Kept(x, [x EXCEPT !.led = l])
  BY <1>1 DEF Kept, Bud
<1>7. \A T \in SUBSET {"local", "shared"} : Kept(x, [x EXCEPT !.tone = T])
  BY <1>1 DEF Kept, Bud
<1>8. QED
  BY <1>2, <1>3, <1>4, <1>5, <1>6, <1>7, FineKept

LEMMA GrowSame == ASSUME Core, UNCHANGED <<events, spoilt>> PROVE Grow
<1>1. events \in Nat
  BY PowerAssumption DEF Core
<1>2. QED
  BY <1>1 DEF Core, Grow

LEMMA GrowEvent == ASSUME Core, NEW f, Event(f), spoilt \subseteq spoilt' PROVE Grow
BY PowerAssumption DEF Core, Grow, Event

LEMMA SoftCore ==
    ASSUME Core, Grow, NEW b \in Buds, NEW x, Fine(x, N(queue[b]), events, b \in spoilt),
           NEW reason \in Reasons, SoftPoweroff(b, x, reason), UNCHANGED queue
    PROVE  Core'
<1>1. N(queue[b]) \in Nat /\ events \in 0..MaxEvents
  BY CoreOf
<1>2. Fine(sys_enter_soft_poweroff(x, reason), N(queue[b]), events, b \in spoilt)
  BY <1>1, FineEnter
<1>3. Set(b, sys_enter_soft_poweroff(x, reason))
  BY DEF SoftPoweroff
<1>4. QED
  BY <1>2, <1>3, Changed

LEMMA SyncCore ==
    ASSUME Core, Grow, NEW b \in Buds, NEW x, Fine(x, N(queue[b]), events, b \in spoilt),
           tws_sync_poweroff(b, x), UNCHANGED queue
    PROVE  Core'
<1>1. CASE link
  <2>1. Set(b, x)
    BY <1>1 DEF tws_sync_poweroff
  <2>2. QED
    BY <2>1, Changed
<1>2. CASE ~link
  <2>1. SoftPoweroff(b, x, "NORMAL") /\ "NORMAL" \in Reasons
    BY <1>2 DEF tws_sync_poweroff, Reasons
  <2>2. QED
    BY <2>1, SoftCore
<1>3. QED
  BY <1>1, <1>2

\* The head is taken, and the power-off begins if it has not.
LEMMA TakenSoft ==
    ASSUME Core, Grow, NEW b \in Buds, NEW m, Take(b, m),
           NEW reason \in Reasons, SoftPoweroff(b, bud[b], reason)
    PROVE  Core'
<1>1. N(queue[b]) \in Nat /\ events \in 0..MaxEvents
      /\ Fine(bud[b], N(queue[b]), events, b \in spoilt)
  BY CoreOf
<1>2. Fine(sys_enter_soft_poweroff(bud[b], reason), N(queue[b]), events, b \in spoilt)
  BY <1>1, FineEnter
<1>3. Set(b, sys_enter_soft_poweroff(bud[b], reason))
  BY DEF SoftPoweroff
<1>4. queue[b] # <<>> /\ queue' = [queue EXCEPT ![b] = Rest(b)]
  BY DEF Take, Next1
<1>5. QED
  BY <1>2, <1>3, <1>4, Taken

\* The bud is off, or starts again.
LEMMA BlankOf ==
    ASSUME Core, NEW b \in Buds, NEW m \in {"bt", "idle", "off", "reset"}
    PROVE  Fine(Blank(m), N(queue[b]), events, b \in spoilt)
<1>1. N(queue[b]) \in Nat /\ events \in Nat
      /\ Fine(bud[b], N(queue[b]), events, b \in spoilt)
  BY CoreOf
<1>2. N(queue[b]) <= events
  BY <1>1, PaidFor
<1>3. QED
  BY <1>1, <1>2, FineBlank

LEMMA KeepModeOf ==
    ASSUME Core, NEW b \in Buds, app_charge_power_off_keep_mode(b)
    PROVE  \E y : Set(b, y) /\ Fine(y, N(queue[b]), events, b \in spoilt)
BY BlankOf DEF app_charge_power_off_keep_mode

LEMMA PollOf ==
    ASSUME Core, NEW b \in Buds, NEW i \in Ids, NEW cb, bud[b].polls[i].cb = cb, cb # "none"
    PROVE  /\ i \in Active(bud[b]) /\ bud[b].polls[i].why \in Reasons
           /\ Fine(Tick(bud[b]), N(queue[b]), events, b \in spoilt)
           /\ Fine(DelPoll(bud[b]), N(queue[b]), events, b \in spoilt)
<1>1. N(queue[b]) \in Nat /\ events \in Nat /\ bud[b] \in Bud
      /\ Fine(bud[b], N(queue[b]), events, b \in spoilt)
  BY CoreOf
<1>2. bud[b].polls[i] \in Polls
  BY <1>1 DEF Bud
<1>3. bud[b].polls[i].why \in Reasons
  BY <1>2 DEF Polls
<1>4. NoPoll.cb = "none"
  BY DEF NoPoll
<1>5. i \in Active(bud[b])
  BY <1>4 DEF Active
<1>6. QED
  BY <1>1, <1>3, <1>5, FineTick, FineDeleted

LEMMA SameCore ==
    ASSUME Core, NEW b \in Buds, NEW i \in Ids, power_off_at_same_time(b, i)
    PROVE  Core'
<1> DEFINE x == bud[b]
<1>1. x.polls[i].cb = "same"
  BY DEF power_off_at_same_time
<1>2. /\ Fine(x, N(queue[b]), events, b \in spoilt)
      /\ Fine(Tick(x), N(queue[b]), events, b \in spoilt)
      /\ Fine(DelPoll(x), N(queue[b]), events, b \in spoilt)
  BY <1>1, PollOf, CoreOf
<1>3. CASE UNCHANGED <<events, spoilt>> /\ Set(b, Tick(x)) /\ UNCHANGED queue
  BY <1>2, <1>3, GrowSame, Changed
<1>4. CASE UNCHANGED <<events, spoilt, queue, bud>>
  <2>1. Set(b, x)
    BY <1>4 DEF Set, Core
  <2>2. QED
    BY <1>2, <1>4, <2>1, GrowSame, Changed
<1>5. CASE UNCHANGED <<events, spoilt>> /\ Set(b, DelPoll(x)) /\ Post(b, "play")
  <2>1. "play" \in Messages /\ "play" # "out"
    BY DEF Messages, Goto
  <2>2. QED
    BY <1>2, <1>5, <2>1, GrowSame, Posted
<1>6. CASE UNCHANGED <<events, spoilt, queue>> /\ Set(b, DelPoll(SlaveWaits(x)))
  <2>1. Fine(SlaveWaits(x), N(queue[b]), events, b \in spoilt)
    BY <1>2, FineFields DEF SlaveWaits
  <2>2. Fine(DelPoll(SlaveWaits(x)), N(queue[b]), events, b \in spoilt)
    BY <2>1, CoreOf, FineDeleted
  <2>3. QED
    BY <1>6, <2>2, GrowSame, Changed
<1>7. ASSUME NEW S \in SUBSET Buds, PostAll(S, "tone"), UNCHANGED <<events, spoilt>>,
             Set(b, DelPoll(x))
      PROVE  Core'
  <2>1. "tone" \in Messages /\ "tone" # "out"
    BY DEF Messages, Goto
  <2>2. QED
    BY <1>2, <1>7, <2>1, GrowSame, PostedAll, OneMany
<1>8. CASE Event("tone") /\ spoilt' = spoilt \cup {b} /\ UNCHANGED queue /\ Set(b, DelPoll(x))
  BY <1>2, <1>8, GrowEvent, Changed
<1>9. QED
  BY <1>3, <1>4, <1>5, <1>6, <1>7, <1>8 DEF power_off_at_same_time

LEMMA DetachCore ==
    ASSUME Core, NEW b \in Buds, NEW i \in Ids, wait_tws_detach_handler(b, i)
    PROVE  Core'
<1> DEFINE x == bud[b]
           z == AddPoll([DelPoll(x) EXCEPT !.cnt = 0], "exit", x.polls[i].why)
<1>1. x.polls[i].cb = "detach" /\ UNCHANGED queue /\ Grow
  BY GrowSame DEF wait_tws_detach_handler, world
<1>2. Fine(x, N(queue[b]), events, b \in spoilt) /\ N(queue[b]) \in Nat
      /\ events \in 0..MaxEvents
  BY CoreOf
<1>3. /\ Fine(Tick(x), N(queue[b]), events, b \in spoilt)
      /\ Active(x) # {} /\ x.polls[i].why \in Reasons
  BY <1>1, PollOf
<1>4. Fine(z, N(queue[b]), events, b \in spoilt)
  BY <1>2, <1>3, FineDetach
<1>5. Set(b, Tick(x)) \/ Set(b, z)
  BY DEF wait_tws_detach_handler
<1> HIDE DEF x, z
<1>6. QED
  BY <1>1, <1>3, <1>4, <1>5, Changed

LEMMA ExitCore ==
    ASSUME Core, NEW b \in Buds, NEW i \in Ids, wait_exit_btstack_flag(b, i)
    PROVE  Core'
<1> DEFINE x == bud[b]
<1>1. x.polls[i].cb = "exit" /\ Grow
  BY GrowSame DEF wait_exit_btstack_flag, world
<1>2. /\ Fine(Tick(x), N(queue[b]), events, b \in spoilt)
      /\ Fine(DelPoll(x), N(queue[b]), events, b \in spoilt)
  BY <1>1, PollOf
<1>3. \/ Set(b, Tick(x)) /\ UNCHANGED queue
      \/ Set(b, DelPoll(x)) /\ Post(b, "play")
      \/ Set(b, Blank("reset")) /\ UNCHANGED queue
      \/ app_charge_power_off_keep_mode(b) /\ UNCHANGED queue
  BY DEF wait_exit_btstack_flag
<1>4. "play" \in Messages /\ "play" # "out"
  BY DEF Messages, Goto
<1>5. Fine(Blank("reset"), N(queue[b]), events, b \in spoilt)
  BY BlankOf
<1> HIDE DEF x
<1>6. CASE Set(b, Tick(x)) /\ UNCHANGED queue
  BY <1>1, <1>2, <1>6, Changed
<1>7. CASE Set(b, DelPoll(x)) /\ Post(b, "play")
  BY <1>1, <1>2, <1>4, <1>7, Posted
<1>8. CASE Set(b, Blank("reset")) /\ UNCHANGED queue
  BY <1>1, <1>5, <1>8, Changed
<1>9. CASE app_charge_power_off_keep_mode(b) /\ UNCHANGED queue
  BY <1>1, <1>9, KeepModeOf, Changed
<1>10. QED
  BY <1>3, <1>6, <1>7, <1>8, <1>9

\* Timers and tones that run out and post a message.
LEMMA TimersCore ==
    ASSUME Core, NEW b \in Buds,
           \/ tws_slave_power_off(b) \/ retry_goto_mode(b) \/ wait_led_ui_stop_timeout(b)
           \/ \E t \in {"local", "shared"} : ToneStops(b, t)
    PROVE  Core'
<1> DEFINE x == bud[b]
<1>1. /\ Fine(x, N(queue[b]), events, b \in spoilt) /\ x \in Bud
  BY CoreOf
<1>2. x.saved \in Goto /\ x.tone \in SUBSET {"local", "shared"}
  BY <1>1 DEF Bud
<1>3. Goto \subseteq Messages /\ "softoff" \in Messages /\ "out" \notin Goto
      /\ "play" \in Goto /\ "off" \in Goto
  BY DEF Messages, Goto
<1>4. CASE tws_slave_power_off(b)
  <2>1. Grow /\ Set(b, [x EXCEPT !.late = FALSE]) /\ Post(b, "play")
    BY <1>4, GrowSame DEF tws_slave_power_off, world
  <2>2. Fine([x EXCEPT !.late = FALSE], N(queue[b]), events, b \in spoilt)
    BY <1>1, FineFields
  <2> DEFINE y == [x EXCEPT !.late = FALSE]
  <2> HIDE DEF y
  <2>3. QED
    BY <2>1, <2>2, <1>3, Posted
<1>5. CASE retry_goto_mode(b)
  <2>1. Grow /\ Set(b, [x EXCEPT !.retry = FALSE]) /\ Post(b, x.saved)
    BY <1>5, GrowSame DEF retry_goto_mode, world
  <2>2. Fine([x EXCEPT !.retry = FALSE], N(queue[b]), events, b \in spoilt)
    BY <1>1, FineFields
  <2>3. QED
    BY <2>1, <2>2, <1>2, <1>3, Posted
<1>6. CASE wait_led_ui_stop_timeout(b)
  <2>1. Grow /\ Set(b, [x EXCEPT !.led = "idle"]) /\ Post(b, "softoff")
    BY <1>6, GrowSame DEF wait_led_ui_stop_timeout, world
  <2>2. Fine([x EXCEPT !.led = "idle"], N(queue[b]), events, b \in spoilt)
    BY <1>1, FineFields
  <2>3. QED
    BY <2>1, <2>2, <1>3, Posted
<1>7. ASSUME NEW t \in {"local", "shared"}, ToneStops(b, t)
      PROVE  Core'
  <2> DEFINE m == IF t = "local" THEN "softoff" ELSE "off"
             T == x.tone \ {t}
  <2>1. Grow /\ Set(b, [x EXCEPT !.tone = T]) /\ Post(b, m)
    BY <1>7, GrowSame DEF ToneStops, world
  <2>2. T \in SUBSET {"local", "shared"} /\ m \in Messages /\ m # "out"
    BY <1>2, <1>3
  <2>3. Fine([x EXCEPT !.tone = T], N(queue[b]), events, b \in spoilt)
    BY <1>1, <2>2, FineFields
  <2> HIDE DEF T, m
  <2>4. QED
    BY <2>1, <2>2, <2>3, Posted
<1>8. QED
  BY <1>4, <1>5, <1>6, <1>7

LEMMA GotoCore ==
    ASSUME Core, NEW b \in Buds, HandleGoto(b)
    PROVE  Core'
<1> DEFINE x == bud[b]
           m == Head(queue[b])
           q == Rest(b)
           busy == x.mode = "bt" /\ b \in talk
<1>1. queue[b] # <<>> /\ m \in Goto /\ x.mode \in {"bt", "idle"}
  BY DEF HandleGoto, Next1, Alive
<1>2. PICK r \in app_mode_switch_handler(x, q, m, busy) :
          Set(b, r.x) /\ queue' = [queue EXCEPT ![b] = r.q]
  BY DEF HandleGoto
<1>3. events' = events /\ spoilt \subseteq spoilt'
  BY DEF HandleGoto, world
<1>4. events \in Nat /\ N(queue[b]) \in Nat /\ queue[b] \in Seq(Messages)
      /\ Fine(x, N(queue[b]), events, b \in spoilt) /\ events \in 0..MaxEvents
  BY CoreOf
<1>5. Grow
  BY <1>3, <1>4 DEF Grow
<1>6. /\ q \in Seq(Messages) /\ N(q) \in Nat
      /\ N(q) + (IF m = "out" THEN 1 ELSE 0) <= N(queue[b])
  BY <1>1, <1>4, OutsTail, OutsFinite DEF Rest
<1> HIDE DEF m, q, busy
<1>7. N(q) <= N(queue[b])
  BY <1>4, <1>6
<1> DEFINE n == N(queue[b])
           k == N(q)
           e == events
           s == b \in spoilt
<1>8. n \in Nat /\ k \in Nat /\ e \in Nat /\ k <= n /\ e <= e /\ (s => s) /\ Fine(x, n, e, s)
  BY <1>4, <1>6, <1>7
<1> HIDE DEF n, k, e, s
<1>9. k + e <= n + e
  BY <1>8
<1>10. Fine(x, k, e, s)
  BY <1>8, <1>9, FineMore
<1>11. /\ Fine(r.x, k, e, s)
       /\ r.q \in Seq(Messages) /\ N(r.q) <= k
  BY <1>1, <1>2, <1>6, <1>8, <1>10, FineGoto DEF k
<1>12. N(r.q) \in Nat
  BY <1>11, OutsFinite
<1> DEFINE j == N(r.q)
           f == events'
           t == b \in spoilt'
<1>13. j \in Nat /\ f = e /\ j <= k /\ (s => t)
  BY <1>3, <1>11, <1>12 DEF e, s
<1> HIDE DEF j, f, t
<1>14. j + e <= k + f /\ e <= f /\ f \in Nat
  BY <1>8, <1>13
<1>15. Fine(r.x, j, f, t)
  BY <1>8, <1>11, <1>13, <1>14, FineMore
<1>16. Fine(r.x, N(r.q), events', b \in spoilt')
  BY <1>15 DEF j, f, t
<1>17. QED
  BY <1>2, <1>5, <1>11, <1>16, OneBud

LEMMA OutCore ==
    ASSUME Core, NEW b \in Buds, charge_ldo5v_off_deal(b)
    PROVE  Core'
<1> DEFINE x == bud[b]
           q == Rest(b)
           y == [x EXCEPT !.flag = FALSE]
           p == IF x.mode = "idle" THEN Append(q, "bt") ELSE q
<1>1. queue[b] # <<>> /\ Head(queue[b]) = "out"
  BY DEF charge_ldo5v_off_deal, Next1
<1>2. events' = events /\ spoilt \subseteq spoilt'
  BY DEF charge_ldo5v_off_deal, world
<1>3. events \in Nat /\ N(queue[b]) \in Nat /\ queue[b] \in Seq(Messages)
      /\ Fine(x, N(queue[b]), events, b \in spoilt) /\ events \in 0..MaxEvents
  BY CoreOf
<1>4. Grow
  BY <1>2, <1>3 DEF Grow
<1>5. /\ q \in Seq(Messages) /\ N(q) \in Nat
      /\ N(q) + (IF Head(queue[b]) = "out" THEN 1 ELSE 0) <= N(queue[b])
  BY <1>1, <1>3, OutsTail, OutsFinite DEF Rest
<1>6. N(q) + 1 <= N(queue[b])
  BY <1>1, <1>5
<1>7. CASE /\ Set(b, y)
           /\ queue' = [queue EXCEPT ![b] = p]
           /\ spoilt' = IF x.flag /\ Unfinished(b) THEN spoilt \cup {b} ELSE spoilt
  <2>1. "bt" \in Messages /\ "bt" # "out"
    BY DEF Messages, Goto
  <2>2. Append(q, "bt") \in Seq(Messages) /\ N(Append(q, "bt")) = N(q)
    BY <1>5, <2>1, OutsAppend
  <2>3. p \in Seq(Messages) /\ N(p) = N(q)
    BY <1>5, <2>2
  <2>4. x.flag /\ Active(x) # {} => b \in spoilt'
    <3>1. Active(x) # {} => Unfinished(b)
      BY DEF Active, Unfinished
    <3>2. QED
      BY <1>7, <3>1
  <2> HIDE DEF x, q, p
  <2> DEFINE n == N(queue[b])
             m == N(q)
             e == events
             s == b \in spoilt
             t == b \in spoilt'
  <2>5. /\ n \in Nat /\ m \in Nat /\ e \in Nat /\ m + 1 <= n /\ (s => t)
        /\ Fine(x, n, e, s) /\ (x.flag /\ Active(x) # {} => t)
    BY <1>2, <1>3, <1>5, <1>6, <2>4
  <2> HIDE DEF n, m, e, s, t
  <2>6. Fine(y, m, e, t)
    BY <2>5, FineOut
  <2>7. Fine(y, N(p), events', b \in spoilt')
    BY <1>2, <2>3, <2>6 DEF m, e, t
  <2> HIDE DEF y
  <2>8. QED
    BY <1>4, <1>7, <2>3, <2>7, OneBud
<1>8. CASE Set(b, Blank("off")) /\ queue' = [queue EXCEPT ![b] = q]
  BY <1>1, <1>4, <1>8, BlankOf, Taken
<1>9. QED
  BY <1>7, <1>8 DEF charge_ldo5v_off_deal

\* The other messages at the head of the queue.
LEMMA HandleCore ==
    ASSUME Core, NEW b \in Buds, Handle(b)
    PROVE  Core'
<1> DEFINE x == bud[b]
<1>1. /\ Fine(x, N(queue[b]), events, b \in spoilt) /\ x \in Bud
  BY CoreOf
<1>2. /\ "NORMAL_TWS" \in Reasons /\ "RESET" \in Reasons /\ "POWER_KEEP" \in Reasons
  BY DEF Reasons
<1>3. bud = [bud EXCEPT ![b] = x]
  BY DEF Core
<1>4. ASSUME NEW m, Take(b, m)
      PROVE  queue[b] # <<>> /\ queue' = [queue EXCEPT ![b] = Rest(b)]
  BY <1>4 DEF Take, Next1
<1>5. CASE tws_sync_call_poweroff(b)
  BY <1>2, <1>5, GrowSame, TakenSoft DEF tws_sync_call_poweroff, world
<1>6. CASE tws_tone_play_in_task(b)
  <2> DEFINE T == x.tone \cup {"shared"}
  <2>1. Grow /\ Take(b, "tone") /\ Set(b, [x EXCEPT !.tone = T])
    BY <1>6, GrowSame DEF tws_tone_play_in_task, world
  <2>2. T \in SUBSET {"local", "shared"}
    BY <1>1 DEF Bud
  <2>3. Fine([x EXCEPT !.tone = T], N(queue[b]), events, b \in spoilt)
    BY <1>1, <2>2, FineFields
  <2> HIDE DEF T
  <2>4. QED
    BY <1>4, <2>1, <2>3, Taken
<1>7. CASE HandleGoto(b)
  BY <1>7, GotoCore
<1>8. CASE HandleSoftoff(b)
  <2>1. Grow /\ Take(b, "softoff")
    BY <1>8, GrowSame DEF HandleSoftoff, world
  <2>2. \/ UNCHANGED bud
        \/ Set(b, Blank("reset")) \/ Set(b, Blank("off"))
        \/ Set(b, [x EXCEPT !.led = "wait"])
    BY <1>8 DEF HandleSoftoff
  <2>3. /\ Fine(Blank("reset"), N(queue[b]), events, b \in spoilt)
        /\ Fine(Blank("off"), N(queue[b]), events, b \in spoilt)
    BY BlankOf
  <2>4. Fine([x EXCEPT !.led = "wait"], N(queue[b]), events, b \in spoilt)
    BY <1>1, FineFields
  <2>5. CASE UNCHANGED bud
    <3>1. Set(b, x)
      BY <1>3, <2>5 DEF Set
    <3>2. QED
      BY <1>1, <1>4, <2>1, <3>1, Taken
  <2>6. CASE Set(b, Blank("reset")) \/ Set(b, Blank("off"))
    BY <1>4, <2>1, <2>3, <2>6, Taken
  <2>7. CASE Set(b, [x EXCEPT !.led = "wait"])
    BY <1>4, <2>1, <2>4, <2>7, Taken
  <2>8. QED
    BY <2>2, <2>5, <2>6, <2>7
<1>9. CASE charge_ldo5v_in_deal(b)
  <2>1. Grow /\ Take(b, "in")
    BY <1>9, GrowSame DEF charge_ldo5v_in_deal, world
  <2>2. SoftPoweroff(b, x, "RESET") \/ Set(b, Blank("reset")) \/ UNCHANGED bud
    BY <1>9 DEF charge_ldo5v_in_deal, Set
  <2>3. Fine(Blank("reset"), N(queue[b]), events, b \in spoilt)
    BY BlankOf
  <2>4. CASE SoftPoweroff(b, x, "RESET")
    BY <1>2, <2>1, <2>4, TakenSoft
  <2>5. CASE Set(b, Blank("reset"))
    BY <1>4, <2>1, <2>3, <2>5, Taken
  <2>6. CASE UNCHANGED bud
    <3>1. Set(b, x)
      BY <1>3, <2>6 DEF Set
    <3>2. QED
      BY <1>1, <1>4, <2>1, <3>1, Taken
  <2>7. QED
    BY <2>2, <2>4, <2>5, <2>6
<1>10. CASE charge_ldo5v_off_deal(b)
  BY <1>10, OutCore
<1>11. CASE ldo5v_keep_deal(b)
  <2>1. Grow /\ Take(b, "keep")
    BY <1>11, GrowSame DEF ldo5v_keep_deal, world
  <2>2. SoftPoweroff(b, x, "POWER_KEEP") \/ app_charge_power_off_keep_mode(b)
    BY <1>11 DEF ldo5v_keep_deal
  <2>3. CASE SoftPoweroff(b, x, "POWER_KEEP")
    BY <1>2, <2>1, <2>3, TakenSoft
  <2>4. CASE app_charge_power_off_keep_mode(b)
    BY <1>4, <2>1, <2>4, KeepModeOf, Taken
  <2>5. QED
    BY <2>2, <2>3, <2>4
<1>12. CASE poweroff_btstack_event_handler(b)
  <2>1. Grow /\ Take(b, "phone") /\ Set(b, [x EXCEPT !.auto = "none"])
    BY <1>12, GrowSame DEF poweroff_btstack_event_handler, world
  <2>2. Fine([x EXCEPT !.auto = "none"], N(queue[b]), events, b \in spoilt)
    BY <1>1, FineFields
  <2>3. QED
    BY <1>4, <2>1, <2>2, Taken
<1>13. QED
  BY <1>5, <1>6, <1>7, <1>8, <1>9, <1>10, <1>11, <1>12 DEF Handle

LEMMA ProgramCore ==
    ASSUME Core, NEW b \in Buds, Program(b)
    PROVE  Core'
<1> DEFINE x == bud[b]
<1>1. Fine(x, N(queue[b]), events, b \in spoilt) /\ x \in Bud
  BY CoreOf
<1>2. CASE Key(b)
  <2>1. Grow
    BY <1>2, GrowEvent DEF Key
  <2>2. QED
    BY <1>1, <1>2, <2>1, SyncCore DEF Key
<1>3. CASE AutoOff(b)
  <2>1. Fine([x EXCEPT !.auto = "stale"], N(queue[b]), events, b \in spoilt)
    BY <1>1, FineFields
  <2>2. Grow
    BY <1>3, GrowSame DEF AutoOff, world
  <2>3. QED
    BY <1>3, <2>1, <2>2, SyncCore DEF AutoOff
<1>4. CASE AutoArm(b)
  <2>1. Fine([x EXCEPT !.auto = "run"], N(queue[b]), events, b \in spoilt)
    BY <1>1, FineFields
  <2>2. Grow
    BY <1>4, GrowSame DEF AutoArm, world
  <2>3. QED
    BY <1>4, <2>1, <2>2, Changed DEF AutoArm
<1>5. CASE BatteryLow(b)
  <2>1. Grow /\ UNCHANGED queue
    BY <1>5, GrowSame DEF BatteryLow, world
  <2>2. CASE SoftPoweroff(b, x, "NORMAL")
    BY <1>1, <2>1, <2>2, SoftCore DEF Reasons
  <2>3. CASE Set(b, Blank("off"))
    BY <2>1, <2>3, BlankOf, Changed
  <2>4. QED
    BY <1>5, <2>2, <2>3 DEF BatteryLow
<1>6. CASE bt_no_background_exit_check(b)
  <2>1. Fine([x EXCEPT !.exiting = FALSE], N(queue[b]), events, b \in spoilt)
    BY <1>1, FineFields
  <2>2. Grow
    BY <1>6, GrowSame DEF bt_no_background_exit_check
  <2>3. QED
    BY <1>6, <2>1, <2>2, Changed DEF bt_no_background_exit_check
<1>7. QED
  BY <1>2, <1>3, <1>4, <1>5, <1>6, SameCore, DetachCore, ExitCore, TimersCore, HandleCore
     DEF Program

\* A phone that connects, and the plugs, post a message.
LEMMA WorldCore ==
    ASSUME Core, World
    PROVE  Core'
<1> USE DEF program
<1>1. CASE LinkUp
  <2>1. Grow /\ UNCHANGED queue /\ queue \in [Buds -> Seq(Messages)]
    BY <1>1, GrowEvent DEF LinkUp, Core
  <2>2. CASE UNCHANGED bud
    BY <2>1, <2>2, StillCore
  <2>3. CASE bud' = [b \in Buds |-> [bud[b] EXCEPT !.auto = "run"]]
    <3>1. ASSUME NEW b \in Buds
          PROVE  Fine(bud'[b], N(queue[b]), events, b \in spoilt)
      <4>1. Fine([bud[b] EXCEPT !.auto = "run"], N(queue[b]), events, b \in spoilt)
        BY CoreOf, FineFields
      <4>2. QED
        BY <2>3, <4>1
    <3>2. bud' \in [Buds -> Bud]
      BY <2>3, <3>1 DEF Fine
    <3>3. ASSUME NEW b \in Buds
          PROVE  Fine(bud'[b], N(queue'[b]), events', b \in spoilt')
      <4> DEFINE n == N(queue[b])
                 e == events
                 f == events'
                 s == b \in spoilt
                 t == b \in spoilt'
                 y == bud'[b]
      <4>1. /\ n \in Nat /\ e \in Nat /\ f \in Nat /\ e <= f /\ (s => t) /\ Fine(y, n, e, s)
        BY <2>1, <3>1, CoreOf DEF Grow
      <4> HIDE DEF n, e, f, s, t, y
      <4>2. n + e <= n + f
        BY <4>1
      <4>3. Fine(y, n, f, t)
        BY <4>1, <4>2, FineMore
      <4>4. QED
        BY <2>1, <4>3 DEF n, f, t, y
    <3>4. QED
      BY <2>1, <3>2, <3>3 DEF Core, Grow
  <2>4. QED
    BY <1>1, <2>2, <2>3 DEF LinkUp
<1>2. CASE LinkDown
  <2>1. Grow
    BY <1>2, GrowSame, GrowEvent DEF LinkDown
  <2>2. QED
    BY <1>2, <2>1, StillCore DEF LinkDown
<1>3. CASE RoleSwitch
  <2>1. Grow
    BY <1>3, GrowEvent DEF RoleSwitch
  <2>2. QED
    BY <1>3, <2>1, StillCore DEF RoleSwitch
<1>4. ASSUME NEW b \in Buds, PhoneUp(b) PROVE Core'
  <2>1. Grow /\ UNCHANGED bud
    BY <1>4, GrowEvent DEF PhoneUp
  <2>2. PostAll(Sharers(b), "phone") /\ "phone" \in Messages /\ "phone" # "out"
    BY <1>4 DEF PhoneUp, PostAll, Messages, Goto
  <2>3. QED
    BY <2>1, <2>2, PostedAll, OnlyQueues
<1>5. ASSUME NEW b \in Buds,
             PhoneDown(b) \/ CallStarts(b) \/ CallEnds(b) \/ PlayerStarts(b) \/ PlayerStops(b)
      PROVE  Core'
  <2>1. UNCHANGED <<bud, queue, spoilt>>
    BY <1>5 DEF PhoneDown, CallStarts, CallEnds, PlayerStarts, PlayerStops
  <2>2. UNCHANGED events \/ \E f : Event(f)
    BY <1>5 DEF PhoneDown, CallStarts, CallEnds, PlayerStarts, PlayerStops
  <2>3. Grow
    BY <2>1, <2>2, GrowSame, GrowEvent
  <2>4. QED
    BY <2>1, <2>3, StillCore
<1>6. ASSUME NEW b \in Buds, PlugIn(b) \/ PlugKeeps(b) PROVE Core'
  <2>1. Grow /\ UNCHANGED bud
    BY <1>6, GrowEvent DEF PlugIn, PlugKeeps
  <2>2. Post(b, "in") \/ Post(b, "keep")
    BY <1>6 DEF PlugIn, PlugKeeps
  <2>3. "in" \in Messages /\ "keep" \in Messages /\ "in" # "out" /\ "keep" # "out"
    BY DEF Messages
  <2>4. Set(b, bud[b])
    BY <2>1 DEF Set, Core
  <2>5. QED
    BY <2>1, <2>2, <2>3, <2>4, CoreOf, Posted
<1>7. ASSUME NEW b \in Buds, PlugOut(b) PROVE Core'
  <2> DEFINE x == bud[b]
             n == N(queue[b])
             q == Append(queue[b], "out")
             e == events
             f == events'
             s == b \in spoilt
             t == b \in spoilt'
  <2>1. Grow /\ UNCHANGED bud /\ f = e + 1 /\ Post(b, "out")
    BY <1>7, GrowEvent DEF PlugOut, Event
  <2>2. /\ Fine(x, n, e, s) /\ n \in Nat /\ e \in Nat /\ queue[b] \in Seq(Messages)
        /\ (s => t) /\ MaxEvents \in Nat
    BY <2>1, CoreOf DEF Grow
  <2>3. q \in Seq(Messages) /\ N(q) = n + 1
    BY <2>2, OutsAppend DEF Messages
  <2>4. queue' = [queue EXCEPT ![b] = q] /\ Set(b, x)
    BY <2>1 DEF Post, Set, Core
  <2> HIDE DEF x, n, q, e, f, s, t
  <2>5. (n + 1) + e <= n + f /\ e <= f /\ f \in Nat /\ n + 1 \in Nat
    BY <2>1, <2>2
  <2>6. Fine(x, n + 1, f, t)
    BY <2>2, <2>5, FineMore
  <2>7. Fine(x, N(q), events', b \in spoilt')
    BY <2>3, <2>6 DEF f, t
  <2>8. QED
    BY <2>1, <2>3, <2>4, <2>7, OneBud
<1>8. QED
  BY <1>1, <1>2, <1>3, <1>4, <1>5, <1>6, <1>7 DEF World

(***************************************************************************)
(* Types and timers.                                                       *)
(***************************************************************************)

LEMMA InitIInv == ASSUME Init PROVE IInv
<1>1. bud \in [Buds -> {Blank("bt"), Blank("idle")}] /\ queue = [b \in Buds |-> <<>>]
      /\ events = 0 /\ spoilt = {}
  BY DEF Init
<1>2. 0 \in 0..MaxEvents
  BY PowerAssumption
<1>3. Blank("bt") \in Bud /\ Blank("idle") \in Bud
  BY BlankType
<1>4. bud \in [Buds -> Bud] /\ queue \in [Buds -> Seq(Messages)]
  BY <1>1, <1>3
<1>5. ASSUME NEW b \in Buds PROVE Fine(bud[b], N(queue[b]), events, b \in spoilt)
  <2>1. N(queue[b]) = 0 /\ bud[b] \in {Blank("bt"), Blank("idle")} /\ events = 0
    BY <1>1, OutsEmpty
  <2> DEFINE n == N(queue[b])
             s == b \in spoilt
  <2>2. n \in Nat /\ events \in Nat /\ n <= events
    BY <2>1
  <2> HIDE DEF n, s
  <2>3. Fine(Blank("bt"), n, events, s) /\ Fine(Blank("idle"), n, events, s)
    BY <2>2, FineBlank
  <2>4. QED
    BY <2>1, <2>3 DEF n, s
<1>6. Core
  BY <1>1, <1>2, <1>4, <1>5 DEF Core
<1>7. phone \subseteq Buds /\ player \subseteq Buds /\ charger \subseteq Buds
      /\ link \in BOOLEAN /\ master \in Buds
  <2>1. phone \in SUBSET (Buds \ charger) /\ link \in BOOLEAN /\ master \in Buds
        /\ charger \subseteq Buds
    BY DEF Init
  <2>2. player \subseteq phone
    BY DEF Init
  <2>3. QED
    BY <2>1, <2>2
<1>8. talk = {} /\ sync = {} /\ told = {} /\ leave = {} /\ spoilt = {}
  BY DEF Init
<1>9. Sets
  BY <1>7, <1>8 DEF Sets
<1>10. QED
  BY <1>6, <1>9 DEF IInv

LEMMA StepIInv == ASSUME IInv, [Next]_vars PROVE IInv'
<1>1. Sets'
  BY SetsKept DEF IInv
<1>2. Core
  BY DEF IInv
<1>3. CASE UNCHANGED vars
  <2>1. Grow /\ UNCHANGED <<bud, queue>>
    BY <1>2, <1>3, GrowSame DEF vars
  <2>2. QED
    BY <1>1, <1>2, <2>1, StillCore DEF IInv
<1>4. CASE World
  BY <1>1, <1>2, <1>4, WorldCore DEF IInv
<1>5. CASE SyncCall
  <2>1. Grow /\ UNCHANGED bud /\ PostAll(sync, "sync")
    BY <1>2, <1>5, GrowSame DEF SyncCall, world
  <2>2. "sync" \in Messages /\ "sync" # "out"
    BY DEF Messages
  <2>3. Core'
    BY <1>2, <2>1, <2>2, PostedAll, OnlyQueues
  <2>4. QED
    BY <1>1, <2>3 DEF IInv
<1>6. ASSUME NEW b \in Buds, Program(b) PROVE IInv'
  BY <1>1, <1>2, <1>6, ProgramCore DEF IInv
<1>7. QED
  BY <1>3, <1>4, <1>5, <1>6 DEF Next

\* The invariant above holds in every reachable state: timers that no handle names
\* are paid for by buds taken out of their chargers (charge.c:310).
THEOREM Inductive == Spec => []IInv
<1>1. Init => IInv
  BY InitIInv
<1>2. IInv /\ [Next]_vars => IInv'
  BY StepIInv
<1>3. QED
  BY <1>1, <1>2, PTL DEF Spec

\* Every variable keeps its type, for any bounds: the handles and timers stay among
\* the ids, so a power-off always gets a timer of its own (tws_poweroff.c:357).
THEOREM TypeCorrect == Spec => []TypeOK
<1>1. IInv => TypeOK
  BY DEF IInv, Core, Sets, TypeOK
<1>2. QED
  BY <1>1, Inductive, PTL

\* While its power-off is not spoilt a bud polls with one timer at most, the one that
\* g_bt_detach_timer names, and only while it is going off (tws_poweroff.c:249).
THEOREM PollsWithOne == Spec => []OnePoll
<1>1. IInv => OnePoll
  <2> SUFFICES ASSUME IInv, NEW b \in Buds \ spoilt, NEW i \in Ids,
                      bud[b].polls[i] # NoPoll
               PROVE  bud[b].handle = i /\ bud[b].flag
    BY DEF OnePoll
  <2>1. One(bud[b])
    BY DEF IInv, Core, Fine
  <2>2. i \in Active(bud[b])
    BY DEF Active
  <2>3. QED
    BY <2>1, <2>2 DEF One
<1>2. QED
  BY <1>1, Inductive, PTL

(***************************************************************************)
(* What a power-off waits for.  In(q, m): m waits in the queue q; Covered: *)
(* no tone is handled before the call that it belongs to; Behind: a change *)
(* of mode comes after every return to the Bluetooth mode.                 *)
(***************************************************************************)

In(q, m) == \E i \in DOMAIN q : q[i] = m
Covered(q) == \A i \in DOMAIN q : q[i] = "tone" => \E j \in DOMAIN q : j < i /\ q[j] = "sync"
Behind(q) == \E i \in DOMAIN q :
    (q[i] = "play" \/ q[i] = "off") /\ \A j \in DOMAIN q : q[j] = "bt" => j < i

\* p holds what q holds, and m.
More(p, q, m) ==
    /\ In(p, "play") <=> In(q, "play") \/ m = "play"
    /\ In(p, "off") <=> In(q, "off") \/ m = "off"
    /\ In(p, "bt") <=> In(q, "bt") \/ m = "bt"
    /\ In(p, "softoff") <=> In(q, "softoff") \/ m = "softoff"
    /\ In(p, "sync") <=> In(q, "sync") \/ m = "sync"
    /\ In(p, "tone") <=> In(q, "tone") \/ m = "tone"
    /\ In(p, "out") <=> In(q, "out") \/ m = "out"

LEMMA InAppend ==
    ASSUME NEW q \in Seq(Messages), NEW m \in Messages
    PROVE  LET p == Append(q, m)
           IN  /\ p \in Seq(Messages) /\ More(p, q, m)
               /\ Covered(q) /\ (m = "tone" => In(q, "sync")) => Covered(p)
               /\ Behind(q) /\ m # "bt" => Behind(p)
               /\ m = "play" \/ m = "off" => Behind(p)
<1> DEFINE p == Append(q, m)
           n == Len(q)
<1>1. /\ p \in Seq(Messages) /\ n \in Nat /\ DOMAIN q = 1..n /\ DOMAIN p = 1..(n + 1)
      /\ \A i \in 1..n : p[i] = q[i]
      /\ p[n + 1] = m
  BY AppendProperties, LenProperties
<1> HIDE DEF p, n
<1>2. \A k : In(p, k) <=> In(q, k) \/ m = k
  <2> SUFFICES ASSUME NEW k PROVE In(p, k) <=> In(q, k) \/ m = k
    OBVIOUS
  <2>1. \A i \in 1..(n + 1) : i \in 1..n \/ i = n + 1
    BY <1>1
  <2>2. ASSUME In(p, k) PROVE In(q, k) \/ m = k
    BY <1>1, <2>1, <2>2 DEF In
  <2>3. ASSUME In(q, k) PROVE In(p, k)
    <3>1. \A i \in 1..n : i \in 1..(n + 1)
      BY <1>1
    <3>2. QED
      BY <1>1, <2>3, <3>1 DEF In
  <2>4. ASSUME m = k PROVE In(p, k)
    <3>1. n + 1 \in DOMAIN p
      BY <1>1
    <3>2. QED
      BY <1>1, <2>4, <3>1 DEF In
  <2>5. QED
    BY <2>2, <2>3, <2>4
<1>3. More(p, q, m)
  BY <1>2 DEF More
<1>4. ASSUME Covered(q), m = "tone" => In(q, "sync") PROVE Covered(p)
  <2> SUFFICES ASSUME NEW i \in DOMAIN p, p[i] = "tone"
               PROVE  \E j \in DOMAIN p : j < i /\ p[j] = "sync"
    BY DEF Covered
  <2>1. CASE i \in 1..n
    <3>1. PICK j \in 1..n : j < i /\ q[j] = "sync"
      BY <1>1, <1>4, <2>1 DEF Covered
    <3>2. j \in DOMAIN p /\ p[j] = "sync"
      BY <1>1, <3>1
    <3>3. QED
      BY <3>1, <3>2
  <2>2. CASE i \notin 1..n
    <3>1. i = n + 1
      BY <1>1, <2>2
    <3>2. PICK j \in 1..n : q[j] = "sync"
      BY <1>1, <1>4, <3>1 DEF In
    <3>3. j \in DOMAIN p /\ p[j] = "sync" /\ j < i
      BY <1>1, <3>1, <3>2
    <3>4. QED
      BY <3>3
  <2>3. QED
    BY <2>1, <2>2
<1>5. ASSUME Behind(q), m # "bt" PROVE Behind(p)
  <2>1. PICK i \in 1..n : (q[i] = "play" \/ q[i] = "off") /\ \A j \in 1..n : q[j] = "bt" => j < i
    BY <1>1, <1>5 DEF Behind
  <2>2. i \in DOMAIN p /\ p[i] = q[i]
    BY <1>1, <2>1
  <2>3. ASSUME NEW j \in DOMAIN p, p[j] = "bt" PROVE j < i
    <3>1. j # n + 1
      BY <1>1, <1>5, <2>3
    <3>2. j \in 1..n
      BY <1>1, <3>1
    <3>3. QED
      BY <1>1, <2>1, <2>3, <3>2
  <2>4. QED
    BY <2>1, <2>2, <2>3 DEF Behind
<1>6. ASSUME m = "play" \/ m = "off" PROVE Behind(p)
  <2>1. n + 1 \in DOMAIN p /\ (p[n + 1] = "play" \/ p[n + 1] = "off")
    BY <1>1, <1>6
  <2>2. ASSUME NEW j \in DOMAIN p, p[j] = "bt" PROVE j < n + 1
    <3>1. j # n + 1
      BY <1>1, <1>6, <2>2
    <3>2. QED
      BY <1>1, <3>1
  <2>3. QED
    BY <2>1, <2>2 DEF Behind
<1>7. QED
  BY <1>1, <1>3, <1>4, <1>5, <1>6 DEF p

LEMMA InTail ==
    ASSUME NEW q \in Seq(Messages), q # <<>>
    PROVE  LET t == Tail(q)
           IN  /\ t \in Seq(Messages) /\ Head(q) \in Messages /\ More(q, t, Head(q))
               /\ Covered(q) => Head(q) # "tone" /\ (Head(q) = "sync" \/ Covered(t))
               /\ Behind(q) /\ In(t, "bt") => Behind(t)
               /\ Behind(q) /\ Head(q) = "bt" => In(t, "play") \/ In(t, "off")
<1> DEFINE t == Tail(q)
           h == Head(q)
           n == Len(q)
<1>1. /\ t \in Seq(Messages) /\ n \in Nat /\ n # 0 /\ DOMAIN q = 1..n /\ DOMAIN t = 1..(n - 1)
      /\ \A i \in 1..(n - 1) : t[i] = q[i + 1]
      /\ h = q[1] /\ h \in Messages
  BY HeadTailProperties, LenProperties, EmptySeq
<1> HIDE DEF t, h, n
<1>2. /\ \A i \in 1..(n - 1) : i + 1 \in 1..n /\ i + 1 # 1
      /\ \A i \in 1..n : i = 1 \/ (i - 1 \in 1..(n - 1) /\ t[i - 1] = q[i])
      /\ 1 \in 1..n
  <2>1. \A i \in 1..n : i = 1 \/ (i - 1 \in 1..(n - 1) /\ (i - 1) + 1 = i)
    BY <1>1
  <2>2. ASSUME NEW i \in 1..n, i # 1 PROVE i - 1 \in 1..(n - 1) /\ t[i - 1] = q[i]
    <3>1. i - 1 \in 1..(n - 1) /\ (i - 1) + 1 = i
      BY <2>1, <2>2
    <3>2. t[i - 1] = q[(i - 1) + 1]
      BY <1>1, <3>1
    <3>3. QED
      BY <3>1, <3>2
  <2>3. QED
    BY <1>1, <2>2
<1>3. \A k : In(q, k) <=> In(t, k) \/ h = k
  <2> SUFFICES ASSUME NEW k PROVE In(q, k) <=> In(t, k) \/ h = k
    OBVIOUS
  <2>1. ASSUME In(q, k) PROVE In(t, k) \/ h = k
    <3>1. PICK i \in 1..n : q[i] = k
      BY <1>1, <2>1 DEF In
    <3>2. QED
      BY <1>1, <1>2, <3>1 DEF In
  <2>2. ASSUME In(t, k) PROVE In(q, k)
    <3>1. PICK i \in 1..(n - 1) : t[i] = k
      BY <1>1, <2>2 DEF In
    <3>2. i + 1 \in 1..n /\ q[i + 1] = k
      BY <1>1, <1>2, <3>1
    <3>3. QED
      BY <1>1, <3>2 DEF In
  <2>3. ASSUME h = k PROVE In(q, k)
    BY <1>1, <1>2, <2>3 DEF In
  <2>4. QED
    BY <2>1, <2>2, <2>3
<1>4. More(q, t, h)
  BY <1>3 DEF More
<1>5. ASSUME Covered(q), h = "tone" PROVE FALSE
  <2>1. PICK j \in 1..n : j < 1
    BY <1>1, <1>2, <1>5 DEF Covered
  <2>2. QED
    BY <1>1, <2>1
<1>6. ASSUME Covered(q), h # "sync" PROVE Covered(t)
  <2> SUFFICES ASSUME NEW i \in 1..(n - 1), t[i] = "tone"
               PROVE  \E j \in 1..(n - 1) : j < i /\ t[j] = "sync"
    BY <1>1 DEF Covered
  <2>1. i + 1 \in 1..n /\ q[i + 1] = "tone"
    BY <1>1, <1>2
  <2>2. PICK j \in 1..n : j < i + 1 /\ q[j] = "sync"
    BY <1>1, <1>6, <2>1 DEF Covered
  <2>3. j # 1
    BY <1>1, <1>6, <2>2
  <2>4. j - 1 \in 1..(n - 1) /\ t[j - 1] = "sync"
    BY <1>2, <2>2, <2>3
  <2>5. j - 1 < i
    BY <1>1, <2>2
  <2>6. QED
    BY <2>4, <2>5
<1>7. ASSUME Behind(q) PROVE /\ In(t, "bt") => Behind(t)
                             /\ h = "bt" => In(t, "play") \/ In(t, "off")
  <2>1. PICK i \in 1..n : (q[i] = "play" \/ q[i] = "off") /\ \A j \in 1..n : q[j] = "bt" => j < i
    BY <1>1, <1>7 DEF Behind
  <2>2. ASSUME In(t, "bt") PROVE Behind(t)
    <3>1. PICK k \in 1..(n - 1) : t[k] = "bt"
      BY <1>1, <2>2 DEF In
    <3>2. k + 1 \in 1..n /\ q[k + 1] = "bt"
      BY <1>1, <1>2, <3>1
    <3>3. k + 1 < i
      BY <2>1, <3>2
    <3>4. i # 1
      BY <1>1, <3>1, <3>3
    <3>5. i - 1 \in 1..(n - 1) /\ t[i - 1] = q[i]
      BY <1>2, <2>1, <3>4
    <3>6. ASSUME NEW j \in 1..(n - 1), t[j] = "bt" PROVE j < i - 1
      <4>1. j + 1 \in 1..n /\ q[j + 1] = "bt"
        BY <1>1, <1>2, <3>6
      <4>2. j + 1 < i
        BY <2>1, <4>1
      <4>3. QED
        BY <1>1, <2>1, <4>2
    <3>7. QED
      BY <1>1, <2>1, <3>5, <3>6 DEF Behind
  <2>3. ASSUME h = "bt" PROVE In(t, "play") \/ In(t, "off")
    <3>1. i # 1
      BY <1>1, <2>1, <2>3
    <3>2. i - 1 \in DOMAIN t /\ t[i - 1] = q[i]
      BY <1>1, <1>2, <2>1, <3>1
    <3>3. QED
      BY <2>1, <3>2 DEF In
  <2>4. QED
    BY <2>2, <2>3
<1>8. QED
  BY <1>1, <1>4, <1>5, <1>6, <1>7 DEF t, h

\* The queues that the idle mode leaves.
LEMMA InShort ==
    /\ <<>> \in Seq(Messages) /\ Covered(<<>>)
    /\ \A m : ~In(<<>>, m)
    /\ <<"softoff">> \in Seq(Messages) /\ Covered(<<"softoff">>)
    /\ \A m : In(<<"softoff">>, m) <=> m = "softoff"
BY DEF In, Covered, Messages

(***************************************************************************)
(* What a bud owes: x is its state, q its queue; lk says that the link is  *)
(* up, called that the call of tws_sync_poweroff is still to be made at    *)
(* it, plugged that it sits in a charger, lost that its power-off is       *)
(* spoilt.                                                                 *)
(***************************************************************************)

Up(x) == x.mode = "bt" \/ x.mode = "idle"
Same(x) == \E i \in Ids : x.polls[i].cb = "same"

\* Steps that bring the change of mode.
Doing(x) == Active(x) # {} \/ x.late \/ x.retry \/ "shared" \in x.tone

Quiet(x, q) == ~Doing(x) /\ ~In(q, "play") /\ ~In(q, "off") /\ Covered(q)

Parked(q, called, plugged) ==
    In(q, "bt") \/ (~called /\ ~In(q, "sync") /\ (plugged \/ In(q, "out")))

\* In the idle mode: what ends the power-off, or brings the Bluetooth mode back.
Ends(x, q) == ~In(q, "bt") /\ ("local" \in x.tone \/ x.led = "wait" \/ In(q, "softoff"))
Returns(x, q) == In(q, "bt") /\ (Doing(x) \/ In(q, "tone") \/ Behind(q))

Owed(x, q, called, plugged) ==
    /\ ~x.flag => Quiet(x, q)
    /\ ~x.flag /\ x.mode = "idle" => Parked(q, called, plugged)
    /\ x.flag /\ x.mode = "bt" => Doing(x) \/ In(q, "play") \/ In(q, "off") \/ In(q, "tone")
    /\ x.flag /\ x.mode = "idle" => Ends(x, q) \/ Returns(x, q)

\* Leaving the Bluetooth mode ends the link and the automatic power-off.
Calm(x, lk) ==
    /\ x.saved # "bt"
    /\ x.mode = "idle" \/ (x.mode = "bt" /\ x.wait_exit # 0) => x.auto # "run"
    /\ x.mode = "idle" \/ (x.mode = "bt" /\ x.wait_exit # 0 /\ ~x.exiting) => ~lk

\* Only taking a bud out of its charger clears the flag and brings the mode back.
Held(x, q) ==
    "plug_out" \notin Enabled =>
        ~In(q, "out") /\ ~In(q, "bt") /\ (Active(x) # {} => x.flag)

Single == Cardinality(Buds) = 1

Going(x, q, lk, called, plugged, lost) ==
    /\ Calm(x, lk) /\ Held(x, q)
    /\ Single => ~In(q, "sync")
    /\ ~lost /\ Up(x) => Owed(x, q, called, plugged)

\* A bud that is to go off with its sibling, and a bud that was asked.
Asked(x, q) == Same(x) \/ In(q, "sync")
Answers(x, q) == x.flag \/ In(q, "sync")

Together ==
    link => /\ sync = {} \/ sync = Buds
            /\ \A d, c \in Buds :
                  /\ c # d /\ c \notin spoilt /\ Up(bud[c]) /\ Asked(bud[d], queue[d])
                  => Answers(bud[c], queue[c])

Onway ==
    /\ \A b \in Buds : Going(bud[b], queue[b], link, b \in sync, b \in charger, b \in spoilt)
    /\ Together
    /\ Single => ~link /\ sync = {}

\* Two buds that were parted, one of them taken out of its charger on the way, do not
\* link again; and no bud is taken out of its charger while a sibling is about.
NoReunion == Single \/ "plug_out" \notin Enabled \/ "link_up" \notin Enabled
NoRecall == Single \/ "plug_out" \notin Enabled

(***************************************************************************)
(* What a step of one bud does to the whole.                               *)
(***************************************************************************)

Pow(x, lost) == IF lost THEN "lost"
                ELSE IF ~Up(x) THEN "gone"
                ELSE IF x.flag THEN "leaving"
                ELSE IF x.mode = "idle" THEN "charging" ELSE "on"

Turn(p, r) ==
    \/ p = r
    \/ p = "on" /\ r = "leaving"
    \/ p = "leaving" /\ (r = "gone" \/ r = "charging")
    \/ p = "charging" /\ (r = "on" \/ r = "gone")
    \/ p # "gone" /\ r = "lost"

\* What the others see.
Frame(b) ==
    /\ spoilt \subseteq spoilt' /\ spoilt' \subseteq spoilt \cup {b}
    /\ charger \subseteq charger' \cup {b}
    /\ link' => link
    /\ sync' \subseteq sync \/ (link /\ sync' = Buds)
    /\ link' => sync' = sync \/ sync' = {} \/ sync' = Buds

\* Bud b becomes y with the queue q.
Move(b, y, q) ==
    /\ Going(y, q, link', b \in sync', b \in charger', b \in spoilt')
    /\ Up(y) => Up(bud[b])
    /\ Asked(y, q) => Asked(bud[b], queue[b])
    /\ link' /\ b \notin spoilt' /\ Up(y) /\ Answers(bud[b], queue[b]) => Answers(y, q)
    /\ NoRecall => Turn(Pow(bud[b], b \in spoilt), Pow(y, b \in spoilt'))

\* The step is one of the abstract specification.
Goes == NoRecall => [PS!Next]_power

LEMMA OneTurns ==
    ASSUME NEW b \in Buds, NEW f, NEW g, power = f, power' = g,
           f = [c \in Buds |-> f[c]], g = [c \in Buds |-> g[c]],
           \A c \in Buds : c # b => g[c] = f[c],
           Turn(f[b], g[b]), f[b] \in {"on", "charging", "leaving", "gone", "lost"}
    PROVE  [PS!Next]_power
<1>1. CASE f[b] = g[b]
  <2>1. \A c \in Buds : g[c] = f[c]
    BY <1>1
  <2>2. g = f
    BY <2>1
  <2>3. QED
    BY <2>2
<1>2. CASE f[b] # g[b]
  <2>1. g = [f EXCEPT ![b] = g[b]]
    OBVIOUS
  <2>2. power' = [power EXCEPT ![b] = g[b]] /\ power[b] = f[b]
    BY <2>1
  <2>3. PS!Next
    <3>1. CASE f[b] = "on" /\ g[b] = "leaving"
      BY <2>2, <3>1 DEF PS!Next, PS!Ask, PS!Go
    <3>2. CASE f[b] = "leaving" /\ g[b] = "gone"
      BY <2>2, <3>2 DEF PS!Next, PS!Finish, PS!Go
    <3>3. CASE f[b] = "leaving" /\ g[b] = "charging"
      BY <2>2, <3>3 DEF PS!Next, PS!Recall, PS!Go
    <3>4. CASE f[b] = "charging" /\ g[b] = "on"
      BY <2>2, <3>4 DEF PS!Next, PS!SwitchOn, PS!Go
    <3>5. CASE f[b] = "charging" /\ g[b] = "gone"
      BY <2>2, <3>5 DEF PS!Next, PS!Empty, PS!Go
    <3>6. CASE f[b] # "gone" /\ g[b] = "lost"
      <4>1. f[b] \in {"on", "charging", "leaving"}
        BY <1>2, <3>6
      <4>2. PS!Lose(b)
        BY <2>2, <3>6, <4>1 DEF PS!Lose, PS!Go
      <4>3. QED
        BY <4>2 DEF PS!Next
    <3>7. QED
      BY <1>2, <3>1, <3>2, <3>3, <3>4, <3>5, <3>6 DEF Turn
  <2>4. QED
    BY <2>3
<1>3. QED
  BY <1>1, <1>2

LEMMA PowIn == \A x, s : Pow(x, s) \in {"on", "charging", "leaving", "gone", "lost"}
BY DEF Pow

\* Those who do not move owe what they owed.
LEMMA Stays ==
    ASSUME Onway, NEW b \in Buds, Frame(b), NEW c \in Buds, c # b,
           bud'[c] = bud[c], queue'[c] = queue[c]
    PROVE  Going(bud'[c], queue'[c], link', c \in sync', c \in charger', c \in spoilt')
<1> DEFINE x == bud[c]
           q == queue[c]
<1>1. Going(x, q, link, c \in sync, c \in charger, c \in spoilt)
  BY DEF Onway
<1>2. /\ link' => link
      /\ c \in sync' => c \in sync \/ link
      /\ c \in charger => c \in charger'
      /\ c \in spoilt => c \in spoilt'
  BY DEF Frame
<1> HIDE DEF x, q
<1>3. Going(x, q, link', c \in sync', c \in charger', c \in spoilt')
  BY <1>1, <1>2 DEF Going, Calm, Owed, Parked
<1>4. QED
  BY <1>3 DEF x, q

LEMMA OneOnway ==
    ASSUME IInv, Onway, NEW b \in Buds, Frame(b), NEW y \in Bud, NEW q, Set(b, y),
           queue' = [queue EXCEPT ![b] = q], Move(b, y, q)
    PROVE  Onway' /\ Goes
<1>1. bud \in [Buds -> Bud] /\ queue \in [Buds -> Seq(Messages)]
  BY DEF IInv, Core
<1>2. /\ bud'[b] = y /\ queue'[b] = q
      /\ \A c \in Buds : c # b => bud'[c] = bud[c] /\ queue'[c] = queue[c]
  BY <1>1 DEF Set
<1>3. \A c \in Buds : Going(bud'[c], queue'[c], link', c \in sync', c \in charger', c \in spoilt')
  BY <1>2, Stays DEF Move
<1>4. Together'
  <2> SUFFICES ASSUME link' PROVE Together'
    BY DEF Together
  <2>1. Together /\ link /\ spoilt \subseteq spoilt' /\ (sync = {} \/ sync = Buds)
    BY DEF Onway, Frame, Together
  <2>2. sync' = {} \/ sync' = Buds
    BY <2>1 DEF Frame
  <2>3. ASSUME NEW d \in Buds, NEW c \in Buds, c # d, c \notin spoilt', Up(bud'[c]),
               Asked(bud'[d], queue'[d])
        PROVE  Answers(bud'[c], queue'[c])
    <3>1. Asked(bud[d], queue[d]) /\ Up(bud[c]) /\ c \notin spoilt
      BY <1>2, <2>1, <2>3 DEF Move
    <3>2. Answers(bud[c], queue[c])
      BY <2>1, <2>3, <3>1 DEF Together
    <3>3. QED
      BY <1>2, <2>3, <3>2 DEF Move
  <2>4. QED
    BY <2>2, <2>3 DEF Together
<1>5. Single => ~link' /\ sync' = {}
  BY DEF Onway, Frame
<1>6. Goes
  <2> SUFFICES ASSUME NoRecall PROVE [PS!Next]_power
    BY DEF Goes
  <2> DEFINE f == [c \in Buds |-> Pow(bud[c], c \in spoilt)]
             g == [c \in Buds |-> Pow(bud'[c], c \in spoilt')]
  <2>1. power = f /\ power' = g
    BY DEF power, Pow, Alive, Up
  <2>2. f = [c \in Buds |-> f[c]] /\ g = [c \in Buds |-> g[c]]
    OBVIOUS
  <2>3. \A c \in Buds : c # b => g[c] = f[c]
    <3> SUFFICES ASSUME NEW c \in Buds, c # b PROVE g[c] = f[c]
      OBVIOUS
    <3>1. bud'[c] = bud[c] /\ (c \in spoilt' <=> c \in spoilt)
      BY <1>2 DEF Frame
    <3>2. QED
      BY <3>1 DEF Pow
  <2>4. Turn(f[b], g[b])
    BY <1>2 DEF Move
  <2>5. f[b] \in {"on", "charging", "leaving", "gone", "lost"}
    BY PowIn
  <2> HIDE DEF f, g
  <2>6. QED
    BY <2>1, <2>2, <2>3, <2>4, <2>5, OneTurns
<1>7. QED
  BY <1>3, <1>4, <1>5, <1>6 DEF Onway

(***************************************************************************)
(* What the operators on a bud's record do to what it owes.                *)
(***************************************************************************)

\* All but the timers, the flag and the count.
Base(x, y) ==
    /\ y.mode = x.mode /\ y.late = x.late /\ y.retry = x.retry /\ y.saved = x.saved
    /\ y.wait_exit = x.wait_exit /\ y.exiting = x.exiting /\ y.tone = x.tone
    /\ y.led = x.led /\ y.auto = x.auto

LEMMA DelOf ==
    ASSUME NEW x \in Bud
    PROVE  LET y == DelPoll(x)
           IN  /\ y \in Bud /\ Base(x, y) /\ y.flag = x.flag
               /\ Active(y) = Spare(x) /\ (Same(y) => Same(x))
<1> DEFINE y == DelPoll(x)
<1>1. y \in Bud /\ y.flag = x.flag /\ Active(y) = Spare(x)
  BY PollDeleted
<1>2. CASE x.handle = 0
  <2>1. y = x
    BY <1>2 DEF DelPoll
  <2> HIDE DEF y
  <2>2. Base(x, y) /\ (Same(y) => Same(x))
    BY <2>1 DEF Base
  <2>3. QED
    BY <1>1, <2>2 DEF y
<1>3. CASE x.handle # 0
  <2>1. y = [x EXCEPT !.polls[x.handle] = NoPoll]
    BY <1>3 DEF DelPoll
  <2>2. Base(x, y) /\ y.polls = [x.polls EXCEPT ![x.handle] = NoPoll]
        /\ x.polls \in [Ids -> Polls]
    BY <2>1 DEF Base, Bud
  <2> HIDE DEF y
  <2>3. Same(y) => Same(x)
    BY <2>2 DEF Same, NoPoll
  <2>4. QED
    BY <1>1, <2>2, <2>3 DEF y
<1>4. QED
  BY <1>2, <1>3

LEMMA AddOf ==
    ASSUME NEW x \in Bud, Active(x) # Ids,
           NEW cb \in {"same", "detach", "exit"}, NEW why \in Reasons
    PROVE  LET y == AddPoll(x, cb, why)
           IN  /\ y \in Bud /\ Base(x, y) /\ y.flag = x.flag
               /\ Active(y) # {} /\ (Same(y) => Same(x) \/ cb = "same")
<1> DEFINE i == FreeId({j \in Ids : x.polls[j] = NoPoll})
           r == [cb |-> cb, why |-> why]
           y == AddPoll(x, cb, why)
<1>1. /\ y \in Bud /\ y.flag = x.flag /\ y.handle \notin Active(x)
      /\ Active(y) = Active(x) \cup {y.handle}
  BY PollAdded
<1>2. y = [x EXCEPT !.handle = i, !.polls[i] = r]
  BY DEF AddPoll
<1>3. r.cb = cb
  OBVIOUS
<1> HIDE DEF i, r
<1>4. Base(x, y) /\ y.polls = [x.polls EXCEPT ![i] = r] /\ x.polls \in [Ids -> Polls]
  BY <1>2 DEF Base, Bud
<1> HIDE DEF y
<1>5. Same(y) => Same(x) \/ cb = "same"
  BY <1>3, <1>4 DEF Same
<1>6. QED
  BY <1>1, <1>4, <1>5 DEF y

\* The ids suffice for a power-off that begins, and for the poll that follows another.
LEMMA FreeTimer ==
    ASSUME NEW x, NEW n \in Nat, NEW e \in 0..MaxEvents, NEW s, Fine(x, n, e, s)
    PROVE  /\ ~x.flag => Active(x) # Ids
           /\ Spare(x) # Ids
<1>1. MaxEvents \in Nat
  BY PowerAssumption
<1>2. /\ Cardinality(Active(x)) \in Nat /\ Cardinality(Spare(x)) \in Nat
      /\ Cardinality(Active(x)) <= Cardinality(Spare(x)) + 1
      /\ Cardinality(Active(x)) <= MaxEvents => Active(x) # Ids
      /\ Active(x) = {} => Cardinality(Active(x)) = 0
  BY TimersCount, FS_EmptySet
<1>3. Cardinality(Spare(x)) + n <= e
  BY PaidFor
<1>4. ~x.flag => Cardinality(Active(x)) <= e
  BY <1>2 DEF Fine, Paid
<1>5. Spare(x) # Ids
  BY <1>1, <1>2, <1>3, IdsCount
<1>6. QED
  BY <1>1, <1>2, <1>4, <1>5

LEMMA EnterOf ==
    ASSUME NEW x, NEW n \in Nat, NEW e \in 0..MaxEvents, NEW s, Fine(x, n, e, s), ~x.flag,
           NEW reason \in Reasons
    PROVE  LET y == sys_enter_soft_poweroff(x, reason)
           IN  /\ y \in Bud /\ Base([x EXCEPT !.auto = "none"], y) /\ y.flag
               /\ Active(y) # {} /\ (Same(y) => Same(x) \/ reason = "NORMAL_TWS")
<1> DEFINE z == [x EXCEPT !.flag = TRUE, !.cnt = 0, !.auto = "none"]
           cb == IF reason = "NORMAL_TWS" THEN "same" ELSE "detach"
           y == AddPoll(z, cb, reason)
<1>1. MaxTicks \in Nat
  BY PowerAssumption
<1>2. x \in Bud /\ Active(x) # Ids
  BY FreeTimer DEF Fine
<1>3. /\ z.mode = x.mode /\ z.wait_exit = x.wait_exit /\ z.flag = TRUE
      /\ z.polls = x.polls /\ z.handle = x.handle /\ Base([x EXCEPT !.auto = "none"], z)
  BY <1>2 DEF Bud, Base
<1>4. z \in Bud
  <2> DEFINE u == [x EXCEPT !.flag = TRUE]
             v == [u EXCEPT !.cnt = 0]
  <2>1. u \in Bud
    BY <1>2 DEF Bud
  <2> HIDE DEF u
  <2>2. v \in Bud
    BY <1>1, <2>1 DEF Bud
  <2> HIDE DEF v
  <2>3. [v EXCEPT !.auto = "none"] \in Bud
    BY <2>2 DEF Bud
  <2>4. QED
    BY <1>2, <2>3 DEF Bud, u, v
<1> HIDE DEF z
<1>5. Active(z) = Active(x) /\ (Same(z) => Same(x))
  BY <1>3 DEF Active, Same
<1>6. /\ y \in Bud /\ Base(z, y) /\ y.flag = z.flag
      /\ Active(y) # {} /\ (Same(y) => Same(z) \/ cb = "same")
  BY <1>2, <1>4, <1>5, AddOf
<1>7. sys_enter_soft_poweroff(x, reason) = y
  BY DEF sys_enter_soft_poweroff, y, z
<1> HIDE DEF y
<1>8. Base([x EXCEPT !.auto = "none"], y)
  BY <1>3, <1>6 DEF Base
<1>9. QED
  BY <1>3, <1>5, <1>6, <1>7, <1>8

\* A bud that is off, or starts again, owes nothing.
LEMMA GoneOf ==
    ASSUME NEW x, NEW q, NEW p, NEW lk, NEW c, NEW g, NEW s, Going(x, q, lk, c, g, s),
           NEW m \in {"off", "reset"}, NEW lk2, NEW c2, NEW g2, NEW s2,
           In(p, "out") => In(q, "out"), In(p, "bt") => In(q, "bt"),
           In(p, "sync") => In(q, "sync")
    PROVE  /\ Blank(m) \in Bud /\ ~Up(Blank(m)) /\ ~Same(Blank(m))
           /\ Going(Blank(m), p, lk2, c2, g2, s2)
<1> DEFINE y == Blank(m)
<1>1. /\ y \in Bud /\ y.mode = m /\ Active(y) = {}
  BY BlankType
<1>2. y.saved = "play" /\ \A i \in Ids : y.polls[i] = NoPoll
  BY DEF Blank
<1> HIDE DEF y
<1>3. ~Same(y) /\ ~Up(y)
  BY <1>1, <1>2 DEF Same, NoPoll, Up
<1>4. Going(y, p, lk2, c2, g2, s2)
  BY <1>1, <1>2, <1>3 DEF Going, Calm, Held, Up
<1>5. QED
  BY <1>1, <1>3, <1>4 DEF y

\* Handling a message that does not belong to a power-off.
LEMMA OtherTaken ==
    ASSUME NEW x, NEW q \in Seq(Messages), q # <<>>, Head(q) \in {"in", "keep", "phone"},
           NEW lk, NEW c, NEW g, NEW s, Going(x, q, lk, c, g, s)
    PROVE  Going(x, Tail(q), lk, c, g, s)
<1> DEFINE t == Tail(q)
           h == Head(q)
<1>1. /\ More(q, t, h) /\ (Covered(q) => Covered(t))
      /\ (Behind(q) /\ In(t, "bt") => Behind(t))
  BY InTail
<1> HIDE DEF t
<1>2. /\ In(q, "play") <=> In(t, "play")
      /\ In(q, "off") <=> In(t, "off")
      /\ In(q, "bt") <=> In(t, "bt")
      /\ In(q, "softoff") <=> In(t, "softoff")
      /\ In(q, "sync") <=> In(t, "sync")
      /\ In(q, "tone") <=> In(t, "tone")
      /\ In(q, "out") <=> In(t, "out")
  BY <1>1 DEF More
<1>3. Going(x, t, lk, c, g, s)
  BY <1>1, <1>2 DEF Going, Held, Owed, Quiet, Parked, Ends, Returns
<1>4. QED
  BY <1>3 DEF t

\* A power-off that begins in the Bluetooth mode.
LEMMA EnterGoes ==
    ASSUME NEW x, NEW n \in Nat, NEW e \in 0..MaxEvents, NEW s, Fine(x, n, e, s),
           NEW q, NEW lk, NEW c, NEW g, Going(x, q, lk, c, g, s), x.mode = "bt",
           NEW reason \in Reasons, reason # "NORMAL_TWS"
    PROVE  LET y == sys_enter_soft_poweroff(x, reason)
           IN  /\ y \in Bud /\ y.mode = "bt" /\ (Same(y) => Same(x)) /\ (x.flag => y.flag)
               /\ Going(y, q, lk, c, g, s) /\ Turn(Pow(x, s), Pow(y, s))
<1> DEFINE y == sys_enter_soft_poweroff(x, reason)
<1>1. CASE x.flag
  <2>1. y = x
    BY <1>1 DEF sys_enter_soft_poweroff
  <2> HIDE DEF y
  <2>2. y \in Bud
    BY <2>1 DEF Fine
  <2>3. QED
    BY <2>1, <2>2 DEF Turn, y
<1>2. CASE ~x.flag
  <2>1. /\ y \in Bud /\ Base([x EXCEPT !.auto = "none"], y) /\ y.flag
        /\ Active(y) # {} /\ (Same(y) => Same(x))
    BY <1>2, EnterOf
  <2> HIDE DEF y
  <2>2. x \in Bud
    BY DEF Fine
  <2>3. /\ y.mode = "bt" /\ y.saved = x.saved /\ y.wait_exit = x.wait_exit
        /\ y.exiting = x.exiting /\ y.auto = "none"
    BY <2>1, <2>2 DEF Base, Bud
  <2>4. Going(y, q, lk, c, g, s)
    BY <2>1, <2>3 DEF Going, Calm, Held, Owed, Doing, Up
  <2>5. Turn(Pow(x, s), Pow(y, s))
    BY <1>2, <2>1, <2>3 DEF Turn, Pow, Up
  <2>6. QED
    BY <2>1, <2>3, <2>4, <2>5 DEF y
<1>3. QED
  BY <1>1, <1>2

(***************************************************************************)
(* A step of one bud, of which the links, the charger and the power-off    *)
(* being spoilt do not change: x with the queue q becomes y with p.        *)
(***************************************************************************)

Stride(x, q, y, p, lk, c, g, s) ==
    /\ y \in Bud /\ Going(y, p, lk, c, g, s)
    /\ Up(y) => Up(x)
    /\ Asked(y, p) => Asked(x, q)
    /\ lk /\ ~s /\ Up(y) /\ Answers(x, q) => Answers(y, p)
    /\ NoRecall => Turn(Pow(x, s), Pow(y, s))

\* What neither mode, flag, LED, exit rounds nor the tone in idle mode depend on.
Lean(x, y) ==
    /\ y \in Bud /\ y.mode = x.mode /\ y.flag = x.flag /\ y.saved = x.saved /\ y.auto = x.auto
    /\ y.wait_exit = x.wait_exit /\ y.exiting = x.exiting /\ y.led = x.led
    /\ "local" \in y.tone <=> "local" \in x.tone
    /\ Active(x) = {} => Active(y) = {}
    /\ Same(y) => Same(x)

LEMMA LeanTurn ==
    ASSUME NEW x, NEW y, Lean(x, y), NEW s
    PROVE  Turn(Pow(x, s), Pow(y, s)) /\ (Up(y) <=> Up(x))
BY DEF Lean, Turn, Pow, Up

\* Another step brings the change of mode.
LEMMA DoingStride ==
    ASSUME NEW x, NEW q, NEW y, NEW lk, NEW c, NEW g, NEW s, Going(x, q, lk, c, g, s),
           Up(x), Lean(x, y), Doing(x), Doing(y)
    PROVE  Stride(x, q, y, q, lk, c, g, s)
<1>1. Going(y, q, lk, c, g, s)
  BY DEF Going, Calm, Held, Owed, Lean, Quiet, Ends, Returns, Up
<1>2. QED
  BY <1>1, LeanTurn DEF Stride, Asked, Answers, Lean

\* A timer or a tone that runs out posts the change of mode.
LEMMA GotoPosted ==
    ASSUME NEW x, NEW q \in Seq(Messages), NEW y, NEW lk, NEW c, NEW g, NEW s,
           Going(x, q, lk, c, g, s), Up(x), Lean(x, y), Doing(x),
           NEW m, m = "play" \/ m = "off"
    PROVE  Stride(x, q, y, Append(q, m), lk, c, g, s)
<1> DEFINE p == Append(q, m)
<1>1. m \in Messages
  BY DEF Messages, Goto
<1>2. More(p, q, m) /\ Behind(p)
  BY <1>1, InAppend
<1> HIDE DEF p
<1>3. /\ In(q, "bt") <=> In(p, "bt")
      /\ In(q, "softoff") <=> In(p, "softoff")
      /\ In(q, "sync") <=> In(p, "sync")
      /\ In(q, "out") <=> In(p, "out")
      /\ In(p, "play") \/ In(p, "off")
  BY <1>2 DEF More
<1>4. Going(y, p, lk, c, g, s)
  <2>1. ~s => x.flag
    BY DEF Going, Owed, Quiet
  <2>2. Calm(y, lk)
    BY DEF Going, Calm, Lean
  <2>3. Held(y, p)
    BY <1>3 DEF Going, Held, Lean
  <2>4. ~s /\ y.mode = "idle" => Ends(y, p) \/ Returns(y, p)
    BY <1>2, <1>3, <2>1 DEF Going, Owed, Ends, Returns, Lean, Up
  <2>5. ~s => Owed(y, p, c, g)
    BY <1>3, <2>1, <2>4 DEF Owed, Lean
  <2>6. QED
    BY <1>3, <2>2, <2>3, <2>5 DEF Going
<1>5. Stride(x, q, y, p, lk, c, g, s)
  BY <1>3, <1>4, LeanTurn DEF Stride, Asked, Answers, Lean
<1>6. QED
  BY <1>5 DEF p

\* The bud is off, or starts again, and was to go off or idle.
LEMMA GoneStride ==
    ASSUME NEW x, NEW q, NEW p, NEW lk, NEW c, NEW g, NEW s, Going(x, q, lk, c, g, s), Up(x),
           NEW m \in {"off", "reset"}, ~s /\ x.mode = "bt" => x.flag,
           In(p, "out") => In(q, "out"), In(p, "bt") => In(q, "bt"),
           In(p, "sync") => In(q, "sync")
    PROVE  Stride(x, q, Blank(m), p, lk, c, g, s)
<1> DEFINE y == Blank(m)
<1>1. y \in Bud /\ ~Up(y) /\ ~Same(y) /\ Going(y, p, lk, c, g, s)
  BY GoneOf
<1> HIDE DEF y
<1>2. Turn(Pow(x, s), Pow(y, s))
  BY <1>1 DEF Turn, Pow, Up
<1>3. Stride(x, q, y, p, lk, c, g, s)
  BY <1>1, <1>2 DEF Stride, Asked
<1>4. QED
  BY <1>3 DEF y

\* A bud that polls was asked to go off.
LEMMA DoesGo ==
    ASSUME NEW x, NEW q, NEW lk, NEW c, NEW g, NEW s, Going(x, q, lk, c, g, s), Up(x), Doing(x)
    PROVE  ~s => x.flag
BY DEF Going, Owed, Quiet

LEMMA TickStride ==
    ASSUME NEW x \in Bud, NEW q, NEW lk, NEW c, NEW g, NEW s, Going(x, q, lk, c, g, s), Up(x),
           Active(x) # {}
    PROVE  Stride(x, q, Tick(x), q, lk, c, g, s)
<1>1. CASE x.cnt + 1 > MaxTicks
  <2>1. Tick(x) = Blank("reset")
    BY <1>1 DEF Tick
  <2>2. ~s => x.flag
    BY DoesGo DEF Doing
  <2>3. Stride(x, q, Blank("reset"), q, lk, c, g, s)
    BY <2>2, GoneStride
  <2>4. QED
    BY <2>1, <2>3
<1>2. CASE ~(x.cnt + 1 > MaxTicks)
  <2> DEFINE y == [x EXCEPT !.cnt = @ + 1]
  <2>1. Tick(x) = y
    BY <1>2 DEF Tick
  <2>2. MaxTicks \in Nat
    BY PowerAssumption
  <2>3. /\ y \in Bud /\ y.mode = x.mode /\ y.flag = x.flag /\ y.saved = x.saved /\ y.auto = x.auto
        /\ y.wait_exit = x.wait_exit /\ y.exiting = x.exiting /\ y.led = x.led
        /\ y.tone = x.tone /\ y.polls = x.polls
    BY <1>2, <2>2 DEF Bud
  <2> HIDE DEF y
  <2>4. Lean(x, y) /\ Doing(x) /\ Doing(y)
    BY <2>3 DEF Lean, Active, Same, Doing
  <2>5. Stride(x, q, y, q, lk, c, g, s)
    BY <2>4, DoingStride
  <2>6. QED
    BY <2>1, <2>5
<1>3. QED
  BY <1>1, <1>2

\* The timer of the power-off is deleted: the slave's timer, the next poll or the change
\* of mode follow it.
LEMMA DelLean ==
    ASSUME NEW x \in Bud
    PROVE  Lean(x, DelPoll(x))
<1> DEFINE y == DelPoll(x)
<1>1. y \in Bud /\ Base(x, y) /\ y.flag = x.flag /\ Active(y) = Spare(x) /\ (Same(y) => Same(x))
  BY DelOf
<1> HIDE DEF y
<1>2. Lean(x, y)
  BY <1>1 DEF Base, Lean, Spare
<1>3. QED
  BY <1>2 DEF y

LEMMA SlaveStride ==
    ASSUME NEW x \in Bud, NEW q, NEW lk, NEW c, NEW g, NEW s, Going(x, q, lk, c, g, s), Up(x),
           Active(x) # {}
    PROVE  Stride(x, q, DelPoll(SlaveWaits(x)), q, lk, c, g, s)
<1> DEFINE z == SlaveWaits(x)
           y == DelPoll(z)
<1>1. /\ z \in Bud /\ Lean(x, z) /\ z.late
  BY DEF SlaveWaits, Bud, Lean, Active, Same
<1> HIDE DEF z
<1>2. Lean(z, y) /\ Base(z, y)
  BY <1>1, DelLean, DelOf
<1> HIDE DEF y
<1>3. Lean(x, y) /\ Doing(y) /\ Doing(x)
  BY <1>1, <1>2 DEF Lean, Base, Doing
<1>4. Stride(x, q, y, q, lk, c, g, s)
  BY <1>3, DoingStride
<1>5. QED
  BY <1>4 DEF y, z

LEMMA ExitStride ==
    ASSUME NEW x, NEW n \in Nat, NEW e \in 0..MaxEvents, NEW s, Fine(x, n, e, s),
           NEW q, NEW lk, NEW c, NEW g, Going(x, q, lk, c, g, s), Up(x),
           Active(x) # {}, NEW why \in Reasons
    PROVE  Stride(x, q, AddPoll([DelPoll(x) EXCEPT !.cnt = 0], "exit", why), q, lk, c, g, s)
<1> DEFINE w == DelPoll(x)
           z == [w EXCEPT !.cnt = 0]
           y == AddPoll(z, "exit", why)
<1>1. MaxTicks \in Nat /\ x \in Bud
  BY PowerAssumption DEF Fine
<1>2. Lean(x, w) /\ w \in Bud /\ Active(w) = Spare(x)
  BY <1>1, DelLean, DelOf
<1> HIDE DEF w
<1>3. /\ z \in Bud /\ Base(w, z) /\ z.flag = w.flag /\ z.polls = w.polls
  BY <1>1, <1>2 DEF Bud, Base
<1> HIDE DEF z
<1>4. Active(z) = Spare(x) /\ (Same(z) => Same(w))
  BY <1>2, <1>3 DEF Active, Same
<1>5. Active(z) # Ids
  BY <1>4, FreeTimer
<1>6. y \in Bud /\ Base(z, y) /\ y.flag = z.flag /\ Active(y) # {} /\ (Same(y) => Same(z))
  BY <1>3, <1>5, AddOf
<1> HIDE DEF y
<1>7. Lean(x, y) /\ Doing(x) /\ Doing(y)
  BY <1>2, <1>3, <1>4, <1>6 DEF Lean, Base, Doing
<1>8. Stride(x, q, y, q, lk, c, g, s)
  BY <1>7, DoingStride
<1>9. QED
  BY <1>8 DEF y, z, w

LEMMA PlayStride ==
    ASSUME NEW x \in Bud, NEW q \in Seq(Messages), NEW lk, NEW c, NEW g, NEW s,
           Going(x, q, lk, c, g, s), Up(x)
    PROVE  /\ Active(x) # {} => Stride(x, q, DelPoll(x), Append(q, "play"), lk, c, g, s)
           /\ x.late => Stride(x, q, [x EXCEPT !.late = FALSE], Append(q, "play"), lk, c, g, s)
           /\ x.retry => Stride(x, q, [x EXCEPT !.retry = FALSE], Append(q, x.saved), lk, c, g, s)
           /\ "shared" \in x.tone =>
                Stride(x, q, [x EXCEPT !.tone = @ \ {"shared"}], Append(q, "off"), lk, c, g, s)
<1>1. Active(x) # {} => Stride(x, q, DelPoll(x), Append(q, "play"), lk, c, g, s)
  BY DelLean, GotoPosted DEF Doing
<1>2. ASSUME x.late PROVE Stride(x, q, [x EXCEPT !.late = FALSE], Append(q, "play"), lk, c, g, s)
  <2> DEFINE y == [x EXCEPT !.late = FALSE]
  <2>1. Lean(x, y)
    BY DEF Lean, Bud, Active, Same
  <2> HIDE DEF y
  <2>2. Stride(x, q, y, Append(q, "play"), lk, c, g, s)
    BY <1>2, <2>1, GotoPosted DEF Doing
  <2>3. QED
    BY <2>2 DEF y
<1>3. ASSUME x.retry PROVE Stride(x, q, [x EXCEPT !.retry = FALSE], Append(q, x.saved), lk, c, g, s)
  <2> DEFINE y == [x EXCEPT !.retry = FALSE]
  <2>1. Lean(x, y)
    BY DEF Lean, Bud, Active, Same
  <2> HIDE DEF y
  <2>2. x.saved = "play" \/ x.saved = "off"
    BY DEF Going, Calm, Bud, Goto
  <2>3. Stride(x, q, y, Append(q, x.saved), lk, c, g, s)
    BY <1>3, <2>1, <2>2, GotoPosted DEF Doing
  <2>4. QED
    BY <2>3 DEF y
<1>4. ASSUME "shared" \in x.tone
      PROVE  Stride(x, q, [x EXCEPT !.tone = @ \ {"shared"}], Append(q, "off"), lk, c, g, s)
  <2> DEFINE y == [x EXCEPT !.tone = @ \ {"shared"}]
  <2>1. Lean(x, y)
    BY DEF Lean, Bud, Active, Same
  <2> HIDE DEF y
  <2>2. Stride(x, q, y, Append(q, "off"), lk, c, g, s)
    BY <1>4, <2>1, GotoPosted DEF Doing
  <2>3. QED
    BY <2>2 DEF y
<1>5. QED
  BY <1>1, <1>2, <1>3, <1>4

\* The end of the tone in idle mode, or of the LED effect, posts the power-off itself.
LEMMA SoftoffPosted ==
    ASSUME NEW x \in Bud, NEW q \in Seq(Messages), NEW lk, NEW c, NEW g, NEW s,
           Going(x, q, lk, c, g, s), Up(x),
           NEW y, y = [x EXCEPT !.tone = @ \ {"local"}] \/ y = [x EXCEPT !.led = "idle"]
    PROVE  Stride(x, q, y, Append(q, "softoff"), lk, c, g, s)
<1> DEFINE p == Append(q, "softoff")
<1>1. "softoff" \in Messages
  BY DEF Messages
<1>2. More(p, q, "softoff") /\ (Covered(q) => Covered(p)) /\ (Behind(q) => Behind(p))
  BY <1>1, InAppend
<1> HIDE DEF p
<1>3. /\ In(q, "play") <=> In(p, "play")
      /\ In(q, "off") <=> In(p, "off")
      /\ In(q, "bt") <=> In(p, "bt")
      /\ In(q, "sync") <=> In(p, "sync")
      /\ In(q, "tone") <=> In(p, "tone")
      /\ In(q, "out") <=> In(p, "out")
      /\ In(p, "softoff")
  BY <1>2 DEF More
<1>4. /\ y \in Bud /\ y.mode = x.mode /\ y.flag = x.flag /\ y.saved = x.saved /\ y.auto = x.auto
      /\ y.wait_exit = x.wait_exit /\ y.exiting = x.exiting /\ y.polls = x.polls
      /\ y.late = x.late /\ y.retry = x.retry /\ ("shared" \in y.tone <=> "shared" \in x.tone)
  BY DEF Bud
<1>5. Active(y) = Active(x) /\ (Same(y) <=> Same(x)) /\ (Doing(y) <=> Doing(x))
  BY <1>4 DEF Active, Same, Doing
<1>6. Going(y, p, lk, c, g, s)
  <2>1. Calm(y, lk) /\ Held(y, p)
    BY <1>3, <1>4, <1>5 DEF Going, Calm, Held
  <2>2. Quiet(x, q) => Quiet(y, p)
    BY <1>2, <1>3, <1>5 DEF Quiet
  <2>3. Ends(x, q) => Ends(y, p)
    BY <1>3 DEF Ends
  <2>4. Returns(x, q) => Returns(y, p)
    BY <1>2, <1>3, <1>5 DEF Returns
  <2>5. Owed(x, q, c, g) => Owed(y, p, c, g)
    BY <1>3, <1>4, <1>5, <2>2, <2>3, <2>4 DEF Owed, Parked
  <2>6. QED
    BY <1>3, <1>4, <2>1, <2>5 DEF Going, Up
<1>7. Turn(Pow(x, s), Pow(y, s)) /\ (Up(y) <=> Up(x))
  BY <1>4 DEF Turn, Pow, Up
<1>8. Stride(x, q, y, p, lk, c, g, s)
  BY <1>3, <1>4, <1>5, <1>6, <1>7 DEF Stride, Asked, Answers
<1>9. QED
  BY <1>8 DEF p

(***************************************************************************)
(* The head of the queue is handled.                                       *)
(***************************************************************************)

\* A message that is dropped.
LEMMA DroppedStride ==
    ASSUME NEW x \in Bud, NEW q \in Seq(Messages), q # <<>>, NEW lk, NEW c, NEW g, NEW s,
           Going(x, q, lk, c, g, s), Up(x),
           \/ Head(q) = "in" \/ Head(q) = "keep" \/ Head(q) = "phone"
           \/ Head(q) = "softoff" /\ (x.mode = "bt" \/ ~x.flag)
           \/ (Head(q) = "play" \/ Head(q) = "off") /\ x.mode = "idle"
           \/ Head(q) = "bt" /\ x.mode = "bt"
           \/ Head(q) = "sync" /\ x.flag
    PROVE  Stride(x, q, x, Tail(q), lk, c, g, s)
<1> DEFINE t == Tail(q)
           h == Head(q)
<1>1. /\ More(q, t, h) /\ (Covered(q) => h = "sync" \/ Covered(t))
      /\ (Behind(q) /\ In(t, "bt") => Behind(t))
  BY InTail
<1> HIDE DEF t
<1>2. /\ In(q, "play") <=> In(t, "play") \/ h = "play"
      /\ In(q, "off") <=> In(t, "off") \/ h = "off"
      /\ In(q, "bt") <=> In(t, "bt") \/ h = "bt"
      /\ In(q, "softoff") <=> In(t, "softoff") \/ h = "softoff"
      /\ In(q, "sync") <=> In(t, "sync") \/ h = "sync"
      /\ In(q, "tone") <=> In(t, "tone")
      /\ In(q, "out") <=> In(t, "out")
  BY <1>1 DEF More
<1>3. \/ h = "in" \/ h = "keep" \/ h = "phone"
      \/ h = "softoff" /\ (x.mode = "bt" \/ ~x.flag)
      \/ (h = "play" \/ h = "off") /\ x.mode = "idle"
      \/ h = "bt" /\ x.mode = "bt"
      \/ h = "sync" /\ x.flag
  OBVIOUS
<1> HIDE DEF h
<1>4. Quiet(x, q) /\ ~x.flag => Quiet(x, t)
  BY <1>1, <1>2, <1>3 DEF Quiet
<1>5. x.mode = "idle" /\ x.flag /\ Ends(x, q) => Ends(x, t)
  BY <1>2, <1>3 DEF Ends
<1>6. x.mode = "idle" /\ Returns(x, q) => Returns(x, t)
  BY <1>1, <1>2, <1>3 DEF Returns
<1>7. Owed(x, q, c, g) => Owed(x, t, c, g)
  <2>1. ~x.flag /\ x.mode = "idle" /\ Parked(q, c, g) => Parked(t, c, g)
    BY <1>2, <1>3 DEF Parked
  <2>2. x.mode = "bt" /\ x.flag /\ (Doing(x) \/ In(q, "play") \/ In(q, "off") \/ In(q, "tone"))
        => Doing(x) \/ In(t, "play") \/ In(t, "off") \/ In(t, "tone")
    BY <1>2, <1>3
  <2>3. QED
    BY <1>4, <1>5, <1>6, <2>1, <2>2 DEF Owed
<1>8. Going(x, t, lk, c, g, s)
  BY <1>2, <1>7 DEF Going, Held
<1>9. Stride(x, q, x, t, lk, c, g, s)
  BY <1>2, <1>3, <1>8 DEF Stride, Asked, Answers, Turn
<1>10. QED
  BY <1>9 DEF t

\* A return to the Bluetooth mode.
LEMMA BackStride ==
    ASSUME NEW x \in Bud, NEW q \in Seq(Messages), q # <<>>, Head(q) = "bt", x.mode = "idle",
           NEW lk, NEW c, NEW g, NEW s, Going(x, q, lk, c, g, s)
    PROVE  Stride(x, q, bt_mode_init(x), Tail(q), lk, c, g, s)
<1> DEFINE t == Tail(q)
           y == bt_mode_init(x)
<1>1. /\ More(q, t, "bt") /\ (Covered(q) => Covered(t))
      /\ (Behind(q) => In(t, "play") \/ In(t, "off"))
  BY InTail
<1> HIDE DEF t
<1>2. /\ In(q, "play") <=> In(t, "play")
      /\ In(q, "off") <=> In(t, "off")
      /\ In(q, "bt")
      /\ In(q, "sync") <=> In(t, "sync")
      /\ In(q, "tone") <=> In(t, "tone")
      /\ In(q, "out") <=> In(t, "out")
  BY <1>1 DEF More
<1>3. /\ y.mode = "bt" /\ y.flag = x.flag /\ y.saved = x.saved /\ y.wait_exit = 0
      /\ y.polls = x.polls /\ y.late = x.late /\ y.retry = x.retry /\ y.tone = x.tone
      /\ y \in Bud
  <2> DEFINE u == [x EXCEPT !.mode = "bt"]
             v == [u EXCEPT !.wait_exit = 0]
             w == [v EXCEPT !.exiting = FALSE]
  <2>1. u \in Bud /\ u.mode = "bt" /\ u.flag = x.flag /\ u.saved = x.saved
        /\ u.polls = x.polls /\ u.late = x.late /\ u.retry = x.retry /\ u.tone = x.tone
    BY DEF Bud
  <2> HIDE DEF u
  <2>2. v \in Bud /\ v.mode = "bt" /\ v.flag = x.flag /\ v.saved = x.saved /\ v.wait_exit = 0
        /\ v.polls = x.polls /\ v.late = x.late /\ v.retry = x.retry /\ v.tone = x.tone
    <3> u \in Bud /\ 0 \in 0..4
      BY <2>1
    <3>1. v \in Bud
      BY SMTT(30) DEF Bud
    <3>2. /\ v.mode = u.mode /\ v.flag = u.flag /\ v.saved = u.saved /\ v.wait_exit = 0
          /\ v.polls = u.polls /\ v.late = u.late /\ v.retry = u.retry /\ v.tone = u.tone
      BY DEF Bud
    <3> HIDE DEF v
    <3>3. QED
      BY <2>1, <3>1, <3>2
  <2> HIDE DEF v
  <2>3. w \in Bud /\ w.mode = "bt" /\ w.flag = x.flag /\ w.saved = x.saved /\ w.wait_exit = 0
        /\ w.polls = x.polls /\ w.late = x.late /\ w.retry = x.retry /\ w.tone = x.tone
    BY <2>2 DEF Bud
  <2>4. y = w
    BY DEF bt_mode_init, u, v, Bud
  <2> HIDE DEF w, y
  <2>5. QED
    BY <2>3, <2>4
<1> HIDE DEF y
<1>4. Active(y) = Active(x) /\ (Same(y) <=> Same(x)) /\ (Doing(y) <=> Doing(x))
  BY <1>3 DEF Active, Same, Doing
<1>5. Going(y, t, lk, c, g, s)
  <2>1. Quiet(x, q) => Quiet(y, t)
    BY <1>1, <1>2, <1>4 DEF Quiet
  <2>2. x.flag /\ Owed(x, q, c, g) => Doing(y) \/ In(t, "play") \/ In(t, "off") \/ In(t, "tone")
    BY <1>1, <1>2, <1>4 DEF Owed, Ends, Returns
  <2>3. Owed(x, q, c, g) => Owed(y, t, c, g)
    BY <1>3, <2>1, <2>2 DEF Owed
  <2>4. QED
    BY <1>2, <1>3, <1>4, <2>3 DEF Going, Calm, Held, Up
<1>6. Turn(Pow(x, s), Pow(y, s))
  BY <1>3 DEF Turn, Pow, Up
<1>7. Stride(x, q, y, t, lk, c, g, s)
  BY <1>2, <1>3, <1>4, <1>5, <1>6 DEF Stride, Asked, Answers, Up
<1>8. QED
  BY <1>7 DEF t, y

\* The mode is left, or this is tried again later.
LEMMA LeaveStride ==
    ASSUME NEW x \in Bud, NEW q \in Seq(Messages), q # <<>>, x.mode = "bt", x.wait_exit <= 3,
           NEW m, Head(q) = m, m = "play" \/ m = "off",
           NEW lk, NEW c, NEW g, NEW s, Going(x, q, lk, c, g, s),
           NEW r \in app_mode_switch_handler(x, Tail(q), m, FALSE)
    PROVE  Stride(x, q, r.x, r.q, lk, c, g, s)
<1> DEFINE t == Tail(q)
           u == bt_mode_try_exit(x)
<1>1. /\ More(q, t, m)
  BY InTail
<1>2. ~s => x.flag
  <2>1. In(q, "play") \/ In(q, "off")
    BY <1>1 DEF More
  <2>2. QED
    BY <2>1 DEF Going, Owed, Quiet, Up
<1>3. /\ In(q, "bt") <=> In(t, "bt")
      /\ In(q, "sync") <=> In(t, "sync")
      /\ In(q, "out") <=> In(t, "out")
  BY <1>1 DEF More
<1>4. CASE MayLeave(x)
  <2> DEFINE y == [u EXCEPT !.mode = "idle"]
             z == [y EXCEPT !.tone = @ \cup {"local"}]
             p == r.q
  <2>1. u = [x EXCEPT !.wait_exit = 4] /\ ~lk
    BY <1>4 DEF bt_mode_try_exit, MayLeave, Bud, Going, Calm
  <2> HIDE DEF u
  <2>2. /\ u \in Bud /\ u.mode = "bt" /\ u.flag = x.flag /\ u.saved = x.saved /\ u.auto = x.auto
        /\ u.polls = x.polls
    BY <2>1 DEF Bud
  <2>3. r \in idle_mode_enter(u, t, m)
    BY <1>4 DEF app_mode_switch_handler, u
  <2>4. \/ r.x = y /\ r.q = t /\ ~x.flag
        \/ r.x = y /\ r.q = <<"softoff">> /\ x.flag
        \/ r.x = z /\ r.q = <<>> /\ x.flag
    BY <2>2, <2>3 DEF idle_mode_enter
  <2>5. /\ y \in Bud /\ y.mode = "idle" /\ y.flag = x.flag /\ y.saved = x.saved /\ y.auto = x.auto
        /\ y.polls = x.polls
    BY <2>2 DEF Bud
  <2> HIDE DEF y
  <2>6. /\ z \in Bud /\ z.mode = "idle" /\ z.flag = x.flag /\ z.saved = x.saved /\ z.auto = x.auto
        /\ z.polls = x.polls /\ "local" \in z.tone
    BY <2>5 DEF Bud
  <2> HIDE DEF z
  <2> DEFINE w == r.x
  <2>7. /\ w \in Bud /\ w.mode = "idle" /\ w.flag = x.flag /\ w.saved = x.saved /\ w.auto = x.auto
        /\ w.polls = x.polls
        /\ x.flag => ~In(p, "bt") /\ ("local" \in w.tone \/ In(p, "softoff"))
    BY <2>4, <2>5, <2>6, InShort
  <2>8. /\ In(p, "bt") => In(q, "bt")
        /\ In(p, "sync") => In(q, "sync")
        /\ In(p, "out") => In(q, "out")
    BY <1>3, <2>4, InShort
  <2> HIDE DEF w, p
  <2>9. Active(w) = Active(x) /\ (Same(w) <=> Same(x))
    BY <2>7 DEF Active, Same
  <2>10. Calm(w, lk)
    <3>1. x.wait_exit # 0
      BY <1>4 DEF MayLeave
    <3>2. QED
      BY <2>1, <2>7, <3>1 DEF Going, Calm
  <2>11. ~s => Owed(w, p, c, g)
    BY <1>2, <2>7 DEF Owed, Ends
  <2>12. Going(w, p, lk, c, g, s)
    BY <2>7, <2>8, <2>9, <2>10, <2>11 DEF Going, Held
  <2>13. Turn(Pow(x, s), Pow(w, s))
    BY <1>2, <2>7 DEF Turn, Pow, Up
  <2>14. Stride(x, q, w, p, lk, c, g, s)
    BY <2>1, <2>7, <2>8, <2>9, <2>12, <2>13 DEF Stride, Asked, Up
  <2>15. QED
    BY <2>14 DEF w, p
<1>5. CASE ~MayLeave(x)
  <2> DEFINE y == [u EXCEPT !.retry = TRUE, !.saved = m]
  <2>1. r.x = y /\ r.q = t
    BY <1>5 DEF app_mode_switch_handler, u
  <2>2. /\ u \in Bud /\ u.mode = "bt" /\ u.flag = x.flag /\ u.polls = x.polls
        /\ u.wait_exit # 0 => u.auto # "run"
        /\ u.wait_exit # 0 /\ ~u.exiting => ~lk
    <3>1. x.wait_exit \in 0..4 /\ Calm(x, lk)
      BY DEF Bud, Going
    <3>2. CASE x.wait_exit = 0
      <4> DEFINE v == [x EXCEPT !.wait_exit = 1]
                 w == [v EXCEPT !.exiting = TRUE]
                 z == [w EXCEPT !.auto = "none"]
      <4>1. v \in Bud /\ v.mode = "bt" /\ v.flag = x.flag /\ v.polls = x.polls
        BY DEF Bud
      <4> HIDE DEF v
      <4>2. w \in Bud /\ w.mode = "bt" /\ w.flag = x.flag /\ w.polls = x.polls /\ w.exiting = TRUE
        BY <4>1 DEF Bud
      <4> HIDE DEF w
      <4>3. z \in Bud /\ z.mode = "bt" /\ z.flag = x.flag /\ z.polls = x.polls
            /\ z.exiting = TRUE /\ z.auto = "none"
        BY <4>2 DEF Bud
      <4>4. u = z
        BY <3>2 DEF bt_mode_try_exit, v, w, Bud
      <4> HIDE DEF z, u
      <4>5. QED
        BY <4>3, <4>4
    <3>3. CASE x.wait_exit # 0 /\ x.exiting
      <4>1. u = x
        BY <3>3 DEF bt_mode_try_exit
      <4>2. QED
        BY <3>1, <4>1 DEF Calm
    <3>4. CASE x.wait_exit # 0 /\ ~x.exiting
      <4>1. u = [x EXCEPT !.wait_exit = @ + 1]
        BY <3>4 DEF bt_mode_try_exit
      <4>2. x.wait_exit + 1 \in 0..4
        BY <3>1
      <4> HIDE DEF u
      <4>3. u \in Bud /\ u.mode = "bt" /\ u.flag = x.flag /\ u.polls = x.polls /\ u.auto = x.auto
        BY <4>1, <4>2 DEF Bud
      <4>4. QED
        BY <3>1, <3>4, <4>3 DEF Calm
    <3>5. QED
      BY <3>2, <3>3, <3>4
  <2> HIDE DEF u
  <2>3. m \in Goto
    BY DEF Goto
  <2>4. /\ y \in Bud /\ y.mode = "bt" /\ y.flag = x.flag /\ y.polls = x.polls /\ y.retry
        /\ y.saved = m /\ y.auto = u.auto /\ y.wait_exit = u.wait_exit /\ y.exiting = u.exiting
    BY <2>2, <2>3 DEF Bud
  <2> HIDE DEF y, t
  <2>5. Active(y) = Active(x) /\ (Same(y) <=> Same(x)) /\ Doing(y)
    BY <2>4 DEF Active, Same, Doing
  <2>6. Calm(y, lk)
    BY <2>2, <2>4 DEF Calm
  <2>7. ~s => Owed(y, t, c, g)
    BY <1>2, <2>4, <2>5 DEF Owed
  <2>8. Going(y, t, lk, c, g, s)
    BY <1>3, <2>4, <2>5, <2>6, <2>7 DEF Going, Held
  <2>9. Turn(Pow(x, s), Pow(y, s))
    BY <2>4 DEF Turn, Pow, Up
  <2>10. Stride(x, q, y, t, lk, c, g, s)
    BY <1>3, <2>4, <2>5, <2>8, <2>9 DEF Stride, Asked, Answers, Up
  <2>11. QED
    BY <2>1, <2>10
<1>6. QED
  BY <1>4, <1>5

\* The call that asks both buds: an idle bud has left its charger, and comes back to the
\* Bluetooth mode with its power-off under way.
LEMMA SyncStride ==
    ASSUME NEW x, NEW n \in Nat, NEW e \in 0..MaxEvents, NEW s, Fine(x, n, e, s),
           NEW q \in Seq(Messages), q # <<>>, Head(q) = "sync",
           NEW lk, NEW c, NEW g, Going(x, q, lk, c, g, s), Up(x)
    PROVE  Stride(x, q, sys_enter_soft_poweroff(x, "NORMAL_TWS"), Tail(q), lk, c, g, s)
<1> DEFINE t == Tail(q)
           y == sys_enter_soft_poweroff(x, "NORMAL_TWS")
<1>1. x \in Bud
  BY DEF Fine
<1>2. CASE x.flag
  <2>1. y = x
    BY <1>2 DEF sys_enter_soft_poweroff
  <2>2. Stride(x, q, x, t, lk, c, g, s)
    BY <1>1, <1>2, DroppedStride
  <2>3. QED
    BY <2>1, <2>2
<1>3. CASE ~x.flag
  <2>1. "NORMAL_TWS" \in Reasons
    BY DEF Reasons
  <2>2. /\ y \in Bud /\ Base([x EXCEPT !.auto = "none"], y) /\ y.flag /\ Active(y) # {}
    BY <1>3, <2>1, EnterOf
  <2> HIDE DEF y
  <2>3. /\ y.mode = x.mode /\ y.saved = x.saved /\ y.wait_exit = x.wait_exit
        /\ y.exiting = x.exiting /\ y.auto = "none"
    BY <1>1, <2>2 DEF Base, Bud
  <2>4. More(q, t, "sync")
    BY InTail
  <2> HIDE DEF t
  <2>5. /\ In(q, "bt") <=> In(t, "bt")
        /\ In(q, "out") <=> In(t, "out")
        /\ In(q, "sync")
    BY <2>4 DEF More
  <2>6. ~s /\ x.mode = "idle" => In(q, "bt")
    BY <1>3, <2>5 DEF Going, Owed, Parked, Up
  <2>7. ~s => Owed(y, t, c, g)
    BY <2>2, <2>3, <2>5, <2>6 DEF Owed, Returns, Doing
  <2>8. /\ Calm(y, lk) /\ Held(y, t) /\ ~Single
    BY <2>2, <2>3, <2>5 DEF Going, Calm, Held
  <2>9. Going(y, t, lk, c, g, s)
    BY <2>7, <2>8 DEF Going
  <2>10. NoRecall => Turn(Pow(x, s), Pow(y, s))
    <3> SUFFICES ASSUME NoRecall PROVE Turn(Pow(x, s), Pow(y, s))
      OBVIOUS
    <3>1. ~In(q, "bt")
      BY <2>8 DEF NoRecall, Going, Held
    <3>2. s \/ x.mode = "bt"
      BY <2>6, <3>1 DEF Up
    <3>3. QED
      BY <1>3, <2>2, <2>3, <3>2 DEF Turn, Pow, Up
  <2>11. Stride(x, q, y, t, lk, c, g, s)
    BY <2>2, <2>3, <2>5, <2>9, <2>10 DEF Stride, Asked, Answers, Up
  <2>12. QED
    BY <2>11 DEF y, t
<1>4. QED
  BY <1>2, <1>3

\* The tone that both buds play together begins.
LEMMA ToneStride ==
    ASSUME NEW x \in Bud, NEW q \in Seq(Messages), q # <<>>, Head(q) = "tone",
           NEW lk, NEW c, NEW g, NEW s, Going(x, q, lk, c, g, s), Up(x)
    PROVE  Stride(x, q, [x EXCEPT !.tone = @ \cup {"shared"}], Tail(q), lk, c, g, s)
<1> DEFINE t == Tail(q)
           y == [x EXCEPT !.tone = @ \cup {"shared"}]
<1>1. More(q, t, "tone") /\ ~Covered(q)
  BY InTail
<1> HIDE DEF t
<1>2. /\ In(q, "bt") <=> In(t, "bt")
      /\ In(q, "softoff") <=> In(t, "softoff")
      /\ In(q, "sync") <=> In(t, "sync")
      /\ In(q, "out") <=> In(t, "out")
  BY <1>1 DEF More
<1>3. ~s => x.flag
  BY <1>1 DEF Going, Owed, Quiet
<1>4. Lean(x, y) /\ "shared" \in y.tone
  BY DEF Lean, Bud, Active, Same
<1> HIDE DEF y
<1>5. Doing(y)
  BY <1>4 DEF Doing
<1>6. ~s /\ y.mode = "idle" => Ends(y, t) \/ Returns(y, t)
  BY <1>2, <1>3, <1>4, <1>5 DEF Going, Owed, Ends, Returns, Lean, Up
<1>7. ~s => Owed(y, t, c, g)
  BY <1>3, <1>4, <1>5, <1>6 DEF Owed, Lean
<1>8. Calm(y, lk) /\ Held(y, t)
  BY <1>2, <1>4 DEF Going, Calm, Held, Lean
<1>9. Going(y, t, lk, c, g, s)
  BY <1>2, <1>7, <1>8 DEF Going
<1>10. Stride(x, q, y, t, lk, c, g, s)
  BY <1>2, <1>4, <1>9, LeanTurn DEF Stride, Asked, Answers, Lean
<1>11. QED
  BY <1>10 DEF y, t

\* The LED effect is to end before the bud is off.
LEMMA LedStride ==
    ASSUME NEW x \in Bud, NEW q \in Seq(Messages), q # <<>>, Head(q) = "softoff",
           x.mode = "idle", x.flag,
           NEW lk, NEW c, NEW g, NEW s, Going(x, q, lk, c, g, s)
    PROVE  Stride(x, q, [x EXCEPT !.led = "wait"], Tail(q), lk, c, g, s)
<1> DEFINE t == Tail(q)
           y == [x EXCEPT !.led = "wait"]
<1>1. More(q, t, "softoff") /\ (Behind(q) /\ In(t, "bt") => Behind(t))
  BY InTail
<1> HIDE DEF t
<1>2. /\ In(q, "bt") <=> In(t, "bt")
      /\ In(q, "tone") <=> In(t, "tone")
      /\ In(q, "sync") <=> In(t, "sync")
      /\ In(q, "out") <=> In(t, "out")
  BY <1>1 DEF More
<1>3. /\ y \in Bud /\ y.mode = "idle" /\ y.flag /\ y.saved = x.saved /\ y.auto = x.auto
      /\ y.led = "wait" /\ y.polls = x.polls /\ y.late = x.late /\ y.retry = x.retry
      /\ y.tone = x.tone
  BY DEF Bud
<1> HIDE DEF y
<1>4. Active(y) = Active(x) /\ (Same(y) <=> Same(x)) /\ (Doing(y) <=> Doing(x))
  BY <1>3 DEF Active, Same, Doing
<1>5. ~s => Ends(y, t) \/ Returns(y, t)
  BY <1>1, <1>2, <1>3, <1>4 DEF Going, Owed, Ends, Returns, Up
<1>6. ~s => Owed(y, t, c, g)
  BY <1>3, <1>5 DEF Owed
<1>7. Calm(y, lk) /\ Held(y, t)
  BY <1>2, <1>3, <1>4 DEF Going, Calm, Held
<1>8. Going(y, t, lk, c, g, s)
  BY <1>2, <1>6, <1>7 DEF Going
<1>9. Turn(Pow(x, s), Pow(y, s))
  BY <1>3 DEF Turn, Pow, Up
<1>10. Stride(x, q, y, t, lk, c, g, s)
  BY <1>2, <1>3, <1>4, <1>8, <1>9 DEF Stride, Asked, Answers, Up
<1>11. QED
  BY <1>10 DEF y, t

\* The automatic power-off is armed, or its timer is not one any more.
LEMMA AutoGoes ==
    ASSUME NEW x \in Bud, NEW a \in {"none", "run", "stale"},
           a = "run" => x.mode = "bt" /\ x.wait_exit = 0
    PROVE  LET y == [x EXCEPT !.auto = a]
           IN  /\ y \in Bud /\ y.mode = x.mode /\ y.flag = x.flag /\ (Same(y) <=> Same(x))
               /\ \A q, lk, c, g, s : Going(x, q, lk, c, g, s) => Going(y, q, lk, c, g, s)
               /\ \A s : Pow(y, s) = Pow(x, s)
<1> DEFINE y == [x EXCEPT !.auto = a]
<1>1. /\ y \in Bud /\ y.mode = x.mode /\ y.flag = x.flag /\ y.saved = x.saved /\ y.auto = a
      /\ y.wait_exit = x.wait_exit /\ y.exiting = x.exiting
      /\ y.led = x.led /\ y.polls = x.polls /\ y.late = x.late /\ y.retry = x.retry
      /\ y.tone = x.tone
  BY DEF Bud
<1> HIDE DEF y
<1>2. Active(y) = Active(x) /\ (Same(y) <=> Same(x)) /\ (Doing(y) <=> Doing(x))
  BY <1>1 DEF Active, Same, Doing
<1>3. ASSUME NEW q, NEW lk, NEW c, NEW g, NEW s, Going(x, q, lk, c, g, s)
      PROVE  Going(y, q, lk, c, g, s)
  <2>1. Calm(y, lk) /\ Held(y, q)
    BY <1>1, <1>2, <1>3 DEF Going, Calm, Held
  <2>2. Owed(x, q, c, g) => Owed(y, q, c, g)
    BY <1>1, <1>2 DEF Owed, Quiet, Ends, Returns
  <2>3. QED
    BY <1>1, <1>3, <2>1, <2>2 DEF Going, Up
<1>4. \A s : Pow(y, s) = Pow(x, s)
  BY <1>1 DEF Pow, Up
<1>5. QED
  BY <1>1, <1>2, <1>3, <1>4 DEF y

\* The bud was taken out of its charger: d says that this spoils the power-off.
Recalled(x, q, y, p, lk, c, g, s, d) ==
    /\ y \in Bud /\ p \in Seq(Messages) /\ Going(y, p, lk, c, g, d)
    /\ Up(y) /\ (Asked(y, p) => Asked(x, q))
    /\ lk /\ ~d /\ Answers(x, q) => Answers(y, p)
    /\ Turn(Pow(x, s), Pow(y, d))

LEMMA OutGoes ==
    ASSUME NEW x \in Bud, NEW q \in Seq(Messages), q # <<>>, Head(q) = "out",
           NEW lk, NEW c, NEW g, NEW s, Going(x, q, lk, c, g, s), Up(x),
           NEW p, p = IF x.mode = "idle" THEN Append(Tail(q), "bt") ELSE Tail(q),
           NEW d, s => d,
           x.flag /\ (x.mode = "bt" \/ Doing(x) \/ In(q, "play") \/ In(q, "off") \/ In(q, "tone"))
           => d
    PROVE  Recalled(x, q, [x EXCEPT !.flag = FALSE], p, lk, c, g, s, d)
<1> DEFINE t == Tail(q)
           y == [x EXCEPT !.flag = FALSE]
<1>1. t \in Seq(Messages) /\ More(q, t, "out") /\ (Covered(q) => Covered(t))
  BY InTail
<1>2. "bt" \in Messages
  BY DEF Messages, Goto
<1> DEFINE r == Append(t, "bt")
<1>3. r \in Seq(Messages) /\ More(r, t, "bt") /\ (Covered(t) => Covered(r))
  BY <1>1, <1>2, InAppend
<1> HIDE DEF r
<1>4. p = IF x.mode = "idle" THEN r ELSE t
  BY DEF r
<1> HIDE DEF t
<1>5. /\ p \in Seq(Messages)
      /\ In(q, "play") <=> In(p, "play")
      /\ In(q, "off") <=> In(p, "off")
      /\ In(q, "sync") <=> In(p, "sync")
      /\ In(q, "tone") <=> In(p, "tone")
      /\ In(q, "out")
      /\ x.mode = "idle" => In(p, "bt")
      /\ Covered(q) => Covered(p)
  BY <1>1, <1>3, <1>4 DEF More
<1>6. /\ y \in Bud /\ y.mode = x.mode /\ ~y.flag /\ y.saved = x.saved /\ y.auto = x.auto
      /\ y.wait_exit = x.wait_exit /\ y.exiting = x.exiting
      /\ y.led = x.led /\ y.polls = x.polls /\ y.late = x.late /\ y.retry = x.retry
      /\ y.tone = x.tone
  BY DEF Bud
<1> HIDE DEF y
<1>7. Active(y) = Active(x) /\ (Same(y) <=> Same(x)) /\ (Doing(y) <=> Doing(x))
  BY <1>6 DEF Active, Same, Doing
<1>8. Calm(y, lk) /\ Held(y, p)
  BY <1>5, <1>6 DEF Going, Calm, Held
<1>9. ~In(p, "tone") => Covered(p)
  BY DEF In, Covered
<1>10. ~d => Quiet(y, p)
  <2>1. CASE x.flag
    BY <1>5, <1>7, <1>9, <2>1 DEF Quiet
  <2>2. CASE ~x.flag
    BY <1>5, <1>7, <2>2 DEF Going, Owed, Quiet
  <2>3. QED
    BY <2>1, <2>2
<1>11. ~d => Owed(y, p, c, g)
  BY <1>5, <1>6, <1>10 DEF Owed, Parked
<1>12. Single => ~In(p, "sync")
  BY <1>5 DEF Going
<1>13. Going(y, p, lk, c, g, d)
  BY <1>8, <1>11, <1>12 DEF Going
<1>14. lk /\ ~d /\ Answers(x, q) => Answers(y, p)
  BY <1>5 DEF Answers, Going, Calm, Up
<1>15. Turn(Pow(x, s), Pow(y, d))
  BY <1>6 DEF Turn, Pow, Up
<1>16. QED
  BY <1>5, <1>6, <1>7, <1>13, <1>14, <1>15 DEF y, Up, Asked, Recalled

(***************************************************************************)
(* The actions.                                                            *)
(***************************************************************************)

LEMMA OnwayOf ==
    ASSUME IInv, Onway, NEW b \in Buds
    PROVE  /\ bud[b] \in Bud /\ queue[b] \in Seq(Messages)
           /\ bud \in [Buds -> Bud] /\ queue \in [Buds -> Seq(Messages)]
           /\ N(queue[b]) \in Nat /\ events \in 0..MaxEvents
           /\ Fine(bud[b], N(queue[b]), events, b \in spoilt)
           /\ Going(bud[b], queue[b], link, b \in sync, b \in charger, b \in spoilt)
<1>1. Core
  BY DEF IInv
<1>2. QED
  BY <1>1, CoreOf DEF Onway, Core

LEMMA Striding ==
    ASSUME IInv, Onway, NEW b \in Buds, UNCHANGED <<spoilt, charger, link, sync>>,
           NEW y, NEW q, Set(b, y), queue' = [queue EXCEPT ![b] = q],
           Stride(bud[b], queue[b], y, q, link, b \in sync, b \in charger, b \in spoilt)
    PROVE  Onway' /\ Goes
<1>1. link => sync = {} \/ sync = Buds
  BY DEF Onway, Together
<1>2. Frame(b)
  BY <1>1 DEF Frame
<1>3. y \in Bud
  BY DEF Stride
<1>4. Move(b, y, q)
  BY DEF Stride, Move
<1>5. QED
  BY <1>2, <1>3, <1>4, OneOnway

\* Its state alone changes.
LEMMA StridingAlone ==
    ASSUME IInv, Onway, NEW b \in Buds, UNCHANGED <<spoilt, charger, link, sync, queue>>,
           NEW y, Set(b, y),
           Stride(bud[b], queue[b], y, queue[b], link, b \in sync, b \in charger, b \in spoilt)
    PROVE  Onway' /\ Goes
<1>1. queue' = [queue EXCEPT ![b] = queue[b]]
  BY OnwayOf
<1>2. QED
  BY <1>1, Striding

\* Its state and queue stay: the links, the chargers and the calls may change.
LEMMA StillOnway ==
    ASSUME IInv, Onway, UNCHANGED <<bud, queue, spoilt, charger>>,
           link' => link,
           sync' \subseteq sync \/ (link /\ sync' = Buds),
           link' => sync' = sync \/ sync' = {} \/ sync' = Buds
    PROVE  Onway' /\ Goes
<1>1. ASSUME NEW c \in Buds
      PROVE  Going(bud'[c], queue'[c], link', c \in sync', c \in charger', c \in spoilt')
  <2> DEFINE x == bud[c]
             q == queue[c]
  <2>1. Going(x, q, link, c \in sync, c \in charger, c \in spoilt)
    BY DEF Onway
  <2>2. c \in sync' => c \in sync \/ link
    OBVIOUS
  <2> HIDE DEF x, q
  <2>3. Going(x, q, link', c \in sync', c \in charger, c \in spoilt)
    BY <2>1, <2>2 DEF Going, Calm, Owed, Parked
  <2>4. QED
    BY <2>3 DEF x, q
<1>2. Together'
  <2>1. link' => sync' = {} \/ sync' = Buds
    BY DEF Onway, Together
  <2>2. QED
    BY <2>1 DEF Onway, Together
<1>3. Single => ~link' /\ sync' = {}
  BY DEF Onway
<1>4. power' = power
  BY DEF power, Alive
<1>5. Goes
  BY <1>4 DEF Goes
<1>6. QED
  BY <1>1, <1>2, <1>3, <1>5 DEF Onway

LEMMA StrideTaken ==
    ASSUME IInv, Onway, NEW b \in Buds, UNCHANGED <<spoilt, charger, link, sync>>,
           NEW m, Take(b, m), NEW y, Set(b, y),
           Stride(bud[b], queue[b], y, Tail(queue[b]), link, b \in sync, b \in charger, b \in spoilt)
    PROVE  Onway' /\ Goes
<1>1. queue' = [queue EXCEPT ![b] = Tail(queue[b])]
  BY DEF Take, Rest
<1>2. QED
  BY <1>1, Striding

LEMMA StridePosted ==
    ASSUME IInv, Onway, NEW b \in Buds, UNCHANGED <<spoilt, charger, link, sync>>,
           NEW m, Post(b, m), NEW y, Set(b, y),
           Stride(bud[b], queue[b], y, Append(queue[b], m), link, b \in sync, b \in charger,
                  b \in spoilt)
    PROVE  Onway' /\ Goes
<1>1. queue' = [queue EXCEPT ![b] = Append(queue[b], m)]
  BY DEF Post
<1>2. QED
  BY <1>1, Striding

\* Nothing about the bud changes.
LEMMA SameStride ==
    ASSUME NEW x \in Bud, NEW q, NEW lk, NEW c, NEW g, NEW s, Going(x, q, lk, c, g, s)
    PROVE  Stride(x, q, x, q, lk, c, g, s)
BY DEF Stride, Turn

\* A power-off that begins in the Bluetooth mode, x being the bud or the bud with its
\* automatic power-off over.
LEMMA SoftOnway ==
    ASSUME IInv, Onway, NEW b \in Buds, UNCHANGED <<spoilt, charger, link, sync, queue>>,
           NEW x, x = bud[b] \/ x = [bud[b] EXCEPT !.auto = "stale"], bud[b].mode = "bt",
           NEW reason \in Reasons, reason # "NORMAL_TWS", SoftPoweroff(b, x, reason)
    PROVE  Onway' /\ Goes
<1> DEFINE w == bud[b]
           q == queue[b]
           n == N(queue[b])
           c == b \in sync
           g == b \in charger
           s == b \in spoilt
           y == sys_enter_soft_poweroff(x, reason)
<1>1. /\ w \in Bud /\ n \in Nat /\ events \in 0..MaxEvents /\ Fine(w, n, events, s)
      /\ Going(w, q, link, c, g, s)
  BY OnwayOf
<1> HIDE DEF w, q, n, c, g, s
<1>2. /\ x \in Bud /\ x.mode = w.mode /\ x.flag = w.flag /\ (Same(x) <=> Same(w))
      /\ Going(x, q, link, c, g, s) /\ Pow(x, s) = Pow(w, s)
      /\ Fine(x, n, events, s)
  <2>1. CASE x = w
    BY <1>1, <2>1
  <2>2. CASE x = [w EXCEPT !.auto = "stale"]
    BY <1>1, <2>2, AutoGoes, FineFields
  <2>3. QED
    BY <2>1, <2>2 DEF w
<1>3. w.mode = "bt"
  BY DEF w
<1>4. /\ y \in Bud /\ y.mode = "bt" /\ (Same(y) => Same(x)) /\ (x.flag => y.flag)
      /\ Going(y, q, link, c, g, s) /\ Turn(Pow(x, s), Pow(y, s))
  BY <1>1, <1>2, <1>3, EnterGoes
<1> HIDE DEF y
<1>5. Stride(w, q, y, q, link, c, g, s)
  BY <1>2, <1>3, <1>4 DEF Stride, Asked, Answers, Up
<1>6. Set(b, y)
  BY DEF SoftPoweroff, y
<1>7. QED
  BY <1>5, <1>6, StridingAlone DEF w, q, c, g, s

\* The same for a message that is handled.
LEMMA SoftTaken ==
    ASSUME IInv, Onway, NEW b \in Buds, UNCHANGED <<spoilt, charger, link, sync>>,
           NEW m, Take(b, m), m = "in" \/ m = "keep", bud[b].mode = "bt",
           NEW reason \in Reasons, reason # "NORMAL_TWS", SoftPoweroff(b, bud[b], reason)
    PROVE  Onway' /\ Goes
<1> DEFINE x == bud[b]
           q == queue[b]
           t == Tail(queue[b])
           n == N(queue[b])
           c == b \in sync
           g == b \in charger
           s == b \in spoilt
           y == sys_enter_soft_poweroff(x, reason)
<1>1. /\ x \in Bud /\ n \in Nat /\ events \in 0..MaxEvents /\ Fine(x, n, events, s)
      /\ q \in Seq(Messages) /\ Going(x, q, link, c, g, s)
  BY OnwayOf
<1>2. q # <<>> /\ Head(q) \in {"in", "keep", "phone"} /\ x.mode = "bt"
  BY DEF Take, Next1
<1>3. Going(x, t, link, c, g, s)
  BY <1>1, <1>2, OtherTaken
<1>4. Stride(x, q, x, t, link, c, g, s)
  BY <1>1, <1>2, DroppedStride DEF Up
<1> HIDE DEF x, q, t, n, c, g, s
<1>5. /\ y \in Bud /\ y.mode = "bt" /\ (Same(y) => Same(x)) /\ (x.flag => y.flag)
      /\ Going(y, t, link, c, g, s) /\ Turn(Pow(x, s), Pow(y, s))
  BY <1>1, <1>2, <1>3, EnterGoes
<1> HIDE DEF y
<1>6. Stride(x, q, y, t, link, c, g, s)
  BY <1>2, <1>4, <1>5 DEF Stride, Asked, Answers, Up
<1>7. Set(b, y)
  BY DEF SoftPoweroff, y, x
<1>8. QED
  BY <1>6, <1>7, StrideTaken DEF x, q, t, c, g, s

\* A key, or three minutes without a phone.
LEMMA SyncOnway ==
    ASSUME IInv, Onway, NEW b \in Buds, bud[b].mode = "bt",
           NEW x, x = bud[b] \/ x = [bud[b] EXCEPT !.auto = "stale"],
           tws_sync_poweroff(b, x), UNCHANGED <<queue, spoilt, charger, link>>
    PROVE  Onway' /\ Goes
<1>1. CASE link
  <2> DEFINE w == bud[b]
             q == queue[b]
             g == b \in charger
             s == b \in spoilt
  <2>1. sync' = sync \cup Buds /\ Set(b, x)
    BY <1>1 DEF tws_sync_poweroff
  <2>2. sync \subseteq Buds
    BY DEF IInv, Sets
  <2>3. sync' = Buds
    BY <2>1, <2>2
  <2>4. w \in Bud /\ Going(w, q, link, b \in sync, g, s) /\ queue \in [Buds -> Seq(Messages)]
    BY OnwayOf
  <2>5. queue' = [queue EXCEPT ![b] = q]
    BY <2>4
  <2> HIDE DEF w, q, g, s
  <2>6. /\ x \in Bud /\ x.mode = w.mode /\ x.flag = w.flag /\ (Same(x) <=> Same(w))
        /\ Going(x, q, link, b \in sync, g, s) /\ Pow(x, s) = Pow(w, s)
    <3>1. CASE x = w
      BY <2>4, <3>1
    <3>2. CASE x = [w EXCEPT !.auto = "stale"]
      BY <2>4, <3>2, AutoGoes
    <3>3. QED
      BY <3>1, <3>2 DEF w
  <2>7. w.mode = "bt"
    BY DEF w
  <2>8. Going(x, q, link, TRUE, g, s)
    BY <2>6, <2>7 DEF Going, Owed
  <2>9. Frame(b)
    BY <1>1, <2>3 DEF Frame
  <2>10. Going(x, q, link', b \in sync', b \in charger', b \in spoilt')
    BY <2>3, <2>8 DEF g, s
  <2>11. Move(b, x, q)
    BY <2>6, <2>10 DEF Move, Asked, Answers, Up, Turn, w, q, s
  <2>12. QED
    BY <2>1, <2>5, <2>6, <2>9, <2>11, OneOnway
<1>2. CASE ~link
  <2>1. SoftPoweroff(b, x, "NORMAL") /\ UNCHANGED sync
    BY <1>2 DEF tws_sync_poweroff
  <2>2. "NORMAL" \in Reasons
    BY DEF Reasons
  <2>3. QED
    BY <2>1, <2>2, SoftOnway
<1>3. QED
  BY <1>1, <1>2

\* A bud that was to go off, or is idle, is off or starts again.
LEMMA GoneOnway ==
    ASSUME IInv, Onway, NEW b \in Buds, UNCHANGED <<spoilt, charger, link, sync>>, Alive(b),
           NEW m \in {"off", "reset"}, Set(b, Blank(m)),
           b \notin spoilt /\ bud[b].mode = "bt" => bud[b].flag,
           UNCHANGED queue \/ (queue[b] # <<>> /\ queue' = [queue EXCEPT ![b] = Rest(b)])
    PROVE  Onway' /\ Goes
<1> DEFINE x == bud[b]
           q == queue[b]
           c == b \in sync
           g == b \in charger
           s == b \in spoilt
<1>1. q \in Seq(Messages) /\ Going(x, q, link, c, g, s) /\ Up(x)
  BY OnwayOf DEF Alive, Up
<1>2. CASE UNCHANGED queue
  <2>1. Stride(x, q, Blank(m), q, link, c, g, s)
    BY <1>1, GoneStride
  <2>2. QED
    BY <1>2, <2>1, StridingAlone
<1>3. CASE queue[b] # <<>> /\ queue' = [queue EXCEPT ![b] = Rest(b)]
  <2> DEFINE t == Tail(q)
  <2>1. More(q, t, Head(q))
    BY <1>1, <1>3, InTail
  <2>2. Stride(x, q, Blank(m), t, link, c, g, s)
    BY <1>1, <2>1, GoneStride DEF More
  <2>3. QED
    BY <1>3, <2>2, Striding DEF Rest
<1>4. QED
  BY <1>2, <1>3

\* The tone that the master starts on both reaches a bud that was asked, or is about to be.
LEMMA ToneAdded ==
    ASSUME NEW x, NEW q \in Seq(Messages), NEW lk, NEW c, NEW g, NEW s,
           Going(x, q, lk, c, g, s), ~s /\ Up(x) => Answers(x, q)
    PROVE  Going(x, Append(q, "tone"), lk, c, g, s)
<1> DEFINE p == Append(q, "tone")
<1>1. "tone" \in Messages
  BY DEF Messages
<1>2. More(p, q, "tone") /\ (Covered(q) /\ In(q, "sync") => Covered(p))
      /\ (Behind(q) => Behind(p))
  BY <1>1, InAppend
<1> HIDE DEF p
<1>3. /\ In(q, "play") <=> In(p, "play")
      /\ In(q, "off") <=> In(p, "off")
      /\ In(q, "bt") <=> In(p, "bt")
      /\ In(q, "softoff") <=> In(p, "softoff")
      /\ In(q, "sync") <=> In(p, "sync")
      /\ In(q, "out") <=> In(p, "out")
      /\ In(p, "tone")
  BY <1>2 DEF More
<1>4. Owed(x, q, c, g) /\ Answers(x, q) => Owed(x, p, c, g)
  BY <1>2, <1>3 DEF Owed, Answers, Quiet, Parked, Ends, Returns
<1>5. Going(x, p, lk, c, g, s)
  BY <1>3, <1>4 DEF Going, Held
<1>6. QED
  BY <1>5 DEF p

\* The timer goes, the tone comes.
LEMMA ToneNext ==
    ASSUME NEW x \in Bud, NEW q \in Seq(Messages), NEW lk, NEW c, NEW g, NEW s,
           Going(x, q, lk, c, g, s), Up(x), Active(x) # {}, lk
    PROVE  Going(DelPoll(x), Append(q, "tone"), lk, c, g, s)
<1> DEFINE p == Append(q, "tone")
           y == DelPoll(x)
<1>1. "tone" \in Messages
  BY DEF Messages
<1>2. More(p, q, "tone")
  BY <1>1, InAppend
<1>3. Lean(x, y) /\ (~s => x.flag)
  <2>1. Doing(x)
    BY DEF Doing
  <2>2. ~s => x.flag
    BY <2>1 DEF Going, Owed, Quiet
  <2>3. QED
    BY <2>2, DelLean
<1> HIDE DEF p, y
<1>4. /\ In(q, "bt") <=> In(p, "bt")
      /\ In(q, "sync") <=> In(p, "sync")
      /\ In(q, "out") <=> In(p, "out")
      /\ In(p, "tone")
  BY <1>2 DEF More
<1>5. x.mode = "bt"
  BY DEF Going, Calm, Up
<1>6. ~s => Owed(y, p, c, g)
  BY <1>3, <1>4, <1>5 DEF Owed, Lean
<1>7. Calm(y, lk) /\ Held(y, p)
  BY <1>3, <1>4 DEF Going, Calm, Held, Lean
<1>8. Going(y, p, lk, c, g, s)
  BY <1>4, <1>6, <1>7 DEF Going
<1>9. QED
  BY <1>8 DEF p, y

LEMMA ToneOnway ==
    ASSUME IInv, Onway, NEW b \in Buds, Alive(b), Active(bud[b]) # {}, Same(bud[b]), link,
           UNCHANGED <<spoilt, charger, link, sync>>, Set(b, DelPoll(bud[b])),
           NEW S \in SUBSET Buds, b \in S, PostAll(S, "tone")
    PROVE  Onway' /\ Goes
<1>1. bud \in [Buds -> Bud]
  BY OnwayOf
<1>2. /\ bud'[b] = DelPoll(bud[b]) /\ queue'[b] = Append(queue[b], "tone")
      /\ \A c \in Buds : c # b => bud'[c] = bud[c]
      /\ \A c \in Buds : queue'[c] = IF c \in S THEN Append(queue[c], "tone") ELSE queue[c]
  BY <1>1 DEF Set, PostAll
<1>3. Lean(bud[b], bud'[b])
  <2>1. Lean(bud[b], DelPoll(bud[b]))
    BY OnwayOf, DelLean
  <2>2. QED
    BY <1>2, <2>1
<1>4. ASSUME NEW c \in Buds, c # b, c \notin spoilt, Up(bud[c])
      PROVE  Answers(bud[c], queue[c])
  <2>1. Asked(bud[b], queue[b])
    BY DEF Asked
  <2>2. QED
    BY <1>4, <2>1 DEF Onway, Together
<1>5. ASSUME NEW c \in Buds
      PROVE  Going(bud'[c], queue'[c], link', c \in sync', c \in charger', c \in spoilt')
  <2>1. queue[c] \in Seq(Messages) /\ bud[c] \in Bud
        /\ Going(bud[c], queue[c], link, c \in sync, c \in charger, c \in spoilt)
    BY OnwayOf
  <2>2. CASE c = b
    <3>1. Going(DelPoll(bud[c]), Append(queue[c], "tone"), link, c \in sync, c \in charger,
                c \in spoilt)
      BY <2>1, <2>2, ToneNext DEF Alive, Up
    <3>2. QED
      BY <1>2, <2>2, <3>1
  <2>3. CASE c # b /\ c \in S
    <3>1. Going(bud[c], Append(queue[c], "tone"), link, c \in sync, c \in charger, c \in spoilt)
      BY <1>4, <2>1, <2>3, ToneAdded
    <3>2. QED
      BY <1>2, <2>3, <3>1
  <2>4. CASE c # b /\ c \notin S
    BY <1>2, <2>1, <2>4
  <2>5. QED
    BY <2>2, <2>3, <2>4
<1>6. \A c \in Buds : In(queue'[c], "sync") <=> In(queue[c], "sync")
  <2> SUFFICES ASSUME NEW c \in Buds PROVE In(queue'[c], "sync") <=> In(queue[c], "sync")
    OBVIOUS
  <2>1. queue[c] \in Seq(Messages) /\ "tone" \in Messages
    BY OnwayOf DEF Messages
  <2>2. In(Append(queue[c], "tone"), "sync") <=> In(queue[c], "sync")
    BY <2>1, InAppend DEF More
  <2>3. QED
    BY <1>2, <2>2
<1>7. \A c \in Buds : /\ Same(bud'[c]) => Same(bud[c])
                      /\ bud'[c].flag = bud[c].flag /\ bud'[c].mode = bud[c].mode
  BY <1>2, <1>3 DEF Lean
<1>8. Together'
  BY <1>6, <1>7 DEF Onway, Together, Asked, Answers, Up
<1>9. power' = power
  BY <1>7 DEF power, Alive
<1>10. QED
  BY <1>5, <1>8, <1>9 DEF Onway, Goes

LEMMA PollIs ==
    ASSUME IInv, Onway, NEW b \in Buds, NEW i \in Ids, NEW cb, bud[b].polls[i].cb = cb,
           cb # "none"
    PROVE  Active(bud[b]) # {} /\ bud[b].polls[i].why \in Reasons
<1>1. Core
  BY DEF IInv
<1>2. QED
  BY <1>1, PollOf

\* The tone cannot play on the master, and its power-off is spoilt.
LEMMA SilentOnway ==
    ASSUME IInv, Onway, NEW b \in Buds, Alive(b), Active(bud[b]) # {},
           UNCHANGED <<charger, link, sync, queue>>, spoilt' = spoilt \cup {b},
           Set(b, DelPoll(bud[b]))
    PROVE  Onway' /\ Goes
<1> DEFINE x == bud[b]
           q == queue[b]
           y == DelPoll(x)
<1>1. /\ x \in Bud /\ queue \in [Buds -> Seq(Messages)]
      /\ Going(x, q, link, b \in sync, b \in charger, b \in spoilt) /\ Up(x)
  BY OnwayOf DEF Alive, Up
<1>2. queue' = [queue EXCEPT ![b] = q]
  BY <1>1
<1>3. Lean(x, y)
  BY <1>1, DelLean
<1>4. link => sync = {} \/ sync = Buds
  BY DEF Onway, Together
<1>5. Frame(b)
  BY <1>4 DEF Frame
<1> HIDE DEF x, q, y
<1>6. Going(y, q, link', b \in sync', b \in charger', b \in spoilt')
  BY <1>1, <1>3 DEF Going, Calm, Held, Lean
<1>7. Turn(Pow(x, b \in spoilt), Pow(y, b \in spoilt'))
  BY <1>1 DEF Turn, Pow
<1>8. Move(b, y, q)
  BY <1>1, <1>3, <1>6, <1>7 DEF Move, Lean, Asked, Answers, x, q
<1>9. y \in Bud
  BY <1>3 DEF Lean
<1>10. QED
  BY <1>2, <1>5, <1>8, <1>9, OneOnway DEF x, y

LEMMA SameOnway ==
    ASSUME IInv, Onway, NEW b \in Buds, NEW i \in Ids, power_off_at_same_time(b, i)
    PROVE  Onway' /\ Goes
<1> DEFINE x == bud[b]
           q == queue[b]
<1>1. /\ x \in Bud /\ q \in Seq(Messages)
      /\ Going(x, q, link, b \in sync, b \in charger, b \in spoilt)
  BY OnwayOf
<1>2. Active(x) # {} /\ Same(x) /\ Up(x) /\ Alive(b)
  <2>1. x.polls[i].cb = "same" /\ Alive(b)
    BY DEF power_off_at_same_time
  <2>2. QED
    BY <2>1, PollIs DEF Same, Alive, Up
<1>3. UNCHANGED <<charger, link, sync>>
  BY DEF power_off_at_same_time
<1>4. CASE UNCHANGED <<spoilt, queue>> /\ Set(b, Tick(x))
  BY <1>1, <1>2, <1>3, <1>4, TickStride, StridingAlone
<1>5. CASE UNCHANGED <<spoilt, queue, bud>>
  BY <1>3, <1>5, StillOnway DEF Onway, Together
<1>6. CASE UNCHANGED spoilt /\ Set(b, DelPoll(x)) /\ Post(b, "play")
  BY <1>1, <1>2, <1>3, <1>6, PlayStride, StridePosted
<1>7. CASE UNCHANGED <<spoilt, queue>> /\ Set(b, DelPoll(SlaveWaits(x)))
  BY <1>1, <1>2, <1>3, <1>7, SlaveStride, StridingAlone
<1>8. ASSUME UNCHANGED spoilt, Set(b, DelPoll(x)), link,
             \E S \in SUBSET Buds : b \in S /\ PostAll(S, "tone")
      PROVE  Onway' /\ Goes
  BY <1>2, <1>3, <1>8, ToneOnway
<1>9. CASE spoilt' = spoilt \cup {b} /\ UNCHANGED queue /\ Set(b, DelPoll(x))
  BY <1>2, <1>3, <1>9, SilentOnway
<1>10. QED
  BY <1>4, <1>5, <1>6, <1>7, <1>8, <1>9 DEF power_off_at_same_time

LEMMA DetachOnway ==
    ASSUME IInv, Onway, NEW b \in Buds, NEW i \in Ids, wait_tws_detach_handler(b, i)
    PROVE  Onway' /\ Goes
<1> DEFINE x == bud[b]
           q == queue[b]
           n == N(queue[b])
           c == b \in sync
           g == b \in charger
           s == b \in spoilt
           y == AddPoll([DelPoll(x) EXCEPT !.cnt = 0], "exit", x.polls[i].why)
<1>1. /\ x \in Bud /\ n \in Nat /\ events \in 0..MaxEvents /\ Fine(x, n, events, s)
      /\ Going(x, q, link, c, g, s)
  BY OnwayOf
<1>2. x.polls[i].cb = "detach" /\ Up(x)
  BY DEF wait_tws_detach_handler, Alive, Up
<1>3. Active(x) # {} /\ x.polls[i].why \in Reasons
  BY <1>2, PollIs
<1>4. UNCHANGED <<charger, link, sync, spoilt, queue>> /\ (Set(b, Tick(x)) \/ Set(b, y))
  BY DEF wait_tws_detach_handler, world
<1>5. Stride(x, q, Tick(x), q, link, c, g, s)
  BY <1>1, <1>2, <1>3, TickStride
<1> HIDE DEF n, c, g, s
<1>6. Stride(x, q, y, q, link, c, g, s)
  BY <1>1, <1>2, <1>3, ExitStride
<1> HIDE DEF y
<1>7. QED
  BY <1>4, <1>5, <1>6, StridingAlone DEF c, g, s

LEMMA ExitOnway ==
    ASSUME IInv, Onway, NEW b \in Buds, NEW i \in Ids, wait_exit_btstack_flag(b, i)
    PROVE  Onway' /\ Goes
<1> DEFINE x == bud[b]
           q == queue[b]
<1>1. /\ x \in Bud /\ q \in Seq(Messages)
      /\ Going(x, q, link, b \in sync, b \in charger, b \in spoilt)
  BY OnwayOf
<1>2. x.polls[i].cb = "exit" /\ Up(x) /\ Alive(b)
  BY DEF wait_exit_btstack_flag, Alive, Up
<1>3. Active(x) # {}
  BY <1>2, PollIs
<1>4. b \notin spoilt => x.flag
  <2>1. Doing(x)
    BY <1>3 DEF Doing
  <2>2. QED
    BY <1>1, <1>2, <2>1 DEF Going, Owed, Quiet
<1>5. UNCHANGED <<charger, link, sync, spoilt>>
  BY DEF wait_exit_btstack_flag, world
<1>6. \/ Set(b, Tick(x)) /\ UNCHANGED queue
      \/ Set(b, DelPoll(x)) /\ Post(b, "play")
      \/ \E m \in {"off", "reset"} : Set(b, Blank(m)) /\ UNCHANGED queue
  <2>1. \/ Set(b, Tick(x)) /\ UNCHANGED queue
        \/ Set(b, DelPoll(x)) /\ Post(b, "play")
        \/ Set(b, Blank("reset")) /\ UNCHANGED queue
        \/ app_charge_power_off_keep_mode(b) /\ UNCHANGED queue
    BY DEF wait_exit_btstack_flag
  <2>2. ASSUME app_charge_power_off_keep_mode(b)
        PROVE  Set(b, Blank("off")) \/ Set(b, Blank("reset"))
    BY <2>2 DEF app_charge_power_off_keep_mode
  <2>3. QED
    BY <2>1, <2>2
<1>7. CASE Set(b, Tick(x)) /\ UNCHANGED queue
  BY <1>1, <1>2, <1>3, <1>5, <1>7, TickStride, StridingAlone
<1>8. CASE Set(b, DelPoll(x)) /\ Post(b, "play")
  BY <1>1, <1>2, <1>3, <1>5, <1>8, PlayStride, StridePosted
<1>9. CASE \E m \in {"off", "reset"} : Set(b, Blank(m)) /\ UNCHANGED queue
  BY <1>2, <1>4, <1>5, <1>9, GoneOnway
<1>10. QED
  BY <1>6, <1>7, <1>8, <1>9

LEMMA TimersOnway ==
    ASSUME IInv, Onway, NEW b \in Buds,
           \/ tws_slave_power_off(b) \/ retry_goto_mode(b) \/ wait_led_ui_stop_timeout(b)
           \/ \E t \in {"local", "shared"} : ToneStops(b, t)
    PROVE  Onway' /\ Goes
<1> DEFINE x == bud[b]
           q == queue[b]
<1>1. /\ x \in Bud /\ q \in Seq(Messages)
      /\ Going(x, q, link, b \in sync, b \in charger, b \in spoilt)
  BY OnwayOf
<1>2. Up(x)
  BY DEF tws_slave_power_off, retry_goto_mode, wait_led_ui_stop_timeout, ToneStops, Alive, Up
<1>3. UNCHANGED <<charger, link, sync, spoilt>>
  BY DEF tws_slave_power_off, retry_goto_mode, wait_led_ui_stop_timeout, ToneStops, world
<1>4. CASE tws_slave_power_off(b)
  <2>1. x.late /\ Set(b, [x EXCEPT !.late = FALSE]) /\ Post(b, "play")
    BY <1>4 DEF tws_slave_power_off
  <2>2. QED
    BY <1>1, <1>2, <1>3, <2>1, PlayStride, StridePosted
<1>5. CASE retry_goto_mode(b)
  <2>1. x.retry /\ Set(b, [x EXCEPT !.retry = FALSE]) /\ Post(b, x.saved)
    BY <1>5 DEF retry_goto_mode
  <2>2. QED
    BY <1>1, <1>2, <1>3, <2>1, PlayStride, StridePosted
<1>6. CASE wait_led_ui_stop_timeout(b)
  <2>1. Set(b, [x EXCEPT !.led = "idle"]) /\ Post(b, "softoff")
    BY <1>6 DEF wait_led_ui_stop_timeout
  <2>2. QED
    BY <1>1, <1>2, <1>3, <2>1, SoftoffPosted, StridePosted
<1>7. CASE ToneStops(b, "local")
  <2>1. Set(b, [x EXCEPT !.tone = @ \ {"local"}]) /\ Post(b, "softoff")
    BY <1>7 DEF ToneStops
  <2>2. QED
    BY <1>1, <1>2, <1>3, <2>1, SoftoffPosted, StridePosted
<1>8. CASE ToneStops(b, "shared")
  <2>1. "shared" \in x.tone /\ Set(b, [x EXCEPT !.tone = @ \ {"shared"}]) /\ Post(b, "off")
    BY <1>8 DEF ToneStops
  <2>2. QED
    BY <1>1, <1>2, <1>3, <2>1, PlayStride, StridePosted
<1>9. QED
  BY <1>4, <1>5, <1>6, <1>7, <1>8

\* A change of mode that a call or Siri refuses spoils the power-off.
LEMMA RefusedOnway ==
    ASSUME IInv, Onway, NEW b \in Buds, queue[b] # <<>>, bud[b].mode = "bt",
           Set(b, bud[b]), queue' = [queue EXCEPT ![b] = Tail(queue[b])],
           UNCHANGED <<charger, link, sync>>, spoilt' = spoilt \cup {b},
           Head(queue[b]) = "play" \/ Head(queue[b]) = "off"
    PROVE  Onway' /\ Goes
<1> DEFINE x == bud[b]
           q == queue[b]
           t == Tail(q)
           h == Head(q)
<1>1. /\ x \in Bud /\ q \in Seq(Messages)
      /\ Going(x, q, link, b \in sync, b \in charger, b \in spoilt)
  BY OnwayOf
<1>2. More(q, t, h)
  BY <1>1, InTail
<1> HIDE DEF t
<1>3. /\ In(q, "bt") <=> In(t, "bt")
      /\ In(q, "sync") <=> In(t, "sync")
      /\ In(q, "out") <=> In(t, "out")
  BY <1>2 DEF More
<1>4. link => sync = {} \/ sync = Buds
  BY DEF Onway, Together
<1>5. Frame(b)
  BY <1>4 DEF Frame
<1>6. Going(x, t, link', b \in sync', b \in charger', b \in spoilt')
  BY <1>1, <1>3 DEF Going, Held
<1>7. Turn(Pow(x, b \in spoilt), Pow(x, b \in spoilt'))
  BY DEF Turn, Pow, Up
<1>8. Move(b, x, t)
  BY <1>3, <1>6, <1>7 DEF Move, Asked, Answers
<1>9. QED
  BY <1>1, <1>5, <1>8, OneOnway DEF t

LEMMA GotoOnway ==
    ASSUME IInv, Onway, NEW b \in Buds, HandleGoto(b)
    PROVE  Onway' /\ Goes
<1> DEFINE x == bud[b]
           q == queue[b]
           m == Head(q)
           t == Tail(q)
           busy == x.mode = "bt" /\ b \in talk
<1>1. /\ x \in Bud /\ q \in Seq(Messages) /\ (x.mode = "bt" => x.wait_exit <= 3)
      /\ Going(x, q, link, b \in sync, b \in charger, b \in spoilt)
  BY OnwayOf DEF Fine
<1>2. q # <<>> /\ m \in Goto /\ Up(x)
  BY DEF HandleGoto, Next1, Alive, Up
<1>3. PICK r \in app_mode_switch_handler(x, t, m, busy) :
          Set(b, r.x) /\ queue' = [queue EXCEPT ![b] = r.q]
  BY DEF HandleGoto, Rest
<1>4. /\ UNCHANGED <<charger, link, sync>>
      /\ spoilt' = IF busy /\ m # "bt" THEN spoilt \cup {b} ELSE spoilt
  BY DEF HandleGoto, world
<1>5. m = "play" \/ m = "off" \/ m = "bt"
  BY <1>2 DEF Goto
<1> HIDE DEF t
<1>6. CASE m = "bt" /\ x.mode = "bt"
  <2>1. r.x = x /\ r.q = t /\ UNCHANGED spoilt
    BY <1>3, <1>4, <1>6 DEF app_mode_switch_handler
  <2>2. Stride(x, q, x, t, link, b \in sync, b \in charger, b \in spoilt)
    BY <1>1, <1>2, <1>6, DroppedStride DEF t
  <2>3. QED
    BY <1>3, <1>4, <2>1, <2>2, Striding
<1>7. CASE m = "bt" /\ x.mode = "idle"
  <2>1. r.x = bt_mode_init(x) /\ r.q = t /\ UNCHANGED spoilt
    BY <1>3, <1>4, <1>7 DEF app_mode_switch_handler
  <2>2. Stride(x, q, bt_mode_init(x), t, link, b \in sync, b \in charger, b \in spoilt)
    BY <1>1, <1>2, <1>7, BackStride DEF t
  <2>3. QED
    BY <1>3, <1>4, <2>1, <2>2, Striding
<1>8. CASE m # "bt" /\ x.mode = "idle"
  <2>1. r.x = x /\ r.q = t /\ UNCHANGED spoilt
    BY <1>3, <1>4, <1>8 DEF app_mode_switch_handler
  <2>2. Stride(x, q, x, t, link, b \in sync, b \in charger, b \in spoilt)
    BY <1>1, <1>2, <1>5, <1>8, DroppedStride DEF t
  <2>3. QED
    BY <1>3, <1>4, <2>1, <2>2, Striding
<1>9. CASE m # "bt" /\ x.mode = "bt" /\ b \in talk
  <2>1. r.x = x /\ r.q = t /\ spoilt' = spoilt \cup {b}
    BY <1>3, <1>4, <1>9 DEF app_mode_switch_handler
  <2>2. QED
    BY <1>2, <1>3, <1>4, <1>5, <1>9, <2>1, RefusedOnway DEF t
<1>10. CASE m # "bt" /\ x.mode = "bt" /\ b \notin talk
  <2>1. r \in app_mode_switch_handler(x, t, m, FALSE) /\ UNCHANGED spoilt
    BY <1>3, <1>4, <1>10
  <2>2. Stride(x, q, r.x, r.q, link, b \in sync, b \in charger, b \in spoilt)
    BY <1>1, <1>2, <1>5, <1>10, <2>1, LeaveStride DEF t
  <2>3. QED
    BY <1>3, <1>4, <2>1, <2>2, Striding
<1>11. QED
  BY <1>2, <1>6, <1>7, <1>8, <1>9, <1>10 DEF Up

LEMMA OutOnway ==
    ASSUME IInv, Onway, NEW b \in Buds, charge_ldo5v_off_deal(b)
    PROVE  Onway' /\ Goes
<1> DEFINE x == bud[b]
           q == queue[b]
           y == [x EXCEPT !.flag = FALSE]
           p == IF x.mode = "idle" THEN Append(Tail(q), "bt") ELSE Tail(q)
<1>1. /\ x \in Bud /\ q \in Seq(Messages)
      /\ Going(x, q, link, b \in sync, b \in charger, b \in spoilt)
  BY OnwayOf
<1>2. q # <<>> /\ Head(q) = "out" /\ Up(x) /\ Alive(b)
  BY DEF charge_ldo5v_off_deal, Next1, Alive, Up
<1>3. UNCHANGED <<charger, link, sync>>
  BY DEF charge_ldo5v_off_deal, world
<1>4. CASE /\ Set(b, y)
           /\ queue' = [queue EXCEPT ![b] = p]
           /\ spoilt' = IF x.flag /\ Unfinished(b) THEN spoilt \cup {b} ELSE spoilt
  <2> DEFINE d == b \in spoilt'
  <2>1. spoilt \subseteq spoilt' /\ spoilt' \subseteq spoilt \cup {b}
        /\ (b \in spoilt => d) /\ (x.flag /\ Unfinished(b) => d)
    BY <1>4
  <2>2. x.mode = "bt" \/ Doing(x) \/ In(q, "play") \/ In(q, "off") \/ In(q, "tone")
        => Unfinished(b)
    BY DEF Unfinished, Doing, Active, In, Waiting
  <2>3. x.flag /\ (x.mode = "bt" \/ Doing(x) \/ In(q, "play") \/ In(q, "off") \/ In(q, "tone"))
        => d
    BY <2>1, <2>2
  <2>9. p = IF x.mode = "idle" THEN Append(Tail(q), "bt") ELSE Tail(q)
    OBVIOUS
  <2> DEFINE c == b \in sync
             g == b \in charger
             s == b \in spoilt
  <2>10. /\ Going(x, q, link, c, g, s) /\ (s => d)
    BY <1>1, <2>1
  <2> HIDE DEF d, p, x, q, c, g, s
  <2>4. Recalled(x, q, y, p, link, c, g, s, d)
    BY <1>1, <1>2, <2>3, <2>9, <2>10, OutGoes
  <2> HIDE DEF y
  <2>5. link => sync = {} \/ sync = Buds
    BY DEF Onway, Together
  <2>6. Frame(b)
    BY <1>3, <2>1, <2>5 DEF Frame
  <2>7. Move(b, y, p)
    BY <1>2, <1>3, <2>4 DEF Recalled, Move, d, c, g, s, x, q
  <2>8. QED
    BY <1>4, <2>4, <2>6, <2>7, OneOnway DEF Recalled, p, y, x, q
<1>5. CASE ~x.flag /\ x.mode = "idle" /\ Set(b, Blank("off"))
           /\ queue' = [queue EXCEPT ![b] = Rest(b)] /\ UNCHANGED spoilt
  BY <1>2, <1>3, <1>5, GoneOnway
<1>6. QED
  BY <1>4, <1>5 DEF charge_ldo5v_off_deal, Rest

LEMMA HandleOnway ==
    ASSUME IInv, Onway, NEW b \in Buds, Handle(b)
    PROVE  Onway' /\ Goes
<1> DEFINE x == bud[b]
           q == queue[b]
           n == N(queue[b])
           c == b \in sync
           g == b \in charger
           s == b \in spoilt
<1>1. /\ x \in Bud /\ q \in Seq(Messages) /\ n \in Nat /\ events \in 0..MaxEvents
      /\ Fine(x, n, events, s) /\ Going(x, q, link, c, g, s) /\ bud \in [Buds -> Bud]
  BY OnwayOf
<1>2. Set(b, x) <=> UNCHANGED bud
  BY <1>1 DEF Set
<1>3. ASSUME NEW m, Take(b, m)
      PROVE  /\ q # <<>> /\ Head(q) = m /\ Up(x) /\ Alive(b)
             /\ queue[b] # <<>> /\ queue' = [queue EXCEPT ![b] = Rest(b)]
  BY <1>3 DEF Take, Next1, Alive, Up
<1>4. ASSUME UNCHANGED <<spoilt, charger, link, sync, bud>>, NEW m, Take(b, m),
             \/ m = "in" \/ m = "keep" \/ m = "phone"
             \/ m = "softoff" /\ (x.mode = "bt" \/ ~x.flag)
      PROVE  Onway' /\ Goes
  <2>1. Stride(x, q, x, Tail(q), link, c, g, s)
    BY <1>1, <1>3, <1>4, DroppedStride
  <2>2. QED
    BY <1>2, <1>4, <2>1, StrideTaken
<1>5. CASE tws_sync_call_poweroff(b)
  <2> DEFINE y == sys_enter_soft_poweroff(x, "NORMAL_TWS")
  <2>1. UNCHANGED <<spoilt, charger, link, sync>> /\ Take(b, "sync") /\ Set(b, y)
    BY <1>5 DEF tws_sync_call_poweroff, SoftPoweroff, world
  <2> HIDE DEF n, c, g, s
  <2>2. Stride(x, q, y, Tail(q), link, c, g, s)
    BY <1>1, <1>3, <2>1, SyncStride
  <2> HIDE DEF y
  <2>3. QED
    BY <2>1, <2>2, StrideTaken DEF c, g, s
<1>6. CASE tws_tone_play_in_task(b)
  <2> DEFINE y == [x EXCEPT !.tone = @ \cup {"shared"}]
  <2>1. UNCHANGED <<spoilt, charger, link, sync>> /\ Take(b, "tone") /\ Set(b, y)
    BY <1>6 DEF tws_tone_play_in_task, world
  <2>2. Stride(x, q, y, Tail(q), link, c, g, s)
    BY <1>1, <1>3, <2>1, ToneStride
  <2> HIDE DEF y
  <2>3. QED
    BY <2>1, <2>2, StrideTaken
<1>7. CASE HandleGoto(b)
  BY <1>7, GotoOnway
<1>8. CASE HandleSoftoff(b)
  <2>1. UNCHANGED <<spoilt, charger, link, sync>> /\ Take(b, "softoff")
    BY <1>8 DEF HandleSoftoff, world
  <2>2. \/ (x.mode # "idle" \/ ~x.flag) /\ UNCHANGED bud
        \/ /\ x.mode = "idle" /\ x.flag
           /\ \/ Set(b, Blank("reset")) \/ Set(b, Blank("off"))
              \/ Set(b, [x EXCEPT !.led = "wait"])
    BY <1>8 DEF HandleSoftoff
  <2>3. CASE (x.mode # "idle" \/ ~x.flag) /\ UNCHANGED bud
    BY <1>3, <1>4, <2>1, <2>3 DEF Up
  <2>4. CASE x.mode = "idle" /\ (Set(b, Blank("reset")) \/ Set(b, Blank("off")))
    BY <1>3, <2>1, <2>4, GoneOnway
  <2>5. CASE x.mode = "idle" /\ x.flag /\ Set(b, [x EXCEPT !.led = "wait"])
    <3>1. Stride(x, q, [x EXCEPT !.led = "wait"], Tail(q), link, c, g, s)
      BY <1>1, <1>3, <2>1, <2>5, LedStride
    <3>2. QED
      BY <2>1, <2>5, <3>1, StrideTaken
  <2>6. QED
    BY <2>2, <2>3, <2>4, <2>5
<1>9. CASE charge_ldo5v_in_deal(b)
  <2>1. UNCHANGED <<spoilt, charger, link, sync>> /\ Take(b, "in")
    BY <1>9 DEF charge_ldo5v_in_deal, world
  <2>2. \/ x.mode = "bt" /\ SoftPoweroff(b, x, "RESET")
        \/ x.mode # "bt" /\ Set(b, Blank("reset"))
        \/ UNCHANGED bud
    BY <1>9 DEF charge_ldo5v_in_deal, Set
  <2>3. CASE x.mode = "bt" /\ SoftPoweroff(b, x, "RESET")
    BY <2>1, <2>3, SoftTaken DEF Reasons
  <2>4. CASE x.mode # "bt" /\ Set(b, Blank("reset"))
    BY <1>3, <2>1, <2>4, GoneOnway
  <2>5. CASE UNCHANGED bud
    BY <1>4, <2>1, <2>5
  <2>6. QED
    BY <2>2, <2>3, <2>4, <2>5
<1>10. CASE charge_ldo5v_off_deal(b)
  BY <1>10, OutOnway
<1>11. CASE ldo5v_keep_deal(b)
  <2>1. UNCHANGED <<spoilt, charger, link, sync>> /\ Take(b, "keep")
    BY <1>11 DEF ldo5v_keep_deal, world
  <2>2. \/ x.mode = "bt" /\ SoftPoweroff(b, x, "POWER_KEEP")
        \/ x.mode # "bt" /\ app_charge_power_off_keep_mode(b)
    BY <1>11 DEF ldo5v_keep_deal
  <2>3. CASE x.mode = "bt" /\ SoftPoweroff(b, x, "POWER_KEEP")
    BY <2>1, <2>3, SoftTaken DEF Reasons
  <2>4. CASE x.mode # "bt" /\ app_charge_power_off_keep_mode(b)
    <3>1. Set(b, Blank("off")) \/ Set(b, Blank("reset"))
      BY <2>4 DEF app_charge_power_off_keep_mode
    <3>2. QED
      BY <1>3, <2>1, <2>4, <3>1, GoneOnway
  <2>5. QED
    BY <2>2, <2>3, <2>4
<1>12. CASE poweroff_btstack_event_handler(b)
  <2> DEFINE y == [x EXCEPT !.auto = "none"]
             t == Tail(q)
  <2>1. UNCHANGED <<spoilt, charger, link, sync>> /\ Take(b, "phone") /\ Set(b, y)
    BY <1>12 DEF poweroff_btstack_event_handler, world
  <2>2. Stride(x, q, x, t, link, c, g, s)
    BY <1>1, <1>3, <2>1, DroppedStride
  <2>3. /\ y \in Bud /\ y.mode = x.mode /\ y.flag = x.flag /\ (Same(y) <=> Same(x))
        /\ Pow(y, s) = Pow(x, s)
        /\ \A p : Going(x, p, link, c, g, s) => Going(y, p, link, c, g, s)
    BY <1>1, AutoGoes
  <2> HIDE DEF y, t
  <2>4. Stride(x, q, y, t, link, c, g, s)
    BY <2>2, <2>3 DEF Stride, Asked, Answers, Up
  <2>5. QED
    BY <2>1, <2>4, StrideTaken DEF t
<1>13. QED
  BY <1>5, <1>6, <1>7, <1>8, <1>9, <1>10, <1>11, <1>12 DEF Handle

LEMMA ProgramOnway ==
    ASSUME IInv, Onway, NEW b \in Buds, Program(b)
    PROVE  Onway' /\ Goes
<1> DEFINE x == bud[b]
           q == queue[b]
           c == b \in sync
           g == b \in charger
           s == b \in spoilt
<1>1. /\ x \in Bud /\ q \in Seq(Messages) /\ Going(x, q, link, c, g, s)
  BY OnwayOf
<1>2. CASE Key(b)
  BY <1>2, SyncOnway DEF Key
<1>3. CASE AutoOff(b)
  <2>1. Alive(b) /\ x.auto = "run"
    BY <1>3 DEF AutoOff
  <2>2. x.mode = "bt"
    BY <1>1, <2>1 DEF Alive, Going, Calm
  <2>3. tws_sync_poweroff(b, [x EXCEPT !.auto = "stale"])
        /\ UNCHANGED <<queue, spoilt, charger, link>>
    BY <1>3 DEF AutoOff, world
  <2>4. QED
    BY <2>2, <2>3, SyncOnway
<1>4. CASE AutoArm(b)
  <2> DEFINE y == [x EXCEPT !.auto = "run"]
  <2>1. /\ UNCHANGED <<queue, sync, spoilt, charger, link>> /\ Set(b, y)
        /\ x.mode = "bt" /\ x.wait_exit = 0
    BY <1>4 DEF AutoArm, world
  <2>2. /\ y \in Bud /\ y.mode = x.mode /\ y.flag = x.flag /\ (Same(y) <=> Same(x))
        /\ Pow(y, s) = Pow(x, s) /\ Going(y, q, link, c, g, s)
    BY <1>1, <2>1, AutoGoes
  <2> HIDE DEF y
  <2>3. Stride(x, q, y, q, link, c, g, s)
    BY <2>2 DEF Stride, Asked, Answers, Up, Turn
  <2>4. QED
    BY <2>1, <2>3, StridingAlone
<1>5. CASE BatteryLow(b)
  <2>1. UNCHANGED <<queue, sync, spoilt, charger, link>> /\ Alive(b)
    BY <1>5 DEF BatteryLow, world
  <2>2. CASE x.mode = "bt"
    <3>1. SoftPoweroff(b, x, "NORMAL")
      BY <1>5, <2>2 DEF BatteryLow
    <3>2. QED
      BY <2>1, <2>2, <3>1, SoftOnway DEF Reasons
  <2>3. CASE x.mode # "bt"
    <3>1. Set(b, Blank("off"))
      BY <1>5, <2>3 DEF BatteryLow
    <3>2. QED
      BY <2>1, <2>3, <3>1, GoneOnway
  <2>4. QED
    BY <2>2, <2>3
<1>6. CASE bt_no_background_exit_check(b)
  <2> DEFINE y == [x EXCEPT !.exiting = FALSE]
  <2>1. /\ Set(b, y) /\ UNCHANGED <<queue, charger, spoilt>>
        /\ ~link' /\ sync' \subseteq sync
    BY <1>6 DEF bt_no_background_exit_check, Unlink
  <2>2. /\ y \in Bud /\ y.mode = x.mode /\ y.flag = x.flag /\ y.saved = x.saved
        /\ y.auto = x.auto /\ y.wait_exit = x.wait_exit
        /\ y.led = x.led /\ y.polls = x.polls /\ y.late = x.late /\ y.retry = x.retry
        /\ y.tone = x.tone
    BY <1>1 DEF Bud
  <2> HIDE DEF y
  <2>3. Active(y) = Active(x) /\ (Same(y) <=> Same(x)) /\ (Doing(y) <=> Doing(x))
    BY <2>2 DEF Active, Same, Doing
  <2>4. Frame(b)
    BY <2>1 DEF Frame
  <2>5. Owed(x, q, c, g) => Owed(y, q, b \in sync', g)
    <3>1. b \in sync' => c
      BY <2>1
    <3>2. QED
      BY <2>2, <2>3, <3>1 DEF Owed, Quiet, Parked, Ends, Returns
  <2>6. Going(y, q, link', b \in sync', b \in charger', b \in spoilt')
    BY <1>1, <2>1, <2>2, <2>3, <2>5 DEF Going, Calm, Held, Up
  <2>7. Move(b, y, q)
    BY <2>1, <2>2, <2>3, <2>6 DEF Move, Asked, Answers, Up, Turn, Pow
  <2>8. queue' = [queue EXCEPT ![b] = q]
    BY <2>1, OnwayOf
  <2>9. QED
    BY <2>1, <2>2, <2>4, <2>7, <2>8, OneOnway
<1>7. QED
  BY <1>2, <1>3, <1>4, <1>5, <1>6, SameOnway, DetachOnway, ExitOnway, TimersOnway, HandleOnway
     DEF Program

\* A message that no power-off waits for is posted; a charger's "out" ends the charging.
Passes(x, q, m, lk, c, g, h, s) ==
    Going(x, q, lk, c, g, s) /\ (g => h \/ m = "out") =>
        /\ Going(x, Append(q, m), lk, c, h, s)
        /\ Asked(x, Append(q, m)) <=> Asked(x, q)
        /\ Answers(x, Append(q, m)) <=> Answers(x, q)

LEMMA OtherPosted ==
    ASSUME NEW x, NEW q \in Seq(Messages), NEW m \in {"phone", "in", "keep", "out"},
           NEW lk, NEW c, NEW g, NEW h, NEW s, m = "out" => "plug_out" \in Enabled
    PROVE  Passes(x, q, m, lk, c, g, h, s)
<1> SUFFICES ASSUME Going(x, q, lk, c, g, s), g => h \/ m = "out"
             PROVE  LET p == Append(q, m)
                    IN  /\ Going(x, p, lk, c, h, s)
                        /\ Asked(x, p) <=> Asked(x, q)
                        /\ Answers(x, p) <=> Answers(x, q)
  BY DEF Passes
<1> DEFINE p == Append(q, m)
<1>1. m \in Messages
  BY DEF Messages
<1>2. /\ More(p, q, m) /\ (Covered(q) => Covered(p)) /\ (Behind(q) => Behind(p))
  BY <1>1, InAppend
<1> HIDE DEF p
<1>3. /\ In(p, "play") <=> In(q, "play")
      /\ In(p, "off") <=> In(q, "off")
      /\ In(p, "bt") <=> In(q, "bt")
      /\ In(p, "softoff") <=> In(q, "softoff")
      /\ In(p, "sync") <=> In(q, "sync")
      /\ In(p, "tone") <=> In(q, "tone")
      /\ In(p, "out") <=> In(q, "out") \/ m = "out"
  BY <1>2 DEF More
<1>4. Calm(x, lk) /\ Held(x, p)
  BY <1>3 DEF Going, Held
<1>5. Single => ~In(p, "sync")
  BY <1>3 DEF Going
<1>6. ASSUME ~s, Up(x) PROVE Owed(x, p, c, h)
  <2>1. Owed(x, q, c, g)
    BY <1>6 DEF Going
  <2>2. Quiet(x, q) => Quiet(x, p)
    BY <1>2, <1>3 DEF Quiet
  <2>3. Parked(q, c, g) => Parked(p, c, h)
    BY <1>3 DEF Parked
  <2>4. (Ends(x, q) => Ends(x, p)) /\ (Returns(x, q) => Returns(x, p))
    BY <1>2, <1>3 DEF Ends, Returns
  <2>5. QED
    BY <1>3, <2>1, <2>2, <2>3, <2>4 DEF Owed
<1>7. Going(x, p, lk, c, h, s)
  BY <1>4, <1>5, <1>6 DEF Going
<1>8. (Asked(x, p) <=> Asked(x, q)) /\ (Answers(x, p) <=> Answers(x, q))
  BY <1>3 DEF Asked, Answers
<1>9. QED
  BY <1>7, <1>8 DEF p

\* Every bud keeps its state and its queue, or gets such a message.
LEMMA OtherOnway ==
    ASSUME IInv, Onway, UNCHANGED <<bud, spoilt, link, sync>>, NEW m \in {"phone", "in", "keep", "out"},
           m = "out" => "plug_out" \in Enabled,
           \A c \in Buds : \/ queue'[c] = queue[c] /\ (c \in charger => c \in charger')
                           \/ /\ queue'[c] = Append(queue[c], m)
                              /\ c \in charger => c \in charger' \/ m = "out"
    PROVE  Onway' /\ Goes
<1>1. ASSUME NEW c \in Buds
      PROVE  /\ Going(bud[c], queue'[c], link, c \in sync, c \in charger', c \in spoilt)
             /\ Asked(bud[c], queue'[c]) <=> Asked(bud[c], queue[c])
             /\ Answers(bud[c], queue'[c]) <=> Answers(bud[c], queue[c])
  <2> DEFINE x == bud[c]
             q == queue[c]
             d == c \in sync
             g == c \in charger
             h == c \in charger'
             s == c \in spoilt
  <2>1. q \in Seq(Messages) /\ Going(x, q, link, d, g, s)
    BY OnwayOf
  <2>2. CASE queue'[c] = q /\ (g => h)
    <3> HIDE DEF x, q, d, g, h, s
    <3>1. Going(x, q, link, d, h, s)
      BY <2>1, <2>2 DEF Going, Owed, Parked
    <3>2. QED
      BY <2>2, <3>1 DEF x, q, d, g, h, s
  <2>3. CASE queue'[c] = Append(q, m) /\ (g => h \/ m = "out")
    <3> HIDE DEF x, q, d, g, h, s
    <3> Passes(x, q, m, link, d, g, h, s)
      BY <2>1, OtherPosted
    <3>1. /\ Going(x, Append(q, m), link, d, h, s)
          /\ Asked(x, Append(q, m)) <=> Asked(x, q)
          /\ Answers(x, Append(q, m)) <=> Answers(x, q)
      BY <2>1, <2>3 DEF Passes
    <3>2. QED
      BY <2>3, <3>1 DEF x, q, d, g, h, s
  <2>4. QED
    BY <2>2, <2>3
<1>2. Together'
  BY <1>1 DEF Onway, Together
<1>3. power' = power
  BY DEF power, Alive
<1>4. QED
  BY <1>1, <1>2, <1>3 DEF Onway, Goes

\* Two buds link: neither is going off, nor polls for a power-off called off before.
LEMMA LinkOnway ==
    ASSUME NoReunion, IInv, Onway, LinkUp
    PROVE  Onway' /\ Goes
<1>1. /\ \A b \in Buds : bud[b].mode = "bt" /\ ~bud[b].flag /\ bud[b].wait_exit = 0
      /\ sync = {} /\ \A b \in Buds : ~Waiting(b, {"sync"})
      /\ UNCHANGED <<queue, charger, sync, spoilt>>
  BY DEF LinkUp, program
<1>2. ~Single /\ "plug_out" \notin Enabled
  BY DEF LinkUp, Single, Event, NoReunion
<1>3. bud \in [Buds -> Bud]
  BY DEF IInv, Core
<1>4. ASSUME NEW c \in Buds
      PROVE  /\ bud'[c] \in Bud /\ bud'[c].mode = bud[c].mode /\ bud'[c].flag = bud[c].flag
             /\ Same(bud'[c]) <=> Same(bud[c])
             /\ Going(bud'[c], queue[c], link', c \in sync, c \in charger, c \in spoilt)
  <2> DEFINE x == bud[c]
             q == queue[c]
             d == c \in sync
             g == c \in charger
             s == c \in spoilt
             y == [x EXCEPT !.auto = "run"]
  <2>1. x \in Bud /\ Going(x, q, link, d, g, s) /\ x.mode = "bt" /\ x.wait_exit = 0
    BY <1>1, OnwayOf
  <2>2. bud'[c] = x \/ bud'[c] = y
    BY DEF LinkUp
  <2> HIDE DEF x, q, d, g, s
  <2>3. Going(x, q, link', d, g, s)
    BY <2>1 DEF Going, Calm
  <2>4. /\ y \in Bud /\ y.mode = x.mode /\ y.flag = x.flag /\ (Same(y) <=> Same(x))
        /\ Going(y, q, link', d, g, s)
    BY <2>1, <2>3, AutoGoes
  <2> HIDE DEF y
  <2>5. QED
    BY <2>1, <2>2, <2>3, <2>4 DEF x, q, d, g, s
<1>5. ASSUME NEW c \in Buds PROVE ~Asked(bud[c], queue[c])
  <2>1. Held(bud[c], queue[c]) /\ ~bud[c].flag
    BY <1>1 DEF Onway, Going
  <2>2. ~Same(bud[c])
    BY <1>2, <2>1 DEF Held, Same, Active, NoPoll
  <2>3. ~In(queue[c], "sync")
    BY <1>1 DEF Waiting, In
  <2>4. QED
    BY <2>2, <2>3 DEF Asked
<1>6. Together'
  <2>1. ASSUME NEW c \in Buds PROVE ~Asked(bud'[c], queue'[c])
    BY <1>1, <1>4, <1>5 DEF Asked
  <2>2. QED
    BY <1>1, <2>1 DEF Together
<1>7. power' = power
  BY <1>1, <1>4 DEF power, Alive
<1>8. \A c \in Buds : Going(bud'[c], queue'[c], link', c \in sync', c \in charger', c \in spoilt')
  BY <1>1, <1>4
<1>9. QED
  BY <1>2, <1>6, <1>7, <1>8 DEF Onway, Goes

LEMMA WorldOnway ==
    ASSUME NoReunion, IInv, Onway, World
    PROVE  Onway' /\ Goes
<1>1. queue \in [Buds -> Seq(Messages)]
  BY DEF IInv, Core
<1>2. CASE LinkUp
  BY <1>2, LinkOnway
<1>3. CASE LinkDown
  <2>1. UNCHANGED <<bud, queue, spoilt, charger>> /\ ~link' /\ sync' \subseteq sync
    BY <1>3 DEF LinkDown, Unlink
  <2>2. QED
    BY <2>1, StillOnway
<1>4. CASE RoleSwitch
  <2>1. UNCHANGED <<bud, queue, spoilt, charger, link, sync>>
    BY <1>4 DEF RoleSwitch, program
  <2>2. QED
    BY <2>1, StillOnway
<1>5. ASSUME NEW b \in Buds,
             PhoneDown(b) \/ CallStarts(b) \/ CallEnds(b) \/ PlayerStarts(b) \/ PlayerStops(b)
      PROVE  Onway' /\ Goes
  <2>1. UNCHANGED <<bud, queue, spoilt, charger, link, sync>>
    BY <1>5 DEF PhoneDown, CallStarts, CallEnds, PlayerStarts, PlayerStops, program
  <2>2. QED
    BY <2>1, StillOnway
<1>6. ASSUME NEW b \in Buds, PhoneUp(b) PROVE Onway' /\ Goes
  <2>1. /\ UNCHANGED <<bud, spoilt, charger, link, sync>>
        /\ queue' = [c \in Buds |-> IF c \in Sharers(b) THEN Append(queue[c], "phone") ELSE queue[c]]
    BY <1>6 DEF PhoneUp, program
  <2>2. \A c \in Buds : queue'[c] = queue[c] \/ queue'[c] = Append(queue[c], "phone")
    BY <2>1
  <2>3. QED
    BY <2>1, <2>2, OtherOnway
<1>7. ASSUME NEW b \in Buds, NEW m \in {"in", "keep", "out"}, Post(b, m)
      PROVE  \A c \in Buds : IF c = b THEN queue'[c] = Append(queue[c], m)
                             ELSE queue'[c] = queue[c]
  BY <1>1, <1>7 DEF Post
<1>8. ASSUME NEW b \in Buds, PlugIn(b) PROVE Onway' /\ Goes
  <2>1. /\ UNCHANGED <<bud, spoilt, link, sync>> /\ charger' = charger \cup {b} /\ Post(b, "in")
    BY <1>8 DEF PlugIn, program
  <2>2. \A c \in Buds : queue'[c] = queue[c] \/ queue'[c] = Append(queue[c], "in")
    BY <1>7, <2>1
  <2>3. QED
    BY <2>1, <2>2, OtherOnway
<1>9. ASSUME NEW b \in Buds, PlugKeeps(b) PROVE Onway' /\ Goes
  <2>1. UNCHANGED <<bud, spoilt, charger, link, sync>> /\ Post(b, "keep")
    BY <1>9 DEF PlugKeeps, program
  <2>2. \A c \in Buds : queue'[c] = queue[c] \/ queue'[c] = Append(queue[c], "keep")
    BY <1>7, <2>1
  <2>3. QED
    BY <2>1, <2>2, OtherOnway
<1>10. ASSUME NEW b \in Buds, PlugOut(b) PROVE Onway' /\ Goes
  <2>1. /\ UNCHANGED <<bud, spoilt, link, sync>> /\ charger' = charger \ {b} /\ Post(b, "out")
        /\ "plug_out" \in Enabled
    BY <1>10 DEF PlugOut, program, Event
  <2>2. \A c \in Buds : \/ queue'[c] = queue[c] /\ (c \in charger => c \in charger')
                        \/ queue'[c] = Append(queue[c], "out")
    BY <1>7, <2>1
  <2>3. QED
    BY <2>1, <2>2, OtherOnway
<1>11. QED
  BY <1>2, <1>3, <1>4, <1>5, <1>6, <1>8, <1>9, <1>10 DEF World

\* Both buds are called at the same time: each that was idle is on its way back.
LEMMA CallsOnway ==
    ASSUME IInv, Onway, SyncCall
    PROVE  Onway' /\ Goes
<1>1. /\ UNCHANGED <<bud, charger, link, spoilt>> /\ sync # {} /\ sync' = {}
      /\ PostAll(sync, "sync")
  BY DEF SyncCall, world
<1>2. ~Single
  BY <1>1 DEF Onway
<1>3. ASSUME NEW c \in Buds
      PROVE  /\ Going(bud[c], queue'[c], link, FALSE, c \in charger, c \in spoilt)
             /\ c \in sync => In(queue'[c], "sync")
  <2> DEFINE x == bud[c]
             q == queue[c]
             p == queue'[c]
             g == c \in charger
             s == c \in spoilt
  <2>1. q \in Seq(Messages) /\ Going(x, q, link, c \in sync, g, s)
    BY OnwayOf
  <2>2. p = IF c \in sync THEN Append(q, "sync") ELSE q
    BY <1>1 DEF PostAll
  <2> HIDE DEF x, q, p, g, s
  <2>3. CASE c \in sync
    <3> DEFINE r == Append(q, "sync")
    <3>1. "sync" \in Messages
      BY DEF Messages
    <3>2. /\ More(r, q, "sync") /\ (Covered(q) => Covered(r)) /\ (Behind(q) => Behind(r))
      BY <2>1, <3>1, InAppend
    <3> HIDE DEF r
    <3>3. /\ In(r, "play") <=> In(q, "play")
          /\ In(r, "off") <=> In(q, "off")
          /\ In(r, "bt") <=> In(q, "bt")
          /\ In(r, "softoff") <=> In(q, "softoff")
          /\ In(r, "tone") <=> In(q, "tone")
          /\ In(r, "out") <=> In(q, "out")
          /\ In(r, "sync")
      BY <3>2 DEF More
    <3>4. Going(x, q, link, TRUE, g, s)
      BY <2>1, <2>3
    <3>5. Owed(x, q, TRUE, g) => Owed(x, r, FALSE, g)
      <4>1. Quiet(x, q) => Quiet(x, r)
        BY <3>2, <3>3 DEF Quiet
      <4>2. Parked(q, TRUE, g) => Parked(r, FALSE, g)
        BY <3>3 DEF Parked
      <4>3. (Ends(x, q) => Ends(x, r)) /\ (Returns(x, q) => Returns(x, r))
        BY <3>2, <3>3 DEF Ends, Returns
      <4>4. QED
        BY <3>3, <4>1, <4>2, <4>3 DEF Owed
    <3>6. Going(x, r, link, FALSE, g, s)
      BY <1>2, <3>3, <3>4, <3>5 DEF Going, Held
    <3>7. p = r
      BY <2>2, <2>3 DEF r
    <3>8. QED
      BY <3>3, <3>6, <3>7 DEF x, p, g, s
  <2>4. CASE c \notin sync
    <3>1. p = q /\ (c \in sync) = FALSE
      BY <2>2, <2>4
    <3>2. Going(x, p, link, FALSE, g, s)
      BY <2>1, <3>1
    <3>3. QED
      BY <2>4, <3>2 DEF x, p, g, s
  <2>5. QED
    BY <2>3, <2>4
<1>4. Together'
  <2> SUFFICES ASSUME link PROVE Together'
    BY <1>1 DEF Together
  <2>1. sync = Buds
    BY <1>1 DEF Onway, Together
  <2>2. \A c \in Buds : Answers(bud'[c], queue'[c])
    BY <1>3, <2>1 DEF Answers
  <2>3. QED
    BY <1>1, <2>2 DEF Together
<1>5. power' = power
  BY <1>1 DEF power, Alive
<1>6. \A c \in Buds : Going(bud'[c], queue'[c], link', c \in sync', c \in charger', c \in spoilt')
  <2>1. \A c \in Buds : (c \in sync') = FALSE
    BY <1>1
  <2>2. QED
    BY <1>1, <1>3, <2>1
<1>7. QED
  BY <1>2, <1>4, <1>5, <1>6 DEF Onway, Goes

LEMMA NextOnway ==
    ASSUME NoReunion, IInv, Onway, [Next]_vars
    PROVE  Onway' /\ Goes
<1>1. CASE UNCHANGED vars
  <2>1. UNCHANGED <<bud, queue, spoilt, charger, link, sync>>
    BY <1>1 DEF vars
  <2>2. QED
    BY <2>1, StillOnway
<1>2. CASE World
  BY <1>2, WorldOnway
<1>3. CASE SyncCall
  BY <1>3, CallsOnway
<1>4. ASSUME NEW b \in Buds, Program(b) PROVE Onway' /\ Goes
  BY <1>4, ProgramOnway
<1>5. QED
  BY <1>1, <1>2, <1>3, <1>4 DEF Next

LEMMA InitOnway == ASSUME Init PROVE Onway /\ PS!Init
<1>1. /\ bud \in [Buds -> {Blank("bt"), Blank("idle")}] /\ queue = [b \in Buds |-> <<>>]
      /\ charger = {b \in Buds : bud[b].mode = "idle"} /\ sync = {} /\ spoilt = {}
      /\ link => Cardinality(Buds) = 2 /\ charger = {}
  BY DEF Init
<1>2. ASSUME NEW b \in Buds
      PROVE  LET x == bud[b]
             IN  /\ x.mode \in {"bt", "idle"} /\ Active(x) = {}
                 /\ x.mode = "idle" <=> b \in charger
                 /\ x.flag = FALSE /\ x.late = FALSE /\ x.retry = FALSE /\ x.tone = {}
                 /\ x.saved = "play" /\ x.wait_exit = 0 /\ x.auto = "none"
  <2>1. bud[b] = Blank("bt") \/ bud[b] = Blank("idle")
    BY <1>1
  <2>2. ASSUME NEW m \in {"bt", "idle"}
        PROVE  LET x == Blank(m)
               IN  /\ x.mode \in {"bt", "idle"} /\ Active(x) = {}
                   /\ x.flag = FALSE /\ x.late = FALSE /\ x.retry = FALSE /\ x.tone = {}
                   /\ x.saved = "play" /\ x.wait_exit = 0 /\ x.auto = "none"
    BY BlankType DEF Blank
  <2>3. QED
    BY <1>1, <2>1, <2>2
<1>3. ASSUME NEW b \in Buds PROVE queue[b] = <<>> /\ ~Asked(bud[b], queue[b])
  <2>1. queue[b] = <<>>
    BY <1>1
  <2>2. Active(bud[b]) = {}
    BY <1>2
  <2>3. \A i \in Ids : bud[b].polls[i] = NoPoll
    BY <2>2 DEF Active
  <2>4. ~Same(bud[b])
    BY <2>3 DEF Same, NoPoll
  <2>5. QED
    BY <2>1, <2>4, InShort DEF Asked
<1>4. ASSUME NEW b \in Buds
      PROVE  Going(bud[b], queue[b], link, b \in sync, b \in charger, b \in spoilt)
  <2> DEFINE x == bud[b]
             g == b \in charger
  <2>1. /\ x.mode \in {"bt", "idle"} /\ Active(x) = {} /\ (x.mode = "idle" <=> g)
        /\ x.flag = FALSE /\ x.late = FALSE /\ x.retry = FALSE /\ x.tone = {}
        /\ x.saved = "play" /\ x.wait_exit = 0 /\ x.auto = "none"
    BY <1>2
  <2>2. g => ~link
    BY <1>1
  <2> HIDE DEF x, g
  <2>3. Going(x, <<>>, link, FALSE, g, FALSE)
    <3>1. Calm(x, link)
      BY <2>1, <2>2 DEF Calm
    <3>2. Held(x, <<>>) /\ ~In(<<>>, "sync")
      BY <2>1, InShort DEF Held
    <3>3. ~Doing(x)
      BY <2>1 DEF Doing
    <3>4. Owed(x, <<>>, FALSE, g)
      BY <2>1, <3>3, InShort DEF Owed, Quiet, Parked
    <3>5. QED
      BY <3>1, <3>2, <3>4 DEF Going
  <2>4. (b \in sync) = FALSE /\ (b \in spoilt) = FALSE /\ queue[b] = <<>>
    BY <1>1
  <2>5. QED
    BY <2>3, <2>4 DEF x, g
<1>5. Together
  BY <1>1, <1>3 DEF Together
<1>6. Single => ~link /\ sync = {}
  BY <1>1 DEF Single
<1>7. PS!Init
  <2>1. ASSUME NEW b \in Buds PROVE power[b] \in {"on", "charging"}
    BY <1>1, <1>2 DEF power, Alive
  <2>2. power = [b \in Buds |-> power[b]]
    BY DEF power
  <2>3. QED
    BY <2>1, <2>2 DEF PS!Init
<1>8. QED
  BY <1>4, <1>5, <1>6, <1>7 DEF Onway

(***************************************************************************)
(* No power-off stops on its way.                                          *)
(***************************************************************************)

\* What each bud owes holds in every reachable state: the two buds called by
\* tws_sync_poweroff go off together, and nobody else is taken along (tws_poweroff.c:116).
THEOREM OwesItsNextStep == NoReunion => (Spec => [](IInv /\ Onway))
<1> SUFFICES ASSUME NoReunion PROVE Spec => [](IInv /\ Onway)
  OBVIOUS
<1>1. Init => IInv /\ Onway
  BY InitIInv, InitOnway
<1>2. IInv /\ Onway /\ [Next]_vars => (IInv /\ Onway)'
  BY NextOnway, StepIInv
<1>3. QED
  BY <1>1, <1>2, PTL DEF Spec

\* A bud that is going off, its power-off not spoilt, always waits for a timer, a tone, the
\* LED or a message that takes it further (tws_poweroff.c:200-308, app_main.c:508-593,
\* idle.c:51-130): none is deleted or flushed before the next is on its way.
THEOREM ForgetsNothing == NoReunion => (Spec => []NothingForgotten)
<1> SUFFICES ASSUME NoReunion PROVE Spec => []NothingForgotten
  OBVIOUS
<1>1. IInv /\ Onway => NothingForgotten
  <2> SUFFICES ASSUME Onway, NEW b \in Buds \ spoilt, Alive(b), bud[b].flag
               PROVE  \/ \E i \in Ids : bud[b].polls[i] # NoPoll
                      \/ bud[b].late \/ bud[b].retry \/ bud[b].tone # {} \/ bud[b].led = "wait"
                      \/ Waiting(b, {"play", "off", "softoff", "tone"})
    BY DEF NothingForgotten
  <2> DEFINE x == bud[b]
             q == queue[b]
  <2>1. Owed(x, q, b \in sync, b \in charger)
    BY DEF Onway, Going, Alive, Up
  <2>2. \/ Doing(x) \/ "local" \in x.tone \/ x.led = "wait"
        \/ In(q, "play") \/ In(q, "off") \/ In(q, "softoff") \/ In(q, "tone")
    <3>1. CASE x.mode = "bt"
      BY <2>1, <3>1 DEF Owed
    <3>2. CASE x.mode = "idle"
      <4>1. Ends(x, q) \/ Returns(x, q)
        BY <2>1, <3>2 DEF Owed
      <4>2. Behind(q) => In(q, "play") \/ In(q, "off")
        BY DEF Behind, In
      <4>3. QED
        BY <4>1, <4>2 DEF Ends, Returns
    <3>3. QED
      BY <3>1, <3>2 DEF Alive
  <2>3. Doing(x) => (\E i \in Ids : x.polls[i] # NoPoll) \/ x.late \/ x.retry \/ x.tone # {}
    BY DEF Doing, Active
  <2>4. In(q, "play") \/ In(q, "off") \/ In(q, "softoff") \/ In(q, "tone")
        => Waiting(b, {"play", "off", "softoff", "tone"})
    BY DEF In, Waiting
  <2>5. QED
    BY <2>2, <2>3, <2>4
<1>2. QED
  BY <1>1, OwesItsNextStep, PTL

\* A bud in the idle mode, its power-off not spoilt, is going off, sits in its charger, or
\* has the message waiting that brings it back (charge.c:310-313).
THEOREM StrandsNobody == NoReunion => (Spec => []NotStranded)
<1> SUFFICES ASSUME NoReunion PROVE Spec => []NotStranded
  OBVIOUS
<1>1. IInv /\ Onway => NotStranded
  <2> SUFFICES ASSUME Onway, NEW b \in Buds \ spoilt, bud[b].mode = "idle", ~bud[b].flag
               PROVE  b \in charger \/ Waiting(b, {"out", "bt"})
    BY DEF NotStranded
  <2>1. Parked(queue[b], b \in sync, b \in charger)
    BY DEF Onway, Going, Owed, Up
  <2>2. QED
    BY <2>1 DEF Parked, In, Waiting
<1>2. QED
  BY <1>1, OwesItsNextStep, PTL

\* The power-off implements the safety of PowerSwitch: a bud goes off only when it was
\* asked to, and a power-off, once begun, only ends or is called off.
THEOREM SwitchesSafely == NoRecall => (Spec => PS!Safe)
<1> SUFFICES ASSUME NoRecall PROVE Spec => PS!Safe
  OBVIOUS
<1>1. NoReunion
  BY DEF NoRecall, NoReunion
<1>2. Init => PS!Init
  BY InitOnway
<1>3. IInv /\ Onway /\ [Next]_vars => [PS!Next]_power
  BY <1>1, NextOnway DEF Goes
<1>4. QED
  BY <1>1, <1>2, <1>3, OwesItsNextStep, PTL DEF Spec, PS!Safe
=============================================================================
