---------------------------- MODULE TimerProofs ----------------------------
(***************************************************************************)
(* For every tick time, width of the tick counter and set of delays that   *)
(* are less than half its range: no timeout is missed or early, and        *)
(* periodic ones stay aligned.  For every jump limit and set of clock      *)
(* steps: the ticks a timer counts keep up with the time and never run far *)
(* ahead of it.  For any number of timers, whichever of them the manager   *)
(* knows: what remove() has removed is gone, except what was sent through  *)
(* a timer that the manager did not know.                                  *)
(***************************************************************************)
EXTENDS Timer, TimerClock, TimedEvents, ListFacts, TLAPS

-----------------------------------------------------------------------------
(* The timer *)

\* The delays that programs use leave room: rounding them up to ticks does not
\* overflow, and they are less than half the range of the tick counter, since
\* a longer one would count as a tick of the past.
ShortDelays ==
    \A ms \in Delays \cup Periods :
        ms + M - 1 < Wrap /\ 2 * (((ms + M - 1) \div M) + 1) < Wrap

LEMMA TimerConstants == Wrap \in Nat /\ Wrap >= 1 /\ M \in Nat /\ M >= 1 /\ M < Wrap
  BY TimerAssumption

\* Two ticks less than half the range apart are compared correctly.
LEMMA DiffIs ==
    ASSUME NEW a \in Int, NEW b \in Int, -Wrap <= 2 * (a - b), 2 * (a - b) < Wrap
    PROVE  Diff(a % Wrap, b % Wrap) = a - b
<1> DEFINE u == ((a % Wrap) - (b % Wrap)) % Wrap
<1>1. Diff(a % Wrap, b % Wrap) = IF 2 * u >= Wrap THEN u - Wrap ELSE u
  BY DEF Diff, Signed
<1>2. CASE a >= b
  <2>0. 0 <= a - b /\ a - b < Wrap
    BY <1>2, TimerConstants
  <2>1. u = a - b
    BY <2>0, TimerConstants, RemainderOfDifference, Zenon
  <2> HIDE DEF u
  <2> QED  BY <1>1, <2>1, TimerConstants
<1>3. CASE a < b
  <2>0. -Wrap <= a - b /\ a - b < 0
    BY <1>3, TimerConstants
  <2>1. u = a - b + Wrap
    BY <2>0, TimerConstants, RemainderOfDifference, Zenon
  <2> HIDE DEF u
  <2> QED  BY <1>1, <1>3, <2>1, TimerConstants
<1> QED
  BY <1>2, <1>3

\* A list of nodes in the order they are due in.
Sorted(q) == \A i, j \in 1..Len(q) : i < j => q[i].due <= q[j].due

\* addTimerNode keeps the list sorted, wherever the comparison of ticks is the
\* comparison of the times they stand for.
LEMMA AddSorted ==
    ASSUME NEW q \in Seq(Node), NEW n \in Node, Sorted(q),
           \A i \in 1..Len(q) : Diff(n.mTick, q[i].mTick) = n.due - q[i].due
    PROVE  /\ AddTimerNode(q, n) \in Seq(Node)
           /\ Sorted(AddTimerNode(q, n))
           /\ \A k \in 1..Len(AddTimerNode(q, n)) :
                AddTimerNode(q, n)[k] = n \/ \E i \in 1..Len(q) : AddTimerNode(q, n)[k] = q[i]
<1> DEFINE later == {i \in 1..Len(q) : Diff(n.mTick, q[i].mTick) < 0}
           r == AddTimerNode(q, n)
<1>0. /\ Len(q) \in Nat /\ n.due \in Int
      /\ \A i \in 1..Len(q) : q[i] \in Node /\ q[i].due \in Int
  <2>1. \A x \in Node : x.due \in Int
    BY DEF Node
  <2> QED  BY <2>1, LenProperties, ElementOfSeq
<1>1. \A i \in 1..Len(q) : i \in later <=> n.due < q[i].due
  BY <1>0
<1>2. \E p \in 1..(Len(q) + 1) :
        /\ r \in Seq(Node) /\ Len(r) = Len(q) + 1
        /\ \A i \in 1..(Len(q) + 1) : r[i] = IF i < p THEN q[i] ELSE IF i = p THEN n ELSE q[i - 1]
        /\ \A i \in 1..Len(q) : i < p => q[i].due <= n.due
        /\ \A i \in 1..Len(q) : p <= i => n.due <= q[i].due
  <2>1. CASE later = {}
    <3>1. r = Append(q, n)
      BY <2>1 DEF AddTimerNode
    <3>2. /\ Append(q, n) \in Seq(Node) /\ Len(Append(q, n)) = Len(q) + 1
          /\ \A i \in 1..Len(q) : Append(q, n)[i] = q[i]
          /\ Append(q, n)[Len(q) + 1] = n
      BY AppendProperties
    <3>3. \A i \in 1..Len(q) : q[i].due <= n.due
      BY <1>0, <1>1, <2>1
    <3> DEFINE p == Len(q) + 1
    <3>4. /\ p \in 1..(Len(q) + 1)
          /\ \A i \in 1..(Len(q) + 1) : r[i] = IF i < p THEN q[i] ELSE IF i = p THEN n ELSE q[i - 1]
          /\ \A i \in 1..Len(q) : ~(p <= i)
      <4> HIDE DEF r
      <4> QED  BY <1>0, <3>1, <3>2
    <3> QED  BY <3>1, <3>2, <3>3, <3>4
  <2>2. CASE later # {}
    <3> DEFINE p == CHOOSE j \in later : \A k \in later : j <= k
               s == SubSeq(q, 1, p - 1) \o <<n>> \o SubSeq(q, p, Len(q))
    <3>1. r = s
      BY <2>2 DEF AddTimerNode
    <3>2. later \in SUBSET Nat /\ later \in SUBSET (1..Len(q))
      BY <1>0
    <3>3. p \in later /\ \A k \in later : p <= k
      <4> HIDE DEF later
      <4> QED  BY <2>2, <3>2, LeastNumber
    <3> HIDE DEF p
    <3>4. p \in 1..Len(q)
      BY <3>2, <3>3
    <3>5. /\ s \in Seq(Node) /\ Len(s) = Len(q) + 1
          /\ \A i \in 1..(Len(q) + 1) : s[i] = IF i < p THEN q[i] ELSE IF i = p THEN n ELSE q[i - 1]
      <4>1. IsInserted(s, q, p, n) /\ p \in 1..(Len(q) + 1)
        BY <3>4, <1>0 DEF IsInserted
      <4> HIDE DEF s
      <4> QED  BY <4>1, InsertedAt
    <3> HIDE DEF s, r, later
    <3>6. \A i \in 1..Len(q) : i < p => q[i].due <= n.due
      BY <1>0, <1>1, <3>3, <3>4
    <3>7. n.due <= q[p].due
      BY <1>0, <1>1, <3>3, <3>4
    <3>8. \A i \in 1..Len(q) : p <= i => n.due <= q[i].due
      <4> SUFFICES ASSUME NEW i \in 1..Len(q), p <= i PROVE n.due <= q[i].due
        OBVIOUS
      <4>1. CASE i = p
        BY <4>1, <3>7
      <4>2. CASE p < i
        <5>1. q[p].due <= q[i].due
          BY <4>2, <3>4 DEF Sorted
        <5> QED  BY <5>1, <3>4, <3>7, <1>0
      <4> QED  BY <4>1, <4>2, <3>4
    <3>9. p \in 1..(Len(q) + 1)
      BY <1>0, <3>4
    <3> QED  BY <3>1, <3>5, <3>6, <3>8, <3>9, SMTT(40)
  <2> QED  BY <2>1, <2>2
<1> HIDE DEF r, later
<1>3. PICK p \in 1..(Len(q) + 1) :
        /\ r \in Seq(Node) /\ Len(r) = Len(q) + 1
        /\ \A i \in 1..(Len(q) + 1) : r[i] = IF i < p THEN q[i] ELSE IF i = p THEN n ELSE q[i - 1]
        /\ \A i \in 1..Len(q) : i < p => q[i].due <= n.due
        /\ \A i \in 1..Len(q) : p <= i => n.due <= q[i].due
  BY <1>2
<1>4. ASSUME NEW k \in 1..Len(r)
      PROVE  \/ k < p /\ k \in 1..Len(q) /\ r[k] = q[k]
             \/ k = p /\ r[k] = n
             \/ k > p /\ k - 1 \in 1..Len(q) /\ k - 1 >= p /\ r[k] = q[k - 1]
  BY <1>0, <1>3
<1>5. ASSUME NEW i \in 1..Len(r), NEW j \in 1..Len(r), i < j
      PROVE  r[i].due <= r[j].due
  <2>0. i \in Int /\ j \in Int /\ p \in Int
    BY <1>3, <1>0
  <2>1. CASE j < p
    <3>1. r[i] = q[i] /\ r[j] = q[j] /\ i \in 1..Len(q) /\ j \in 1..Len(q)
      BY <1>4, <1>5, <2>0, <2>1
    <3> QED  BY <3>1, <1>5 DEF Sorted
  <2>2. CASE j = p
    <3>1. r[i] = q[i] /\ r[j] = n /\ i \in 1..Len(q) /\ i < p
      BY <1>4, <1>5, <2>0, <2>2
    <3> QED  BY <3>1, <1>3
  <2>3. CASE j > p /\ i < p
    <3>1. r[i] = q[i] /\ r[j] = q[j - 1] /\ i \in 1..Len(q) /\ j - 1 \in 1..Len(q) /\ i < j - 1
      BY <1>4, <1>5, <2>0, <2>3
    <3> QED  BY <3>1 DEF Sorted
  <2>4. CASE j > p /\ i = p
    <3>1. r[i] = n /\ r[j] = q[j - 1] /\ j - 1 \in 1..Len(q) /\ p <= j - 1
      BY <1>4, <1>5, <2>0, <2>4
    <3> QED  BY <3>1, <1>3
  <2>5. CASE j > p /\ i > p
    <3>1. /\ r[i] = q[i - 1] /\ r[j] = q[j - 1] /\ i - 1 \in 1..Len(q) /\ j - 1 \in 1..Len(q)
          /\ i - 1 < j - 1
      BY <1>4, <1>5, <2>0, <2>5
    <3> QED  BY <3>1 DEF Sorted
  <2>6. j < p \/ j = p \/ (j > p /\ i < p) \/ (j > p /\ i = p) \/ (j > p /\ i > p)
    BY <2>0
  <2> QED
    BY <2>1, <2>2, <2>3, <2>4, <2>5, <2>6
<1>6. Sorted(r)
  BY <1>5 DEF Sorted
<1>7. \A k \in 1..Len(r) : r[k] = n \/ \E i \in 1..Len(q) : r[k] = q[i]
  BY <1>4
<1> QED
  BY <1>3, <1>6, <1>7 DEF r

\* How a periodic node is put off.  P is the period, m the length of a tick, r
\* the milliseconds left over.
LEMMA PeriodArithmetic ==
    ASSUME NEW m \in Nat, m >= 1, NEW P \in Nat, NEW r \in 0..(m - 1)
    PROVE  LET t == (P + m - 1 - r) \div m
               p == P % m
           IN  /\ p \in 0..(m - 1)
               /\ t \in Nat /\ t <= (P + m - 1) \div m
               /\ t * m = P - p + (IF p <= r THEN 0 ELSE m)
               /\ (P + r) % m = IF p + r < m THEN p + r ELSE p + r - m
<1> DEFINE p == P % m  q == P \div m
<1>1. q \in Int /\ p \in 0..(m - 1) /\ P = m * q + p
  BY Division
<1> HIDE DEF p, q
<1>2. m * q \in Int /\ m * (q + 1) = m * q + m /\ q * m = m * q /\ (q + 1) * m = m * q + m
  BY <1>1
<1>3. q >= 0
  <2>1. ASSUME q < 0 PROVE FALSE
    <3>1. m * q <= m * (-1)
      BY <1>1, <2>1
    <3> QED  BY <3>1, <1>1
  <2> QED  BY <2>1, <1>1
<1>4. ASSUME NEW s \in 0..(m - 1)
      PROVE  (P + m - 1 - s) \div m = IF p <= s THEN q ELSE q + 1
  <2>1. CASE p <= s
    <3> DEFINE d == p + m - 1 - s
    <3>1. d \in 0..(m - 1) /\ P + m - 1 - s = m * q + d
      BY <1>1, <1>2, <2>1
    <3> HIDE DEF d
    <3>2. (m * q + d) \div m = q
      BY <1>1, <3>1, RemainderIs
    <3> QED  BY <2>1, <3>1, <3>2
  <2>2. CASE ~(p <= s)
    <3> DEFINE d == p - 1 - s  e == q + 1
    <3>1. d \in 0..(m - 1) /\ e \in Int /\ P + m - 1 - s = m * e + d
      BY <1>1, <1>2, <2>2
    <3>e. e = q + 1
      OBVIOUS
    <3> HIDE DEF d, e
    <3>2. (m * e + d) \div m = e
      BY <3>1, RemainderIs
    <3> QED  BY <2>2, <3>e, <3>1, <3>2
  <2> QED  BY <2>1, <2>2
<1>5. (P + m - 1 - r) \div m = IF p <= r THEN q ELSE q + 1
  BY <1>4
<1>6. (P + m - 1) \div m = IF p <= 0 THEN q ELSE q + 1
  <2>1. 0 \in 0..(m - 1) /\ P + m - 1 - 0 = P + m - 1
    OBVIOUS
  <2> QED  BY <1>4, <2>1
<1>7. (P + r) % m = IF p + r < m THEN p + r ELSE p + r - m
  <2>1. CASE p + r < m
    <3> DEFINE d == p + r
    <3>1. d \in 0..(m - 1) /\ P + r = m * q + d
      BY <1>1, <1>2, <2>1
    <3>2. d = p + r
      OBVIOUS
    <3> HIDE DEF d
    <3>3. (m * q + d) % m = d
      BY <1>1, <3>1, RemainderIs
    <3> QED  BY <2>1, <3>1, <3>2, <3>3
  <2>2. CASE ~(p + r < m)
    <3> DEFINE d == p + r - m  e == q + 1
    <3>1. d \in 0..(m - 1) /\ e \in Int /\ P + r = m * e + d
      BY <1>1, <1>2, <2>2
    <3>2. d = p + r - m
      OBVIOUS
    <3> HIDE DEF d, e
    <3>3. (m * e + d) % m = d
      BY <3>1, RemainderIs
    <3> QED  BY <2>2, <3>1, <3>2, <3>3
  <2> QED  BY <2>1, <2>2
<1> DEFINE t == (P + m - 1 - r) \div m
           u == (P + m - 1) \div m
<1> HIDE DEF t, u
<1>8. t = (IF p <= r THEN q ELSE q + 1) /\ u = (IF p <= 0 THEN q ELSE q + 1)
  BY <1>5, <1>6 DEF t, u
<1>9. t \in Nat /\ t <= u
  BY <1>1, <1>3, <1>8
<1>10. t * m = P - p + (IF p <= r THEN 0 ELSE m)
  BY <1>1, <1>2, <1>8
<1> QED
  BY <1>1, <1>7, <1>9, <1>10 DEF t, u, p

\* How far a periodic node with the period P is from its ideal time depends on
\* the milliseconds left over alone.
Drift(P, r) ==
    LET p == P % M
    IN  IF p = 0 THEN 0 ELSE IF r < p THEN M - p - r ELSE 2 * M - p - r

\* What the milliseconds left over can be, and the drift that goes with them.
Aligned(n) ==
    n.mRepeatMS # 0 =>
        /\ n.mRepeatMS % M = 0 => n.mRemainingMS = 0
        /\ n.drift = Drift(n.mRepeatMS, n.mRemainingMS)

\* A node with the tick t behind it: it is due in the last tick or later, and
\* so soon that its tick compares as it should; it is not due before its time.
Placed(n, t) ==
    /\ n.mTick = n.due % Wrap
    /\ t - 1 <= n.due /\ 2 * (n.due - t + 1) < Wrap
    /\ n.wish <= n.due
    /\ Aligned(n)

\* A list at the tick t.
ListAt(q, t) ==
    /\ q \in Seq(Node)
    /\ \A i \in 1..Len(q) : Placed(q[i], t)
    /\ Sorted(q)

\* The inductive invariant.
TimerInv ==
    /\ now \in Nat /\ mTicks = now % Wrap
    /\ phase \in {"idle", "tick", "onTimeout"} /\ (phase # "idle" => running)
    /\ ListAt(mList, now)
    /\ phase = "idle" => \A i \in 1..Len(mList) : mList[i].due >= now
    /\ phase = "onTimeout" => firing \in Node /\ Placed(firing, now) /\ firing.due <= now

\* The fields of a node.
LEMMA NodeFields ==
    ASSUME NEW n \in Node
    PROVE  /\ n.mTick \in Nat /\ n.mRepeatMS \in Periods \cup {0} /\ n.mRepeatMS \in Nat
           /\ n.mRemainingMS \in 0..(M - 1) /\ n.mRemainingMS \in Nat
           /\ n.due \in Nat /\ n.wish \in Nat /\ n.drift \in Int
           /\ n.item \in Event \cup Listener
<1>1. n.mTick \in 0..(Wrap - 1) /\ n.mRepeatMS \in Periods \cup {0} /\ n.mRemainingMS \in 0..(M - 1)
      /\ n.due \in Nat /\ n.wish \in Nat /\ n.drift \in Int /\ n.item \in Event \cup Listener
  BY DEF Node
<1>2. \A P \in Periods \cup {0} : P \in Nat
  BY TimerAssumption
<1> QED
  BY <1>1, <1>2, TimerConstants

\* Two placed nodes compare as the times they are due at; so does a placed
\* node with the present tick.
LEMMA PlacedCompare ==
    ASSUME NEW n \in Node, NEW t \in Nat, Placed(n, t)
    PROVE  /\ Diff(n.mTick, t % Wrap) = n.due - t
           /\ \A k \in Node : Placed(k, t) => Diff(n.mTick, k.mTick) = n.due - k.due
<1>1. /\ n.due \in Int /\ n.mTick = n.due % Wrap /\ t - 1 <= n.due /\ 2 * (n.due - t + 1) < Wrap
  BY NodeFields DEF Placed
<1>2. Diff(n.mTick, t % Wrap) = n.due - t
  <2>1. -Wrap <= 2 * (n.due - t) /\ 2 * (n.due - t) < Wrap
    <3>1. 2 * (n.due - t) >= -2 /\ Wrap > 2 * (n.due - t) + 2
      BY <1>1, TimerConstants
    <3>2. Wrap >= 2
      BY TimerConstants
    <3> QED  BY <3>1, <3>2, <1>1, TimerConstants
  <2>2. t \in Int
    OBVIOUS
  <2> QED  BY <1>1, <2>1, <2>2, DiffIs
<1>3. ASSUME NEW k \in Node, Placed(k, t) PROVE Diff(n.mTick, k.mTick) = n.due - k.due
  <2>1. /\ k.due \in Int /\ k.mTick = k.due % Wrap /\ t - 1 <= k.due /\ 2 * (k.due - t + 1) < Wrap
    BY <1>3, NodeFields DEF Placed
  <2>2. -Wrap <= 2 * (n.due - k.due) /\ 2 * (n.due - k.due) < Wrap
    BY <1>1, <2>1, TimerConstants
  <2> QED  BY <1>1, <2>1, <2>2, DiffIs
<1> QED
  BY <1>2, <1>3

\* A new node.
LEMMA NewNode ==
    ASSUME ShortDelays, NEW t \in Nat, NEW ms \in Delays \cup Periods, NEW period \in Periods \cup {0},
           period # 0 => period = ms, NEW item \in Event \cup Listener, NEW d \in Dispatcher \cup {None}
    PROVE  LET n == [item |-> item, disp |-> d, mTick |-> ((t % Wrap) + Ticks(ms)) % Wrap,
                     mRepeatMS |-> period, mRemainingMS |-> 0,
                     due |-> t + Ticks(ms), wish |-> t + (ms + M - 1) \div M,
                     drift |-> Ticks(ms) * M - ms]
           IN  n \in Node /\ Placed(n, t) /\ n.due >= t
<1> DEFINE tk == (ms + M - 1) \div M
           n == [item |-> item, disp |-> d, mTick |-> ((t % Wrap) + Ticks(ms)) % Wrap,
                 mRepeatMS |-> period, mRemainingMS |-> 0,
                 due |-> t + Ticks(ms), wish |-> t + tk,
                 drift |-> Ticks(ms) * M - ms]
<1>0. ms \in Nat
  BY TimerAssumption
<1>1. ms + M - 1 < Wrap /\ 2 * (tk + 1) < Wrap
  BY DEF ShortDelays
<1>2. Ticks(ms) = tk
  <2>1. (ms + M - 1) % Wrap = ms + M - 1
    <3> DEFINE x == ms + M - 1
    <3>1. x \in Nat /\ x < Wrap
      BY <1>0, <1>1, TimerConstants
    <3> HIDE DEF x
    <3>2. x % Wrap = x
      BY <3>1, TimerConstants, ModuloOnce
    <3> QED  BY <3>2 DEF x
  <2> QED  BY <2>1 DEF Ticks
<1>3. /\ tk \in Nat /\ ms % M \in 0..(M - 1)
      /\ tk * M = ms - (ms % M) + (IF ms % M <= 0 THEN 0 ELSE M)
  <2> DEFINE s == (ms + M - 1 - 0) \div M
  <2>0. 0 \in 0..(M - 1)
    BY TimerConstants
  <2>1. /\ s \in Nat /\ ms % M \in 0..(M - 1)
        /\ s * M = ms - (ms % M) + (IF ms % M <= 0 THEN 0 ELSE M)
    BY <1>0, <2>0, TimerConstants, PeriodArithmetic
  <2>2. s = tk
    BY <1>0, TimerConstants
  <2> HIDE DEF s, tk
  <2> QED  BY <2>1, <2>2
<1> HIDE DEF tk
<1>4. n.due = t + tk /\ n.wish = t + tk /\ n.drift = tk * M - ms /\ n.mRepeatMS = period /\ n.mRemainingMS = 0
      /\ n.mTick = ((t % Wrap) + tk) % Wrap
  BY <1>2
<1>5. n.mTick = (t + tk) % Wrap /\ n.mTick \in 0..(Wrap - 1)
  <2>1. ((t % Wrap) + tk) % Wrap = (t + tk) % Wrap
    <3>1. t \in Int /\ tk \in Int
      BY <1>3
    <3> QED  BY <3>1, TimerConstants, RemainderOfSum, Zenon
  <2>2. t + tk \in Int
    BY <1>3
  <2>3. (t + tk) % Wrap \in 0..(Wrap - 1)
    BY <2>2, TimerConstants, Division
  <2> QED  BY <1>4, <2>1, <2>3
<1>6. tk * M - ms \in Int /\ t + tk \in Nat /\ 0 \in 0..(M - 1)
  BY <1>0, <1>3, TimerConstants
<1>7. n \in Node
  <2>1. n = [item |-> item, disp |-> d, mTick |-> ((t % Wrap) + tk) % Wrap,
             mRepeatMS |-> period, mRemainingMS |-> 0,
             due |-> t + tk, wish |-> t + tk, drift |-> tk * M - ms]
    BY <1>2
  <2>2. ((t % Wrap) + tk) % Wrap \in 0..(Wrap - 1)
    BY <1>4, <1>5
  <2> QED  BY <2>1, <2>2, <1>6 DEF Node
<1>8. Aligned(n)
  <2> SUFFICES ASSUME period # 0 PROVE (ms % M = 0 => 0 = 0) /\ tk * M - ms = Drift(ms, 0)
    BY <1>4 DEF Aligned
  <2> DEFINE p == ms % M  y == tk * M
  <2>1. p \in 0..(M - 1) /\ y = ms - p + (IF p <= 0 THEN 0 ELSE M)
    BY <1>3
  <2>2. Drift(ms, 0) = IF p = 0 THEN 0 ELSE IF 0 < p THEN M - p - 0 ELSE 2 * M - p - 0
    BY DEF Drift
  <2> HIDE DEF p, y
  <2>3. y - ms = Drift(ms, 0)
    BY <2>1, <2>2, <1>0, TimerConstants
  <2> QED  BY <2>3 DEF y
<1>9. Placed(n, t) /\ n.due >= t
  <2> HIDE DEF n
  <2> QED  BY <1>1, <1>3, <1>4, <1>5, <1>8 DEF Placed
<1> QED
  BY <1>7, <1>9 DEF tk

\* The next occurrence of a node that has fired.
LEMMA RepeatedNode ==
    ASSUME ShortDelays, NEW t \in Nat, NEW n \in Node, n.mRepeatMS # 0, Placed(n, t), n.due <= t
    PROVE  Repeat(n) \in Node /\ Placed(Repeat(n), t)
<1> DEFINE P == n.mRepeatMS  r == n.mRemainingMS  p == P % M
           tk == (P + M - 1 - r) \div M
           s == IF p + r < M THEN p + r ELSE p + r - M
<1>0. P \in Periods /\ P \in Nat /\ r \in 0..(M - 1) /\ n.due \in Nat /\ n.wish \in Nat /\ n.drift \in Int
  BY NodeFields
<1>1. P + M - 1 < Wrap /\ 2 * (((P + M - 1) \div M) + 1) < Wrap
  BY <1>0 DEF ShortDelays
<1>2. /\ p \in 0..(M - 1) /\ tk \in Nat /\ tk <= (P + M - 1) \div M
      /\ tk * M = P - p + (IF p <= r THEN 0 ELSE M)
      /\ (P + r) % M = s
  <2>1. M \in Nat /\ M >= 1
    BY TimerConstants
  <2>2. P \in Nat /\ r \in 0..(M - 1)
    BY <1>0
  <2> HIDE DEF P, r
  <2> QED  BY <2>1, <2>2, PeriodArithmetic, ZenonT(60)
<1>3. (P + M - 1) \div M \in Int
  <2>1. P + M - 1 \in Int
    BY <1>0, TimerConstants
  <2> QED  BY <2>1, TimerConstants, Division
<1>4. /\ n.mTick = n.due % Wrap /\ t - 1 <= n.due
      /\ (p = 0 => r = 0) /\ n.drift = Drift(P, r)
  BY DEF Placed, Aligned
<1>5. /\ (P + M - 1 - r) % Wrap = P + M - 1 - r
      /\ (P + r) % Wrap = P + r
  <2> DEFINE x == P + M - 1 - r  y == P + r
  <2>1. x \in Nat /\ x < Wrap /\ y \in Nat /\ y < Wrap
    BY <1>0, <1>1, TimerConstants
  <2> HIDE DEF x, y
  <2>2. x % Wrap = x /\ y % Wrap = y
    BY <2>1, TimerConstants, ModuloOnce
  <2> QED  BY <2>2 DEF x, y
<1>6. Repeat(n) = [n EXCEPT !.mTick = (@ + tk) % Wrap,
                  !.mRemainingMS = (P + r) % M,
                  !.due = @ + tk,
                  !.wish = n.due + tk,
                  !.drift = @ + tk * M - P]
  BY <1>5 DEF Repeat
<1>7. /\ (n.mTick + tk) % Wrap = (n.due + tk) % Wrap
      /\ (n.due + tk) % Wrap \in 0..(Wrap - 1)
  <2>1. n.due \in Int /\ tk \in Int /\ n.due + tk \in Int
    BY <1>0, <1>2
  <2>2. ((n.due % Wrap) + tk) % Wrap = (n.due + tk) % Wrap
    BY <2>1, TimerConstants, RemainderOfSum, Zenon
  <2>3. (n.due + tk) % Wrap \in 0..(Wrap - 1)
    BY <2>1, TimerConstants, Division
  <2> QED  BY <1>4, <2>2, <2>3
<1>8. s \in 0..(M - 1) /\ tk * M \in Int
  BY <1>0, <1>2, TimerConstants
<1> DEFINE y == tk * M
<1> HIDE DEF tk, s, y
<1>9. y = P - p + (IF p <= r THEN 0 ELSE M) /\ y \in Int
  BY <1>2, <1>8 DEF y
<1> DEFINE k == Repeat(n)
<1>10. k = [n EXCEPT !.mTick = (n.due + tk) % Wrap, !.mRemainingMS = s, !.due = @ + tk,
                     !.wish = n.due + tk, !.drift = @ + y - P]
  BY <1>2, <1>6, <1>7 DEF y
<1> HIDE DEF k
<1>11. k \in Node
  <2>1. n.due + tk \in Nat /\ n.drift + y - P \in Int
    BY <1>0, <1>2, <1>9
  <2> QED  BY <1>7, <1>8, <1>10, <2>1 DEF Node
<1>12. /\ k.mTick = (n.due + tk) % Wrap /\ k.due = n.due + tk /\ k.wish = n.due + tk
       /\ k.mRepeatMS = P /\ k.mRemainingMS = s /\ k.drift = n.drift + y - P
  BY <1>10 DEF Node
<1>13. (p = 0 => s = 0) /\ n.drift + y - P = Drift(P, s)
  <2>1. Drift(P, r) = IF p = 0 THEN 0 ELSE IF r < p THEN M - p - r ELSE 2 * M - p - r
    BY DEF Drift
  <2>2. Drift(P, s) = IF p = 0 THEN 0 ELSE IF s < p THEN M - p - s ELSE 2 * M - p - s
    BY DEF Drift
  <2>3. s = IF p + r < M THEN p + r ELSE p + r - M
    BY DEF s
  <2>4. p \in 0..(M - 1) /\ r \in 0..(M - 1) /\ (p = 0 => r = 0) /\ n.drift = Drift(P, r) /\ P \in Nat
    BY <1>0, <1>2, <1>4
  <2> HIDE DEF p, r, P
  <2>5. CASE p = 0
    BY <2>1, <2>2, <2>3, <2>4, <2>5, <1>9, TimerConstants
  <2>6. CASE p # 0 /\ r < p
    <3>1. n.drift = M - p - r /\ y = P - p + M
      BY <2>1, <2>4, <2>6, <1>9
    <3>2. CASE p + r < M
      BY <3>1, <3>2, <2>2, <2>3, <2>4, <2>6, TimerConstants
    <3>3. CASE ~(p + r < M)
      BY <3>1, <3>3, <2>2, <2>3, <2>4, <2>6, TimerConstants
    <3> QED  BY <3>2, <3>3
  <2>7. CASE p # 0 /\ ~(r < p)
    <3>1. n.drift = 2 * M - p - r /\ y = P - p
      BY <2>1, <2>4, <2>7, <1>9, TimerConstants
    <3>2. CASE p + r < M
      BY <3>1, <3>2, <2>2, <2>3, <2>4, <2>7, TimerConstants
    <3>3. CASE ~(p + r < M)
      BY <3>1, <3>3, <2>2, <2>3, <2>4, <2>7, TimerConstants
    <3> QED  BY <3>2, <3>3
  <2> QED  BY <2>5, <2>6, <2>7
<1>14. t - 1 <= n.due + tk /\ 2 * (n.due + tk - t + 1) < Wrap
  <2> DEFINE w == (P + M - 1) \div M
  <2>1. w \in Int /\ tk <= w /\ 2 * (w + 1) < Wrap /\ tk \in Nat
    BY <1>1, <1>2, <1>3
  <2> HIDE DEF w
  <2>2. n.due + tk - t + 1 <= w + 1
    BY <2>1, <1>0
  <2> QED  BY <2>1, <2>2, <1>0, <1>4, TimerConstants
<1>15. Placed(k, t)
  BY <1>0, <1>2, <1>12, <1>13, <1>14 DEF Placed, Aligned
<1> QED
  BY <1>11, <1>15 DEF k

\* Adding a node.
LEMMA AddKeeps ==
    ASSUME NEW t \in Nat, NEW q, ListAt(q, t), NEW n \in Node, Placed(n, t)
    PROVE  /\ ListAt(AddTimerNode(q, n), t)
           /\ \A k \in 1..Len(AddTimerNode(q, n)) :
                AddTimerNode(q, n)[k] = n \/ \E i \in 1..Len(q) : AddTimerNode(q, n)[k] = q[i]
<1> DEFINE r == AddTimerNode(q, n)
<1>1. q \in Seq(Node) /\ Sorted(q) /\ \A i \in 1..Len(q) : q[i] \in Node /\ Placed(q[i], t)
  BY ElementOfSeq DEF ListAt
<1>2. \A i \in 1..Len(q) : Diff(n.mTick, q[i].mTick) = n.due - q[i].due
  BY <1>1, PlacedCompare
<1>3. /\ r \in Seq(Node) /\ Sorted(r)
      /\ \A k \in 1..Len(r) : r[k] = n \/ \E i \in 1..Len(q) : r[k] = q[i]
  BY <1>1, <1>2, AddSorted
<1> HIDE DEF r
<1>4. \A k \in 1..Len(r) : Placed(r[k], t)
  BY <1>1, <1>3
<1> QED
  BY <1>3, <1>4 DEF ListAt, r

\* Erasing nodes.
LEMMA EraseKeeps ==
    ASSUME NEW t \in Nat, NEW q, ListAt(q, t), NEW D
    PROVE  /\ ListAt(Erase(q, D), t)
           /\ \A k \in 1..Len(Erase(q, D)) : \E i \in 1..Len(q) : Erase(q, D)[k] = q[i]
<1> DEFINE r == Erase(q, D)
<1>1. q \in Seq(Node) /\ Sorted(q) /\ \A i \in 1..Len(q) : Placed(q[i], t)
  BY DEF ListAt
<1>2. r \in Seq(Node)
  BY <1>1, EraseOrder
<1>3. \A k \in 1..Len(r) : \E i \in 1..Len(q) : r[k] = q[i]
  BY <1>1, EraseOrder
<1>4. \A k, m \in 1..Len(r) :
        k < m => \E i, j \in 1..Len(q) : i < j /\ r[k] = q[i] /\ r[m] = q[j]
  BY <1>1, EraseOrder
<1> HIDE DEF r
<1>5. Sorted(r)
  BY <1>1, <1>4 DEF Sorted
<1>6. \A k \in 1..Len(r) : Placed(r[k], t)
  BY <1>1, <1>3
<1> QED
  BY <1>2, <1>3, <1>5, <1>6 DEF ListAt, r

\* Taking the first node off the list.
LEMMA TailKeeps ==
    ASSUME NEW t \in Nat, NEW q, ListAt(q, t), q # <<>>
    PROVE  /\ ListAt(Tail(q), t)
           /\ Head(q) \in Node /\ Placed(Head(q), t)
           /\ \A i \in 1..Len(q) : Head(q).due <= q[i].due
<1>1. q \in Seq(Node) /\ Sorted(q) /\ \A i \in 1..Len(q) : Placed(q[i], t) /\ q[i] \in Node
  BY ElementOfSeq DEF ListAt
<1>2. Len(q) \in Nat /\ Len(q) >= 1 /\ Head(q) = q[1]
  BY <1>1, EmptySeq
<1> DEFINE r == Tail(q)
<1>3. r \in Seq(Node) /\ Len(r) = Len(q) - 1 /\ \A i \in 1..Len(r) : r[i] = q[i + 1]
  BY <1>1, <1>2, HeadTailProperties
<1> HIDE DEF r
<1>4. \A i \in 1..Len(r) : i + 1 \in 1..Len(q)
  BY <1>2, <1>3
<1>5. \A i \in 1..Len(r) : Placed(r[i], t)
  BY <1>1, <1>3, <1>4
<1>6. Sorted(r)
  <2> SUFFICES ASSUME NEW i \in 1..Len(r), NEW j \in 1..Len(r), i < j PROVE r[i].due <= r[j].due
    BY DEF Sorted
  <2>1. i + 1 \in 1..Len(q) /\ j + 1 \in 1..Len(q) /\ i + 1 < j + 1
    BY <1>4, <1>2, <1>3
  <2>2. q[i + 1].due <= q[j + 1].due
    BY <2>1, <1>1 DEF Sorted
  <2> QED  BY <2>2, <1>3
<1>7. 1 \in 1..Len(q) /\ q[1] \in Node /\ Placed(q[1], t)
  BY <1>1, <1>2
<1>8. ASSUME NEW i \in 1..Len(q) PROVE q[1].due <= q[i].due
  <2>1. CASE i = 1
    <3>1. q[1].due \in Nat
      BY <1>7, NodeFields
    <3> QED  BY <2>1, <3>1
  <2>2. CASE 1 < i
    BY <1>1, <1>7, <2>2 DEF Sorted
  <2> QED  BY <2>1, <2>2, <1>2
<1> QED
  BY <1>2, <1>3, <1>5, <1>6, <1>7, <1>8 DEF ListAt, r

\* What happens to the list after a node has fired.
LEMMA FiringKeeps ==
    ASSUME ShortDelays, NEW t \in Nat, NEW q, ListAt(q, t), NEW n \in Node, Placed(n, t), n.due <= t
    PROVE  ListAt(AfterFiring(q, n), t)
<1>1. CASE n.mRepeatMS # 0
  <2>1. Repeat(n) \in Node /\ Placed(Repeat(n), t)
    BY <1>1, RepeatedNode
  <2> DEFINE k == Repeat(n)
  <2> HIDE DEF k
  <2>2. ListAt(AddTimerNode(q, k), t)
    BY <2>1, AddKeeps DEF k
  <2> QED  BY <1>1, <2>2 DEF AfterFiring, k
<1>2. CASE n.mRepeatMS = 0
  BY <1>2 DEF AfterFiring
<1> QED
  BY <1>1, <1>2

\* The constructor.
LEMMA TimerStarts == TimerInit => TimerInv
<1> SUFFICES ASSUME TimerInit PROVE TimerInv
  OBVIOUS
<1>1. mList = <<>> /\ now = 0 /\ mTicks = 0 /\ phase = "idle"
  BY DEF TimerInit
<1>2. 0 % Wrap = 0
  BY TimerConstants, ModuloOnce
<1>3. ListAt(<<>>, 0)
  BY DEF ListAt, Sorted
<1> QED
  BY <1>1, <1>2, <1>3 DEF TimerInv

\* The head is due when the tick has reached the time it stands for.
LEMMA DueHead ==
    ASSUME TimerInv, phase = "tick", mList # <<>>
    PROVE  HeadIsDue <=> Head(mList).due <= now
<1>1. now \in Nat /\ mTicks = now % Wrap /\ ListAt(mList, now)
  BY DEF TimerInv
<1>2. Head(mList) \in Node /\ Placed(Head(mList), now)
  BY <1>1, TailKeeps
<1>3. Diff(Head(mList).mTick, mTicks) = Head(mList).due - now
  BY <1>1, <1>2, PlacedCompare
<1>4. Head(mList).due \in Nat
  BY <1>2, NodeFields
<1> QED
  BY <1>1, <1>3, <1>4 DEF HeadIsDue

\* Adding a timeout.
LEMMA AddStep ==
    ASSUME ShortDelays, TimerInv,
           NEW item \in Event \cup Listener, NEW d \in Dispatcher \cup {None},
           NEW ms \in Delays \cup Periods, NEW period \in Periods \cup {0},
           period # 0 => period = ms, Add(item, d, ms, period)
    PROVE  TimerInv'
<1>0. now \in Nat /\ mTicks = now % Wrap /\ ListAt(mList, now)
  BY DEF TimerInv
<1> DEFINE n == [item |-> item, disp |-> d, mTick |-> ((now % Wrap) + Ticks(ms)) % Wrap,
                 mRepeatMS |-> period, mRemainingMS |-> 0,
                 due |-> now + Ticks(ms), wish |-> now + (ms + M - 1) \div M,
                 drift |-> Ticks(ms) * M - ms]
<1>1. n \in Node /\ Placed(n, now) /\ n.due >= now
  BY <1>0, NewNode
<1>2. /\ mList' = AddTimerNode(mList, n)
      /\ UNCHANGED <<mTicks, running, phase, firing, now>>
  BY <1>0 DEF Add
<1> HIDE DEF n
<1>3. /\ ListAt(mList', now)
      /\ \A k \in 1..Len(mList') : mList'[k] = n \/ \E i \in 1..Len(mList) : mList'[k] = mList[i]
  BY <1>0, <1>1, <1>2, AddKeeps
<1>4. phase = "idle" => \A k \in 1..Len(mList') : mList'[k].due >= now
  BY <1>1, <1>3 DEF TimerInv
<1> QED
  BY <1>0, <1>2, <1>3, <1>4 DEF TimerInv

\* Erasing timeouts.
LEMMA RemoveStep ==
    ASSUME TimerInv, NEW D, RemoveNodes(D)
    PROVE  TimerInv'
<1>0. now \in Nat /\ mTicks = now % Wrap /\ ListAt(mList, now)
  BY DEF TimerInv
<1>1. mList' = Erase(mList, D) /\ UNCHANGED <<mTicks, running, phase, firing, now>>
  BY DEF RemoveNodes
<1>2. /\ ListAt(mList', now)
      /\ \A k \in 1..Len(mList') : \E i \in 1..Len(mList) : mList'[k] = mList[i]
  BY <1>0, <1>1, EraseKeeps
<1>3. phase = "idle" => \A k \in 1..Len(mList') : mList'[k].due >= now
  BY <1>2 DEF TimerInv
<1> QED
  BY <1>0, <1>1, <1>2, <1>3 DEF TimerInv

\* The steps of the clock thread.
LEMMA ClockThreadStep ==
    ASSUME ShortDelays, TimerInv,
           Tick \/ FireEvent \/ FireListener \/ OnTimeoutReturns \/ EndTick
    PROVE  TimerInv'
<1>0. /\ now \in Nat /\ mTicks = now % Wrap /\ ListAt(mList, now) /\ mList \in Seq(Node)
      /\ \A i \in 1..Len(mList) : mList[i] \in Node /\ mList[i].due \in Nat
  <2>1. \A i \in 1..Len(mList) : mList[i] \in Node
    BY ElementOfSeq DEF TimerInv, ListAt
  <2> QED  BY <2>1, NodeFields DEF TimerInv, ListAt
<1>1. CASE Tick
  <2>1. /\ phase = "idle" /\ phase' = "tick" /\ running /\ now' = now + 1 /\ mTicks' = (mTicks + 1) % Wrap
        /\ UNCHANGED <<mList, running, firing>>
    BY <1>1 DEF Tick
  <2>2. mTicks' = now' % Wrap
    <3>1. now \in Int /\ 1 \in Int
      BY <1>0
    <3>2. ((now % Wrap) + 1) % Wrap = (now + 1) % Wrap
      BY <3>1, TimerConstants, RemainderOfSum, Zenon
    <3> QED  BY <1>0, <2>1, <3>2
  <2>3. ASSUME NEW i \in 1..Len(mList) PROVE Placed(mList[i], now + 1)
    <3>1. Placed(mList[i], now) /\ mList[i].due >= now /\ mList[i].due \in Nat
      BY <1>0, <2>1 DEF TimerInv, ListAt
    <3> QED  BY <1>0, <3>1, TimerConstants, SMTT(40) DEF Placed
  <2>4. ListAt(mList', now')
    BY <1>0, <2>1, <2>3 DEF ListAt
  <2> QED  BY <1>0, <2>1, <2>2, <2>4 DEF TimerInv
<1>2. CASE FireEvent \/ FireListener
  <2>1. HeadIsDue /\ phase = "tick" /\ mList # <<>> /\ UNCHANGED <<mTicks, running, now>>
    BY <1>2 DEF FireEvent, FireListener, HeadIsDue
  <2>2. Head(mList).due <= now
    BY <2>1, DueHead
  <2>3. ListAt(Tail(mList), now) /\ Head(mList) \in Node /\ Placed(Head(mList), now)
    BY <1>0, <2>1, TailKeeps
  <2>4. CASE FireEvent
    <3>1. mList' = AfterFiring(Tail(mList), Head(mList)) /\ UNCHANGED <<phase, firing>>
      BY <2>4 DEF FireEvent
    <3>2. ListAt(mList', now)
      BY <1>0, <2>2, <2>3, <3>1, FiringKeeps
    <3> QED  BY <1>0, <2>1, <3>1, <3>2 DEF TimerInv
  <2>5. CASE FireListener
    <3>1. mList' = Tail(mList) /\ firing' = Head(mList) /\ phase' = "onTimeout"
      BY <2>5 DEF FireListener
    <3> QED  BY <1>0, <2>1, <2>2, <2>3, <3>1 DEF TimerInv
  <2> QED  BY <1>2, <2>4, <2>5
<1>3. CASE OnTimeoutReturns
  <2>1. /\ phase = "onTimeout" /\ mList' = AfterFiring(mList, firing) /\ phase' = "tick"
        /\ UNCHANGED <<mTicks, running, now>>
    BY <1>3 DEF OnTimeoutReturns
  <2>2. firing \in Node /\ Placed(firing, now) /\ firing.due <= now
    BY <2>1 DEF TimerInv
  <2>3. ListAt(mList', now)
    BY <1>0, <2>1, <2>2, FiringKeeps
  <2> QED  BY <1>0, <2>1, <2>3 DEF TimerInv
<1>4. CASE EndTick
  <2>1. /\ phase = "tick" /\ ~ HeadIsDue /\ phase' = "idle"
        /\ UNCHANGED <<mTicks, mList, running, firing, now>>
    BY <1>4 DEF EndTick
  <2>2. ASSUME NEW i \in 1..Len(mList) PROVE mList[i].due >= now
    <3>1. mList # <<>>
      BY <1>0, EmptySeq
    <3>2. ~(Head(mList).due <= now)
      BY <2>1, <3>1, DueHead
    <3>3. Head(mList).due <= mList[i].due /\ Head(mList) \in Node
      BY <1>0, <3>1, TailKeeps
    <3>4. Head(mList).due \in Nat /\ mList[i].due \in Nat
      BY <1>0, <3>3, NodeFields
    <3> QED  BY <1>0, <3>2, <3>3, <3>4
  <2> QED  BY <1>0, <2>1, <2>2 DEF TimerInv
<1> QED
  BY <1>1, <1>2, <1>3, <1>4

\* Every step keeps the invariant.
LEMMA TimerStep ==
    ASSUME ShortDelays, TimerInv, [TimerNext]_timerVars
    PROVE  TimerInv'
<1>1. ASSUME NEW item \in Event \cup Listener, NEW d \in Dispatcher \cup {None},
             AddOneShot(item, d) \/ AddPeriodic(item, d)
      PROVE  TimerInv'
  <2>1. CASE AddOneShot(item, d)
    <3>1. PICK ms \in Delays : Add(item, d, ms, 0)
      BY <2>1 DEF AddOneShot
    <3>2. ms \in Delays \cup Periods /\ 0 \in Periods \cup {0}
      OBVIOUS
    <3> QED  BY <3>1, <3>2, AddStep
  <2>2. CASE AddPeriodic(item, d)
    <3>1. PICK period \in Periods \ {0} : Add(item, d, period, period)
      BY <2>2 DEF AddPeriodic
    <3>2. period \in Delays \cup Periods /\ period \in Periods \cup {0}
      OBVIOUS
    <3> QED  BY <3>1, <3>2, AddStep
  <2> QED  BY <1>1, <2>1, <2>2
<1>2. CASE \E l \in Listener : AddOneShot(l, None) \/ AddPeriodic(l, None)
  <2>1. PICK l \in Listener : AddOneShot(l, None) \/ AddPeriodic(l, None)
    BY <1>2
  <2>2. l \in Event \cup Listener /\ None \in Dispatcher \cup {None}
    OBVIOUS
  <2> QED  BY <1>1, <2>1, <2>2
<1>3. CASE \E e \in Event, d \in Dispatcher : AddOneShot(e, d) \/ AddPeriodic(e, d)
  <2>1. PICK e \in Event, d \in Dispatcher : AddOneShot(e, d) \/ AddPeriodic(e, d)
    BY <1>3
  <2>2. e \in Event \cup Listener /\ d \in Dispatcher \cup {None}
    OBVIOUS
  <2> QED  BY <1>1, <2>1, <2>2
<1>4. CASE \/ \E id \in EventId \cup {AnyId}, d \in Dispatcher : RemoveId(id, d)
           \/ \E e \in Event : RemoveEvent(e)
           \/ \E r \in Receiver, d \in Dispatcher : RemoveAgents(r, d)
  <2>1. \E D : RemoveNodes(D)
    BY <1>4, Zenon DEF RemoveId, RemoveEvent, RemoveAgents
  <2> QED  BY <2>1, RemoveStep
<1>5. CASE RemoveAgentsCrash \/ Stop
  <2>1. UNCHANGED <<mTicks, mList, running, phase, firing, now>>
    BY <1>5 DEF RemoveAgentsCrash, Stop
  <2> QED  BY <2>1 DEF TimerInv
<1>6. CASE Stopped
  <2>1. phase = "idle" /\ UNCHANGED <<mTicks, mList, phase, firing, now>>
    BY <1>6 DEF Stopped
  <2> QED  BY <2>1 DEF TimerInv
<1>7. CASE Start
  <2>1. /\ ~ running /\ mTicks' = 0 /\ mList' = <<>> /\ running' = TRUE /\ now' = 0
        /\ UNCHANGED <<phase, firing>>
    BY <1>7 DEF Start
  <2>2. phase = "idle"
    BY <2>1 DEF TimerInv
  <2>3. 0 % Wrap = 0
    BY TimerConstants, ModuloOnce
  <2>4. ListAt(<<>>, 0)
    BY DEF ListAt, Sorted
  <2> QED  BY <2>1, <2>2, <2>3, <2>4 DEF TimerInv
<1>8. CASE Tick \/ FireEvent \/ FireListener \/ OnTimeoutReturns \/ EndTick
  BY <1>8, ClockThreadStep
<1>9. CASE UNCHANGED timerVars
  BY <1>9 DEF timerVars, TimerInv
<1> QED
  BY <1>2, <1>3, <1>4, <1>5, <1>6, <1>7, <1>8, <1>9 DEF TimerNext

\* As long as the delays that programs ask for are less than half the range of
\* the tick counter, no timeout is missed when a tick ends, however often the
\* counter has wrapped around.
THEOREM NothingEverOverdue ==
    ASSUME ShortDelays
    PROVE  TimerSpec => []NothingOverdue
<1>1. TimerInv => NothingOverdue
  BY DEF TimerInv, NothingOverdue
<1>2. TimerInv /\ [TimerNext]_timerVars => TimerInv'
  BY TimerStep
<1> QED
  BY <1>1, <1>2, TimerStarts, PTL DEF TimerSpec

\* With the same delays no timeout fires before its time, for handleTick finds
\* the head due only when the ticks counted have reached the tick it stands for.
THEOREM NeverFiresEarly ==
    ASSUME ShortDelays
    PROVE  TimerSpec => NeverEarly
<1>1. TimerInv /\ [TimerNext]_timerVars => TimerInv'
  BY TimerStep
<1>2. TimerInv => (HeadIsDue /\ mList' # mList => now >= Head(mList).wish)
  <2> SUFFICES ASSUME TimerInv, HeadIsDue PROVE now >= Head(mList).wish
    OBVIOUS
  <2>1. phase = "tick" /\ mList # <<>> /\ now \in Nat /\ ListAt(mList, now)
    BY DEF HeadIsDue, TimerInv
  <2>2. Head(mList).due <= now
    BY <2>1, DueHead
  <2>3. Head(mList) \in Node /\ Head(mList).wish <= Head(mList).due
    BY <2>1, TailKeeps DEF Placed
  <2>4. Head(mList).wish \in Nat /\ Head(mList).due \in Nat
    BY <2>3, NodeFields
  <2> QED  BY <2>1, <2>2, <2>3, <2>4
<1>3. TimerInv /\ [TimerNext]_timerVars
        => [HeadIsDue /\ mList' # mList => now >= Head(mList).wish]_timerVars
  BY <1>2
<1> QED
  BY <1>1, <1>3, TimerStarts, PTL DEF TimerSpec, NeverEarly

\* With the same delays a periodic timeout stays aligned: the milliseconds left
\* over say how far the node is from its ideal time, so that the rounding of
\* one period never adds to that of another.
THEOREM PeriodicAlwaysAligned ==
    ASSUME ShortDelays
    PROVE  TimerSpec => []PeriodicStaysAligned
<1>1. TimerInv => PeriodicStaysAligned
  <2> SUFFICES ASSUME TimerInv, NEW i \in 1..Len(mList), mList[i].mRepeatMS # 0
               PROVE  -M < mList[i].drift /\ mList[i].drift < 2 * M
    BY DEF PeriodicStaysAligned
  <2> DEFINE P == mList[i].mRepeatMS  r == mList[i].mRemainingMS  p == P % M
  <2>1. mList[i] \in Node /\ Placed(mList[i], now)
    BY ElementOfSeq DEF TimerInv, ListAt
  <2>2. P \in Nat /\ r \in 0..(M - 1)
    BY <2>1, NodeFields
  <2>3. mList[i].drift = IF p = 0 THEN 0 ELSE IF r < p THEN M - p - r ELSE 2 * M - p - r
    BY <2>1 DEF Placed, Aligned, Drift
  <2>4. p \in 0..(M - 1)
    <3>1. P \in Int
      BY <2>2
    <3> HIDE DEF P
    <3> QED  BY <3>1, TimerConstants, Division
  <2> HIDE DEF p, r, P
  <2> QED  BY <2>2, <2>3, <2>4, TimerConstants
<1>2. TimerInv /\ [TimerNext]_timerVars => TimerInv'
  BY TimerStep
<1> QED
  BY <1>1, <1>2, TimerStarts, PTL DEF TimerSpec

-----------------------------------------------------------------------------
(* The clock *)

Places == {"loop", "waiting", "awake", "resync", "count"}

\* Types of the variables the arithmetic is about.
ClockTypes ==
    /\ clock \in Int /\ startTime \in Int /\ curTime \in Int /\ deadline \in Int
    /\ clockAt \in Places
    /\ counted \in Nat /\ elapsed \in Nat /\ sets \in Nat

\* How much time ticks may have been counted for.
Allowed == elapsed + sets * JumpLimit

\* What the loop that is counting ticks may still count.
Pending == IF clockAt = "count" /\ curTime > startTime THEN curTime - startTime ELSE 0

\* The clock has gone on from startTime without a setting that is not paid
\* for: counting up to the clock stays within what is allowed.
InStep ==
    /\ startTime <= clock
    /\ clockAt = "count" => curTime <= clock
    /\ counted * mMsPerTick + (clock - startTime) <= Allowed

\* A setting of the clock has not been used: there is room for a jump.
InCredit == counted * mMsPerTick + Pending + JumpLimit <= Allowed

\* One of the two always holds, and a new beginning always uses the credit.
NotAhead == (InStep \/ InCredit) /\ (clockAt = "resync" => InCredit)

\* While the clock is left alone, startTime is the time of the ticks counted,
\* and no more than a tick behind the last reading except while counting.
NotBehind ==
    (sets = 0 /\ ~ resynced) =>
        /\ startTime = counted * mMsPerTick
        /\ clockAt # "resync" => startTime <= curTime
        /\ clockAt \in {"loop", "waiting", "awake"} => curTime - startTime <= mMsPerTick

ClockInv == ClockTypes /\ NotAhead /\ NotBehind

\* The products in the invariant.
LEMMA Products ==
    /\ \A c \in Nat, m \in Int : c * m \in Int /\ (c + 1) * m = c * m + m
    /\ \A m \in Int : 0 * m = 0
  BY SMT

\* Constants.
LEMMA ClockConstants ==
    mMsPerTick \in Nat /\ mMsPerTick >= 1 /\ JumpLimit \in Nat /\ JumpLimit >= mMsPerTick
  BY ClockAssumption

\* The constructor's state.
LEMMA ClockStarts == ClockInit => ClockInv
<1> SUFFICES ASSUME ClockInit PROVE ClockInv
  OBVIOUS
<1>1. counted * mMsPerTick = 0 /\ sets * JumpLimit = 0
  BY Products, ClockConstants DEF ClockInit
<1>2. ClockTypes
  BY DEF ClockInit, ClockTypes, Places
<1>3. NotAhead
  BY <1>1 DEF ClockInit, NotAhead, InStep, Allowed
<1>4. NotBehind
  BY <1>1, ClockConstants DEF ClockInit, NotBehind
<1> QED
  BY <1>2, <1>3, <1>4 DEF ClockInv

\* In either case the ticks are not ahead of what is allowed.
LEMMA WithinAllowed ==
    ASSUME ClockInv
    PROVE  counted * mMsPerTick + Pending <= Allowed /\ Pending \in Nat
           /\ counted * mMsPerTick \in Int /\ Allowed \in Int
<1>1. counted * mMsPerTick \in Int /\ sets * JumpLimit \in Int
  BY Products, ClockConstants DEF ClockInv, ClockTypes
<1>2. Pending \in Nat /\ Allowed \in Int
  BY <1>1 DEF ClockInv, ClockTypes, Pending, Allowed
<1>3. CASE InStep
  BY <1>1, <1>2, <1>3 DEF ClockInv, ClockTypes, InStep, Pending
<1>4. CASE InCredit
  BY <1>1, <1>2, <1>4, ClockConstants DEF InCredit
<1> QED
  BY <1>1, <1>2, <1>3, <1>4 DEF ClockInv, NotAhead

\* Every step of the thread and of the world keeps the invariant.
LEMMA ClockStep == ClockInv /\ [ClockNext]_clockVars => ClockInv'
<1> SUFFICES ASSUME ClockInv, [ClockNext]_clockVars PROVE ClockInv'
  OBVIOUS
<1> DEFINE ticks == counted * mMsPerTick
           credit == sets * JumpLimit
<1>1. ticks \in Int /\ credit \in Int /\ (counted + 1) * mMsPerTick = ticks + mMsPerTick
      /\ (sets + 1) * JumpLimit = credit + JumpLimit
  BY Products, ClockConstants DEF ClockInv, ClockTypes
<1>2. ticks + Pending <= elapsed + credit /\ Pending \in Nat
  BY WithinAllowed DEF Allowed
<1> USE ClockConstants
<1>a. CASE Pass
  <2>1. ticks' = ticks /\ credit' = credit /\ elapsed' = elapsed + 1 /\ clock' = clock + 1
        /\ UNCHANGED <<startTime, curTime, deadline, clockAt, counted, sets, resynced>>
    BY <1>a DEF Pass
  <2>2. ClockTypes'
    BY <2>1 DEF ClockInv, ClockTypes
  <2>3. NotAhead'
    BY <1>1, <2>1 DEF ClockInv, ClockTypes, NotAhead, InStep, InCredit, Allowed, Pending
  <2>4. NotBehind'
    BY <2>1 DEF ClockInv, NotBehind
  <2> QED  BY <2>2, <2>3, <2>4 DEF ClockInv
<1>b. ASSUME NEW by \in ClockSteps, SetClock(by) PROVE ClockInv'
  <2>1. ticks' = ticks /\ credit' = credit + JumpLimit /\ clock' = clock + by /\ sets' = sets + 1
        /\ UNCHANGED <<startTime, curTime, deadline, clockAt, counted, elapsed, resynced>>
    BY <1>b, <1>1 DEF SetClock
  <2>2. ClockTypes'
    BY <2>1, <1>b, ClockAssumption DEF ClockInv, ClockTypes
  <2>3. InCredit'
    BY <1>1, <1>2, <2>1 DEF ClockInv, ClockTypes, InCredit, Allowed, Pending
  <2>4. NotBehind'
    BY <2>1 DEF ClockInv, ClockTypes, NotBehind
  <2> QED  BY <2>2, <2>3, <2>4 DEF ClockInv, NotAhead
<1>c. CASE BeginWait \/ WaitTimesOut \/ SpuriousWakeup
  <2>1. /\ clockAt \in {"loop", "waiting"} /\ clockAt' \in {"loop", "waiting", "awake"}
        /\ deadline' \in Int
        /\ UNCHANGED <<clock, startTime, curTime, counted, elapsed, sets, resynced>>
    BY <1>c DEF BeginWait, WaitTimesOut, SpuriousWakeup, ClockInv, ClockTypes
  <2>2. ClockTypes'
    BY <2>1 DEF ClockInv, ClockTypes, Places
  <2>3. NotAhead'
    BY <1>1, <2>1 DEF ClockInv, ClockTypes, NotAhead, InStep, InCredit, Allowed, Pending
  <2>4. NotBehind'
    BY <2>1 DEF ClockInv, NotBehind
  <2> QED  BY <2>2, <2>3, <2>4 DEF ClockInv
<1>d. CASE ReadClock
  <2> DEFINE diff == clock - startTime
  <2>1. /\ clockAt = "awake" /\ curTime' = clock
        /\ clockAt' = IF diff < 0 \/ diff > JumpLimit THEN "resync" ELSE "count"
        /\ UNCHANGED <<clock, startTime, deadline, counted, elapsed, sets, resynced>>
    BY <1>d DEF ReadClock, Jumped, GetDifference
  <2>2. ClockTypes'
    BY <2>1 DEF ClockInv, ClockTypes, Places
  <2>3. CASE diff < 0 \/ diff > JumpLimit
    <3>1. InCredit'
      BY <1>1, <1>2, <2>1, <2>3 DEF ClockInv, ClockTypes, NotAhead, InStep, InCredit, Allowed, Pending
    <3>2. NotBehind'
      BY <2>1, <2>3 DEF ClockInv, NotBehind
    <3> QED  BY <2>2, <3>1, <3>2 DEF ClockInv, NotAhead
  <2>4. CASE ~ (diff < 0 \/ diff > JumpLimit)
    <3>1. InStep' /\ clockAt' = "count"
      BY <1>1, <1>2, <2>1, <2>4 DEF ClockInv, ClockTypes, NotAhead, InStep, InCredit, Allowed, Pending
    <3>2. NotBehind'
      BY <2>1, <2>4 DEF ClockInv, ClockTypes, NotBehind
    <3> QED  BY <2>2, <3>1, <3>2 DEF ClockInv, NotAhead
  <2> QED  BY <2>3, <2>4
<1>e. CASE Resync
  <2>1. /\ clockAt = "resync" /\ clockAt' = "loop" /\ startTime' = clock /\ resynced' = TRUE
        /\ counted' = counted + 1 /\ ticks' = ticks + mMsPerTick /\ credit' = credit
        /\ UNCHANGED <<clock, curTime, deadline, elapsed, sets>>
    BY <1>e, <1>1 DEF Resync
  <2>2. ClockTypes'
    BY <2>1 DEF ClockInv, ClockTypes, Places
  <2>3. InStep'
    BY <1>1, <1>2, <2>1 DEF ClockInv, ClockTypes, NotAhead, InStep, InCredit, Allowed
  <2> QED  BY <2>1, <2>2, <2>3 DEF ClockInv, NotAhead, NotBehind
<1>f. CASE CountTick
  <2>1. /\ clockAt = "count" /\ curTime - startTime > mMsPerTick /\ startTime' = startTime + mMsPerTick
        /\ counted' = counted + 1 /\ ticks' = ticks + mMsPerTick /\ credit' = credit
        /\ UNCHANGED <<clock, curTime, deadline, clockAt, elapsed, sets, resynced>>
    BY <1>f, <1>1 DEF CountTick, GetDifference
  <2>2. ClockTypes'
    BY <2>1 DEF ClockInv, ClockTypes
  <2>3. NotAhead'
    BY <1>1, <2>1 DEF ClockInv, ClockTypes, NotAhead, InStep, InCredit, Allowed, Pending
  <2>4. NotBehind'
    BY <1>1, <2>1 DEF ClockInv, ClockTypes, NotBehind
  <2> QED  BY <2>2, <2>3, <2>4 DEF ClockInv
<1>g. CASE CaughtUp
  <2>1. /\ clockAt = "count" /\ clockAt' = "loop" /\ curTime - startTime <= mMsPerTick
        /\ UNCHANGED <<clock, startTime, curTime, deadline, counted, elapsed, sets, resynced>>
    BY <1>g DEF CaughtUp, GetDifference
  <2>2. ClockTypes'
    BY <2>1 DEF ClockInv, ClockTypes, Places
  <2>3. NotAhead'
    BY <1>1, <1>2, <2>1 DEF ClockInv, ClockTypes, NotAhead, InStep, InCredit, Allowed, Pending
  <2>4. NotBehind'
    BY <2>1 DEF ClockInv, NotBehind
  <2> QED  BY <2>2, <2>3, <2>4 DEF ClockInv
<1>h. CASE UNCHANGED clockVars
  BY <1>h DEF clockVars, ClockInv, ClockTypes, NotAhead, InStep, InCredit, Allowed, Pending, NotBehind
<1> QED
  BY <1>a, <1>b, <1>c, <1>d, <1>e, <1>f, <1>g, <1>h DEF ClockNext

\* What the invariant says of the ticks.
LEMMA InvariantKeepsTime == ClockInv => TicksKeepTime
<1> SUFFICES ASSUME ClockInv PROVE TicksKeepTime
  OBVIOUS
<1>1. counted * mMsPerTick <= elapsed + sets * JumpLimit
  BY WithinAllowed DEF Allowed
<1>2. counted * mMsPerTick \in Int /\ (counted + 1) * mMsPerTick = counted * mMsPerTick + mMsPerTick
  BY Products, ClockConstants DEF ClockInv, ClockTypes
<1> QED
  BY <1>1, <1>2, ClockConstants DEF TicksKeepTime, ClockInv, ClockTypes, NotBehind

\* The ticks that clockHandler counts keep up with the time and are never
\* ahead of it by more than the jump limit for each setting of the clock.
THEOREM TicksAlwaysKeepTime == ClockSpec => []TicksKeepTime
  BY ClockStarts, ClockStep, InvariantKeepsTime, PTL DEF ClockSpec

-----------------------------------------------------------------------------
(* The manager *)

\* The node n is one that the remove() in progress asks for.
Asked(n) == removing \in {n.id, EveryId}

\* A node that no finished remove() should have taken, or could.
Fresh(n) ==
    /\ n.id \in TimedId /\ n.seq \in Nat /\ n.seq < sends
    /\ n.seq < cutoff[n.id] => n.via \in unknown[n.id]

\* The inductive invariant: the timers that the loop of a remove() has visited
\* hold nothing that it asks for, except what was sent since; those it will
\* not visit are the missed ones.
ManagerInv ==
    /\ sends \in Nat /\ since \in Nat /\ since <= sends
    /\ \A id \in TimedId : cutoff[id] \in Nat /\ cutoff[id] <= sends
    /\ list = [t \in Timer |-> list[t]]
    /\ \A n \in queue : Fresh(n)
    /\ \A t \in Timer : \A n \in list[t] :
          /\ Fresh(n) /\ n.via = t
          /\ removing # Absent /\ t \notin todo \cup missed /\ Asked(n) => since <= n.seq

\* The first state.
LEMMA ManagerStarts == ManagerInit => ManagerInv
  BY DEF ManagerInit, ManagerInv

\* Every step keeps the invariant.
LEMMA ManagerStep ==
    ASSUME ManagerInv, [ManagerNext]_managerVars
    PROVE  ManagerInv'
<1> USE DEF Fresh, Asked
<1>1. ASSUME NEW t \in Timer, NEW ms \in TickTime, GetNewTimer(t, ms) PROVE ManagerInv'
  BY <1>1 DEF GetNewTimer, ManagerInv
<1>2. ASSUME NEW t \in Timer, AddTimer(t) PROVE ManagerInv'
  BY <1>2 DEF AddTimer, ManagerInv, ManagerUnlocked
<1>3. ASSUME NEW t \in Timer, DestroyTimer(t) PROVE ManagerInv'
  BY <1>3 DEF DestroyTimer, ManagerInv, ManagerUnlocked
<1>4. ASSUME NEW id \in TimedId, SendEvent(id) PROVE ManagerInv'
  BY <1>4 DEF SendEvent, ManagerInv
<1>5. ASSUME NEW t \in Timer, NEW id \in TimedId, NEW p \in BOOLEAN, SendTimed(t, id, p)
      PROVE  ManagerInv'
  <2>0. PICK n : n = [id |-> id, periodic |-> p, via |-> t, seq |-> sends]
    OBVIOUS
  <2>1. /\ sends' = sends + 1 /\ list' = [list EXCEPT ![t] = @ \cup {n}]
        /\ UNCHANGED <<queue, removing, todo, missed, since, cutoff, unknown>>
    BY <1>5, <2>0 DEF SendTimed
  <2>2. n.id = id /\ n.seq = sends /\ n.via = t
    BY <2>0
  <2>3. /\ \A u \in Timer : \A x \in list'[u] : x \in list[u] \/ (u = t /\ x = n)
        /\ list' = [u \in Timer |-> list'[u]]
    BY <2>1 DEF ManagerInv
  <2>4. Fresh(n)' /\ since <= n.seq
    BY <2>1, <2>2 DEF ManagerInv
  <2>5. \A u \in Timer : \A x \in list[u] : Fresh(x)'
    BY <2>1 DEF ManagerInv
  <2>6. \A x \in queue : Fresh(x)'
    BY <2>1 DEF ManagerInv
  <2>7. \A id2 \in TimedId : cutoff[id2] <= sends + 1
    BY DEF ManagerInv
  <2>8. ASSUME NEW u \in Timer, NEW x \in list'[u]
        PROVE  /\ Fresh(x)' /\ x.via = u
               /\ (removing # Absent /\ u \notin todo \cup missed /\ Asked(x) => since <= x.seq)'
    <3>1. CASE x \in list[u]
      BY <2>1, <2>5, <3>1 DEF ManagerInv
    <3>2. CASE x = n /\ u = t
      BY <2>1, <2>2, <2>4, <3>2
    <3> QED  BY <2>3, <3>1, <3>2
  <2> QED  BY <2>1, <2>3, <2>6, <2>7, <2>8 DEF ManagerInv
<1>6. ASSUME NEW t \in Timer, NEW n \in list[t], Fire(t, n) PROVE ManagerInv'
  <2>1. /\ queue' = queue \cup {n} /\ n \in list[t]
        /\ \A u \in Timer : list'[u] \subseteq list[u]
        /\ list' = [u \in Timer |-> list'[u]]
        /\ UNCHANGED <<removing, todo, missed, since, sends, cutoff, unknown>>
    BY <1>6 DEF Fire, ManagerInv
  <2> QED  BY <2>1 DEF ManagerInv
<1>7. ASSUME NEW n \in queue, Deliver(n) PROVE ManagerInv'
  BY <1>7 DEF Deliver, ManagerInv
<1>8. ASSUME NEW id \in TimedId \cup {EveryId}, StartRemove(id) PROVE ManagerInv'
  BY <1>8 DEF StartRemove, ManagerInv
<1>9. ASSUME NEW t \in Timer, RemoveFromTimer(t) PROVE ManagerInv'
  <2>1. /\ t \in todo /\ todo' = todo \ {t}
        /\ list' = [list EXCEPT ![t] = {n \in @ : n.id # removing /\ removing # EveryId}]
        /\ UNCHANGED <<queue, removing, missed, since, sends, cutoff, unknown>>
    BY <1>9 DEF RemoveFromTimer
  <2>2. /\ \A u \in Timer : u # t => list'[u] = list[u]
        /\ \A n \in list'[t] : n \in list[t] /\ ~ Asked(n)
        /\ list' = [u \in Timer |-> list'[u]]
    BY <2>1 DEF ManagerInv
  <2> QED  BY <2>1, <2>2 DEF ManagerInv
<1>10. CASE FinishRemove
  <2>1. /\ removing # Absent /\ todo = {} /\ removing' = Absent
        /\ queue' = {n \in queue : n.id # removing /\ removing # EveryId}
        /\ cutoff' = [id \in TimedId |-> IF removing \in {id, EveryId} THEN since ELSE cutoff[id]]
        /\ unknown' = [id \in TimedId |-> IF removing \in {id, EveryId} THEN missed ELSE unknown[id]]
        /\ since' = 0 /\ UNCHANGED <<list, todo, sends>>
    BY <1>10 DEF FinishRemove
  <2>2. \A n \in queue' : Fresh(n)'
    BY <2>1 DEF ManagerInv
  <2>3. ASSUME NEW t \in Timer, NEW n \in list[t] PROVE Fresh(n)'
    <3>1. Fresh(n) /\ n.via = t /\ (Asked(n) /\ n.seq < since => t \in missed)
      BY <2>1 DEF ManagerInv
    <3>2. CASE Asked(n)
      BY <2>1, <3>1, <3>2
    <3>3. CASE ~ Asked(n)
      BY <2>1, <3>1, <3>3
    <3> QED  BY <3>2, <3>3
  <2>4. \A id \in TimedId : cutoff'[id] \in Nat /\ cutoff'[id] <= sends
    BY <2>1 DEF ManagerInv
  <2>5. \A t \in Timer : \A n \in list[t] : n.via = t
    BY DEF ManagerInv
  <2> QED  BY <2>1, <2>2, <2>3, <2>4, <2>5 DEF ManagerInv
<1>11. CASE UNCHANGED managerVars
  BY <1>11 DEF managerVars, ManagerInv
<1> QED
  BY <1>1, <1>2, <1>3, <1>4, <1>5, <1>6, <1>7, <1>8, <1>9, <1>10, <1>11 DEF ManagerNext

\* Whichever timers are in the manager's vector and however they fire while the
\* manager's loop is under way, what was sent before a remove() that has
\* returned comes only through a timer that the vector did not have.
THEOREM RemovedIsAlwaysGone == ManagerSpec => []RemovedUnlessUnknown
<1>1. ManagerInv => RemovedUnlessUnknown
  BY DEF ManagerInv, RemovedUnlessUnknown, Fresh
<1>2. ManagerInv /\ [ManagerNext]_managerVars => ManagerInv'
  BY ManagerStep
<1> QED
  BY <1>1, <1>2, ManagerStarts, PTL DEF ManagerSpec
=============================================================================
