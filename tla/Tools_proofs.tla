----------------------------- MODULE Tools_proofs -----------------------------
(***************************************************************************)
(* Proofs about what a person runs beside the engine: the replay of a      *)
(* strategy, for every window, every series of closes and predictions,     *)
(* every set of parameters and every answer of a script; and the skill's   *)
(* scripts, for any catalogue of programs, any firms and any number of     *)
(* pages.                                                                  *)
(***************************************************************************)
EXTENDS Backtest, ScriptRunner, SequenceTheorems, WellFoundedInduction, TLAPS

-----------------------------------------------------------------------------
(* Induction over the numbers. *)

LEMMA LeastNumber ==
  ASSUME NEW T \in SUBSET Nat, T # {}
  PROVE  \E m \in T : \A k \in T : m <= k
<1> DEFINE R == {ss \in Nat \X Nat : ss[1] < ss[2]}
<1>1. IsWellFoundedOn(R, Nat)
  BY NatLessThanWellFounded DEF OpToRel
<1> HIDE DEF R
<1>2. PICK x \in T : \A y \in T : ~ (<<y, x>> \in R)
  BY <1>1, WFMin
<1>3. \A y \in T : ~ (y < x)
  BY <1>2 DEF R
<1>. QED
  BY <1>3

\* Induction over the numbers, as a fact about sets.
LEMMA Induction ==
  ASSUME NEW T \in SUBSET Nat, 0 \in T, \A n \in T : n + 1 \in T
  PROVE  T = Nat
<1> SUFFICES ASSUME Nat \ T # {} PROVE FALSE
  OBVIOUS
<1>1. PICK m \in Nat \ T : \A k \in Nat \ T : m <= k
  BY LeastNumber
<1>2. m # 0 /\ m - 1 \in Nat
  BY <1>1
<1>3. m - 1 \in T
  BY <1>1, <1>2
<1>. QED
  BY <1>1, <1>3

-----------------------------------------------------------------------------
(* The sum of a sequence. *)

\* The function that FoldLeft chooses.
IsSum(g, t) ==
  g = [s \in SUBSET DOMAIN t |-> IF s = {} THEN 0 ELSE g[s \ {Max(s)}] + t[Max(s)]]

SumOf(t) == FoldLeft(+, 0, t)

LEMMA MaxOf ==
  ASSUME NEW n \in Nat, NEW s \in SUBSET (1..n), s # {}
  PROVE  Max(s) \in s /\ \A y \in s : Max(s) >= y
<1> DEFINE T == {m \in Nat : \A y \in s : m >= y}
<1>1. n \in T
  OBVIOUS
<1>2. PICK m \in T : \A k \in T : m <= k
  <2>1. T \in SUBSET Nat /\ T # {}
    BY <1>1
  <2> HIDE DEF T
  <2>. QED
    BY <2>1, LeastNumber
<1>3. m \in Nat /\ \A y \in s : m >= y
  BY <1>2
<1>4. m \in s
  <2> SUFFICES ASSUME m \notin s PROVE FALSE
    OBVIOUS
  <2>1. PICK y \in s : TRUE
    OBVIOUS
  <2>2. m - 1 \in Nat
    BY <1>3, <2>1
  <2>3. \A x \in s : m - 1 >= x
    BY <1>3
  <2>4. m - 1 \in T
    BY <2>2, <2>3
  <2>. QED
    BY <1>2, <1>3, <2>4
<1>. QED
  BY <1>3, <1>4 DEF Max

LEMMA MaxIs ==
  ASSUME NEW n \in Nat, NEW s \in SUBSET (1..n), NEW x \in s, \A y \in s : x >= y
  PROVE  Max(s) = x
<1>1. Max(s) \in s /\ \A y \in s : Max(s) >= y
  BY MaxOf
<1>2. Max(s) >= x /\ x >= Max(s) /\ x \in 1..n /\ Max(s) \in 1..n
  BY <1>1
<1>. QED
  BY <1>2

LEMMA SumExtends ==
  ASSUME NEW n \in Nat, NEW t \in [1..(n + 1) -> Int],
         NEW g, IsSum(g, [i \in 1..n |-> t[i]])
  PROVE  \E h : IsSum(h, t)
<1> DEFINE t0 == [i \in 1..n |-> t[i]]
           h == [s \in SUBSET (1..(n + 1)) |->
                   IF n + 1 \in s THEN g[s \ {n + 1}] + t[n + 1] ELSE g[s]]
<1>0. DOMAIN t0 = 1..n /\ DOMAIN t = 1..(n + 1) /\ \A i \in 1..n : t0[i] = t[i]
  OBVIOUS
<1>1. \A s \in SUBSET (1..n) : g[s] = IF s = {} THEN 0 ELSE g[s \ {Max(s)}] + t0[Max(s)]
  BY <1>0 DEF IsSum
<1> HIDE DEF t0
<1>2. ASSUME NEW s \in SUBSET (1..(n + 1))
      PROVE  h[s] = IF s = {} THEN 0 ELSE h[s \ {Max(s)}] + t[Max(s)]
  <2>1. CASE n + 1 \in s
    <3>1. n + 1 \in Nat /\ \A y \in s : n + 1 >= y
      OBVIOUS
    <3>4. Max(s) = n + 1
      BY <2>1, <3>1, MaxIs
    <3>2. s \ {n + 1} \in SUBSET (1..(n + 1)) /\ n + 1 \notin s \ {n + 1}
      OBVIOUS
    <3>3. h[s \ {n + 1}] = g[s \ {n + 1}]
      BY <3>2
    <3>. QED
      BY <2>1, <3>3, <3>4
  <2>2. CASE n + 1 \notin s
    <3>1. s \in SUBSET (1..n)
      BY <2>2
    <3>2. CASE s # {}
      <4>1. Max(s) \in s /\ Max(s) \in 1..n
        BY <3>1, <3>2, MaxOf
      <4>2. h[s \ {Max(s)}] = g[s \ {Max(s)}] /\ h[s] = g[s]
        BY <2>2
      <4>. QED
        BY <1>0, <1>1, <3>1, <3>2, <4>1, <4>2
    <3>3. CASE s = {}
      BY <1>1, <2>2, <3>3
    <3>. QED
      BY <3>2, <3>3
  <2>. QED
    BY <2>1, <2>2
<1>3. h = [s \in SUBSET (1..(n + 1)) |-> IF s = {} THEN 0 ELSE h[s \ {Max(s)}] + t[Max(s)]]
  <2>. HIDE DEF h
  <2>1. h = [s \in SUBSET (1..(n + 1)) |-> h[s]]
    BY DEF h
  <2>. QED
    BY <1>2, <2>1
<1>. QED
  BY <1>0, <1>3 DEF IsSum

LEMMA SumExists ==
  ASSUME NEW t \in Seq(Int)
  PROVE  \E g : IsSum(g, t)
<1> DEFINE T == {n \in Nat : \A u \in [1..n -> Int] : \E g : IsSum(g, u)}
<1>1. 0 \in T
  <2> SUFFICES ASSUME NEW u \in [1..0 -> Int] PROVE \E g : IsSum(g, u)
    OBVIOUS
  <2> DEFINE g == [s \in SUBSET (1..0) |-> 0]
  <2>1. g = [s \in SUBSET (1..0) |-> IF s = {} THEN 0 ELSE g[s \ {Max(s)}] + u[Max(s)]]
    OBVIOUS
  <2>2. DOMAIN u = 1..0
    OBVIOUS
  <2>. QED
    BY <2>1, <2>2 DEF IsSum
<1>2. ASSUME NEW n \in T PROVE n + 1 \in T
  <2>1. ASSUME NEW u \in [1..(n + 1) -> Int] PROVE \E g : IsSum(g, u)
    <3>1. [i \in 1..n |-> u[i]] \in [1..n -> Int]
      OBVIOUS
    <3>2. PICK g : IsSum(g, [i \in 1..n |-> u[i]])
      BY <3>1
    <3>. QED
      BY <3>2, SumExtends
  <2>. QED
    BY <2>1
<1> HIDE DEF T
<1>3. T = Nat
  BY <1>1, <1>2, Induction DEF T
<1>4. Len(t) \in Nat /\ t \in [1..Len(t) -> Int]
  BY LenProperties
<1>. QED
  BY <1>3, <1>4 DEF T

LEMMA SumIs ==
  ASSUME NEW t \in Seq(Int)
  PROVE  \E g : IsSum(g, t) /\ SumOf(t) = g[1..Len(t)]
<1>1. DOMAIN t = 1..Len(t)
  OBVIOUS
<1>2. SumOf(t) = (CHOOSE g : IsSum(g, t))[DOMAIN t]
  BY DEF SumOf, FoldLeft, MapThenFoldSet, IsSum
<1>. QED
  BY <1>1, <1>2, SumExists

LEMMA PrefixSums ==
  ASSUME NEW t \in Seq(Int), NEW g, IsSum(g, t)
  PROVE  /\ g[1..0] = 0
         /\ \A m \in 1..Len(t) : g[1..m] = g[1..(m - 1)] + t[m]
         /\ \A m \in 0..Len(t) : g[1..m] \in Int
<1>1. DOMAIN t = 1..Len(t) /\ Len(t) \in Nat /\ \A i \in 1..Len(t) : t[i] \in Int
  OBVIOUS
<1>2. \A s \in SUBSET (1..Len(t)) : g[s] = IF s = {} THEN 0 ELSE g[s \ {Max(s)}] + t[Max(s)]
  BY <1>1 DEF IsSum
<1>3. g[1..0] = 0
  <2>1. 1..0 = {} /\ {} \in SUBSET (1..Len(t))
    OBVIOUS
  <2>. QED
    BY <1>2, <2>1
<1>4. ASSUME NEW m \in 1..Len(t) PROVE g[1..m] = g[1..(m - 1)] + t[m]
  <2>1. 1..m \in SUBSET (1..Len(t)) /\ m \in 1..m /\ m \in Nat /\ \A y \in 1..m : m >= y
    BY <1>1
  <2>2. Max(1..m) = m
    BY <2>1, MaxIs
  <2>3. (1..m) \ {m} = 1..(m - 1)
    BY <2>1
  <2>. QED
    BY <1>2, <2>1, <2>2, <2>3
<1> DEFINE T == {m \in Nat : m <= Len(t) => g[1..m] \in Int}
<1>5. 0 \in T
  BY <1>3
<1>6. ASSUME NEW m \in T PROVE m + 1 \in T
  <2>1. ASSUME m + 1 <= Len(t) PROVE g[1..(m + 1)] \in Int
    <3>1. m + 1 \in 1..Len(t) /\ m <= Len(t) /\ (m + 1) - 1 = m
      BY <1>1, <2>1
    <3>. QED
      BY <1>1, <1>4, <3>1
  <2>. QED
    BY <2>1
<1> HIDE DEF T
<1>7. T = Nat
  BY <1>5, <1>6, Induction DEF T
<1>. QED
  BY <1>1, <1>3, <1>4, <1>7 DEF T

LEMMA SumType ==
  ASSUME NEW t \in Seq(Int)
  PROVE  SumOf(t) \in Int
<1>1. PICK g : IsSum(g, t) /\ SumOf(t) = g[1..Len(t)]
  BY SumIs
<1>2. Len(t) \in Nat
  OBVIOUS
<1>. QED
  BY <1>1, <1>2, PrefixSums

LEMMA SumEmpty == SumOf(<<>>) = 0
<1>1. <<>> \in Seq(Int) /\ Len(<<>>) = 0
  BY EmptySeq
<1>. QED
  BY <1>1, SumIs, PrefixSums

LEMMA SumAppend ==
  ASSUME NEW t \in Seq(Int), NEW x \in Int
  PROVE  SumOf(Append(t, x)) = SumOf(t) + x
<1> DEFINE u == Append(t, x)  n == Len(t)
<1>1. /\ u \in Seq(Int) /\ n \in Nat /\ Len(u) = n + 1 /\ u[n + 1] = x
      /\ \A i \in 1..n : u[i] = t[i]
  OBVIOUS
<1>2. PICK g : IsSum(g, t) /\ SumOf(t) = g[1..n]
  BY SumIs
<1> HIDE DEF u
<1>3. PICK h : IsSum(h, u) /\ SumOf(u) = h[1..(n + 1)]
  BY <1>1, SumIs
<1> DEFINE T == {m \in Nat : m <= n => h[1..m] = g[1..m]}
<1>4. 0 \in T
  BY <1>1, <1>2, <1>3, PrefixSums
<1>5. ASSUME NEW m \in T PROVE m + 1 \in T
  <2>1. ASSUME m + 1 <= n PROVE h[1..(m + 1)] = g[1..(m + 1)]
    <3>1. m + 1 \in 1..n /\ m + 1 \in 1..(n + 1) /\ m <= n /\ (m + 1) - 1 = m
      BY <1>1, <2>1
    <3>2. \A k \in 1..Len(u) : h[1..k] = h[1..(k - 1)] + u[k]
      BY <1>1, <1>3, PrefixSums
    <3>3. h[1..(m + 1)] = h[1..((m + 1) - 1)] + u[m + 1]
      BY <1>1, <3>1, <3>2
    <3>4. h[1..(m + 1)] = h[1..m] + u[m + 1]
      BY <3>1, <3>3
    <3>5. g[1..(m + 1)] = g[1..((m + 1) - 1)] + t[m + 1]
      BY <1>2, <3>1, PrefixSums
    <3>6. g[1..(m + 1)] = g[1..m] + t[m + 1]
      BY <3>1, <3>5
    <3>. QED
      BY <1>1, <3>1, <3>4, <3>6
  <2>. QED
    BY <2>1
<1> HIDE DEF T
<1>6. T = Nat
  BY <1>4, <1>5, Induction DEF T
<1>7. h[1..n] = g[1..n]
  BY <1>1, <1>6 DEF T
<1>8. h[1..(n + 1)] = h[1..n] + x
  <2>1. n + 1 \in 1..Len(u) /\ (n + 1) - 1 = n
    BY <1>1
  <2>. QED
    BY <1>1, <1>3, <2>1, PrefixSums
<1>. QED
  BY <1>2, <1>3, <1>7, <1>8 DEF u

\* The first element may be taken out as well as the last.
LEMMA SumTail ==
  ASSUME NEW t \in Seq(Int), t # <<>>
  PROVE  SumOf(t) = t[1] + SumOf(Tail(t))
<1> DEFINE u == Tail(t)  n == Len(u)
<1>1. /\ u \in Seq(Int) /\ n \in Nat /\ Len(t) = n + 1 /\ t[1] \in Int
      /\ \A i \in 1..n : u[i] = t[i + 1] /\ u[i] \in Int
  BY HeadTailProperties
<1>2. PICK g : IsSum(g, t) /\ SumOf(t) = g[1..(n + 1)]
  BY <1>1, SumIs
<1> HIDE DEF u
<1>3. PICK h : IsSum(h, u) /\ SumOf(u) = h[1..n]
  BY <1>1, SumIs
<1> DEFINE T == {m \in Nat : m <= n => g[1..(m + 1)] = t[1] + h[1..m]}
<1>4. 0 \in T
  <2>1. g[1..1] = g[1..0] + t[1] /\ g[1..0] = 0
    <3>1. 1 \in 1..Len(t) /\ 1 - 1 = 0
      BY <1>1
    <3>2. g[1..1] = g[1..(1 - 1)] + t[1] /\ g[1..0] = 0
      BY <1>2, <3>1, PrefixSums
    <3>. QED
      BY <3>1, <3>2
  <2>2. h[1..0] = 0
    BY <1>1, <1>3, PrefixSums
  <2>. QED
    BY <1>1, <2>1, <2>2
<1>5. ASSUME NEW m \in T PROVE m + 1 \in T
  <2>1. ASSUME m + 1 <= n PROVE g[1..((m + 1) + 1)] = t[1] + h[1..(m + 1)]
    <3>1. /\ m + 1 \in 1..n /\ (m + 1) + 1 \in 1..Len(t) /\ m <= n
          /\ (m + 1) - 1 = m /\ ((m + 1) + 1) - 1 = m + 1 /\ m \in 0..n
      BY <1>1, <2>1
    <3>2. h[1..(m + 1)] = h[1..((m + 1) - 1)] + u[m + 1] /\ h[1..m] \in Int
      BY <1>1, <1>3, <3>1, PrefixSums
    <3>3. h[1..(m + 1)] = h[1..m] + u[m + 1] /\ h[1..m] \in Int
      BY <3>1, <3>2
    <3>4. g[1..((m + 1) + 1)] = g[1..(((m + 1) + 1) - 1)] + t[(m + 1) + 1]
      BY <1>2, <3>1, PrefixSums
    <3>5. g[1..((m + 1) + 1)] = g[1..(m + 1)] + t[(m + 1) + 1]
      BY <3>1, <3>4
    <3>6. g[1..(m + 1)] = t[1] + h[1..m]
      BY <3>1
    <3>7. u[m + 1] = t[(m + 1) + 1] /\ u[m + 1] \in Int
      BY <1>1, <3>1
    <3>. QED
      BY <1>1, <3>3, <3>5, <3>6, <3>7
  <2>. QED
    BY <2>1
<1> HIDE DEF T
<1>6. T = Nat
  BY <1>4, <1>5, Induction DEF T
<1>7. g[1..(n + 1)] = t[1] + h[1..n]
  BY <1>1, <1>6 DEF T
<1>. QED
  BY <1>2, <1>3, <1>7 DEF u

-----------------------------------------------------------------------------
(* The trades of a replay. *)

\* The trade between two bars, and the open one.
Trade == [entry : Nat, exit : Nat, side : Position]

ReplayType ==
  /\ current_pos \in Position /\ done \in BOOLEAN
  /\ open_trade \in [entry : Nat, side : Position]
  /\ completed_trades \in Seq(Trade) /\ positions \in Seq(Position)
  /\ Len(closes) = Len(positions) /\ closes \in Seq(Int)

\* The trade that is open is the position: none when it is flat.
OpenIsCurrent ==
  /\ open_trade.side = current_pos
  /\ current_pos = Flat => open_trade = NoTrade
  /\ current_pos # Flat => open_trade.entry \in 1..Len(positions)

\* The sides of the trades that are closed and held bar i.
Sides(trades, i) ==
  {trades[k].side : k \in {j \in DOMAIN trades : Covers(trades[j], i)}}

\* That of the open trade, when it holds bar i.
OpenSide(i) == IF open_trade # NoTrade /\ open_trade.entry <= i THEN {open_trade.side} ELSE {}

\* A bar that was replayed is held by the trades of its position, closed or open;
\* no trade closes after the last bar, and none holds a bar that an open one holds.
Held ==
  /\ \A k \in DOMAIN completed_trades : completed_trades[k].exit <= Len(positions)
  /\ \A i \in 1..Len(positions) :
       Sides(completed_trades, i) \cup OpenSide(i) = {positions[i]} \ {Flat}

ReplayInv ==
  /\ ReplayType
  /\ ~done => OpenIsCurrent /\ Held
  /\ TradesArePositions

-----------------------------------------------------------------------------
LEMMA AppendTrade ==
  ASSUME NEW trades \in Seq(Trade), NEW t \in Trade
  PROVE  /\ Append(trades, t) \in Seq(Trade)
         /\ \A i \in Nat :
              Sides(Append(trades, t), i)
                = Sides(trades, i) \cup (IF Covers(t, i) THEN {t.side} ELSE {})
         /\ \A k \in DOMAIN Append(trades, t) :
              Append(trades, t)[k] = t \/ (k \in DOMAIN trades /\ Append(trades, t)[k] = trades[k])
<1> DEFINE longer == Append(trades, t)
<1>1. /\ longer \in Seq(Trade) /\ Len(longer) = Len(trades) + 1 /\ Len(trades) \in Nat
      /\ DOMAIN trades = 1..Len(trades) /\ DOMAIN longer = 1..(Len(trades) + 1)
      /\ longer[Len(trades) + 1] = t /\ \A k \in 1..Len(trades) : longer[k] = trades[k]
  OBVIOUS
<1> HIDE DEF longer
<1>2. ASSUME NEW i \in Nat
      PROVE  Sides(longer, i) = Sides(trades, i) \cup (IF Covers(t, i) THEN {t.side} ELSE {})
  <2>1. \A k \in DOMAIN longer : k \in DOMAIN trades \/ k = Len(trades) + 1
    BY <1>1
  <2>2. \A k \in DOMAIN trades : k \in DOMAIN longer /\ longer[k] = trades[k]
    BY <1>1
  <2>3. ASSUME NEW s \in Sides(longer, i)
        PROVE  s \in Sides(trades, i) \cup (IF Covers(t, i) THEN {t.side} ELSE {})
    <3>1. PICK k \in DOMAIN longer : Covers(longer[k], i) /\ s = longer[k].side
      BY <2>3 DEF Sides
    <3>2. CASE k \in DOMAIN trades
      BY <2>2, <3>1, <3>2 DEF Sides
    <3>3. CASE k = Len(trades) + 1
      BY <1>1, <3>1, <3>3
    <3>. QED
      BY <2>1, <3>2, <3>3
  <2>4. Sides(trades, i) \subseteq Sides(longer, i)
    BY <2>2 DEF Sides
  <2>5. Covers(t, i) => t.side \in Sides(longer, i)
    BY <1>1 DEF Sides
  <2>. QED
    BY <2>3, <2>4, <2>5
<1>3. \A k \in DOMAIN longer : longer[k] = t \/ (k \in DOMAIN trades /\ longer[k] = trades[k])
  BY <1>1
<1>. QED
  BY <1>1, <1>2, <1>3 DEF longer

\* What Closed does, at a bar that the open trade's entry does not follow.
LEMMA ClosedHolds ==
  ASSUME ReplayType, OpenIsCurrent, NEW close_bar \in Nat
  PROVE  /\ Closed(completed_trades, close_bar) \in Seq(Trade)
         /\ \A i \in Nat : i < close_bar =>
              Sides(Closed(completed_trades, close_bar), i) = Sides(completed_trades, i) \cup OpenSide(i)
         /\ \A i \in Nat : i >= close_bar =>
              Sides(Closed(completed_trades, close_bar), i) = Sides(completed_trades, i)
         /\ \A k \in DOMAIN Closed(completed_trades, close_bar) :
              \/ Closed(completed_trades, close_bar)[k].exit = close_bar
              \/ k \in DOMAIN completed_trades
                 /\ Closed(completed_trades, close_bar)[k] = completed_trades[k]
<1>1. CASE open_trade = NoTrade
  BY <1>1 DEF Closed, OpenSide, ReplayType
<1>2. CASE open_trade # NoTrade
  <2> DEFINE t == [entry |-> open_trade.entry, exit |-> close_bar, side |-> open_trade.side]
  <2>1. /\ t \in Trade /\ t.exit = close_bar /\ t.side = open_trade.side
        /\ \A i : Covers(t, i) <=> (open_trade.entry <= i /\ i < close_bar)
    BY DEF ReplayType, Trade, Covers
  <2>2. Closed(completed_trades, close_bar) = Append(completed_trades, t)
    BY <1>2 DEF Closed
  <2>3. completed_trades \in Seq(Trade)
    BY DEF ReplayType
  <2> HIDE DEF t
  <2>4. /\ Append(completed_trades, t) \in Seq(Trade)
        /\ \A i \in Nat : Sides(Append(completed_trades, t), i)
                = Sides(completed_trades, i) \cup (IF Covers(t, i) THEN {t.side} ELSE {})
        /\ \A k \in DOMAIN Append(completed_trades, t) :
              Append(completed_trades, t)[k] = t
              \/ (k \in DOMAIN completed_trades
                  /\ Append(completed_trades, t)[k] = completed_trades[k])
    BY <2>1, <2>3, AppendTrade
  <2>5. \A i \in Nat : i < close_bar =>
          (IF Covers(t, i) THEN {t.side} ELSE {}) = OpenSide(i)
    BY <1>2, <2>1 DEF OpenSide
  <2>6. \A i \in Nat : i >= close_bar => ~Covers(t, i)
    BY <2>1
  <2>. QED
    BY <2>1, <2>2, <2>4, <2>5, <2>6
<1>. QED
  BY <1>1, <1>2

-----------------------------------------------------------------------------
(* The steps.                                                              *)

LEMMA NewPosition ==
  ASSUME ReplayType, NEW cs, NEW pred, NEW new_pos \in NewPositions(cs, pred)
  PROVE  new_pos \in Position
<1>1. CASE kind = "threshold"
  BY <1>1 DEF NewPositions, next_equity_position, ReplayType, Position
<1>2. CASE kind # "threshold"
  BY <1>2 DEF NewPositions
<1>. QED
  BY <1>1, <1>2

LEMMA ExitTyped ==
  ASSUME ReplayType, NEW k \in DOMAIN completed_trades
  PROVE  completed_trades[k].exit \in Nat
<1>1. completed_trades \in Seq(Trade)
  BY DEF ReplayType
<1>2. completed_trades[k] \in Trade
  BY <1>1
<1>. QED
  BY <1>2 DEF Trade

\* No closed trade holds the bar to come.
LEMMA NothingAhead ==
  ASSUME ReplayType, Held
  PROVE  Sides(completed_trades, Len(positions) + 1) = {}
<1>1. Len(positions) \in Nat
  BY DEF ReplayType
<1>2. ASSUME NEW k \in DOMAIN completed_trades
      PROVE  ~Covers(completed_trades[k], Len(positions) + 1)
  <2>1. completed_trades[k].exit <= Len(positions) /\ completed_trades[k].exit \in Nat
    BY ExitTyped DEF Held
  <2>. QED
    BY <1>1, <2>1 DEF Covers
<1>. QED
  BY <1>2 DEF Sides

LEMMA NextBar ==
  ASSUME NEW S, NEW s \in Seq(S), NEW x \in S
  PROVE  /\ Append(s, x) \in Seq(S) /\ Len(Append(s, x)) = Len(s) + 1 /\ Len(s) \in Nat
         /\ \A i \in 1..Len(s) : Append(s, x)[i] = s[i]
         /\ Append(s, x)[Len(s) + 1] = x
OBVIOUS

LEMMA BarReplays ==
  ASSUME ReplayInv, Bar
  PROVE  ReplayInv'
<1>0. ReplayType /\ OpenIsCurrent /\ Held /\ done = FALSE /\ done' = done
  BY DEF ReplayInv, Bar, ReplayType
<1>1. PICK close, pred, new_pos :
        /\ close \in Prices /\ pred \in Predictions \cup {NoPred}
        /\ new_pos \in NewPositions(Append(closes, close), pred)
        /\ closes' = Append(closes, close)
        /\ completed_trades' =
             IF new_pos # current_pos
             THEN Closed(completed_trades, Len(Append(closes, close))) ELSE completed_trades
        /\ open_trade' =
             IF new_pos # current_pos THEN Opened(new_pos, Len(Append(closes, close))) ELSE open_trade
        /\ current_pos' = new_pos /\ positions' = Append(positions, new_pos)
  BY DEF Bar
<1>2. new_pos \in Position /\ close \in Int
  BY <1>0, <1>1, NewPosition, BacktestAssumption
<1> DEFINE n == Len(positions)
<1>3. /\ n \in Nat /\ positions' \in Seq(Position) /\ Len(positions') = n + 1
      /\ closes' \in Seq(Int) /\ Len(closes') = n + 1 /\ Len(Append(closes, close)) = n + 1
      /\ \A i \in 1..n : positions'[i] = positions[i]
      /\ positions'[n + 1] = new_pos
  BY <1>0, <1>1, <1>2, NextBar DEF ReplayType
<1>4. \A i \in 1..(n + 1) : i \in Nat /\ (i \in 1..n \/ i = n + 1)
  BY <1>3
<1>5. Sides(completed_trades, n + 1) = {}
  BY <1>0, NothingAhead
<1>6. CASE new_pos = current_pos
  <2>1. completed_trades' = completed_trades /\ open_trade' = open_trade /\ current_pos' = current_pos
    BY <1>1, <1>6
  <2>2. ReplayType'
    BY <1>0, <1>3, <2>1 DEF ReplayType
  <2>3. OpenIsCurrent'
    BY <1>0, <1>3, <2>1 DEF OpenIsCurrent
  <2>4. \A k \in DOMAIN completed_trades' : completed_trades'[k].exit <= Len(positions')
    <3>1. \A k \in DOMAIN completed_trades :
            completed_trades[k].exit <= n /\ completed_trades[k].exit \in Nat
      BY <1>0, ExitTyped DEF Held
    <3>. QED
      BY <1>3, <2>1, <3>1
  <2>5. \A i : OpenSide(i)' = OpenSide(i)
    BY <2>1 DEF OpenSide
  <2>6. ASSUME NEW i \in 1..(n + 1)
        PROVE  Sides(completed_trades', i) \cup OpenSide(i)' = {positions'[i]} \ {Flat}
    <3>1. CASE i \in 1..n
      BY <1>0, <1>3, <2>1, <2>5, <3>1 DEF Held
    <3>2. CASE i = n + 1
      <4>1. OpenSide(i) = {new_pos} \ {Flat}
        <5>1. CASE current_pos = Flat
          BY <1>0, <1>6, <5>1 DEF OpenIsCurrent, OpenSide
        <5>2. CASE current_pos # Flat
          <6>1. open_trade.entry \in 1..n /\ open_trade # NoTrade /\ open_trade.side = new_pos
            BY <1>0, <1>6, <5>2 DEF OpenIsCurrent, NoTrade
          <6>2. open_trade.entry <= i
            BY <1>3, <3>2, <6>1
          <6>. QED
            BY <1>6, <5>2, <6>1, <6>2 DEF OpenSide
        <5>. QED
          BY <5>1, <5>2
      <4>. QED
        BY <1>3, <1>5, <2>1, <2>5, <3>2, <4>1
    <3>. QED
      BY <1>4, <3>1, <3>2
  <2>7. Held'
    BY <1>3, <2>4, <2>6 DEF Held
  <2>. QED
    BY <1>0, <2>2, <2>3, <2>7 DEF ReplayInv, TradesArePositions
<1>7. CASE new_pos # current_pos
  <2>1. /\ completed_trades' = Closed(completed_trades, n + 1)
        /\ open_trade' = Opened(new_pos, n + 1) /\ current_pos' = new_pos
    BY <1>1, <1>3, <1>7
  <2>2. /\ completed_trades' \in Seq(Trade)
        /\ \A i \in Nat : i < n + 1 =>
             Sides(completed_trades', i) = Sides(completed_trades, i) \cup OpenSide(i)
        /\ \A i \in Nat : i >= n + 1 => Sides(completed_trades', i) = Sides(completed_trades, i)
        /\ \A k \in DOMAIN completed_trades' :
             \/ completed_trades'[k].exit = n + 1
             \/ k \in DOMAIN completed_trades /\ completed_trades'[k] = completed_trades[k]
    <3>1. n + 1 \in Nat
      BY <1>3
    <3>. QED
      BY <1>0, <2>1, <3>1, ClosedHolds
  <2>3. /\ open_trade' \in [entry : Nat, side : Position]
        /\ open_trade'.side = new_pos
        /\ new_pos = Flat => open_trade' = NoTrade
        /\ new_pos # Flat => open_trade'.entry = n + 1 /\ open_trade' # NoTrade
    BY <1>2, <1>3, <2>1 DEF Opened, NoTrade, Position
  <2>4. ReplayType'
    BY <1>0, <1>2, <1>3, <2>1, <2>2, <2>3 DEF ReplayType
  <2>5. OpenIsCurrent'
    BY <1>3, <2>1, <2>3 DEF OpenIsCurrent
  <2>6. ASSUME NEW k \in DOMAIN completed_trades' PROVE completed_trades'[k].exit <= Len(positions')
    <3>1. \A j \in DOMAIN completed_trades :
            completed_trades[j].exit <= n /\ completed_trades[j].exit \in Nat
      BY <1>0, ExitTyped DEF Held
    <3>. QED
      BY <1>3, <2>2, <3>1
  <2>7. ASSUME NEW i \in 1..(n + 1)
        PROVE  Sides(completed_trades', i) \cup OpenSide(i)' = {positions'[i]} \ {Flat}
    <3>1. CASE i \in 1..n
      <4>1. i \in Nat /\ i < n + 1 /\ ~(n + 1 <= i)
        BY <1>3, <3>1
      <4>2. OpenSide(i)' = {}
        BY <2>3, <4>1 DEF OpenSide
      <4>3. Sides(completed_trades, i) \cup OpenSide(i) = {positions[i]} \ {Flat}
        BY <1>0, <3>1 DEF Held
      <4>. QED
        BY <1>3, <2>2, <3>1, <4>1, <4>2, <4>3
    <3>2. CASE i = n + 1
      <4>1. Sides(completed_trades', i) = {}
        <5>1. i \in Nat /\ i >= n + 1
          BY <1>3, <3>2
        <5>. QED
          BY <1>5, <2>2, <3>2, <5>1
      <4>2. OpenSide(i)' = {new_pos} \ {Flat}
        <5>1. n + 1 <= i
          BY <1>3, <3>2
        <5>. QED
          BY <2>3, <5>1 DEF OpenSide
      <4>. QED
        BY <1>3, <3>2, <4>1, <4>2
    <3>. QED
      BY <1>4, <3>1, <3>2
  <2>8. Held'
    BY <1>3, <2>6, <2>7 DEF Held
  <2>. QED
    BY <1>0, <2>4, <2>5, <2>8 DEF ReplayInv, TradesArePositions
<1>. QED
  BY <1>6, <1>7

LEMMA FinishReplays ==
  ASSUME ReplayInv, CloseAtEnd
  PROVE  ReplayInv'
<1> DEFINE n == Len(positions)
<1>0. ReplayType /\ OpenIsCurrent /\ Held
  BY DEF ReplayInv, CloseAtEnd
<1>1. /\ done' = TRUE /\ positions' = positions /\ closes' = closes
      /\ current_pos' = current_pos /\ open_trade' = open_trade
      /\ completed_trades' = Closed(completed_trades, n) /\ n \in Nat
  BY <1>0 DEF CloseAtEnd, ReplayType
<1>2. /\ completed_trades' \in Seq(Trade)
      /\ \A i \in Nat : i < n =>
           Sides(completed_trades', i) = Sides(completed_trades, i) \cup OpenSide(i)
  BY <1>0, <1>1, ClosedHolds
<1>3. ReplayType'
  BY <1>0, <1>1, <1>2 DEF ReplayType
<1>4. ASSUME NEW i \in 1..(n - 1) PROVE Sides(completed_trades', i) = {positions[i]} \ {Flat}
  <2>1. i \in Nat /\ i < n /\ i \in 1..n
    BY <1>1
  <2>. QED
    BY <1>0, <1>2, <2>1 DEF Held
<1>5. TradesArePositions'
  BY <1>1, <1>4 DEF TradesArePositions, Sides
<1>. QED
  BY <1>1, <1>3, <1>5 DEF ReplayInv

\* When a replay is finished its trades hold exactly the bars at which it held a
\* position, each on the side of that position, whatever the strategy answered.
THEOREM TradesAreThePositions == ReplaySpec => []TradesArePositions
<1>1. ReplayInit => ReplayInv
  <2> SUFFICES ASSUME ReplayInit PROVE ReplayInv
    OBVIOUS
  <2>0. /\ closes = <<>> /\ completed_trades = <<>> /\ positions = <<>>
        /\ current_pos = Flat /\ open_trade = NoTrade /\ done = FALSE
    BY DEF ReplayInit
  <2>1. ReplayType
    <3>1. NoTrade \in [entry : Nat, side : Position] /\ Flat \in Position
      BY DEF NoTrade, Position
    <3>2. \A S : <<>> \in Seq(S)
      OBVIOUS
    <3>3. closes \in Seq(Int) /\ completed_trades \in Seq(Trade) /\ positions \in Seq(Position)
      BY <2>0, <3>2
    <3>4. Len(closes) = Len(positions)
      BY <2>0
    <3>. QED
      BY <2>0, <3>1, <3>3, <3>4 DEF ReplayType
  <2>2. OpenIsCurrent /\ Held
    BY DEF ReplayInit, OpenIsCurrent, Held, NoTrade
  <2>. QED
    BY <2>1, <2>2 DEF ReplayInv, TradesArePositions, ReplayInit
<1>2. ReplayInv /\ [ReplayNext]_replayVars => ReplayInv'
  <2> SUFFICES ASSUME ReplayInv, [ReplayNext]_replayVars PROVE ReplayInv'
    OBVIOUS
  <2>1. CASE Bar
    BY <2>1, BarReplays
  <2>2. CASE CloseAtEnd
    BY <2>2, FinishReplays
  <2>3. CASE UNCHANGED replayVars
    <3>1. /\ closes' = closes /\ completed_trades' = completed_trades /\ positions' = positions
          /\ current_pos' = current_pos /\ open_trade' = open_trade /\ done' = done
      BY <2>3 DEF replayVars
    <3>2. ReplayType' /\ TradesArePositions'
      BY <3>1 DEF ReplayInv, ReplayType, TradesArePositions
    <3>3. OpenIsCurrent' = OpenIsCurrent
      BY <3>1 DEF OpenIsCurrent
    <3>4. Held' = Held
      BY <3>1 DEF Held, OpenSide
    <3>. QED
      BY <3>1, <3>2, <3>3, <3>4 DEF ReplayInv
  <2>. QED
    BY <2>1, <2>2, <2>3 DEF ReplayNext
<1>3. ReplayInv => TradesArePositions
  BY DEF ReplayInv
<1>. QED
  BY <1>1, <1>2, <1>3, PTL DEF ReplaySpec

-----------------------------------------------------------------------------
(* The replay beside the live engine. *)

\* The closes that the average is taken of.
LastCloses(cs) == SubSeq(cs, Len(cs) - Smaller(Len(cs), Window) + 1, Len(cs))

MatchType ==
  /\ kind \in {"threshold", "rhai"} /\ params \in ParamSets
  /\ closes \in Seq(Int) /\ preds \in Seq(Int \cup {NoPred})

\* The running sum is that of the closes in the window.
SumInv == running_sum = SumOf(LastCloses(closes))

MatchInv == MatchType /\ SumInv /\ MatchesLive

LEMMA WindowShape ==
  ASSUME NEW cs \in Seq(Int)
  PROVE  /\ LastCloses(cs) \in Seq(Int)
         /\ Len(LastCloses(cs)) = Smaller(Len(cs), Window)
         /\ \A i \in 1..Smaller(Len(cs), Window) :
              LastCloses(cs)[i] = cs[Len(cs) - Smaller(Len(cs), Window) + i]
<1> DEFINE w == Smaller(Len(cs), Window)  first == Len(cs) - w + 1
<1>1. Len(cs) \in Nat /\ w \in Nat /\ w <= Len(cs)
  BY BacktestAssumption DEF Smaller
<1> HIDE DEF w
<1>2. first \in Int /\ Len(cs) \in Int /\ \A i \in first..Len(cs) : cs[i] \in Int
  BY <1>1
<1>3. /\ SubSeq(cs, first, Len(cs)) \in Seq(Int)
      /\ Len(SubSeq(cs, first, Len(cs))) = (IF first <= Len(cs) THEN Len(cs) - first + 1 ELSE 0)
      /\ \A i \in 1..(Len(cs) - first + 1) : SubSeq(cs, first, Len(cs))[i] = cs[first + i - 1]
  <2> HIDE DEF first
  <2>. QED
    BY <1>2, SubSeqProperties
<1>4. LastCloses(cs) = SubSeq(cs, first, Len(cs))
  BY DEF LastCloses, w
<1>5. Len(cs) - first + 1 = w /\ \A i \in 1..w : first + i - 1 = Len(cs) - w + i
  BY <1>1
<1>6. (IF first <= Len(cs) THEN Len(cs) - first + 1 ELSE 0) = w
  BY <1>1
<1> HIDE DEF first
<1>. QED
  BY <1>3, <1>4, <1>5, <1>6 DEF w

LEMMA WindowGrows ==
  ASSUME NEW cs \in Seq(Int), NEW x \in Int, Len(cs) < Window
  PROVE  LastCloses(Append(cs, x)) = Append(LastCloses(cs), x)
<1> DEFINE ds == Append(cs, x)  n == Len(cs)
<1>1. /\ ds \in Seq(Int) /\ Len(ds) = n + 1 /\ n \in Nat /\ ds[n + 1] = x
      /\ \A i \in 1..n : ds[i] = cs[i]
  OBVIOUS
<1> HIDE DEF ds
<1>2. Smaller(n, Window) = n /\ Smaller(n + 1, Window) = n + 1
  BY <1>1, BacktestAssumption DEF Smaller
<1>3. /\ LastCloses(cs) \in Seq(Int) /\ Len(LastCloses(cs)) = n
      /\ \A i \in 1..n : LastCloses(cs)[i] = cs[n - n + i]
  BY <1>2, WindowShape
<1>4. /\ LastCloses(ds) \in Seq(Int) /\ Len(LastCloses(ds)) = n + 1
      /\ \A i \in 1..(n + 1) : LastCloses(ds)[i] = ds[(n + 1) - (n + 1) + i]
  BY <1>1, <1>2, WindowShape
<1>5. /\ \A i \in 1..n : LastCloses(cs)[i] = cs[i]
      /\ \A i \in 1..(n + 1) : LastCloses(ds)[i] = ds[i]
  <2>1. \A i \in 1..(n + 1) : n - n + i = i /\ (n + 1) - (n + 1) + i = i
    BY <1>1
  <2>. QED
    BY <1>1, <1>3, <1>4, <2>1
<1>6. /\ Append(LastCloses(cs), x) \in Seq(Int) /\ Len(Append(LastCloses(cs), x)) = n + 1
      /\ \A i \in 1..n : Append(LastCloses(cs), x)[i] = LastCloses(cs)[i]
      /\ Append(LastCloses(cs), x)[n + 1] = x
  BY <1>3, AppendProperties
<1>7. ASSUME NEW i \in 1..(n + 1) PROVE LastCloses(ds)[i] = Append(LastCloses(cs), x)[i]
  <2>1. i \in 1..n \/ i = n + 1
    BY <1>1
  <2>. QED
    BY <1>1, <1>5, <1>6, <2>1
<1>8. LastCloses(ds) = Append(LastCloses(cs), x)
  BY <1>4, <1>6, <1>7, SeqEqual
<1>. QED
  BY <1>8 DEF ds

LEMMA WindowSlides ==
  ASSUME NEW cs \in Seq(Int), NEW x \in Int, Len(cs) >= Window, Window > 0
  PROVE  /\ LastCloses(cs) # <<>>
         /\ LastCloses(cs)[1] = SlidOut(Append(cs, x))
         /\ LastCloses(Append(cs, x)) = Append(Tail(LastCloses(cs)), x)
<1> DEFINE ds == Append(cs, x)  n == Len(cs)  k == n - Window
<1>1. /\ ds \in Seq(Int) /\ Len(ds) = n + 1 /\ n \in Nat /\ ds[n + 1] = x
      /\ \A i \in 1..n : ds[i] = cs[i]
  OBVIOUS
<1> HIDE DEF ds
<1>0. Window \in Nat /\ Window >= 1 /\ k \in Nat /\ k + Window = n
  BY <1>1, BacktestAssumption
<1>2. Smaller(n, Window) = Window /\ Smaller(n + 1, Window) = Window
  <2>1. ~(n < Window)
    BY <1>0, <1>1
  <2>2. ~(n + 1 < Window)
    BY <1>0, <1>1
  <2>. QED
    BY <2>1, <2>2 DEF Smaller
<1>3. /\ LastCloses(cs) \in Seq(Int) /\ Len(LastCloses(cs)) = Window
      /\ \A i \in 1..Window : LastCloses(cs)[i] = cs[k + i]
  BY <1>2, WindowShape
<1>4. /\ LastCloses(ds) \in Seq(Int) /\ Len(LastCloses(ds)) = Window
      /\ \A i \in 1..Window : LastCloses(ds)[i] = ds[(n + 1) - Window + i]
  <2>1. /\ LastCloses(ds) \in Seq(Int) /\ Len(LastCloses(ds)) = Smaller(Len(ds), Window)
        /\ \A i \in 1..Smaller(Len(ds), Window) :
             LastCloses(ds)[i] = ds[Len(ds) - Smaller(Len(ds), Window) + i]
    BY <1>1, WindowShape
  <2>2. Len(ds) = n + 1 /\ Smaller(Len(ds), Window) = Window
    BY <1>1, <1>2
  <2>. QED
    BY <2>1, <2>2
<1>5. LastCloses(cs) # <<>>
  <2>1. Len(LastCloses(cs)) # 0
    BY <1>0, <1>3
  <2>. QED
    BY <2>1
<1>6. LastCloses(cs)[1] = SlidOut(ds)
  <2>1. 1 \in 1..Window /\ k + 1 \in 1..n /\ (n + 1) - Window = k + 1
    BY <1>0, <1>1
  <2>2. LastCloses(cs)[1] = ds[k + 1]
    BY <1>1, <1>3, <2>1
  <2>3. SlidOut(ds) = ds[(n + 1) - Window]
    BY <1>1 DEF SlidOut
  <2> HIDE DEF k
  <2>. QED
    BY <2>1, <2>2, <2>3
<1> DEFINE rest == Tail(LastCloses(cs))
<1>7. /\ rest \in Seq(Int) /\ Len(rest) = Window - 1
      /\ \A i \in 1..(Window - 1) : rest[i] = LastCloses(cs)[i + 1]
  BY <1>3, <1>5, HeadTailProperties
<1> HIDE DEF rest
<1>8. /\ Append(rest, x) \in Seq(Int) /\ Len(Append(rest, x)) = (Window - 1) + 1
      /\ \A i \in 1..(Window - 1) : Append(rest, x)[i] = rest[i]
      /\ Append(rest, x)[(Window - 1) + 1] = x
  BY <1>7, AppendProperties
<1>9. ASSUME NEW i \in 1..Window PROVE LastCloses(ds)[i] = Append(rest, x)[i]
  <2>1. CASE i \in 1..(Window - 1)
    <3>1. i + 1 \in 1..Window /\ k + (i + 1) = (n + 1) - Window + i /\ k + (i + 1) \in 1..n
      BY <1>0, <1>1, <2>1
    <3>2. Append(rest, x)[i] = cs[k + (i + 1)]
      BY <1>3, <1>7, <1>8, <2>1, <3>1
    <3>3. LastCloses(ds)[i] = ds[k + (i + 1)]
      BY <1>4, <3>1
    <3>. QED
      BY <1>1, <3>1, <3>2, <3>3
  <2>2. CASE i = Window
    <3>1. (Window - 1) + 1 = i /\ (n + 1) - Window + i = n + 1
      BY <1>0, <1>1, <2>2
    <3>2. LastCloses(ds)[i] = ds[n + 1] /\ Append(rest, x)[i] = x
      BY <1>4, <1>8, <3>1
    <3>. QED
      BY <1>1, <3>2
  <2>3. i \in 1..(Window - 1) \/ i = Window
    BY <1>0
  <2>. QED
    BY <2>1, <2>2, <2>3
<1>10. LastCloses(ds) = Append(rest, x)
  <2>1. Len(Append(rest, x)) = Len(LastCloses(ds))
    BY <1>0, <1>4, <1>8
  <2>. QED
    BY <1>4, <1>8, <1>9, <2>1, SeqEqual
<1>. QED
  BY <1>5, <1>6, <1>10 DEF ds, rest

\* The running sum moves with the window; that of an empty window stays 0.
LEMMA SumSlides ==
  ASSUME NEW x \in Int, closes \in Seq(Int), SumInv
  PROVE  NextSum(Append(closes, x)) = SumOf(LastCloses(Append(closes, x)))
<1> DEFINE cs == Append(closes, x)  tail == LastCloses(closes)
<1>1. /\ cs \in Seq(Int) /\ Len(cs) = Len(closes) + 1 /\ Len(closes) \in Nat
      /\ Last(cs) = x /\ Window \in Nat
  BY BacktestAssumption DEF Last
<1>2. tail \in Seq(Int) /\ SumOf(tail) \in Int /\ running_sum = SumOf(tail)
  BY WindowShape, SumType DEF SumInv
<1>3. CASE Len(closes) < Window
  <2>1. NextSum(cs) = running_sum + x
    <3>1. ~(Len(cs) > Window)
      BY <1>1, <1>3
    <3> HIDE DEF cs
    <3>. QED
      BY <1>1, <1>2, <3>1 DEF NextSum
  <2>2. SumOf(LastCloses(cs)) = SumOf(tail) + x
    BY <1>2, <1>3, WindowGrows, SumAppend
  <2>. QED
    BY <1>2, <2>1, <2>2
<1>4. CASE Len(closes) >= Window /\ Window > 0
  <2>1. tail # <<>> /\ tail[1] = SlidOut(cs) /\ LastCloses(cs) = Append(Tail(tail), x)
    BY <1>4, WindowSlides
  <2>2. Len(cs) > Window
    BY <1>1, <1>4
  <2>3. Tail(tail) \in Seq(Int) /\ tail[1] \in Int
    BY <1>2, <2>1, HeadTailProperties
  <2> HIDE DEF cs, tail
  <2>4. NextSum(cs) = running_sum + x - tail[1]
    BY <1>1, <2>1, <2>2 DEF NextSum
  <2>5. SumOf(tail) = tail[1] + SumOf(Tail(tail)) /\ SumOf(Tail(tail)) \in Int
    BY <1>2, <2>1, <2>3, SumTail, SumType
  <2>6. SumOf(LastCloses(cs)) = SumOf(Tail(tail)) + x
    BY <2>1, <2>3, SumAppend
  <2>. QED
    BY <1>2, <2>3, <2>4, <2>5, <2>6 DEF cs
<1>5. CASE Window = 0
  <2>1. \A ds \in Seq(Int) : SumOf(LastCloses(ds)) = 0
    <3> SUFFICES ASSUME NEW ds \in Seq(Int) PROVE SumOf(LastCloses(ds)) = 0
      OBVIOUS
    <3>1. Smaller(Len(ds), Window) = 0
      BY <1>5 DEF Smaller
    <3>2. LastCloses(ds) \in Seq(Int) /\ Len(LastCloses(ds)) = 0
      BY <3>1, WindowShape
    <3>3. LastCloses(ds) = <<>>
      BY <3>2, EmptySeq
    <3>. QED
      BY <3>3, SumEmpty
  <2>2. running_sum = 0 /\ SumOf(LastCloses(cs)) = 0
    BY <1>1, <1>2, <2>1
  <2>3. SlidOut(cs) = x /\ Len(cs) > Window
    BY <1>1, <1>5 DEF SlidOut
  <2> HIDE DEF cs
  <2>4. NextSum(cs) = 0
    BY <1>1, <2>2, <2>3 DEF NextSum
  <2>. QED
    BY <2>2, <2>4 DEF cs
<1>. QED
  BY <1>1, <1>3, <1>4, <1>5

\* Of a bar with a prediction both see the same.
LEMMA SameInput ==
  ASSUME NEW cs \in Seq(Int), NEW pred, pred # NoPred,
         NextSum(cs) = SumOf(LastCloses(cs))
  PROVE  BarInput(cs, pred) = LiveInput(cs, pred)
<1>1. Len(LastCloses(cs)) = Smaller(Len(cs), Window)
  BY WindowShape
<1>. QED
  BY <1>1 DEF BarInput, LiveInput, Signal, LastCloses, SumOf

\* A bar without one is taken as zero, which leaves the position alone unless it
\* is beyond a threshold.
LEMMA ZeroHolds ==
  ASSUME NEW cs, NEW pos, NEW p \in ParamSets, HoldsAtZero(p)
  PROVE  next_equity_position(pos, BarInput(cs, NoPred), p) = pos
<1>1. /\ p.entry_threshold \in Int /\ p.exit_threshold \in Int
      /\ p.short_entry_threshold \in Int /\ p.short_exit_threshold \in Int
      /\ p.entry_threshold >= 0 /\ p.exit_threshold <= 0
      /\ p.short_entry_threshold <= 0 /\ p.short_exit_threshold >= 0
  BY BacktestAssumption DEF EquityStrategyParams, HoldsAtZero
<1>2. BarInput(cs, NoPred).pred_1d = 0
  BY DEF BarInput, Signal
<1> DEFINE input == BarInput(cs, NoPred)
<1> HIDE DEF input
<1>3. input.pred_1d = 0
  BY <1>2 DEF input
<1>4. ~Exits(pos, input, p) /\ ~EntersLong(pos, input, p) /\ ~EntersShort(pos, input, p)
  BY <1>1, <1>3 DEF Exits, EntersLong, EntersShort
<1>5. next_equity_position(pos, input, p) = pos
  BY <1>4 DEF next_equity_position
<1>. QED
  BY <1>5 DEF input

LEMMA BarMatches ==
  ASSUME MatchInv, Bar
  PROVE  MatchInv'
<1>1. PICK close, pred, new_pos :
        /\ close \in Prices /\ pred \in Predictions \cup {NoPred}
        /\ new_pos \in NewPositions(Append(closes, close), pred)
        /\ closes' = Append(closes, close) /\ preds' = Append(preds, pred)
        /\ running_sum' = NextSum(Append(closes, close))
        /\ current_pos' = new_pos
        /\ live' = IF pred = NoPred THEN live
                   ELSE next_equity_position(live, LiveInput(Append(closes, close), pred), params)
  BY DEF Bar
<1>2. kind' = kind /\ params' = params
  BY DEF Bar
<1> DEFINE cs == Append(closes, close)
<1>3. close \in Int /\ pred \in Int \cup {NoPred}
  BY <1>1, BacktestAssumption
<1>4. closes \in Seq(Int) /\ preds \in Seq(Int \cup {NoPred}) /\ params \in ParamSets
  BY DEF MatchInv, MatchType
<1>5. cs \in Seq(Int) /\ closes' \in Seq(Int)
  BY <1>1, <1>3, <1>4
<1>6. preds' \in Seq(Int \cup {NoPred})
  BY <1>1, <1>3, <1>4
<1>7. MatchType'
  BY <1>2, <1>5, <1>6 DEF MatchInv, MatchType
<1>8. NextSum(cs) = SumOf(LastCloses(cs))
  BY <1>3, <1>4, SumSlides DEF MatchInv
<1>9. SumInv'
  BY <1>1, <1>8 DEF SumInv
<1>10. AllPredicted' => AllPredicted /\ pred # NoPred
  <2>1. /\ Len(preds') = Len(preds) + 1 /\ Len(preds) \in Nat
        /\ preds'[Len(preds) + 1] = pred
        /\ \A i \in 1..Len(preds) : preds'[i] = preds[i]
        /\ DOMAIN preds = 1..Len(preds) /\ DOMAIN preds' = 1..(Len(preds) + 1)
    BY <1>1, <1>3, <1>4
  <2>2. \A i \in DOMAIN preds : i \in DOMAIN preds'
    BY <2>1
  <2>3. Len(preds) + 1 \in DOMAIN preds'
    BY <2>1
  <2>. QED
    BY <2>1, <2>2, <2>3 DEF AllPredicted
<1>11. MatchesLive'
  <2> SUFFICES ASSUME kind = "threshold", AllPredicted' \/ HoldsAtZero(params)
               PROVE  new_pos = live'
    BY <1>1, <1>2 DEF MatchesLive
  <2>1. current_pos = live
    BY <1>10 DEF MatchInv, MatchesLive
  <2>2. new_pos = next_equity_position(current_pos, BarInput(cs, pred), params)
    BY <1>1 DEF NewPositions
  <2> HIDE DEF cs
  <2>3. CASE pred = NoPred
    <3>1. HoldsAtZero(params)
      BY <1>10, <2>3
    <3>. QED
      BY <1>1, <1>4, <2>1, <2>2, <2>3, <3>1, ZeroHolds
  <2>4. CASE pred # NoPred
    <3>1. BarInput(cs, pred) = LiveInput(cs, pred)
      BY <1>5, <1>8, <2>4, SameInput
    <3>. QED
      BY <1>1, <2>1, <2>2, <2>4, <3>1 DEF cs
  <2>. QED
    BY <2>3, <2>4
<1>. QED
  BY <1>7, <1>9, <1>11 DEF MatchInv

\* The replay of the threshold rule holds at every bar what the live engine holds,
\* for every window, series and parameters, accepted or not, when no prediction is
\* missing or a missing one is within all thresholds: the running sum is the sum
\* that the engine takes afresh.
THEOREM ReplayMatchesEngine == ReplaySpec => []MatchesLive
<1>1. ReplayInit => MatchInv
  <2> SUFFICES ASSUME ReplayInit PROVE MatchInv
    OBVIOUS
  <2>1. closes = <<>> /\ preds = <<>> /\ running_sum = 0 /\ current_pos = live
    BY DEF ReplayInit
  <2>2. MatchType
    <3>1. closes \in Seq(Int) /\ preds \in Seq(Int \cup {NoPred})
      BY <2>1, EmptySeq
    <3>. QED
      BY <3>1 DEF MatchType, ReplayInit
  <2>3. SumInv
    <3>1. <<>> \in Seq(Int) /\ Len(<<>>) = 0 /\ Smaller(0, Window) = 0
      BY BacktestAssumption, EmptySeq DEF Smaller
    <3>2. LastCloses(<<>>) = <<>>
      <4>1. LastCloses(<<>>) \in Seq(Int) /\ Len(LastCloses(<<>>)) = 0
        BY <3>1, WindowShape
      <4>. QED
        BY <4>1, EmptySeq
    <3>. QED
      BY <2>1, <3>2, SumEmpty DEF SumInv
  <2>. QED
    BY <2>1, <2>2, <2>3 DEF MatchInv, MatchesLive
<1>2. MatchInv /\ [ReplayNext]_replayVars => MatchInv'
  <2> SUFFICES ASSUME MatchInv, [ReplayNext]_replayVars PROVE MatchInv'
    OBVIOUS
  <2>1. CASE Bar
    BY <2>1, BarMatches
  <2>2. CASE CloseAtEnd \/ UNCHANGED replayVars
    <3>1. /\ kind' = kind /\ params' = params /\ closes' = closes /\ preds' = preds
          /\ running_sum' = running_sum /\ current_pos' = current_pos /\ live' = live
      BY <2>2 DEF CloseAtEnd, replayVars
    <3>. QED
      BY <3>1 DEF MatchInv, MatchType, SumInv, MatchesLive, AllPredicted
  <2>. QED
    BY <2>1, <2>2 DEF ReplayNext
<1>3. MatchInv => MatchesLive
  BY DEF MatchInv
<1>. QED
  BY <1>1, <1>2, <1>3, PTL DEF ReplaySpec

-----------------------------------------------------------------------------
(* The scripts. *)

RunType ==
  /\ script \in Names \cup {NoScript}
  /\ json \in BOOLEAN /\ allPages \in BOOLEAN
  /\ pc \in Nat \ {0} /\ exit \in {0, 1, 2, Running, Killed}
  /\ more \in BOOLEAN /\ lacking \in BOOLEAN
  /\ script = NoScript => pc = 1 /\ exit = Running /\ out = {} /\ ~ lacking /\ ~ more

\* A step that asks page by page may be left with more pages to come: where
\* that was asked for, and by a script that does not exit 0 there.
Paging == pc \in DOMAIN Steps /\ Steps[pc].kind \in {"pages", "all"}
Midway == Paging /\ (exit = 0 => Stopped)

\* What an exit 0 will say, at each step on the way to it.
WholeInv ==
  /\ \A i \in 1..(pc - 1) : i \in DOMAIN Steps /\ Required(i) => i \in answered
  /\ more => (~allPages /\ "pages" \in KindsOf(script)) \/ Midway
  /\ lacking => script \in Tolerant

\* While a script runs, what it printed under --json can be parsed.
PrintInv == JsonWhenAsked /\ (json /\ "text" \in out => exit # Running)

RunInv == RunType /\ WholeInv /\ PrintInv

-----------------------------------------------------------------------------
(* The programs. *)

LEMMA Constants ==
  /\ Running = 3 /\ Killed = 130
  /\ \A s \in Names : s # NoScript
BY RunnerAssumption DEF Running, Killed

LEMMA StepsOf ==
  ASSUME NEW s \in Names
  PROVE  /\ Scripts[s].steps \in Seq(Step) /\ Len(Scripts[s].steps) \in Nat
         /\ DOMAIN Scripts[s].steps = 1..Len(Scripts[s].steps)
         /\ Scripts[s].shows \in Prints \ {"text"}
         /\ \A i \in DOMAIN Scripts[s].steps :
              /\ Scripts[s].steps[i].kind \in KindsOf(s)
              /\ Scripts[s].steps[i].print \in Prints
<1>1. Scripts[s] \in Program
  BY RunnerAssumption
<1>2. Scripts[s].steps \in Seq(Step) /\ Scripts[s].shows \in Prints
  BY <1>1 DEF Program
<1>3. \A i \in DOMAIN Scripts[s].steps : Scripts[s].steps[i] \in Step
  BY <1>2
<1>4. \A i \in DOMAIN Scripts[s].steps : Scripts[s].steps[i].print \in Prints
  BY <1>3 DEF Step
<1>5. Scripts[s].shows # "text"
  BY CatalogueAssumption
<1>. QED
  BY <1>2, <1>4, <1>5 DEF KindsOf

\* The lists name the scripts with such a step.
LEMMA Listed ==
  ASSUME NEW s \in Names, NEW i \in DOMAIN Scripts[s].steps
  PROVE  /\ Scripts[s].steps[i].kind \in {"unchecked", "swallow", "fallback", "calc"} =>
              s \in Tolerant
         /\ Scripts[s].steps[i].print = "text" =>
              /\ Scripts[s].steps[i].kind \in {"refuse", "ask", "pages", "all"} => s \in TextErrors
              /\ Scripts[s].steps[i].kind = "empty" => s \in TextOnEmpty
BY CatalogueAssumption

LEMMA Running_At ==
  ASSUME RunType, NEW sort, At(sort)
  PROVE  /\ script \in Names /\ exit = Running /\ pc \in DOMAIN Steps /\ Here.kind = sort
         /\ Here.print \in Prints /\ sort \in KindsOf(script) /\ pc <= Len(Steps)
<1>1. script \in Names /\ exit = Running /\ pc \in DOMAIN Steps /\ Here.kind = sort
  BY DEF RunType, At, IsRunning, Here
<1>. QED
  BY <1>1, StepsOf DEF Steps, Here
-----------------------------------------------------------------------------
(* The ways to leave a step.  A step that is passed and required was answered. *)

\* On to the next step.
LEMMA Advances ==
  ASSUME RunInv, script \in Names, exit = Running, pc \in DOMAIN Steps,
         Advance, UNCHANGED flags,
         answered \subseteq answered', Required(pc) => pc \in answered',
         lacking' \in BOOLEAN, lacking' => lacking \/ script \in Tolerant,
         more' \in BOOLEAN,
         more' => \/ more /\ ~ Paging
                  \/ ~allPages /\ "pages" \in KindsOf(script)
  PROVE  RunInv'
<1>1. /\ script' = script /\ json' = json /\ allPages' = allPages
      /\ pc' = pc + 1 /\ exit' = exit /\ out' = out /\ Steps' = Steps
      /\ KindsOf(script)' = KindsOf(script)
      /\ \A i : Required(i)' = Required(i)
  BY DEF Advance, flags, Steps, Required, KindsOf
<1>2. RunType'
  BY <1>1, Constants DEF RunInv, RunType
<1>3. WholeInv'
  <2>1. ASSUME NEW i \in 1..(pc' - 1), i \in DOMAIN Steps, Required(i) PROVE i \in answered'
    BY <1>1, <2>1 DEF RunInv, RunType, WholeInv
  <2>2. more' => ~allPages /\ "pages" \in KindsOf(script)
    BY DEF RunInv, WholeInv, Midway, Paging
  <2>3. lacking' => script \in Tolerant
    BY DEF RunInv, WholeInv
  <2>. QED
    BY <1>1, <2>1, <2>2, <2>3 DEF WholeInv
<1>4. PrintInv'
  BY <1>1 DEF RunInv, PrintInv, JsonWhenAsked
<1>. QED
  BY <1>2, <1>3, <1>4 DEF RunInv

\* An end other than 0, and what may be printed as text at it.
LEMMA EndsBadly ==
  ASSUME RunInv, script \in Names, exit = Running, NEW print, NEW status \in {1, 2, Killed},
         Quit(print, status), UNCHANGED flags, UNCHANGED <<answered, lacking, more>>,
         print \in Prints,
         print = "text" /\ json => status = 1 /\ (down' \/ script \in TextErrors)
  PROVE  RunInv'
<1>1. /\ script' = script /\ json' = json /\ allPages' = allPages /\ pc' = pc /\ exit' = status
      /\ out' = out \cup Printed(print) /\ answered' = answered /\ lacking' = lacking /\ more' = more
      /\ Steps' = Steps /\ KindsOf(script)' = KindsOf(script)
      /\ \A i : Required(i)' = Required(i)
  BY DEF Quit, flags, Steps, Required, KindsOf
<1>2. RunType'
  BY <1>1, Constants DEF RunInv, RunType
<1>3. WholeInv'
  <2>1. exit' # 0
    BY <1>1, Constants
  <2>. QED
    BY <1>1, <2>1 DEF RunInv, WholeInv, Midway, Paging
<1>4. json /\ "text" \in out' => status = 1 /\ (down' \/ script \in TextErrors)
  BY <1>1 DEF Printed, Prints, RunInv, PrintInv
<1>5. PrintInv'
  BY <1>1, <1>4, Constants DEF PrintInv, JsonWhenAsked
<1>. QED
  BY <1>2, <1>3, <1>5 DEF RunInv

\* An exit 0, at a step that asks for nothing or past the last one, or by an
\* interrupt of a push script.
LEMMA EndsWell ==
  ASSUME RunInv, script \in Names, exit = Running, NEW print,
         Quit(print, 0), UNCHANGED flags, UNCHANGED <<answered, lacking, more>>,
         Paging => Stopped,
         print \in Prints,
         print = "text" /\ json => script \in TextOnEmpty
  PROVE  RunInv'
<1>1. /\ script' = script /\ json' = json /\ allPages' = allPages /\ pc' = pc /\ exit' = 0
      /\ out' = out \cup Printed(print) /\ answered' = answered /\ lacking' = lacking /\ more' = more
      /\ Steps' = Steps /\ KindsOf(script)' = KindsOf(script) /\ Stopped' = Stopped
      /\ \A i : Required(i)' = Required(i)
  BY DEF Quit, flags, Steps, Required, KindsOf, Stopped, Handler
<1>2. RunType'
  BY <1>1, Constants DEF RunInv, RunType
<1>3. WholeInv'
  BY <1>1 DEF RunInv, WholeInv, Midway, Paging
<1>4. json /\ "text" \in out' => script \in TextOnEmpty
  BY <1>1 DEF Printed, Prints, RunInv, PrintInv
<1>5. PrintInv'
  BY <1>1, <1>4, Constants DEF PrintInv, JsonWhenAsked
<1>. QED
  BY <1>2, <1>3, <1>5 DEF RunInv

\* An exception at a step.
LEMMA Raises ==
  ASSUME RunInv, script \in Names, exit = Running,
         Raise, UNCHANGED flags, UNCHANGED <<answered, lacking, more>>
  PROVE  RunInv'
<1>1. Quit("asked", 1) \/ Quit("none", 1)
  BY DEF Raise
<1>. QED
  BY <1>1, EndsBadly DEF Prints

\* A step of the world, or one that looks for a firm.
LEMMA Elsewhere ==
  ASSUME RunInv, UNCHANGED <<flags, pc, exit, out, answered, lacking, more, down>>
  PROVE  RunInv'
BY DEF RunInv, RunType, WholeInv, Midway, Paging, PrintInv, JsonWhenAsked, flags, Steps, Required,
       KindsOf, Stopped, Handler
-----------------------------------------------------------------------------
(* The actions. *)

LEMMA LaunchStep ==
  ASSUME RunInv, NEW s \in Names, Launch(s)
  PROVE  RunInv'
<1>1. /\ script = NoScript /\ script' = s
      /\ pc' = pc /\ exit' = exit /\ out' = out /\ answered' = answered
      /\ lacking' = lacking /\ more' = more /\ json' \in BOOLEAN /\ allPages' \in BOOLEAN
  BY DEF Launch, asks
<1>2. pc' = 1 /\ exit' = Running /\ out' = {} /\ ~ lacking' /\ ~ more'
  BY <1>1 DEF RunInv, RunType
<1>3. RunType'
  BY <1>1, <1>2, Constants DEF RunInv, RunType
<1>4. WholeInv' /\ PrintInv'
  BY <1>2, Constants DEF WholeInv, PrintInv, JsonWhenAsked
<1>. QED
  BY <1>3, <1>4 DEF RunInv

LEMMA ForgetStep == ASSUME RunInv, Forget PROVE RunInv'
<1>1. /\ script' = NoScript /\ pc' = 1 /\ exit' = Running /\ out' = {}
      /\ ~ lacking' /\ ~ more' /\ ~ json'
      /\ {json', allPages', more', lacking'} \subseteq BOOLEAN
  BY DEF Forget
<1>2. RunType'
  BY <1>1, Constants DEF RunType
<1>3. WholeInv' /\ PrintInv'
  BY <1>1, Constants DEF WholeInv, PrintInv, JsonWhenAsked
<1>. QED
  BY <1>2, <1>3 DEF RunInv

\* Steps that ask for nothing pass, or end the script.
LEMMA PassingStep ==
  ASSUME RunInv, NEW sort, At(sort), sort \notin {"ask", "pages", "all"},
         UNCHANGED <<flags, asks>>,
         \/ Advance
         \/ Raise
         \/ \E print \in Prints : \E status \in {1, 2, Killed} :
              /\ Quit(print, status)
              /\ print = "text" /\ json => status = 1 /\ (down' \/ script \in TextErrors)
         \/ \E print \in Prints :
              Quit(print, 0) /\ (print = "text" /\ json => script \in TextOnEmpty)
  PROVE  RunInv'
<1>1. /\ script \in Names /\ exit = Running /\ pc \in DOMAIN Steps /\ ~ Required(pc) /\ ~ Paging
      /\ answered' = answered /\ lacking' = lacking /\ more' = more
  BY Running_At DEF RunInv, Required, Paging, Here, asks
<1>2. UNCHANGED flags /\ UNCHANGED <<answered, lacking, more>> /\ lacking \in BOOLEAN /\ more \in BOOLEAN
  BY <1>1 DEF RunInv, RunType
<1>3. CASE Advance
  BY <1>1, <1>2, <1>3, Advances
<1>4. CASE Raise
  BY <1>1, <1>2, <1>4, Raises
<1>5. ASSUME NEW print \in Prints, NEW status \in {1, 2, Killed}, Quit(print, status),
             print = "text" /\ json => status = 1 /\ (down' \/ script \in TextErrors)
      PROVE  RunInv'
  BY <1>1, <1>2, <1>5, EndsBadly
<1>6. ASSUME NEW print \in Prints, Quit(print, 0), print = "text" /\ json => script \in TextOnEmpty
      PROVE  RunInv'
  BY <1>1, <1>2, <1>6, EndsWell
<1>. QED
  BY <1>3, <1>4, <1>5, <1>6

LEMMA StartStep ==
  ASSUME RunInv, ensure_futu_api \/ CheckEnv \/ ParseArgs \/ CheckValues \/ check_opend_alive
         \/ check_crypto_sdk
  PROVE  RunInv'
<1>1. CASE ensure_futu_api
  <2>1. At("common") /\ UNCHANGED <<flags, asks>> /\ (Advance \/ (Quit("text", 1) /\ down'))
    BY <1>1 DEF ensure_futu_api
  <2>. QED
    BY <2>1, PassingStep DEF Prints
<1>2. CASE CheckEnv
  <2>1. At("report") /\ UNCHANGED <<flags, asks>> /\ (Advance \/ Quit("asked", 1))
    BY <1>2 DEF CheckEnv
  <2>. QED
    BY <2>1, PassingStep DEF Prints
<1>3. CASE ParseArgs
  <2>1. At("usage") /\ UNCHANGED <<flags, asks>> /\ (Advance \/ Quit("none", 2))
    BY <1>3 DEF ParseArgs
  <2>. QED
    BY <2>1, PassingStep DEF Prints
<1>4. CASE CheckValues
  <2>1. At("check") /\ UNCHANGED <<flags, asks>> /\ (Advance \/ Raise)
    BY <1>4 DEF CheckValues
  <2>. QED
    BY <2>1, PassingStep
<1>5. CASE check_opend_alive
  <2>1. /\ At("alive") \/ At("open")
        /\ UNCHANGED <<flags, asks>> /\ (Advance \/ Raise \/ (Quit("text", 1) /\ down'))
    BY <1>5 DEF check_opend_alive
  <2>. QED
    BY <2>1, PassingStep DEF Prints
<1>6. CASE check_crypto_sdk
  <2>1. At("sdk") /\ UNCHANGED <<flags, asks>> /\ (Advance \/ (Quit("text", 1) /\ down'))
    BY <1>6 DEF check_crypto_sdk
  <2>. QED
    BY <2>1, PassingStep DEF Prints
<1>. QED
  BY <1>1, <1>2, <1>3, <1>4, <1>5, <1>6

\* A script that prints an error of its own, or that it found no rows.
LEMMA OwnWordsStep ==
  ASSUME RunInv, RefuseOrGoOn \/ NoRows
  PROVE  RunInv'
<1>1. CASE RefuseOrGoOn
  <2>1. At("refuse") /\ UNCHANGED <<flags, asks>> /\ (Advance \/ Quit(Here.print, 1))
    BY <1>1 DEF RefuseOrGoOn
  <2>2. Here.print \in Prints /\ (Here.print = "text" => script \in TextErrors)
    BY <2>1, Running_At, Listed DEF RunInv, Here, Steps
  <2>. QED
    BY <2>1, <2>2, PassingStep
<1>2. CASE NoRows
  <2>1. At("empty") /\ UNCHANGED <<flags, asks>> /\ (Advance \/ Quit(Here.print, 0))
    BY <1>2 DEF NoRows
  <2>2. Here.print \in Prints /\ (Here.print = "text" => script \in TextOnEmpty)
    BY <2>1, Running_At, Listed DEF RunInv, Here, Steps
  <2>. QED
    BY <2>1, <2>2, PassingStep
<1>. QED
  BY <1>1, <1>2

\* The context of crypto trading, and the probes for its firm.
LEMMA CryptoStep ==
  ASSUME RunInv, create_crypto_trade_context \/ ProbeFirm
  PROVE  RunInv'
<1>1. /\ At("crypto") /\ UNCHANGED <<flags, asks>>
      /\ \/ Advance \/ Raise \/ Quit("asked", 1) \/ (Quit("text", 1) /\ down')
         \/ UNCHANGED <<pc, exit, out, down>>
  BY DEF create_crypto_trade_context, build_crypto_ctx, ProbeFirm
<1>2. CASE UNCHANGED <<pc, exit, out, down>>
  <2>1. UNCHANGED <<flags, pc, exit, out, answered, lacking, more, down>>
    BY <1>1, <1>2 DEF asks
  <2>. QED
    BY <2>1, Elsewhere
<1>3. CASE ~ UNCHANGED <<pc, exit, out, down>>
  BY <1>1, <1>3, PassingStep DEF Prints
<1>. QED
  BY <1>2, <1>3

LEMMA AskOnceStep == ASSUME RunInv, AskOnce PROVE RunInv'
<1>1. /\ script \in Names /\ exit = Running /\ pc \in DOMAIN Steps /\ ~ Paging
      /\ Here.print \in Prints /\ (Here.print = "text" => script \in TextErrors)
  BY Running_At, Listed DEF AskOnce, RunInv, Paging, Here, Steps
<1>2. UNCHANGED flags /\ lacking' = lacking /\ more' = more /\ lacking \in BOOLEAN /\ more \in BOOLEAN
  BY DEF AskOnce, RunInv, RunType
<1>3. CASE answered' = answered \cup {pc} /\ Advance
  BY <1>1, <1>2, <1>3, Advances
<1>4. CASE Quit(Here.print, 1) /\ UNCHANGED answered
  BY <1>1, <1>2, <1>4, EndsBadly
<1>5. CASE Raise /\ UNCHANGED answered
  BY <1>1, <1>2, <1>5, Raises
<1>. QED
  BY <1>3, <1>4, <1>5 DEF AskOnce

\* Page by page: what has more pages is left only by a script that was not asked
\* for all of them.
LEMMA AskPageStep == ASSUME RunInv, AskPage PROVE RunInv'
<1>1. /\ script \in Names /\ exit = Running /\ pc \in DOMAIN Steps
      /\ Here.print \in Prints /\ (Here.print = "text" => script \in TextErrors)
      /\ Paging /\ (At("pages") => "pages" \in KindsOf(script))
  BY Running_At, Listed DEF AskPage, RunInv, Paging, Here, Steps
<1>2. UNCHANGED flags /\ lacking' = lacking /\ down' = down /\ lacking \in BOOLEAN /\ allPages \in BOOLEAN
  BY DEF AskPage, RunInv, RunType
<1>3. ASSUME more' \in BOOLEAN, more' /\ (allPages \/ At("all")), UNCHANGED <<answered, pc, exit, out>>
      PROVE  RunInv'
  <2>1. /\ script' = script /\ json' = json /\ allPages' = allPages /\ Steps' = Steps
        /\ Paging' /\ exit' # 0 /\ \A i : Required(i)' = Required(i)
    BY <1>1, <1>2, <1>3, Constants DEF flags, Steps, Required, Paging
  <2>2. RunType'
    BY <1>1, <1>2, <1>3, <2>1, Constants DEF RunInv, RunType
  <2>3. WholeInv'
    BY <1>2, <1>3, <2>1 DEF RunInv, WholeInv, Midway
  <2>4. PrintInv'
    BY <1>2, <1>3, <2>1 DEF RunInv, PrintInv, JsonWhenAsked
  <2>. QED
    BY <2>2, <2>3, <2>4 DEF RunInv
<1>4. ASSUME more' \in BOOLEAN, ~ (more' /\ (allPages \/ At("all"))),
             answered' = answered \cup {pc}, Advance
      PROVE  RunInv'
  <2>1. more' => ~ allPages /\ "pages" \in KindsOf(script)
    BY <1>1, <1>4 DEF AskPage
  <2>. QED
    BY <1>1, <1>2, <1>4, <2>1, Advances
<1>5. ASSUME Quit(Here.print, 1), UNCHANGED <<answered, more>> PROVE RunInv'
  BY <1>1, <1>2, <1>5, EndsBadly
<1>6. ASSUME Raise, UNCHANGED <<answered, more>> PROVE RunInv'
  BY <1>1, <1>2, <1>6, Raises
<1>. QED
  BY <1>3, <1>4, <1>5, <1>6 DEF AskPage

\* Requests whose failure is passed over: only the scripts that are listed have one.
LEMMA LenientStep ==
  ASSUME RunInv, AskLeniently \/ AwaitCalc
  PROVE  RunInv'
<1>1. /\ script \in Names /\ exit = Running /\ pc \in DOMAIN Steps /\ ~ Required(pc) /\ ~ Paging
      /\ script \in Tolerant
  BY Running_At, Listed DEF AskLeniently, AwaitCalc, RunInv, Required, Paging, Here, Steps
<1>2. /\ UNCHANGED flags /\ answered' = answered /\ more' = more /\ more \in BOOLEAN
      /\ lacking' \in BOOLEAN /\ (Advance \/ lacking' = lacking)
  BY DEF AskLeniently, AwaitCalc, RunInv, RunType
<1>3. CASE Advance
  BY <1>1, <1>2, <1>3, Advances
<1>4. CASE Raise /\ UNCHANGED lacking
  BY <1>1, <1>2, <1>4, Raises
<1>5. CASE ~ json /\ Quit("text", 1) /\ UNCHANGED lacking
  BY <1>1, <1>2, <1>5, EndsBadly DEF Prints
<1>. QED
  BY <1>3, <1>4, <1>5 DEF AskLeniently, AwaitCalc

\* A push script prints what comes, and goes on waiting.
LEMMA SleepStep == ASSUME RunInv, SleepOn PROVE RunInv'
<1>1. At("sleep") /\ UNCHANGED <<flags, asks>> /\ down' = down
  BY DEF SleepOn
<1>2. CASE Advance \/ Raise
  BY <1>1, <1>2, PassingStep
<1>3. CASE out' = out \cup Printed("asked") /\ UNCHANGED <<pc, exit>>
  <2>1. UNCHANGED <<flags, pc, exit, answered, lacking, more, down>>
    BY <1>1, <1>3 DEF asks
  <2>2. /\ script' = script /\ json' = json /\ Steps' = Steps /\ Stopped' = Stopped
        /\ KindsOf(script)' = KindsOf(script) /\ \A i : Required(i)' = Required(i)
    BY <2>1 DEF flags, Steps, Stopped, Handler, KindsOf, Required
  <2>3. script # NoScript
    BY <1>1 DEF At, IsRunning
  <2>4. RunType' /\ WholeInv'
    BY <2>1, <2>2, <2>3 DEF RunInv, RunType, WholeInv, Midway, Paging, flags
  <2>5. json /\ "text" \in out' => "text" \in out
    BY <1>3 DEF Printed
  <2>6. PrintInv'
    BY <2>1, <2>2, <2>5 DEF RunInv, PrintInv, JsonWhenAsked
  <2>. QED
    BY <2>4, <2>6 DEF RunInv
<1>. QED
  BY <1>2, <1>3 DEF SleepOn

LEMMA FinishStep == ASSUME RunInv, Finish PROVE RunInv'
<1>1. /\ script \in Names /\ exit = Running /\ UNCHANGED flags
      /\ UNCHANGED <<answered, lacking, more>>
  BY DEF Finish, IsRunning, RunInv, RunType, asks
<1>2. ~ Paging /\ Scripts[script].shows \in Prints \ {"text"}
  BY <1>1, StepsOf DEF Finish, Paging, Steps, RunInv, RunType
<1>3. CASE Quit(Scripts[script].shows, 0)
  BY <1>1, <1>2, <1>3, EndsWell
<1>4. CASE Raise
  BY <1>1, <1>4, Raises
<1>. QED
  BY <1>3, <1>4 DEF Finish

\* An interrupt ends a push script well, which is then stopped at its step.
LEMMA InterruptStep == ASSUME RunInv, Interrupt PROVE RunInv'
<1>1. /\ script \in Names /\ exit = Running /\ UNCHANGED flags
      /\ UNCHANGED <<answered, lacking, more>>
  BY DEF Interrupt, IsRunning, RunInv, RunType, asks
<1>2. CASE Handler = "push" /\ Quit(IF json THEN "none" ELSE "text", 0)
  <2>1. Paging => Stopped
    BY <1>1, <1>2, StepsOf DEF Paging, Stopped, Steps
  <2>. QED
    BY <1>1, <1>2, <2>1, EndsWell DEF Prints
<1>3. CASE Quit("none", Killed)
  BY <1>1, <1>3, EndsBadly DEF Prints
<1>. QED
  BY <1>2, <1>3 DEF Interrupt

LEMMA InitRun == Init => RunInv
<1> SUFFICES ASSUME Init PROVE RunInv
  OBVIOUS
<1>1. /\ script = NoScript /\ pc = 1 /\ exit = Running /\ out = {}
      /\ ~ lacking /\ ~ more /\ {json, allPages, more, lacking} \subseteq BOOLEAN
  BY DEF Init
<1>2. RunType
  BY <1>1, Constants DEF RunType
<1>3. WholeInv /\ PrintInv
  BY <1>1, Constants DEF WholeInv, PrintInv, JsonWhenAsked
<1>. QED
  BY <1>2, <1>3 DEF RunInv

LEMMA NextRun == RunInv /\ [Next]_vars => RunInv'
<1> SUFFICES ASSUME RunInv, [Next]_vars PROVE RunInv'
  OBVIOUS
<1>1. CASE World \/ UNCHANGED vars
  <2>1. UNCHANGED <<flags, pc, exit, out, answered, lacking, more, down>>
    BY <1>1 DEF World, vars, invocation, flags
  <2>. QED
    BY <2>1, Elsewhere
<1>2. CASE ~ (World \/ UNCHANGED vars)
  BY <1>2, LaunchStep, ForgetStep, StartStep, OwnWordsStep, CryptoStep, AskOnceStep, AskPageStep,
     LenientStep, SleepStep, FinishStep, InterruptStep DEF Next
<1>. QED
  BY <1>1, <1>2

\* Whatever the catalogue, an exit 0 says that every request was answered without
\* error and every page read that was asked for, but for the scripts that are listed.
THEOREM ZeroSaysWhole == Spec => []ZeroIsWhole
<1>1. RunInv => ZeroIsWhole
  BY DEF RunInv, WholeInv, Midway, ZeroIsWhole
<1>. QED
  BY InitRun, NextRun, <1>1, PTL DEF Spec

\* Under --json no text is printed on stdout, but where OpenD or an SDK is missing,
\* and by the scripts that have a text of their own.
THEOREM AskedForJson == Spec => []JsonWhenAsked
<1>1. RunInv => JsonWhenAsked
  BY DEF RunInv, PrintInv
<1>. QED
  BY InitRun, NextRun, <1>1, PTL DEF Spec

-----------------------------------------------------------------------------
(* The firm of a crypto script. *)

\* f is the first firm that has an account in A.
IsFirst(f, A) ==
  /\ f \in A
  /\ \E i \in DOMAIN Firms : Firms[i] = f /\ \A j \in 1..(i - 1) : Firms[j] \notin A

\* What is left of the firms, from the k-th.
FromTh(q, k) ==
  /\ Len(q) = Len(Firms) - k + 1
  /\ \A i \in 1..Len(q) : q[i] = Firms[k + i - 1]

FirmType ==
  /\ todo \in Seq(FirmSet) /\ trusted \in BOOLEAN /\ firm \in FirmSet \cup {NoFirm}
  /\ cached \in FirmSet \cup {NoFirm} /\ accounts \in SUBSET FirmSet
  /\ disturbed \in BOOLEAN

\* As long as nothing disturbed the probes, the firm of the cache is the first
\* that has an account, and so is the one taken from it that is still to be
\* probed; the firms probed before those to do have none.
FirmInv ==
  /\ FirmType
  /\ cached # NoFirm /\ ~disturbed => IsFirst(cached, accounts)
  /\ todo # <<>> /\ trusted => FromTh(Tail(todo), 1) /\ (~disturbed => IsFirst(Head(todo), accounts))
  /\ todo # <<>> /\ ~trusted =>
       \E k \in 1..Len(Firms) :
         FromTh(todo, k) /\ (~disturbed => \A j \in 1..(k - 1) : Firms[j] \notin accounts)

\* The property, of one step.
Probed ==
  firm # firm' /\ firm' # NoFirm /\ given = NoFirm =>
    /\ firm' \in accounts
    /\ ~disturbed =>
         \E i \in DOMAIN Firms :
           Firms[i] = firm' /\ \A j \in 1..(i - 1) : Firms[j] \notin accounts

LEMMA FirmsFacts ==
  /\ Firms \in Seq(FirmSet) /\ Len(Firms) \in Nat /\ DOMAIN Firms = 1..Len(Firms)
  /\ NoFirm \notin FirmSet /\ OtherFirm \notin FirmSet
BY RunnerAssumption

LEMMA HeadAndTail ==
  ASSUME NEW q \in Seq(FirmSet), q # <<>>
  PROVE  /\ Head(q) \in FirmSet /\ Head(q) = q[1] /\ Tail(q) \in Seq(FirmSet)
         /\ Len(Tail(q)) = Len(q) - 1 /\ Len(q) \in Nat \ {0}
         /\ \A i \in 1..Len(Tail(q)) : Tail(q)[i] = q[i + 1]
         /\ Tail(q) # <<>> => Len(Tail(q)) # 0
<1>1. Len(q) \in Nat \ {0} /\ Head(q) = q[1]
  BY EmptySeq, LenProperties
<1>2. /\ Head(q) \in FirmSet /\ Tail(q) \in Seq(FirmSet) /\ Len(Tail(q)) = Len(q) - 1
      /\ \A i \in 1..Len(Tail(q)) : Tail(q)[i] = q[i + 1]
  BY HeadTailProperties
<1>3. Tail(q) # <<>> => Len(Tail(q)) # 0
  BY <1>2, EmptySeq
<1>. QED
  BY <1>1, <1>2, <1>3

LEMMA InitFirm == Init => FirmInv
<1> SUFFICES ASSUME Init PROVE FirmInv
  OBVIOUS
<1>1. /\ todo = <<>> /\ trusted = FALSE /\ firm = NoFirm /\ cached = NoFirm
      /\ accounts \in AccountSets /\ disturbed = FALSE
  BY DEF Init
<1>2. FirmType
  <2>1. accounts \in SUBSET FirmSet
    BY <1>1, RunnerAssumption
  <2>2. todo \in Seq(FirmSet)
    BY <1>1
  <2>. QED
    BY <1>1, <2>1, <2>2 DEF FirmType
<1>. QED
  BY <1>1, <1>2 DEF FirmInv

LEMMA CreateFirm ==
  ASSUME FirmInv, create_crypto_trade_context
  PROVE  FirmInv' /\ Probed
<1>1. UNCHANGED <<given, cached, accounts, disturbed>> /\ todo = <<>>
  BY DEF create_crypto_trade_context, flags, world
<1>2. CASE UNCHANGED probes
  BY <1>1, <1>2 DEF probes, FirmInv, FirmType, Probed
<1>3. CASE given \in FirmSet /\ firm' = given /\ UNCHANGED <<todo, trusted>>
  BY <1>1, <1>3, FirmsFacts DEF FirmInv, FirmType, Probed
<1>4. CASE /\ todo' = IF cached = NoFirm THEN Firms ELSE <<cached>> \o Firms
           /\ trusted' = (cached # NoFirm) /\ firm' = firm
  <2>1. CASE cached = NoFirm
    <3>1. todo' = Firms /\ trusted' = FALSE
      BY <1>4, <2>1
    <3>2. FromTh(Firms, 1)
      BY FirmsFacts DEF FromTh
    <3>3. todo' # <<>> => 1 \in 1..Len(Firms)
      BY <3>1, FirmsFacts
    <3>4. FirmType'
      BY <1>1, <1>4, <3>1, FirmsFacts DEF FirmInv, FirmType
    <3>5. FirmInv'
      BY <1>1, <3>1, <3>2, <3>3, <3>4 DEF FirmInv
    <3>. QED
      BY <1>4, <3>5 DEF Probed
  <2>2. CASE cached # NoFirm
    <3>1. todo' = <<cached>> \o Firms /\ trusted' = TRUE /\ cached \in FirmSet
      BY <1>4, <2>2 DEF FirmInv, FirmType
    <3>2. /\ todo' \in Seq(FirmSet) /\ todo' # <<>> /\ Head(todo') = cached
          /\ Len(Tail(todo')) = Len(Firms) /\ \A i \in 1..Len(Firms) : Tail(todo')[i] = Firms[i]
      BY <3>1, FirmsFacts
    <3>3. FromTh(Tail(todo'), 1)
      BY <3>2, FirmsFacts DEF FromTh
    <3>. QED
      BY <1>1, <1>4, <2>2, <3>1, <3>2, <3>3 DEF FirmInv, FirmType, Probed
  <2>. QED
    BY <2>1, <2>2
<1>. QED
  BY <1>2, <1>3, <1>4 DEF create_crypto_trade_context, build_crypto_ctx, probes

LEMMA ProbeFirmStep ==
  ASSUME FirmInv, ProbeFirm
  PROVE  FirmInv' /\ Probed
<1> DEFINE f == Head(todo)
<1>1. /\ todo # <<>> /\ todo \in Seq(FirmSet) /\ f \in FirmSet /\ Tail(todo) \in Seq(FirmSet)
      /\ UNCHANGED <<given, accounts>> /\ trusted \in BOOLEAN
  BY HeadAndTail DEF ProbeFirm, FirmInv, FirmType, flags
\* The first of those to do is the first with an account, if it has one.
<1>2. f \in accounts /\ ~ disturbed => IsFirst(f, accounts)
  <2>1. CASE trusted
    BY <1>1, <2>1 DEF FirmInv
  <2>2. CASE ~ trusted
    <3>1. SUFFICES ASSUME f \in accounts, ~ disturbed PROVE IsFirst(f, accounts)
      OBVIOUS
    <3>2. PICK k \in 1..Len(Firms) :
            FromTh(todo, k) /\ \A j \in 1..(k - 1) : Firms[j] \notin accounts
      BY <1>1, <2>2, <3>1 DEF FirmInv
    <3>3. f = Firms[k]
      BY <1>1, <3>2, HeadAndTail, FirmsFacts DEF FromTh
    <3>. QED
      BY <3>1, <3>2, <3>3, FirmsFacts DEF IsFirst
  <2>. QED
    BY <2>1, <2>2
<1>3. CASE /\ ProbeFinds(f) /\ firm' = f /\ todo' = <<>> /\ trusted' = FALSE
           /\ cached' = (IF trusted THEN cached ELSE f) /\ UNCHANGED disturbed
  <2>1. f \in accounts
    BY <1>3 DEF ProbeFinds
  <2>2. FirmType'
    <3>1. cached' \in FirmSet \cup {NoFirm} /\ firm' \in FirmSet \cup {NoFirm}
      BY <1>1, <1>3 DEF FirmInv, FirmType
    <3>2. todo' \in Seq(FirmSet)
      BY <1>3, EmptySeq
    <3>3. trusted' \in BOOLEAN /\ disturbed' \in BOOLEAN /\ accounts' \in SUBSET FirmSet
      BY <1>1, <1>3 DEF FirmInv, FirmType
    <3>. QED
      BY <3>1, <3>2, <3>3 DEF FirmType
  <2>3. cached' # NoFirm /\ ~ disturbed' => IsFirst(cached', accounts')
    BY <1>1, <1>2, <1>3, <2>1 DEF FirmInv
  <2>4. FirmInv'
    BY <1>3, <2>2, <2>3 DEF FirmInv
  <2>5. Probed
    BY <1>2, <1>3, <2>1 DEF Probed, IsFirst
  <2>. QED
    BY <2>4, <2>5
<1>4. CASE /\ disturbed' = (disturbed \/ f \in accounts) /\ firm' = firm
           /\ cached' = (IF trusted THEN NoFirm ELSE cached)
           /\ todo' = Tail(todo) /\ trusted' = FALSE
  <2>1. FirmType'
    <3>1. cached' \in FirmSet \cup {NoFirm} /\ firm' \in FirmSet \cup {NoFirm}
      BY <1>4 DEF FirmInv, FirmType
    <3>2. disturbed' \in BOOLEAN
      BY <1>4, Zenon
    <3>3. todo' \in Seq(FirmSet) /\ trusted' \in BOOLEAN /\ accounts' \in SUBSET FirmSet
      BY <1>1, <1>4 DEF FirmInv, FirmType
    <3>. QED
      BY <3>1, <3>2, <3>3 DEF FirmType
  <2>2. cached' # NoFirm /\ ~ disturbed' => IsFirst(cached', accounts')
    BY <1>1, <1>4 DEF FirmInv
  <2>3. ASSUME todo' # <<>>
        PROVE  \E k \in 1..Len(Firms) :
                 FromTh(todo', k)
                 /\ (~disturbed' => \A j \in 1..(k - 1) : Firms[j] \notin accounts')
    <3>1. CASE trusted
      <4>1. FromTh(todo', 1) /\ (~ disturbed => f \in accounts)
        BY <1>1, <1>4, <3>1 DEF FirmInv, IsFirst
      <4>2. disturbed'
        BY <1>4, <4>1
      <4>3. 1 \in 1..Len(Firms)
        BY <1>1, <1>4, <2>3, <4>1, HeadAndTail, FirmsFacts DEF FromTh
      <4>. QED
        BY <4>1, <4>2, <4>3
    <3>2. CASE ~ trusted
      <4>1. PICK k \in 1..Len(Firms) :
              /\ FromTh(todo, k)
              /\ ~disturbed => \A j \in 1..(k - 1) : Firms[j] \notin accounts
        BY <1>1, <3>2 DEF FirmInv
      <4>2. Len(todo) = Len(Firms) - k + 1 /\ f = Firms[k]
        BY <1>1, <4>1, HeadAndTail, FirmsFacts DEF FromTh
      <4>3. FromTh(todo', k + 1) /\ k + 1 \in 1..Len(Firms)
        BY <1>1, <1>4, <2>3, <4>1, <4>2, HeadAndTail, FirmsFacts DEF FromTh
      <4>4. ~ disturbed' => \A j \in 1..k : Firms[j] \notin accounts
        <5>1. \A j \in 1..k : j = k \/ j \in 1..(k - 1)
          OBVIOUS
        <5>. QED
          BY <1>4, <4>1, <4>2, <5>1
      <4>. QED
        BY <1>1, <4>3, <4>4
    <3>. QED
      BY <3>1, <3>2
  <2>. QED
    BY <1>1, <1>4, <2>1, <2>2, <2>3 DEF FirmInv, Probed
<1>. QED
  BY <1>3, <1>4 DEF ProbeFirm, build_crypto_ctx

LEMMA WorldFirm ==
  ASSUME FirmInv, World
  PROVE  FirmInv' /\ Probed
<1>1. UNCHANGED <<todo, trusted, firm>>
  BY DEF World, invocation
<1>2. CASE OpenDChanges \/ EnvCheckExpires
  BY <1>1, <1>2 DEF OpenDChanges, EnvCheckExpires, FirmInv, FirmType, Probed
<1>3. CASE FirmExpires
  BY <1>1, <1>3 DEF FirmExpires, FirmInv, FirmType, Probed
<1>4. CASE OtherDetects
  <2>1. PICK i \in DOMAIN Firms :
          /\ Firms[i] \in accounts /\ cached' = Firms[i]
          /\ disturbed' = (disturbed \/ \E j \in 1..(i - 1) : Firms[j] \in accounts)
    BY <1>4 DEF OtherDetects
  <2>2. Firms[i] \in FirmSet /\ accounts' = accounts
    BY <1>4, FirmsFacts DEF OtherDetects
  <2>3. ~ disturbed' => ~ disturbed /\ IsFirst(Firms[i], accounts)
    BY <2>1 DEF IsFirst
  <2>. QED
    BY <1>1, <2>1, <2>2, <2>3 DEF FirmInv, FirmType, Probed
<1>5. CASE SwitchAccounts
  BY <1>1, <1>5, RunnerAssumption DEF SwitchAccounts, FirmInv, FirmType, Probed
<1>. QED
  BY <1>2, <1>3, <1>4, <1>5 DEF World

\* The other steps of a script leave the firms alone, or forget them.
LEMMA OtherFirmSteps ==
  ASSUME FirmInv, UNCHANGED <<cached, accounts, disturbed>>,
         \/ UNCHANGED <<todo, trusted, firm>>
         \/ todo' = <<>> /\ trusted' = FALSE /\ firm' = NoFirm
  PROVE  FirmInv' /\ Probed
<1>1. CASE UNCHANGED <<todo, trusted, firm>>
  BY <1>1 DEF FirmInv, FirmType, Probed
<1>2. CASE todo' = <<>> /\ trusted' = FALSE /\ firm' = NoFirm
  <2>1. todo' \in Seq(FirmSet)
    BY <1>2, EmptySeq
  <2>2. trusted' \in BOOLEAN
    BY <1>2
  <2>. QED
    BY <1>2, <2>1, <2>2 DEF FirmInv, FirmType, Probed
<1>. QED
  BY <1>1, <1>2

LEMMA NextFirm == FirmInv /\ [Next]_vars => FirmInv' /\ Probed
<1> SUFFICES ASSUME FirmInv, [Next]_vars PROVE FirmInv' /\ Probed
  OBVIOUS
<1>1. CASE create_crypto_trade_context \/ ProbeFirm \/ World
  BY <1>1, CreateFirm, ProbeFirmStep, WorldFirm
<1>2. CASE \/ Forget \/ \E s \in Names : Launch(s)
           \/ ensure_futu_api \/ CheckEnv \/ ParseArgs \/ CheckValues \/ RefuseOrGoOn
           \/ check_opend_alive \/ check_crypto_sdk \/ AskOnce \/ AskPage \/ AskLeniently \/ AwaitCalc
           \/ NoRows \/ SleepOn \/ Finish \/ Interrupt \/ UNCHANGED vars
  <2>1. /\ UNCHANGED <<cached, accounts, disturbed>>
        /\ \/ UNCHANGED <<todo, trusted, firm>>
           \/ todo' = <<>> /\ trusted' = FALSE /\ firm' = NoFirm
    BY <1>2 DEF Forget, Launch, ensure_futu_api, CheckEnv, ParseArgs, CheckValues, RefuseOrGoOn,
       check_opend_alive, check_crypto_sdk, AskOnce, AskPage, AskLeniently, AwaitCalc, NoRows, SleepOn, Finish,
       Interrupt, vars, invocation, world, probes
  <2>. QED
    BY <2>1, OtherFirmSteps
<1>. QED
  BY <1>1, <1>2 DEF Next

\* Whatever the firms, the firm a crypto script works with has an account, and is the
\* first that has one unless a probe failed or accounts were switched: through the
\* cache, invocations agree.
THEOREM FirmsAgree == Spec => FirmIsProbed
<1>1. FirmInv /\ [Next]_vars =>
        [firm # firm' /\ firm' # NoFirm /\ given = NoFirm =>
           /\ firm' \in accounts
           /\ ~disturbed =>
                \E i \in DOMAIN Firms :
                  Firms[i] = firm' /\ \A j \in 1..(i - 1) : Firms[j] \notin accounts]_vars
  BY NextFirm DEF Probed
<1>2. FirmInv /\ [Next]_vars => FirmInv'
  BY NextFirm
<1>. QED
  BY InitFirm, <1>1, <1>2, PTL DEF Spec, FirmIsProbed
=============================================================================
