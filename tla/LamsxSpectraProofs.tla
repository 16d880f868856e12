------------------------- MODULE LamsxSpectraProofs -------------------------
(***************************************************************************)
(* The spectra on their way through the LAMS driver, for every size of the *)
(* buffers, every number of interrupts and every length of the samples:    *)
(* none is lost, summed twice or put out of order.                         *)
(*                                                                         *)
(* A place (the samples scanned, the bytes of the scanner, the averages    *)
(* stored, the sums of the bottom half, its queue) is a chain: it holds    *)
(* the spectra after a as far as b.  The invariant says that the five      *)
(* chains meet, and a step adds a sum to the end of one chain, takes it    *)
(* from the start of the next, or only changes the positions.              *)
(***************************************************************************)
EXTENDS LamsxProofs

\* The steps are first-order logic; those with arithmetic cite SMT.
USE Zenon

-----------------------------------------------------------------------------
(***************************************************************************)
(* Chains                                                                  *)
(***************************************************************************)
\* A sum of consecutive spectra, those after From(s) as far as To(s).
From(s) == s[1][1] - 1
To(s) == From(s) + Len(s)
Run(s) ==
    /\ s \in Seq(Nat \X Nat) /\ s # <<>>
    /\ \A j \in 1..Len(s) : s[j][1] = From(s) + j

\* The sums at the positions of f are, in order, the spectra after a as far as b.
Chain(f, a, b) ==
    /\ a <= b
    /\ \A i \in DOMAIN f : Run(f[i]) /\ a <= From(f[i]) /\ To(f[i]) <= b
    /\ \A i, j \in DOMAIN f : i < j => To(f[i]) <= From(f[j])
    /\ \A n \in (a + 1)..b : \E i \in DOMAIN f : From(f[i]) < n /\ n <= To(f[i])

\* The sum at k is added after the others, is taken from before the others, and
\* all positions are moved by d.
Added(f, g, k) ==
    /\ DOMAIN f \subseteq Int /\ k \in Int /\ DOMAIN g = DOMAIN f \cup {k}
    /\ \A i \in DOMAIN f : i < k /\ g[i] = f[i]
Taken(f, g, k) ==
    /\ DOMAIN f \subseteq Int /\ k \in DOMAIN f /\ DOMAIN g = DOMAIN f \ {k}
    /\ \A i \in DOMAIN g : k < i /\ g[i] = f[i]
Moved(f, g, d) ==
    /\ DOMAIN f \subseteq Int /\ DOMAIN g \subseteq Int /\ d \in Int
    /\ \A i \in DOMAIN g : i + d \in DOMAIN f /\ g[i] = f[i + d]
    /\ \A i \in DOMAIN f : i - d \in DOMAIN g

\* A sum holds at least one spectrum.
LEMMA RunIs ==
    ASSUME NEW s, Run(s)
    PROVE  From(s) \in Int /\ To(s) \in Int /\ From(s) < To(s) /\ Len(s) \in Nat
<1>1. s \in Seq(Nat \X Nat) /\ s # <<>>
  BY DEF Run
<1>2. s[1] \in Nat \X Nat /\ Len(s) \in Nat /\ Len(s) > 0
  BY SMT, <1>1
<1>3. s[1][1] \in Nat
  BY SMT, <1>2
<1> QED BY SMT, <1>2, <1>3 DEF From, To

\* No sums.
LEMMA ChainEmpty ==
    ASSUME NEW f, DOMAIN f = {}, NEW a \in Nat
    PROVE  /\ Chain(f, a, a)
           /\ \A b \in Nat : Chain(f, a, b) => b = a
<1>1. a <= a /\ (a + 1)..a = {}
  BY SMT
<1>2. Chain(f, a, a)
  BY <1>1 DEF Chain
<1>3. ASSUME NEW b \in Nat, Chain(f, a, b) PROVE b = a
  <2>1. a <= b /\ \A n \in (a + 1)..b : FALSE
    BY <1>3 DEF Chain
  <2> QED BY SMT, <2>1
<1> QED BY <1>2, <1>3

\* A sum is put behind the others.
LEMMA ChainAdd ==
    ASSUME NEW f, NEW g, NEW k, NEW a \in Nat, NEW b \in Nat,
           Chain(f, a, b), Added(f, g, k), Run(g[k]), From(g[k]) = b
    PROVE  To(g[k]) \in Nat /\ Chain(g, a, To(g[k]))
<1> DEFINE c == To(g[k])
<1>1. c \in Int /\ b < c
  BY RunIs
<1>2. a <= b /\ c \in Nat /\ a <= c
  <2>1. a <= b
    BY DEF Chain
  <2> QED BY SMT, <1>1, <2>1
<1>3. ASSUME NEW i \in DOMAIN f
      PROVE  /\ i \in Int /\ k \in Int /\ i < k /\ g[i] = f[i] /\ Run(f[i])
             /\ a <= From(f[i]) /\ To(f[i]) <= b
             /\ From(f[i]) \in Int /\ To(f[i]) \in Int
  BY RunIs DEF Chain, Added
<1>4. ASSUME NEW i \in DOMAIN g
      PROVE  Run(g[i]) /\ a <= From(g[i]) /\ To(g[i]) <= c
  <2>1. CASE i = k
    <3>1. To(g[k]) <= c
      BY SMT, <1>1
    <3> QED BY <1>2, <2>1, <3>1
  <2>2. CASE i \in DOMAIN f
    <3>1. To(f[i]) <= c
      BY SMT, <1>1, <1>3, <2>2
    <3> QED BY <1>3, <2>2, <3>1
  <2> QED BY <2>1, <2>2 DEF Added
<1>5. ASSUME NEW i \in DOMAIN g, NEW j \in DOMAIN g, i < j
      PROVE  To(g[i]) <= From(g[j])
  <2>1. CASE i = k
    <3>1. DOMAIN g = DOMAIN f \cup {k} /\ k \in Int
      BY DEF Added
    <3>2. j = k \/ (j \in Int /\ j < k)
      BY <1>3, <3>1
    <3> QED BY SMT, <1>5, <2>1, <3>1, <3>2
  <2>2. CASE i \in DOMAIN f /\ j = k
    BY <1>3, <2>2
  <2>3. CASE i \in DOMAIN f /\ j \in DOMAIN f
    BY <1>3, <1>5, <2>3 DEF Chain
  <2> QED BY <2>1, <2>2, <2>3 DEF Added
<1>6. ASSUME NEW n \in (a + 1)..c
      PROVE  \E i \in DOMAIN g : From(g[i]) < n /\ n <= To(g[i])
  <2>1. n \in (a + 1)..b \/ (b < n /\ n <= c)
    BY SMT, <1>1, <1>2
  <2>2. CASE n \in (a + 1)..b
    <3>1. PICK i \in DOMAIN f : From(f[i]) < n /\ n <= To(f[i])
      BY <2>2 DEF Chain
    <3> QED BY <1>3, <3>1 DEF Added
  <2>3. CASE b < n /\ n <= c
    BY <2>3 DEF Added
  <2> QED BY <2>1, <2>2, <2>3
<1> HIDE DEF c
<1>7. Chain(g, a, c)
  BY <1>2, <1>4, <1>5, <1>6 DEF Chain
<1> QED BY <1>2, <1>7 DEF c

\* The first sum is taken.
LEMMA ChainTake ==
    ASSUME NEW f, NEW g, NEW k, NEW a \in Nat, NEW b \in Nat,
           Chain(f, a, b), Taken(f, g, k)
    PROVE  /\ Run(f[k]) /\ From(f[k]) = a
           /\ To(f[k]) \in Nat /\ Chain(g, To(f[k]), b)
<1> DEFINE c == To(f[k])
<1>1. ASSUME NEW i \in DOMAIN f
      PROVE  /\ i \in Int /\ Run(f[i]) /\ a <= From(f[i]) /\ To(f[i]) <= b
             /\ From(f[i]) \in Int /\ To(f[i]) \in Int /\ From(f[i]) < To(f[i])
  BY RunIs DEF Chain, Taken
<1>2. k \in DOMAIN f /\ c \in Int /\ c <= b /\ a <= From(f[k]) /\ From(f[k]) < c
      /\ From(f[k]) \in Int
  BY <1>1 DEF Taken
<1>3. ASSUME NEW i \in DOMAIN g
      PROVE  i \in DOMAIN f /\ k < i /\ g[i] = f[i] /\ c <= From(f[i])
  BY DEF Taken, Chain
<1> HIDE DEF c
<1>4. From(f[k]) = a
  <2>1. a + 1 \in (a + 1)..b /\ a + 1 \in Int
    BY SMT, <1>2
  <2>2. PICK i \in DOMAIN f : From(f[i]) < a + 1 /\ a + 1 <= To(f[i])
    BY <2>1 DEF Chain
  <2>3. CASE i = k
    BY SMT, <1>2, <2>2, <2>3
  <2>4. CASE i \in DOMAIN g
    BY SMT, <1>1, <1>2, <1>3, <2>2, <2>4
  <2> QED BY <2>3, <2>4 DEF Taken
<1>5. c \in Nat
  BY SMT, <1>2
<1>6. ASSUME NEW n \in (c + 1)..b
      PROVE  \E i \in DOMAIN g : From(g[i]) < n /\ n <= To(g[i])
  <2>1. n \in (a + 1)..b /\ ~(n <= c)
    BY SMT, <1>2
  <2>2. PICK i \in DOMAIN f : From(f[i]) < n /\ n <= To(f[i])
    BY <2>1 DEF Chain
  <2>3. i # k
    BY <2>1, <2>2 DEF c
  <2>4. i \in DOMAIN g
    BY <2>3 DEF Taken
  <2> QED BY <1>3, <2>2, <2>4
<1>7. Chain(g, c, b)
  <2>1. \A i \in DOMAIN g : Run(g[i]) /\ c <= From(g[i]) /\ To(g[i]) <= b
    BY <1>1, <1>3
  <2>2. \A i, j \in DOMAIN g : i < j => To(g[i]) <= From(g[j])
    BY <1>3 DEF Chain
  <2> QED BY <1>2, <1>6, <2>1, <2>2 DEF Chain
<1> QED BY <1>1, <1>2, <1>4, <1>5, <1>7 DEF c

\* The positions move.
LEMMA ChainMoved ==
    ASSUME NEW f, NEW g, NEW d, NEW a, NEW b, Chain(f, a, b), Moved(f, g, d)
    PROVE  Chain(g, a, b)
<1>1. d \in Int /\ DOMAIN f \subseteq Int /\ DOMAIN g \subseteq Int
  BY DEF Moved
<1>2. \A i \in DOMAIN g : i + d \in DOMAIN f /\ g[i] = f[i + d]
  BY DEF Moved
<1>3. \A i \in DOMAIN g : Run(g[i]) /\ a <= From(g[i]) /\ To(g[i]) <= b
  BY <1>2 DEF Chain
<1>4. ASSUME NEW i \in DOMAIN g, NEW j \in DOMAIN g, i < j
      PROVE  To(g[i]) <= From(g[j])
  <2>1. i + d < j + d
    <3>1. i \in Int /\ j \in Int
      BY <1>1
    <3> QED BY SMT, <1>1, <1>4, <3>1
  <2> QED BY <1>2, <2>1 DEF Chain
<1>5. ASSUME NEW n \in (a + 1)..b
      PROVE  \E i \in DOMAIN g : From(g[i]) < n /\ n <= To(g[i])
  <2>1. PICK i \in DOMAIN f : From(f[i]) < n /\ n <= To(f[i])
    BY DEF Chain
  <2>2. i - d \in DOMAIN g
    BY DEF Moved
  <2>3. (i - d) + d = i
    <3>1. i \in Int
      BY <1>1
    <3> QED BY SMT, <1>1, <3>1
  <2>4. g[i - d] = f[i]
    BY <1>2, <2>2, <2>3
  <2> QED BY <2>1, <2>2, <2>4
<1>6. a <= b
  BY DEF Chain
<1> QED BY <1>3, <1>4, <1>5, <1>6 DEF Chain

-----------------------------------------------------------------------------
(***************************************************************************)
(* The places as chains                                                    *)
(***************************************************************************)
\* The sums of the averages in s from the m-th on, and the spectra likewise.
SumsFrom(s, m) == [i \in m..Len(s) |-> s[i].sum]
RawFrom(s, m) == [i \in m..Len(s) |-> <<<<s[i], 0>>>>]

\* The averages of which the header is among the bytes s.
Headers(s) ==
    [i \in {j \in 1..Len(s) : s[j][1] = "avg" /\ s[j][3] = 1} |-> s[i][2].sum]

\* The averages among the samples s.
Averages(s) == [i \in {j \in 1..Len(s) : s[j][1][1] = "avg"} |-> s[i][1][2].sum]

\* BottomHalfPut: one more average.
LEMMA SumsAppend ==
    ASSUME NEW S, NEW s \in Seq(S), NEW x \in S, NEW m \in {1, 2}, m <= Len(s) + 1
    PROVE  /\ Added(SumsFrom(s, m), SumsFrom(Append(s, x), m), Len(s) + 1)
           /\ SumsFrom(Append(s, x), m)[Len(s) + 1] = x.sum
  BY SMT DEF SumsFrom, Added

\* CopyToUser: the header of the first average is read.
LEMMA SumsTake ==
    ASSUME NEW S, NEW s \in Seq(S), s # <<>>
    PROVE  Taken(SumsFrom(s, 1), SumsFrom(s, 2), 1) /\ SumsFrom(s, 1)[1] = s[1].sum
  BY SMT DEF SumsFrom, Taken

\* ReadIncTail: the first average is removed.
LEMMA SumsMove ==
    ASSUME NEW S, NEW s \in Seq(S), s # <<>>
    PROVE  Moved(SumsFrom(s, 2), SumsFrom(Tail(s), 1), 1)
  BY SMT DEF SumsFrom, Moved

\* IsrHead: one more spectrum.
LEMMA RawAppend ==
    ASSUME NEW S, NEW s \in Seq(S), NEW x \in S, NEW m \in {1, 2}, m <= Len(s) + 1
    PROVE  /\ Added(RawFrom(s, m), RawFrom(Append(s, x), m), Len(s) + 1)
           /\ RawFrom(Append(s, x), m)[Len(s) + 1] = <<<<x, 0>>>>
  BY SMT DEF RawFrom, Added

\* BottomHalfSum: the first spectrum is summed.
LEMMA RawTake ==
    ASSUME NEW S, NEW s \in Seq(S), s # <<>>
    PROVE  Taken(RawFrom(s, 1), RawFrom(s, 2), 1) /\ RawFrom(s, 1)[1] = <<<<s[1], 0>>>>
  BY SMT DEF RawFrom, Taken

\* BottomHalfTail: the first spectrum is removed.
LEMMA RawMove ==
    ASSUME NEW S, NEW s \in Seq(S), s # <<>>
    PROVE  Moved(RawFrom(s, 2), RawFrom(Tail(s), 1), 1)
  BY SMT DEF RawFrom, Moved

\* CopyToUser: the header of an average is copied, or no header of one.
LEMMA HeadersExtend ==
    ASSUME NEW s \in Seq(ByteSet), NEW t, NEW k \in Out, NEW x, NEW p \in Nat,
           NEW n \in Nat, Extends(s, t, k, x, p, n)
    PROVE  /\ k = "avg" /\ p = 0 /\ n > 0 =>
                 /\ Added(Headers(s), Headers(t), Len(s) + 1)
                 /\ Headers(t)[Len(s) + 1] = x.sum
           /\ k # "avg" \/ p # 0 \/ n = 0 => Moved(Headers(s), Headers(t), 0)
<1> DEFINE m == Len(s)
           HS == {j \in 1..Len(s) : s[j][1] = "avg" /\ s[j][3] = 1}
           HT == {j \in 1..Len(t) : t[j][1] = "avg" /\ t[j][3] = 1}
<1>1. /\ m \in Nat /\ Len(t) = m + n /\ \A i \in 1..m : t[i] = s[i]
      /\ \A j \in 1..n : t[m + j] = Byte(k, x, p + j)
  BY SMT DEF Extends
<1>2. /\ DOMAIN Headers(s) = HS /\ DOMAIN Headers(t) = HT
      /\ \A i \in HS : Headers(s)[i] = s[i][2].sum
      /\ \A i \in HT : Headers(t)[i] = t[i][2].sum
  BY DEF Headers
<1>3. ASSUME NEW j \in 1..n
      PROVE  /\ t[m + j][1] = k /\ t[m + j][2] = x /\ t[m + j][3] = p + j
  <2>1. t[m + j] = Byte(k, x, p + j)
    BY <1>1
  <2> QED BY SMT, <2>1 DEF Byte
<1>4. \A i \in 1..(m + n) : i \in 1..m \/ (i - m \in 1..n /\ m + (i - m) = i)
  BY SMT, <1>1
<1>5. \A i \in 1..m : i \in 1..(m + n) /\ i \in Int /\ i < m + 1 /\ i + 0 = i /\ i - 0 = i
  BY SMT, <1>1
<1> HIDE DEF m
<1>6. ASSUME NEW i \in HS PROVE i \in HT /\ t[i] = s[i] /\ i \in 1..m
  BY <1>1, <1>5 DEF m
<1>7. ASSUME NEW i \in HT, i \notin HS
      PROVE  k = "avg" /\ p = 0 /\ n > 0 /\ i = m + 1
  <2>1. i \notin 1..m
    BY <1>1, <1>7 DEF m
  <2>2. i - m \in 1..n /\ m + (i - m) = i /\ t[i][1] = "avg" /\ t[i][3] = 1
    BY <1>1, <1>4, <2>1
  <2>3. k = "avg" /\ p + (i - m) = 1
    BY <1>3, <2>2
  <2>4. i \in Int
    BY SMT, <1>1
  <2> QED BY SMT, <1>1, <2>2, <2>3, <2>4
<1>8. ASSUME k = "avg", p = 0, n > 0
      PROVE  m + 1 \in HT /\ m + 1 \notin HS /\ m + 1 \in Int /\ t[m + 1][2] = x
  <2>1. 1 \in 1..n /\ 0 + 1 = 1 /\ m + 1 \in 1..(m + n) /\ m + 1 \notin 1..m /\ m + 1 \in Int
    BY SMT, <1>1, <1>8
  <2>2. t[m + 1][1] = k /\ t[m + 1][2] = x /\ t[m + 1][3] = p + 1
    BY <1>3, <2>1
  <2> QED BY <1>1, <1>8, <2>1, <2>2 DEF m
<1> HIDE DEF HS, HT
<1>9. ASSUME k = "avg", p = 0, n > 0
      PROVE  /\ Added(Headers(s), Headers(t), m + 1)
             /\ Headers(t)[m + 1] = x.sum
  <2>1. HT = HS \cup {m + 1}
    BY <1>6, <1>7, <1>8, <1>9
  <2>2. HS \subseteq Int /\ m + 1 \in Int
    BY <1>5, <1>6, <1>8, <1>9
  <2>3. \A i \in HS : i < m + 1 /\ Headers(t)[i] = Headers(s)[i]
    BY <1>2, <1>5, <1>6
  <2>4. Headers(t)[m + 1] = x.sum
    BY <1>2, <1>8, <1>9
  <2> QED BY <1>2, <2>1, <2>2, <2>3, <2>4 DEF Added
<1>10. ASSUME k # "avg" \/ p # 0 \/ n = 0
       PROVE  Moved(Headers(s), Headers(t), 0)
  <2>1. HT = HS
    <3>1. ~(n > 0) \/ n # 0
      BY SMT
    <3> QED BY <1>6, <1>7, <1>10, <3>1
  <2>2. HS \subseteq Int /\ 0 \in Int
    <3>1. 0 \in Int
      BY SMT
    <3> QED BY <1>5, <1>6, <3>1
  <2>3. \A i \in HS : i + 0 = i /\ i - 0 = i
    BY <1>5, <1>6
  <2>4. \A i \in HS : Headers(t)[i] = Headers(s)[i]
    BY <1>2, <1>6
  <2> QED BY <1>2, <2>1, <2>2, <2>3, <2>4 DEF Moved
<1> QED BY <1>9, <1>10 DEF m

\* nextSample() takes the first average, or a sample that is none.
LEMMA HeadersRest ==
    ASSUME NEW s \in Seq(ByteSet), NEW t \in Seq(ByteSet), Framed(s), s # <<>>,
           NEW L \in Nat, Rest(s, L, t)
    PROVE  /\ s[1][1] = "avg" =>
                 /\ Headers(s)[1] = s[1][2].sum
                 /\ \E g : Taken(Headers(s), g, 1) /\ Moved(g, Headers(t), L)
           /\ s[1][1] # "avg" => Moved(Headers(s), Headers(t), L)
<1> DEFINE m == Len(s)
           HS == {j \in 1..Len(s) : s[j][1] = "avg" /\ s[j][3] = 1}
           HT == {j \in 1..Len(t) : t[j][1] = "avg" /\ t[j][3] = 1}
<1>1. /\ L = LenOf(s[1][1]) /\ L <= m /\ Len(t) = m - L
      /\ \A i \in 1..Len(t) : t[i] = s[L + i]
  BY DEF Rest
<1>2. /\ DOMAIN Headers(s) = HS /\ DOMAIN Headers(t) = HT
      /\ \A i \in HS : Headers(s)[i] = s[i][2].sum
      /\ \A i \in HT : Headers(t)[i] = t[i][2].sum
  BY DEF Headers
<1>3. /\ s[1][3] = 1
      /\ \A e \in 1..L : e <= m => s[e] = Byte(s[1][1], s[1][2], e)
  BY <1>1, FramedFirst
<1>4. m \in Nat /\ L \in 1..m /\ 1 \in 1..m
  <2>1. m \in Nat /\ m # 0
    BY SMT
  <2>2. L # 0
    BY SMT, <1>1, LengthsArePositive DEF LenOf
  <2> QED BY SMT, <1>1, <2>1, <2>2
<1> HIDE DEF m
<1>5. ASSUME NEW i \in 1..m
      PROVE  /\ i \in Int
             /\ (i \in 1..L /\ i <= m) \/ (i - L \in 1..(m - L) /\ L + (i - L) = i /\ (i - L) + L = i)
  BY SMT, <1>4
<1>6. ASSUME NEW i \in 1..(m - L)
      PROVE  /\ i \in Int /\ L + i \in 1..m /\ L + i = i + L /\ 1 < i + L /\ i + L # 1
  BY SMT, <1>4
<1>7. ASSUME NEW i \in HS, i # 1
      PROVE  i - L \in HT /\ i \in Int /\ 1 < i
  <2>1. i \in 1..m /\ s[i][1] = "avg" /\ s[i][3] = 1
    BY DEF m
  <2>2. CASE i \in 1..L /\ i <= m
    <3>1. s[i] = Byte(s[1][1], s[1][2], i)
      BY <1>3, <2>2
    <3>2. s[i][3] = i
      BY SMT, <3>1 DEF Byte
    <3> QED BY <1>7, <2>1, <3>2
  <2>3. CASE i - L \in 1..(m - L) /\ L + (i - L) = i
    <3>1. t[i - L] = s[i]
      BY <1>1, <2>3
    <3>2. i \in Int /\ 1 < i
      BY SMT, <1>4, <1>7, <2>1
    <3> QED BY <1>1, <2>1, <2>3, <3>1, <3>2
  <2> QED BY <1>5, <2>1, <2>2, <2>3
<1>8. ASSUME NEW i \in HT
      PROVE  /\ i + L \in HS /\ i \in Int /\ i + L # 1 /\ t[i] = s[i + L]
  <2>1. i \in 1..(m - L) /\ t[i] = s[L + i]
    BY <1>1
  <2>2. L + i \in 1..m /\ L + i = i + L
    BY <1>6, <2>1
  <2> QED BY <1>6, <2>1, <2>2 DEF m
<1>9. HS \subseteq Int /\ L \in Int
  <2>1. L \in Int
    BY SMT
  <2> QED BY <1>5, <2>1 DEF m
<1>10. 1 \in HS <=> s[1][1] = "avg"
  BY <1>3, <1>4 DEF m
<1> HIDE DEF HS, HT
<1>11. ASSUME s[1][1] = "avg"
       PROVE  /\ Headers(s)[1] = s[1][2].sum
              /\ \E g : Taken(Headers(s), g, 1) /\ Moved(g, Headers(t), L)
  <2> DEFINE g == [i \in HS \ {1} |-> Headers(s)[i]]
  <2>1. DOMAIN g = HS \ {1} /\ \A i \in HS \ {1} : g[i] = Headers(s)[i]
    OBVIOUS
  <2> HIDE DEF g
  <2>2. Taken(Headers(s), g, 1)
    <3>1. \A i \in HS \ {1} : 1 < i
      BY <1>7
    <3> QED BY <1>2, <1>9, <1>10, <1>11, <2>1, <3>1 DEF Taken
  <2>3. ASSUME NEW i \in HT PROVE i + L \in HS \ {1} /\ Headers(t)[i] = g[i + L]
    <3>1. i + L \in HS \ {1} /\ t[i] = s[i + L]
      BY <1>8
    <3> QED BY <1>2, <2>1, <3>1
  <2>4. Moved(g, Headers(t), L)
    BY <1>2, <1>7, <1>8, <1>9, <2>1, <2>3 DEF Moved
  <2> QED BY <1>2, <1>10, <1>11, <2>2, <2>4
<1>12. ASSUME s[1][1] # "avg"
       PROVE  Moved(Headers(s), Headers(t), L)
  <2>1. \A i \in HS : i # 1
    BY <1>10, <1>12
  <2>2. \A i \in HT : i + L \in HS /\ Headers(t)[i] = Headers(s)[i + L]
    BY <1>2, <1>8
  <2> QED BY <1>2, <1>7, <1>8, <1>9, <2>1, <2>2 DEF Moved
<1> QED BY <1>11, <1>12

\* nextSample() appends a sample to those scanned.
LEMMA AveragesAppend ==
    ASSUME NEW s \in Seq(Seq(ByteSet)), NEW b \in Seq(ByteSet)
    PROVE  /\ b[1][1] = "avg" =>
                 /\ Added(Averages(s), Averages(Append(s, b)), Len(s) + 1)
                 /\ Averages(Append(s, b))[Len(s) + 1] = b[1][2].sum
           /\ b[1][1] # "avg" => Moved(Averages(s), Averages(Append(s, b)), 0)
<1> DEFINE t == Append(s, b)
           m == Len(s)
           AS == {j \in 1..Len(s) : s[j][1][1] = "avg"}
           AT == {j \in 1..Len(t) : t[j][1][1] = "avg"}
<1>1. /\ m \in Nat /\ Len(t) = m + 1 /\ t[m + 1] = b /\ \A i \in 1..m : t[i] = s[i]
  BY SMT
<1>2. /\ DOMAIN Averages(s) = AS /\ DOMAIN Averages(t) = AT
      /\ \A i \in AS : Averages(s)[i] = s[i][1][2].sum
      /\ \A i \in AT : Averages(t)[i] = t[i][1][2].sum
  BY DEF Averages
<1> HIDE DEF t, m
<1>3. /\ \A i \in 1..m : i \in 1..(m + 1) /\ i \in Int /\ i < m + 1 /\ i + 0 = i /\ i - 0 = i
      /\ m + 1 \in 1..(m + 1) /\ m + 1 \notin 1..m /\ m + 1 \in Int /\ 0 \in Int
      /\ \A i \in 1..(m + 1) : i \in 1..m \/ i = m + 1
  BY SMT, <1>1
<1>4. AT = IF b[1][1] = "avg" THEN AS \cup {m + 1} ELSE AS
  <2>1. \A i \in 1..m : i \in AT <=> i \in AS
    BY <1>1, <1>3 DEF m
  <2>2. m + 1 \in AT <=> b[1][1] = "avg"
    BY <1>1, <1>3
  <2>3. AT \subseteq 1..(m + 1) /\ AS \subseteq 1..m
    BY <1>1 DEF m
  <2> HIDE DEF AS, AT
  <2>4. \A i : i \in AT <=> i \in AS \/ (i = m + 1 /\ b[1][1] = "avg")
    BY <1>3, <2>1, <2>2, <2>3
  <2> QED BY <2>4
<1>5. AS \subseteq 1..m
  BY DEF m
<1> HIDE DEF AS, AT
<1>6. \A i \in AS : Averages(t)[i] = Averages(s)[i]
  BY <1>1, <1>2, <1>4, <1>5
<1>7. ASSUME b[1][1] = "avg"
      PROVE  Added(Averages(s), Averages(t), m + 1) /\ Averages(t)[m + 1] = b[1][2].sum
  BY <1>1, <1>2, <1>3, <1>4, <1>5, <1>6, <1>7 DEF Added
<1>8. ASSUME b[1][1] # "avg" PROVE Moved(Averages(s), Averages(t), 0)
  BY <1>2, <1>3, <1>4, <1>5, <1>6, <1>8 DEF Moved
<1> QED BY <1>7, <1>8 DEF m, t

\* The sums of the bottom half: the spectra after c as far as d.
SumRun(s, c, d) == d = c + Len(s) /\ \A j \in 1..Len(s) : s[j][1] = c + j

\* The places hold the spectra one after the other: as far as a in the samples
\* scanned, as far as b in the bytes of the scanner, and so on.
Conserved(a, b, c, d) ==
    /\ Chain(ScannedSums, 0, a) /\ Chain(HeldSums, a, b) /\ Chain(StoredSums, b, c)
    /\ SumRun(BhSum, c, d) /\ Chain(RawSums, d, accepted)

\* The inductive invariant of SpectraConserved, beside IInv and FrameInv.
ChainInv ==
    upc # "closed" /\ ~broken => \E a, b, c, d \in Nat : Conserved(a, b, c, d)
ClosedInv == upc = "closed" => accepted = 0 /\ scanned = <<>>
HeadsInv ==
    /\ ipc = "head" => HeadOf("isr") = accepted + 1
    /\ bpc = "head" => HeadOf("avg").sum = bhd.sum
SpectraInv == ChainInv /\ ClosedInv /\ HeadsInv

\* The places in terms of sequences.
LEMMA StagesAre ==
    /\ ScannedSums = Averages(scanned)
    /\ HeldSums = Headers(Held)
    /\ StoredSums = SumsFrom(Contents(ring["avg"]), IF HeaderRead THEN 2 ELSE 1)
    /\ RawSums = RawFrom(Contents(ring["isr"]), IF bpc = "inc" THEN 2 ELSE 1)
  BY DEF ScannedSums, HeldSums, StoredSums, RawSums, Averages, Headers, Held, SumsFrom,
         RawFrom

\* Likewise after a step.
LEMMA StagesAreNext ==
    /\ ScannedSums' = Averages(scanned')
    /\ HeldSums' = Headers(Held')
    /\ StoredSums' = SumsFrom(Contents(ring'["avg"]), IF HeaderRead' THEN 2 ELSE 1)
    /\ RawSums' = RawFrom(Contents(ring'["isr"]), IF bpc' = "inc" THEN 2 ELSE 1)
  BY DEF ScannedSums, HeldSums, StoredSums, RawSums, Averages, Headers, Held, SumsFrom,
         RawFrom, Contents

\* The places after a step.
LEMMA ConservedNext ==
    ASSUME NEW a, NEW b, NEW c, NEW d,
           Chain(ScannedSums', 0, a), Chain(HeldSums', a, b), Chain(StoredSums', b, c),
           SumRun(BhSum', c, d), Chain(RawSums', d, accepted')
    PROVE  Conserved(a, b, c, d)'
  BY DEF Conserved, Chain, Run, From, To, SumRun

\* A step that leaves all places alone.
LEMMA ChainKept ==
    ASSUME ChainInv, upc' # "closed" /\ ~broken' => upc # "closed" /\ ~broken,
           ScannedSums' = ScannedSums, HeldSums' = HeldSums, StoredSums' = StoredSums,
           BhSum' = BhSum, RawSums' = RawSums, accepted' = accepted
    PROVE  ChainInv'
<1> SUFFICES ASSUME upc' # "closed", ~broken'
             PROVE  \E a, b, c, d \in Nat : Conserved(a, b, c, d)'
  BY DEF ChainInv
<1>1. PICK a \in Nat, b \in Nat, c \in Nat, d \in Nat : Conserved(a, b, c, d)
  BY DEF ChainInv
<1>2. Conserved(a, b, c, d)'
  BY <1>1, ConservedNext DEF Conserved
<1> QED BY <1>2

\* The reader is in the middle of no removal when it is woken.
LEMMA WokenUp ==
    ASSUME upc' = upc \/ wake_up
    PROVE  (upc' = "inc" <=> upc = "inc") /\ (upc' = "closed" <=> upc = "closed")
<1>1. CASE upc' = upc
  BY <1>1
<1>2. CASE wake_up
  BY SMT, <1>2 DEF wake_up, Woken
<1> QED BY <1>1, <1>2

\* The contents of the buffers.
LEMMA ContentsType ==
    ASSUME IInv
    PROVE  /\ \A r \in Rings : Contents(ring[r]) \in Seq(ItemOf(r))
           /\ \A r \in Rings : HasTail(ring[r]) =>
                 Contents(ring[r]) # <<>> /\ AtTail(ring[r]) = Contents(ring[r])[1]
           /\ "isr" \in Rings /\ "avg" \in Rings /\ "peak" \in Rings
<1>1. \A r \in Rings : Size(r) \in Nat /\ Size(r) > 1
         /\ ring[r] \in CircBufOf(Size(r), Element(r))
         /\ Contents(ring[r]) \in Seq(ItemOf(r))
  BY SizesOK DEF IInv, RingInv
<1>2. \A r \in Rings : HasTail(ring[r]) =>
         Contents(ring[r]) # <<>> /\ AtTail(ring[r]) = Contents(ring[r])[1]
  BY <1>1, IncrementTailRemoves
<1> QED BY <1>1, <1>2 DEF Rings, Out

\* The interrupt handler but for IsrHead: neither stores nor takes a spectrum.
LEMMA ChainIsr ==
    ASSUME IInv, ChainInv,
           InterruptMissed \/ Interrupt \/ ReadBoard \/ QueueWork \/ PeakHead \/ PeakWake
    PROVE  ChainInv'
<1>1. /\ UNCHANGED <<bpc, bhd, accepted, kind, bytesLeft, scanner>>
      /\ upc' = upc \/ wake_up
  BY DEF InterruptMissed, Interrupt, ReadBoard, QueueWork, PeakHead, PeakWake, work, user,
         driver
<1>2. /\ Contents(ring'["avg"]) = Contents(ring["avg"])
      /\ Contents(ring'["isr"]) = Contents(ring["isr"])
  <2>1. /\ "isr" \in Rings /\ "avg" \in Rings /\ "peak" \in Rings
        /\ "avg" # "isr" /\ "avg" # "peak" /\ "isr" # "peak"
        /\ ring = [r \in Rings |-> ring[r]] /\ RingInv
    BY DEF Rings, Out, IInv, RingInv
  <2>2. CASE Interrupt
    <3>1. ring'["avg"] = ring["avg"] /\ ring'["isr"] = WriteHead(ring["isr"], Unset("isr"))
      BY <2>1, <2>2 DEF Interrupt
    <3>2. Unset("isr") \in Element("isr")
      BY SMT, NumbersArePositive DEF Unset, Element
    <3> QED BY SMT, <2>1, <3>1, <3>2, Written
  <2>3. CASE ReadBoard
    <3>1. ring'["avg"] = ring["avg"] /\ ring'["isr"] = WriteHead(ring["isr"], accepted + 1)
      BY <2>1, <2>3 DEF ReadBoard
    <3>2. accepted + 1 \in Element("isr")
      BY SMT, <2>3, NumbersArePositive DEF ReadBoard, IInv, IsrInv, Element
    <3> QED BY SMT, <2>1, <3>1, <3>2, Written
  <2>4. CASE PeakHead
    BY <2>1, <2>4 DEF PeakHead
  <2>5. CASE InterruptMissed \/ QueueWork \/ PeakWake
    BY <2>5 DEF InterruptMissed, QueueWork, PeakWake, driver
  <2> QED BY <2>2, <2>3, <2>4, <2>5
<1>3. (upc' = "inc" <=> upc = "inc") /\ (upc' = "closed" <=> upc = "closed")
  BY <1>1, WokenUp
<1>4. HeaderRead' = HeaderRead /\ Held' = Held /\ scanned' = scanned /\ broken' = broken
  BY <1>1, <1>3 DEF HeaderRead, Held, scanner
<1>5. BhSum' = BhSum
  BY <1>1 DEF BhSum
<1> QED BY <1>1, <1>2, <1>3, <1>4, <1>5, StagesAre, StagesAreNext, ChainKept

\* A buffer whose first element is excluded has one.
LEMMA FirstFits ==
    ASSUME IInv, upc # "closed"
    PROVE  /\ (IF bpc = "inc" THEN 2 ELSE 1) \in {1, 2}
           /\ (IF bpc = "inc" THEN 2 ELSE 1) <= Len(Contents(ring["isr"])) + 1
           /\ (IF HeaderRead THEN 2 ELSE 1) \in {1, 2}
           /\ (IF HeaderRead THEN 2 ELSE 1) <= Len(Contents(ring["avg"])) + 1
<1>1. /\ bpc = "inc" => HasTail(ring["isr"])
      /\ HeaderRead => HasTail(ring["avg"])
  <2>1. bytesLeft["avg"] \in 1..(AvgLen - 1) => bytesLeft["avg"] > 0
    BY SMT, LengthsArePositive
  <2> QED BY <2>1 DEF IInv, BhInv, UserInv, HeaderRead, Out
<1>2. /\ Contents(ring["isr"]) \in Seq(ItemOf("isr"))
      /\ Contents(ring["avg"]) \in Seq(ItemOf("avg"))
      /\ HasTail(ring["isr"]) => Contents(ring["isr"]) # <<>>
      /\ HasTail(ring["avg"]) => Contents(ring["avg"]) # <<>>
  BY ContentsType
<1>3. ASSUME NEW S, NEW s \in Seq(S)
      PROVE  Len(s) \in Nat /\ 1 <= Len(s) + 1 /\ (s # <<>> => 2 <= Len(s) + 1)
  BY SMT
<1> QED BY <1>1, <1>2, <1>3

\* IsrHead puts a spectrum behind those stored.
LEMMA ChainIsrHead ==
    ASSUME IInv, ChainInv, HeadsInv, IsrHead
    PROVE  ChainInv'
<1> DEFINE m == IF bpc = "inc" THEN 2 ELSE 1
           s == Contents(ring["isr"])
           k == Len(s) + 1
<1>1. /\ ipc = "head" /\ ring' = [ring EXCEPT !["isr"] = INCREMENT_HEAD(@)]
      /\ accepted' = accepted + 1 /\ UNCHANGED <<bpc, bhd, upc, kind, bytesLeft, scanner>>
  BY DEF IsrHead, work, user
<1>2. HasHead(ring["isr"]) /\ HeadOf("isr") \in ItemOf("isr") /\ RingInv
      /\ HeadOf("isr") = accepted + 1 /\ accepted \in Nat
  BY <1>1 DEF IInv, IsrInv, HeadsInv
<1>3. "isr" \in Rings /\ "avg" \in Rings /\ s \in Seq(ItemOf("isr"))
  BY ContentsType
<1>4. Contents(INCREMENT_HEAD(ring["isr"])) = Append(s, HeadOf("isr"))
  BY <1>2, <1>3, HeadMoved
<1>5. ring'["isr"] = INCREMENT_HEAD(ring["isr"]) /\ ring'["avg"] = ring["avg"]
  BY <1>1, <1>2, <1>3 DEF RingInv
<1> SUFFICES ASSUME upc # "closed", ~broken
             PROVE  \E a, b, c, d \in Nat : Conserved(a, b, c, d)'
  BY <1>1 DEF ChainInv, scanner
<1>6. PICK a \in Nat, b \in Nat, c \in Nat, d \in Nat : Conserved(a, b, c, d)
  BY DEF ChainInv
<1>7. /\ HeaderRead' = HeaderRead /\ Held' = Held /\ scanned' = scanned /\ BhSum' = BhSum
  BY <1>1 DEF HeaderRead, Held, scanner, BhSum
<1>8. /\ ScannedSums' = ScannedSums /\ HeldSums' = HeldSums /\ StoredSums' = StoredSums
  BY <1>5, <1>7, StagesAre, StagesAreNext
<1>9. RawSums = RawFrom(s, m) /\ RawSums' = RawFrom(Append(s, accepted + 1), m)
  <2>1. RawSums = RawFrom(s, m)
    BY StagesAre
  <2>2. RawSums' = RawFrom(Contents(ring'["isr"]), m)
    BY <1>1, StagesAreNext
  <2> HIDE DEF m, s
  <2> QED BY <1>2, <1>4, <1>5, <2>1, <2>2
<1>10. m \in {1, 2} /\ m <= k
  BY FirstFits
<1> HIDE DEF m, s
<1>11. /\ Added(RawSums, RawSums', k) /\ RawSums'[k] = <<<<accepted + 1, 0>>>>
  BY <1>2, <1>3, <1>9, <1>10, RawAppend
<1> HIDE DEF k
<1>12. Run(<<<<accepted + 1, 0>>>>) /\ From(<<<<accepted + 1, 0>>>>) = accepted
       /\ To(<<<<accepted + 1, 0>>>>) = accepted + 1
  BY SMT, <1>2 DEF Run, From, To
<1>13. Chain(RawSums', d, accepted + 1)
  BY <1>2, <1>6, <1>11, <1>12, ChainAdd DEF Conserved
<1>14. Conserved(a, b, c, d)'
  BY <1>1, <1>6, <1>7, <1>8, <1>13, ConservedNext DEF Conserved
<1> QED BY <1>14

\* The steps of the bottom half that move no spectrum.
LEMMA ChainBh ==
    ASSUME IInv, ChainInv,
           BottomHalfStart \/ BottomHalfHead \/ BottomHalfMissed \/ BottomHalfFill
              \/ BottomHalfWake \/ BottomHalfEnd \/ (BottomHalfSum /\ ~HasTail(ring["isr"]))
    PROVE  ChainInv'
<1>1. /\ UNCHANGED <<accepted, kind, bytesLeft, scanner>>
      /\ upc' = upc \/ wake_up
  BY DEF BottomHalfStart, BottomHalfHead, BottomHalfMissed, BottomHalfFill, BottomHalfWake,
         BottomHalfEnd, BottomHalfSum, user, driver
<1>2. /\ Contents(ring'["avg"]) = Contents(ring["avg"])
      /\ ring'["isr"] = ring["isr"]
  <2>1. /\ "isr" \in Rings /\ "avg" \in Rings /\ "avg" # "isr"
        /\ ring = [r \in Rings |-> ring[r]] /\ RingInv
    BY DEF Rings, Out, IInv, RingInv
  <2>2. CASE BottomHalfFill
    <3> DEFINE x == [sum |-> bhd.sum, timetag |-> bhd.timetag]
    <3>1. ring'["isr"] = ring["isr"] /\ ring'["avg"] = WriteHead(ring["avg"], x)
      BY <2>1, <2>2 DEF BottomHalfFill
    <3>2. x \in Element("avg")
      BY <2>2 DEF BottomHalfFill, IInv, BhInv, Sums, Element, Average
    <3> HIDE DEF x
    <3> QED BY SMT, <2>1, <3>1, <3>2, Written
  <2>3. CASE BottomHalfHead
    <3>1. \/ ring' = ring
          \/ ring' = [ring EXCEPT !["avg"] = WriteHead(@, Unset("avg"))]
      BY <2>3 DEF BottomHalfHead
    <3>2. CASE ring' = ring
      BY <3>2
    <3>3. CASE ring' = [ring EXCEPT !["avg"] = WriteHead(@, Unset("avg"))]
      <4>1. ring'["isr"] = ring["isr"] /\ ring'["avg"] = WriteHead(ring["avg"], Unset("avg"))
        BY <2>1, <3>3
      <4>2. Unset("avg") \in Element("avg")
        BY SMT, NumbersArePositive DEF Unset, Element, Average
      <4> QED BY SMT, <2>1, <4>1, <4>2, Written
    <3> QED BY <3>1, <3>2, <3>3
  <2>4. CASE BottomHalfStart \/ BottomHalfMissed \/ BottomHalfWake \/ BottomHalfEnd
                \/ BottomHalfSum
    BY <2>4 DEF BottomHalfStart, BottomHalfMissed, BottomHalfWake, BottomHalfEnd,
                BottomHalfSum, driver
  <2> QED BY <2>2, <2>3, <2>4
<1>3. (upc' = "inc" <=> upc = "inc") /\ (upc' = "closed" <=> upc = "closed")
  BY <1>1, WokenUp
<1>4. HeaderRead' = HeaderRead /\ Held' = Held /\ scanned' = scanned /\ broken' = broken
  BY <1>1, <1>3 DEF HeaderRead, Held, scanner
<1>5. BhSum' = BhSum /\ bpc # "inc" /\ bpc' # "inc"
  <2>1. CASE BottomHalfWake
    BY SMT, <2>1 DEF BhSum, NoSums, BottomHalfWake
  <2>2. CASE BottomHalfHead
    BY <2>2 DEF BhSum, BottomHalfHead
  <2>3. CASE BottomHalfStart \/ BottomHalfMissed \/ BottomHalfFill \/ BottomHalfEnd
    BY <2>3 DEF BhSum, BottomHalfStart, BottomHalfMissed, BottomHalfFill, BottomHalfEnd
  <2>4. CASE BottomHalfSum /\ ~HasTail(ring["isr"])
    BY <2>4 DEF BhSum, BottomHalfSum
  <2> QED BY <2>1, <2>2, <2>3, <2>4
<1> QED BY <1>1, <1>2, <1>3, <1>4, <1>5, StagesAre, StagesAreNext, ChainKept

\* One spectrum more in a sum.
LEMMA SumRunAppend ==
    ASSUME NEW s \in Seq((1..MaxIrq) \X Nat), NEW c \in Nat, NEW d \in Nat,
           SumRun(s, c, d), NEW n, n = d + 1, NEW e
    PROVE  SumRun(Append(s, <<n, e>>), c, n)
<1>1. /\ Len(s) \in Nat /\ Len(Append(s, <<n, e>>)) = Len(s) + 1
      /\ Append(s, <<n, e>>)[Len(s) + 1] = <<n, e>>
      /\ \A j \in 1..Len(s) : Append(s, <<n, e>>)[j] = s[j]
  BY SMT
<1>2. d = c + Len(s) /\ \A j \in 1..Len(s) : s[j][1] = c + j
  BY DEF SumRun
<1>3. \A j \in 1..(Len(s) + 1) : j \in 1..Len(s) \/ j = Len(s) + 1
  BY SMT, <1>1
<1>4. n = c + (Len(s) + 1)
  BY SMT, <1>1, <1>2
<1>5. <<n, e>>[1] = n
  BY SMT
<1>6. ASSUME NEW j \in 1..(Len(s) + 1) PROVE Append(s, <<n, e>>)[j][1] = c + j
  <2>1. CASE j \in 1..Len(s)
    BY <1>1, <1>2, <2>1
  <2>2. CASE j = Len(s) + 1
    BY <1>1, <1>4, <1>5, <2>2
  <2> QED BY <1>3, <2>1, <2>2
<1> QED BY <1>1, <1>4, <1>6 DEF SumRun

\* BottomHalfSum adds the first spectrum of the queue to the sums.
LEMMA ChainSum ==
    ASSUME IInv, ChainInv, BottomHalfSum, HasTail(ring["isr"])
    PROVE  ChainInv'
<1> DEFINE s == Contents(ring["isr"])
           n == AtTail(ring["isr"])
<1>1. /\ bpc = "tail" /\ bpc' = "inc" /\ bhd'.sum = Append(bhd.sum, <<n, nshift>>)
      /\ UNCHANGED <<ring, accepted, upc, kind, bytesLeft, scanner>>
  BY SMT DEF BottomHalfSum, driver, user
<1>2. s \in Seq(ItemOf("isr")) /\ s # <<>> /\ n = s[1]
  BY ContentsType
<1>3. n \in 1..MaxIrq /\ bhd.sum \in Seq((1..MaxIrq) \X Nat)
  <2>1. n \in ItemOf("isr")
    BY SMT, <1>2
  <2> QED BY <2>1 DEF ItemOf, IInv, BhInv, Sums
<1> HIDE DEF s, n
<1> SUFFICES ASSUME upc # "closed", ~broken
             PROVE  \E a, b, c, d \in Nat : Conserved(a, b, c, d)'
  BY <1>1 DEF ChainInv, scanner
<1>4. PICK a \in Nat, b \in Nat, c \in Nat, d \in Nat : Conserved(a, b, c, d)
  BY DEF ChainInv
<1>5. /\ HeaderRead' = HeaderRead /\ Held' = Held /\ scanned' = scanned
      /\ BhSum = bhd.sum /\ BhSum' = Append(bhd.sum, <<n, nshift>>)
  BY <1>1 DEF HeaderRead, Held, scanner, BhSum
<1>6. /\ ScannedSums' = ScannedSums /\ HeldSums' = HeldSums /\ StoredSums' = StoredSums
  BY <1>1, <1>5, StagesAre, StagesAreNext
<1>7. RawSums = RawFrom(s, 1) /\ RawSums' = RawFrom(s, 2)
  BY <1>1, StagesAre, StagesAreNext DEF s
<1>8. Taken(RawSums, RawSums', 1) /\ RawSums[1] = <<<<n, 0>>>>
  BY <1>2, <1>7, RawTake
<1>9. From(<<<<n, 0>>>>) = n - 1 /\ To(<<<<n, 0>>>>) = n /\ n \in Nat
  BY SMT, <1>3, NumbersArePositive DEF From, To
<1>10. accepted \in Nat /\ Chain(RawSums, d, accepted) /\ SumRun(bhd.sum, c, d)
  BY <1>4, <1>5 DEF Conserved, IInv, IsrInv
<1>11. n - 1 = d /\ Chain(RawSums', n, accepted)
  <2>1. From(RawSums[1]) = d /\ Chain(RawSums', To(RawSums[1]), accepted)
    BY <1>8, <1>10, ChainTake
  <2> QED BY <1>8, <1>9, <2>1
<1>12. n = d + 1
  BY SMT, <1>9, <1>11
<1>13. SumRun(BhSum', c, n)
  BY <1>3, <1>5, <1>10, <1>12, SumRunAppend
<1>14. PICK e \in Nat : e = n
  BY <1>9
<1>15. Conserved(a, b, c, e)'
  BY <1>1, <1>4, <1>6, <1>11, <1>13, <1>14, ConservedNext DEF Conserved
<1> QED BY <1>15

\* BottomHalfTail removes the spectrum that is already summed.
LEMMA ChainBhTail ==
    ASSUME IInv, ChainInv, BottomHalfTail
    PROVE  ChainInv'
<1> DEFINE s == Contents(ring["isr"])
<1>1. /\ bpc = "inc" /\ bpc' = "test" /\ ring' = [ring EXCEPT !["isr"] = INCREMENT_TAIL(@)]
      /\ UNCHANGED <<accepted, bhd, upc, kind, bytesLeft, scanner>>
  BY DEF BottomHalfTail, user
<1>2. /\ s \in Seq(ItemOf("isr")) /\ "isr" \in Rings /\ "avg" \in Rings
      /\ HasTail(ring["isr"]) /\ s # <<>> /\ RingInv
  BY <1>1, ContentsType DEF IInv, BhInv
<1>3. Contents(INCREMENT_TAIL(ring["isr"])) = Tail(s)
  BY <1>2, TailMoved
<1>4. ring'["isr"] = INCREMENT_TAIL(ring["isr"]) /\ ring'["avg"] = ring["avg"]
  BY <1>1, <1>2 DEF RingInv
<1> SUFFICES ASSUME upc # "closed", ~broken
             PROVE  \E a, b, c, d \in Nat : Conserved(a, b, c, d)'
  BY <1>1 DEF ChainInv, scanner
<1>5. PICK a \in Nat, b \in Nat, c \in Nat, d \in Nat : Conserved(a, b, c, d)
  BY DEF ChainInv
<1>6. /\ HeaderRead' = HeaderRead /\ Held' = Held /\ scanned' = scanned /\ BhSum' = BhSum
  BY <1>1 DEF HeaderRead, Held, scanner, BhSum
<1>7. /\ ScannedSums' = ScannedSums /\ HeldSums' = HeldSums /\ StoredSums' = StoredSums
  BY <1>4, <1>6, StagesAre, StagesAreNext
<1>8. RawSums = RawFrom(s, 2) /\ RawSums' = RawFrom(Tail(s), 1)
  BY <1>1, <1>3, <1>4, StagesAre, StagesAreNext
<1> HIDE DEF s
<1>9. Moved(RawSums, RawSums', 1)
  BY <1>2, <1>8, RawMove
<1>10. Chain(RawSums', d, accepted)
  BY <1>5, <1>9, ChainMoved DEF Conserved
<1>11. Conserved(a, b, c, d)'
  BY <1>1, <1>5, <1>6, <1>7, <1>10, ConservedNext DEF Conserved
<1> QED BY <1>11

\* BottomHalfPut stores the sums as an average.
LEMMA ChainPut ==
    ASSUME IInv, ChainInv, HeadsInv, BottomHalfPut
    PROVE  ChainInv'
<1> DEFINE s == Contents(ring["avg"])
           m == IF HeaderRead THEN 2 ELSE 1
           k == Len(s) + 1
           x == HeadOf("avg")
<1>1. /\ bpc = "head" /\ bpc' = "wake" /\ ring' = [ring EXCEPT !["avg"] = INCREMENT_HEAD(@)]
      /\ UNCHANGED <<accepted, bhd, upc, kind, bytesLeft, scanner>>
  BY DEF BottomHalfPut, user
<1>2. /\ s \in Seq(ItemOf("avg")) /\ "isr" \in Rings /\ "avg" \in Rings /\ RingInv
      /\ HasHead(ring["avg"]) /\ x \in ItemOf("avg") /\ x.sum = bhd.sum
      /\ bhd.sum # <<>> /\ bhd.sum \in Seq((1..MaxIrq) \X Nat)
  BY <1>1, ContentsType DEF IInv, BhInv, HeadsInv, Sums
<1>3. Contents(INCREMENT_HEAD(ring["avg"])) = Append(s, x)
  BY <1>2, HeadMoved
<1>4. ring'["avg"] = INCREMENT_HEAD(ring["avg"]) /\ ring'["isr"] = ring["isr"]
  BY <1>1, <1>2 DEF RingInv
<1> SUFFICES ASSUME upc # "closed", ~broken
             PROVE  \E a, b, c, d \in Nat : Conserved(a, b, c, d)'
  BY <1>1 DEF ChainInv, scanner
<1>5. PICK a \in Nat, b \in Nat, c \in Nat, d \in Nat : Conserved(a, b, c, d)
  BY DEF ChainInv
<1>6. /\ HeaderRead' = HeaderRead /\ Held' = Held /\ scanned' = scanned
      /\ BhSum = bhd.sum /\ BhSum' = <<>>
  BY <1>1 DEF HeaderRead, Held, scanner, BhSum
<1>7. /\ ScannedSums' = ScannedSums /\ HeldSums' = HeldSums /\ RawSums' = RawSums
  BY <1>1, <1>4, <1>6, StagesAre, StagesAreNext
<1>8. StoredSums = SumsFrom(s, m) /\ StoredSums' = SumsFrom(Append(s, x), m)
  <2>1. StoredSums = SumsFrom(s, m)
    BY StagesAre
  <2>2. StoredSums' = SumsFrom(Contents(ring'["avg"]), m)
    BY <1>6, StagesAreNext
  <2> HIDE DEF m, s, x
  <2> QED BY <1>3, <1>4, <2>1, <2>2
<1>9. m \in {1, 2} /\ m <= k
  BY FirstFits
<1> HIDE DEF m, s, x
<1>10. Added(StoredSums, StoredSums', k) /\ StoredSums'[k] = bhd.sum
  BY <1>2, <1>8, <1>9, SumsAppend
<1> HIDE DEF k
<1>11. SumRun(bhd.sum, c, d)
  BY <1>5, <1>6 DEF Conserved
<1>12. Run(bhd.sum) /\ From(bhd.sum) = c /\ To(bhd.sum) = d
  <2> DEFINE t == bhd.sum
  <2>1. t \in Seq((1..MaxIrq) \X Nat) /\ t # <<>> /\ SumRun(t, c, d)
    BY <1>2, <1>11
  <2> HIDE DEF t
  <2>2. t \in Seq(Nat \X Nat) /\ 1 \in 1..Len(t) /\ Len(t) \in Nat
    BY SMT, <2>1, NumbersArePositive
  <2>3. d = c + Len(t) /\ \A j \in 1..Len(t) : t[j][1] = c + j
    BY <2>1 DEF SumRun
  <2>4. From(t) = c
    BY SMT, <2>2, <2>3 DEF From
  <2>5. Run(t) /\ To(t) = d
    BY <2>1, <2>2, <2>3, <2>4 DEF Run, To
  <2> QED BY <2>4, <2>5 DEF t
<1>13. Chain(StoredSums', b, d)
  BY <1>5, <1>10, <1>12, ChainAdd DEF Conserved
<1>14. SumRun(BhSum', d, d)
  BY SMT, <1>6 DEF SumRun
<1>15. Conserved(a, b, d, d)'
  BY <1>1, <1>5, <1>7, <1>13, <1>14, ConservedNext DEF Conserved
<1> QED BY <1>15

\* The same sums, at other positions perhaps.
SameSums(f, g) == g = f \/ \E d : Moved(f, g, d)

\* A step that takes no sum from one place to another.
LEMMA ChainSame ==
    ASSUME ChainInv, upc' # "closed" /\ ~broken' => upc # "closed" /\ ~broken,
           SameSums(ScannedSums, ScannedSums'), SameSums(HeldSums, HeldSums'),
           SameSums(StoredSums, StoredSums'),
           BhSum' = BhSum, RawSums' = RawSums, accepted' = accepted
    PROVE  ChainInv'
<1> SUFFICES ASSUME upc' # "closed", ~broken'
             PROVE  \E a, b, c, d \in Nat : Conserved(a, b, c, d)'
  BY DEF ChainInv
<1>1. PICK a \in Nat, b \in Nat, c \in Nat, d \in Nat : Conserved(a, b, c, d)
  BY DEF ChainInv
<1>2. ASSUME NEW f, NEW g, SameSums(f, g), NEW u, NEW v, Chain(f, u, v)
      PROVE  Chain(g, u, v)
  BY <1>2, ChainMoved DEF SameSums
<1>3. Chain(ScannedSums', 0, a) /\ Chain(HeldSums', a, b) /\ Chain(StoredSums', b, c)
  BY <1>1, <1>2 DEF Conserved
<1>4. Conserved(a, b, c, d)'
  BY <1>1, <1>3, ConservedNext DEF Conserved
<1> QED BY <1>4

\* The steps of the reader that move no spectrum.
LEMMA ChainUser ==
    ASSUME IInv, FrameInv, ChainInv,
           OpenFails \/ OpenBusy \/ setNAvg \/ SetNPeaks \/ lams_poll \/ readBuffer
              \/ lams_read \/ Signal \/ Close \/ ReadGetTail \/ UNCHANGED vars
    PROVE  ChainInv'
<1>1. /\ UNCHANGED <<ring, accepted, bpc, bhd, osamp, buffer, scanned>>
      /\ upc' # "closed" /\ ~broken' => upc # "closed" /\ ~broken
  <2>1. CASE Close
    BY <2>1 DEF Close, work
  <2>2. CASE OpenFails \/ OpenBusy \/ setNAvg \/ SetNPeaks \/ lams_poll \/ readBuffer
                \/ lams_read \/ Signal \/ ReadGetTail \/ UNCHANGED vars
    <3>1. UNCHANGED <<ring, accepted, bpc, bhd, osamp, buffer, scanned, broken>>
      BY <2>2 DEF OpenFails, OpenBusy, setNAvg, SetNPeaks, lams_poll, readBuffer,
                  lams_read, Signal, ReadGetTail, vars, driver, work, user, scanner
    <3>2. upc = "closed" => upc' = "closed"
      <4>1. CASE Signal
        BY SMT, <4>1 DEF Signal, Woken
      <4>2. CASE OpenFails \/ OpenBusy \/ setNAvg \/ SetNPeaks \/ lams_poll \/ readBuffer
                    \/ lams_read \/ ReadGetTail \/ UNCHANGED vars
        BY <4>2 DEF OpenFails, OpenBusy, setNAvg, SetNPeaks, lams_poll, readBuffer,
                    lams_read, ReadGetTail, vars, user
      <4> QED BY <2>2, <4>1, <4>2
    <3> QED BY <3>1, <3>2
  <2> QED BY <2>1, <2>2
<1>2. HeaderRead' = HeaderRead
  <2>1. CASE ReadGetTail
    <3>1. /\ upc = "tail" /\ upc' \in {"copy", "scan"} /\ bytesLeft[kind] = 0
          /\ bytesLeft \in [Out -> Nat] /\ kind \in Out
          /\ bytesLeft' = bytesLeft \/ bytesLeft' = [bytesLeft EXCEPT ![kind] = LenOf(kind)]
      BY <2>1 DEF ReadGetTail, ReadEnds, FrameInv, IInv, UserInv
    <3>2. 0 \notin 1..(AvgLen - 1) /\ AvgLen \notin 1..(AvgLen - 1)
      BY SMT, LengthsArePositive
    <3>3. bytesLeft'["avg"] = bytesLeft["avg"]
             \/ (bytesLeft["avg"] = 0 /\ bytesLeft'["avg"] = AvgLen)
      BY <3>1 DEF LenOf, Out
    <3> QED BY <3>1, <3>2, <3>3 DEF HeaderRead
  <2>2. CASE Close
    BY <2>2 DEF Close, HeaderRead
  <2>3. CASE UNCHANGED vars
    BY <2>3 DEF HeaderRead, vars, user
  <2>4. CASE OpenFails \/ OpenBusy \/ setNAvg \/ SetNPeaks \/ lams_poll \/ readBuffer
                \/ lams_read \/ Signal
    <3>1. UNCHANGED <<kind, bytesLeft>>
      BY <2>4 DEF OpenFails, OpenBusy, setNAvg, SetNPeaks, lams_poll, readBuffer,
                  lams_read, Signal
    <3>2. CASE OpenFails \/ OpenBusy \/ setNAvg \/ SetNPeaks \/ lams_poll \/ readBuffer
                \/ lams_read
      BY <3>1, <3>2 DEF HeaderRead, OpenFails, OpenBusy, setNAvg, SetNPeaks, lams_poll,
                        readBuffer, lams_read
    <3>3. CASE Signal
      <4>1. upc \in {"asleep", "polling"} /\ upc' = "idle"
        BY SMT, <3>3 DEF Signal, Woken
      <4> QED BY <3>1, <4>1 DEF HeaderRead
    <3> QED BY <2>4, <3>2, <3>3
  <2> QED BY <2>1, <2>2, <2>3, <2>4
<1>3. Held' = Held /\ BhSum' = BhSum
  BY <1>1 DEF Held, BhSum
<1> QED BY <1>1, <1>2, <1>3, StagesAre, StagesAreNext, ChainKept

\* ReadIncTail removes the sample that the scanner has in whole.
LEMMA ChainIncTail ==
    ASSUME IInv, ChainInv, ReadIncTail
    PROVE  ChainInv'
<1>1. /\ upc = "inc" /\ upc' = "tail" /\ ring' = [ring EXCEPT ![kind] = INCREMENT_TAIL(@)]
      /\ UNCHANGED <<accepted, bpc, bhd, kind, bytesLeft, osamp, buffer, scanned, broken>>
  BY DEF ReadIncTail, work, scanner
<1>2. /\ kind \in Out /\ bytesLeft[kind] = 0 /\ HasTail(ring[kind]) /\ RingInv
      /\ kind \in Rings /\ "isr" \in Rings /\ "avg" \in Rings /\ kind # "isr"
  BY <1>1 DEF IInv, UserInv, Out, Rings
<1>3. /\ ring'[kind] = INCREMENT_TAIL(ring[kind])
      /\ \A r \in Rings : r # kind => ring'[r] = ring[r]
  BY <1>1, <1>2 DEF RingInv
<1>4. Held' = Held /\ BhSum' = BhSum
  BY <1>1 DEF Held, BhSum
<1>5. ScannedSums' = ScannedSums /\ HeldSums' = HeldSums /\ RawSums' = RawSums
  BY <1>1, <1>2, <1>3, <1>4, StagesAre, StagesAreNext
<1>6. SameSums(StoredSums, StoredSums')
  <2>1. CASE kind = "avg"
    <3> DEFINE s == Contents(ring["avg"])
    <3>1. s \in Seq(ItemOf("avg")) /\ s # <<>>
      BY <1>2, <2>1, ContentsType
    <3>2. Contents(ring'["avg"]) = Tail(s)
      BY <1>2, <1>3, <2>1, TailMoved
    <3>3. 0 \notin 1..(AvgLen - 1)
      BY SMT, LengthsArePositive
    <3>4. HeaderRead /\ ~HeaderRead'
      BY <1>1, <1>2, <2>1, <3>3 DEF HeaderRead
    <3>5. StoredSums = SumsFrom(s, 2) /\ StoredSums' = SumsFrom(Tail(s), 1)
      BY <3>2, <3>4, StagesAre, StagesAreNext
    <3> HIDE DEF s
    <3>6. Moved(StoredSums, StoredSums', 1)
      BY <3>1, <3>5, SumsMove
    <3> QED BY <3>6 DEF SameSums
  <2>2. CASE kind # "avg"
    <3>1. HeaderRead' = HeaderRead
      BY <1>1, <2>2 DEF HeaderRead
    <3>2. StoredSums' = StoredSums
      BY <1>2, <1>3, <2>2, <3>1, StagesAre, StagesAreNext
    <3> QED BY <3>2 DEF SameSums
  <2> QED BY <2>1, <2>2
<1> QED BY <1>1, <1>4, <1>5, <1>6, ChainSame DEF SameSums

\* CopyToUser copies a header, with which an average passes to the scanner, or more
\* of a sample of which the header is copied.
LEMMA ChainCopy ==
    ASSUME IInv, FrameInv, ChainInv, CopyToUser
    PROVE  ChainInv'
<1> DEFINE n == IF bytesLeft[kind] < count THEN bytesLeft[kind] ELSE count
           left == bytesLeft[kind] - n
           x == AtTail(ring[kind])
           p == samplePtr(kind)
<1>1. /\ upc = "copy" /\ bytesLeft' = [bytesLeft EXCEPT ![kind] = left]
      /\ ~broken' => ~broken
      /\ \/ left > 0 /\ ReadEnds(count - n)
         \/ /\ ~(left > 0) /\ kind' = kind
            /\ upc' = IF n > 0 THEN "inc" ELSE "tail"
      /\ UNCHANGED <<ring, accepted, bpc, bhd, scanned>>
  BY DEF CopyToUser, driver, work
<1>2. /\ kind \in Out /\ bytesLeft[kind] \in Nat /\ count \in Nat
      /\ bytesLeft[kind] <= LenOf(kind) /\ LenOf(kind) \in Nat
      /\ bytesLeft \in [Out -> Nat] /\ "avg" \in Out
  BY LengthsArePositive DEF IInv, UserInv, LenOf, Out
<1>3. /\ n \in Nat /\ left \in Nat /\ p \in Nat
      /\ (left > 0 => count - n = 0 /\ ~(count - n > 0))
      /\ (n = 0 => left = bytesLeft[kind] /\ ~(n > 0))
      /\ (n # 0 => /\ n > 0 /\ bytesLeft[kind] > 0
                   /\ left > 0 => left \in 1..(LenOf(kind) - 1)
                   /\ p # 0 <=> bytesLeft[kind] \in 1..(LenOf(kind) - 1))
  BY SMT, <1>2 DEF samplePtr
<1>4. Held \in Seq(ByteSet) /\ Extends(Held, Held', kind, x, p, n)
  BY CopyExtends
<1> HIDE DEF n, left, p, x
<1>5. upc' # "closed" /\ BhSum' = BhSum
  BY <1>1 DEF ReadEnds, BhSum
<1>6. ScannedSums' = ScannedSums /\ RawSums' = RawSums
  BY <1>1, StagesAre, StagesAreNext
<1>7. HeldSums = Headers(Held) /\ HeldSums' = Headers(Held')
  BY StagesAre, StagesAreNext
<1>8. HeaderRead <=> bytesLeft["avg"] \in 1..(AvgLen - 1)
  BY <1>1 DEF HeaderRead
<1>9. CASE kind # "avg" \/ p # 0 \/ n = 0
  <2>1. Moved(HeldSums, HeldSums', 0)
    BY <1>2, <1>3, <1>4, <1>7, <1>9, HeadersExtend
  <2>2. HeaderRead' <=> HeaderRead
    <3>1. CASE kind # "avg"
      <4>1. kind = "peak" /\ bytesLeft["avg"] = 0
        BY <1>2, <3>1 DEF Out, FrameInv
      <4>2. bytesLeft'["avg"] = bytesLeft["avg"]
        BY <1>1, <1>2, <3>1
      <4>3. ~(upc' = "inc" /\ kind' = "avg")
        BY <1>1, <4>1 DEF ReadEnds
      <4> QED BY <1>8, <4>2, <4>3 DEF HeaderRead
    <3>2. CASE n = 0
      <4>1. bytesLeft' = bytesLeft
        BY <1>1, <1>2, <1>3, <3>2
      <4>2. upc' # "inc"
        BY <1>1, <1>3, <3>2 DEF ReadEnds
      <4> QED BY <1>8, <4>1, <4>2 DEF HeaderRead
    <3>3. CASE kind = "avg" /\ n # 0 /\ p # 0
      <4>1. HeaderRead
        BY <1>3, <1>8, <3>3 DEF LenOf
      <4>2. HeaderRead'
        BY <1>1, <1>2, <1>3, <3>3 DEF HeaderRead, LenOf
      <4> QED BY <4>1, <4>2
    <3> QED BY <1>9, <3>1, <3>2, <3>3
  <2>3. StoredSums' = StoredSums
    BY <1>1, <2>2, StagesAre, StagesAreNext
  <2> QED BY <1>1, <1>5, <1>6, <2>1, <2>3, ChainSame DEF SameSums
<1>10. CASE kind = "avg" /\ p = 0 /\ n # 0
  <2> DEFINE s == Contents(ring["avg"])
  <2>1. ~HeaderRead /\ HeaderRead'
    BY <1>1, <1>2, <1>3, <1>8, <1>10 DEF HeaderRead, LenOf
  <2>2. HasTail(ring["avg"])
    BY <1>1, <1>2, <1>3, <1>10 DEF IInv, UserInv
  <2>3. s \in Seq(ItemOf("avg")) /\ s # <<>> /\ x = s[1]
    BY <1>10, <2>2, ContentsType DEF x
  <2>4. StoredSums = SumsFrom(s, 1) /\ StoredSums' = SumsFrom(s, 2)
    BY <1>1, <2>1, StagesAre, StagesAreNext
  <2> HIDE DEF s
  <2>5. Taken(StoredSums, StoredSums', 1) /\ StoredSums[1] = x.sum
    BY <2>3, <2>4, SumsTake
  <2> DEFINE k == Len(Held) + 1
  <2>6. Added(HeldSums, HeldSums', k) /\ HeldSums'[k] = x.sum
    BY <1>2, <1>3, <1>4, <1>7, <1>10, HeadersExtend
  <2> HIDE DEF k
  <2> SUFFICES ASSUME upc' # "closed", ~broken'
               PROVE  \E a, b, c, d \in Nat : Conserved(a, b, c, d)'
    BY DEF ChainInv
  <2>7. PICK a \in Nat, b \in Nat, c \in Nat, d \in Nat : Conserved(a, b, c, d)
    BY <1>1 DEF ChainInv
  <2>8. /\ Run(x.sum) /\ From(x.sum) = b
        /\ To(x.sum) \in Nat /\ Chain(StoredSums', To(x.sum), c)
    BY <2>5, <2>7, ChainTake DEF Conserved
  <2>9. PICK e \in Nat : e = To(x.sum)
    BY <2>8
  <2>10. Chain(HeldSums', a, e)
    BY <2>6, <2>7, <2>8, <2>9, ChainAdd DEF Conserved
  <2>11. Conserved(a, e, c, d)'
    BY <1>1, <1>5, <1>6, <2>7, <2>8, <2>9, <2>10, ConservedNext DEF Conserved
  <2> QED BY <2>11
<1> QED BY <1>2, <1>9, <1>10

\* nextSample() moves the first sample from the bytes of the scanner to the samples.
LEMMA ChainScan ==
    ASSUME IInv, FrameInv, ChainInv, nextSample
    PROVE  ChainInv'
<1> DEFINE len == IF Held = <<>> THEN 0 ELSE LenOf(Held[1][1])
           rest == SubSeq(Held, len + 1, Len(Held))
           first == SubSeq(Held, 1, len)
<1>1. /\ upc = "scan" /\ upc' \in {"lost", "idle", "scan"}
      /\ UNCHANGED <<ring, accepted, bpc, bhd, kind, bytesLeft, broken>>
      /\ \/ UNCHANGED <<osamp, buffer, scanned>>
         \/ osamp' = Held /\ buffer' = <<>> /\ scanned' = scanned
         \/ /\ Held # <<>> /\ ~(Len(Held) < len) /\ scanned' = Append(scanned, first)
            /\ osamp' = <<>> /\ buffer' = rest
  BY DEF nextSample, driver, work, Held
<1>2. Held \in Seq(ByteSet) /\ len \in Nat
  <2>1. Held \in Seq(ByteSet)
    BY HeldType DEF IInv
  <2>2. \A k : LenOf(k) \in Nat
    BY LengthsArePositive DEF LenOf
  <2>3. 0 \in Nat
    BY SMT
  <2> QED BY <2>1, <2>2, <2>3
<1> SUFFICES ASSUME ~broken, ~broken' PROVE ChainInv'
  BY <1>1 DEF ChainInv
<1>3. BhSum' = BhSum /\ (HeaderRead' <=> HeaderRead)
  BY <1>1 DEF BhSum, HeaderRead
<1>4. StoredSums' = StoredSums /\ RawSums' = RawSums
  BY <1>1, <1>3, StagesAre, StagesAreNext
<1>5. /\ ScannedSums = Averages(scanned) /\ ScannedSums' = Averages(scanned')
      /\ HeldSums = Headers(Held) /\ HeldSums' = Headers(Held')
  BY StagesAre, StagesAreNext
<1> HIDE DEF len
<1>6. CASE Held' = Held /\ scanned' = scanned
  BY <1>1, <1>3, <1>4, <1>5, <1>6, ChainKept
<1>7. CASE UNCHANGED <<osamp, buffer, scanned>>
  BY <1>6, <1>7 DEF Held
<1>8. CASE osamp' = Held /\ buffer' = <<>> /\ scanned' = scanned
  <2>1. \A s \in Seq(ByteSet) : s \o <<>> = s
    BY SMT
  <2>2. Held' = Held
    BY <1>2, <1>8, <2>1 DEF Held
  <2> QED BY <1>6, <1>8, <2>2
<1>9. CASE /\ Held # <<>> /\ ~(Len(Held) < len) /\ scanned' = Append(scanned, first)
           /\ osamp' = <<>> /\ buffer' = rest
  <2>1. Framed(Held) /\ scanned \in Seq(Seq(ByteSet))
    BY DEF FrameInv, StreamInv
  <2>2. len = LenOf(Held[1][1])
    BY <1>9 DEF len
  <2>3. /\ Rest(Held, len, rest) /\ rest \in Seq(ByteSet) /\ first[1] = Held[1]
    BY <1>2, <1>9, <2>1, <2>2, FirstTaken
  <2>4. first \in Seq(ByteSet)
    BY SMT, <1>2, <1>9
  <2> HIDE DEF rest, first
  <2>5. Held' = rest
    <3>1. \A s \in Seq(ByteSet) : <<>> \o s = s
      BY SMT
    <3> QED BY <1>9, <2>3, <3>1 DEF Held
  <2>6. CASE Held[1][1] # "avg"
    <3>1. Moved(HeldSums, HeldSums', len)
      BY <1>2, <1>5, <1>9, <2>1, <2>3, <2>5, <2>6, HeadersRest
    <3>2. Moved(ScannedSums, ScannedSums', 0)
      BY <1>5, <1>9, <2>1, <2>3, <2>4, <2>6, AveragesAppend
    <3> QED BY <1>1, <1>3, <1>4, <3>1, <3>2, ChainSame DEF SameSums
  <2>7. CASE Held[1][1] = "avg"
    <3> DEFINE t == Held[1][2].sum
               k == Len(scanned) + 1
    <3>1. PICK g : Taken(HeldSums, g, 1) /\ Moved(g, HeldSums', len)
      BY <1>2, <1>5, <1>9, <2>1, <2>3, <2>5, <2>7, HeadersRest
    <3>2. HeldSums[1] = t
      BY <1>2, <1>5, <1>9, <2>1, <2>3, <2>5, <2>7, HeadersRest
    <3>3. Added(ScannedSums, ScannedSums', k) /\ ScannedSums'[k] = t
      BY <1>5, <1>9, <2>1, <2>3, <2>4, <2>7, AveragesAppend
    <3> HIDE DEF t, k
    <3> SUFFICES ASSUME upc' # "closed"
                 PROVE  \E a, b, c, d \in Nat : Conserved(a, b, c, d)'
      BY DEF ChainInv
    <3>4. PICK a \in Nat, b \in Nat, c \in Nat, d \in Nat : Conserved(a, b, c, d)
      BY <1>1 DEF ChainInv
    <3>5. Run(t) /\ From(t) = a /\ To(t) \in Nat /\ Chain(g, To(t), b)
      BY <3>1, <3>2, <3>4, ChainTake DEF Conserved
    <3>6. PICK e \in Nat : e = To(t)
      BY <3>5
    <3>7. Chain(HeldSums', e, b)
      BY <3>1, <3>5, <3>6, ChainMoved
    <3>8. 0 \in Nat
      BY SMT
    <3>9. Chain(ScannedSums', 0, e)
      BY <3>3, <3>4, <3>5, <3>6, <3>8, ChainAdd DEF Conserved
    <3>10. Conserved(e, b, c, d)'
      BY <1>1, <1>3, <1>4, <3>4, <3>7, <3>9, ConservedNext DEF Conserved
    <3> QED BY <3>10
  <2> QED BY <2>6, <2>7
<1> QED BY <1>1, <1>7, <1>8, <1>9

\* lams_open() begins with all places empty; after lams_release() they do not matter.
LEMMA ChainOpen ==
    ASSUME IInv, FrameInv, ClosedInv, lams_open \/ lams_release
    PROVE  ChainInv'
<1>1. CASE lams_release
  BY <1>1 DEF lams_release, ChainInv
<1>2. CASE lams_open
  <2> SUFFICES ASSUME ~broken'
               PROVE  \E a, b, c, d \in Nat : Conserved(a, b, c, d)'
    BY DEF ChainInv
  <2>1. /\ upc = "closed" /\ upc' = "N_AVG" /\ ~broken /\ ring' = EmptyRings
        /\ bhd' = NoSums /\ bytesLeft' = [k \in Out |-> 0]
        /\ UNCHANGED <<accepted, bpc, osamp, buffer, scanned>>
    BY <1>2 DEF lams_open, scanner
  <2>2. accepted' = 0 /\ scanned' = <<>> /\ Held' = <<>> /\ bpc' = "idle"
    BY <2>1 DEF ClosedInv, FrameInv, Held, IInv, LifeInv
  <2>3. "isr" \in Rings /\ "avg" \in Rings /\ "avg" \in Out
    BY DEF Rings, Out
  <2>4. Contents(ring'["isr"]) = <<>> /\ Contents(ring'["avg"]) = <<>>
    BY <2>1, <2>3, Allocated
  <2>5. 0 \notin 1..(AvgLen - 1) /\ 1..Len(<<>>) = {} /\ 0 \in Nat /\ NoSums.sum = <<>>
        /\ 0 = 0 + Len(<<>>)
    BY SMT, LengthsArePositive DEF NoSums
  <2>6. ~HeaderRead'
    BY <2>1, <2>3, <2>5 DEF HeaderRead
  <2>7. BhSum' = <<>>
    BY <2>1, <2>2, <2>5 DEF BhSum
  <2>8. /\ DOMAIN ScannedSums' = {} /\ DOMAIN HeldSums' = {}
        /\ DOMAIN StoredSums' = {} /\ DOMAIN RawSums' = {}
    <3>1. /\ ScannedSums' = Averages(<<>>) /\ HeldSums' = Headers(<<>>)
          /\ StoredSums' = SumsFrom(<<>>, 1) /\ RawSums' = RawFrom(<<>>, 1)
      BY <2>2, <2>4, <2>6, StagesAreNext
    <3>2. DOMAIN Averages(<<>>) = {} /\ DOMAIN Headers(<<>>) = {}
      BY <2>5 DEF Averages, Headers
    <3>3. DOMAIN SumsFrom(<<>>, 1) = {} /\ DOMAIN RawFrom(<<>>, 1) = {}
      BY <2>5 DEF SumsFrom, RawFrom
    <3> QED BY <3>1, <3>2, <3>3
  <2>9. /\ Chain(ScannedSums', 0, 0) /\ Chain(HeldSums', 0, 0)
        /\ Chain(StoredSums', 0, 0) /\ Chain(RawSums', 0, accepted')
    BY <2>2, <2>5, <2>8, ChainEmpty
  <2>10. SumRun(BhSum', 0, 0)
    BY <2>5, <2>7 DEF SumRun
  <2>11. Conserved(0, 0, 0, 0)'
    BY <2>9, <2>10, ConservedNext
  <2> QED BY <2>5, <2>11
<1> QED BY <1>1, <1>2

\* While the device is closed no spectrum has been stored.
LEMMA ClosedNext ==
    ASSUME IInv, ClosedInv, [Next]_vars
    PROVE  ClosedInv'
<1>1. CASE lams_release
  BY <1>1 DEF lams_release, ClosedInv
<1>2. CASE InterruptMissed \/ Interrupt \/ lams_irq_handler \/ lams_bottom_half
  <2>1. (upc' = "closed" <=> upc = "closed") /\ scanned' = scanned
    BY <1>2, TailsKept, WokenUp DEF scanner
  <2>2. upc = "closed" => ~IsrHead
    BY DEF IInv, LifeInv, IsrHead
  <2>3. IsrHead \/ accepted' = accepted
    BY <1>2 DEF InterruptMissed, Interrupt, lams_irq_handler, lams_bottom_half, ReadBoard,
         QueueWork, PeakHead, PeakWake, BottomHalfStart, BottomHalfSum,
         BottomHalfTail, BottomHalfHead, BottomHalfMissed, BottomHalfFill,
         BottomHalfPut, BottomHalfWake, BottomHalfEnd, driver
  <2> QED BY <2>1, <2>2, <2>3 DEF ClosedInv
<1>3. CASE OpenFails \/ OpenBusy \/ UNCHANGED vars
  BY <1>3 DEF OpenFails, OpenBusy, vars, driver, user, scanner, ClosedInv
<1>4. CASE lams_open \/ Signal \/ Close \/ setNAvg \/ SetNPeaks \/ lams_poll \/ readBuffer
             \/ lams_read \/ CopyToUser \/ ReadIncTail \/ ReadGetTail \/ nextSample
  <2>1. upc' # "closed"
    BY <1>4 DEF lams_open, Signal, Close, setNAvg, SetNPeaks, lams_poll, readBuffer,
         lams_read, CopyToUser, ReadIncTail, ReadGetTail, nextSample, ReadEnds
  <2> QED BY <2>1 DEF ClosedInv
<1> QED BY <1>1, <1>2, <1>3, <1>4 DEF Next, Reading

\* The consumer of a buffer leaves the element at its head alone.
LEMMA HeadStays ==
    ASSUME RingInv, NEW r \in Rings,
           ring'[r] = ring[r] \/ ring'[r] = INCREMENT_TAIL(ring[r])
    PROVE  ring'[r].buf[ring'[r].head] = HeadOf(r)
<1>1. ring[r] \in CircBufOf(Size(r), Element(r))
  BY DEF RingInv
<1>2. /\ INCREMENT_TAIL(ring[r]).head = ring[r].head
      /\ INCREMENT_TAIL(ring[r]).buf = ring[r].buf
  BY <1>1 DEF INCREMENT_TAIL, CircBufOf
<1> QED BY <1>2 DEF HeadOf

\* The element at the head is what the producer wrote into it.
LEMMA HeadsNext ==
    ASSUME IInv, HeadsInv, [Next]_vars
    PROVE  HeadsInv'
<1>1. /\ "isr" \in Rings /\ "avg" \in Rings /\ "peak" \in Rings
      /\ "isr" # "avg" /\ "isr" # "peak" /\ "avg" # "peak"
      /\ ring = [r \in Rings |-> ring[r]] /\ RingInv
  BY DEF Rings, Out, IInv, RingInv
<1>2. ASSUME ipc' = "head" PROVE HeadOf("isr")' = accepted' + 1
  <2>1. CASE ReadBoard
    <3>1. ring'["isr"] = WriteHead(ring["isr"], accepted + 1) /\ accepted' = accepted
      BY <1>1, <2>1 DEF ReadBoard
    <3>2. accepted + 1 \in Element("isr")
      BY SMT, <2>1, NumbersArePositive DEF ReadBoard, IInv, IsrInv, Element
    <3>3. ring'["isr"].buf[ring'["isr"].head] = accepted + 1
      BY SMT, <1>1, <3>1, <3>2, Written
    <3> QED BY <3>1, <3>3 DEF HeadOf
  <2>2. CASE lams_bottom_half \/ OpenFails \/ OpenBusy \/ Signal \/ Close \/ setNAvg
               \/ SetNPeaks \/ lams_poll \/ readBuffer \/ lams_read \/ CopyToUser
               \/ ReadIncTail \/ ReadGetTail \/ nextSample \/ UNCHANGED vars
    <3>1. ipc = "head" /\ accepted' = accepted
      <4>1. CASE lams_bottom_half
        BY <1>2, <4>1 DEF lams_bottom_half, BottomHalfStart, BottomHalfSum,
             BottomHalfTail, BottomHalfHead, BottomHalfMissed, BottomHalfFill,
             BottomHalfPut, BottomHalfWake, BottomHalfEnd, driver, isr
      <4>2. CASE OpenFails \/ OpenBusy \/ Signal \/ Close \/ setNAvg
               \/ SetNPeaks \/ lams_poll \/ readBuffer \/ lams_read \/ CopyToUser
               \/ ReadIncTail \/ ReadGetTail \/ nextSample \/ UNCHANGED vars
        BY <1>2, <4>2 DEF OpenFails, OpenBusy, Signal, Close, setNAvg, SetNPeaks,
             lams_poll, readBuffer, lams_read, CopyToUser, ReadIncTail, ReadGetTail,
             nextSample, vars, driver, isr
      <4> QED BY <2>2, <4>1, <4>2
    <3>2. ring'["isr"] = ring["isr"] \/ ring'["isr"] = INCREMENT_TAIL(ring["isr"])
      <4>1. CASE BottomHalfTail \/ BottomHalfFill \/ BottomHalfPut
        BY <1>1, <4>1 DEF BottomHalfTail, BottomHalfFill, BottomHalfPut
      <4>2. CASE BottomHalfHead
        BY <1>1, <4>2 DEF BottomHalfHead
      <4>3. CASE ReadIncTail
        <5>1. kind # "isr" /\ ring' = [ring EXCEPT ![kind] = INCREMENT_TAIL(@)]
          BY <4>3 DEF ReadIncTail, IInv, UserInv, Out
        <5> QED BY <1>1, <5>1
      <4>4. CASE BottomHalfStart \/ BottomHalfSum \/ BottomHalfMissed \/ BottomHalfWake
                   \/ BottomHalfEnd
        BY <4>4 DEF BottomHalfStart, BottomHalfSum, BottomHalfMissed, BottomHalfWake,
                    BottomHalfEnd, driver
      <4>5. CASE OpenFails \/ OpenBusy \/ Signal \/ Close \/ setNAvg \/ SetNPeaks
                   \/ lams_poll \/ readBuffer \/ lams_read \/ CopyToUser
                   \/ ReadGetTail \/ nextSample \/ UNCHANGED vars
        BY <4>5 DEF OpenFails, OpenBusy, Signal, Close, setNAvg, SetNPeaks,
             lams_poll, readBuffer, lams_read, CopyToUser, ReadGetTail, nextSample, vars,
             driver
      <4> QED BY <2>2, <4>1, <4>2, <4>3, <4>4, <4>5 DEF lams_bottom_half
    <3>3. ring'["isr"].buf[ring'["isr"].head] = HeadOf("isr")
      BY <1>1, <3>2, HeadStays
    <3> QED BY <3>1, <3>3 DEF HeadOf, HeadsInv
  <2>3. CASE lams_open \/ lams_release
    <3>1. ipc' = ipc /\ ipc = "idle"
      BY <2>3 DEF lams_open, lams_release, isr, IInv, LifeInv
    <3> QED BY <1>2, <3>1
  <2>4. CASE InterruptMissed \/ Interrupt \/ IsrHead \/ QueueWork \/ PeakHead \/ PeakWake
    BY <1>2, <2>4 DEF InterruptMissed, Interrupt, IsrHead, QueueWork, PeakHead, PeakWake
  <2> QED BY <2>1, <2>2, <2>3, <2>4 DEF Next, Reading, lams_irq_handler
<1>3. ASSUME bpc' = "head" PROVE HeadOf("avg")'.sum = bhd'.sum
  <2>1. CASE BottomHalfFill
    <3> DEFINE x == [sum |-> bhd.sum, timetag |-> bhd.timetag]
    <3>1. ring'["avg"] = WriteHead(ring["avg"], x) /\ bhd' = bhd
      BY <1>1, <2>1 DEF BottomHalfFill
    <3>2. x \in Element("avg") /\ x.sum = bhd.sum
      BY <2>1 DEF BottomHalfFill, IInv, BhInv, Sums, Element, Average
    <3> HIDE DEF x
    <3>3. ring'["avg"].buf[ring'["avg"].head] = x
      BY SMT, <1>1, <3>1, <3>2, Written
    <3> QED BY <3>1, <3>2, <3>3 DEF HeadOf
  <2>2. CASE InterruptMissed \/ Interrupt \/ lams_irq_handler \/ OpenFails \/ OpenBusy
               \/ Signal \/ Close \/ setNAvg \/ SetNPeaks \/ lams_poll \/ readBuffer
               \/ lams_read \/ CopyToUser \/ ReadIncTail \/ ReadGetTail \/ nextSample
               \/ UNCHANGED vars
    <3>1. bpc = "head" /\ bhd' = bhd
      <4>1. CASE InterruptMissed \/ Interrupt \/ lams_irq_handler
        BY <1>3, <4>1 DEF InterruptMissed, Interrupt, lams_irq_handler, ReadBoard,
             IsrHead, QueueWork, PeakHead, PeakWake, work
      <4>2. CASE OpenFails \/ OpenBusy \/ Signal \/ Close \/ setNAvg
               \/ SetNPeaks \/ lams_poll \/ readBuffer \/ lams_read \/ CopyToUser
               \/ ReadIncTail \/ ReadGetTail \/ nextSample \/ UNCHANGED vars
        BY <1>3, <4>2 DEF OpenFails, OpenBusy, Signal, Close, setNAvg, SetNPeaks,
             lams_poll, readBuffer, lams_read, CopyToUser, ReadIncTail, ReadGetTail,
             nextSample, vars, work
      <4> QED BY <2>2, <4>1, <4>2
    <3>2. ring'["avg"] = ring["avg"] \/ ring'["avg"] = INCREMENT_TAIL(ring["avg"])
      <4>1. CASE Interrupt \/ ReadBoard
        BY <1>1, <4>1 DEF Interrupt, ReadBoard
      <4>2. CASE IsrHead \/ PeakHead \/ ReadIncTail
        BY <1>1, <4>2 DEF IsrHead, PeakHead, ReadIncTail
      <4>3. CASE InterruptMissed \/ QueueWork \/ PeakWake
        BY <4>3 DEF InterruptMissed, QueueWork, PeakWake, driver
      <4>4. CASE OpenFails \/ OpenBusy \/ Signal \/ Close \/ setNAvg \/ SetNPeaks
                   \/ lams_poll \/ readBuffer \/ lams_read \/ CopyToUser
                   \/ ReadGetTail \/ nextSample \/ UNCHANGED vars
        BY <4>4 DEF OpenFails, OpenBusy, Signal, Close, setNAvg, SetNPeaks,
             lams_poll, readBuffer, lams_read, CopyToUser, ReadGetTail, nextSample, vars,
             driver
      <4> QED BY <2>2, <4>1, <4>2, <4>3, <4>4 DEF lams_irq_handler
    <3>3. ring'["avg"].buf[ring'["avg"].head] = HeadOf("avg")
      BY <1>1, <3>2, HeadStays
    <3> QED BY <3>1, <3>3 DEF HeadOf, HeadsInv
  <2>3. CASE lams_open \/ lams_release
    <3>1. bpc' = bpc /\ bpc = "idle"
      BY <2>3 DEF lams_open, lams_release, work, IInv, LifeInv
    <3> QED BY <1>3, <3>1
  <2>4. CASE BottomHalfStart \/ BottomHalfSum \/ BottomHalfTail \/ BottomHalfHead
               \/ BottomHalfMissed \/ BottomHalfPut \/ BottomHalfWake \/ BottomHalfEnd
    BY <1>3, <2>4 DEF BottomHalfStart, BottomHalfSum, BottomHalfTail, BottomHalfHead,
         BottomHalfMissed, BottomHalfPut, BottomHalfWake, BottomHalfEnd
  <2> QED BY <2>1, <2>2, <2>3, <2>4 DEF Next, Reading, lams_bottom_half
<1> QED BY <1>2, <1>3 DEF HeadsInv

\* Every step of the three activities keeps the places in order.
LEMMA SpectraNext ==
    IInv /\ FrameInv /\ SpectraInv /\ [Next]_vars => SpectraInv'
<1> SUFFICES ASSUME IInv, FrameInv, ChainInv, ClosedInv, HeadsInv, [Next]_vars
             PROVE  ChainInv'
  BY ClosedNext, HeadsNext DEF SpectraInv
<1>1. CASE BottomHalfSum
  BY <1>1, ChainSum, ChainBh
<1> QED BY <1>1, ChainIsr, ChainIsrHead, ChainBh, ChainBhTail, ChainPut, ChainUser,
           ChainIncTail, ChainCopy, ChainScan, ChainOpen
        DEF Next, Reading, lams_irq_handler, lams_bottom_half

\* What SpectraConserved says of one place: it holds the spectra after a as far as b,
\* each once and in order.
Covers(f, a, b) ==
    /\ a <= b
    /\ \A i \in DOMAIN f : \A j \in 1..Len(f[i]) :
          f[i][j][1] \in Int /\ a < f[i][j][1] /\ f[i][j][1] <= b
    /\ \A i, m \in DOMAIN f : \A j \in 1..Len(f[i]), l \in 1..Len(f[m]) :
          i < m \/ (i = m /\ j < l) => f[i][j][1] < f[m][l][1]
    /\ \A n \in (a + 1)..b : \E i \in DOMAIN f : \E j \in 1..Len(f[i]) : f[i][j][1] = n

\* A chain holds each of its spectra once, in order.
LEMMA ChainCovers ==
    ASSUME NEW f, NEW a \in Nat, NEW b \in Nat, Chain(f, a, b)
    PROVE  Covers(f, a, b)
<1>1. /\ a <= b
      /\ \A i \in DOMAIN f : Run(f[i]) /\ a <= From(f[i]) /\ To(f[i]) <= b
      /\ \A i, j \in DOMAIN f : i < j => To(f[i]) <= From(f[j])
      /\ \A n \in (a + 1)..b : \E i \in DOMAIN f : From(f[i]) < n /\ n <= To(f[i])
  BY DEF Chain
<1>2. ASSUME NEW i \in DOMAIN f
      PROVE  /\ From(f[i]) \in Int /\ Len(f[i]) \in Nat /\ To(f[i]) = From(f[i]) + Len(f[i])
             /\ \A j \in 1..Len(f[i]) : f[i][j][1] = From(f[i]) + j
  BY <1>1, RunIs DEF Run, To
<1>3. ASSUME NEW i \in DOMAIN f, NEW j \in 1..Len(f[i])
      PROVE  /\ f[i][j][1] \in Int /\ a < f[i][j][1] /\ f[i][j][1] <= b
             /\ From(f[i]) < f[i][j][1] /\ f[i][j][1] <= To(f[i])
  <2> DEFINE F == From(f[i])
             L == Len(f[i])
  <2>1. /\ F \in Int /\ L \in Nat /\ a <= F /\ F + L <= b /\ f[i][j][1] = F + j
        /\ To(f[i]) = F + L
    BY <1>1, <1>2
  <2>2. j \in 1..L
    OBVIOUS
  <2> HIDE DEF F, L
  <2>3. F + j \in Int /\ a < F + j /\ F + j <= b /\ F < F + j /\ F + j <= F + L
    BY SMT, <2>1, <2>2
  <2> QED BY <2>1, <2>3 DEF F
<1>4. ASSUME NEW i \in DOMAIN f, NEW m \in DOMAIN f,
             NEW j \in 1..Len(f[i]), NEW l \in 1..Len(f[m]), i < m
      PROVE  f[i][j][1] < f[m][l][1]
  <2> DEFINE u == f[i][j][1]
             v == f[m][l][1]
  <2>1. u \in Int /\ v \in Int /\ u <= To(f[i]) /\ To(f[i]) <= From(f[m]) /\ From(f[m]) < v
    BY <1>1, <1>3, <1>4
  <2>2. To(f[i]) \in Int /\ From(f[m]) \in Int
    BY <1>1, RunIs
  <2> HIDE DEF u, v
  <2>3. u < v
    BY SMT, <2>1, <2>2
  <2> QED BY <2>3 DEF u, v
<1>5. ASSUME NEW i \in DOMAIN f, NEW j \in 1..Len(f[i]), NEW l \in 1..Len(f[i]), j < l
      PROVE  f[i][j][1] < f[i][l][1]
  <2> DEFINE F == From(f[i])
  <2>1. F \in Int /\ f[i][j][1] = F + j /\ f[i][l][1] = F + l
    BY <1>2
  <2>2. j \in Int /\ l \in Int
    BY SMT
  <2> HIDE DEF F
  <2>3. F + j < F + l
    BY SMT, <1>5, <2>1, <2>2
  <2> QED BY <2>1, <2>3
<1>6. ASSUME NEW n \in (a + 1)..b
      PROVE  \E i \in DOMAIN f : \E j \in 1..Len(f[i]) : f[i][j][1] = n
  <2>1. PICK i \in DOMAIN f : From(f[i]) < n /\ n <= To(f[i])
    BY <1>1
  <2> DEFINE F == From(f[i])
             L == Len(f[i])
  <2>2. F \in Int /\ L \in Nat /\ F < n /\ n <= F + L
    BY <1>2, <2>1
  <2>3. n \in Int
    BY SMT
  <2> HIDE DEF F, L
  <2>4. n - F \in 1..L /\ F + (n - F) = n
    BY SMT, <2>2, <2>3
  <2>5. n - F \in 1..Len(f[i]) /\ f[i][n - F][1] = n
    BY <1>2, <2>4 DEF F, L
  <2> QED BY <2>5
<1> QED BY <1>1, <1>3, <1>4, <1>5, <1>6 DEF Covers

\* Likewise for the sums of the bottom half.
LEMMA SumCovers ==
    ASSUME NEW s, Len(s) \in Nat, NEW a \in Nat, NEW b \in Nat, SumRun(s, a, b)
    PROVE  Covers(<<s>>, a, b)
<1>1. DOMAIN <<s>> = {1} /\ <<s>>[1] = s /\ ~(1 < 1)
  BY SMT
<1>2. b = a + Len(s) /\ \A j \in 1..Len(s) : s[j][1] = a + j
  BY DEF SumRun
<1>3. a <= b
  BY SMT, <1>2
<1>4. ASSUME NEW j \in 1..Len(s)
      PROVE  s[j][1] \in Int /\ a < s[j][1] /\ s[j][1] <= b
  <2>1. a + j \in Int /\ a < a + j /\ a + j <= b
    BY SMT, <1>2
  <2> QED BY <1>2, <2>1
<1>5. ASSUME NEW j \in 1..Len(s), NEW l \in 1..Len(s), j < l
      PROVE  s[j][1] < s[l][1]
  <2>1. a + j < a + l
    BY SMT, <1>5
  <2> QED BY <1>2, <2>1
<1>6. ASSUME NEW n \in (a + 1)..b
      PROVE  \E j \in 1..Len(s) : s[j][1] = n
  <2>1. n - a \in 1..Len(s) /\ a + (n - a) = n
    BY SMT, <1>2
  <2> QED BY <1>2, <2>1
<1> DEFINE f == <<s>>
<1>7. DOMAIN f = {1} /\ f[1] = s
  BY <1>1
<1> HIDE DEF f
<1>8. \A i \in DOMAIN f : i = 1 /\ f[i] = s
  BY <1>7
<1>9. \A i \in DOMAIN f : \A j \in 1..Len(f[i]) :
         f[i][j][1] \in Int /\ a < f[i][j][1] /\ f[i][j][1] <= b
  BY <1>4, <1>8
<1>10. ASSUME NEW i \in DOMAIN f, NEW m \in DOMAIN f,
              NEW j \in 1..Len(f[i]), NEW l \in 1..Len(f[m]), i < m \/ (i = m /\ j < l)
       PROVE  f[i][j][1] < f[m][l][1]
  BY <1>1, <1>5, <1>8, <1>10
<1>11. ASSUME NEW n \in (a + 1)..b
       PROVE  \E i \in DOMAIN f : \E j \in 1..Len(f[i]) : f[i][j][1] = n
  BY <1>6, <1>7
<1>12. Covers(f, a, b)
  BY <1>3, <1>9, <1>10, <1>11 DEF Covers
<1> QED BY <1>12 DEF f

\* The occurrences, one place, one sum and one spectrum of it at a time.
LEMMA OccurrencesAre ==
    /\ \A o \in Occurrence : \E k \in 1..5 : \E i \in DOMAIN Stages[k] :
          \E j \in 1..Len(Stages[k][i]) : o = <<k, i, j>>
    /\ \A k \in 1..5 : \A i \in DOMAIN Stages[k] : \A j \in 1..Len(Stages[k][i]) :
          /\ <<k, i, j>> \in Occurrence
          /\ Spectrum(<<k, i, j>>) = Stages[k][i][j][1]
<1> DEFINE B(k, i) == {<<k, i, j>> : j \in 1..Len(Stages[k][i])}
           A(k) == UNION {B(k, i) : i \in DOMAIN Stages[k]}
<1>1. Occurrence = UNION {A(k) : k \in 1..5}
  BY DEF Occurrence
<1> HIDE DEF A
<1>2. \A o : o \in Occurrence <=> \E k \in 1..5 : o \in A(k)
  BY <1>1
<1> USE DEF A
<1> HIDE DEF B
<1>3. \A k, o : o \in A(k) <=> \E i \in DOMAIN Stages[k] : o \in B(k, i)
  OBVIOUS
<1> HIDE DEF A
<1> USE DEF B
<1>4. \A k, i, o : o \in B(k, i) <=> \E j \in 1..Len(Stages[k][i]) : o = <<k, i, j>>
  OBVIOUS
<1> HIDE DEF B
<1>5. \A k, i, j : <<k, i, j>>[1] = k /\ <<k, i, j>>[2] = i /\ <<k, i, j>>[3] = j
  BY SMT
<1>6. ASSUME NEW k \in 1..5, NEW i \in DOMAIN Stages[k], NEW j \in 1..Len(Stages[k][i])
      PROVE  <<k, i, j>> \in Occurrence /\ Spectrum(<<k, i, j>>) = Stages[k][i][j][1]
  <2>1. <<k, i, j>> \in B(k, i)
    BY <1>4
  <2>2. <<k, i, j>> \in A(k)
    BY <1>3, <2>1
  <2>3. Spectrum(<<k, i, j>>) = Stages[k][i][j][1]
    BY <1>5 DEF Spectrum
  <2> QED BY <1>2, <2>2, <2>3
<1>7. ASSUME NEW o \in Occurrence
      PROVE  \E k \in 1..5 : \E i \in DOMAIN Stages[k] :
                \E j \in 1..Len(Stages[k][i]) : o = <<k, i, j>>
  <2>1. PICK k \in 1..5 : o \in A(k)
    BY <1>2
  <2>2. PICK i \in DOMAIN Stages[k] : o \in B(k, i)
    BY <1>3, <2>1
  <2>3. \E j \in 1..Len(Stages[k][i]) : o = <<k, i, j>>
    BY <1>4, <2>2
  <2> QED BY <2>3
<1> QED BY <1>6, <1>7

\* The parts of an occurrence.
LEMMA Parts ==
    ASSUME NEW k, NEW i, NEW j
    PROVE  <<k, i, j>>[1] = k /\ <<k, i, j>>[2] = i /\ <<k, i, j>>[3] = j
  BY SMT

\* The numbers in one place.
LEMMA Between ==
    ASSUME NEW n \in Int, NEW l \in Nat, NEW h \in Nat, NEW N \in Nat,
           l < n, n <= h, h <= N
    PROVE  n \in 1..N
  BY SMT

\* The numbers in a place and in a later one.
LEMMA Across ==
    ASSUME NEW u \in Int, NEW v \in Int, NEW h \in Nat, NEW l \in Nat,
           u <= h, h <= l, l < v
    PROVE  u < v
  BY SMT

\* Five places that hold the spectra one after the other hold each once, in order.
LEMMA PlacesCover ==
    ASSUME NEW a \in Nat, NEW b \in Nat, NEW c \in Nat, NEW d \in Nat, accepted \in Nat,
           Covers(Stages[1], 0, a), Covers(Stages[2], a, b), Covers(Stages[3], b, c),
           Covers(Stages[4], c, d), Covers(Stages[5], d, accepted)
    PROVE  /\ {Spectrum(o) : o \in Occurrence} = 1..accepted
           /\ \A o, p \in Occurrence : Before(o, p) => Spectrum(o) < Spectrum(p)
<1> DEFINE lo == <<0, a, b, c, d>>
           hi == <<a, b, c, d, accepted>>
           st == Stages
<1>1. /\ \A k \in 1..5 : k = 1 \/ k = 2 \/ k = 3 \/ k = 4 \/ k = 5
      /\ lo[1] = 0 /\ lo[2] = a /\ lo[3] = b /\ lo[4] = c /\ lo[5] = d
      /\ hi[1] = a /\ hi[2] = b /\ hi[3] = c /\ hi[4] = d /\ hi[5] = accepted
  BY SMT
<1> HIDE DEF st, lo, hi
<1>2. \A k \in 1..5 : Covers(st[k], lo[k], hi[k])
  BY <1>1 DEF st
<1>3. 0 <= a /\ a <= b /\ b <= c /\ c <= d /\ d <= accepted
  BY DEF Covers
<1>4. ASSUME NEW k \in 1..5 PROVE lo[k] \in Nat /\ hi[k] \in Nat /\ hi[k] <= accepted
  BY SMT, <1>1, <1>3
<1>5. ASSUME NEW k \in 1..5, NEW m \in 1..5, k < m PROVE hi[k] <= lo[m]
  BY SMT, <1>1, <1>3, <1>5
<1>6. ASSUME NEW n \in 1..accepted PROVE \E k \in 1..5 : n \in (lo[k] + 1)..hi[k]
  <2>1. 1 \in 1..5 /\ 2 \in 1..5 /\ 3 \in 1..5 /\ 4 \in 1..5 /\ 5 \in 1..5
    BY SMT
  <2>2. n \in (0 + 1)..a \/ n \in (a + 1)..b \/ n \in (b + 1)..c \/ n \in (c + 1)..d
           \/ n \in (d + 1)..accepted
    BY SMT, <1>3
  <2> QED BY <1>1, <2>1, <2>2
<1>9. ASSUME NEW o \in Occurrence
      PROVE  \E k \in 1..5 : \E i \in DOMAIN st[k] : \E j \in 1..Len(st[k][i]) :
                o = <<k, i, j>>
  BY OccurrencesAre DEF st
<1>10. ASSUME NEW k \in 1..5, NEW i \in DOMAIN st[k], NEW j \in 1..Len(st[k][i])
       PROVE  <<k, i, j>> \in Occurrence /\ Spectrum(<<k, i, j>>) = st[k][i][j][1]
  BY OccurrencesAre DEF st
<1>11. ASSUME NEW k \in 1..5, NEW i \in DOMAIN st[k], NEW j \in 1..Len(st[k][i])
       PROVE  /\ st[k][i][j][1] \in Int
              /\ lo[k] < st[k][i][j][1] /\ st[k][i][j][1] <= hi[k]
  BY <1>2 DEF Covers
<1>12. {Spectrum(o) : o \in Occurrence} = 1..accepted
  <2>1. ASSUME NEW o \in Occurrence PROVE Spectrum(o) \in 1..accepted
    <3>1. PICK k \in 1..5 : \E i \in DOMAIN st[k] : \E j \in 1..Len(st[k][i]) :
             o = <<k, i, j>>
      BY <1>9
    <3>5. PICK i \in DOMAIN st[k] : \E j \in 1..Len(st[k][i]) : o = <<k, i, j>>
      BY <3>1
    <3>2. PICK j \in 1..Len(st[k][i]) : o = <<k, i, j>>
      BY <3>5
    <3>3. Spectrum(o) = st[k][i][j][1]
      BY <1>10, <3>2
    <3>4. st[k][i][j][1] \in 1..accepted
      BY <1>4, <1>11, Between
    <3> QED BY <3>3, <3>4
  <2>2. ASSUME NEW n \in 1..accepted PROVE \E o \in Occurrence : n = Spectrum(o)
    <3>1. PICK k \in 1..5 : n \in (lo[k] + 1)..hi[k]
      BY <1>6
    <3>2. PICK i \in DOMAIN st[k] : \E j \in 1..Len(st[k][i]) : st[k][i][j][1] = n
      BY <1>2, <3>1 DEF Covers
    <3>3. PICK j \in 1..Len(st[k][i]) : st[k][i][j][1] = n
      BY <3>2
    <3> QED BY <1>10, <3>3
  <2> QED BY <2>1, <2>2
<1>13. ASSUME NEW o \in Occurrence, NEW p \in Occurrence, Before(o, p)
       PROVE  Spectrum(o) < Spectrum(p)
  <2>1. PICK k \in 1..5 : \E i \in DOMAIN st[k] : \E j \in 1..Len(st[k][i]) :
           o = <<k, i, j>>
    BY <1>9
  <2>9. PICK i \in DOMAIN st[k] : \E j \in 1..Len(st[k][i]) : o = <<k, i, j>>
    BY <2>1
  <2>2. PICK j \in 1..Len(st[k][i]) : o = <<k, i, j>>
    BY <2>9
  <2>3. PICK q \in 1..5 : \E i1 \in DOMAIN st[q] : \E j1 \in 1..Len(st[q][i1]) :
           p = <<q, i1, j1>>
    BY <1>9
  <2>10. PICK m \in DOMAIN st[q] : \E l \in 1..Len(st[q][m]) : p = <<q, m, l>>
    BY <2>3
  <2>4. PICK l \in 1..Len(st[q][m]) : p = <<q, m, l>>
    BY <2>10
  <2>5. /\ o[1] = k /\ o[2] = i /\ o[3] = j /\ p[1] = q /\ p[2] = m /\ p[3] = l
    BY <2>2, <2>4, Parts
  <2>6. Spectrum(o) = st[k][i][j][1] /\ Spectrum(p) = st[q][m][l][1]
    BY <1>10, <2>2, <2>4
  <2>7. CASE k < q
    <3>1. hi[k] <= lo[q] /\ hi[k] \in Nat /\ lo[q] \in Nat
      BY <1>4, <1>5, <2>7
    <3>2. st[k][i][j][1] < st[q][m][l][1]
      BY <1>11, <3>1, Across
    <3> QED BY <2>6, <3>2
  <2>8. CASE k = q /\ (i < m \/ (i = m /\ j < l))
    <3>1. m \in DOMAIN st[k] /\ l \in 1..Len(st[k][m])
      BY <2>8
    <3>2. st[k][i][j][1] < st[k][m][l][1]
      BY <1>2, <2>8, <3>1 DEF Covers
    <3> QED BY <2>6, <2>8, <3>2
  <2> QED BY <1>13, <2>5, <2>7, <2>8 DEF Before
<1> QED BY <1>12, <1>13

\* However interrupts, bottom half and reads interleave, whatever the sizes of the
\* buffers and however often an output buffer is full: until a sample is begun amid
\* another, every spectrum that the interrupt handler stored is in exactly one place
\* between its queue and the samples scanned, and they stand in the order of the
\* interrupts.
THEOREM SpectraAccounted == Spec => []SpectraConserved
<1>1. Init => SpectraInv
  BY DEF Init, SpectraInv, ChainInv, ClosedInv, HeadsInv
<1>2. IInv /\ FrameInv /\ SpectraInv /\ [Next]_vars => SpectraInv'
  BY SpectraNext
<1>3. IInv /\ SpectraInv => SpectraConserved
  <2> SUFFICES ASSUME IInv, SpectraInv, ~broken, upc # "closed"
               PROVE  /\ {Spectrum(o) : o \in Occurrence} = 1..accepted
                      /\ \A o, p \in Occurrence : Before(o, p) => Spectrum(o) < Spectrum(p)
    BY DEF SpectraConserved
  <2>1. PICK a \in Nat, b \in Nat, c \in Nat, d \in Nat : Conserved(a, b, c, d)
    BY DEF SpectraInv, ChainInv
  <2>2. accepted \in Nat /\ 0 \in Nat
    BY SMT DEF IInv, IsrInv
  <2>3. Len(BhSum) \in Nat
    <3>1. Len(<<>>) \in Nat /\ \A s \in Seq((1..MaxIrq) \X Nat) : Len(s) \in Nat
      BY SMT
    <3>2. bhd.sum \in Seq((1..MaxIrq) \X Nat)
      BY DEF IInv, BhInv, Sums
    <3> QED BY <3>1, <3>2 DEF BhSum
  <2>4. /\ Covers(ScannedSums, 0, a) /\ Covers(HeldSums, a, b) /\ Covers(StoredSums, b, c)
        /\ Covers(RawSums, d, accepted)
    BY <2>1, <2>2, ChainCovers DEF Conserved
  <2>5. Covers(<<BhSum>>, c, d)
    BY <2>1, <2>3, SumCovers DEF Conserved
  <2>6. /\ Stages[1] = ScannedSums /\ Stages[2] = HeldSums /\ Stages[3] = StoredSums
        /\ Stages[4] = <<BhSum>> /\ Stages[5] = RawSums
    BY SMT DEF Stages
  <2> QED BY <2>2, <2>4, <2>5, <2>6, PlacesCover
<1> QED BY <1>1, <1>2, <1>3, LamsInvariant, FrameInvariant, PTL DEF Spec
=============================================================================
