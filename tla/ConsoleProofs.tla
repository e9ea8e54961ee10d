--------------------------- MODULE ConsoleProofs ---------------------------
(***************************************************************************)
(* The guest's console library.  printf writes what its format says, for      *)
(* every format, argument and buffer, by inductions that come down to the    *)
(* least element of a set of naturals.  And uart_mutex works for any number  *)
(* of cores, texts and programs, wherever the linker puts it, and           *)
(* hello_rv32 uses it as UartLock says.                                     *)
(***************************************************************************)
EXTENDS Hello, PrintfDiscipline, WellFoundedInduction, SequenceTheorems, TLAPS

(* A nonempty set of naturals has a least element: what induction comes down   *)
(* to here.                                                                 *)
LEMMA Least ==
    ASSUME NEW T, T \subseteq Nat, T # {}
    PROVE  \E x \in T : \A y \in T : x <= y
<1> DEFINE R == {ss \in Nat \X Nat : ss[1] < ss[2]}
<1>1. IsWellFoundedOn(R, Nat)
    BY NatLessThanWellFounded DEF OpToRel
<1> HIDE DEF R
<1>2. PICK x \in T : \A y \in T : ~(<<y, x>> \in R)
    BY <1>1, WFMin
<1>3. \A y \in T : ~(y < x)
    BY <1>2 DEF R
<1> QED
    BY <1>3

(* A quotient and a remainder are the only ones. *)
LEMMA QuotientIs ==
    ASSUME NEW M \in Nat \ {0}, NEW x \in 0 .. M - 1, NEW y \in Int
    PROVE  (x + M * y) \div M = y
<1> DEFINE z == x + M * y
           q == z \div M
           r == z % M
<1>1. z \in Int
    OBVIOUS
<1> HIDE DEF z
<1>2. q \in Int /\ r \in 0 .. M - 1 /\ z = M * q + r
    BY <1>1
<1> HIDE DEF q, r
<1>3. M * (y - q) = r - x
    BY <1>1, <1>2 DEF z
<1>4. ~(y - q >= 1)
    <2> SUFFICES ASSUME y - q >= 1 PROVE FALSE
        OBVIOUS
    <2>1. M * (y - q) >= M
        BY <1>2
    <2> QED
        BY <1>2, <1>3, <2>1
<1>5. ~(y - q <= -1)
    <2> SUFFICES ASSUME y - q <= -1 PROVE FALSE
        OBVIOUS
    <2>1. M * (y - q) <= -M
        BY <1>2
    <2> QED
        BY <1>2, <1>3, <2>1
<1> QED
    BY <1>2, <1>4, <1>5 DEF q, z

(* Dividing twice. *)
LEMMA QuotientOfQuotient ==
    ASSUME NEW n \in Nat, NEW b \in Nat \ {0}, NEW c \in Nat \ {0}
    PROVE  n \div (b * c) = (n \div b) \div c
<1> DEFINE m == n \div b
           r == n % b
           q == m \div c
           s == m % c
<1>1. m \in Nat /\ r \in 0 .. b - 1 /\ n = b * m + r
    OBVIOUS
<1> HIDE DEF m, r
<1>2. q \in Nat /\ s \in 0 .. c - 1 /\ m = c * q + s
    BY <1>1
<1> HIDE DEF q, s
<1>3. n = (r + b * s) + (b * c) * q
    <2>1. b * m = b * (c * q) + b * s
        BY <1>1, <1>2
    <2>2. b * (c * q) = (b * c) * q
        BY <1>2
    <2> QED
        BY <1>1, <1>2, <2>1, <2>2
<1>4. b * c \in Nat \ {0} /\ r + b * s \in 0 .. b * c - 1
    <2>1. b * c \in Nat \ {0} /\ b * s \in Nat
        BY <1>2
    <2>2. b * s <= b * (c - 1)
        BY <1>2
    <2>3. b * (c - 1) = b * c - b
        OBVIOUS
    <2> QED
        BY <1>1, <2>1, <2>2, <2>3
<1> DEFINE M == b * c
           x == r + b * s
<1>5. n = x + M * q /\ M \in Nat \ {0} /\ x \in 0 .. M - 1
    BY <1>3, <1>4
<1> HIDE DEF M, x
<1>6. n \div M = q
    BY <1>2, <1>5, QuotientIs
<1> QED
    BY <1>6 DEF M, q, m

----------------------------------------------------------------------------
(* Powers. *)

IsPowers(b, k, p) == p = [j \in 0 .. k |-> IF j = 0 THEN 1 ELSE b * p[j - 1]]

LEMMA PowersExist ==
    ASSUME NEW b \in Nat, NEW k \in Nat
    PROVE  \E p : IsPowers(b, k, p)
<1> DEFINE Without == {n \in Nat : ~\E p : IsPowers(b, n, p)}
<1>1. SUFFICES ASSUME Without # {} PROVE FALSE
    OBVIOUS
<1>2. PICK n \in Without : \A j \in Without : n <= j
    BY <1>1, Least
<1>3. n # 0
    <2> DEFINE p == [j \in 0 .. 0 |-> 1]
    <2>1. p = [j \in 0 .. 0 |-> IF j = 0 THEN 1 ELSE b * p[j - 1]]
        OBVIOUS
    <2> QED
        BY <1>2, <2>1 DEF IsPowers
<1>4. PICK p : IsPowers(b, n - 1, p)
    <2>1. n - 1 \in Nat /\ ~(n <= n - 1)
        BY <1>2, <1>3
    <2> QED
        BY <1>2, <2>1
<1> DEFINE g == [j \in 0 .. n |-> IF j = 0 THEN 1 ELSE b * p[j - 1]]
<1>5. \A j \in 0 .. n - 1 : g[j] = p[j]
    BY <1>2, <1>4 DEF IsPowers
<1>6. \A j \in 0 .. n : j # 0 => g[j - 1] = p[j - 1]
    <2> HIDE DEF g
    <2> SUFFICES ASSUME NEW j \in 0 .. n, j # 0 PROVE g[j - 1] = p[j - 1]
        OBVIOUS
    <2>1. j - 1 \in 0 .. n - 1
        BY <1>2
    <2> QED
        BY <1>5, <2>1
<1>7. g = [j \in 0 .. n |-> IF j = 0 THEN 1 ELSE b * g[j - 1]]
    BY <1>6
<1> HIDE DEF g
<1> QED
    BY <1>2, <1>7 DEF IsPowers

LEMMA PowersAgree ==
    ASSUME NEW b \in Nat, NEW k \in Nat, NEW l \in Nat, k <= l,
           NEW p, IsPowers(b, k, p), NEW q, IsPowers(b, l, q)
    PROVE  p[k] = q[k]
<1> DEFINE Differ == {j \in 0 .. k : p[j] # q[j]}
<1>1. SUFFICES ASSUME Differ # {} PROVE FALSE
    OBVIOUS
<1>2. PICK j \in Differ : \A v \in Differ : j <= v
    <2>1. Differ \subseteq Nat
        OBVIOUS
    <2> HIDE DEF Differ
    <2> QED
        BY <1>1, <2>1, Least
<1>3. /\ p[j] = IF j = 0 THEN 1 ELSE b * p[j - 1]
      /\ q[j] = IF j = 0 THEN 1 ELSE b * q[j - 1]
    BY <1>2 DEF IsPowers
<1>4. CASE j = 0
    BY <1>2, <1>3, <1>4
<1>5. CASE j # 0
    <2>1. j - 1 \in 0 .. k /\ ~(j <= j - 1)
        BY <1>2, <1>5
    <2>2. p[j - 1] = q[j - 1]
        BY <1>2, <2>1
    <2> QED
        BY <1>2, <1>3, <1>5, <2>2
<1> QED
    BY <1>4, <1>5

LEMMA PowerStep ==
    ASSUME NEW b \in Nat, NEW k \in Nat
    PROVE  Power(b, 0) = 1 /\ Power(b, k + 1) = b * Power(b, k)
<1> DEFINE P(n) == CHOOSE p : IsPowers(b, n, p)
<1>1. \A n \in Nat : Power(b, n) = P(n)[n]
    BY DEF Power, IsPowers
<1>2. \A n \in Nat : IsPowers(b, n, P(n))
    BY PowersExist
<1> HIDE DEF P
<1>3. P(0)[0] = 1
    BY <1>2 DEF IsPowers
<1>4. P(k + 1)[k + 1] = b * P(k + 1)[k]
    <2>1. k + 1 \in Nat /\ k + 1 \in 0 .. k + 1 /\ k + 1 # 0 /\ (k + 1) - 1 = k
        OBVIOUS
    <2> QED
        BY <1>2, <2>1 DEF IsPowers
<1>5. P(k)[k] = P(k + 1)[k]
    <2>1. k + 1 \in Nat /\ k <= k + 1
        OBVIOUS
    <2> QED
        BY <1>2, <2>1, PowersAgree
<1> QED
    BY <1>1, <1>3, <1>4, <1>5

(* Powers of a base of two or more grow. *)
LEMMA PowerGrows ==
    ASSUME NEW b \in Nat, b >= 2, NEW k \in Nat
    PROVE  Power(b, k) \in Nat /\ Power(b, k) > k
<1> DEFINE Fail == {n \in Nat : ~(Power(b, n) \in Nat /\ Power(b, n) > n)}
<1>1. SUFFICES ASSUME Fail # {} PROVE FALSE
    OBVIOUS
<1>2. PICK n \in Fail : \A j \in Fail : n <= j
    BY <1>1, Least
<1>3. n # 0
    BY <1>2, PowerStep
<1>4. n - 1 \in Nat /\ ~(n <= n - 1) /\ (n - 1) + 1 = n
    BY <1>2, <1>3
<1>5. Power(b, n - 1) \in Nat /\ Power(b, n - 1) > n - 1
    BY <1>2, <1>4
<1>6. Power(b, n) = b * Power(b, n - 1)
    BY <1>4, PowerStep
<1> DEFINE x == Power(b, n - 1)
<1>7. x \in Nat /\ x > n - 1 /\ Power(b, n) = b * x
    BY <1>5, <1>6
<1> HIDE DEF x
<1>8. b * x \in Nat /\ b * x >= 2 * x
    BY <1>7
<1> QED
    BY <1>2, <1>4, <1>7, <1>8

LEMMA PowerMonotonic ==
    ASSUME NEW b \in Nat, b >= 2, NEW k \in Nat, NEW l \in Nat, k <= l
    PROVE  Power(b, k) <= Power(b, l)
<1> DEFINE Fail == {n \in Nat : n >= k /\ ~(Power(b, k) <= Power(b, n))}
<1>1. SUFFICES ASSUME Fail # {} PROVE FALSE
    OBVIOUS
<1>2. PICK n \in Fail : \A j \in Fail : n <= j
    BY <1>1, Least
<1>3. n # k
    BY <1>2, PowerGrows
<1>4. n - 1 \in Nat /\ ~(n <= n - 1) /\ (n - 1) + 1 = n /\ n - 1 >= k
    BY <1>2, <1>3
<1>5. Power(b, k) <= Power(b, n - 1)
    BY <1>2, <1>4
<1>6. Power(b, n) = b * Power(b, n - 1) /\ Power(b, n - 1) \in Nat /\ Power(b, k) \in Nat
    BY <1>4, PowerStep, PowerGrows
<1>7. Power(b, n) >= Power(b, n - 1)
    <2> DEFINE x == Power(b, n - 1)
    <2>1. x \in Nat /\ Power(b, n) = b * x
        BY <1>6
    <2> HIDE DEF x
    <2>2. b * x >= x
        BY <2>1
    <2> QED
        BY <2>1, <2>2 DEF x
<1>8. Power(b, n) \in Nat
    BY <1>2, PowerGrows
<1> QED
    BY <1>2, <1>5, <1>6, <1>7, <1>8

----------------------------------------------------------------------------
(* Sequences. *)

LEMMA FunctionIsSeq ==
    ASSUME NEW S, NEW k \in Nat, NEW s \in [1 .. k -> S]
    PROVE  s \in Seq(S) /\ Len(s) = k
<1>1. s \in Seq(S)
    BY SeqDef
<1> QED
    BY <1>1, LenProperties

LEMMA OneMore ==
    ASSUME NEW S, NEW k \in Nat, NEW s \in [1 .. k -> S], NEW d \in S
    PROVE  s \o <<d>> = [j \in 1 .. k + 1 |-> IF j <= k THEN s[j] ELSE d]
<1> DEFINE t == [j \in 1 .. k + 1 |-> IF j <= k THEN s[j] ELSE d]
           u == <<d>>
<1>1. t \in [1 .. k + 1 -> S] /\ u \in [1 .. 1 -> S] /\ u[1] = d
    OBVIOUS
<1>2. \A j \in 1 .. k + 1 : t[j] = IF j <= k THEN s[j] ELSE d
    OBVIOUS
<1> HIDE DEF t, u
<1>3. t \in Seq(S) /\ Len(t) = k + 1 /\ u \in Seq(S) /\ Len(u) = 1
    <2>1. k + 1 \in Nat /\ 1 \in Nat
        OBVIOUS
    <2> QED
        BY <1>1, <2>1, FunctionIsSeq, Zenon
<1>4. s \in Seq(S) /\ Len(s) = k
    <2>1. s \in Seq(S)
        BY SeqDef
    <2> QED
        BY <2>1, LenProperties
<1>5. /\ s \o u \in Seq(S) /\ Len(s \o u) = k + 1
      /\ \A j \in 1 .. k + 1 : (s \o u)[j] = IF j <= k THEN s[j] ELSE u[j - k]
    <2>1. /\ s \o u \in Seq(S) /\ Len(s \o u) = Len(s) + Len(u)
          /\ \A j \in 1 .. Len(s) + Len(u) : (s \o u)[j] = IF j <= Len(s) THEN s[j] ELSE u[j - Len(s)]
        BY <1>3, <1>4, ConcatProperties, Zenon
    <2> QED
        BY <1>3, <1>4, <2>1
<1>6. \A j \in 1 .. k + 1 : (s \o u)[j] = t[j]
    <2> SUFFICES ASSUME NEW j \in 1 .. k + 1 PROVE (s \o u)[j] = t[j]
        OBVIOUS
    <2>1. CASE j <= k
        BY <1>2, <1>5, <2>1
    <2>2. CASE ~(j <= k)
        <3>1. j - k = 1
            BY <2>2
        <3> QED
            BY <1>1, <1>2, <1>5, <2>2, <3>1
    <2> QED
        BY <2>1, <2>2
<1>7. s \o u = t
    BY <1>3, <1>5, <1>6, SeqEqual
<1> QED
    BY <1>7 DEF t, u

LEMMA OneAlone ==
    ASSUME NEW S, NEW d \in S
    PROVE  <<d>> \in Seq(S) /\ Len(<<d>>) = 1 /\ <<d>>[1] = d
OBVIOUS

LEMMA ReverseIs ==
    ASSUME NEW S, NEW s \in Seq(S)
    PROVE  /\ Reverse(s) \in Seq(S) /\ Len(Reverse(s)) = Len(s)
           /\ \A j \in 1 .. Len(s) : Reverse(s)[j] = s[(Len(s) - j) + 1]
<1> DEFINE k == Len(s)
           t == [j \in 1 .. k |-> s[(k - j) + 1]]
<1>1. k \in Nat
    BY LenProperties
<1>2. Reverse(s) = t
    BY DEF Reverse
<1>3. \A j \in 1 .. k : s[(k - j) + 1] \in S
    <2> SUFFICES ASSUME NEW j \in 1 .. k PROVE s[(k - j) + 1] \in S
        OBVIOUS
    <2>1. (k - j) + 1 \in 1 .. Len(s)
        BY <1>1
    <2> QED
        BY <2>1, ElementOfSeq
<1> HIDE DEF k
<1>4. t \in [1 .. k -> S] /\ \A j \in 1 .. k : t[j] = s[(k - j) + 1]
    BY <1>3
<1> HIDE DEF t
<1>5. t \in Seq(S) /\ Len(t) = k
    BY <1>1, <1>4, FunctionIsSeq, Zenon
<1> QED
    BY <1>2, <1>4, <1>5 DEF k

LEMMA ReverseTwice ==
    ASSUME NEW S, NEW s \in Seq(S)
    PROVE  Reverse(Reverse(s)) = s
<1> DEFINE r == Reverse(s)
           u == Reverse(r)
           k == Len(s)
<1>1. r \in Seq(S) /\ Len(r) = k /\ \A j \in 1 .. k : r[j] = s[(k - j) + 1]
    BY ReverseIs
<1> HIDE DEF r
<1>2. u \in Seq(S) /\ Len(u) = Len(r) /\ \A j \in 1 .. Len(r) : u[j] = r[(Len(r) - j) + 1]
    BY <1>1, ReverseIs
<1> HIDE DEF u
<1>3. k \in Nat
    BY LenProperties
<1> HIDE DEF k
<1>4. \A j \in 1 .. k : u[j] = s[j]
    <2> SUFFICES ASSUME NEW j \in 1 .. k PROVE u[j] = s[j]
        OBVIOUS
    <2> DEFINE l == (k - j) + 1
    <2>1. l \in 1 .. k /\ (k - l) + 1 = j
        BY <1>3
    <2>2. u[j] = r[l]
        BY <1>1, <1>2
    <2> HIDE DEF l
    <2> QED
        BY <1>1, <2>1, <2>2
<1>5. u = s
    BY <1>1, <1>2, <1>4, SeqEqual DEF k
<1> QED
    BY <1>5 DEF u, r

(* The mirror image of a text with one more character at its end. *)
LEMMA ReverseOneMore ==
    ASSUME NEW S, NEW s \in Seq(S), NEW d \in S
    PROVE  Reverse(s \o <<d>>) = <<d>> \o Reverse(s)
<1> DEFINE o == <<d>>
           t == s \o o
           x == Reverse(t)
           r == Reverse(s)
           y == o \o r
           k == Len(s)
<1>1. o \in Seq(S) /\ Len(o) = 1 /\ o[1] = d
    BY OneAlone
<1> HIDE DEF o
<1>2. k \in Nat
    BY LenProperties
<1>3. /\ t \in Seq(S) /\ Len(t) = Len(s) + Len(o)
      /\ \A j \in 1 .. Len(s) + Len(o) : t[j] = IF j <= Len(s) THEN s[j] ELSE o[j - Len(s)]
    BY <1>1, ConcatProperties, Zenon
<1>4. r \in Seq(S) /\ Len(r) = k /\ \A j \in 1 .. k : r[j] = s[(k - j) + 1]
    BY ReverseIs
<1> HIDE DEF t, r
<1>5. x \in Seq(S) /\ Len(x) = Len(t) /\ \A j \in 1 .. Len(t) : x[j] = t[(Len(t) - j) + 1]
    BY <1>3, ReverseIs
<1>6. /\ y \in Seq(S) /\ Len(y) = Len(o) + Len(r)
      /\ \A j \in 1 .. Len(o) + Len(r) : y[j] = IF j <= Len(o) THEN o[j] ELSE r[j - Len(o)]
    <2>1. o \in Seq(S) /\ r \in Seq(S)
        BY <1>1, <1>4
    <2> QED
        BY <2>1, ConcatProperties, Zenon
<1> HIDE DEF x, y
<1>7. Len(t) = k + 1 /\ Len(x) = k + 1 /\ Len(y) = k + 1
    <2>1. Len(t) = k + 1
        BY <1>1, <1>3
    <2>2. Len(x) = k + 1
        BY <1>5, <2>1
    <2>3. Len(y) = 1 + k
        BY <1>1, <1>4, <1>6
    <2> QED
        BY <1>2, <2>1, <2>2, <2>3
<1>8. \A j \in 1 .. k + 1 : x[j] = y[j]
    <2> SUFFICES ASSUME NEW j \in 1 .. k + 1 PROVE x[j] = y[j]
        OBVIOUS
    <2> DEFINE l == (k + 1 - j) + 1
    <2>1. l \in 1 .. k + 1 /\ x[j] = t[l]
        BY <1>2, <1>5, <1>7
    <2>2. CASE j = 1
        <3>1. l = k + 1 /\ ~(l <= k) /\ l - k = 1
            BY <1>2, <2>2
        <3> HIDE DEF l
        <3>2. t[l] = o[1]
            BY <1>1, <1>2, <1>3, <3>1
        <3>3. y[j] = o[1]
            BY <1>1, <1>2, <1>4, <1>6, <2>2
        <3> QED
            BY <2>1, <3>2, <3>3
    <2>3. CASE j # 1
        <3> DEFINE v == j - 1
        <3>1. l <= k /\ v \in 1 .. k /\ (k - v) + 1 = l /\ ~(j <= 1)
            BY <1>2, <2>3
        <3> HIDE DEF l
        <3>2. t[l] = s[l]
            BY <1>1, <1>2, <1>3, <2>1, <3>1
        <3>3. y[j] = r[v]
            BY <1>1, <1>2, <1>4, <1>6, <1>7, <3>1
        <3> HIDE DEF v
        <3> QED
            BY <1>4, <2>1, <3>1, <3>2, <3>3
    <2> QED
        BY <2>2, <2>3
<1>9. x = y
    BY <1>5, <1>6, <1>7, <1>8, SeqEqual
<1> QED
    BY <1>9 DEF x, y, t, r, o

----------------------------------------------------------------------------
(* Numerals. *)

IsSize(b, n, k) ==
    /\ k \in 1 .. n + 1
    /\ Power(b, k) > n
    /\ k = 1 \/ Power(b, k - 1) <= n

LEMMA SizeExists ==
    ASSUME NEW b \in Nat, b >= 2, NEW n \in Nat
    PROVE  \E k : IsSize(b, n, k)
<1> DEFINE Enough == {k \in 1 .. n + 1 : Power(b, k) > n}
<1>1. n + 1 \in Enough
    BY PowerGrows
<1>2. PICK k \in Enough : \A j \in Enough : k <= j
    <2>1. Enough \subseteq Nat /\ Enough # {}
        BY <1>1
    <2> HIDE DEF Enough
    <2> QED
        BY <2>1, Least
<1>3. k # 1 => Power(b, k - 1) <= n
    <2> SUFFICES ASSUME k # 1 PROVE Power(b, k - 1) <= n
        OBVIOUS
    <2>1. k - 1 \in 1 .. n + 1 /\ ~(k <= k - 1) /\ k - 1 \in Nat
        BY <1>2
    <2>2. Power(b, k - 1) \in Nat
        BY <2>1, PowerGrows
    <2> QED
        BY <1>2, <2>1, <2>2
<1> QED
    BY <1>2, <1>3 DEF IsSize

LEMMA SizeUnique ==
    ASSUME NEW b \in Nat, b >= 2, NEW n \in Nat, NEW k, IsSize(b, n, k), NEW l, IsSize(b, n, l)
    PROVE  k = l
<1>1. ASSUME NEW v, IsSize(b, n, v), NEW j, IsSize(b, n, j) PROVE ~(v < j)
    <2> SUFFICES ASSUME v < j PROVE FALSE
        OBVIOUS
    <2>1. v \in Nat /\ j - 1 \in Nat /\ v <= j - 1 /\ j # 1
        BY <1>1 DEF IsSize
    <2>2. Power(b, v) <= Power(b, j - 1) /\ Power(b, v) \in Nat /\ Power(b, j - 1) \in Nat
        BY <2>1, PowerMonotonic, PowerGrows
    <2> QED
        BY <1>1, <2>1, <2>2 DEF IsSize
<1>2. k \in Int /\ l \in Int
    BY DEF IsSize
<1> QED
    BY <1>1, <1>2

LEMMA NumeralIs ==
    ASSUME NEW b \in Nat, b >= 2, NEW n \in Nat, NEW k, IsSize(b, n, k)
    PROVE  Numeral(n, b) = [j \in 1 .. k |-> Digit((n \div Power(b, k - j)) % b)]
<1> DEFINE s == CHOOSE j \in 1 .. n + 1 : /\ Power(b, j) > n
                                         /\ (j = 1 \/ Power(b, j - 1) <= n)
<1>1. IsSize(b, n, s)
    BY DEF IsSize
<1>2. Numeral(n, b) = [j \in 1 .. s |-> Digit((n \div Power(b, s - j)) % b)]
    BY DEF Numeral
<1> HIDE DEF s
<1>3. s = k
    BY <1>1, SizeUnique
<1> QED
    BY <1>2, <1>3

(* A number that is a digit. *)
LEMMA NumeralOfDigit ==
    ASSUME NEW b \in Nat, b >= 2, NEW n \in Nat, n < b
    PROVE  Numeral(n, b) = <<Digit(n)>>
<1>1. Power(b, 0) = 1 /\ Power(b, 1) = b
    <2>1. Power(b, 0) = 1 /\ Power(b, 0 + 1) = b * Power(b, 0)
        BY PowerStep
    <2> QED
        BY <2>1
<1>2. IsSize(b, n, 1)
    BY <1>1 DEF IsSize
<1>3. Numeral(n, b) = [j \in 1 .. 1 |-> Digit((n \div Power(b, 1 - j)) % b)]
    <2>1. \A k : IsSize(b, n, k) =>
            Numeral(n, b) = [j \in 1 .. k |-> Digit((n \div Power(b, k - j)) % b)]
        BY NumeralIs
    <2> QED
        BY <1>2, <2>1
<1>4. \A j \in 1 .. 1 : Digit((n \div Power(b, 1 - j)) % b) = Digit(n)
    <2>1. (n \div 1) % b = n
        OBVIOUS
    <2>2. \A j \in 1 .. 1 : 1 - j = 0
        OBVIOUS
    <2> QED
        BY <1>1, <2>1, <2>2
<1>5. Numeral(n, b) = [j \in 1 .. 1 |-> Digit(n)]
    BY <1>3, <1>4
<1> QED
    BY <1>5

(* The numeral of a greater one is that of its quotient and a last digit. *)
LEMMA NumeralOfQuotient ==
    ASSUME NEW b \in Nat, b >= 2, NEW n \in Nat, n >= b
    PROVE  Numeral(n, b) = Numeral(n \div b, b) \o <<Digit(n % b)>>
<1> DEFINE m == n \div b
           r == n % b
<1>1. m \in Nat /\ r \in 0 .. b - 1 /\ n = b * m + r
    OBVIOUS
<1>2. m >= 1
    <2> HIDE DEF m, r
    <2>1. m = 0 => b * m = 0
        OBVIOUS
    <2> QED
        BY <1>1, <2>1
<1>3. PICK k : IsSize(b, m, k)
    BY <1>1, SizeExists
<1>4. /\ k \in Nat /\ k >= 1
      /\ Power(b, k) \in Nat /\ Power(b, k + 1) \in Nat /\ Power(b, k - 1) \in Nat
      /\ Power(b, k + 1) = b * Power(b, k) /\ Power(b, k) = b * Power(b, k - 1)
    <2>1. k \in Nat /\ k >= 1 /\ k - 1 \in Nat /\ k + 1 \in Nat /\ (k - 1) + 1 = k
        BY <1>1, <1>3 DEF IsSize
    <2> QED
        BY <2>1, PowerStep, PowerGrows
<1>5. IsSize(b, n, k + 1)
    <2> HIDE DEF m, r
    <2>1. Power(b, k + 1) > n
        <3> DEFINE x == Power(b, k)
        <3>1. x \in Nat /\ m < x /\ Power(b, k + 1) = b * x
            BY <1>1, <1>3, <1>4 DEF IsSize
        <3> HIDE DEF x
        <3>2. b * (m + 1) <= b * x
            BY <1>1, <3>1
        <3>3. b * (m + 1) = b * m + b /\ b * m \in Nat /\ b * x \in Nat
            BY <1>1, <3>1
        <3> QED
            BY <1>1, <3>1, <3>2, <3>3
    <2>2. Power(b, k) <= n
        <3> DEFINE y == Power(b, k - 1)
        <3>1. y \in Nat /\ y <= m /\ Power(b, k) = b * y
            <4>1. CASE k = 1
                <5>1. y = 1
                    BY <4>1, PowerStep
                <5> QED
                    BY <1>2, <1>4, <5>1
            <4>2. CASE k # 1
                BY <1>3, <1>4, <4>2 DEF IsSize
            <4> QED
                BY <4>1, <4>2
        <3> HIDE DEF y
        <3>2. b * y <= b * m /\ b * y \in Nat /\ b * m \in Nat
            BY <1>1, <3>1
        <3> QED
            BY <1>1, <3>1, <3>2
    <2>3. k + 1 \in 1 .. n + 1
        <3>1. k <= m + 1
            BY <1>1, <1>3 DEF IsSize
        <3>2. b * m >= 2 * m /\ b * m \in Nat
            BY <1>1
        <3> QED
            BY <1>1, <1>2, <1>4, <3>1, <3>2
    <2> QED
        BY <1>4, <2>1, <2>2, <2>3 DEF IsSize
<1> DEFINE D(x) == Digit(x % b)
           s == [j \in 1 .. k |-> D(m \div Power(b, k - j))]
           t == [j \in 1 .. k + 1 |-> D(n \div Power(b, (k + 1) - j))]
<1>6. Numeral(m, b) = s /\ Numeral(n, b) = t
    BY <1>1, <1>3, <1>5, NumeralIs
<1>7. \A j \in 1 .. k : D(n \div Power(b, (k + 1) - j)) = D(m \div Power(b, k - j))
    <2> SUFFICES ASSUME NEW j \in 1 .. k
                 PROVE  n \div Power(b, (k + 1) - j) = m \div Power(b, k - j)
        OBVIOUS
    <2> DEFINE e == k - j
    <2>1. e \in Nat /\ (k + 1) - j = e + 1
        BY <1>4
    <2> HIDE DEF e
    <2> DEFINE x == Power(b, e)
    <2>2. x \in Nat \ {0} /\ Power(b, e + 1) = b * x
        <3>1. x \in Nat /\ x > e
            BY <2>1, PowerGrows
        <3>2. Power(b, e + 1) = b * x
            BY <2>1, PowerStep, Zenon
        <3> QED
            BY <2>1, <3>1, <3>2
    <2> HIDE DEF x
    <2>3. n \div (b * x) = (n \div b) \div x
        <3>1. b \in Nat \ {0}
            OBVIOUS
        <3> QED
            BY <2>2, <3>1, QuotientOfQuotient, Zenon
    <2> QED
        BY <2>1, <2>2, <2>3 DEF x, e
<1>8. D(n \div Power(b, (k + 1) - (k + 1))) = Digit(r)
    <2>1. (k + 1) - (k + 1) = 0 /\ Power(b, 0) = 1
        BY <1>4, PowerStep
    <2>2. n \div 1 = n
        OBVIOUS
    <2> QED
        BY <2>1, <2>2
<1> HIDE DEF D, m, r
<1>9. t = s \o <<Digit(r)>>
    <2>1. t = [j \in 1 .. k + 1 |-> IF j <= k THEN s[j] ELSE Digit(r)]
        <3>1. \A j \in 1 .. k + 1 : D(n \div Power(b, (k + 1) - j)) = IF j <= k THEN s[j] ELSE Digit(r)
            <4> SUFFICES ASSUME NEW j \in 1 .. k + 1
                         PROVE  D(n \div Power(b, (k + 1) - j)) = IF j <= k THEN s[j] ELSE Digit(r)
                OBVIOUS
            <4>1. CASE j <= k
                BY <1>4, <1>7, <4>1
            <4>2. CASE ~(j <= k)
                <5>1. j = k + 1
                    BY <1>4, <4>2
                <5> QED
                    BY <1>4, <1>8, <4>2, <5>1
            <4> QED
                BY <4>1, <4>2
        <3> QED
            BY <3>1
    <2> DEFINE S == {s[j] : j \in 1 .. k} \union {Digit(r)}
    <2>2. s \in [1 .. k -> S] /\ Digit(r) \in S
        OBVIOUS
    <2> HIDE DEF s, t, S
    <2> QED
        BY <1>4, <2>1, <2>2, OneMore
<1> QED
    BY <1>6, <1>9 DEF m, r

LEMMA DigitType ==
    ASSUME NEW d \in 0 .. 15
    PROVE  Digit(d) \in Characters
<1>1. d + 1 \in 1 .. 16
    OBVIOUS
<1>2. {Numerals[j] : j \in 1 .. 16} \subseteq Characters
    BY PrintfAssumption
<1> QED
    BY <1>1, <1>2 DEF Digit

LEMMA NumeralType ==
    ASSUME NEW b \in 2 .. 16, NEW n \in Nat
    PROVE  Numeral(n, b) \in Seq(Characters) /\ Len(Numeral(n, b)) >= 1
<1>1. PICK k : IsSize(b, n, k)
    BY SizeExists
<1>2. k \in Nat /\ k >= 1
    BY <1>1 DEF IsSize
<1> DEFINE t == [j \in 1 .. k |-> Digit((n \div Power(b, k - j)) % b)]
<1>3. Numeral(n, b) = t
    BY <1>1, NumeralIs
<1>4. ASSUME NEW j \in 1 .. k PROVE Digit((n \div Power(b, k - j)) % b) \in Characters
    <2> DEFINE x == Power(b, k - j)
               y == n \div x
    <2>1. k - j \in Nat
        BY <1>2
    <2>2. x \in Nat /\ x > 0
        BY <2>1, PowerGrows
    <2> HIDE DEF x
    <2>3. y \in Nat
        BY <2>2
    <2> HIDE DEF y
    <2>4. y % b \in 0 .. 15
        BY <2>3
    <2> QED
        BY <2>4, DigitType DEF x, y
<1>5. t \in [1 .. k -> Characters]
    BY <1>4
<1> HIDE DEF t
<1>6. t \in Seq(Characters) /\ Len(t) = k
    BY <1>2, <1>5, FunctionIsSeq, Zenon
<1> QED
    BY <1>2, <1>3, <1>6

(* divmod10 divides every number by ten. *)
LEMMA DivMod10Divides ==
    ASSUME NEW n \in Nat
    PROVE  DivMod10(n).quotient = n \div 10 /\ DivMod10(n).rem = n % 10
<1> DEFINE t == n \div 1000
           r == n % 1000
           h == r \div 100
           s == r % 100
<1>1. t \in Nat /\ r \in 0 .. 999 /\ n = 1000 * t + r
    OBVIOUS
<1> HIDE DEF t, r
<1>2. h \in Nat /\ s \in 0 .. 99 /\ r = 100 * h + s
    BY <1>1
<1> HIDE DEF h, s
<1>3. n % 100 = s
    BY <1>1, <1>2
<1>4. n \div 10 = 100 * t + 10 * h + s \div 10
    BY <1>1, <1>2
<1> QED
    BY <1>3, <1>4 DEF DivMod10, t, r, h, s

(* The digits as the conversions find them. *)
IsDigits(b, D) ==
    D = [n \in Words |-> IF n = 0 THEN <<>> ELSE <<Digit(n % b)>> \o D[n \div b]]

LEMMA WordQuotient ==
    ASSUME NEW b \in 2 .. 16, NEW n \in Words \ {0}
    PROVE  n \div b \in Words /\ n \div b < n /\ n % b \in 0 .. 15
<1>1. Half \in Nat
    BY PrintfAssumption
<1> DEFINE q == n \div b
           r == n % b
<1>2. n \in Nat \ {0} /\ n < 2 * Half
    BY <1>1 DEF Words
<1>3. q \in Nat /\ r \in 0 .. b - 1 /\ n = b * q + r
    BY <1>2
<1> HIDE DEF q, r
<1>4. b * q >= 2 * q /\ b * q \in Nat
    BY <1>3
<1>5. q < n /\ r \in 0 .. 15
    BY <1>2, <1>3, <1>4
<1> QED
    BY <1>1, <1>2, <1>3, <1>5 DEF q, r, Words

LEMMA DigitsAre ==
    ASSUME NEW b \in 2 .. 16
    PROVE  IsDigits(b, [n \in Words |-> IF n = 0 THEN <<>> ELSE Reverse(Numeral(n, b))])
<1> DEFINE N(n) == Numeral(n, b)
           g == [n \in Words |-> IF n = 0 THEN <<>> ELSE Reverse(N(n))]
<1>1. \A n \in Words : n \in Nat
    BY PrintfAssumption DEF Words
<1>2. ASSUME NEW n \in Words \ {0}
      PROVE  Reverse(N(n)) = <<Digit(n % b)>> \o g[n \div b]
    <2>1. n \div b \in Words /\ n \div b < n /\ n % b \in 0 .. 15 /\ n \in Nat
        BY <1>1, WordQuotient
    <2>2. g[n \div b] = IF n \div b = 0 THEN <<>> ELSE Reverse(N(n \div b))
        BY <2>1
    <2> HIDE DEF g
    <2>3. CASE n < b
        <3>1. n \div b = 0 /\ n % b = n
            BY <2>1, <2>3
        <3>2. N(n) = <<Digit(n)>>
            BY <2>1, <2>3, NumeralOfDigit
        <3>3. Reverse(<<Digit(n)>>) = <<Digit(n)>> /\ <<Digit(n)>> \o <<>> = <<Digit(n)>>
            <4>1. Digit(n) \in Characters
                BY <2>1, <3>1, DigitType
            <4> DEFINE d == Digit(n)
            <4> HIDE DEF d
            <4>2. <<d>> \in Seq(Characters) /\ <<>> \in Seq(Characters)
                BY <4>1, EmptySeq DEF d
            <4>3. <<>> \o <<d>> = <<d>> /\ <<d>> \o <<>> = <<d>>
                BY <4>2, ConcatEmptySeq
            <4>4. Reverse(<<>> \o <<d>>) = <<d>> \o Reverse(<<>>)
                BY <4>1, <4>2, ReverseOneMore DEF d
            <4>5. Reverse(<<>>) = <<>>
                <5>1. Reverse(<<>>) \in Seq(Characters) /\ Len(Reverse(<<>>)) = 0
                    BY <4>2, ReverseIs, EmptySeq
                <5> QED
                    BY <5>1, EmptySeq
            <4> QED
                BY <4>3, <4>4, <4>5 DEF d
        <3> QED
            BY <2>2, <3>1, <3>2, <3>3
    <2>4. CASE ~(n < b)
        <3> DEFINE q == n \div b
                   d == Digit(n % b)
        <3>1. q \in Nat /\ q # 0
            <4> DEFINE r == n % b
            <4>1. q \in Nat /\ r \in 0 .. b - 1 /\ n = b * q + r
                BY <2>1
            <4> HIDE DEF q, r
            <4>2. q = 0 => b * q = 0
                OBVIOUS
            <4> QED
                BY <2>1, <2>4, <4>1, <4>2
        <3>2. N(n) = N(q) \o <<d>>
            BY <2>1, <2>4, NumeralOfQuotient
        <3>3. N(q) \in Seq(Characters) /\ d \in Characters
            BY <2>1, <3>1, NumeralType, DigitType
        <3>4. Reverse(N(q) \o <<d>>) = <<d>> \o Reverse(N(q))
            <4> HIDE DEF N, d
            <4> QED
                BY <3>3, ReverseOneMore
        <3> QED
            BY <2>2, <3>1, <3>2, <3>4
    <2> QED
        BY <2>3, <2>4
<1>3. g = [n \in Words |-> IF n = 0 THEN <<>> ELSE <<Digit(n % b)>> \o g[n \div b]]
    BY <1>2
<1>4. IsDigits(b, g)
    <2> HIDE DEF g
    <2> QED
        BY <1>3 DEF IsDigits
<1> QED
    BY <1>4

LEMMA DigitsAgree ==
    ASSUME NEW b \in 2 .. 16, NEW D, IsDigits(b, D), NEW E, IsDigits(b, E)
    PROVE  D = E
<1> DEFINE Differ == {n \in Words : D[n] # E[n]}
<1>1. \A n \in Words : n \in Nat
    BY PrintfAssumption DEF Words
<1>2. Differ = {}
    <2> SUFFICES ASSUME Differ # {} PROVE FALSE
        OBVIOUS
    <2>1. PICK n \in Differ : \A v \in Differ : n <= v
        <3>1. Differ \subseteq Nat
            BY <1>1
        <3> HIDE DEF Differ
        <3> QED
            BY <3>1, Least
    <2>2. /\ D[n] = IF n = 0 THEN <<>> ELSE <<Digit(n % b)>> \o D[n \div b]
          /\ E[n] = IF n = 0 THEN <<>> ELSE <<Digit(n % b)>> \o E[n \div b]
        BY <2>1 DEF IsDigits
    <2>3. n # 0
        BY <2>1, <2>2
    <2>4. n \div b \in Words /\ n \div b < n /\ n \in Nat /\ n \div b \in Nat
        BY <1>1, <2>1, <2>3, WordQuotient
    <2>5. D[n \div b] = E[n \div b]
        <3> DEFINE q == n \div b
        <3>1. q \in Words /\ ~(n <= q)
            BY <2>4
        <3> HIDE DEF q
        <3>2. D[q] = E[q]
            BY <2>1, <3>1
        <3> QED
            BY <3>2 DEF q
    <2> QED
        BY <2>1, <2>2, <2>3, <2>5
<1>3. D = [n \in Words |-> D[n]] /\ E = [n \in Words |-> E[n]]
    BY DEF IsDigits
<1> QED
    BY <1>2, <1>3

LEMMA DigitsOf ==
    ASSUME NEW b \in 2 .. 16, NEW D, IsDigits(b, D), NEW n \in Words \ {0}
    PROVE  D[n] \in Seq(Characters) /\ Reverse(D[n]) = Numeral(n, b)
<1> DEFINE g == [v \in Words |-> IF v = 0 THEN <<>> ELSE Reverse(Numeral(v, b))]
<1>1. D = g
    BY DigitsAre, DigitsAgree
<1>2. n \in Nat
    BY PrintfAssumption DEF Words
<1>3. Numeral(n, b) \in Seq(Characters)
    BY <1>2, NumeralType
<1> DEFINE N == Numeral(n, b)
<1>4. D[n] = Reverse(N)
    BY <1>1
<1>5. N \in Seq(Characters)
    BY <1>3
<1> HIDE DEF N
<1>6. Reverse(N) \in Seq(Characters) /\ Reverse(Reverse(N)) = N
    BY <1>5, ReverseIs, ReverseTwice
<1> QED
    BY <1>4, <1>6 DEF N

(* The digits the code finds are those of the numeral. *)
LEMMA DecimalDigitsAre == IsDigits(10, DecimalDigits)
<1> DEFINE IsDecimal(D) ==
               D = [n \in Words |-> IF n = 0 THEN <<>>
                                    ELSE <<Digit(DivMod10(n).rem)>> \o D[DivMod10(n).quotient]]
<1>1. DecimalDigits = CHOOSE D : IsDecimal(D)
    BY DEF DecimalDigits
<1>2. \A n \in Words : DivMod10(n).quotient = n \div 10 /\ DivMod10(n).rem = n % 10
    <2>1. \A n \in Words : n \in Nat
        BY PrintfAssumption DEF Words
    <2> QED
        BY <2>1, DivMod10Divides
<1>3. \A D : IsDecimal(D) <=> IsDigits(10, D)
    <2> SUFFICES ASSUME NEW D PROVE IsDecimal(D) <=> IsDigits(10, D)
        OBVIOUS
    <2> DEFINE e == [n \in Words |-> IF n = 0 THEN <<>>
                                     ELSE <<Digit(DivMod10(n).rem)>> \o D[DivMod10(n).quotient]]
               f == [n \in Words |-> IF n = 0 THEN <<>> ELSE <<Digit(n % 10)>> \o D[n \div 10]]
    <2>1. e = f
        BY <1>2
    <2> QED
        BY <2>1 DEF IsDigits
<1>4. \E D : IsDigits(10, D)
    BY DigitsAre
<1> HIDE DEF IsDecimal
<1>5. IsDecimal(DecimalDigits)
    BY <1>1, <1>3, <1>4
<1> QED
    BY <1>3, <1>5

LEMMA HexDigitsAre == IsDigits(16, HexDigits)
<1>1. HexDigits = CHOOSE D : IsDigits(16, D)
    BY DEF HexDigits, IsDigits
<1>2. \E D : IsDigits(16, D)
    BY DigitsAre
<1> QED
    BY <1>1, <1>2

LEMMA NumeralOfZero ==
    ASSUME NEW b \in 2 .. 16
    PROVE  Numeral(0, b) = <<"0">>
<1>1. Numeral(0, b) = <<Digit(0)>>
    BY NumeralOfDigit
<1> QED
    BY <1>1 DEF Digit, Numerals

(* What the conversions of numbers give is the numeral of the number. *)
LEMMA UnsignedTextIs ==
    ASSUME NEW n \in Words
    PROVE  UnsignedText(n) = Numeral(n, 10)
<1>1. CASE n = 0
    BY <1>1, NumeralOfZero DEF UnsignedText
<1>2. CASE n # 0
    BY <1>2, DecimalDigitsAre, DigitsOf DEF UnsignedText
<1> QED
    BY <1>1, <1>2

LEMMA HexTextIs ==
    ASSUME NEW n \in Words
    PROVE  HexText(n) = Numeral(n, 16)
<1>1. CASE n = 0
    BY <1>1, NumeralOfZero DEF HexText
<1>2. CASE n # 0
    <2>1. Reverse(HexDigits[n]) = Numeral(n, 16)
        BY <1>2, HexDigitsAre, DigitsOf
    <2> QED
        BY <1>2, <2>1 DEF HexText
<1> QED
    BY <1>1, <1>2

LEMMA SignedTextIs ==
    ASSUME NEW n \in Words
    PROVE  /\ SignedText(n) \in Seq(Characters)
           /\ n # Half => SignedText(n) = SignedNumeral(n)
<1>1. Half \in Nat \ {0} /\ n \in Nat /\ "-" \in Characters
    BY PrintfAssumption DEF Words
<1>2. CASE n < Half
    <2>1. SignedText(n) = Numeral(n, 10)
        BY <1>2, UnsignedTextIs DEF SignedText
    <2>2. Numeral(n, 10) \in Seq(Characters)
        BY <1>1, NumeralType
    <2> QED
        BY <1>2, <2>1, <2>2 DEF SignedNumeral
<1>3. CASE ~(n < Half)
    <2> DEFINE v == 2 * Half - n
               d == IF n = Half THEN <<>> ELSE DecimalDigits[v]
    <2>1. SignedText(n) = Reverse(d \o <<"-">>)
        BY <1>3 DEF SignedText
    <2>2. v \in Words \ {0}
        <3>1. n <= 2 * Half - 1
            BY <1>1 DEF Words
        <3> QED
            BY <1>1, <1>3, <3>1 DEF Words
    <2> HIDE DEF v
    <2>3. DecimalDigits[v] \in Seq(Characters) /\ Reverse(DecimalDigits[v]) = Numeral(v, 10)
        BY <2>2, DecimalDigitsAre, DigitsOf
    <2>4. d \in Seq(Characters)
        BY <2>3, EmptySeq
    <2>5. n # Half => Reverse(d) = Numeral(v, 10)
        BY <2>3
    <2> HIDE DEF d
    <2>6. Reverse(d \o <<"-">>) = <<"-">> \o Reverse(d)
        BY <1>1, <2>4, ReverseOneMore
    <2>7. <<"-">> \o Reverse(d) \in Seq(Characters)
        <3>1. <<"-">> \in Seq(Characters) /\ Reverse(d) \in Seq(Characters)
            BY <1>1, <2>4, OneAlone, ReverseIs
        <3> QED
            BY <3>1, ConcatProperties
    <2>8. SignedNumeral(n) = <<"-">> \o Numeral(v, 10)
        BY <1>3 DEF SignedNumeral, v
    <2> QED
        BY <2>1, <2>5, <2>6, <2>7, <2>8
<1> QED
    BY <1>2, <1>3

(* The conversions of printf give the numeral of every word, and of every one  *)
(* but the least as a signed number: by loops that find the last digit first, *)
(* and a division by ten that subtracts in chunks.                          *)
THEOREM ConversionsGiveNumerals ==
    \A n \in Words :
        /\ UnsignedText(n) = Numeral(n, 10)
        /\ HexText(n) = Numeral(n, 16)
        /\ n # Half => SignedText(n) = SignedNumeral(n)
BY UnsignedTextIs, HexTextIs, SignedTextIs

----------------------------------------------------------------------------
(* Widths. *)

(* A memory that ends in a terminator. *)
IsMemory(m) == m \in Seq(Characters) /\ Len(m) \in Nat \ {0} /\ m[Len(m)] = NUL

IsEnd(m, p, q) == q \in p .. Len(m) /\ ~IsDigit(m[q]) /\ \A r \in p .. q - 1 : IsDigit(m[r])

LEMMA NoDigitEnds == ~IsDigit(NUL)
<1> SUFFICES ASSUME NEW d \in 0 .. 9, NUL = Digit(d) PROVE FALSE
    BY DEF IsDigit
<1>1. d + 1 \in 1 .. 16 /\ NUL = Numerals[d + 1]
    BY DEF Digit
<1>2. NUL \notin {Numerals[j] : j \in 1 .. 16}
    BY PrintfAssumption
<1> QED
    BY <1>1, <1>2

LEMMA EndOfWidthIs ==
    ASSUME NEW m, IsMemory(m), NEW p \in 1 .. Len(m)
    PROVE  IsEnd(m, p, EndOfWidth(m, p))
<1> DEFINE Ends == {q \in p .. Len(m) : ~IsDigit(m[q])}
<1>1. Ends \subseteq Nat /\ Len(m) \in Ends
    BY NoDigitEnds DEF IsMemory
<1>2. PICK q \in Ends : \A r \in Ends : q <= r
    <2> HIDE DEF Ends
    <2> QED
        BY <1>1, Least
<1>3. \A r \in p .. q - 1 : IsDigit(m[r])
    <2> SUFFICES ASSUME NEW r \in p .. q - 1, ~IsDigit(m[r]) PROVE FALSE
        OBVIOUS
    <2>1. q \in p .. Len(m) /\ Len(m) \in Nat
        BY <1>2 DEF IsMemory
    <2>2. r \in p .. Len(m) /\ ~(q <= r)
        BY <2>1
    <2> QED
        BY <1>2, <2>2
<1>4. IsEnd(m, p, q)
    BY <1>2, <1>3 DEF IsEnd
<1>5. EndOfWidth(m, p) = CHOOSE r : IsEnd(m, p, r)
    BY DEF EndOfWidth, IsEnd
<1> QED
    BY <1>4, <1>5

LEMMA DigitValueType ==
    ASSUME NEW d, IsDigit(d)
    PROVE  DigitValue(d) \in 0 .. 9
BY DEF IsDigit, DigitValue

IsValue(m, p, u, f) ==
    f = [q \in p - 1 .. u |-> IF q < p THEN 0 ELSE 10 * f[q - 1] + DigitValue(m[q])]

LEMMA ValuesExist ==
    ASSUME NEW m, NEW p \in Nat \ {0}, NEW u \in Nat, u >= p - 1
    PROVE  \E f : IsValue(m, p, u, f)
<1> DEFINE Without == {n \in Nat : n >= p - 1 /\ ~\E f : IsValue(m, p, n, f)}
<1>1. SUFFICES ASSUME Without # {} PROVE FALSE
    OBVIOUS
<1>2. PICK n \in Without : \A v \in Without : n <= v
    BY <1>1, Least
<1>3. n # p - 1
    <2> DEFINE f == [q \in p - 1 .. p - 1 |-> 0]
    <2>1. f = [q \in p - 1 .. p - 1 |-> IF q < p THEN 0 ELSE 10 * f[q - 1] + DigitValue(m[q])]
        OBVIOUS
    <2> HIDE DEF f
    <2> QED
        BY <1>2, <2>1 DEF IsValue
<1>4. PICK f : IsValue(m, p, n - 1, f)
    <2>1. n - 1 \in Nat /\ n - 1 >= p - 1 /\ ~(n <= n - 1)
        BY <1>2, <1>3
    <2> QED
        BY <1>2, <2>1
<1> DEFINE g == [q \in p - 1 .. n |-> IF q < p THEN 0 ELSE 10 * f[q - 1] + DigitValue(m[q])]
<1>5. \A q \in p - 1 .. n - 1 : g[q] = f[q]
    BY <1>2, <1>4 DEF IsValue
<1>6. \A q \in p - 1 .. n : ~(q < p) => g[q - 1] = f[q - 1]
    <2> HIDE DEF g
    <2> SUFFICES ASSUME NEW q \in p - 1 .. n, ~(q < p) PROVE g[q - 1] = f[q - 1]
        OBVIOUS
    <2>1. q - 1 \in p - 1 .. n - 1
        BY <1>2
    <2> QED
        BY <1>5, <2>1
<1>7. g = [q \in p - 1 .. n |-> IF q < p THEN 0 ELSE 10 * g[q - 1] + DigitValue(m[q])]
    BY <1>6
<1> HIDE DEF g
<1> QED
    BY <1>2, <1>7 DEF IsValue

LEMMA WidthType ==
    ASSUME NEW m, IsMemory(m), NEW p \in 1 .. Len(m)
    PROVE  Width(m, p) \in Nat
<1> DEFINE u == EndOfWidth(m, p) - 1
           f == CHOOSE g : IsValue(m, p, u, g)
<1>1. IsEnd(m, p, EndOfWidth(m, p))
    BY EndOfWidthIs
<1>2. u \in Nat /\ u >= p - 1 /\ p \in Nat \ {0} /\ \A r \in p .. u : IsDigit(m[r])
    BY <1>1 DEF IsMemory, IsEnd
<1>3. Width(m, p) = f[u]
    BY DEF Width, IsValue
<1> HIDE DEF u
<1>4. IsValue(m, p, u, f)
    BY <1>2, ValuesExist
<1> HIDE DEF f
<1> DEFINE Fail == {q \in p - 1 .. u : f[q] \notin Nat}
<1>5. Fail = {}
    <2> SUFFICES ASSUME Fail # {} PROVE FALSE
        OBVIOUS
    <2>1. PICK q \in Fail : \A v \in Fail : q <= v
        <3>1. Fail \subseteq Nat
            BY <1>2
        <3> HIDE DEF Fail
        <3> QED
            BY <3>1, Least
    <2>2. f[q] = IF q < p THEN 0 ELSE 10 * f[q - 1] + DigitValue(m[q])
        BY <1>4, <2>1 DEF IsValue
    <2>3. ~(q < p)
        BY <2>1, <2>2
    <2>4. q - 1 \in p - 1 .. u /\ ~(q <= q - 1) /\ q \in p .. u
        BY <1>2, <2>1, <2>3
    <2>5. f[q - 1] \in Nat
        BY <2>1, <2>4
    <2>6. DigitValue(m[q]) \in 0 .. 9
        BY <1>2, <2>4, DigitValueType
    <2> DEFINE x == f[q - 1]
               d == DigitValue(m[q])
    <2>7. f[q] = 10 * x + d
        BY <2>2, <2>3
    <2>8. x \in Nat /\ d \in Nat
        BY <2>5, <2>6
    <2> HIDE DEF x, d
    <2>9. f[q] \in Nat
        BY <2>7, <2>8
    <2> QED
        BY <2>1, <2>9
<1> QED
    BY <1>2, <1>3, <1>5

LEMMA PaddedType ==
    ASSUME NEW w \in Nat, NEW t \in Seq(Characters)
    PROVE  Padded(w, t) \in Seq(Characters)
<1>1. "0" \in Characters
    <2>1. {Numerals[d] : d \in 1 .. 16} \subseteq Characters
        BY PrintfAssumption
    <2> QED
        BY <2>1 DEF Numerals
<1>2. Len(t) \in Nat
    BY LenProperties
<1> DEFINE k == IF w <= Len(t) THEN 0 ELSE w - Len(t)
           z == [j \in 1 .. w - Len(t) |-> "0"]
<1>3. k \in Nat /\ 1 .. w - Len(t) = 1 .. k
    BY <1>2
<1>4. z \in [1 .. k -> Characters]
    BY <1>1, <1>3
<1> HIDE DEF k, z
<1>5. z \in Seq(Characters)
    BY <1>3, <1>4, FunctionIsSeq, Zenon
<1> QED
    BY <1>5, ConcatProperties DEF Padded, z

----------------------------------------------------------------------------
(* Texts that are cut off. *)

LEMMA CutIs ==
    ASSUME NEW S, NEW s \in Seq(S), NEW n \in Nat
    PROVE  /\ Cut(s, n) \in Seq(S)
           /\ Len(Cut(s, n)) = IF Len(s) <= n THEN Len(s) ELSE n
           /\ \A j \in 1 .. Len(Cut(s, n)) : Cut(s, n)[j] = s[j]
<1>1. Len(s) \in Nat
    BY LenProperties
<1>2. CASE Len(s) <= n
    BY <1>2 DEF Cut
<1>3. CASE ~(Len(s) <= n)
    <2> DEFINE t == [j \in 1 .. n |-> s[j]]
    <2>1. Cut(s, n) = t
        BY <1>1, <1>3, SubSeqProperties DEF Cut
    <2>2. \A j \in 1 .. n : s[j] \in S
        BY <1>1, <1>3, ElementOfSeq
    <2>3. t \in [1 .. n -> S] /\ \A j \in 1 .. n : t[j] = s[j]
        BY <2>2
    <2> HIDE DEF t
    <2>4. t \in Seq(S) /\ Len(t) = n
        BY <2>3, FunctionIsSeq, Zenon
    <2> QED
        BY <1>3, <2>1, <2>3, <2>4
<1> QED
    BY <1>2, <1>3

(* What is cut off before and what is cut off behind a text that follows. *)
LEMMA CutTwice ==
    ASSUME NEW S, NEW s \in Seq(S), NEW t \in Seq(S), NEW n \in Nat
    PROVE  Cut(Cut(s, n) \o t, n) = Cut(s \o t, n)
<1> DEFINE r == Cut(s, n)
           x == r \o t
           y == s \o t
           k == Len(s)
           l == Len(t)
<1>1. k \in Nat /\ l \in Nat
    BY LenProperties
<1>2. CASE k <= n
    BY <1>2 DEF Cut
<1>3. CASE ~(k <= n)
    <2>1. r \in Seq(S) /\ Len(r) = n /\ \A j \in 1 .. n : r[j] = s[j]
        BY <1>3, CutIs
    <2> HIDE DEF r
    <2>2. /\ x \in Seq(S) /\ Len(x) = Len(r) + Len(t)
          /\ \A j \in 1 .. Len(r) + Len(t) : x[j] = IF j <= Len(r) THEN r[j] ELSE t[j - Len(r)]
        <3>1. r \in Seq(S)
            BY <2>1
        <3> QED
            BY <3>1, ConcatProperties, Zenon
    <2>3. /\ y \in Seq(S) /\ Len(y) = Len(s) + Len(t)
          /\ \A j \in 1 .. Len(s) + Len(t) : y[j] = IF j <= Len(s) THEN s[j] ELSE t[j - Len(s)]
        BY ConcatProperties, Zenon
    <2> HIDE DEF x, y
    <2> DEFINE v == Cut(x, n)
               w == Cut(y, n)
    <2>4. v \in Seq(S) /\ Len(v) = n /\ \A j \in 1 .. n : v[j] = x[j]
        <3>1. Len(x) = n + l
            BY <2>1, <2>2
        <3>2. (IF Len(x) <= n THEN Len(x) ELSE n) = n
            BY <1>1, <3>1
        <3> QED
            BY <2>2, <3>2, CutIs
    <2>5. w \in Seq(S) /\ Len(w) = n /\ \A j \in 1 .. n : w[j] = y[j]
        <3>1. Len(y) = k + l
            BY <2>3
        <3>2. (IF Len(y) <= n THEN Len(y) ELSE n) = n
            BY <1>1, <1>3, <3>1
        <3> QED
            BY <2>3, <3>2, CutIs
    <2> HIDE DEF v, w, k, l
    <2>6. \A j \in 1 .. n : v[j] = w[j]
        <3> SUFFICES ASSUME NEW j \in 1 .. n PROVE v[j] = w[j]
            OBVIOUS
        <3>1. x[j] = s[j]
            <4>1. j \in 1 .. Len(r) + Len(t) /\ j <= Len(r)
                BY <1>1, <2>1 DEF l
            <4>2. x[j] = r[j]
                BY <2>2, <4>1
            <4> QED
                BY <2>1, <4>2
        <3>2. y[j] = s[j]
            <4>1. j \in 1 .. Len(s) + Len(t) /\ j <= Len(s)
                BY <1>1, <1>3 DEF k, l
            <4> QED
                BY <2>3, <4>1
        <3> QED
            BY <2>4, <2>5, <3>1, <3>2
    <2>7. v = w
        BY <2>4, <2>5, <2>6, SeqEqual
    <2> QED
        BY <2>7 DEF v, w, x, y, r
<1> QED
    BY <1>2, <1>3

(* Nothing is seen of what follows a text that fills the buffer. *)
LEMMA CutFull ==
    ASSUME NEW S, NEW s \in Seq(S), NEW t \in Seq(S)
    PROVE  Cut(s \o t, Len(s)) = s
<1> DEFINE y == s \o t
           n == Len(s)
           w == Cut(y, n)
<1>1. n \in Nat /\ Len(t) \in Nat
    BY LenProperties
<1>2. /\ y \in Seq(S) /\ Len(y) = Len(s) + Len(t)
      /\ \A j \in 1 .. Len(s) + Len(t) : y[j] = IF j <= Len(s) THEN s[j] ELSE t[j - Len(s)]
    BY ConcatProperties, Zenon
<1> HIDE DEF y
<1>3. w \in Seq(S) /\ Len(w) = n /\ \A j \in 1 .. n : w[j] = y[j]
    <2>1. (IF Len(y) <= n THEN Len(y) ELSE n) = n
        BY <1>1, <1>2
    <2> QED
        BY <1>1, <1>2, <2>1, CutIs
<1> HIDE DEF w
<1>4. \A j \in 1 .. n : w[j] = s[j]
    BY <1>1, <1>2, <1>3
<1>5. w = s
    BY <1>3, <1>4, SeqEqual
<1> QED
    BY <1>5 DEF w, y

----------------------------------------------------------------------------
(* What a call is to print. *)

LEMMA CallType ==
    ASSUME NEW c \in Calls
    PROVE  /\ IsMemory(c.memory) /\ c.length \in 0 .. Len(c.memory) - 1 /\ c.length \in Nat
           /\ \A p \in 1 .. c.length + 1 : c.memory[p] = NUL <=> p = c.length + 1
           /\ c.args \in Seq([num : Words, text : Seq(Characters)])
           /\ c.size \in Nat \ {0} /\ c.size - 1 \in Nat
<1>1. /\ c.memory \in Seq(Characters) /\ c.memory[Len(c.memory)] = NUL
      /\ c.length \in 0 .. Len(c.memory) - 1
      /\ \A p \in 1 .. c.length + 1 : c.memory[p] = NUL <=> p = c.length + 1
      /\ c.args \in Seq([num : Words, text : Seq(Characters)])
      /\ c.size \in Nat \ {0}
    BY PrintfAssumption
<1>2. Len(c.memory) \in Nat
    BY <1>1, LenProperties
<1>3. Len(c.memory) \in Nat \ {0} /\ c.length \in Nat
    BY <1>1, <1>2
<1> QED
    BY <1>1, <1>3 DEF IsMemory

LEMMA ArgType ==
    ASSUME NEW c \in Calls, NEW a \in Nat \ {0}, a <= Len(c.args)
    PROVE  c.args[a].num \in Words /\ c.args[a].text \in Seq(Characters)
<1>1. c.args \in Seq([num : Words, text : Seq(Characters)])
    BY CallType
<1>2. a \in 1 .. Len(c.args)
    BY <1>1, LenProperties
<1>3. c.args[a] \in [num : Words, text : Seq(Characters)]
    BY <1>1, <1>2, ElementOfSeq
<1> QED
    BY <1>3

LEMMA AfterIs ==
    ASSUME NEW m, IsMemory(m), NEW p \in Nat, p < Len(m)
    PROVE  /\ EndOfWidth(m, p + 1) \in p + 1 .. Len(m)
           /\ After(m, p) = EndOfWidth(m, p + 1) + (IF LongAt(m, p) THEN 2 ELSE 1)
           /\ After(m, p) \in Nat /\ After(m, p) >= p + 2
           /\ Uses(m, p) \in {0, 1}
<1>1. p + 1 \in 1 .. Len(m) /\ Len(m) \in Nat
    BY DEF IsMemory
<1> DEFINE e == EndOfWidth(m, p + 1)
<1>2. e \in p + 1 .. Len(m)
    BY <1>1, EndOfWidthIs DEF IsEnd
<1>3. After(m, p) = e + (IF LongAt(m, p) THEN 2 ELSE 1)
    BY DEF After
<1> HIDE DEF e
<1>4. After(m, p) \in Nat /\ After(m, p) >= p + 2
    BY <1>1, <1>2, <1>3
<1>5. Uses(m, p) \in {0, 1}
    BY DEF Uses
<1> QED
    BY <1>2, <1>3, <1>4, <1>5 DEF e

Row(c, g, p, a) ==
    LET m == c.memory
    IN  IF p > c.length THEN {<<>>}
        ELSE IF m[p] # "%" THEN {<<m[p]>> \o t : t \in g[p + 1][a]}
        ELSE IF IsSupported(c, p, a)
        THEN {Meant(c, p, a) \o t : t \in g[After(m, p)][a + Uses(m, p)]}
        ELSE {}

IsTexts(c, g) == g = [p \in Nat |-> [a \in Nat |-> Row(c, g, p, a)]]

LEMMA RowDepends ==
    ASSUME NEW c \in Calls, NEW p \in Nat, NEW a \in Nat, NEW g, NEW h,
           \A q \in Nat : q > p => g[q] = h[q]
    PROVE  Row(c, g, p, a) = Row(c, h, p, a)
<1>1. CASE p > c.length
    BY <1>1 DEF Row
<1>2. CASE ~(p > c.length)
    <2> DEFINE m == c.memory
               q == After(m, p)
    <2>1. c.length \in 0 .. Len(m) - 1 /\ IsMemory(m)
        BY CallType
    <2>2. p < Len(m)
        BY <1>2, <2>1 DEF IsMemory
    <2>3. q \in Nat /\ q >= p + 2
        BY <2>1, <2>2, AfterIs
    <2>4. g[p + 1] = h[p + 1] /\ g[q] = h[q]
        <3> HIDE DEF q
        <3>1. p + 1 \in Nat /\ p + 1 > p /\ q > p
            BY <2>3
        <3> QED
            BY <2>3, <3>1
    <2>5. {<<m[p]>> \o t : t \in g[p + 1][a]} = {<<m[p]>> \o t : t \in h[p + 1][a]}
        BY <2>4
    <2>6. {Meant(c, p, a) \o t : t \in g[After(m, p)][a + Uses(m, p)]}
          = {Meant(c, p, a) \o t : t \in h[After(m, p)][a + Uses(m, p)]}
        BY <2>4
    <2> QED
        BY <1>2, <2>5, <2>6 DEF Row
<1> QED
    BY <1>1, <1>2

LEMMA TextsExist ==
    ASSUME NEW c \in Calls
    PROVE  \E g : IsTexts(c, g)
<1> DEFINE R(g, p) == [a \in Nat |-> Row(c, g, p, a)]
           Behind(g, n) == /\ g = [p \in Nat |-> g[p]]
                           /\ \A p \in Nat : p + n > c.length => g[p] = R(g, p)
           Without == {n \in Nat : ~\E g : Behind(g, n)}
<1>1. c.length \in Nat
    BY CallType
<1>2. ASSUME NEW g, NEW h, NEW p \in Nat, \A q \in Nat : q > p => g[q] = h[q]
      PROVE  R(g, p) = R(h, p)
    <2>1. \A a \in Nat : Row(c, g, p, a) = Row(c, h, p, a)
        BY <1>2, RowDepends
    <2> QED
        BY <2>1
<1>3. Without = {}
    <2> SUFFICES ASSUME Without # {} PROVE FALSE
        OBVIOUS
    <2>1. PICK n \in Without : \A v \in Without : n <= v
        <3>1. Without \subseteq Nat
            OBVIOUS
        <3> HIDE DEF Without
        <3> QED
            BY <3>1, Least
    <2>2. n # 0
        <3> DEFINE g == [p \in Nat |-> [a \in Nat |-> {<<>>}]]
        <3>1. \A p \in Nat : p + 0 > c.length => g[p] = R(g, p)
            <4> SUFFICES ASSUME NEW p \in Nat, p + 0 > c.length PROVE g[p] = R(g, p)
                OBVIOUS
            <4>1. \A a \in Nat : Row(c, g, p, a) = {<<>>}
                BY <1>1 DEF Row
            <4> QED
                BY <4>1
        <3>2. g = [p \in Nat |-> g[p]]
            OBVIOUS
        <3> HIDE DEF g
        <3>3. Behind(g, 0)
            BY <3>1, <3>2
        <3> QED
            BY <2>1, <3>3
    <2>3. PICK g : Behind(g, n - 1)
        <3>1. n - 1 \in Nat /\ ~(n <= n - 1)
            BY <2>1, <2>2
        <3> HIDE DEF Behind
        <3> QED
            BY <2>1, <3>1
    <2> DEFINE h == [p \in Nat |-> R(g, p)]
    <2>4. \A p \in Nat : h[p] = R(g, p)
        <3> HIDE DEF R
        <3> QED
            OBVIOUS
    <2>5. h = [p \in Nat |-> h[p]]
        <3> HIDE DEF R
        <3> QED
            OBVIOUS
    <2> HIDE DEF h, R
    <2>6. \A p \in Nat : p + (n - 1) > c.length => h[p] = g[p]
        BY <2>3, <2>4
    <2>7. \A p \in Nat : p + n > c.length => h[p] = R(h, p)
        <3> SUFFICES ASSUME NEW p \in Nat, p + n > c.length PROVE h[p] = R(h, p)
            OBVIOUS
        <3>1. \A q \in Nat : q > p => g[q] = h[q]
            <4> SUFFICES ASSUME NEW q \in Nat, q > p PROVE g[q] = h[q]
                OBVIOUS
            <4>1. n \in Nat
                BY <2>1
            <4>2. q + (n - 1) > c.length
                BY <1>1, <4>1
            <4> QED
                BY <2>6, <4>2
        <3>2. R(g, p) = R(h, p)
            BY <1>2, <3>1
        <3> QED
            BY <2>4, <3>2
    <2>8. Behind(h, n)
        BY <2>5, <2>7
    <2> HIDE DEF Behind
    <2> QED
        BY <2>1, <2>8
<1>4. PICK g : Behind(g, c.length + 1)
    <2> HIDE DEF Behind
    <2>1. c.length + 1 \in Nat
        BY <1>1
    <2> QED
        BY <1>3, <2>1
<1> HIDE DEF R
<1>5. \A p \in Nat : g[p] = R(g, p)
    BY <1>1, <1>4
<1>6. g = [p \in Nat |-> R(g, p)]
    BY <1>4, <1>5
<1> QED
    BY <1>6 DEF IsTexts, R

LEMMA TextsAre ==
    ASSUME NEW c \in Calls, NEW p \in Nat, NEW a \in Nat
    PROVE  Texts(c)[p][a] = Row(c, Texts(c), p, a)
<1> DEFINE g == Texts(c)
<1>1. g = CHOOSE h : IsTexts(c, h)
    BY DEF Texts, IsTexts, Row
<1> HIDE DEF g
<1>2. IsTexts(c, g)
    BY <1>1, TextsExist
<1>3. g[p][a] = Row(c, g, p, a)
    BY <1>2 DEF IsTexts
<1> QED
    BY <1>3 DEF g

(* What each directive converts to. *)
LEMMA KindsDiffer ==
    /\ "d" # "u" /\ "d" # "s" /\ "d" # "c" /\ "d" # "%" /\ "d" # "x" /\ "d" # "X"
    /\ "u" # "s" /\ "u" # "c" /\ "u" # "%" /\ "u" # "x" /\ "u" # "X"
    /\ "x" # "s" /\ "x" # "c" /\ "x" # "%" /\ "X" # "s" /\ "X" # "c" /\ "X" # "%"
    /\ "s" # "%" /\ "c" # "%"
OBVIOUS

LEMMA MeantForms ==
    ASSUME NEW c, NEW p, NEW a, NEW kind, kind = Kind(c.memory, p)
    PROVE  /\ kind = "d" => Meant(c, p, a) = SignedNumeral(c.args[a].num)
           /\ kind = "u" => Meant(c, p, a) = Numeral(c.args[a].num, 10)
           /\ kind \in {"x", "X"} =>
                Meant(c, p, a) = Padded(Width(c.memory, p + 1), Numeral(c.args[a].num, 16))
           /\ kind \in {"s", "c"} => Meant(c, p, a) = c.args[a].text
           /\ kind = "%" => Meant(c, p, a) = <<"%">>
<1> DEFINE n == c.args[a].num
           t == c.args[a].text
           w == Padded(Width(c.memory, p + 1), Numeral(n, 16))
           r == Numeral(n, 10)
           s == SignedNumeral(n)
<1>1. Meant(c, p, a) =
        CASE kind = "d" -> s [] kind = "u" -> r [] kind \in {"x", "X"} -> w
          [] kind \in {"s", "c"} -> t [] kind = "%" -> <<"%">>
    BY Zenon DEF Meant, Padded
<1> HIDE DEF s, r, w, t
<1>2. kind = "d" => Meant(c, p, a) = s
    BY <1>1, KindsDiffer, Zenon
<1>3. kind = "u" => Meant(c, p, a) = r
    BY <1>1, KindsDiffer, Zenon
<1>4. kind \in {"x", "X"} => Meant(c, p, a) = w
    BY <1>1, KindsDiffer, Zenon
<1>5. kind \in {"s", "c"} => Meant(c, p, a) = t
    BY <1>1, KindsDiffer, Zenon
<1>6. kind = "%" => Meant(c, p, a) = <<"%">>
    BY <1>1, KindsDiffer, Zenon
<1> QED
    BY <1>2, <1>3, <1>4, <1>5, <1>6 DEF s, r, w, t

LEMMA MeantType ==
    ASSUME NEW c \in Calls, NEW p \in Nat \ {0}, p <= c.length, NEW a \in Nat \ {0},
           IsSupported(c, p, a)
    PROVE  Meant(c, p, a) \in Seq(Characters)
<1> DEFINE m == c.memory
           kind == Kind(m, p)
           n == c.args[a].num
<1>1. /\ kind \in {"d", "u", "x", "X", "s", "c", "%"}
      /\ kind # "%" => a <= Len(c.args)
      /\ kind = "d" => n # Half
    <2>1. kind \in IF LongAt(m, p) THEN {"u", "x", "X"} ELSE {"d", "u", "x", "X", "s", "c", "%"}
        BY DEF IsSupported
    <2>2. kind \in {"d", "u", "x", "X", "s", "c", "%"}
        <3> HIDE DEF kind
        <3> QED
            BY <2>1
    <2> QED
        BY <2>2 DEF IsSupported
<1>2. IsMemory(m) /\ p + 1 \in 1 .. Len(m)
    <2>1. IsMemory(m) /\ c.length \in 0 .. Len(m) - 1
        BY CallType
    <2> QED
        BY <2>1 DEF IsMemory
<1>3. /\ kind = "d" => Meant(c, p, a) = SignedNumeral(n)
      /\ kind = "u" => Meant(c, p, a) = Numeral(n, 10)
      /\ kind \in {"x", "X"} => Meant(c, p, a) = Padded(Width(m, p + 1), Numeral(n, 16))
      /\ kind \in {"s", "c"} => Meant(c, p, a) = c.args[a].text
      /\ kind = "%" => Meant(c, p, a) = <<"%">>
    BY MeantForms
<1>4. kind # "%" => n \in Words /\ n \in Nat /\ c.args[a].text \in Seq(Characters)
    <2>1. \A w \in Words : w \in Nat
        BY PrintfAssumption DEF Words
    <2>2. kind # "%" => n \in Words /\ c.args[a].text \in Seq(Characters)
        BY <1>1, ArgType
    <2> QED
        BY <2>1, <2>2
<1> HIDE DEF kind, m, n
<1>5. CASE kind = "d"
    <2>1. n \in Words /\ n # Half
        BY <1>1, <1>4, <1>5
    <2> QED
        BY <1>3, <1>5, <2>1, SignedTextIs
<1>6. CASE kind = "u"
    <2>1. n \in Nat
        BY <1>4, <1>6
    <2> QED
        BY <1>3, <1>6, <2>1, NumeralType
<1>7. CASE kind \in {"x", "X"}
    <2>1. n \in Nat
        BY <1>4, <1>7
    <2>2. Numeral(n, 16) \in Seq(Characters)
        BY <2>1, NumeralType
    <2>3. Width(m, p + 1) \in Nat
        BY <1>2, WidthType
    <2> QED
        BY <1>3, <1>7, <2>2, <2>3, PaddedType
<1>8. CASE kind \in {"s", "c"}
    BY <1>3, <1>4, <1>8
<1>9. CASE kind = "%"
    <2>1. "%" \in Characters
        BY PrintfAssumption
    <2> QED
        BY <1>3, <1>9, <2>1, OneAlone
<1> QED
    BY <1>1, <1>5, <1>6, <1>7, <1>8, <1>9

LEMMA TextsType ==
    ASSUME NEW c \in Calls, NEW p \in Nat \ {0}, NEW a \in Nat \ {0}
    PROVE  \A t \in Texts(c)[p][a] : t \in Seq(Characters)
<1> DEFINE g == Texts(c)
           m == c.memory
           Typed(n) == \A q, b \in Nat \ {0} : q + n > c.length => \A t \in g[q][b] : t \in Seq(Characters)
           Fail == {n \in Nat : ~Typed(n)}
<1>1. IsMemory(m) /\ c.length \in 0 .. Len(m) - 1 /\ c.length \in Nat
    BY CallType
<1>2. \A q, b \in Nat \ {0} : g[q][b] = Row(c, g, q, b)
    BY TextsAre
<1> HIDE DEF g
<1>3. Fail = {}
    <2> SUFFICES ASSUME Fail # {} PROVE FALSE
        OBVIOUS
    <2>1. PICK n \in Fail : \A v \in Fail : n <= v
        <3>1. Fail \subseteq Nat
            OBVIOUS
        <3> HIDE DEF Fail
        <3> QED
            BY <3>1, Least
    <2>2. PICK q \in Nat \ {0}, b \in Nat \ {0} :
                q + n > c.length /\ ~\A t \in g[q][b] : t \in Seq(Characters)
        BY <2>1
    <2>3. PICK t \in g[q][b] : t \notin Seq(Characters)
        BY <2>2
    <2>4. t \in Row(c, g, q, b)
        BY <1>2, <2>3
    <2>5. q <= c.length
        <3> SUFFICES ASSUME q > c.length PROVE FALSE
            BY <1>1
        <3>1. t \in {<<>>}
            BY <2>4 DEF Row
        <3> QED
            BY <2>3, <3>1, EmptySeq
    <2>6. n # 0 /\ n - 1 \in Nat
        BY <1>1, <2>1, <2>2, <2>5
    <2>7. Typed(n - 1)
        <3>1. ~(n <= n - 1)
            BY <2>1
        <3> HIDE DEF Typed
        <3> QED
            BY <2>1, <2>6, <3>1
    <2>8. ASSUME NEW r \in Nat, r > q, NEW d \in Nat \ {0}, NEW u \in g[r][d]
          PROVE  u \in Seq(Characters)
        <3>1. r \in Nat \ {0} /\ r + (n - 1) > c.length
            BY <1>1, <2>1, <2>2, <2>8
        <3> QED
            BY <2>7, <2>8, <3>1
    <2>9. ~(q > c.length)
        BY <1>1, <2>5
    <2>10. CASE m[q] # "%"
        <3>1. PICK u \in g[q + 1][b] : t = <<m[q]>> \o u
            <4>1. Row(c, g, q, b) = {<<m[q]>> \o u : u \in g[q + 1][b]}
                BY <2>10, <2>9 DEF Row
            <4> HIDE DEF m
            <4> QED
                BY <2>4, <4>1
        <3>2. u \in Seq(Characters)
            BY <2>8
        <3>3. m[q] \in Characters
            <4>1. q \in 1 .. Len(m) /\ m \in Seq(Characters)
                BY <1>1, <2>5 DEF IsMemory
            <4> QED
                BY <4>1, ElementOfSeq
        <3>4. <<m[q]>> \in Seq(Characters)
            BY <3>3, OneAlone
        <3>5. <<m[q]>> \o u \in Seq(Characters)
            BY <3>2, <3>4, ConcatProperties, Zenon
        <3> QED
            BY <2>3, <3>1, <3>5
    <2>11. CASE m[q] = "%"
        <3>1. IsSupported(c, q, b)
            BY <2>4, <2>11, <2>9 DEF Row
        <3>2. PICK u \in g[After(m, q)][b + Uses(m, q)] : t = Meant(c, q, b) \o u
            <4>1. Row(c, g, q, b) = {Meant(c, q, b) \o u : u \in g[After(m, q)][b + Uses(m, q)]}
                BY <2>11, <2>9, <3>1 DEF Row
            <4> HIDE DEF m
            <4> QED
                BY <2>4, <4>1
        <3>3. /\ After(m, q) \in Nat /\ After(m, q) > q
              /\ b + Uses(m, q) \in Nat \ {0}
            <4>1. q < Len(m)
                BY <1>1, <2>5 DEF IsMemory
            <4>2. After(m, q) \in Nat /\ After(m, q) >= q + 2 /\ Uses(m, q) \in {0, 1}
                BY <1>1, <4>1, AfterIs
            <4> QED
                BY <4>2
        <3>4. u \in Seq(Characters)
            BY <2>8, <3>2, <3>3
        <3>5. Meant(c, q, b) \in Seq(Characters)
            BY <2>5, <3>1, MeantType
        <3>6. Meant(c, q, b) \o u \in Seq(Characters)
            BY <3>4, <3>5, ConcatProperties, Zenon
        <3> QED
            BY <2>3, <3>2, <3>6
    <2> QED
        BY <2>10, <2>11
<1>4. Typed(c.length)
    BY <1>1, <1>3
<1> QED
    BY <1>1, <1>4 DEF g

----------------------------------------------------------------------------
(* The steps of vsnprintf. *)

PrintfTyped ==
    /\ call \in Calls
    /\ pos \in DOMAIN Needs[call]
    /\ arg \in Nat \ {0} /\ arg - 1 + Needs[call][pos] <= Len(call.args)
    /\ out \in Seq(Characters) /\ Len(out) <= call.size - 1
    /\ Unfinished \/ pos <= call.length + 1

(* What is still to be written makes the text complete. *)
OnTrack ==
    \A t \in Renderings(call) :
        /\ pos <= call.length + 1
        /\ \E u \in Texts(call)[pos][arg] : Cut(out \o u, call.size - 1) = Cut(t, call.size - 1)

PrintfInv == PrintfTyped /\ (running => OnTrack) /\ PrintsFormat

LEMMA WhereItIs ==
    ASSUME PrintfTyped
    PROVE  /\ IsMemory(call.memory) /\ call.size - 1 \in Nat
           /\ call.length \in Nat /\ call.length < Len(call.memory)
           /\ pos \in Nat \ {0} /\ pos <= Len(call.memory) /\ call.memory[pos] \in Characters
           /\ Needs[call][pos] \in Nat
<1>1. IsMemory(call.memory) /\ call.size - 1 \in Nat /\ call.length \in 0 .. Len(call.memory) - 1
    BY CallType DEF PrintfTyped
<1>2. DOMAIN Needs[call] \subseteq 1 .. Len(call.memory) /\ \A p \in DOMAIN Needs[call] : Needs[call][p] \in Nat
    BY NeedsAssumption DEF PrintfTyped
<1>3. pos \in 1 .. Len(call.memory) /\ Needs[call][pos] \in Nat
    BY <1>2 DEF PrintfTyped
<1>4. call.memory[pos] \in Characters
    BY <1>1, <1>3, ElementOfSeq DEF IsMemory
<1> QED
    BY <1>1, <1>3, <1>4 DEF IsMemory

(* A directive under way, in a call that passes all arguments. *)
LEMMA DirectiveIs ==
    ASSUME PrintfTyped, Directive, NEW m, m = call.memory
    PROVE  /\ pos < Len(m) /\ End \in pos + 1 .. Len(m) /\ Conversion \in Characters
           /\ Conversion = m[End] /\ LongAt(m, pos) = (Conversion = "l")
           /\ After(m, pos) = End + (IF Conversion = "l" THEN 2 ELSE 1)
           /\ Kind(m, pos) = IF Conversion = "l" THEN m[End + 1] ELSE Conversion
           /\ Covers(call, pos, After(m, pos), Takes(m, pos))
           /\ Takes(m, pos) = 1 => arg <= Len(call.args)
           /\ ~Unfinished => pos <= call.length /\ After(m, pos) <= call.length + 1
<1>1. /\ IsMemory(m) /\ call.length \in Nat /\ call.length < Len(m)
      /\ pos \in Nat \ {0} /\ pos <= Len(m) /\ Needs[call][pos] \in Nat
    BY WhereItIs
<1>2. m[pos] = "%" /\ m[pos] # NUL /\ m[pos + 1] # NUL
    BY DEF Directive, Goes, CharAt, EndsInPercent
<1>3. pos < Len(m)
    BY <1>1, <1>2 DEF IsMemory
<1>4. /\ End \in pos + 1 .. Len(m) /\ End = EndOfWidth(m, pos + 1)
      /\ After(m, pos) = End + (IF LongAt(m, pos) THEN 2 ELSE 1)
      /\ After(m, pos) \in Nat
    BY <1>1, <1>3, AfterIs DEF End
<1>5. Conversion = m[End] /\ LongAt(m, pos) = (Conversion = "l")
    BY <1>4 DEF Conversion, CharAt, LongAt
<1>6. Conversion \in Characters
    <2>1. m \in Seq(Characters) /\ End \in 1 .. Len(m)
        BY <1>1, <1>4 DEF IsMemory
    <2>2. m[End] \in Characters
        BY <2>1, ElementOfSeq
    <2> QED
        BY <1>5, <2>2
<1>7. Kind(m, pos) = IF Conversion = "l" THEN m[End + 1] ELSE Conversion
    <2>1. Kind(m, pos) = m[After(m, pos) - 1]
        BY DEF Kind
    <2>2. End \in Int /\ After(m, pos) = End + (IF Conversion = "l" THEN 2 ELSE 1)
        <3>1. End \in Int
            BY <1>1, <1>4 DEF IsMemory
        <3>2. After(m, pos) = End + (IF Conversion = "l" THEN 2 ELSE 1)
            BY <1>4, <1>5
        <3> QED
            BY <3>1, <3>2
    <2>3. CASE Conversion = "l"
        <3>1. After(m, pos) - 1 = End + 1
            BY <2>3, <2>2
        <3> QED
            BY <2>1, <2>3, <3>1
    <2>4. CASE Conversion # "l"
        <3>1. After(m, pos) - 1 = End
            BY <2>4, <2>2
        <3> QED
            BY <1>5, <2>1, <2>4, <3>1
    <2> QED
        BY <2>3, <2>4
<1>8. Covers(call, pos, After(m, pos), Takes(m, pos))
    <2>1. /\ call \in Calls /\ pos \in DOMAIN Needs[call]
        BY DEF PrintfTyped
    <2>2. \/ m[pos] = NUL
          \/ m[pos] # "%" /\ Covers(call, pos, pos + 1, 0)
          \/ m[pos] = "%" /\ m[pos + 1] = NUL
          \/ m[pos] = "%" /\ Covers(call, pos, After(m, pos), Takes(m, pos))
        BY <2>1, NeedsAssumption
    <2> QED
        BY <1>2, <2>2
<1>9. Takes(m, pos) = 1 => arg <= Len(call.args)
    <2> SUFFICES ASSUME Takes(m, pos) = 1 PROVE arg <= Len(call.args)
        OBVIOUS
    <2> DEFINE q == After(m, pos)
    <2>1. q \in DOMAIN Needs[call] /\ Needs[call][pos] >= 1 + Needs[call][q]
        BY <1>8 DEF Covers
    <2>2. Needs[call][q] \in Nat
        BY <2>1, NeedsAssumption DEF PrintfTyped
    <2>3. call.args \in Seq([num : Words, text : Seq(Characters)])
        BY CallType DEF PrintfTyped
    <2>4. Len(call.args) \in Nat
        BY <2>3, LenProperties
    <2> HIDE DEF q
    <2> QED
        BY <1>1, <2>1, <2>2, <2>4 DEF PrintfTyped
<1>10. ASSUME ~Unfinished PROVE pos <= call.length /\ After(m, pos) <= call.length + 1
    <2>1. pos <= call.length + 1 /\ m[call.length + 1] = NUL
        <3>1. \A p \in 1 .. call.length + 1 : m[p] = NUL <=> p = call.length + 1
            BY CallType DEF PrintfTyped
        <3> QED
            BY <1>1, <1>10, <3>1 DEF PrintfTyped
    <2>2. pos < call.length
        BY <1>1, <1>2, <2>1
    <2>3. EndOfWidth(m, pos + 1) <= call.length
        BY <1>1, <1>2, <1>4, <1>10, <2>2 DEF Unfinished, IsMemory
    <2>4. ~(LongAt(m, pos) /\ EndOfWidth(m, pos + 1) = call.length)
        BY <1>1, <1>2, <1>10, <2>2 DEF Unfinished
    <2> QED
        BY <1>1, <1>4, <2>2, <2>3, <2>4 DEF IsMemory
<1> QED
    BY <1>3, <1>4, <1>5, <1>6, <1>7, <1>8, <1>9, <1>10

(* Every directive writes what is meant, and takes what it needs for it. *)
LEMMA DirectiveWrites ==
    ASSUME PrintfTyped, Directive, NEW m, m = call.memory,
           Long \/ String \/ Decimal \/ Unsigned \/ Hex \/ Other
    PROVE  \E text \in Seq(Characters) :
                /\ Emit(text, After(m, pos), Takes(m, pos))
                /\ IsSupported(call, pos, arg) =>
                    text = Meant(call, pos, arg) /\ Takes(m, pos) = Uses(m, pos)
<1> DEFINE n == call.args[arg].num
           t == call.args[arg].text
           kind == Kind(m, pos)
           hex == Padded(Width(m, pos + 1), Numeral(n, 16))
           Right(text) == /\ text \in Seq(Characters)
                          /\ Emit(text, After(m, pos), Takes(m, pos))
                          /\ IsSupported(call, pos, arg) =>
                                text = Meant(call, pos, arg) /\ Takes(m, pos) = Uses(m, pos)
<1>1. /\ pos < Len(m) /\ End \in pos + 1 .. Len(m) /\ Conversion \in Characters
      /\ LongAt(m, pos) = (Conversion = "l")
      /\ After(m, pos) = End + (IF Conversion = "l" THEN 2 ELSE 1)
      /\ kind = IF Conversion = "l" THEN CharAt(End + 1) ELSE Conversion
      /\ Takes(m, pos) = 1 => arg <= Len(call.args)
    BY DirectiveIs DEF CharAt
<1>2. /\ kind = "d" => Meant(call, pos, arg) = SignedNumeral(n)
      /\ kind = "u" => Meant(call, pos, arg) = Numeral(n, 10)
      /\ kind \in {"x", "X"} => Meant(call, pos, arg) = hex
      /\ kind \in {"s", "c"} => Meant(call, pos, arg) = t
      /\ kind = "%" => Meant(call, pos, arg) = <<"%">>
    BY MeantForms
<1>3. Takes(m, pos) = 1 => n \in Words /\ n \in Nat /\ t \in Seq(Characters)
    <2>1. Takes(m, pos) = 1 => n \in Words /\ t \in Seq(Characters)
        BY <1>1, ArgType DEF PrintfTyped
    <2>2. \A w \in Words : w \in Nat
        BY PrintfAssumption DEF Words
    <2> QED
        BY <2>1, <2>2
<1>4. n \in Words => Number = n /\ UnsignedText(n) = Numeral(n, 10) /\ HexText(n) = Numeral(n, 16)
    BY UnsignedTextIs, HexTextIs DEF Number
<1>5. n \in Nat => Numeral(n, 10) \in Seq(Characters) /\ hex \in Seq(Characters)
    <2>1. IsMemory(m) /\ pos \in Nat
        BY WhereItIs
    <2>2. Width(m, pos + 1) \in Nat
        <3>1. pos + 1 \in 1 .. Len(m)
            BY <1>1, <2>1 DEF IsMemory
        <3> QED
            BY <2>1, <3>1, WidthType
    <2> HIDE DEF n
    <2>3. n \in Nat => Numeral(n, 10) \in Seq(Characters) /\ Numeral(n, 16) \in Seq(Characters)
        <3>1. 10 \in 2 .. 16 /\ 16 \in 2 .. 16
            OBVIOUS
        <3> QED
            BY <3>1, NumeralType, Zenon
    <2> QED
        BY <2>2, <2>3, PaddedType
<1>6. Takes(m, pos) = IF kind \in (IF Conversion = "l" THEN {"u", "x", "X"}
                                   ELSE {"s", "c", "d", "u", "x", "X"}) THEN 1 ELSE 0
    BY <1>1 DEF Takes
<1>7. Uses(m, pos) = IF kind = "%" THEN 0 ELSE 1
    BY DEF Uses
<1>8. IsSupported(call, pos, arg) =>
        kind \in IF Conversion = "l" THEN {"u", "x", "X"} ELSE {"d", "u", "x", "X", "s", "c", "%"}
    BY <1>1 DEF IsSupported
<1> HIDE DEF n, t, kind, hex
<1>9. SUFFICES \E text : Right(text)
    OBVIOUS
<1>10. CASE Long
    <2>1. Conversion = "l" /\ After(m, pos) = End + 2 /\ kind = CharAt(End + 1)
        BY <1>1, <1>10 DEF Long
    <2>2. CASE kind = "u" /\ Emit(UnsignedText(Number), End + 2, 1)
        <3>1. Takes(m, pos) = 1 /\ Uses(m, pos) = 1
            BY <1>6, <1>7, <2>1, <2>2
        <3>2. Right(UnsignedText(Number))
            BY <1>2, <1>3, <1>4, <1>5, <2>1, <2>2, <3>1
        <3> QED
            BY <3>2
    <2>3. CASE /\ kind \in {"x", "X"}
               /\ Emit(Padded(Width(m, pos + 1), HexText(Number)), End + 2, 1)
        <3>1. Takes(m, pos) = 1 /\ Uses(m, pos) = 1
            BY <1>6, <1>7, <2>1, <2>3
        <3>2. Right(hex)
            BY <1>2, <1>3, <1>4, <1>5, <2>1, <2>3, <3>1 DEF hex
        <3> QED
            BY <3>2
    <2>4. CASE kind \notin {"u", "x", "X"} /\ Emit(<<>>, End + 2, 0)
        <3>1. Takes(m, pos) = 0 /\ ~IsSupported(call, pos, arg)
            BY <1>6, <1>8, <2>1, <2>4
        <3>2. Right(<<>>)
            BY <2>1, <2>4, <3>1, EmptySeq
        <3> QED
            BY <3>2
    <2> QED
        BY <1>10, <2>1, <2>2, <2>3, <2>4 DEF Long
<1>11. CASE String
    <2>1. Conversion \in {"s", "c"} /\ kind = Conversion /\ Emit(t, After(m, pos), 1)
        BY <1>1, <1>11 DEF String, ArgText, t
    <2>2. Takes(m, pos) = 1 /\ Uses(m, pos) = 1
        BY <1>6, <1>7, <2>1
    <2>3. Right(t)
        BY <1>2, <1>3, <2>1, <2>2
    <2> QED
        BY <2>3
<1>12. CASE Decimal
    <2>1. Conversion = "d" /\ kind = "d" /\ Emit(SignedText(Number), After(m, pos), 1)
        BY <1>1, <1>12 DEF Decimal
    <2>2. Takes(m, pos) = 1 /\ Uses(m, pos) = 1
        BY <1>6, <1>7, <2>1
    <2>3. /\ Number = n /\ SignedText(n) \in Seq(Characters)
          /\ n # Half => SignedText(n) = SignedNumeral(n)
        BY <1>3, <1>4, <2>2, SignedTextIs
    <2>4. IsSupported(call, pos, arg) => n # Half
        BY <2>1 DEF IsSupported, kind, n
    <2>5. Right(SignedText(n))
        BY <1>2, <2>1, <2>2, <2>3, <2>4
    <2> QED
        BY <2>5
<1>13. CASE Unsigned
    <2>1. Conversion = "u" /\ kind = "u" /\ Emit(UnsignedText(Number), After(m, pos), 1)
        BY <1>1, <1>13 DEF Unsigned
    <2>2. Takes(m, pos) = 1 /\ Uses(m, pos) = 1
        BY <1>6, <1>7, <2>1
    <2>3. Right(UnsignedText(Number))
        BY <1>2, <1>3, <1>4, <1>5, <2>1, <2>2
    <2> QED
        BY <2>3
<1>14. CASE Hex
    <2>1. /\ Conversion \in {"x", "X"} /\ kind = Conversion
          /\ Emit(Padded(Width(m, pos + 1), HexText(Number)), After(m, pos), 1)
        BY <1>1, <1>14 DEF Hex
    <2>2. Takes(m, pos) = 1 /\ Uses(m, pos) = 1
        BY <1>6, <1>7, <2>1
    <2>3. Right(hex)
        BY <1>2, <1>3, <1>4, <1>5, <2>1, <2>2 DEF hex
    <2> QED
        BY <2>3
<1>15. CASE Other
    <2>1. /\ Conversion \notin {"l", "s", "c", "d", "u", "x", "X"} /\ kind = Conversion
          /\ Emit(<<Conversion>>, After(m, pos), 0)
        BY <1>1, <1>15 DEF Other
    <2>2. Takes(m, pos) = 0 /\ (IsSupported(call, pos, arg) => kind = "%" /\ Uses(m, pos) = 0)
        BY <1>6, <1>7, <1>8, <2>1
    <2>3. <<Conversion>> \in Seq(Characters)
        BY <1>1, OneAlone
    <2>4. Right(<<Conversion>>)
        BY <1>2, <2>1, <2>2, <2>3
    <2> QED
        BY <2>4
<1> QED
    BY <1>10, <1>11, <1>12, <1>13, <1>14, <1>15

LEMMA MovesTyped ==
    ASSUME PrintfTyped, NEW text \in Seq(Characters), NEW q, NEW used \in {0, 1},
           Covers(call, pos, q, used), ~Unfinished => q <= call.length + 1,
           call' = call, pos' = q, arg' = arg + used, out' = Written(text)
    PROVE  PrintfTyped'
<1>1. call.size - 1 \in Nat /\ Needs[call][pos] \in Nat
    BY WhereItIs
<1>2. q \in DOMAIN Needs[call] /\ Needs[call][pos] >= used + Needs[call][q]
    BY DEF Covers
<1>3. Needs[call][q] \in Nat
    BY <1>2, NeedsAssumption DEF PrintfTyped
<1>4. Len(call.args) \in Nat
    <2>1. call.args \in Seq([num : Words, text : Seq(Characters)])
        BY CallType DEF PrintfTyped
    <2> QED
        BY <2>1, LenProperties
<1>5. /\ call' \in Calls /\ pos' \in DOMAIN Needs[call'] /\ arg' \in Nat \ {0}
      /\ arg' - 1 + Needs[call'][pos'] <= Len(call'.args)
    BY <1>1, <1>2, <1>3, <1>4 DEF PrintfTyped
<1>6. out' \in Seq(Characters) /\ Len(out') <= call'.size - 1
    <2> DEFINE t == out \o text
               k == call.size - 1
    <2>1. t \in Seq(Characters)
        BY ConcatProperties DEF PrintfTyped
    <2>2. out' = Cut(t, k)
        BY DEF Written
    <2> HIDE DEF t
    <2>3. Len(t) \in Nat
        BY <2>1, LenProperties
    <2>4. Cut(t, k) \in Seq(Characters) /\ Len(Cut(t, k)) = IF Len(t) <= k THEN Len(t) ELSE k
        BY <1>1, <2>1, CutIs
    <2> QED
        BY <1>1, <2>2, <2>3, <2>4
<1>7. (Unfinished \/ pos <= call.length + 1)'
    BY DEF Unfinished
<1> QED
    BY <1>5, <1>6, <1>7 DEF PrintfTyped

LEMMA MovesOnTrack ==
    ASSUME PrintfTyped, OnTrack, NEW text \in Seq(Characters), NEW q, NEW used \in {0, 1},
           Covers(call, pos, q, used), call' = call, pos' = q, arg' = arg + used, out' = Written(text),
           pos <= call.length + 1 => \A u \in Texts(call)[pos][arg] :
                /\ q <= call.length + 1
                /\ \E v \in Texts(call)[q][arg + used] : u = text \o v
    PROVE  OnTrack'
<1> DEFINE k == call.size - 1
<1>1. k \in Nat /\ out \in Seq(Characters) /\ IsMemory(call.memory)
    BY WhereItIs DEF PrintfTyped
<1>2. q \in Nat \ {0} /\ arg + used \in Nat \ {0} /\ call \in Calls
    <2>1. q \in 1 .. Len(call.memory)
        BY NeedsAssumption DEF PrintfTyped, Covers
    <2> QED
        BY <1>1, <2>1 DEF PrintfTyped, IsMemory
<1>3. SUFFICES ASSUME NEW t \in Renderings(call)
               PROVE  /\ q <= call.length + 1
                      /\ \E v \in Texts(call)[q][arg + used] : Cut(out' \o v, k) = Cut(t, k)
    BY DEF OnTrack, Renderings
<1>4. PICK u \in Texts(call)[pos][arg] : Cut(out \o u, k) = Cut(t, k)
    BY DEF OnTrack
<1>5. pos <= call.length + 1
    BY DEF OnTrack
<1>6. q <= call.length + 1
    BY <1>4, <1>5
<1>7. PICK v \in Texts(call)[q][arg + used] : u = text \o v
    BY <1>4, <1>5
<1>8. v \in Seq(Characters)
    BY <1>2, <1>7, TextsType
<1>9. Cut(out' \o v, k) = Cut(out \o u, k)
    <2> DEFINE s == out \o text
    <2>1. s \in Seq(Characters)
        BY <1>1, ConcatProperties
    <2>2. s \o v = out \o u
        <3>1. (out \o text) \o v = out \o (text \o v)
            <4>1. out \in Seq(Characters) /\ text \in Seq(Characters) /\ v \in Seq(Characters)
                BY <1>1, <1>8
            <4> QED
                BY <4>1, ConcatAssociative
        <3> QED
            BY <1>7, <3>1
    <2>3. out' = Cut(s, k)
        BY DEF Written
    <2> HIDE DEF s, k
    <2>4. Cut(Cut(s, k) \o v, k) = Cut(s \o v, k)
        <3>1. s \in Seq(Characters) /\ v \in Seq(Characters) /\ k \in Nat
            BY <1>1, <1>8, <2>1
        <3> QED
            BY <3>1, CutTwice
    <2> QED
        BY <2>2, <2>3, <2>4
<1> QED
    BY <1>4, <1>6, <1>7, <1>9

----------------------------------------------------------------------------
LEMMA PrintfStarts == PrintfInit => PrintfInv
<1> SUFFICES ASSUME PrintfInit PROVE PrintfInv
    OBVIOUS
<1>1. call \in Calls /\ pos = 1 /\ arg = 1 /\ out = <<>> /\ running
    BY DEF PrintfInit
<1>2. call.length \in Nat /\ call.size - 1 \in Nat
    BY <1>1, CallType
<1>3. <<>> \in Seq(Characters) /\ Len(<<>>) = 0
    BY EmptySeq
<1>4. 1 \in DOMAIN Needs[call] /\ Needs[call][1] <= Len(call.args) /\ Needs[call][1] \in Nat
    BY <1>1, NeedsAssumption
<1>5. PrintfTyped
    BY <1>1, <1>2, <1>3, <1>4 DEF PrintfTyped
<1>6. OnTrack
    <2> SUFFICES ASSUME NEW t \in Renderings(call)
                 PROVE  /\ 1 <= call.length + 1
                        /\ \E u \in Texts(call)[1][1] : Cut(out \o u, call.size - 1) = Cut(t, call.size - 1)
        BY <1>1 DEF OnTrack
    <2>1. t \in Texts(call)[1][1]
        BY DEF Renderings
    <2>2. t \in Seq(Characters)
        BY <1>1, <2>1, TextsType
    <2>3. <<>> \o t = t
        BY <2>2, ConcatEmptySeq
    <2> QED
        BY <1>1, <1>2, <2>1, <2>3
<1> QED
    BY <1>1, <1>5, <1>6 DEF PrintfInv, PrintsFormat

(* When nothing more is written, what was written is the text. *)
LEMMA Completes ==
    ASSUME PrintfTyped, OnTrack, call.memory[pos] = NUL \/ Len(out) = call.size - 1
    PROVE  \A t \in Renderings(call) : out = Cut(t, call.size - 1)
<1> SUFFICES ASSUME NEW t \in Renderings(call) PROVE out = Cut(t, call.size - 1)
    OBVIOUS
<1> DEFINE k == call.size - 1
<1>1. /\ k \in Nat /\ out \in Seq(Characters) /\ Len(out) <= k /\ call \in Calls
      /\ pos \in Nat \ {0} /\ arg \in Nat \ {0} /\ call.length \in Nat
    BY WhereItIs DEF PrintfTyped
<1>2. PICK u \in Texts(call)[pos][arg] : Cut(out \o u, k) = Cut(t, k)
    BY DEF OnTrack
<1>3. u \in Seq(Characters)
    BY <1>1, <1>2, TextsType
<1>4. CASE Len(out) = k
    <2>1. Cut(out \o u, Len(out)) = out
        BY <1>1, <1>3, CutFull, Zenon
    <2> QED
        BY <1>2, <1>4, <2>1
<1>5. CASE call.memory[pos] = NUL
    <2>1. pos = call.length + 1
        <3>1. pos <= call.length + 1
            BY DEF OnTrack
        <3>2. \A p \in 1 .. call.length + 1 : call.memory[p] = NUL <=> p = call.length + 1
            BY <1>1, CallType
        <3> QED
            BY <1>1, <1>5, <3>1, <3>2
    <2>2. Texts(call)[pos][arg] = {<<>>}
        <3>1. Texts(call)[pos][arg] = Row(call, Texts(call), pos, arg)
            BY <1>1, TextsAre
        <3>2. pos > call.length
            BY <1>1, <2>1
        <3> QED
            BY <3>1, <3>2 DEF Row
    <2>3. out \o <<>> = out
        BY <1>1, ConcatEmptySeq
    <2>4. Cut(out, k) = out
        BY <1>1 DEF Cut
    <2> QED
        BY <1>2, <2>2, <2>3, <2>4
<1> QED
    BY <1>4, <1>5

LEMMA CopyStays ==
    ASSUME PrintfTyped, OnTrack, CopyChar
    PROVE  PrintfTyped' /\ OnTrack'
<1> DEFINE m == call.memory
           text == <<m[pos]>>
<1>1. /\ m[pos] # NUL /\ m[pos] # "%" /\ out' = Written(text) /\ pos' = pos + 1
      /\ call' = call /\ arg' = arg
    BY DEF CopyChar, Goes, CharAt
<1>2. /\ pos \in Nat \ {0} /\ call.length \in Nat /\ m[pos] \in Characters
      /\ call \in Calls /\ pos \in DOMAIN Needs[call] /\ arg \in Nat \ {0}
    BY WhereItIs DEF PrintfTyped
<1>3. text \in Seq(Characters) /\ arg' = arg + 0
    BY <1>1, <1>2, OneAlone
<1>4. Covers(call, pos, pos + 1, 0)
    BY <1>1, <1>2, NeedsAssumption
<1>5. pos <= call.length + 1 => pos <= call.length
    <2>1. \A p \in 1 .. call.length + 1 : m[p] = NUL <=> p = call.length + 1
        BY <1>2, CallType
    <2> QED
        BY <1>1, <1>2, <2>1
<1>6. ~Unfinished => pos + 1 <= call.length + 1
    BY <1>2, <1>5 DEF PrintfTyped
<1>7. pos <= call.length => \A u \in Texts(call)[pos][arg] :
        \E v \in Texts(call)[pos + 1][arg + 0] : u = text \o v
    <2> SUFFICES ASSUME pos <= call.length, NEW u \in Texts(call)[pos][arg]
                 PROVE  \E v \in Texts(call)[pos + 1][arg] : u = text \o v
        BY <1>2
    <2>1. u \in Row(call, Texts(call), pos, arg)
        BY <1>2, TextsAre
    <2>2. ~(pos > call.length)
        BY <1>2
    <2>3. Row(call, Texts(call), pos, arg) = {<<m[pos]>> \o v : v \in Texts(call)[pos + 1][arg]}
        BY <1>1, <2>2 DEF Row
    <2> QED
        BY <2>1, <2>3
<1> HIDE DEF text, m
<1>8. PrintfTyped'
    BY <1>1, <1>3, <1>4, <1>6, MovesTyped
<1>9. OnTrack'
    <2>1. pos <= call.length + 1 => pos + 1 <= call.length + 1
        BY <1>2, <1>5
    <2>2. pos <= call.length + 1 => \A u \in Texts(call)[pos][arg] :
            /\ pos + 1 <= call.length + 1
            /\ \E v \in Texts(call)[pos + 1][arg + 0] : u = text \o v
        BY <1>5, <1>7, <2>1
    <2> QED
        BY <1>1, <1>3, <1>4, <2>2, MovesOnTrack
<1> QED
    BY <1>8, <1>9

LEMMA DirectiveStays ==
    ASSUME PrintfTyped, OnTrack, Directive,
           Long \/ String \/ Decimal \/ Unsigned \/ Hex \/ Other
    PROVE  PrintfTyped' /\ OnTrack' /\ running'
<1> DEFINE m == call.memory
           q == After(m, pos)
           used == Takes(m, pos)
<1>1. PICK text \in Seq(Characters) :
            /\ Emit(text, q, used)
            /\ IsSupported(call, pos, arg) => text = Meant(call, pos, arg) /\ used = Uses(m, pos)
    BY DirectiveWrites
<1>2. /\ pos < Len(m) /\ Covers(call, pos, q, used)
      /\ ~Unfinished => q <= call.length + 1
      /\ m[pos] = "%" /\ m[pos] # NUL
    BY DirectiveIs DEF Directive, Goes, CharAt
<1>3. used \in {0, 1}
    BY DEF Takes
<1>4. /\ pos \in Nat \ {0} /\ call.length \in Nat /\ call \in Calls /\ arg \in Nat \ {0}
    BY WhereItIs DEF PrintfTyped
<1>5. pos <= call.length + 1 => pos <= call.length
    <2>1. \A p \in 1 .. call.length + 1 : m[p] = NUL <=> p = call.length + 1
        BY <1>4, CallType
    <2> QED
        BY <1>2, <1>4, <2>1
<1>6. pos <= call.length => \A u \in Texts(call)[pos][arg] :
        /\ q <= call.length + 1
        /\ \E v \in Texts(call)[q][arg + used] : u = text \o v
    <2> SUFFICES ASSUME pos <= call.length, NEW u \in Texts(call)[pos][arg]
                 PROVE  /\ q <= call.length + 1
                        /\ \E v \in Texts(call)[q][arg + used] : u = text \o v
        OBVIOUS
    <2>1. u \in Row(call, Texts(call), pos, arg)
        BY <1>4, TextsAre
    <2>2. ~(pos > call.length)
        BY <1>4
    <2>3. Row(call, Texts(call), pos, arg)
          = IF IsSupported(call, pos, arg)
            THEN {Meant(call, pos, arg) \o v : v \in Texts(call)[q][arg + Uses(m, pos)]}
            ELSE {}
        BY <1>2, <2>2 DEF Row
    <2> HIDE DEF q, used
    <2>4. IsSupported(call, pos, arg)
        BY <2>1, <2>3
    <2>5. PICK v \in Texts(call)[q][arg + used] : u = text \o v
        BY <1>1, <2>1, <2>3, <2>4
    <2>6. q <= call.length + 1
        BY <2>4 DEF IsSupported, q
    <2> QED
        BY <2>5, <2>6
<1> HIDE DEF q, used, m
<1>7. call' = call /\ pos' = q /\ arg' = arg + used /\ out' = Written(text) /\ running'
    BY <1>1 DEF Emit, Directive, Goes
<1>8. PrintfTyped'
    BY <1>1, <1>2, <1>3, <1>7, MovesTyped
<1>9. OnTrack'
    <2>1. pos <= call.length + 1 => \A u \in Texts(call)[pos][arg] :
            /\ q <= call.length + 1
            /\ \E v \in Texts(call)[q][arg + used] : u = text \o v
        BY <1>5, <1>6
    <2> QED
        BY <1>1, <1>2, <1>3, <1>7, <2>1, MovesOnTrack
<1> QED
    BY <1>7, <1>8, <1>9

(* A format that ends in a percent sign is not supported. *)
LEMMA LonePercentStays ==
    ASSUME PrintfTyped, OnTrack, LonePercent
    PROVE  Renderings(call) = {}
<1> DEFINE m == call.memory
           e == EndOfWidth(m, pos + 1)
<1>1. m[pos] = "%" /\ m[pos] # NUL /\ m[pos + 1] = NUL
    BY DEF LonePercent, Goes, CharAt, EndsInPercent
<1>2. /\ pos \in Nat \ {0} /\ call.length \in Nat /\ call \in Calls /\ arg \in Nat \ {0}
      /\ IsMemory(m) /\ call.length < Len(m) /\ Len(m) \in Nat
    BY WhereItIs DEF PrintfTyped, IsMemory
<1>3. SUFFICES ASSUME Renderings(call) # {} PROVE FALSE
    OBVIOUS
<1>4. pos <= call.length + 1 /\ Texts(call)[pos][arg] # {}
    BY <1>3 DEF OnTrack
<1>5. pos <= call.length /\ pos + 1 = call.length + 1
    <2>1. \A p \in 1 .. call.length + 1 : m[p] = NUL <=> p = call.length + 1
        BY <1>2, CallType
    <2>2. pos <= call.length
        BY <1>1, <1>2, <1>4, <2>1
    <2>3. pos + 1 \in 1 .. call.length + 1
        BY <1>2, <2>2
    <2> QED
        BY <1>1, <2>1, <2>2, <2>3
<1>6. IsSupported(call, pos, arg)
    <2>1. Texts(call)[pos][arg] = Row(call, Texts(call), pos, arg)
        BY <1>2, TextsAre
    <2>2. ~(pos > call.length)
        BY <1>2, <1>5
    <2> QED
        BY <1>1, <1>4, <2>1, <2>2 DEF Row
<1>7. After(m, pos) <= call.length + 1
    BY <1>6 DEF IsSupported
<1>8. After(m, pos) >= pos + 2 /\ After(m, pos) \in Nat
    <2>1. pos < Len(m)
        BY <1>2, <1>5
    <2> QED
        BY <1>2, <2>1, AfterIs
<1> QED
    BY <1>2, <1>5, <1>7, <1>8

LEMMA PrintfStep == PrintfInv /\ [PrintfNext]_printfVars => PrintfInv'
<1> SUFFICES ASSUME PrintfInv, [PrintfNext]_printfVars PROVE PrintfInv'
    OBVIOUS
<1> USE DEF PrintfInv
<1>1. ASSUME PrintfTyped' /\ OnTrack', running' PROVE PrintfInv'
    BY <1>1 DEF PrintsFormat
<1>2. ASSUME UNCHANGED <<call, pos, arg, out>> PROVE PrintfTyped'
    BY <1>2 DEF PrintfTyped, Unfinished
<1>3. CASE CopyChar
    <2>1. running /\ running'
        BY <1>3 DEF CopyChar, Goes
    <2>2. PrintfTyped' /\ OnTrack'
        BY <1>3, <2>1, CopyStays
    <2> QED
        BY <1>1, <2>1, <2>2
<1>4. CASE LonePercent
    <2>1. running /\ ~running' /\ UNCHANGED <<call, pos, arg, out>>
        BY <1>4 DEF LonePercent, Goes
    <2>2. Renderings(call) = {}
        BY <1>4, <2>1, LonePercentStays
    <2>3. PrintsFormat'
        BY <2>1, <2>2 DEF PrintsFormat, Renderings
    <2> QED
        BY <1>2, <2>1, <2>3
<1>5. CASE Long
    BY <1>1, <1>5, DirectiveStays DEF Long, Directive, Goes
<1>6. CASE String
    BY <1>1, <1>6, DirectiveStays DEF String, Directive, Goes
<1>7. CASE Decimal
    BY <1>1, <1>7, DirectiveStays DEF Decimal, Directive, Goes
<1>8. CASE Unsigned
    BY <1>1, <1>8, DirectiveStays DEF Unsigned, Directive, Goes
<1>9. CASE Hex
    BY <1>1, <1>9, DirectiveStays DEF Hex, Directive, Goes
<1>10. CASE Other
    BY <1>1, <1>10, DirectiveStays DEF Other, Directive, Goes
<1>11. CASE Finish
    <2>1. /\ running /\ ~running' /\ UNCHANGED <<call, pos, arg, out>>
          /\ call.memory[pos] = NUL \/ Len(out) = call.size - 1
        BY <1>11 DEF Finish, CharAt
    <2>2. \A t \in Renderings(call) : out = Cut(t, call.size - 1)
        BY <2>1, Completes
    <2>3. PrintsFormat'
        BY <2>1, <2>2 DEF PrintsFormat
    <2> QED
        BY <1>2, <2>1, <2>3
<1>12. CASE UNCHANGED printfVars
    BY <1>2, <1>12 DEF printfVars, OnTrack, PrintsFormat
<1> QED
    BY <1>3, <1>4, <1>5, <1>6, <1>7, <1>8, <1>9, <1>10, <1>11, <1>12 DEF PrintfNext

LEMMA PrintfInvHolds == PrintfSpec => []PrintfInv
BY PrintfStarts, PrintfStep, PTL DEF PrintfSpec

(* vsnprintf reads nothing behind its format or the arguments it was given,   *)
(* and writes nothing behind its buffer: for every call that passes an       *)
(* argument for every directive.                                            *)
THEOREM StaysInBoundsHolds == PrintfSpec => []StaysInBounds
<1>1. PrintfInv => StaysInBounds
    <2> SUFFICES ASSUME PrintfTyped PROVE StaysInBounds
        BY DEF PrintfInv
    <2>1. Needs[call][pos] \in Nat /\ call.size - 1 \in Nat
        BY WhereItIs
    <2>2. call.size \in Nat /\ call.args \in Seq([num : Words, text : Seq(Characters)])
        BY CallType DEF PrintfTyped
    <2>3. Len(call.args) \in Nat /\ Len(out) \in Nat
        BY <2>2, LenProperties DEF PrintfTyped
    <2> QED
        BY <2>1, <2>2, <2>3 DEF PrintfTyped, StaysInBounds
<1> QED
    BY <1>1, PrintfInvHolds, PTL

(* What printf writes is what its format says of its arguments, cut off at    *)
(* the end of the buffer: for every format of directives it supports, every  *)
(* argument and every size of the buffer.                                    *)
THEOREM PrintsFormatHolds == PrintfSpec => []PrintsFormat
<1>1. PrintfInv => PrintsFormat
    BY DEF PrintfInv
<1> QED
    BY <1>1, PrintfInvHolds, PTL

----------------------------------------------------------------------------
(* The lock of the UART. *)

USE UartAssumption

LEMMA InitInv == Init => UartInv
BY DEF Init, UartInv, UartTypeOK, MutualExclusion, LockInOnePlace, ConsoleOfHolder,
       LineOpen, WholeLines

LEMMA TypeStep == UartTypeOK /\ [Next]_uartVars => UartTypeOK'
<1> SUFFICES ASSUME UartTypeOK, [Next]_uartVars PROVE UartTypeOK'
    OBVIOUS
<1> USE DEF UartTypeOK
<1>1. ASSUME NEW c \in Cores, NEW n \in Lengths, Write(c, n) PROVE UartTypeOK'
    BY <1>1 DEF Write
<1>2. ASSUME NEW c \in Cores, Lock(c) PROVE UartTypeOK'
    BY <1>2 DEF Lock
<1>3. ASSUME NEW c \in Cores, Put(c) PROVE UartTypeOK'
    <2>1. console' \in Seq(Char)
        BY <1>3 DEF Put, Char
    <2>2. i' \in [Cores -> Nat] /\ \A d \in Cores : i'[d] <= len[d]
        BY <1>3 DEF Put
    <2> QED BY <1>3, <2>1, <2>2 DEF Put
<1>4. ASSUME NEW c \in Cores, Unlock(c) PROVE UartTypeOK'
    BY <1>4 DEF Unlock
<1>5. ASSUME NEW c \in Cores, Displace(c) PROVE UartTypeOK'
    BY <1>5 DEF Displace
<1>6. CASE UNCHANGED uartVars
    BY <1>6 DEF uartVars
<1> QED BY <1>1, <1>2, <1>3, <1>4, <1>5, <1>6 DEF Next, UartStep

(* The lock: a core that gets it finds it free, so it is nowhere else. *)
LEMMA LockStepKept ==
    ASSUME UartTypeOK, MutualExclusion, LockInOnePlace, [Next]_uartVars
    PROVE  MutualExclusion' /\ LockInOnePlace'
<1> USE DEF UartTypeOK, MutualExclusion, LockInOnePlace
<1>1. ASSUME NEW c \in Cores, NEW n \in Lengths, Write(c, n)
      PROVE  MutualExclusion' /\ LockInOnePlace'
    BY <1>1 DEF Write
<1>2. ASSUME NEW c \in Cores, Lock(c)
      PROVE  MutualExclusion' /\ LockInOnePlace'
    <2>1. CASE mutex = 0
        BY <1>2, <2>1 DEF Lock
    <2>2. CASE mutex # 0
        BY <1>2, <2>2 DEF Lock
    <2> QED BY <2>1, <2>2
<1>3. ASSUME NEW c \in Cores, Put(c)
      PROVE  MutualExclusion' /\ LockInOnePlace'
    BY <1>3 DEF Put
<1>4. ASSUME NEW c \in Cores, Unlock(c)
      PROVE  MutualExclusion' /\ LockInOnePlace'
    BY <1>4 DEF Unlock
<1>5. ASSUME NEW c \in Cores, Displace(c)
      PROVE  MutualExclusion' /\ LockInOnePlace'
    BY <1>5 DEF Displace
<1>6. CASE UNCHANGED uartVars
    BY <1>6 DEF uartVars
<1> QED BY <1>1, <1>2, <1>3, <1>4, <1>5, <1>6 DEF Next, UartStep

(* The console: only the holder of the lock appends to it. *)
LEMMA ConsoleKept ==
    ASSUME UartTypeOK, MutualExclusion, LockInOnePlace, ConsoleOfHolder, WholeLines,
           [Next]_uartVars
    PROVE  ConsoleOfHolder' /\ WholeLines'
<1> USE DEF UartTypeOK, ConsoleOfHolder, LineOpen, WholeLines
<1>1. ASSUME NEW c \in Cores, NEW n \in Lengths, Write(c, n)
      PROVE  ConsoleOfHolder' /\ WholeLines'
    BY <1>1 DEF Write
<1>2. ASSUME NEW c \in Cores, Lock(c)
      PROVE  ConsoleOfHolder' /\ WholeLines'
    <2>1. CASE mutex = 0
        <3>1. ~LineOpen /\ i[c] = 0
            BY <1>2, <2>1 DEF Lock, LockInOnePlace
        <3> QED BY <1>2, <2>1, <3>1 DEF Lock, LockInOnePlace
    <2>2. CASE mutex # 0
        BY <1>2, <2>2 DEF Lock
    <2> QED BY <2>1, <2>2
<1>3. ASSUME NEW c \in Cores, Put(c)
      PROVE  ConsoleOfHolder' /\ WholeLines'
    <2> DEFINE x == [core |-> c, first |-> i[c] = 0, last |-> i[c] + 1 = len[c]]
    <2>1. /\ Len(console') = Len(console) + 1
          /\ console'[Len(console) + 1] = x
          /\ \A k \in 1 .. Len(console) : console'[k] = console[k]
        BY <1>3 DEF Put, Char
    <2>2. /\ x.core = c
          /\ x.first <=> i[c] = 0
          /\ x.last <=> i[c] + 1 = len[c]
        OBVIOUS
    <2> HIDE DEF x
    <2>3. at' = at /\ len' = len /\ i'[c] = i[c] + 1 /\ i[c] < len[c] /\ at[c] = "put"
        BY <1>3 DEF Put
    <2>4. \A d \in Cores : at[d] = "put" => d = c
        BY <2>3 DEF MutualExclusion
    <2>5. console' # <<>>
        BY <2>1
    <2>6. ConsoleOfHolder'
        <3>1. \A d \in Cores : at'[d] = "lock" => i'[d] = 0
            BY <1>3, <2>3 DEF Put
        <3> QED BY <2>1, <2>2, <2>3, <2>4, <2>5, <3>1
    <2>7. WholeLines'
        <3> SUFFICES ASSUME NEW k \in 1 .. Len(console)
                     PROVE  IF console'[k].last THEN console'[k + 1].first
                            ELSE /\ console'[k + 1].core = console'[k].core
                                 /\ ~console'[k + 1].first
            BY <2>1
        <3>1. CASE k < Len(console)
            <4>1. k \in 1 .. Len(console) - 1 /\ k \in 1 .. Len(console)
                  /\ k + 1 \in 1 .. Len(console)
                BY <3>1
            <4>2. IF console[k].last THEN console[k + 1].first
                  ELSE console[k + 1].core = console[k].core /\ ~console[k + 1].first
                BY <4>1
            <4> HIDE DEF WholeLines, UartTypeOK, ConsoleOfHolder
            <4>3. console'[k] = console[k] /\ console'[k + 1] = console[k + 1]
                BY <2>1, <4>1
            <4> QED BY <4>2, <4>3
        <3>2. CASE k = Len(console)
            BY <2>1, <2>2, <2>3, <3>2
        <3> QED BY <3>1, <3>2
    <2> QED BY <2>6, <2>7
<1>4. ASSUME NEW c \in Cores, Unlock(c)
      PROVE  ConsoleOfHolder' /\ WholeLines'
    BY <1>4 DEF Unlock, MutualExclusion
<1>5. ASSUME NEW c \in Cores, Displace(c)
      PROVE  ConsoleOfHolder' /\ WholeLines'
    BY <1>5 DEF Displace
<1>6. CASE UNCHANGED uartVars
    BY <1>6 DEF uartVars
<1> QED BY <1>1, <1>2, <1>3, <1>4, <1>5, <1>6 DEF Next, UartStep

LEMMA UartInvHolds == Spec => []UartInv
<1>1. UartInv /\ [Next]_uartVars => UartInv'
    BY TypeStep, LockStepKept, ConsoleKept DEF UartInv
<1> QED BY InitInv, <1>1, PTL DEF Spec

(* uart_lock admits one core at a time, wherever uart_mutex lies. *)
THEOREM MutualExclusionHolds == Spec => []MutualExclusion
<1>1. UartInv => MutualExclusion
    BY DEF UartInv
<1> QED BY UartInvHolds, <1>1, PTL

(* The texts that the cores write never mix on the console. *)
THEOREM WholeLinesHolds == Spec => []WholeLines
<1>1. UartInv => WholeLines
    BY DEF UartInv
<1> QED BY UartInvHolds, <1>1, PTL

(* hello_rv32, stepped in turn, touches the lock and the console only as the   *)
(* cores of UartLock do, so what is proved of them holds of it.              *)
THEOREM HelloUsesLock == HelloSpec => Spec
<1> USE HelloAssumption
<1>1. HelloInit => Init
    BY DEF HelloInit
<1>2. [HelloNext]_vars => [Next]_uartVars
    <2> SUFFICES ASSUME [HelloNext]_vars PROVE [Next]_uartVars
        OBVIOUS
    <2>1. CASE Skip \/ Instruction \/ EndCycle
        BY <2>1 DEF Skip, Instruction, EndCycle
    <2>2. CASE LastInstruction
        <3>1. turn \in Cores
            BY <2>2 DEF LastInstruction
        <3>2. CASE PrintLine(turn)
            BY <3>1, <3>2 DEF PrintLine, Next
        <3>3. CASE InPrint(turn)
            BY <3>1, <3>3 DEF InPrint, Next
        <3>4. CASE UNCHANGED uartVars
            BY <3>4
        <3> QED
            BY <2>2, <3>2, <3>3, <3>4
            DEF LastInstruction, Statement, WaitLoop, SetStack, Main, GetPhase,
                ReleaseAllCores, SetPhase, Idle
    <2>3. CASE Displaced
        BY <2>3 DEF Displaced, Next
    <2>4. CASE UNCHANGED vars
        BY <2>4 DEF vars
    <2> QED BY <2>1, <2>2, <2>3, <2>4 DEF HelloNext
<1> QED BY <1>1, <1>2, PTL DEF HelloSpec, Spec

=============================================================================
