------------------------- MODULE InstructionProofs --------------------------
(***************************************************************************)
(* Proofs about the instructions of Core::step, for registers of 16 or of 32   *)
(* bits, every word, every value of the registers and every immediate: step *)
(* does what the instruction set says of the instruction that the assembler *)
(* has encoded, and the trace of the core and the text of the debugger show  *)
(* what step then does, but for the mistakes that Instructions.tla lists.   *)
(***************************************************************************)
EXTENDS Instructions, WellFoundedInduction, TLAPS

(* A nonempty set of naturals has a least element. *)
LEMMA Least ==
    ASSUME NEW T, T \subseteq Nat, T # {}
    PROVE  \E x \in T : \A y \in T : x <= y
<1> DEFINE R == {ss \in Nat \X Nat : ss[1] < ss[2]}
<1>1. IsWellFoundedOn(R, Nat)
    BY NatLessThanWellFounded DEF OpToRel
<1> HIDE DEF R
<1>2. PICK x \in T : \A y \in T : ~(<<y, x>> \in R)
    BY <1>1, WFMin
<1>3. \A y \in T : ~(y < x)
    BY <1>2 DEF R
<1> QED
    BY <1>3

(* Powers of two, which the provers know one by one. *)
LEMMA Powers ==
    ASSUME NEW k \in 0 .. 31
    PROVE  2^k \in Nat \ {0} /\ 2^(k + 1) = 2 * 2^k
<1>1. \/ k \in {0, 1, 2, 3, 4, 5, 6, 7} \/ k \in {8, 9, 10, 11, 12, 13, 14, 15}
      \/ k \in {16, 17, 18, 19, 20, 21, 22, 23} \/ k \in {24, 25, 26, 27, 28, 29, 30, 31}
    OBVIOUS
<1>2. ASSUME k \in {0, 1, 2, 3, 4, 5, 6, 7} PROVE 2^k \in Nat \ {0} /\ 2^(k + 1) = 2 * 2^k
    <2>1. CASE k = 0
        BY <2>1, SMT
    <2>2. CASE k = 1
        BY <2>2, SMT
    <2>3. CASE k = 2
        BY <2>3, SMT
    <2>4. CASE k = 3
        BY <2>4, SMT
    <2>5. CASE k = 4
        BY <2>5, SMT
    <2>6. CASE k = 5
        BY <2>6, SMT
    <2>7. CASE k = 6
        BY <2>7, SMT
    <2>8. CASE k = 7
        BY <2>8, SMT
    <2> QED
        BY <1>2, <2>1, <2>2, <2>3, <2>4, <2>5, <2>6, <2>7, <2>8
<1>3. ASSUME k \in {8, 9, 10, 11, 12, 13, 14, 15} PROVE 2^k \in Nat \ {0} /\ 2^(k + 1) = 2 * 2^k
    <2>1. CASE k = 8
        BY <2>1, SMT
    <2>2. CASE k = 9
        BY <2>2, SMT
    <2>3. CASE k = 10
        BY <2>3, SMT
    <2>4. CASE k = 11
        BY <2>4, SMT
    <2>5. CASE k = 12
        BY <2>5, SMT
    <2>6. CASE k = 13
        BY <2>6, SMT
    <2>7. CASE k = 14
        BY <2>7, SMT
    <2>8. CASE k = 15
        BY <2>8, SMT
    <2> QED
        BY <1>3, <2>1, <2>2, <2>3, <2>4, <2>5, <2>6, <2>7, <2>8
<1>4. ASSUME k \in {16, 17, 18, 19, 20, 21, 22, 23} PROVE 2^k \in Nat \ {0} /\ 2^(k + 1) = 2 * 2^k
    <2>1. CASE k = 16
        BY <2>1, SMT
    <2>2. CASE k = 17
        BY <2>2, SMT
    <2>3. CASE k = 18
        BY <2>3, SMT
    <2>4. CASE k = 19
        BY <2>4, SMT
    <2>5. CASE k = 20
        BY <2>5, SMT
    <2>6. CASE k = 21
        BY <2>6, SMT
    <2>7. CASE k = 22
        BY <2>7, SMT
    <2>8. CASE k = 23
        BY <2>8, SMT
    <2> QED
        BY <1>4, <2>1, <2>2, <2>3, <2>4, <2>5, <2>6, <2>7, <2>8
<1>5. ASSUME k \in {24, 25, 26, 27, 28, 29, 30, 31} PROVE 2^k \in Nat \ {0} /\ 2^(k + 1) = 2 * 2^k
    <2>1. CASE k = 24
        BY <2>1, SMT
    <2>2. CASE k = 25
        BY <2>2, SMT
    <2>3. CASE k = 26
        BY <2>3, SMT
    <2>4. CASE k = 27
        BY <2>4, SMT
    <2>5. CASE k = 28
        BY <2>5, SMT
    <2>6. CASE k = 29
        BY <2>6, SMT
    <2>7. CASE k = 30
        BY <2>7, SMT
    <2>8. CASE k = 31
        BY <2>8, SMT
    <2> QED
        BY <1>5, <2>1, <2>2, <2>3, <2>4, <2>5, <2>6, <2>7, <2>8
<1> QED
    BY <1>1, <1>2, <1>3, <1>4, <1>5

----------------------------------------------------------------------------
(* The bitwise operators leave a number in rd. *)

BitOfBoth(x, y) == IF x % 2 = 1 /\ y % 2 = 1 THEN 1 ELSE 0

(* What BitAnd computes for one x, from what h says of half of it. *)
AndRow(m, x, h) ==
    [y \in 0 .. m |-> IF x = 0 THEN 0 ELSE BitOfBoth(x, y) + 2 * h[x \div 2][y \div 2]]

(* f is what BitAnd computes of all numbers up to n and m. *)
AndTable(n, m, f) == f = [x \in 0 .. n |-> AndRow(m, x, f)]

(* A row depends on the row of half its number alone. *)
LEMMA AndRowSame ==
    ASSUME NEW m \in Nat, NEW x \in Nat, NEW f, NEW g, x # 0 => f[x \div 2] = g[x \div 2]
    PROVE  AndRow(m, x, f) = AndRow(m, x, g)
BY DEF AndRow

(* The recursion has a solution. *)
LEMMA AndTableExists ==
    ASSUME NEW n \in Nat, NEW m \in Nat
    PROVE  \E f : AndTable(n, m, f)
<1> DEFINE Without == {k \in Nat : ~\E f : AndTable(k, m, f)}
<1>1. SUFFICES ASSUME Without # {} PROVE FALSE
    OBVIOUS
<1>2. PICK k \in Without : \A j \in Without : k <= j
    BY <1>1, Least
<1>3. PICK f : k # 0 => AndTable(k - 1, m, f)
    <2>1. CASE k = 0
        BY <2>1
    <2>2. CASE k # 0
        <3>1. k - 1 \in Nat /\ ~(k <= k - 1)
            BY <1>2, <2>2
        <3> QED
            BY <3>1, <1>2
    <2> QED
        BY <2>1, <2>2
<1> DEFINE g == [x \in 0 .. k |-> AndRow(m, x, f)]
<1>4. \A x \in 0 .. k : x # 0 => f[x \div 2] = g[x \div 2]
    <2> SUFFICES ASSUME NEW x \in 0 .. k, x # 0 PROVE f[x \div 2] = g[x \div 2]
        OBVIOUS
    <2>1. k # 0 /\ x \div 2 \in 0 .. k - 1 /\ x \div 2 \in 0 .. k
        BY <1>2
    <2>2. f[x \div 2] = AndRow(m, x \div 2, f)
        BY <1>3, <2>1 DEF AndTable
    <2> QED
        BY <2>1, <2>2
<1>5. \A x \in 0 .. k : AndRow(m, x, f) = AndRow(m, x, g)
    <2> SUFFICES ASSUME NEW x \in 0 .. k PROVE AndRow(m, x, f) = AndRow(m, x, g)
        OBVIOUS
    <2> HIDE DEF g
    <2>1. x \in Nat /\ (x # 0 => f[x \div 2] = g[x \div 2])
        BY <1>2, <1>4
    <2> QED
        BY <2>1, AndRowSame
<1>6. g = [x \in 0 .. k |-> AndRow(m, x, g)]
    BY <1>5
<1> HIDE DEF g
<1>7. AndTable(k, m, g)
    BY <1>6 DEF AndTable
<1> QED
    BY <1>2, <1>7

LEMMA AndSteps ==
    ASSUME NEW v \in Nat, NEW w \in Nat
    PROVE  \E f : /\ BitAnd(v, w) = f[v][w]
                  /\ \A x \in 0 .. v, y \in 0 .. w :
                        f[x][y] = IF x = 0 THEN 0
                                  ELSE BitOfBoth(x, y) + 2 * f[x \div 2][y \div 2]
<1> DEFINE f == CHOOSE f : AndTable(v, w, f)
<1>1. AndTable(v, w, f)
    BY AndTableExists
<1>2. BitAnd(v, w) = f[v][w]
    BY DEF BitAnd, AndTable, AndRow, BitOfBoth
<1> HIDE DEF f
<1>3. \A x \in 0 .. v, y \in 0 .. w :
        f[x][y] = IF x = 0 THEN 0 ELSE BitOfBoth(x, y) + 2 * f[x \div 2][y \div 2]
    BY <1>1 DEF AndTable, AndRow
<1> QED
    BY <1>2, <1>3

(* The conjunction is no greater than either number. *)
LEMMA AndBounds ==
    ASSUME NEW v \in Nat, NEW w \in Nat
    PROVE  BitAnd(v, w) \in Nat /\ BitAnd(v, w) <= v /\ BitAnd(v, w) <= w
<1>1. PICK f :
        /\ BitAnd(v, w) = f[v][w]
        /\ \A x \in 0 .. v, y \in 0 .. w :
              f[x][y] = IF x = 0 THEN 0 ELSE BitOfBoth(x, y) + 2 * f[x \div 2][y \div 2]
    BY AndSteps
<1> DEFINE Good(x) == \A y \in 0 .. w : f[x][y] \in Nat /\ f[x][y] <= x /\ f[x][y] <= y
           Bad == {x \in 0 .. v : ~Good(x)}
<1>2. Bad = {}
    <2> SUFFICES ASSUME Bad # {} PROVE FALSE
        OBVIOUS
    <2>1. PICK x \in Bad : \A z \in Bad : x <= z
        <3>1. Bad \subseteq Nat
            OBVIOUS
        <3> HIDE DEF Bad
        <3> QED
            BY <3>1, Least
    <2>2. x \in 0 .. v /\ x \in Nat
        BY <2>1
    <2>3. x # 0
        <3> SUFFICES ASSUME x = 0 PROVE FALSE
            OBVIOUS
        <3>1. \A y \in 0 .. w : f[x][y] = 0
            BY <1>1, <2>2
        <3> QED
            BY <2>1, <3>1
    <2>4. Good(x \div 2)
        <3>1. x \div 2 \in 0 .. v /\ ~(x <= x \div 2)
            BY <2>2, <2>3
        <3> HIDE DEF Good
        <3> QED
            BY <2>1, <3>1
    <2>5. ASSUME NEW y \in 0 .. w
          PROVE  f[x][y] \in Nat /\ f[x][y] <= x /\ f[x][y] <= y
        <3> DEFINE h == f[x \div 2][y \div 2]
        <3>1. y \in Nat /\ y \div 2 \in 0 .. w
            OBVIOUS
        <3>2. h \in Nat /\ h <= x \div 2 /\ h <= y \div 2
            BY <2>4, <3>1
        <3>3. f[x][y] = BitOfBoth(x, y) + 2 * h
            BY <1>1, <2>2, <2>3
        <3>4. \/ BitOfBoth(x, y) = 0
              \/ BitOfBoth(x, y) = 1 /\ x % 2 = 1 /\ y % 2 = 1
            BY DEF BitOfBoth
        <3> HIDE DEF h
        <3> QED
            BY <2>2, <3>1, <3>2, <3>3, <3>4
    <2> QED
        BY <2>1, <2>5
<1>3. v \in 0 .. v /\ w \in 0 .. w
    OBVIOUS
<1>4. Good(v)
    BY <1>2, <1>3
<1> QED
    BY <1>1, <1>3, <1>4

(* Nor does the disjunction have a bit that neither number has. *)
LEMMA OrBound ==
    ASSUME NEW v \in Nat, NEW w \in Nat, NEW n \in 0 .. 32, v < 2^n, w < 2^n
    PROVE  BitOr(v, w) < 2^n
<1>1. PICK f :
        /\ BitAnd(v, w) = f[v][w]
        /\ \A x \in 0 .. v, y \in 0 .. w :
              f[x][y] = IF x = 0 THEN 0 ELSE BitOfBoth(x, y) + 2 * f[x \div 2][y \div 2]
    BY AndSteps
<1> DEFINE Good(k) == \A x \in 0 .. v, y \in 0 .. w :
                        x < 2^k /\ y < 2^k => f[x][y] \in Int /\ (x + y) - f[x][y] < 2^k
           Bad == {k \in 0 .. 32 : ~Good(k)}
<1>2. Bad = {}
    <2> SUFFICES ASSUME Bad # {} PROVE FALSE
        OBVIOUS
    <2>1. PICK k \in Bad : \A j \in Bad : k <= j
        <3>1. Bad \subseteq Nat
            OBVIOUS
        <3> HIDE DEF Bad
        <3> QED
            BY <3>1, Least
    <2>2. k \in 0 .. 32 /\ ~Good(k)
        BY <2>1
    <2>3. k # 0
        <3> SUFFICES ASSUME k = 0 PROVE Good(0)
            BY <2>2
        <3> SUFFICES ASSUME NEW x \in 0 .. v, NEW y \in 0 .. w, x < 2^0, y < 2^0
                     PROVE  f[x][y] \in Int /\ (x + y) - f[x][y] < 2^0
            OBVIOUS
        <3>1. 2^0 = 1
            OBVIOUS
        <3>2. x = 0 /\ y = 0
            BY <3>1
        <3>3. f[x][y] = 0
            BY <1>1, <3>2
        <3> QED
            BY <3>1, <3>2, <3>3
    <2> DEFINE p == 2^(k - 1)
    <2>4. p \in Nat \ {0} /\ 2^k = 2 * p
        <3>1. k - 1 \in 0 .. 31 /\ (k - 1) + 1 = k
            BY <2>2, <2>3
        <3> QED
            BY <3>1, Powers
    <2>5. \A x \in 0 .. v, y \in 0 .. w :
            x < p /\ y < p => f[x][y] \in Int /\ (x + y) - f[x][y] < p
        <3>1. k - 1 \in 0 .. 32 /\ ~(k <= k - 1)
            BY <2>2, <2>3
        <3>2. Good(k - 1)
            <4> HIDE DEF Good
            <4> QED
                BY <2>1, <3>1
        <3> QED
            BY <3>2
    <2> HIDE DEF p
    <2>6. ASSUME NEW x \in 0 .. v, NEW y \in 0 .. w, x < 2 * p, y < 2 * p
          PROVE  f[x][y] \in Int /\ (x + y) - f[x][y] < 2 * p
        <3>1. CASE x = 0
            <4>1. f[x][y] = 0
                BY <1>1, <3>1
            <4> QED
                BY <2>4, <2>6, <3>1, <4>1
        <3>2. CASE x # 0
            <4> DEFINE h == f[x \div 2][y \div 2]
            <4>1. /\ x \in Nat /\ y \in Nat
                  /\ x \div 2 \in 0 .. v /\ y \div 2 \in 0 .. w
                  /\ x \div 2 < p /\ y \div 2 < p
                BY <2>4, <2>6
            <4>2. h \in Int /\ (x \div 2 + y \div 2) - h < p
                BY <2>5, <4>1
            <4>3. f[x][y] = BitOfBoth(x, y) + 2 * h
                BY <1>1, <3>2
            <4>4. \/ BitOfBoth(x, y) = 0 /\ (x % 2 = 0 \/ y % 2 = 0)
                  \/ BitOfBoth(x, y) = 1 /\ x % 2 = 1 /\ y % 2 = 1
                BY <4>1 DEF BitOfBoth
            <4> HIDE DEF h
            <4> QED
                BY <2>4, <4>1, <4>2, <4>3, <4>4
        <3> QED
            BY <3>1, <3>2
    <2>7. Good(k)
        BY <2>4, <2>6
    <2> QED
        BY <2>2, <2>7
<1>3. v \in 0 .. v /\ w \in 0 .. w
    OBVIOUS
<1>4. Good(n)
    BY <1>2
<1>5. (v + w) - f[v][w] < 2^n
    <2> HIDE DEF Bad
    <2> QED
        BY <1>3, <1>4
<1> QED
    BY <1>1, <1>5 DEF BitOr

----------------------------------------------------------------------------
(* The numbers of a register. *)

LEMMA Widths ==
    /\ XLen \in {16, 32}
    /\ Modulus \in {65536, 65536 * 65536}
    /\ Modulus = 2 * 2^(XLen - 1)
    /\ 2^(XLen - 1) \in Nat
    /\ Half \in Nat \ {0}
<1>1. XLen \in {16, 32}
    BY WidthAssumption
<1>2. CASE XLen = 16
    BY <1>2, SMT DEF Modulus, Half
<1>3. CASE XLen = 32
    <2>1. Modulus = 65536 * 65536
        BY <1>3, SMT DEF Modulus
    <2>2. Half \in Nat \ {0}
        BY <1>3, SMT DEF Half
    <2>3. 2^(XLen - 1) = 32768 * 65536
        BY <1>3, SMT
    <2> QED
        BY <1>1, <2>1, <2>2, <2>3, SMT
<1>4. XLen = 16 \/ XLen = 32
    BY <1>1
<1> QED
    BY <1>2, <1>3, <1>4, SMT

(* The amount of a shift, and the power of two it stands for. *)
LEMMA ShiftAmount ==
    ASSUME NEW v \in Int
    PROVE  /\ v % XLen \in 0 .. 31
           /\ 2^(v % XLen) \in Nat \ {0}
<1>1. v % XLen \in 0 .. 31
    <2>1. XLen \in {16, 32}
        BY WidthAssumption
    <2>2. CASE XLen = 16
        BY <2>2, SMT
    <2>3. CASE XLen = 32
        BY <2>3, SMT
    <2> QED
        BY <2>1, <2>2, <2>3
<1> QED
    BY <1>1, Powers

LEMMA OnesAndModulus == AllOnes = Modulus - 1 /\ 2^XLen = Modulus
BY DEF AllOnes, Modulus

(* A result that is cut to the width of a register fits. *)
LEMMA WrapFits ==
    ASSUME NEW v \in Int
    PROVE  Wrap(v) \in 0 .. Modulus - 1 /\ InstructionSet!Wrap(v) = Wrap(v)
BY Widths, SMT DEF Wrap, Modulus, InstructionSet!Wrap, InstructionSet!Modulus

LEMMA SignedAgrees ==
    ASSUME NEW v \in Nat
    PROVE  Signed(v) \in Int /\ InstructionSet!Signed(v) = Signed(v)
BY Widths, SMT DEF Signed, Modulus, InstructionSet!Signed, InstructionSet!Modulus

----------------------------------------------------------------------------
(* Step and the instruction set compute the same results. *)

LEMMA ArithmeticAgrees ==
    ASSUME NEW a \in Int, NEW b \in Int
    PROVE  /\ InstructionSet!Low(a, b) = Low(a, b) /\ Low(a, b) \in Nat
           /\ InstructionSet!High(a, b) = High(a, b) /\ High(a, b) \in Int
           /\ a >= 0 /\ b >= 0 => High(a, b) \in Nat
<1>1. Half \in Nat \ {0} /\ Modulus \in Nat \ {0}
    BY Widths, SMT
<1>2. InstructionSet!Low(a, b) = Low(a, b) /\ InstructionSet!High(a, b) = High(a, b)
    BY DEF InstructionSet!Low, InstructionSet!High, InstructionSet!Half,
           InstructionSet!Modulus, Low, High, Half, Modulus
<1> DEFINE h == a \div Half
           l == a % Half
           s == h * b + (l * b) \div Half
<1>3. h \in Int /\ l \in Nat
    BY <1>1
<1>4. h * b \in Int /\ l * b \in Int
    BY <1>3
<1>5. s \in Int /\ s \div Half \in Int
    BY <1>1, <1>4
<1>6. High(a, b) = s \div Half
    BY DEF High
<1>7. ASSUME a >= 0, b >= 0 PROVE s \div Half \in Nat
    <2>1. h \in Nat /\ b \in Nat
        BY <1>1, <1>7
    <2>2. h * b \in Nat /\ l * b \in Nat
        BY <2>1, <1>3
    <2>3. (l * b) \div Half \in Nat
        BY <2>2, <1>1
    <2> HIDE DEF h, l
    <2>4. s \in Nat
        BY <2>2, <2>3
    <2> HIDE DEF s
    <2> QED
        BY <2>4, <1>1
<1>8. Low(a, b) \in Nat
    <2>1. ((h * b) % Half) * Half + l * b \in Int
        <3>1. (h * b) % Half \in Nat
            BY <1>1, <1>4
        <3> HIDE DEF h, l
        <3>2. ((h * b) % Half) * Half \in Nat
            BY <1>1, <3>1
        <3> QED
            BY <3>2, <1>4
    <2> QED
        BY <2>1, <1>1 DEF Low
<1> HIDE DEF s
<1> QED
    BY <1>2, <1>5, <1>6, <1>7, <1>8

(* Both round a quotient towards zero. *)
LEMMA DivisionAgrees ==
    ASSUME NEW a \in Int, NEW b \in Int, b # 0
    PROVE  /\ InstructionSet!Quotient(a, b) = Divide(a, b) /\ Divide(a, b) \in Int
           /\ InstructionSet!Remainder(a, b) = Modulo(a, b) /\ Modulo(a, b) \in Int
<1>1. /\ Abs(a) \in Nat /\ Abs(b) \in Nat \ {0}
      /\ InstructionSet!Abs(a) = Abs(a) /\ InstructionSet!Abs(b) = Abs(b)
    BY DEF Abs, InstructionSet!Abs
<1>2. Abs(a) \div Abs(b) \in Nat
    BY <1>1
<1>3. InstructionSet!Quotient(a, b) = Divide(a, b) /\ Divide(a, b) \in Int
    <2>1. ((a < 0) = (b < 0)) <=> ((a < 0) <=> (b < 0))
        OBVIOUS
    <2> QED
        BY <1>1, <1>2, <2>1 DEF InstructionSet!Quotient, Divide
<1> DEFINE q == Divide(a, b)
<1> HIDE DEF q
<1>4. q \in Int /\ b * q = q * b /\ a - q * b \in Int
    BY <1>3 DEF q
<1>5. Modulo(a, b) = a - q * b /\ InstructionSet!Remainder(a, b) = a - b * q
    BY <1>3 DEF Modulo, InstructionSet!Remainder, q
<1> QED
    BY <1>3, <1>4, <1>5

(* The quotient of the least number by -1 is the number itself.  Its remainder *)
(* by -1, of which step may find 0 or die, is 0.                            *)
LEMMA SignedDivisionAgrees ==
    ASSUME NEW a \in 0 .. Modulus - 1, NEW b \in 0 .. Modulus - 1
    PROVE  /\ SignedDivision(a, b) = InstructionSet!Result("div", a, b)
           /\ SignedRemainder(a, b) = InstructionSet!Result("rem", a, b)
           /\ SignedDivision(a, b) \in Nat /\ SignedRemainder(a, b) \in Nat
<1> DEFINE x == Signed(a)
           y == Signed(b)
<1>1. /\ x \in Int /\ InstructionSet!Signed(a) = x
      /\ y \in Int /\ InstructionSet!Signed(b) = y
    BY SignedAgrees
<1>2. Modulus \in Nat \ {0, 1} /\ InstructionSet!Modulus = Modulus
    BY Widths, SMT DEF InstructionSet!Modulus, Modulus
<1>3. /\ InstructionSet!Result("div", a, b) =
            IF b = 0 THEN Modulus - 1 ELSE InstructionSet!Wrap(InstructionSet!Quotient(x, y))
      /\ InstructionSet!Result("rem", a, b) =
            IF b = 0 THEN a ELSE InstructionSet!Wrap(InstructionSet!Remainder(x, y))
    BY <1>1, <1>2 DEF InstructionSet!Result
<1>4. CASE b = 0
    BY <1>2, <1>3, <1>4, OnesAndModulus DEF SignedDivision, SignedRemainder
<1>5. CASE b # 0 /\ y = 0
    BY <1>5, Widths, SMT DEF Signed, Modulus
<1>6. CASE b # 0 /\ y # 0
    <2>1. /\ InstructionSet!Quotient(x, y) = Divide(x, y) /\ Divide(x, y) \in Int
          /\ InstructionSet!Remainder(x, y) = Modulo(x, y) /\ Modulo(x, y) \in Int
        BY <1>1, <1>6, DivisionAgrees
    <2>2. /\ InstructionSet!Wrap(Divide(x, y)) = Wrap(Divide(x, y)) /\ Wrap(Divide(x, y)) \in Nat
          /\ InstructionSet!Wrap(Modulo(x, y)) = Wrap(Modulo(x, y)) /\ Wrap(Modulo(x, y)) \in Nat
        BY <2>1, <1>2, WrapFits
    <2>3. ASSUME a = 2^(XLen - 1), b = AllOnes
          PROVE  Wrap(Divide(x, y)) = a
        <3>1. Modulus = 2 * a
            BY <2>3, Widths
        <3>2. b = Modulus - 1
            BY <2>3, OnesAndModulus
        <3>3. x + a = 0 /\ y + 1 = 0
            BY <2>3, <3>1, <3>2, <1>2, OnesAndModulus DEF Signed
        <3>4. Divide(x, y) = a
            <4> HIDE DEF x, y
            <4>1. a \in Nat /\ a > 0
                BY <3>1, <1>2
            <4>2. x < 0 /\ y < 0 /\ -x = a /\ -y = 1 /\ a \div 1 = a
                BY <1>1, <3>3, <4>1
            <4>3. Abs(x) = a /\ Abs(y) = 1
                BY <4>2, Zenon DEF Abs
            <4>4. \A u, v \in Int : u < 0 /\ v < 0 => Divide(u, v) = Abs(u) \div Abs(v)
                BY DEF Divide
            <4> QED
                BY <1>1, <4>2, <4>3, <4>4, Zenon
        <3>5. a % Modulus = a
            BY <3>1, <1>2
        <3> QED
            BY <3>4, <3>5, OnesAndModulus DEF Wrap
    <2> HIDE DEF x, y
    <2> QED
        BY <1>3, <1>6, <2>1, <2>2, <2>3 DEF SignedDivision, SignedRemainder, x, y
<1> QED
    BY <1>4, <1>5, <1>6

(* A number that fits into a register has no bit that does not. *)
LEMMA BitsFit ==
    ASSUME NEW a \in 0 .. Modulus - 1, NEW b \in 0 .. Modulus - 1
    PROVE  /\ BitAnd(a, b) \in 0 .. Modulus - 1
           /\ BitOr(a, b) \in 0 .. Modulus - 1
           /\ BitXor(a, b) \in 0 .. Modulus - 1
<1> DEFINE c == BitAnd(a, b)
<1>1. Modulus \in Nat /\ XLen \in 0 .. 32 /\ 2^XLen = Modulus
    BY Widths, OnesAndModulus, SMT
<1>2. a \in Nat /\ b \in Nat /\ a < 2^XLen /\ b < 2^XLen
    BY <1>1
<1>3. c \in Nat /\ c <= a /\ c <= b
    BY <1>2, AndBounds
<1>4. BitOr(a, b) < Modulus
    BY <1>1, <1>2, OrBound
<1>5. BitOr(a, b) = (a + b) - c /\ BitXor(a, b) = (a + b) - 2 * c
    BY DEF BitOr, BitXor
<1> HIDE DEF c
<1>6. c \in 0 .. Modulus - 1
    BY <1>1, <1>2, <1>3
<1>7. (a + b) - c \in 0 .. Modulus - 1 /\ (a + b) - 2 * c \in 0 .. Modulus - 1
    BY <1>1, <1>2, <1>3, <1>4, <1>5
<1> QED
    BY <1>5, <1>6, <1>7 DEF c

(* A shift to the right and an unsigned division make no number greater. *)
LEMMA QuotientFits ==
    ASSUME NEW a \in Nat, NEW b \in Nat \ {0}
    PROVE  a \div b \in 0 .. a /\ a % b \in 0 .. b - 1 /\ a % b <= a
<1> DEFINE q == a \div b
           r == a % b
<1>1. q \in Int /\ r \in 0 .. b - 1 /\ a = b * q + r
    OBVIOUS
<1> HIDE DEF q, r
<1>2. q >= 0
    <2> SUFFICES ASSUME q <= -1 PROVE FALSE
        BY <1>1
    <2>1. b * q <= -b
        BY <1>1
    <2> QED
        BY <1>1, <2>1
<1>3. q <= b * q /\ 0 <= b * q
    BY <1>1, <1>2
<1>4. q <= a /\ r <= a
    BY <1>1, <1>3
<1> QED
    BY <1>1, <1>2, <1>4 DEF q, r

(* The operation m of the instruction set that step carries out for word w of *)
(* OP: by its encoding, or by what step takes for one.                      *)
Operates(w, m) ==
    \/ /\ m \in RegisterOps \ {"mulh", "mulhsu", "mulhu"}
       /\ w.f3 = OpCodes[m][1] /\ w.f7 = OpCodes[m][2]
    \/ w.f3 = 1 /\ w.f7 = 1 /\ <<m, w.rs2>> \in {<<"mulh", 1>>, <<"mulhsu", 2>>, <<"mulhu", 3>>}
    \/ w.f3 = 1 /\ m = "sll" /\ ~(w.f7 = 1 /\ w.rs2 \in 1 .. 3)
    \/ w.f3 = 2 /\ m = "slt"
    \/ w.f3 = 3 /\ m = "sltu"
    \/ w.f3 = 5 /\ <<m, w.f7>> \in {<<"rem", \h21>>, <<"remu", \h25>>}

(* The operations for which step computes the same by the same formula. *)
LEMMA SimpleResults ==
    ASSUME NEW w, NEW m, NEW old, Operates(w, m),
           NEW a \in 0 .. Modulus - 1, NEW b \in 0 .. Modulus - 1
    PROVE  /\ m = "add" => RegisterResult(w, a, b, old) = Wrap(a + b)
           /\ m = "sub" => RegisterResult(w, a, b, old) = Wrap(a - b)
           /\ m = "sll" => RegisterResult(w, a, b, old) = Wrap(a * 2^Shift(b))
           /\ m = "slt" => RegisterResult(w, a, b, old) = IF Signed(a) < Signed(b) THEN 1 ELSE 0
           /\ m = "sltu" => RegisterResult(w, a, b, old) = IF a < b THEN 1 ELSE 0
           /\ m = "xor" => RegisterResult(w, a, b, old) = BitXor(a, b)
           /\ m = "srl" => RegisterResult(w, a, b, old) = a \div 2^Shift(b)
           /\ m = "sra" => RegisterResult(w, a, b, old) = Wrap(Signed(a) \div 2^Shift(b))
           /\ m = "or" => RegisterResult(w, a, b, old) = BitOr(a, b)
           /\ m = "and" => RegisterResult(w, a, b, old) = BitAnd(a, b)
           /\ m = "mul" => RegisterResult(w, a, b, old) = Low(a, b)
           /\ m = "mulh" => RegisterResult(w, a, b, old) = Wrap(High(Signed(a), Signed(b)))
           /\ m = "mulhsu" => RegisterResult(w, a, b, old) = Wrap(High(Signed(a), b))
           /\ m = "mulhu" => RegisterResult(w, a, b, old) = Wrap(High(a, b))
           /\ m = "div" => RegisterResult(w, a, b, old) = SignedDivision(a, b)
           /\ m = "divu" => RegisterResult(w, a, b, old) = IF b = 0 THEN AllOnes ELSE a \div b
           /\ m = "rem" => RegisterResult(w, a, b, old) = SignedRemainder(a, b)
           /\ m = "remu" => RegisterResult(w, a, b, old) = UnsignedRemainder(a, b)
           /\ m \in RegisterOps
<1>1. \/ <<m, w.f3, w.f7>> \in {<<"add", 0, 0>>, <<"sub", 0, 32>>, <<"xor", 4, 0>>,
            <<"srl", 5, 0>>, <<"sra", 5, 32>>, <<"or", 6, 0>>, <<"and", 7, 0>>,
            <<"mul", 0, 1>>, <<"div", 4, 1>>, <<"divu", 5, 1>>, <<"rem", 6, 1>>,
            <<"remu", 7, 1>>, <<"rem", 5, 33>>, <<"remu", 5, 37>>}
      \/ <<m, w.f3>> \in {<<"slt", 2>>, <<"sltu", 3>>}
      \/ m = "sll" /\ w.f3 = 1 /\ ~(w.f7 = 1 /\ w.rs2 \in 1 .. 3)
      \/ w.f3 = 1 /\ w.f7 = 1 /\ <<m, w.rs2>> \in {<<"mulh", 1>>, <<"mulhsu", 2>>, <<"mulhu", 3>>}
    BY SMTT(30) DEF Operates, RegisterOps, OpCodes
<1>2. CASE <<m, w.f3>> \in {<<"slt", 2>>, <<"sltu", 3>>}
    BY <1>2 DEF RegisterResult, RegisterOps, Bit
<1>3. CASE m = "sll" /\ w.f3 = 1 /\ ~(w.f7 = 1 /\ w.rs2 \in 1 .. 3)
    BY <1>3 DEF RegisterResult, LeftOrHigh, RegisterOps
<1>4. CASE w.f3 = 1 /\ w.f7 = 1 /\ <<m, w.rs2>> \in {<<"mulh", 1>>, <<"mulhsu", 2>>, <<"mulhu", 3>>}
    BY <1>4, SMTT(30) DEF RegisterResult, LeftOrHigh, RegisterOps
<1>5. CASE <<m, w.f3, w.f7>> \in {<<"add", 0, 0>>, <<"sub", 0, 32>>, <<"xor", 4, 0>>,
            <<"srl", 5, 0>>, <<"sra", 5, 32>>, <<"or", 6, 0>>, <<"and", 7, 0>>}
    BY <1>5, SMTT(30) DEF RegisterResult, RegisterOps
<1>6. CASE <<m, w.f3, w.f7>> \in {<<"mul", 0, 1>>, <<"div", 4, 1>>, <<"divu", 5, 1>>,
            <<"rem", 6, 1>>, <<"remu", 7, 1>>, <<"rem", 5, 33>>, <<"remu", 5, 37>>}
    BY <1>6 DEF RegisterResult, RegisterOps
<1> QED
    BY <1>1, <1>2, <1>3, <1>4, <1>5, <1>6

(* What step leaves in rd for a word that it takes for operation m is what the  *)
(* instruction set says of m.                                               *)
LEMMA ResultAgrees ==
    ASSUME NEW w, NEW m, NEW old, Operates(w, m),
           NEW a \in 0 .. Modulus - 1, NEW b \in 0 .. Modulus - 1
    PROVE  /\ RegisterResult(w, a, b, old) = InstructionSet!Result(m, a, b)
           /\ RegisterResult(w, a, b, old) \in 0 .. Modulus - 1
           /\ m \in RegisterOps
<1> DEFINE r == RegisterResult(w, a, b, old)
           s == InstructionSet!Result(m, a, b)
<1>1. /\ m = "add" => r = Wrap(a + b)
      /\ m = "sub" => r = Wrap(a - b)
      /\ m = "sll" => r = Wrap(a * 2^Shift(b))
      /\ m = "slt" => r = IF Signed(a) < Signed(b) THEN 1 ELSE 0
      /\ m = "sltu" => r = IF a < b THEN 1 ELSE 0
      /\ m = "xor" => r = BitXor(a, b)
      /\ m = "srl" => r = a \div 2^Shift(b)
      /\ m = "sra" => r = Wrap(Signed(a) \div 2^Shift(b))
      /\ m = "or" => r = BitOr(a, b)
      /\ m = "and" => r = BitAnd(a, b)
      /\ m = "mul" => r = Low(a, b)
      /\ m = "mulh" => r = Wrap(High(Signed(a), Signed(b)))
      /\ m = "mulhsu" => r = Wrap(High(Signed(a), b))
      /\ m = "mulhu" => r = Wrap(High(a, b))
      /\ m = "div" => r = SignedDivision(a, b)
      /\ m = "divu" => r = IF b = 0 THEN AllOnes ELSE a \div b
      /\ m = "rem" => r = SignedRemainder(a, b)
      /\ m = "remu" => r = UnsignedRemainder(a, b)
      /\ m \in RegisterOps
    BY SimpleResults, SMT
<1>2. /\ m = "add" => s = InstructionSet!Wrap(a + b)
      /\ m = "sub" => s = InstructionSet!Wrap(a - b)
      /\ m = "sll" => s = InstructionSet!Wrap(a * 2^(b % XLen))
      /\ m = "slt" => s = IF InstructionSet!Signed(a) < InstructionSet!Signed(b) THEN 1 ELSE 0
      /\ m = "sltu" => s = IF a < b THEN 1 ELSE 0
      /\ m = "xor" => s = InstructionSet!BitXor(a, b)
      /\ m = "srl" => s = a \div 2^(b % XLen)
      /\ m = "sra" => s = InstructionSet!Wrap(InstructionSet!Signed(a) \div 2^(b % XLen))
      /\ m = "or" => s = InstructionSet!BitOr(a, b)
      /\ m = "and" => s = InstructionSet!BitAnd(a, b)
    BY DEF InstructionSet!Result
<1>3. /\ m = "mul" => s = InstructionSet!Low(a, b)
      /\ m = "mulh" => s = InstructionSet!Wrap(InstructionSet!High(InstructionSet!Signed(a), InstructionSet!Signed(b)))
      /\ m = "mulhsu" => s = InstructionSet!Wrap(InstructionSet!High(InstructionSet!Signed(a), b))
      /\ m = "mulhu" => s = InstructionSet!Wrap(InstructionSet!High(a, b))
      /\ m = "divu" => s = IF b = 0 THEN InstructionSet!Modulus - 1 ELSE a \div b
      /\ m = "remu" => s = IF b = 0 THEN a ELSE a % b
    BY DEF InstructionSet!Result
<1>4. /\ Modulus \in Nat \ {0, 1} /\ InstructionSet!Modulus = Modulus
      /\ a \in Nat /\ b \in Nat /\ a \in Int /\ b \in Int
    BY Widths, SMT DEF InstructionSet!Modulus, Modulus
<1>5. /\ InstructionSet!Signed(a) = Signed(a) /\ Signed(a) \in Int
      /\ InstructionSet!Signed(b) = Signed(b) /\ Signed(b) \in Int
    BY <1>4, SignedAgrees
<1>6. b % XLen = Shift(b) /\ 2^Shift(b) \in Nat \ {0}
    BY <1>4, ShiftAmount DEF Shift
<1> HIDE DEF r, s
<1>7. CASE m \in {"add", "sub"}
    <2>1. a + b \in Int /\ a - b \in Int
        BY <1>4
    <2> QED
        BY <1>1, <1>2, <1>7, <2>1, WrapFits DEF r, s
<1>8. CASE m \in {"sll", "sra"}
    <2>1. a * 2^Shift(b) \in Int /\ Signed(a) \div 2^Shift(b) \in Int
        BY <1>4, <1>5, <1>6
    <2> QED
        BY <1>1, <1>2, <1>5, <1>6, <1>8, <2>1, WrapFits DEF r, s
<1>9. CASE m \in {"slt", "sltu"}
    <2>1. 0 \in 0 .. Modulus - 1 /\ 1 \in 0 .. Modulus - 1
        BY <1>4
    <2> QED
        BY <1>1, <1>2, <1>5, <1>9, <2>1 DEF r, s
<1>10. CASE m \in {"xor", "or", "and"}
    <2>1. InstructionSet!BitAnd(a, b) = BitAnd(a, b)
        BY DEF InstructionSet!BitAnd, BitAnd
    <2>2. InstructionSet!BitOr(a, b) = BitOr(a, b) /\ InstructionSet!BitXor(a, b) = BitXor(a, b)
        BY <2>1 DEF InstructionSet!BitOr, InstructionSet!BitXor, BitOr, BitXor
    <2> QED
        BY <1>1, <1>2, <1>10, <2>1, <2>2, BitsFit DEF r, s
<1>11. CASE m = "srl"
    <2> DEFINE p == 2^Shift(b)
    <2>1. p \in Nat \ {0}
        BY <1>6
    <2> HIDE DEF p
    <2>2. a \div p \in 0 .. a
        BY <1>4, <2>1, QuotientFits
    <2>3. a \div p \in 0 .. Modulus - 1
        <3> DEFINE q == a \div p
        <3>1. q \in 0 .. a
            BY <2>2
        <3> HIDE DEF q
        <3>2. q \in 0 .. Modulus - 1
            BY <1>4, <3>1
        <3> QED
            BY <3>2 DEF q
    <2> QED
        BY <1>1, <1>2, <1>6, <1>11, <2>3 DEF p, r, s
<1>12. CASE m = "mul"
    <2>1. Low(a, b) = InstructionSet!Low(a, b) /\ Low(a, b) \in Nat
        BY <1>4, ArithmeticAgrees
    <2>2. Low(a, b) \in 0 .. Modulus - 1
        <3> DEFINE t == (((a \div Half) * b) % Half) * Half + (a % Half) * b
        <3>1. t \in Int
            <4> DEFINE h == a \div Half
            <4>1. Half \in Nat \ {0} /\ h \in Int /\ a % Half \in Int
                BY <1>4, Widths
            <4> HIDE DEF h
            <4>2. h * b \in Int /\ (a % Half) * b \in Int
                BY <1>4, <4>1
            <4>3. (h * b) % Half \in Int
                BY <4>1, <4>2
            <4>4. ((h * b) % Half) * Half \in Int
                BY <4>1, <4>3
            <4> QED
                BY <4>2, <4>4 DEF h
        <3> HIDE DEF t
        <3>2. t % Modulus \in 0 .. Modulus - 1
            BY <1>4, <3>1
        <3> QED
            BY <3>2 DEF t, Low
    <2> QED
        BY <1>1, <1>3, <1>12, <2>1, <2>2 DEF r, s
<1>13. CASE m \in {"mulh", "mulhsu", "mulhu"}
    <2>1. \A x, y \in Int : High(x, y) \in Int /\ InstructionSet!High(x, y) = High(x, y)
        BY ArithmeticAgrees
    <2>2. \A x, y \in Int : /\ Wrap(High(x, y)) \in 0 .. Modulus - 1
                            /\ InstructionSet!Wrap(InstructionSet!High(x, y)) = Wrap(High(x, y))
        BY <2>1, WrapFits
    <2> QED
        BY <1>1, <1>3, <1>4, <1>5, <1>13, <2>2 DEF r, s
<1>14. CASE m \in {"div", "rem"}
    <2>1. r = s
        BY <1>1, <1>14, SignedDivisionAgrees DEF s
    <2>2. Modulus - 1 \in 0 .. Modulus - 1
        BY <1>4
    <2>3. \A x \in Int : Wrap(x) \in 0 .. Modulus - 1
        BY WrapFits
    <2>4. CASE b # 0 /\ Signed(b) = 0
        BY <2>4, Widths, SMT DEF Signed, Modulus
    <2>5. CASE b = 0 \/ Signed(b) # 0
        <3>1. b # 0 => Divide(Signed(a), Signed(b)) \in Int /\ Modulo(Signed(a), Signed(b)) \in Int
            BY <1>5, <2>5, DivisionAgrees
        <3>2. SignedDivision(a, b) \in 0 .. Modulus - 1
            <4>1. a \in 0 .. Modulus - 1
                OBVIOUS
            <4> QED
                BY <2>2, <2>3, <3>1, <4>1, OnesAndModulus, Zenon DEF SignedDivision
        <3>3. SignedRemainder(a, b) \in 0 .. Modulus - 1
            BY <2>3, <3>1, Zenon DEF SignedRemainder
        <3>4. r = SignedDivision(a, b) \/ r = SignedRemainder(a, b)
            BY <1>1, <1>14
        <3>5. m \in RegisterOps
            BY <1>1
        <3> QED
            BY <2>1, <3>2, <3>3, <3>4, <3>5, Zenon DEF r, s
    <2> QED
        BY <1>1, <2>1, <2>4, <2>5 DEF r, s
<1>15. CASE m \in {"divu", "remu"}
    <2> DEFINE q == a \div b
               t == a % b
    <2>1. b # 0 => q \in 0 .. a /\ t \in 0 .. b - 1
        BY <1>4, QuotientFits
    <2> HIDE DEF q, t
    <2>2. b # 0 => q \in 0 .. Modulus - 1 /\ t \in 0 .. Modulus - 1
        BY <1>4, <2>1
    <2>3. Modulus - 1 \in 0 .. Modulus - 1
        BY <1>4
    <2>4. b # 0 => a \div b \in 0 .. Modulus - 1 /\ a % b \in 0 .. Modulus - 1
        BY <2>2 DEF q, t
    <2> QED
        BY <1>1, <1>3, <1>4, <1>15, <2>3, <2>4, OnesAndModulus DEF UnsignedRemainder, r, s
<1>16. m \in {"add", "sub"} \/ m \in {"sll", "sra"} \/ m \in {"slt", "sltu"}
       \/ m \in {"xor", "or", "and"} \/ m = "srl" \/ m = "mul"
       \/ m \in {"mulh", "mulhsu", "mulhu"} \/ m \in {"div", "rem"} \/ m \in {"divu", "remu"}
    BY <1>1 DEF RegisterOps
<1> QED
    BY <1>1, <1>7, <1>8, <1>9, <1>10, <1>11, <1>12, <1>13, <1>14, <1>15, <1>16 DEF r, s

----------------------------------------------------------------------------
(* The effects of step and of the instruction set. *)

(* The registers and the pc hold numbers of their width after any word, also   *)
(* after one that is no instruction, and x0 holds 0.                        *)
RegistersFit ==
    /\ regs \in [Registers -> 0 .. Modulus - 1]
    /\ regs[0] = 0
    /\ pc \in 0 .. Modulus - 1

(* To clear x0 at the end is not to write to it. *)
LEMMA ClearsZero ==
    ASSUME RegistersFit, NEW rd \in Registers, NEW v \in 0 .. Modulus - 1
    PROVE  /\ [[regs EXCEPT ![rd] = v] EXCEPT ![0] = 0] = InstructionSet!Written(rd, v)
           /\ InstructionSet!Written(rd, v) \in [Registers -> 0 .. Modulus - 1]
           /\ InstructionSet!Written(rd, v)[0] = 0
<1>1. 0 \in Registers /\ regs \in [Registers -> 0 .. Modulus - 1] /\ regs[0] = 0
    BY WidthAssumption DEF RegistersFit
<1>2. CASE rd = 0
    BY <1>1, <1>2 DEF InstructionSet!Written
<1>3. CASE rd # 0
    BY <1>1, <1>3 DEF InstructionSet!Written
<1> QED
    BY <1>2, <1>3

LEMMA LeaveDoes ==
    ASSUME RegistersFit, NEW rd \in Registers, NEW v \in 0 .. Modulus - 1,
           NEW next \in Int, Leave(rd, v, next)
    PROVE  InstructionSet!Does(rd, v, next) /\ RegistersFit'
<1>1. pc' = InstructionSet!Wrap(next) /\ pc' \in 0 .. Modulus - 1
    BY WrapFits DEF Leave
<1>2. /\ regs' = InstructionSet!Written(rd, v)
      /\ regs' \in [Registers -> 0 .. Modulus - 1] /\ regs'[0] = 0
    BY ClearsZero DEF Leave
<1> QED
    BY <1>1, <1>2 DEF Leave, RegistersFit, InstructionSet!Does, Modulus

(* A load or an atomic leaves one of the values it may find. *)
LEMMA AccessFinds ==
    ASSUME RegistersFit, NEW rd \in Registers, NEW addr \in Int, NEW data, NEW op,
           NEW found \in SUBSET (0 .. Modulus - 1), MakesAccess(op, addr, data, rd, found)
    PROVE  /\ InstructionSet!Accesses(op, addr, data, {InstructionSet!Written(rd, v) : v \in found})
           /\ RegistersFit'
<1>1. PICK v \in found : regs' = [[regs EXCEPT ![rd] = v] EXCEPT ![0] = 0]
    BY DEF MakesAccess
<1>2. v \in 0 .. Modulus - 1
    BY <1>1
<1>3. /\ regs' = InstructionSet!Written(rd, v)
      /\ regs' \in [Registers -> 0 .. Modulus - 1] /\ regs'[0] = 0
    BY <1>1, <1>2, ClearsZero
<1>4. pc + 4 \in Int
    BY Widths DEF RegistersFit
<1>5. /\ pc' = InstructionSet!Wrap(pc + 4) /\ pc' \in 0 .. Modulus - 1
      /\ access' = [op |-> op, addr |-> InstructionSet!Wrap(addr), data |-> data]
    BY <1>4, WrapFits DEF MakesAccess
<1> QED
    BY <1>3, <1>5 DEF RegistersFit, InstructionSet!Accesses, Modulus

(* A store changes no register. *)
LEMMA AccessFindsNothing ==
    ASSUME RegistersFit, NEW addr \in Int, NEW data, NEW op,
           MakesAccess(op, addr, data, 0, {0})
    PROVE  InstructionSet!Accesses(op, addr, data, {regs}) /\ RegistersFit'
<1>1. 0 \in Registers /\ 0 \in 0 .. Modulus - 1 /\ pc + 4 \in Int
    BY Widths, WidthAssumption, SMT DEF RegistersFit
<1>2. regs' = regs
    <2>1. regs' = [[regs EXCEPT ![0] = 0] EXCEPT ![0] = 0]
        BY DEF MakesAccess
    <2> QED
        BY <1>1, <2>1 DEF RegistersFit
<1>3. /\ pc' = InstructionSet!Wrap(pc + 4) /\ pc' \in 0 .. Modulus - 1
      /\ access' = [op |-> op, addr |-> InstructionSet!Wrap(addr), data |-> data]
    BY <1>1, WrapFits DEF MakesAccess
<1> QED
    BY <1>2, <1>3 DEF RegistersFit, InstructionSet!Accesses, Modulus

----------------------------------------------------------------------------
(* The instruction s that step carries out for word w, by format. *)

ReadsRegister(w, s) ==
    /\ w.op = \h33 /\ Operates(w, s.m)
    /\ s.rd = w.rd /\ s.rs1 = w.rs1 /\ s.rs2 = w.rs2

Shifts == {"slli", "srli", "srai"}

ReadsImmediate(w, s) ==
    /\ w.op = \h13 /\ s.m \in DOMAIN ImmediateOp /\ w.f3 = Funct3[s.m]
    /\ s.m = "srli" => w.f7 = 0
    /\ s.m = "srai" => w.f7 = 32
    /\ s.rd = w.rd /\ s.rs1 = w.rs1 /\ s.imm \in Int
    /\ IF s.m \in Shifts THEN s.imm % XLen = ImmI(w) % XLen ELSE s.imm = ImmI(w)

ReadsUpper(w, s) ==
    /\ <<w.op, s.m>> \in {<<\h37, "lui">>, <<\h17, "auipc">>}
    /\ s.rd = w.rd /\ s.imm = ImmU(w)

ReadsBranch(w, s) ==
    /\ w.op = \h63 /\ s.m \in Branches /\ s.m = BranchName[w.f3 + 1]
    /\ s.rs1 = w.rs1 /\ s.rs2 = w.rs2 /\ s.imm = ImmB(w)

ReadsJump(w, s) ==
    /\ s.rd = w.rd
    /\ \/ w.op = \h6F /\ s.m = "jal" /\ s.imm = ImmJ(w)
       \/ w.op = \h67 /\ w.f3 = 0 /\ s.m = "jalr" /\ s.rs1 = w.rs1 /\ s.imm = ImmI(w)

ReadsAccess(w, s) ==
    /\ s.rs1 = w.rs1
    /\ \/ /\ w.op = \h03 /\ s.m \in Loads /\ s.m = LoadOp[w.f3 + 1]
          /\ s.rd = w.rd /\ s.imm = ImmI(w)
       \/ /\ w.op = \h23 /\ w.f3 < 3 /\ s.m = StoreOp[w.f3 + 1]
          /\ s.rs2 = w.rs2 /\ s.imm = ImmS(w)
       \/ /\ w.op = \h2F /\ w.f3 = 2 /\ s.m = AtomicOp(w)
          /\ s.rd = w.rd /\ (s.m # "lr.w" => s.rs2 = w.rs2)

Reads(w, s) ==
    \/ ReadsRegister(w, s) \/ ReadsImmediate(w, s) \/ ReadsUpper(w, s)
    \/ ReadsBranch(w, s) \/ ReadsJump(w, s) \/ ReadsAccess(w, s)

(* What step does with word w but for dying of it. *)
Effect(w) ==
    \/ Immediate(w) \/ Register(w) \/ LoadUpper(w) \/ Branch(w)
    \/ Jump(w) \/ Load(w) \/ Store(w) \/ Atomic(w) \/ Unknown(w)

(* The widths of the immediates. *)
LEMMA SignExtends ==
    ASSUME NEW v \in Int
    PROVE  /\ SignExtend(v, 12) = ((v + 2048) % 4096) - 2048
           /\ SignExtend(v, 13) = ((v + 4096) % 8192) - 4096
           /\ SignExtend(v, 21) = ((v + 1048576) % 2097152) - 1048576
BY SMT DEF SignExtend

(* The immediates are numbers of the widths of their fields. *)
LEMMA ImmediatesFit ==
    ASSUME NEW w, WellFormedWord(w)
    PROVE  /\ ImmI(w) \in -2048 .. 2047 /\ ImmS(w) \in -2048 .. 2047
           /\ ImmB(w) \in Int /\ ImmJ(w) \in Int /\ ImmU(w) \in Int
           /\ UnsignedI(w) \in 0 .. 4095 /\ UnsignedS(w) \in 0 .. 4095
<1> DEFINE rd == w.rd
           f3 == w.f3
           rs1 == w.rs1
           rs2 == w.rs2
           f7 == w.f7
           i == UnsignedI(w)
           s == UnsignedS(w)
           v == Above(w)
<1>1. /\ rd \in 0 .. 31 /\ f3 \in 0 .. 7 /\ rs1 \in 0 .. 31
      /\ rs2 \in 0 .. 31 /\ f7 \in 0 .. 127
    BY DEF WellFormedWord
<1>2. /\ i = f7 * 32 + rs2 /\ s = f7 * 32 + rd
      /\ v = f7 * 8192 + rs2 * 256 + rs1 * 8 + f3
      /\ ImmI(w) = SignExtend(i, 12) /\ ImmS(w) = SignExtend(s, 12)
      /\ ImmB(w) = SignExtend((rd \div 2) * 2 + (f7 % 64) * 32 + (rd % 2) * 2048
                                 + (f7 \div 64) * 4096, 13)
      /\ ImmU(w) = v * 4096
      /\ ImmJ(w) = SignExtend(UnsignedJ(w), 21)
      /\ UnsignedJ(w) = ((v \div 512) % 1024) * 2 + ((v \div 256) % 2) * 2048 + (v % 256) * 4096
                            + (v \div 2^19) * 2^20
    BY DEF UnsignedI, UnsignedS, Above, ImmI, ImmS, ImmB, ImmU, ImmJ, UnsignedJ
<1> HIDE DEF rd, f3, rs1, rs2, f7, i, s, v
<1>3. i \in 0 .. 4095 /\ s \in 0 .. 4095 /\ v \in Int
    BY <1>1, <1>2, SMT
<1>4. ImmI(w) \in -2048 .. 2047
    <2>1. i \in Int
        BY <1>3
    <2>2. SignExtend(i, 12) = ((i + 2048) % 4096) - 2048
        BY <2>1, SignExtends
    <2>3. ImmI(w) = ((i + 2048) % 4096) - 2048
        BY <1>2, <2>2
    <2> QED
        BY <2>1, <2>3
<1>5. ImmS(w) \in -2048 .. 2047
    <2>1. s \in Int
        BY <1>3
    <2>2. SignExtend(s, 12) = ((s + 2048) % 4096) - 2048
        BY <2>1, SignExtends
    <2>3. ImmS(w) = ((s + 2048) % 4096) - 2048
        BY <1>2, <2>2
    <2> QED
        BY <2>1, <2>3
<1>6. \A u \in Int : SignExtend(u, 13) \in Int /\ SignExtend(u, 21) \in Int
    BY SMT DEF SignExtend
<1>7. ImmB(w) \in Int
    <2>1. (rd \div 2) * 2 + (f7 % 64) * 32 + (rd % 2) * 2048 + (f7 \div 64) * 4096 \in Int
        BY <1>1, SMT
    <2> QED
        BY <1>2, <1>6, <2>1
<1>8. ImmU(w) \in Int /\ UnsignedJ(w) \in Int
    <2>1. 2^19 = 524288 /\ 2^20 = 1048576
        BY SMT
    <2>2. v * 4096 \in Int /\ (v \div 512) % 1024 \in Int /\ (v \div 256) % 2 \in Int /\ v % 256 \in Int
        BY <1>3
    <2>3. (v \div 2^19) * 2^20 \in Int
        BY <1>3, <2>1
    <2> QED
        BY <1>2, <2>2, <2>3
<1>9. ImmJ(w) \in Int
    BY <1>2, <1>6, <1>8
<1> QED
    BY <1>3, <1>4, <1>5, <1>7, <1>8, <1>9 DEF i, s

LEMMA RegisterExecutes ==
    ASSUME NEW w, NEW s, RegistersFit, WellFormedWord(w), ReadsRegister(w, s), Effect(w)
    PROVE  InstructionSet!Execute(s)
<1>1. Register(w)
    BY DEF ReadsRegister, Effect, Immediate, LoadUpper, Branch, Jump, Load, Store, Atomic,
           Unknown, KnownOps
<1>2. w.rd \in Registers /\ w.rs1 \in Registers /\ w.rs2 \in Registers
    BY DEF ReadsRegister, WellFormedWord
<1> DEFINE a == regs[w.rs1]
           b == regs[w.rs2]
           r == RegisterResult(w, a, b, regs[w.rd])
<1>3. a \in 0 .. Modulus - 1 /\ b \in 0 .. Modulus - 1 /\ pc + 4 \in Int
    BY <1>2, Widths DEF RegistersFit
<1> HIDE DEF a, b
<1>4. /\ r = InstructionSet!Result(s.m, a, b)
      /\ r \in 0 .. Modulus - 1
      /\ s.m \in RegisterOps
    BY <1>3, ResultAgrees DEF ReadsRegister
<1>5. Leave(w.rd, r, pc + 4)
    BY <1>1 DEF Register, a, b
<1> HIDE DEF r
<1>6. InstructionSet!Does(w.rd, r, pc + 4)
    BY <1>2, <1>3, <1>4, <1>5, LeaveDoes
<1>7. InstructionSet!Does(s.rd, InstructionSet!Result(s.m, regs[s.rs1], regs[s.rs2]), pc + 4)
    BY <1>4, <1>6, Zenon DEF ReadsRegister, a, b
<1> QED
    BY <1>4, <1>7, Zenon DEF InstructionSet!Execute, InstructionSet!RegisterOps, RegisterOps

(* Cutting an operand of a sum to its width first changes nothing. *)
LEMMA WrapTwice ==
    ASSUME NEW u \in Int, NEW v \in Int
    PROVE  Wrap(u + Wrap(v)) = Wrap(u + v)
<1>1. CASE XLen = 16
    <2>1. 2^16 = 65536
        BY SMT
    <2>2. \A x : Wrap(x) = x % 65536
        BY <1>1, <2>1 DEF Wrap
    <2>3. (u + (v % 65536)) % 65536 = (u + v) % 65536
        BY SMT
    <2> QED
        BY <2>2, <2>3, SMT
<1>2. CASE XLen = 32
    <2>1. 2^32 = 4294967296
        BY SMT
    <2>2. \A x : Wrap(x) = x % 4294967296
        BY <1>2, <2>1, SMT DEF Wrap
    <2>3. (u + (v % 4294967296)) % 4294967296 = (u + v) % 4294967296
        BY SMT
    <2> QED
        BY <2>2, <2>3, SMT
<1> QED
    BY <1>1, <1>2, WidthAssumption

(* Nor does cutting it change the amount of a shift. *)
LEMMA WrapKeeps ==
    ASSUME NEW v \in Int
    PROVE  Wrap(v) % XLen = v % XLen
<1>1. CASE XLen = 16
    <2>1. 2^16 = 65536 /\ (v % 65536) % 16 = v % 16
        BY SMT
    <2> QED
        BY <1>1, <2>1, SMT DEF Wrap
<1>2. CASE XLen = 32
    <2>1. 2^32 = 4294967296 /\ (v % 4294967296) % 32 = v % 32
        BY SMT
    <2> QED
        BY <1>2, <2>1, SMT DEF Wrap
<1> QED
    BY <1>1, <1>2, WidthAssumption

(* An immediate keeps its sign. *)
LEMMA WrapSigned ==
    ASSUME NEW v \in Int, v + 2048 >= 0, v <= 2047
    PROVE  Signed(Wrap(v)) = v
<1>1. CASE XLen = 16
    <2>1. 2^16 = 65536 /\ 2^(16 - 1) = 32768
        BY SMT
    <2>2. \A x : Wrap(x) = x % 65536
        BY <1>1, <2>1 DEF Wrap
    <2>3. \A x : Signed(x) = IF x >= 32768 THEN x - 65536 ELSE x
        BY <1>1, <2>1 DEF Signed
    <2>4. (IF v % 65536 >= 32768 THEN (v % 65536) - 65536 ELSE v % 65536) = v
        BY SMT
    <2> QED
        BY <2>2, <2>3, <2>4, SMT
<1>2. CASE XLen = 32
    <2>1. 2^32 = 4294967296 /\ 2^(32 - 1) = 2147483648
        BY SMT
    <2>2. \A x : Wrap(x) = x % 4294967296
        BY <1>2, <2>1, SMT DEF Wrap
    <2>3. \A x : Signed(x) = IF x >= 2147483648 THEN x - 4294967296 ELSE x
        BY <1>2, <2>1, SMT DEF Signed
    <2>4. (IF v % 4294967296 >= 2147483648 THEN (v % 4294967296) - 4294967296 ELSE v % 4294967296) = v
        BY SMT
    <2> QED
        BY <2>2, <2>3, <2>4, SMT
<1> QED
    BY <1>1, <1>2, WidthAssumption

(* An operation that has a word of its own leaves a number that fits. *)
LEMMA ResultFits ==
    ASSUME NEW m \in {"add", "sll", "slt", "sltu", "xor", "srl", "sra", "or", "and"},
           NEW a \in 0 .. Modulus - 1, NEW b \in 0 .. Modulus - 1
    PROVE  InstructionSet!Result(m, a, b) \in 0 .. Modulus - 1
<1> DEFINE u == Word(\h33, 0, OpCodes[m][1], 0, 0, OpCodes[m][2])
<1>1. u.f3 = OpCodes[m][1] /\ u.f7 = OpCodes[m][2]
    BY DEF Word
<1>2. m \in RegisterOps \ {"mulh", "mulhsu", "mulhu"}
    BY DEF RegisterOps
<1> HIDE DEF u
<1>3. Operates(u, m)
    BY <1>1, <1>2, Zenon DEF Operates
<1> QED
    BY <1>3, ResultAgrees

LEMMA ImmediateAgrees ==
    ASSUME NEW w, NEW s, WellFormedWord(w), ReadsImmediate(w, s),
           NEW a \in 0 .. Modulus - 1, NEW old
    PROVE  /\ ImmediateResult(w, a, old)
                = InstructionSet!Result(ImmediateOp[s.m], a, InstructionSet!Wrap(s.imm))
           /\ ImmediateResult(w, a, old) \in 0 .. Modulus - 1
<1> DEFINE i == ImmI(w)
           n == s.imm
           b == Wrap(n)
           op == ImmediateOp[s.m]
           r == ImmediateResult(w, a, old)
           x == InstructionSet!Result(op, a, b)
<1>1. i \in -2048 .. 2047 /\ i \in Int /\ n \in Int
    <2>1. i \in -2048 .. 2047
        BY ImmediatesFit
    <2>2. n \in Int
        BY DEF ReadsImmediate
    <2> HIDE DEF i, n
    <2> QED
        BY <2>1, <2>2
<1>2. s.m \in {"addi", "slti", "sltiu", "xori", "ori", "andi", "slli", "srli", "srai"}
    BY DEF ReadsImmediate, ImmediateOp
<1>3. InstructionSet!Wrap(n) = b /\ b \in 0 .. Modulus - 1
    BY <1>1, WrapFits
<1>4. op \in {"add", "sll", "slt", "sltu", "xor", "srl", "sra", "or", "and"}
    BY <1>2 DEF ImmediateOp
<1>5. x \in 0 .. Modulus - 1
    BY <1>3, <1>4, ResultFits
<1>6. a \in Int /\ b \in Int /\ a \in Nat /\ b \in Nat
    BY <1>3, Widths, SMT
<1>7. r = x
    <2>1. CASE s.m = "addi"
        <3>1. n = i /\ r = Wrap(a + i) /\ op = "add"
            BY <2>1 DEF ReadsImmediate, Shifts, Funct3, ImmediateResult, ImmediateOp
        <3>2. x = InstructionSet!Wrap(a + b)
            BY <3>1 DEF InstructionSet!Result
        <3>3. a + b \in Int /\ n \in Int
            BY <1>1, <1>6
        <3>4. x = Wrap(a + b)
            BY <3>2, <3>3, WrapFits
        <3>5. Wrap(a + Wrap(n)) = Wrap(a + n)
            BY <1>6, <3>3, WrapTwice, Zenon
        <3> QED
            BY <3>1, <3>4, <3>5, Zenon
    <2>2. CASE s.m = "slti"
        <3>1. n = i /\ r = (IF Signed(a) < i THEN 1 ELSE 0) /\ op = "slt"
            BY <2>2 DEF ReadsImmediate, Shifts, Funct3, ImmediateResult, ImmediateOp, Bit
        <3>2. x = IF InstructionSet!Signed(a) < InstructionSet!Signed(b) THEN 1 ELSE 0
            BY <3>1 DEF InstructionSet!Result
        <3>3. InstructionSet!Signed(a) = Signed(a) /\ InstructionSet!Signed(b) = i
            <4> HIDE DEF i, n
            <4>1. n \in Int /\ n + 2048 >= 0 /\ n <= 2047
                BY <1>1, <3>1
            <4>2. Signed(Wrap(n)) = n
                BY <4>1, WrapSigned, SMT
            <4>3. Signed(b) = i
                BY <3>1, <4>2
            <4> HIDE DEF b
            <4>4. InstructionSet!Signed(a) = Signed(a) /\ InstructionSet!Signed(b) = Signed(b)
                BY <1>6, SignedAgrees
            <4> QED
                BY <4>3, <4>4
        <3> QED
            BY <3>1, <3>2, <3>3
    <2>3. CASE s.m = "sltiu"
        BY <2>3 DEF ReadsImmediate, Shifts, Funct3, ImmediateResult, ImmediateOp, Bit, InstructionSet!Result
    <2>4. CASE s.m \in {"xori", "ori", "andi"}
        <3>1. /\ InstructionSet!BitAnd(a, b) = BitAnd(a, b)
              /\ InstructionSet!BitOr(a, b) = BitOr(a, b)
              /\ InstructionSet!BitXor(a, b) = BitXor(a, b)
            BY DEF InstructionSet!BitOr, InstructionSet!BitXor, BitOr, BitXor,
                   InstructionSet!BitAnd, BitAnd
        <3>2. CASE s.m = "xori"
            <4>1. n = i /\ r = BitXor(a, b) /\ op = "xor"
                BY <3>2 DEF ReadsImmediate, Shifts, Funct3, ImmediateResult, ImmediateOp
            <4> QED
                BY <3>1, <4>1 DEF InstructionSet!Result
        <3>3. CASE s.m = "ori"
            <4>1. n = i /\ r = BitOr(a, b) /\ op = "or"
                BY <3>3 DEF ReadsImmediate, Shifts, Funct3, ImmediateResult, ImmediateOp
            <4> QED
                BY <3>1, <4>1 DEF InstructionSet!Result
        <3>4. CASE s.m = "andi"
            <4>1. n = i /\ r = BitAnd(a, b) /\ op = "and"
                BY <3>4 DEF ReadsImmediate, Shifts, Funct3, ImmediateResult, ImmediateOp
            <4> QED
                BY <3>1, <4>1 DEF InstructionSet!Result
        <3> QED
            BY <2>4, <3>2, <3>3, <3>4
    <2>5. CASE s.m \in Shifts
        <3>1. b % XLen = Shift(i)
            <4>1. Wrap(n) % XLen = n % XLen
                BY <1>1, WrapKeeps
            <4>2. n % XLen = i % XLen
                BY <2>5 DEF ReadsImmediate
            <4> QED
                BY <4>1, <4>2, Zenon DEF Shift
        <3>2. 2^Shift(i) \in Nat \ {0}
            BY <1>1, ShiftAmount DEF Shift
        <3> DEFINE p == 2^Shift(i)
        <3>3. CASE s.m = "slli"
            <4>1. r = Wrap(a * p) /\ op = "sll"
                BY <3>3 DEF ReadsImmediate, Funct3, ImmediateResult, ImmediateOp
            <4>2. x = InstructionSet!Wrap(a * p)
                BY <3>1, <4>1 DEF InstructionSet!Result
            <4> HIDE DEF p
            <4>3. a * p \in Int
                BY <1>6, <3>2 DEF p
            <4> QED
                BY <4>1, <4>2, <4>3, WrapFits
        <3>4. CASE s.m = "srli"
            <4>1. r = a \div p /\ op = "srl"
                BY <3>4 DEF ReadsImmediate, Funct3, ImmediateResult, ImmediateOp
            <4>2. x = a \div p
                BY <3>1, <4>1 DEF InstructionSet!Result
            <4> QED
                BY <4>1, <4>2
        <3>5. CASE s.m = "srai"
            <4>1. r = Wrap(Signed(a) \div p) /\ op = "sra"
                BY <3>5 DEF ReadsImmediate, Funct3, ImmediateResult, ImmediateOp
            <4>2. x = InstructionSet!Wrap(InstructionSet!Signed(a) \div p)
                BY <3>1, <4>1 DEF InstructionSet!Result
            <4> HIDE DEF p
            <4>3. InstructionSet!Signed(a) = Signed(a) /\ Signed(a) \div p \in Int
                BY <1>6, <3>2, SignedAgrees DEF p
            <4> QED
                BY <4>1, <4>2, <4>3, WrapFits
        <3> QED
            BY <2>5, <3>3, <3>4, <3>5 DEF Shifts
    <2> QED
        BY <1>2, <2>1, <2>2, <2>3, <2>4, <2>5 DEF Shifts
<1> QED
    BY <1>3, <1>5, <1>7

LEMMA ImmediateExecutes ==
    ASSUME NEW w, NEW s, RegistersFit, WellFormedWord(w), ReadsImmediate(w, s), Effect(w)
    PROVE  InstructionSet!Execute(s)
<1>1. Immediate(w)
    BY DEF ReadsImmediate, Effect, Register, LoadUpper, Branch, Jump, Load, Store, Atomic,
           Unknown, KnownOps
<1>2. w.rd \in Registers /\ w.rs1 \in Registers
    BY DEF ReadsImmediate, WellFormedWord
<1> DEFINE a == regs[w.rs1]
           r == ImmediateResult(w, a, regs[w.rd])
<1>3. a \in 0 .. Modulus - 1 /\ pc + 4 \in Int
    BY <1>2, Widths DEF RegistersFit
<1> HIDE DEF a
<1>4. /\ r = InstructionSet!Result(ImmediateOp[s.m], a, InstructionSet!Wrap(s.imm))
      /\ r \in 0 .. Modulus - 1
    BY <1>3, ImmediateAgrees
<1>5. Leave(w.rd, r, pc + 4)
    BY <1>1 DEF Immediate, a
<1> HIDE DEF r
<1>6. InstructionSet!Does(w.rd, r, pc + 4)
    BY <1>2, <1>3, <1>4, <1>5, LeaveDoes
<1>7. /\ s.m \in DOMAIN ImmediateOp
      /\ InstructionSet!Does(s.rd, InstructionSet!Result(ImmediateOp[s.m], regs[s.rs1], InstructionSet!Wrap(s.imm)), pc + 4)
    BY <1>4, <1>6, Zenon DEF ReadsImmediate, a
<1> QED
    BY <1>7, Zenon DEF InstructionSet!Execute, InstructionSet!ImmediateOp, ImmediateOp

LEMMA UpperExecutes ==
    ASSUME NEW w, NEW s, RegistersFit, WellFormedWord(w), ReadsUpper(w, s), Effect(w)
    PROVE  InstructionSet!Execute(s)
<1>1. LoadUpper(w)
    BY DEF ReadsUpper, Effect, Immediate, Register, Branch, Jump, Load, Store, Atomic,
           Unknown, KnownOps
<1>2. w.rd \in Registers
    BY DEF ReadsUpper, WellFormedWord
<1> DEFINE n == ImmU(w)
<1>3. n \in Int /\ pc \in Int /\ pc + n \in Int /\ pc + 4 \in Int
    BY Widths, ImmediatesFit DEF RegistersFit
<1>4. s.imm = n /\ s.rd = w.rd
    BY DEF ReadsUpper
<1>5. /\ Wrap(n) \in 0 .. Modulus - 1 /\ InstructionSet!Wrap(n) = Wrap(n)
      /\ Wrap(pc + n) \in 0 .. Modulus - 1 /\ InstructionSet!Wrap(pc + n) = Wrap(pc + n)
    BY <1>3, WrapFits
<1>6. CASE s.m = "lui"
    <2>1. Leave(w.rd, Wrap(n), pc + 4)
        BY <1>1, <1>6 DEF LoadUpper, ReadsUpper
    <2>2. InstructionSet!Does(w.rd, Wrap(n), pc + 4)
        BY <1>2, <1>3, <1>5, <2>1, LeaveDoes
    <2> HIDE DEF n
    <2> QED
        BY <1>4, <1>5, <1>6, <2>2, Zenon DEF InstructionSet!Execute
<1>7. CASE s.m = "auipc"
    <2>1. Leave(w.rd, Wrap(pc + n), pc + 4)
        BY <1>1, <1>7 DEF LoadUpper, ReadsUpper
    <2>2. InstructionSet!Does(w.rd, Wrap(pc + n), pc + 4)
        BY <1>2, <1>3, <1>5, <2>1, LeaveDoes
    <2> HIDE DEF n
    <2> QED
        BY <1>4, <1>5, <1>7, <2>2, Zenon DEF InstructionSet!Execute
<1> QED
    BY <1>6, <1>7 DEF ReadsUpper

(* A branch is taken by step when the instruction set says so. *)
LEMMA ConditionAgrees ==
    ASSUME NEW w, NEW m \in Branches, w.f3 \in 0 .. 7, m = BranchName[w.f3 + 1],
           NEW a \in Nat, NEW b \in Nat
    PROVE  Condition(w, a, b) <=> InstructionSet!Taken(m, a, b)
<1>1. /\ InstructionSet!Signed(a) = Signed(a)
      /\ InstructionSet!Signed(b) = Signed(b)
    BY SignedAgrees
<1>2. <<w.f3, m>> \in {<<0, "beq">>, <<1, "bne">>, <<4, "blt">>, <<5, "bge">>, <<6, "bltu">>, <<7, "bgeu">>}
    <2>1. \/ w.f3 = 0 \/ w.f3 = 1 \/ w.f3 = 2 \/ w.f3 = 3
          \/ w.f3 = 4 \/ w.f3 = 5 \/ w.f3 = 6 \/ w.f3 = 7
        OBVIOUS
    <2> QED
        BY <2>1 DEF BranchName, Branches
<1>3. CASE w.f3 = 0 /\ m = "beq"
    BY <1>1, <1>3 DEF Condition, InstructionSet!Taken
<1>4. CASE w.f3 = 1 /\ m = "bne"
    BY <1>1, <1>4 DEF Condition, InstructionSet!Taken
<1>5. CASE w.f3 = 4 /\ m = "blt"
    BY <1>1, <1>5 DEF Condition, InstructionSet!Taken
<1>6. CASE w.f3 = 5 /\ m = "bge"
    BY <1>1, <1>6 DEF Condition, InstructionSet!Taken
<1>7. CASE w.f3 = 6 /\ m = "bltu"
    BY <1>1, <1>7 DEF Condition, InstructionSet!Taken
<1>8. CASE w.f3 = 7 /\ m = "bgeu"
    BY <1>1, <1>8 DEF Condition, InstructionSet!Taken
<1> QED
    BY <1>2, <1>3, <1>4, <1>5, <1>6, <1>7, <1>8

LEMMA BranchExecutes ==
    ASSUME NEW w, NEW s, RegistersFit, WellFormedWord(w), ReadsBranch(w, s), Effect(w)
    PROVE  InstructionSet!Execute(s)
<1>1. Branch(w)
    BY DEF ReadsBranch, Effect, Immediate, Register, LoadUpper, Jump, Load, Store, Atomic,
           Unknown, KnownOps
<1>2. /\ w.rs1 \in Registers /\ w.rs2 \in Registers /\ w.f3 \in 0 .. 7
      /\ s.rs1 = w.rs1 /\ s.rs2 = w.rs2 /\ s.m \in Branches
    BY DEF ReadsBranch, WellFormedWord
<1> DEFINE a == regs[w.rs1]
           b == regs[w.rs2]
           n == ImmB(w)
           next == pc + IF Condition(w, a, b) THEN n ELSE 4
<1>3. a \in Nat /\ b \in Nat /\ pc \in Int
    BY <1>2, Widths DEF RegistersFit
<1>4. s.imm = n /\ n \in Int
    BY ImmediatesFit DEF ReadsBranch
<1>5. Leave(0, 0, next)
    BY <1>1 DEF Branch
<1> HIDE DEF a, b, n
<1>6. Condition(w, a, b) <=> InstructionSet!Taken(s.m, a, b)
    BY <1>2, <1>3, ConditionAgrees DEF ReadsBranch
<1>7. next \in Int
    BY <1>3, <1>4
<1>8. next = pc + IF InstructionSet!Taken(s.m, a, b) THEN s.imm ELSE 4
    BY <1>4, <1>6
<1> HIDE DEF next
<1>9. 0 \in Registers /\ 0 \in 0 .. Modulus - 1
    BY WidthAssumption, Widths
<1>10. InstructionSet!Does(0, 0, next)
    BY <1>5, <1>7, <1>9, LeaveDoes
<1>11. InstructionSet!Does(0, 0, pc + IF InstructionSet!Taken(s.m, regs[s.rs1], regs[s.rs2]) THEN s.imm ELSE 4)
    BY <1>2, <1>8, <1>10, Zenon DEF a, b
<1> QED
    BY <1>2, <1>11, Zenon DEF InstructionSet!Execute, InstructionSet!Branches, Branches

(* The pc of a jump to a register is even. *)
LEMMA JumpExecutes ==
    ASSUME NEW w, NEW s, RegistersFit, WellFormedWord(w), ReadsJump(w, s), Effect(w)
    PROVE  InstructionSet!Execute(s)
<1>1. Jump(w)
    BY DEF ReadsJump, Effect, Immediate, Register, LoadUpper, Branch, Load, Store, Atomic,
           Unknown, KnownOps
<1>2. w.rd \in Registers /\ s.rd = w.rd
    BY DEF ReadsJump, WellFormedWord
<1>3. pc \in Int /\ pc + 4 \in Int
    BY Widths DEF RegistersFit
<1> DEFINE v == Wrap(pc + 4)
<1>4. v = InstructionSet!Wrap(pc + 4) /\ v \in 0 .. Modulus - 1
    BY <1>3, WrapFits
<1>5. CASE s.m = "jal"
    <2> DEFINE n == ImmJ(w)
    <2>1. s.imm = n /\ n \in Int
        BY <1>5, ImmediatesFit DEF ReadsJump
    <2>2. Leave(w.rd, v, pc + n)
        BY <1>1, <1>5 DEF Jump, ReadsJump
    <2> HIDE DEF n, v
    <2>3. pc + n \in Int
        BY <1>3, <2>1
    <2>4. InstructionSet!Does(w.rd, v, pc + n)
        BY <1>2, <1>4, <2>2, <2>3, LeaveDoes
    <2>5. InstructionSet!Does(s.rd, InstructionSet!Wrap(pc + 4), pc + s.imm)
        BY <1>2, <1>4, <2>1, <2>4, Zenon
    <2> QED
        BY <1>5, <2>5, Zenon DEF InstructionSet!Execute
<1>6. CASE s.m = "jalr"
    <2> DEFINE n == ImmI(w)
               a == regs[w.rs1]
               t == Wrap(a + n)
    <2>1. s.imm = n /\ n \in Int /\ s.rs1 = w.rs1 /\ w.rs1 \in Registers /\ w.op = \h67 /\ w.f3 = 0
        <3>1. n \in -2048 .. 2047
            BY ImmediatesFit
        <3> HIDE DEF n
        <3>2. n \in Int
            BY <3>1
        <3>3. s.imm = n /\ s.rs1 = w.rs1 /\ w.op = \h67 /\ w.f3 = 0
            BY <1>6 DEF ReadsJump, n
        <3> QED
            BY <3>2, <3>3 DEF WellFormedWord
    <2>2. Leave(w.rd, v, t - (t % 2))
        BY <1>1, <2>1 DEF Jump
    <2>3. a \in 0 .. Modulus - 1
        BY <2>1 DEF RegistersFit
    <2> HIDE DEF n, a, v
    <2>4. a + n \in Int
        BY <2>1, <2>3, Widths
    <2>5. t = InstructionSet!Wrap(a + n) /\ t \in 0 .. Modulus - 1
        BY <2>4, WrapFits
    <2> HIDE DEF t
    <2>6. t - (t % 2) = 2 * (t \div 2) /\ 2 * (t \div 2) \in Int
        <3>1. t \in Int
            BY <2>5, Widths
        <3> QED
            BY <3>1
    <2>7. InstructionSet!Does(w.rd, v, 2 * (t \div 2))
        BY <1>2, <1>4, <2>2, <2>6, LeaveDoes
    <2>8. t = InstructionSet!Wrap(regs[s.rs1] + s.imm)
        BY <2>1, <2>5, Zenon DEF a
    <2>9. InstructionSet!Does(s.rd, InstructionSet!Wrap(pc + 4), 2 * (InstructionSet!Wrap(regs[s.rs1] + s.imm) \div 2))
        BY <1>2, <1>4, <2>7, <2>8, Zenon
    <2> QED
        BY <1>6, <2>9, Zenon DEF InstructionSet!Execute
<1> QED
    BY <1>5, <1>6 DEF ReadsJump

LEMMA AccessExecutes ==
    ASSUME NEW w, NEW s, RegistersFit, WellFormedWord(w), ReadsAccess(w, s), Effect(w)
    PROVE  InstructionSet!Execute(s)
<1>1. w.rs1 \in Registers /\ s.rs1 = w.rs1
    BY DEF ReadsAccess, WellFormedWord
<1> DEFINE a == regs[w.rs1]
           b == regs[w.rs2]
<1>2. a \in Int
    BY <1>1, Widths DEF RegistersFit
<1>3. w.f3 \in 0 .. 7
    BY DEF WellFormedWord
<1> HIDE DEF a, b
<1>4. CASE w.op = \h03
    <2> DEFINE n == ImmI(w)
    <2>1. n \in Int
        <3>1. n \in -2048 .. 2047
            BY ImmediatesFit
        <3> HIDE DEF n
        <3> QED
            BY <3>1
    <2>2. /\ s.m \in Loads /\ s.m = LoadOp[w.f3 + 1] /\ s.rd = w.rd /\ s.imm = n
          /\ w.rd \in Registers
        BY <1>4 DEF ReadsAccess, WellFormedWord
    <2>3. s.m # "unknown"
        BY <2>2 DEF Loads
    <2>4. Load(w)
        BY <1>4 DEF Effect, Immediate, Register, LoadUpper, Branch, Jump, Store, Atomic,
               Unknown, KnownOps
    <2>5. MakesAccess(s.m, a + n, 0, w.rd, Inputs)
        BY <2>2, <2>3, <2>4, Zenon DEF Load, a
    <2> HIDE DEF n
    <2>6. a + n \in Int
        BY <1>2, <2>1
    <2>7. InstructionSet!Accesses(s.m, a + n, 0, {InstructionSet!Written(w.rd, v) : v \in Inputs})
        BY <2>2, <2>5, <2>6, WidthAssumption, AccessFinds
    <2>8. InstructionSet!Accesses(s.m, regs[s.rs1] + s.imm, 0, {InstructionSet!Written(s.rd, v) : v \in Inputs})
        BY <1>1, <2>2, <2>7 DEF a
    <2> QED
        BY <2>2, <2>8, Zenon DEF InstructionSet!Execute, InstructionSet!Loads, Loads
<1>5. CASE w.op = \h23
    <2> DEFINE n == ImmS(w)
    <2>1. n \in Int
        <3>1. n \in -2048 .. 2047
            BY ImmediatesFit
        <3> HIDE DEF n
        <3> QED
            BY <3>1
    <2>2. w.f3 < 3 /\ s.m = StoreOp[w.f3 + 1] /\ s.rs2 = w.rs2 /\ s.imm = n
        BY <1>5 DEF ReadsAccess
    <2>3. s.m \in Stores
        <3>1. w.f3 = 0 \/ w.f3 = 1 \/ w.f3 = 2
            BY <1>3, <2>2
        <3> QED
            BY <2>2, <3>1 DEF StoreOp, Stores
    <2>4. Store(w)
        BY <1>5 DEF Effect, Immediate, Register, LoadUpper, Branch, Jump, Load, Atomic,
               Unknown, KnownOps
    <2>6. MakesAccess(s.m, a + n, b, 0, {0})
        BY <2>2, <2>4, Zenon DEF Store, a, b
    <2> HIDE DEF n
    <2>7. a + n \in Int
        BY <1>2, <2>1
    <2>8. InstructionSet!Accesses(s.m, a + n, b, {regs})
        BY <2>6, <2>7, AccessFindsNothing
    <2>9. InstructionSet!Accesses(s.m, regs[s.rs1] + s.imm, regs[s.rs2], {regs})
        BY <1>1, <2>2, <2>8, Zenon DEF a, b
    <2> QED
        BY <2>3, <2>9, Zenon DEF InstructionSet!Execute, InstructionSet!Stores, Stores
<1>6. CASE w.op = \h2F
    <2>1. /\ w.f3 = 2 /\ s.m = AtomicOp(w) /\ s.rd = w.rd /\ (s.m # "lr.w" => s.rs2 = w.rs2)
          /\ w.rd \in Registers /\ w.f7 \div 4 \in 0 .. 3
        BY <1>6 DEF ReadsAccess, WellFormedWord
    <2>2. s.m \in Atomics
        <3> DEFINE c == w.f7 \div 4
        <3>1. c = 0 \/ c = 1 \/ c = 2 \/ c = 3
            <4>1. c \in 0 .. 3
                BY <2>1
            <4> HIDE DEF c
            <4> QED
                BY <4>1
        <3> QED
            BY <2>1, <3>1 DEF AtomicOp, Atomics
    <2>3. Atomic(w)
        BY <1>6 DEF Effect, Immediate, Register, LoadUpper, Branch, Jump, Load, Store,
               Unknown, KnownOps
    <2> DEFINE d == IF s.m = "lr.w" THEN 0 ELSE regs[s.rs2]
    <2>4. MakesAccess(s.m, a, d, w.rd, Inputs)
        BY <2>1, <2>3, Zenon DEF Atomic, a
    <2> HIDE DEF d
    <2>5. InstructionSet!Accesses(s.m, a, d, {InstructionSet!Written(w.rd, v) : v \in Inputs})
        BY <1>2, <2>1, <2>4, WidthAssumption, AccessFinds
    <2>6. InstructionSet!Accesses(s.m, regs[s.rs1], IF s.m = "lr.w" THEN 0 ELSE regs[s.rs2],
                                  {InstructionSet!Written(s.rd, v) : v \in Inputs})
        BY <1>1, <2>1, <2>5 DEF a, d
    <2> QED
        BY <2>2, <2>6, Zenon DEF InstructionSet!Execute, InstructionSet!Atomics, Atomics
<1> QED
    BY <1>4, <1>5, <1>6 DEF ReadsAccess

LEMMA ReadsExecutes ==
    ASSUME NEW w, NEW s, RegistersFit, WellFormedWord(w), Reads(w, s), Effect(w)
    PROVE  InstructionSet!Execute(s)
BY RegisterExecutes, ImmediateExecutes, UpperExecutes, BranchExecutes, JumpExecutes,
   AccessExecutes DEF Reads

----------------------------------------------------------------------------
(* Every word leaves numbers that fit, also one that is no instruction. *)

LEMMA RegisterFits ==
    ASSUME NEW w, NEW a \in 0 .. Modulus - 1, NEW b \in 0 .. Modulus - 1,
           NEW old \in 0 .. Modulus - 1
    PROVE  RegisterResult(w, a, b, old) \in 0 .. Modulus - 1
<1>1. CASE \E m : Operates(w, m)
    BY <1>1, ResultAgrees
<1>2. CASE ~\E m : Operates(w, m)
    <2>1. /\ ~Operates(w, "add") /\ ~Operates(w, "sub") /\ ~Operates(w, "mul")
          /\ ~Operates(w, "sll") /\ ~Operates(w, "slt") /\ ~Operates(w, "sltu")
          /\ ~Operates(w, "xor") /\ ~Operates(w, "div") /\ ~Operates(w, "srl")
          /\ ~Operates(w, "sra") /\ ~Operates(w, "divu") /\ ~Operates(w, "rem")
          /\ ~Operates(w, "remu") /\ ~Operates(w, "or") /\ ~Operates(w, "and")
          /\ ~Operates(w, "mulh") /\ ~Operates(w, "mulhsu") /\ ~Operates(w, "mulhu")
        BY <1>2
    <2>2. /\ ~(w.f3 = 0 /\ w.f7 = 0) /\ ~(w.f3 = 0 /\ w.f7 = 32) /\ ~(w.f3 = 0 /\ w.f7 = 1)
          /\ ~(w.f3 = 4 /\ w.f7 = 0) /\ ~(w.f3 = 4 /\ w.f7 = 1)
          /\ ~(w.f3 = 5 /\ w.f7 = 0) /\ ~(w.f3 = 5 /\ w.f7 = 32) /\ ~(w.f3 = 5 /\ w.f7 = 1)
          /\ ~(w.f3 = 6 /\ w.f7 = 0) /\ ~(w.f3 = 6 /\ w.f7 = 1)
          /\ ~(w.f3 = 7 /\ w.f7 = 0) /\ ~(w.f3 = 7 /\ w.f7 = 1)
        BY <2>1 DEF Operates, RegisterOps, OpCodes
    <2>3. w.f3 # 2 /\ w.f3 # 3 /\ ~(w.f3 = 5 /\ w.f7 = 33) /\ ~(w.f3 = 5 /\ w.f7 = 37)
        BY <2>1 DEF Operates
    <2>4. w.f3 # 1
        <3>1. \/ ~(w.f7 = 1 /\ w.rs2 = 1) /\ ~(w.f7 = 1 /\ w.rs2 = 2) /\ ~(w.f7 = 1 /\ w.rs2 = 3)
              \/ w.f3 # 1
            BY <2>1 DEF Operates
        <3>2. w.f3 = 1 => w.f7 = 1 /\ w.rs2 \in 1 .. 3
            BY <2>1 DEF Operates
        <3>3. w.rs2 \in 1 .. 3 => w.rs2 = 1 \/ w.rs2 = 2 \/ w.rs2 = 3
            OBVIOUS
        <3> QED
            BY <3>1, <3>2, <3>3
    <2> QED
        BY <2>2, <2>3, <2>4 DEF RegisterResult
<1> QED
    BY <1>1, <1>2

LEMMA ImmediateFits ==
    ASSUME NEW w, WellFormedWord(w), w.op = \h13,
           NEW a \in 0 .. Modulus - 1, NEW old \in 0 .. Modulus - 1
    PROVE  ImmediateResult(w, a, old) \in 0 .. Modulus - 1
<1> DEFINE s(m) == [m |-> m, rd |-> w.rd, rs1 |-> w.rs1, imm |-> ImmI(w)]
           Named(m) == /\ m \in DOMAIN ImmediateOp /\ w.f3 = Funct3[m]
                       /\ m = "srli" => w.f7 = 0
                       /\ m = "srai" => w.f7 = 32
<1>1. ASSUME NEW m, Named(m) PROVE ImmediateResult(w, a, old) \in 0 .. Modulus - 1
    <2>1. ImmI(w) \in Int
        <3> DEFINE n == ImmI(w)
        <3>1. n \in -2048 .. 2047
            BY ImmediatesFit
        <3> HIDE DEF n
        <3>2. n \in Int
            BY <3>1
        <3> QED
            BY <3>2 DEF n
    <2>2. /\ s(m).m = m /\ s(m).rd = w.rd /\ s(m).rs1 = w.rs1 /\ s(m).imm = ImmI(w)
        OBVIOUS
    <2> HIDE DEF s
    <2>3. ReadsImmediate(w, s(m))
        BY <1>1, <2>1, <2>2, Zenon DEF ReadsImmediate
    <2> QED
        BY <2>3, ImmediateAgrees
<1>2. CASE \A m \in DOMAIN ImmediateOp : ~Named(m)
    <2>1. /\ ~Named("addi") /\ ~Named("slti") /\ ~Named("sltiu") /\ ~Named("xori") /\ ~Named("ori")
          /\ ~Named("andi") /\ ~Named("slli") /\ ~Named("srli") /\ ~Named("srai")
        <3> HIDE DEF Named
        <3> QED
            BY <1>2 DEF ImmediateOp
    <2> QED
        BY <2>1 DEF ImmediateOp, Funct3, ImmediateResult
<1> QED
    BY <1>1, <1>2

LEMMA EffectFits ==
    ASSUME NEW w, RegistersFit, WellFormedWord(w), Effect(w)
    PROVE  RegistersFit'
<1>1. pc \in Int /\ pc + 4 \in Int /\ 0 \in 0 .. Modulus - 1 /\ 0 \in Registers
    BY Widths, WidthAssumption DEF RegistersFit
<1>2. /\ w.op \notin {\h17, \h37, \h6F} => w.rs1 \in Registers
      /\ w.op \in {\h23, \h2F, \h33, \h63} => w.rs2 \in Registers
      /\ w.op \notin {\h23, \h63} => w.rd \in Registers
    BY DEF WellFormedWord
<1>3. \A r \in Registers : regs[r] \in 0 .. Modulus - 1 /\ regs[r] \in Int
    BY Widths DEF RegistersFit
<1>4. ImmI(w) \in Int /\ ImmS(w) \in Int /\ ImmB(w) \in Int /\ ImmJ(w) \in Int /\ ImmU(w) \in Int
    <2> DEFINE i == ImmI(w)
               s == ImmS(w)
    <2>1. i \in -2048 .. 2047 /\ s \in -2048 .. 2047
        BY ImmediatesFit
    <2> HIDE DEF i, s
    <2>2. i \in Int /\ s \in Int
        BY <2>1
    <2> QED
        BY <2>2, ImmediatesFit DEF i, s
<1>5. Nothing => RegistersFit'
    BY <1>1, LeaveDoes DEF Nothing
<1>6. ASSUME NEW op, NEW data, NEW r \in Registers, NEW n \in Int,
             NEW found \in SUBSET (0 .. Modulus - 1), MakesAccess(op, n, data, r, found)
      PROVE  RegistersFit'
    BY <1>6, AccessFinds
<1>7. CASE Immediate(w)
    <2> DEFINE r == ImmediateResult(w, regs[w.rs1], regs[w.rd])
    <2>1. w.op = \h13 /\ Leave(w.rd, r, pc + 4) /\ w.rd \in Registers /\ w.rs1 \in Registers
        BY <1>2, <1>7 DEF Immediate
    <2>2. r \in 0 .. Modulus - 1
        BY <1>3, <2>1, ImmediateFits
    <2> HIDE DEF r
    <2> QED
        BY <1>1, <2>1, <2>2, LeaveDoes
<1>8. CASE Register(w)
    <2> DEFINE r == RegisterResult(w, regs[w.rs1], regs[w.rs2], regs[w.rd])
    <2>1. /\ w.op = \h33 /\ Leave(w.rd, r, pc + 4)
          /\ w.rd \in Registers /\ w.rs1 \in Registers /\ w.rs2 \in Registers
        BY <1>2, <1>8 DEF Register
    <2>2. r \in 0 .. Modulus - 1
        BY <1>3, <2>1, RegisterFits
    <2> HIDE DEF r
    <2> QED
        BY <1>1, <2>1, <2>2, LeaveDoes
<1>9. CASE LoadUpper(w)
    <2>1. w.rd \in Registers /\ (Leave(w.rd, Wrap(ImmU(w)), pc + 4) \/ Leave(w.rd, Wrap(pc + ImmU(w)), pc + 4))
        BY <1>2, <1>9 DEF LoadUpper
    <2>2. pc + ImmU(w) \in Int
        BY <1>1, <1>4
    <2>3. Wrap(ImmU(w)) \in 0 .. Modulus - 1 /\ Wrap(pc + ImmU(w)) \in 0 .. Modulus - 1
        BY <1>4, <2>2, WrapFits
    <2> QED
        BY <1>1, <2>1, <2>3, LeaveDoes
<1>10. CASE Branch(w)
    <2> DEFINE c == IF Condition(w, regs[w.rs1], regs[w.rs2]) THEN ImmB(w) ELSE 4
    <2>1. Leave(0, 0, pc + c)
        BY <1>10 DEF Branch
    <2>2. c \in Int
        BY <1>4
    <2> HIDE DEF c
    <2>3. pc + c \in Int
        BY <1>1, <2>2
    <2> QED
        BY <1>1, <2>1, <2>3, LeaveDoes
<1>11. CASE Jump(w)
    <2>1. Wrap(pc + 4) \in 0 .. Modulus - 1
        BY <1>1, WrapFits
    <2>2. ASSUME w.op = \h6F, Leave(w.rd, Wrap(pc + 4), pc + ImmJ(w)) PROVE RegistersFit'
        <3>1. pc + ImmJ(w) \in Int /\ w.rd \in Registers
            BY <1>1, <1>2, <1>4, <2>2
        <3> QED
            BY <2>1, <2>2, <3>1, LeaveDoes
    <2>3. ASSUME w.op = \h67,
                 Leave(w.rd, Wrap(pc + 4), Wrap(regs[w.rs1] + ImmI(w)) - (Wrap(regs[w.rs1] + ImmI(w)) % 2))
          PROVE  RegistersFit'
        <3> DEFINE t == Wrap(regs[w.rs1] + ImmI(w))
        <3>1. regs[w.rs1] + ImmI(w) \in Int /\ w.rd \in Registers
            BY <1>2, <1>3, <1>4, <2>3
        <3>2. t \in 0 .. Modulus - 1
            BY <3>1, WrapFits
        <3>3. Leave(w.rd, Wrap(pc + 4), t - (t % 2))
            BY <2>3
        <3> HIDE DEF t
        <3>4. t - (t % 2) \in Int
            BY <3>2, Widths
        <3> QED
            BY <2>1, <3>1, <3>3, <3>4, LeaveDoes
    <2> QED
        BY <1>5, <1>11, <2>2, <2>3 DEF Jump
<1>12. CASE Load(w)
    <2>1. w.rd \in Registers /\ regs[w.rs1] + ImmI(w) \in Int
        BY <1>2, <1>3, <1>4, <1>12 DEF Load
    <2>2. Inputs \in SUBSET (0 .. Modulus - 1) /\ Inputs \union {0} \in SUBSET (0 .. Modulus - 1)
        BY <1>1, WidthAssumption
    <2>3. \/ MakesAccess(LoadOp[w.f3 + 1], regs[w.rs1] + ImmI(w), 0, w.rd, Inputs \union {0})
          \/ MakesAccess(LoadOp[w.f3 + 1], regs[w.rs1] + ImmI(w), 0, w.rd, Inputs)
        BY <1>12, Zenon DEF Load
    <2> QED
        BY <1>6, <2>1, <2>2, <2>3
<1>13. CASE Store(w)
    <2>1. regs[w.rs1] + ImmS(w) \in Int
        BY <1>2, <1>3, <1>4, <1>13 DEF Store
    <2>2. MakesAccess(StoreOp[w.f3 + 1], regs[w.rs1] + ImmS(w), regs[w.rs2], 0, {0})
        BY <1>13, Zenon DEF Store
    <2> QED
        BY <2>1, <2>2, AccessFindsNothing
<1>14. CASE Atomic(w)
    <2>1. w.rd \in Registers /\ regs[w.rs1] \in Int
        BY <1>2, <1>3, <1>14 DEF Atomic
    <2> QED
        BY <1>6, <1>14, <2>1, WidthAssumption DEF Atomic
<1> QED
    BY <1>5, <1>7, <1>8, <1>9, <1>10, <1>11, <1>12, <1>13, <1>14 DEF Effect, Unknown

----------------------------------------------------------------------------
(* A step executes an instruction i of the programs, or dies of it. *)
LEMMA StepCases ==
    ASSUME NEW i, Step(i)
    PROVE  \/ alive' /\ last' = i /\ Effect(Assemble(i))
           \/ ~alive' /\ UNCHANGED <<regs, pc, access, last>>
<1> DEFINE w == Assemble(i)
<1>1. alive /\ last' = IF alive' THEN i ELSE last
    BY DEF Step
<1>2. CASE Killed(w)
    BY <1>1, <1>2 DEF Killed
<1>3. CASE Effect(w)
    <2>1. alive' = alive
        BY <1>3 DEF Effect, Immediate, Register, LoadUpper, Branch, Jump, Load, Store, Atomic,
               Unknown, Nothing, Leave, MakesAccess
    <2> HIDE DEF w
    <2> QED
        BY <1>1, <1>3, <2>1 DEF w
<1>4. Killed(w) \/ Effect(w)
    BY DEF Step, Effect
<1> QED
    BY <1>2, <1>3, <1>4

LEMMA InitFits == Init => RegistersFit
<1>1. Inputs \subseteq 0 .. Modulus - 1 /\ Starts \subseteq 0 .. Modulus - 1
    BY WidthAssumption
<1> DEFINE all == 0 .. Modulus - 1
<1> HIDE DEF all
<1>2. Inputs \subseteq all /\ Starts \subseteq all
    BY <1>1 DEF all
<1>3. Init => regs \in [Registers -> all] /\ regs[0] = 0 /\ pc \in all
    BY <1>2 DEF Init
<1> QED
    BY <1>3 DEF RegistersFit, all

LEMMA NextFits == RegistersFit /\ [Next]_vars => RegistersFit'
<1> SUFFICES ASSUME RegistersFit, [Next]_vars PROVE RegistersFit'
    OBVIOUS
<1>1. CASE UNCHANGED vars
    BY <1>1 DEF vars, RegistersFit, Modulus
<1>2. ASSUME NEW i \in Instrs, Step(i) PROVE RegistersFit'
    <2>1. CASE Effect(Assemble(i))
        BY <1>2, <2>1, InstrsAssumption, EffectFits
    <2>2. CASE UNCHANGED <<regs, pc, access, last>>
        BY <2>2 DEF RegistersFit, Modulus
    <2> QED
        BY <1>2, <2>1, <2>2, StepCases
<1> QED
    BY <1>1, <1>2 DEF Next

(* The registers and the pc always hold numbers of their width, and x0 holds 0. *)
THEOREM RegistersAlwaysFit == Spec => []RegistersFit
<1>1. Init => RegistersFit
    BY InitFits
<1>2. RegistersFit /\ [Next]_vars => RegistersFit'
    BY NextFits
<1> QED
    BY <1>1, <1>2, PTL DEF Spec

----------------------------------------------------------------------------
(* Step reads what the assembler has written. *)

(* The fields of an I format hold twelve bits of the operand. *)
LEMMA FieldI ==
    ASSUME NEW w, NEW n \in Int, w.rs2 = n % 32, w.f7 = (n % 4096) \div 32
    PROVE  UnsignedI(w) = n % 4096 /\ ImmI(w) = ((n + 2048) % 4096) - 2048
<1>1. UnsignedI(w) = ((n % 4096) \div 32) * 32 + (n % 32)
    BY DEF UnsignedI
<1>2. ((n % 4096) \div 32) * 32 + (n % 32) = n % 4096 /\ n % 4096 \in Int
    BY SMT
<1>3. UnsignedI(w) = n % 4096
    BY <1>1, <1>2, SMT
<1>4. ImmI(w) = (((n % 4096) + 2048) % 4096) - 2048
    <2> DEFINE v == n % 4096
    <2>1. v \in Int /\ UnsignedI(w) = v
        BY <1>2, <1>3, SMT
    <2> HIDE DEF v
    <2>2. ImmI(w) = ((v + 2048) % 4096) - 2048
        BY <2>1, SignExtends DEF ImmI
    <2> QED
        BY <2>2, SMT DEF v
<1>5. ((n % 4096) + 2048) % 4096 = (n + 2048) % 4096
    BY SMT
<1> QED
    BY <1>3, <1>4, <1>5, SMT

(* Which are all of a signed number of twelve bits. *)
LEMMA Signed12 ==
    ASSUME NEW n \in SignedNumbers(12)
    PROVE  n \in Int /\ ((n + 2048) % 4096) - 2048 = n
BY SMT DEF SignedNumbers

(* The format of every instruction. *)
LEMMA Formats ==
    ASSUME NEW i
    PROVE  /\ i.m \in RegisterOps => Assemble(i) = RType(i, \h33, OpCodes[i.m], i.rs2)
           /\ i.m = "srai" => Assemble(i) = IType(i, \h13, 5, 2^10 + i.imm)
           /\ i.m \in DOMAIN ImmediateOp \ {"srai"} => Assemble(i) = IType(i, \h13, Funct3[i.m], i.imm)
           /\ i.m = "jalr" => Assemble(i) = IType(i, \h67, 0, i.imm)
           /\ i.m \in Loads => Assemble(i) = IType(i, \h03, Funct3[i.m], i.imm)
           /\ i.m \in Stores => Assemble(i) = SType(i)
           /\ i.m \in Branches => Assemble(i) = BType(i)
           /\ i.m = "lui" => Assemble(i) = UType(i, \h37)
           /\ i.m = "auipc" => Assemble(i) = UType(i, \h17)
           /\ i.m = "jal" => Assemble(i) = JType(i)
           /\ i.m = "lr.w" => Assemble(i) = RType(i, \h2F, <<2, 8>>, 0)
           /\ i.m \in Atomics \ {"lr.w"} => Assemble(i) = RType(i, \h2F, <<2, 4 * AtomicCode(i.m)>>, i.rs2)
<1>1. ASSUME i.m \in RegisterOps PROVE Assemble(i) = RType(i, \h33, OpCodes[i.m], i.rs2)
    <2>1. /\ i.m \notin Loads /\ i.m \notin Stores /\ i.m \notin Branches /\ i.m \notin DOMAIN ImmediateOp \ {"srai"}
          /\ i.m # "raw" /\ i.m # "srai" /\ i.m # "jalr" /\ i.m # "lui"
          /\ i.m # "auipc" /\ i.m # "jal" /\ i.m # "lr.w"
        BY <1>1 DEF RegisterOps, ImmediateOp, Loads, Stores, Branches
    <2> QED
        BY <1>1, <2>1, Zenon DEF Assemble
<1>2. ASSUME i.m = "srai" PROVE Assemble(i) = IType(i, \h13, 5, 2^10 + i.imm)
    <2>1. /\ i.m \notin RegisterOps /\ i.m \notin Loads /\ i.m \notin Stores /\ i.m \notin Branches
          /\ i.m \notin DOMAIN ImmediateOp \ {"srai"} /\ i.m # "raw" /\ i.m # "jalr" /\ i.m # "lui"
          /\ i.m # "auipc" /\ i.m # "jal" /\ i.m # "lr.w"
        BY <1>2 DEF RegisterOps, ImmediateOp, Loads, Stores, Branches
    <2> QED
        BY <1>2, <2>1, Zenon DEF Assemble
<1>3. ASSUME i.m \in DOMAIN ImmediateOp \ {"srai"} PROVE Assemble(i) = IType(i, \h13, Funct3[i.m], i.imm)
    <2>1. /\ i.m \notin RegisterOps /\ i.m \notin Loads /\ i.m \notin Stores /\ i.m \notin Branches
          /\ i.m # "raw" /\ i.m # "srai" /\ i.m # "jalr" /\ i.m # "lui"
          /\ i.m # "auipc" /\ i.m # "jal" /\ i.m # "lr.w"
        BY <1>3 DEF RegisterOps, ImmediateOp, Loads, Stores, Branches
    <2> QED
        BY <1>3, <2>1, Zenon DEF Assemble
<1>4. ASSUME i.m = "jalr" PROVE Assemble(i) = IType(i, \h67, 0, i.imm)
    <2>1. /\ i.m \notin RegisterOps /\ i.m \notin Loads /\ i.m \notin Stores /\ i.m \notin Branches
          /\ i.m \notin DOMAIN ImmediateOp \ {"srai"} /\ i.m # "raw" /\ i.m # "srai" /\ i.m # "lui"
          /\ i.m # "auipc" /\ i.m # "jal" /\ i.m # "lr.w"
        BY <1>4 DEF RegisterOps, ImmediateOp, Loads, Stores, Branches
    <2> QED
        BY <1>4, <2>1, Zenon DEF Assemble
<1>5. ASSUME i.m \in Loads PROVE Assemble(i) = IType(i, \h03, Funct3[i.m], i.imm)
    <2>1. /\ i.m \notin RegisterOps /\ i.m \notin Stores /\ i.m \notin Branches /\ i.m \notin DOMAIN ImmediateOp \ {"srai"}
          /\ i.m # "raw" /\ i.m # "srai" /\ i.m # "jalr" /\ i.m # "lui"
          /\ i.m # "auipc" /\ i.m # "jal" /\ i.m # "lr.w"
        BY <1>5 DEF RegisterOps, ImmediateOp, Loads, Stores, Branches
    <2> QED
        BY <1>5, <2>1, Zenon DEF Assemble
<1>6. ASSUME i.m \in Stores PROVE Assemble(i) = SType(i)
    <2>1. /\ i.m \notin RegisterOps /\ i.m \notin Loads /\ i.m \notin Branches /\ i.m \notin DOMAIN ImmediateOp \ {"srai"}
          /\ i.m # "raw" /\ i.m # "srai" /\ i.m # "jalr" /\ i.m # "lui"
          /\ i.m # "auipc" /\ i.m # "jal" /\ i.m # "lr.w"
        BY <1>6 DEF RegisterOps, ImmediateOp, Loads, Stores, Branches
    <2> QED
        BY <1>6, <2>1, Zenon DEF Assemble
<1>7. ASSUME i.m \in Branches PROVE Assemble(i) = BType(i)
    <2>1. /\ i.m \notin RegisterOps /\ i.m \notin Loads /\ i.m \notin Stores /\ i.m \notin DOMAIN ImmediateOp \ {"srai"}
          /\ i.m # "raw" /\ i.m # "srai" /\ i.m # "jalr" /\ i.m # "lui"
          /\ i.m # "auipc" /\ i.m # "jal" /\ i.m # "lr.w"
        BY <1>7 DEF RegisterOps, ImmediateOp, Loads, Stores, Branches
    <2> QED
        BY <1>7, <2>1, Zenon DEF Assemble
<1>8. ASSUME i.m = "lui" PROVE Assemble(i) = UType(i, \h37)
    <2>1. /\ i.m \notin RegisterOps /\ i.m \notin Loads /\ i.m \notin Stores /\ i.m \notin Branches
          /\ i.m \notin DOMAIN ImmediateOp \ {"srai"} /\ i.m # "raw" /\ i.m # "srai" /\ i.m # "jalr"
          /\ i.m # "auipc" /\ i.m # "jal" /\ i.m # "lr.w"
        BY <1>8 DEF RegisterOps, ImmediateOp, Loads, Stores, Branches
    <2> QED
        BY <1>8, <2>1, Zenon DEF Assemble
<1>9. ASSUME i.m = "auipc" PROVE Assemble(i) = UType(i, \h17)
    <2>1. /\ i.m \notin RegisterOps /\ i.m \notin Loads /\ i.m \notin Stores /\ i.m \notin Branches
          /\ i.m \notin DOMAIN ImmediateOp \ {"srai"} /\ i.m # "raw" /\ i.m # "srai" /\ i.m # "jalr"
          /\ i.m # "lui" /\ i.m # "jal" /\ i.m # "lr.w"
        BY <1>9 DEF RegisterOps, ImmediateOp, Loads, Stores, Branches
    <2> QED
        BY <1>9, <2>1, Zenon DEF Assemble
<1>10. ASSUME i.m = "jal" PROVE Assemble(i) = JType(i)
    <2>1. /\ i.m \notin RegisterOps /\ i.m \notin Loads /\ i.m \notin Stores /\ i.m \notin Branches
          /\ i.m \notin DOMAIN ImmediateOp \ {"srai"} /\ i.m # "raw" /\ i.m # "srai" /\ i.m # "jalr"
          /\ i.m # "lui" /\ i.m # "auipc" /\ i.m # "lr.w"
        BY <1>10 DEF RegisterOps, ImmediateOp, Loads, Stores, Branches
    <2> QED
        BY <1>10, <2>1, Zenon DEF Assemble
<1>11. ASSUME i.m = "lr.w" PROVE Assemble(i) = RType(i, \h2F, <<2, 8>>, 0)
    <2>1. /\ i.m \notin RegisterOps /\ i.m \notin Loads /\ i.m \notin Stores /\ i.m \notin Branches
          /\ i.m \notin DOMAIN ImmediateOp \ {"srai"} /\ i.m # "raw" /\ i.m # "srai" /\ i.m # "jalr"
          /\ i.m # "lui" /\ i.m # "auipc" /\ i.m # "jal"
        BY <1>11 DEF RegisterOps, ImmediateOp, Loads, Stores, Branches
    <2> QED
        BY <1>11, <2>1, Zenon DEF Assemble
<1>12. ASSUME i.m \in Atomics \ {"lr.w"} PROVE Assemble(i) = RType(i, \h2F, <<2, 4 * AtomicCode(i.m)>>, i.rs2)
    <2>1. /\ i.m \notin RegisterOps /\ i.m \notin Loads /\ i.m \notin Stores /\ i.m \notin Branches
          /\ i.m \notin DOMAIN ImmediateOp \ {"srai"} /\ i.m # "raw" /\ i.m # "srai" /\ i.m # "jalr"
          /\ i.m # "lui" /\ i.m # "auipc" /\ i.m # "jal" /\ i.m # "lr.w"
        BY <1>12 DEF RegisterOps, ImmediateOp, Loads, Stores, Branches, Atomics
    <2> QED
        BY <1>12, <2>1, Zenon DEF Assemble
<1> QED
    BY <1>1, <1>2, <1>3, <1>4, <1>5, <1>6, <1>7,
       <1>8, <1>9, <1>10, <1>11, <1>12

LEMMA AssemblesRegister ==
    ASSUME NEW i, i.m \in RegisterOps \ {"mulhsu", "mulhu"}, i.m = "mulh" => i.rs2 = 1
    PROVE  ReadsRegister(Assemble(i), i)
<1>1. Assemble(i) = Word(\h33, i.rd, OpCodes[i.m][1], i.rs1, i.rs2, OpCodes[i.m][2])
    BY Formats DEF RType
<1> DEFINE w == Assemble(i)
<1>2. /\ w.op = \h33 /\ w.f3 = OpCodes[i.m][1] /\ w.f7 = OpCodes[i.m][2]
      /\ w.rd = i.rd /\ w.rs1 = i.rs1 /\ w.rs2 = i.rs2
    BY <1>1 DEF Word
<1> HIDE DEF w
<1>3. Operates(w, i.m)
    <2>1. CASE i.m = "mulh"
        BY <1>2, <2>1 DEF OpCodes, Operates
    <2>2. CASE i.m # "mulh"
        BY <1>2, <2>2 DEF Operates
    <2> QED
        BY <2>1, <2>2
<1> QED
    BY <1>2, <1>3 DEF ReadsRegister, w

LEMMA AssemblesImmediate ==
    ASSUME NEW i, i.m \in DOMAIN ImmediateOp, Encodable(i)
    PROVE  ReadsImmediate(Assemble(i), i)
<1> DEFINE w == Assemble(i)
           n == i.imm
<1>1. CASE i.m \in {"addi", "slti", "sltiu", "xori", "ori", "andi"}
    <2>1. w = IType(i, \h13, Funct3[i.m], n)
        BY <1>1, Formats DEF ImmediateOp
    <2>2. /\ w.op = \h13 /\ w.f3 = Funct3[i.m] /\ w.rd = i.rd /\ w.rs1 = i.rs1
          /\ w.rs2 = n % 32 /\ w.f7 = (n % 4096) \div 32
        BY <2>1, SMT DEF IType, Word
    <2>3. n \in SignedNumbers(12)
        BY <1>1, Zenon DEF Encodable
    <2> HIDE DEF w, n
    <2>4. n \in Int /\ ((n + 2048) % 4096) - 2048 = n
        BY <2>3, Signed12
    <2>5. ImmI(w) = ((n + 2048) % 4096) - 2048
        BY <2>2, <2>4, FieldI, SMT
    <2>6. ImmI(w) = n
        BY <2>4, <2>5, SMT
    <2>7. w.op = \h13 /\ w.f3 = Funct3[i.m] /\ w.rd = i.rd /\ w.rs1 = i.rs1 /\ n \in Int
        BY <2>2, <2>4, SMT
    <2> QED
        BY <1>1, <2>6, <2>7 DEF ReadsImmediate, Shifts, w, n
<1>2. CASE i.m \in Shifts
    <2> DEFINE v == IF i.m = "srai" THEN 2^10 + n ELSE n
    <2>1. w = IType(i, \h13, Funct3[i.m], v)
        <3>1. CASE i.m = "srai"
            <4>1. w = IType(i, \h13, 5, 2^10 + n)
                BY <3>1, Formats
            <4>2. Funct3[i.m] = 5 /\ v = 2^10 + n
                BY <3>1 DEF Funct3
            <4> QED
                BY <4>1, <4>2, Zenon
        <3>2. CASE i.m # "srai"
            BY <1>2, <3>2, Formats DEF ImmediateOp, Shifts
        <3> QED
            BY <3>1, <3>2
    <2>2. w.op = \h13 /\ w.f3 = Funct3[i.m] /\ w.rd = i.rd /\ w.rs1 = i.rs1
        BY <2>1, SMT DEF IType, Word
    <2>10. w.rs2 = v % 32 /\ w.f7 = (v % 4096) \div 32
        BY <2>1, SMT DEF IType, Word
    <2>3. n \in 0 .. XLen - 1
        BY <1>2, Zenon DEF Encodable, Shifts
    <2> HIDE DEF w, n
    <2>4. n \in 0 .. 31 /\ n \in Int
        BY <2>3, WidthAssumption, SMT
    <2>5. v \in {n, 1024 + n} /\ (i.m = "srai" <=> v = 1024 + n)
        BY <2>4, SMT
    <2> HIDE DEF v
    <2>6. v \in 0 .. 4095 /\ ((v + 2048) % 4096) - 2048 = v /\ v % 4096 = v
        BY <2>4, <2>5, SMT
    <2>7. ImmI(w) = v
        <3>1. v \in Int
            BY <2>6
        <3>2. ImmI(w) = ((v + 2048) % 4096) - 2048
            BY <2>10, <3>1, FieldI, SMT
        <3> QED
            BY <2>6, <3>2, SMT
    <2>8. n % XLen = v % XLen
        <3>1. n % 16 = v % 16 /\ n % 32 = v % 32
            BY <2>4, <2>5, SMT
        <3> QED
            BY <3>1, WidthAssumption
    <2>9. v \div 32 = IF i.m = "srai" THEN 32 ELSE 0
        BY <2>4, <2>5, SMT
    <2> QED
        <3>1. i.m \in DOMAIN ImmediateOp /\ n \in Int
            BY <2>4
        <3>2. w.f7 = v \div 32
            BY <2>10, <2>6, SMT
        <3>3. (i.m = "srli" => w.f7 = 0) /\ (i.m = "srai" => w.f7 = 32)
            BY <2>9, <3>2
        <3> QED
            BY <1>2, <2>2, <2>7, <2>8, <3>1, <3>3 DEF ReadsImmediate, w, n
<1> QED
    BY <1>1, <1>2 DEF ImmediateOp, Shifts

(* The same of an S format, whose low bits are in the field of rd. *)
LEMMA FieldS ==
    ASSUME NEW w, NEW n \in Int, w.rd = n % 32, w.f7 = (n % 4096) \div 32
    PROVE  UnsignedS(w) = n % 4096 /\ ImmS(w) = ((n + 2048) % 4096) - 2048
<1> DEFINE u == Word(0, 0, 0, 0, w.rd, w.f7)
<1>1. u.rs2 = w.rd /\ u.f7 = w.f7
    BY DEF Word
<1> HIDE DEF u
<1>2. UnsignedS(w) = UnsignedI(u)
    BY <1>1 DEF UnsignedS, UnsignedI
<1>3. ImmS(w) = ImmI(u)
    BY <1>2 DEF ImmS, ImmI
<1>4. u.rs2 = n % 32 /\ u.f7 = (n % 4096) \div 32
    BY <1>1, SMT
<1>5. UnsignedI(u) = n % 4096 /\ ImmI(u) = ((n + 2048) % 4096) - 2048
    BY <1>4, FieldI, SMT
<1> QED
    BY <1>2, <1>3, <1>5, SMT

(* The twenty bits above rd. *)
LEMMA FieldU ==
    ASSUME NEW w, NEW v \in Int, w.f3 = v % 8, w.rs1 = (v \div 8) % 32,
           w.rs2 = (v \div 256) % 32, w.f7 = v \div 8192
    PROVE  Above(w) = v
<1>1. /\ (v \div 8) * 8 + (v % 8) = v
      /\ (v \div 256) * 32 + ((v \div 8) % 32) = v \div 8
      /\ (v \div 8192) * 32 + ((v \div 256) % 32) = v \div 256
    BY SMT
<1>2. (v \div 8192) * 8192 + ((v \div 256) % 32) * 256 + ((v \div 8) % 32) * 8 + (v % 8) = v
    BY <1>1, SMT
<1>3. Above(w) = (v \div 8192) * 8192 + ((v \div 256) % 32) * 256 + ((v \div 8) % 32) * 8 + (v % 8)
    BY SMT DEF Above
<1> QED
    BY <1>2, <1>3, SMT

LEMMA AssemblesUpper ==
    ASSUME NEW i, i.m \in {"lui", "auipc"}, Encodable(i)
    PROVE  ReadsUpper(Assemble(i), i)
<1> DEFINE w == Assemble(i)
           n == i.imm
           v == (n \div 4096) % 2^20
           op == IF i.m = "lui" THEN \h37 ELSE \h17
<1>1. w = UType(i, op)
    BY Formats
<1>2. w.op = op /\ w.rd = i.rd
    BY <1>1 DEF UType, Upper, Word
<1>3. w.f3 = v % 8 /\ w.rs1 = (v \div 8) % 32 /\ w.rs2 = (v \div 256) % 32 /\ w.f7 = v \div 8192
    BY <1>1, SMT DEF UType, Upper, Word
<1>4. PICK u \in 0 .. 2^20 - 1 : n = u * 2^12
    BY Zenon DEF Encodable
<1> HIDE DEF w, n
<1>5. u \in Int /\ 0 <= u /\ u < 1048576 /\ n = u * 4096
    BY <1>4, SMT
<1>6. v = u
    <2>1. (u * 4096) \div 4096 = u /\ u % 2^20 = u
        BY <1>5, SMT
    <2> QED
        BY <1>5, <2>1, SMT
<1> HIDE DEF v
<1>7. Above(w) = u
    BY <1>3, <1>5, <1>6, FieldU, SMT
<1>8. ImmU(w) = n
    BY <1>5, <1>7, SMT DEF ImmU
<1> QED
    BY <1>2, <1>8 DEF ReadsUpper, w, n

LEMMA AssemblesAccess ==
    ASSUME NEW i, i.m \in Loads \union Stores \union Atomics, Encodable(i)
    PROVE  ReadsAccess(Assemble(i), i)
<1> DEFINE w == Assemble(i)
           n == i.imm
<1>1. CASE i.m \in Loads
    <2>1. w = IType(i, \h03, Funct3[i.m], n)
        BY <1>1, Formats
    <2>2. /\ w.op = \h03 /\ w.f3 = Funct3[i.m] /\ w.rd = i.rd /\ w.rs1 = i.rs1
          /\ w.rs2 = n % 32 /\ w.f7 = (n % 4096) \div 32
        BY <2>1, SMT DEF IType, Word
    <2>3. n \in SignedNumbers(12)
        BY <1>1, Zenon DEF Encodable
    <2> HIDE DEF w, n
    <2>4. n \in Int /\ ((n + 2048) % 4096) - 2048 = n
        BY <2>3, Signed12
    <2>5. ImmI(w) = ((n + 2048) % 4096) - 2048
        BY <2>2, <2>4, FieldI, SMT
    <2>6. ImmI(w) = n
        BY <2>4, <2>5, SMT
    <2>7. w.op = \h03 /\ w.f3 = Funct3[i.m] /\ w.rd = i.rd /\ w.rs1 = i.rs1
        BY <2>2, SMT
    <2>8. i.m = LoadOp[w.f3 + 1]
        BY <1>1, <2>7 DEF Loads, Funct3, LoadOp
    <2> QED
        BY <1>1, <2>6, <2>7, <2>8 DEF ReadsAccess, w, n
<1>2. CASE i.m \in Stores
    <2>1. w = SType(i)
        BY <1>2, Formats
    <2>2. /\ w.op = \h23 /\ w.f3 = Funct3[i.m] /\ w.rs1 = i.rs1 /\ w.rs2 = i.rs2
          /\ w.rd = n % 32 /\ w.f7 = (n % 4096) \div 32
        BY <2>1, SMT DEF SType, Word
    <2>3. n \in SignedNumbers(12)
        BY <1>2, Zenon DEF Encodable
    <2> HIDE DEF w, n
    <2>4. n \in Int /\ ((n + 2048) % 4096) - 2048 = n
        BY <2>3, Signed12
    <2>5. ImmS(w) = ((n + 2048) % 4096) - 2048
        BY <2>2, <2>4, FieldS, SMT
    <2>6. ImmS(w) = n
        BY <2>4, <2>5, SMT
    <2>7. w.op = \h23 /\ w.f3 = Funct3[i.m] /\ w.rs1 = i.rs1 /\ w.rs2 = i.rs2
        BY <2>2, SMT
    <2>8. w.f3 < 3 /\ i.m = StoreOp[w.f3 + 1]
        BY <1>2, <2>7 DEF Stores, Funct3, StoreOp
    <2> QED
        BY <2>6, <2>7, <2>8 DEF ReadsAccess, w, n
<1>3. CASE i.m = "lr.w"
    <2>1. w = RType(i, \h2F, <<2, 8>>, 0)
        BY <1>3, Formats
    <2>2. w.op = \h2F /\ w.f3 = 2 /\ w.rd = i.rd /\ w.rs1 = i.rs1 /\ w.f7 = 8
        BY <2>1 DEF RType, Word
    <2>3. AtomicOp(w) = "lr.w"
        <3>1. w.f7 \div 4 = 2
            BY <2>2
        <3> QED
            BY <3>1 DEF AtomicOp
    <2> QED
        BY <1>3, <2>2, <2>3 DEF ReadsAccess
<1>4. CASE i.m \in Atomics \ {"lr.w"}
    <2>1. w = RType(i, \h2F, <<2, 4 * AtomicCode(i.m)>>, i.rs2)
        BY <1>4, Formats
    <2>2. /\ w.op = \h2F /\ w.f3 = 2 /\ w.rd = i.rd /\ w.rs1 = i.rs1 /\ w.rs2 = i.rs2
          /\ w.f7 = 4 * AtomicCode(i.m)
        BY <2>1 DEF RType, Word
    <2>3. <<i.m, AtomicCode(i.m)>> \in {<<"sc.w", 3>>, <<"amoadd.w", 0>>, <<"amoswap.w", 1>>}
        BY <1>4 DEF Atomics, AtomicCode
    <2>4. w.f7 \div 4 = AtomicCode(i.m)
        BY <2>2, <2>3
    <2>5. AtomicOp(w) = i.m
        BY <2>3, <2>4 DEF AtomicOp
    <2> QED
        BY <2>2, <2>5 DEF ReadsAccess
<1> QED
    BY <1>1, <1>2, <1>3, <1>4

(* The bits of a B format, out of order in the fields of rd and funct7. *)
LEMMA FieldB ==
    ASSUME NEW w, NEW n \in Int, n % 2 = 0,
           w.rd = (((n % 8192) \div 2) % 16) * 2 + (((n % 8192) \div 2048) % 2),
           w.f7 = ((n % 8192) \div 4096) * 64 + (((n % 8192) \div 32) % 64)
    PROVE  ImmB(w) = ((n + 4096) % 8192) - 4096
<1> DEFINE v == n % 8192
           a == (v \div 2) % 16
           b == (v \div 2048) % 2
           c == v \div 4096
           d == (v \div 32) % 64
<1>1. v \in Int /\ 0 <= v /\ v < 8192 /\ v % 2 = 0
    BY SMT
<1>2. w.rd = a * 2 + b /\ w.f7 = c * 64 + d
    BY SMT
<1>3. (v + 4096) % 8192 = (n + 4096) % 8192
    BY SMT
<1> HIDE DEF v
<1>4. /\ a \in Int /\ b \in Int /\ c \in Int /\ d \in Int
      /\ 0 <= b /\ b < 2 /\ 0 <= d /\ d < 64
      /\ v = a * 2 + d * 32 + b * 2048 + c * 4096
    <2>1. /\ (v \div 32) * 32 + a * 2 = v
          /\ (v \div 2048) * 64 + d = v \div 32
          /\ c * 2 + b = v \div 2048
        BY <1>1, SMT
    <2> QED
        BY <1>1, <2>1, SMT
<1> HIDE DEF a, b, c, d
<1>5. (a * 2 + b) \div 2 = a /\ (a * 2 + b) % 2 = b /\ (c * 64 + d) % 64 = d /\ (c * 64 + d) \div 64 = c
    BY <1>4, SMT
<1>6. (w.rd \div 2) * 2 + (w.f7 % 64) * 32 + (w.rd % 2) * 2048 + (w.f7 \div 64) * 4096 = v
    BY <1>2, <1>4, <1>5, SMT
<1>7. ImmB(w) = SignExtend(v, 13)
    BY <1>6 DEF ImmB
<1>8. SignExtend(v, 13) = ((v + 4096) % 8192) - 4096
    <2>1. v \in Int
        BY <1>1, SMT
    <2> QED
        BY <2>1, SignExtends, SMT
<1> QED
    BY <1>3, <1>7, <1>8, SMT

LEMMA Signed13 ==
    ASSUME NEW n \in SignedNumbers(13)
    PROVE  n \in Int /\ ((n + 4096) % 8192) - 4096 = n
BY SMT DEF SignedNumbers

LEMMA AssemblesBranch ==
    ASSUME NEW i, i.m \in Branches, Encodable(i)
    PROVE  ReadsBranch(Assemble(i), i)
<1> DEFINE w == Assemble(i)
           n == i.imm
<1>1. w = BType(i)
    BY Formats
<1>2. w.op = \h63 /\ w.f3 = Funct3[i.m] /\ w.rs1 = i.rs1 /\ w.rs2 = i.rs2
    BY <1>1, SMT DEF BType, Word
<1>3. /\ w.rd = (((n % 8192) \div 2) % 16) * 2 + (((n % 8192) \div 2048) % 2)
      /\ w.f7 = ((n % 8192) \div 4096) * 64 + (((n % 8192) \div 32) % 64)
    BY <1>1, SMT DEF BType, Word
<1>4. n \in SignedNumbers(13) /\ n % 2 = 0
    BY Zenon DEF Encodable
<1> HIDE DEF w, n
<1>5. n \in Int /\ ((n + 4096) % 8192) - 4096 = n
    BY <1>4, Signed13
<1>6. ImmB(w) = ((n + 4096) % 8192) - 4096
    BY <1>3, <1>4, <1>5, FieldB, SMT
<1>7. ImmB(w) = n
    BY <1>5, <1>6, SMT
<1>8. i.m = BranchName[w.f3 + 1]
    BY <1>2 DEF Branches, Funct3, BranchName
<1> QED
    BY <1>2, <1>7, <1>8 DEF ReadsBranch, w, n

(* The bits of a J format, out of order above rd. *)
LEMMA FieldJ ==
    ASSUME NEW v \in Int, 0 <= v, v < 2097152, v % 2 = 0,
           NEW w, Above(w) = (v \div 2^20) * 2^19 + ((v \div 2) % 1024) * 512
                               + ((v \div 2048) % 2) * 256 + ((v \div 4096) % 256)
    PROVE  UnsignedJ(w) = v
<1> DEFINE a == v \div 1048576
           b == (v \div 2) % 1024
           c == (v \div 2048) % 2
           d == (v \div 4096) % 256
           u == a * 524288 + b * 512 + c * 256 + d
<1>1. 2^19 = 524288 /\ 2^20 = 1048576
    BY SMT
<1>2. Above(w) = u
    BY <1>1, SMT
<1>3. /\ (v \div 2048) * 2048 + b * 2 = v
      /\ (v \div 4096) * 2 + c = v \div 2048
      /\ a * 256 + d = v \div 4096
    BY SMT
<1>4. /\ a \in Int /\ b \in Int /\ c \in Int /\ d \in Int
      /\ 0 <= a /\ a < 2 /\ 0 <= b /\ b < 1024 /\ 0 <= c /\ c < 2 /\ 0 <= d /\ d < 256
    BY SMT
<1>5. v = b * 2 + c * 2048 + d * 4096 + a * 1048576
    BY <1>3, <1>4, SMT
<1> HIDE DEF a, b, c, d
<1>6. u \in Int /\ u % 256 = d /\ (u \div 256) % 2 = c /\ (u \div 512) % 1024 = b /\ u \div 524288 = a
    BY <1>4, SMT
<1> HIDE DEF u
<1>7. UnsignedJ(w) = ((u \div 512) % 1024) * 2 + ((u \div 256) % 2) * 2048 + (u % 256) * 4096
                        + (u \div 524288) * 1048576
    <2>1. Above(w) \in Int
        BY <1>2, <1>6, SMT
    <2>2. UnsignedJ(w) = ((Above(w) \div 512) % 1024) * 2 + ((Above(w) \div 256) % 2) * 2048
                            + (Above(w) % 256) * 4096 + (Above(w) \div 524288) * 1048576
        BY <1>1, <2>1, SMT DEF UnsignedJ
    <2> QED
        BY <1>2, <2>2, SMT
<1> QED
    BY <1>4, <1>5, <1>6, <1>7, SMT

LEMMA Signed21 ==
    ASSUME NEW n \in SignedNumbers(21)
    PROVE  n \in Int /\ ((n + 1048576) % 2097152) - 1048576 = n
BY SMT DEF SignedNumbers

LEMMA AssemblesJump ==
    ASSUME NEW i, i.m \in {"jal", "jalr"}, Encodable(i)
    PROVE  ReadsJump(Assemble(i), i)
<1> DEFINE w == Assemble(i)
           n == i.imm
<1>1. CASE i.m = "jal"
    <2> DEFINE v == n % 2097152
               t == (v \div 2^20) * 2^19 + ((v \div 2) % 1024) * 512
                        + ((v \div 2048) % 2) * 256 + ((v \div 4096) % 256)
    <2>1. w = JType(i)
        BY <1>1, Formats
    <2>2. w.op = \h6F /\ w.rd = i.rd
        BY <2>1, SMT DEF JType, Upper, Word
    <2>3. 2^21 = 2097152 /\ 2^20 = 1048576 /\ 2^19 = 524288
        BY SMT
    <2>4. w = Upper(\h6F, i.rd, t)
        BY <2>1, <2>3, SMT DEF JType
    <2>5. w.f3 = t % 8 /\ w.rs1 = (t \div 8) % 32 /\ w.rs2 = (t \div 256) % 32 /\ w.f7 = t \div 8192
        BY <2>4, SMT DEF Upper, Word
    <2>6. n \in SignedNumbers(21) /\ n % 2 = 0
        BY <1>1, Zenon DEF Encodable
    <2> HIDE DEF w, n
    <2>7. n \in Int /\ ((n + 1048576) % 2097152) - 1048576 = n
        BY <2>6, Signed21
    <2>8. v \in Int /\ 0 <= v /\ v < 2097152 /\ v % 2 = 0 /\ (v + 1048576) % 2097152 = (n + 1048576) % 2097152
        BY <2>6, <2>7, SMT
    <2> HIDE DEF v
    <2>9. t \in Int
        BY <2>3, <2>8, SMT
    <2>10. Above(w) = t
        <3> HIDE DEF t
        <3> QED
            BY <2>5, <2>9, FieldU, SMT
    <2>11. UnsignedJ(w) = v
        BY <2>8, <2>10, FieldJ, SMT
    <2>12. ImmJ(w) = ((v + 1048576) % 2097152) - 1048576
        <3>1. ImmJ(w) = SignExtend(v, 21)
            BY <2>11, SMT DEF ImmJ
        <3> HIDE DEF t
        <3>2. v \in Int
            BY <2>8, SMT
        <3>3. SignExtend(v, 21) = ((v + 1048576) % 2097152) - 1048576
            BY <3>2, SignExtends, SMT
        <3> QED
            BY <3>1, <3>3, SMT
    <2>13. ImmJ(w) = n
        BY <2>7, <2>8, <2>12, SMT
    <2> QED
        BY <1>1, <2>2, <2>13, SMT DEF ReadsJump, w, n
<1>2. CASE i.m = "jalr"
    <2>1. w = IType(i, \h67, 0, n)
        BY <1>2, Formats
    <2>2. /\ w.op = \h67 /\ w.f3 = 0 /\ w.rd = i.rd /\ w.rs1 = i.rs1
          /\ w.rs2 = n % 32 /\ w.f7 = (n % 4096) \div 32
        BY <2>1, SMT DEF IType, Word
    <2>3. n \in SignedNumbers(12)
        BY <1>2, Zenon DEF Encodable
    <2> HIDE DEF w, n
    <2>4. n \in Int /\ ((n + 2048) % 4096) - 2048 = n
        BY <2>3, Signed12
    <2>5. ImmI(w) = ((n + 2048) % 4096) - 2048
        BY <2>2, <2>4, FieldI, SMT
    <2>6. ImmI(w) = n
        BY <2>4, <2>5, SMT
    <2> QED
        BY <1>2, <2>2, <2>6, SMT DEF ReadsJump, w, n
<1> QED
    BY <1>1, <1>2

LEMMA AssemblerReads ==
    ASSUME NEW i \in Instrs, i.m # "raw"
    PROVE  Reads(Assemble(i), i)
<1>1. Encodable(i) /\ i.m \notin {"mulhsu", "mulhu"} /\ (i.m = "mulh" => i.rs2 = 1)
    BY InstrsAssumption, ProductsAssumption
<1>2. \/ i.m \in RegisterOps \ {"mulhsu", "mulhu"} \/ i.m \in DOMAIN ImmediateOp
      \/ i.m \in Branches \/ i.m \in Loads \union Stores \union Atomics
      \/ i.m \in {"lui", "auipc"} \/ i.m \in {"jal", "jalr"}
    <2>1. i.m \in RegisterOps \union DOMAIN ImmediateOp \union Branches \union Loads \union Stores
                    \union Atomics \union {"lui", "auipc", "jal", "jalr", "raw"}
        BY <1>1, Zenon DEF Encodable
    <2> QED
        BY <1>1, <2>1
<1>3. CASE i.m \in RegisterOps \ {"mulhsu", "mulhu"}
    BY <1>1, <1>3, AssemblesRegister DEF Reads
<1>4. CASE i.m \in DOMAIN ImmediateOp
    BY <1>1, <1>4, AssemblesImmediate DEF Reads
<1>5. CASE i.m \in Branches
    BY <1>1, <1>5, AssemblesBranch DEF Reads
<1>6. CASE i.m \in Loads \union Stores \union Atomics
    BY <1>1, <1>6, AssemblesAccess DEF Reads
<1>7. CASE i.m \in {"lui", "auipc"}
    BY <1>1, <1>7, AssemblesUpper DEF Reads
<1>8. CASE i.m \in {"jal", "jalr"}
    BY <1>1, <1>8, AssemblesJump DEF Reads
<1> QED
    BY <1>2, <1>3, <1>4, <1>5, <1>6, <1>7, <1>8

----------------------------------------------------------------------------
(* The refinement: an instruction that step executes has the effect that the   *)
(* instruction set gives it, and one that step dies of is a stutter.         *)
LEMMA StepImplements ==
    ASSUME RegistersFit, [Next]_vars
    PROVE  [InstructionSet!Next]_<<regs, pc, access, last>>
<1>1. CASE UNCHANGED vars
    BY <1>1 DEF vars
<1>2. ASSUME NEW i \in Instrs, Step(i)
      PROVE  [InstructionSet!Next]_<<regs, pc, access, last>>
    <2>1. CASE UNCHANGED <<regs, pc, access, last>>
        BY <2>1
    <2>2. CASE last' = i /\ Effect(Assemble(i))
        <3>1. WellFormedWord(Assemble(i))
            BY InstrsAssumption
        <3>2. ASSUME i.m = "raw" PROVE regs'[0] = 0
            BY <2>2, <3>1, EffectFits DEF RegistersFit
        <3>3. ASSUME i.m # "raw" PROVE InstructionSet!Execute(i)
            BY <2>2, <3>1, <3>3, AssemblerReads, ReadsExecutes
        <3>4. last' = i /\ IF i.m = "raw" THEN regs'[0] = 0 ELSE InstructionSet!Execute(i)
            BY <2>2, <3>2, <3>3
        <3> QED
            BY <3>4, Zenon DEF InstructionSet!Next
    <2> QED
        BY <1>2, <2>1, <2>2, StepCases
<1> QED
    BY <1>1, <1>2 DEF Next

(* Step executes every instruction that the assembler encodes as the           *)
(* instruction set says.                                                    *)
THEOREM InstructionSetImplemented == Spec => ImplementsIsa
<1>1. Init => InstructionSet!Init
    BY DEF Init, InstructionSet!Init
<1>2. RegistersFit /\ [Next]_vars => [InstructionSet!Next]_<<regs, pc, access, last>>
    BY StepImplements
<1> QED
    BY <1>1, <1>2, RegistersAlwaysFit, PTL DEF Spec, ImplementsIsa, InstructionSet!Spec

----------------------------------------------------------------------------
(* The two disassemblers read a word as step does, but for their mistakes. *)

LEMMA ShownFields ==
    ASSUME NEW m, NEW w, NEW n
    PROVE  /\ Shown(m, w, n).m = m /\ Shown(m, w, n).imm = n
           /\ Shown(m, w, n).rd = w.rd /\ Shown(m, w, n).rs1 = w.rs1 /\ Shown(m, w, n).rs2 = w.rs2
           /\ ShownOr(m, w, n).m # "unknown" => ShownOr(m, w, n) = Shown(m, w, n) /\ m # "unknown"
BY DEF Shown, ShownOr, NotShown

(* The names of the tables. *)
LEMMA TableNames ==
    ASSUME NEW w, WellFormedWord(w)
    PROVE  /\ LoadOp[w.f3 + 1] # "unknown" => LoadOp[w.f3 + 1] \in Loads
           /\ BranchName[w.f3 + 1] # "unknown" => BranchName[w.f3 + 1] \in Branches
<1>1. w.f3 \in {0, 1, 2, 3, 4, 5, 6, 7}
    BY DEF WellFormedWord
<1> QED
    BY <1>1 DEF LoadOp, BranchName, Loads, Branches

(* To choose among the cases of a table Zenon must be told which numbers differ. *)
LEMMA Different ==
    /\ 0 # 1 /\ 0 # 2 /\ 0 # 3 /\ 0 # 4 /\ 0 # 5 /\ 0 # 6 /\ 0 # 7
    /\ 1 # 2 /\ 1 # 3 /\ 1 # 4 /\ 1 # 5 /\ 1 # 6 /\ 1 # 7
    /\ 2 # 3 /\ 2 # 4 /\ 2 # 5 /\ 2 # 6 /\ 2 # 7
    /\ 3 # 4 /\ 3 # 5 /\ 3 # 6 /\ 3 # 7
    /\ 4 # 5 /\ 4 # 6 /\ 4 # 7
    /\ 5 # 6 /\ 5 # 7
    /\ 6 # 7
    /\ 0 # 32 /\ 0 # 33 /\ 0 # 37 /\ 1 # 32 /\ 1 # 33 /\ 1 # 37 /\ 5 # 32 /\ 5 # 33 /\ 5 # 37
    /\ 32 # 33 /\ 32 # 37 /\ 33 # 37
OBVIOUS

LEMMA ImmediateNames ==
    ASSUME NEW w, WellFormedWord(w), ImmediateName(w) # "unknown"
    PROVE  LET m == ImmediateName(w)
           IN  /\ m \in DOMAIN ImmediateOp /\ w.f3 = Funct3[m]
               /\ m = "srli" => w.f7 = 0
               /\ m = "srai" => w.f7 = 32
               /\ w.f3 \in {1, 5} <=> m \in Shifts
<1>1. w.f3 \in {0, 1, 2, 3, 4, 5, 6, 7}
    BY DEF WellFormedWord
<1>2. /\ w.f3 = 0 => ImmediateName(w) = "addi"
      /\ w.f3 = 1 => ImmediateName(w) = "slli"
      /\ w.f3 = 2 => ImmediateName(w) = "slti"
      /\ w.f3 = 3 => ImmediateName(w) = "sltiu"
      /\ w.f3 = 4 => ImmediateName(w) = "xori"
      /\ w.f3 = 6 => ImmediateName(w) = "ori"
      /\ w.f3 = 7 => ImmediateName(w) = "andi"
    BY Different, Zenon DEF ImmediateName
<1>3. /\ w.f3 = 5 /\ w.f7 = 0 => ImmediateName(w) = "srli"
      /\ w.f3 = 5 /\ w.f7 = 32 => ImmediateName(w) = "srai"
      /\ w.f3 = 5 => w.f7 = 0 \/ w.f7 = 32
    BY Different, Zenon DEF ImmediateName
<1> QED
    BY <1>1, <1>2, <1>3 DEF ImmediateOp, Funct3, Shifts

LEMMA TracedNames ==
    ASSUME NEW w, WellFormedWord(w), w.op = \h33, TracedName(w) # "unknown", ~TraceMistakes(w)
    PROVE  Operates(w, TracedName(w))
<1>1. w.f3 \in {0, 1, 2, 3, 4, 5, 6, 7} /\ w.rs2 \in 0 .. 31
    BY DEF WellFormedWord
<1>2. (w.f3 \in {4, 6, 7} => w.f7 = 0) /\ (w.f3 = 5 => w.f7 # 1 /\ w.f7 # 5)
    BY DEF TraceMistakes
<1>3. /\ w.f3 = 2 => TracedName(w) = "slt"
      /\ w.f3 = 3 => TracedName(w) = "sltu"
      /\ w.f3 = 4 => TracedName(w) = "xor"
      /\ w.f3 = 6 => TracedName(w) = "or"
      /\ w.f3 = 7 => TracedName(w) = "and"
    BY Different, ZenonT(60) DEF TracedName
<1>4. CASE w.f3 = 0
    <2>1. TracedName(w) = CASE w.f7 = 0 -> "add" [] w.f7 = 32 -> "sub" [] w.f7 = 1 -> "mul"
                            [] OTHER -> "unknown"
        BY <1>4, Different, Zenon DEF TracedName
    <2>2. <<TracedName(w), w.f7>> \in {<<"add", 0>>, <<"sub", 32>>, <<"mul", 1>>}
        BY <2>1, Zenon
    <2> QED
        BY <1>4, <2>2 DEF Operates, RegisterOps, OpCodes
<1>5. CASE w.f3 = 1
    <2>1. TracedName(w) = CASE w.f7 = 1 /\ w.rs2 = 1 -> "mulh" [] w.f7 = 1 /\ w.rs2 = 2 -> "mulhsu"
                            [] w.f7 = 1 /\ w.rs2 = 3 -> "mulhu" [] OTHER -> "sll"
        BY <1>5, Different, Zenon DEF TracedName
    <2>2. \/ w.f7 = 1 /\ <<TracedName(w), w.rs2>> \in {<<"mulh", 1>>, <<"mulhsu", 2>>, <<"mulhu", 3>>}
          \/ /\ TracedName(w) = "sll"
             /\ ~(w.f7 = 1 /\ w.rs2 = 1) /\ ~(w.f7 = 1 /\ w.rs2 = 2) /\ ~(w.f7 = 1 /\ w.rs2 = 3)
        BY <2>1, Zenon
    <2>3. w.rs2 \in 1 .. 3 => w.rs2 = 1 \/ w.rs2 = 2 \/ w.rs2 = 3
        OBVIOUS
    <2> QED
        BY <1>5, <2>2, <2>3, Zenon DEF Operates
<1>6. CASE w.f3 = 5
    <2>1. TracedName(w) = CASE w.f7 = 0 -> "srl" [] w.f7 = 32 -> "sra" [] w.f7 = 1 -> "div"
                            [] w.f7 = 5 -> "divu" [] w.f7 = \h21 -> "rem"
                            [] w.f7 = \h25 -> "remu" [] OTHER -> "unknown"
        BY <1>6, Different, Zenon DEF TracedName
    <2>2. <<TracedName(w), w.f7>> \in {<<"srl", 0>>, <<"sra", 32>>, <<"rem", \h21>>, <<"remu", \h25>>}
        BY <1>2, <1>6, <2>1, Zenon
    <2> QED
        BY <1>6, <2>2 DEF Operates, RegisterOps, OpCodes
<1> QED
    BY <1>1, <1>2, <1>3, <1>4, <1>5, <1>6 DEF Operates, RegisterOps, OpCodes

(* The form of the text, by the opcode of the word. *)
LEMMA OpsDiffer ==
    /\ \h03 # \h13 /\ \h03 # \h17 /\ \h03 # \h23 /\ \h03 # \h2F /\ \h03 # \h33 /\ \h03 # \h37
    /\ \h03 # \h63 /\ \h03 # \h67 /\ \h03 # \h6F
    /\ \h13 # \h17 /\ \h13 # \h23 /\ \h13 # \h2F /\ \h13 # \h33 /\ \h13 # \h37 /\ \h13 # \h63
    /\ \h13 # \h67 /\ \h13 # \h6F
    /\ \h17 # \h23 /\ \h17 # \h2F /\ \h17 # \h33 /\ \h17 # \h37 /\ \h17 # \h63 /\ \h17 # \h67
    /\ \h17 # \h6F
    /\ \h23 # \h2F /\ \h23 # \h33 /\ \h23 # \h37 /\ \h23 # \h63 /\ \h23 # \h67 /\ \h23 # \h6F
    /\ \h2F # \h33 /\ \h2F # \h37 /\ \h2F # \h63 /\ \h2F # \h67 /\ \h2F # \h6F
    /\ \h33 # \h37 /\ \h33 # \h63 /\ \h33 # \h67 /\ \h33 # \h6F
    /\ \h37 # \h63 /\ \h37 # \h67 /\ \h37 # \h6F
    /\ \h63 # \h67 /\ \h63 # \h6F /\ \h67 # \h6F
OBVIOUS

LEMMA TracedForms ==
    ASSUME NEW w
    PROVE  /\ w.op = \h13 => Traced(w) = ShownOr(ImmediateName(w), w, IF w.f3 \in {1, 5} THEN ImmI(w) % 32 ELSE ImmI(w))
           /\ w.op = \h2F /\ w.f3 = 2 => Traced(w) = Shown(AtomicOp(w), w, 0)
           /\ w.op = \h33 => Traced(w) = ShownOr(TracedName(w), w, 0)
           /\ w.op = \h37 => Traced(w) = Shown("lui", w, ImmU(w))
           /\ w.op = \h17 => Traced(w) = Shown("auipc", w, ImmU(w))
           /\ w.op = \h6F => Traced(w) = Shown("jal", w, ImmJ(w))
           /\ w.op = \h67 /\ w.f3 = 0 => Traced(w) = Shown("jalr", w, ImmI(w))
           /\ w.op = \h63 => Traced(w) = ShownOr(BranchName[w.f3 + 1], w, ImmB(w))
           /\ w.op = \h03 => Traced(w) = ShownOr(LoadOp[w.f3 + 1], w, ImmI(w))
           /\ w.op = \h23 /\ w.f3 < 3 => Traced(w) = Shown(StoreOp[w.f3 + 1], w, ImmS(w))
<1>1. w.op = \h13 => Traced(w) = ShownOr(ImmediateName(w), w, IF w.f3 \in {1, 5} THEN ImmI(w) % 32 ELSE ImmI(w))
    BY OpsDiffer, ZenonT(60) DEF Traced
<1>2. w.op = \h2F /\ w.f3 = 2 => Traced(w) = Shown(AtomicOp(w), w, 0)
    BY OpsDiffer, ZenonT(60) DEF Traced
<1>3. w.op = \h33 => Traced(w) = ShownOr(TracedName(w), w, 0)
    BY OpsDiffer, ZenonT(60) DEF Traced
<1>4. w.op = \h37 => Traced(w) = Shown("lui", w, ImmU(w))
    BY OpsDiffer, ZenonT(60) DEF Traced
<1>5. w.op = \h17 => Traced(w) = Shown("auipc", w, ImmU(w))
    BY OpsDiffer, ZenonT(60) DEF Traced
<1>6. w.op = \h6F => Traced(w) = Shown("jal", w, ImmJ(w))
    BY OpsDiffer, ZenonT(60) DEF Traced
<1>7. w.op = \h67 /\ w.f3 = 0 => Traced(w) = Shown("jalr", w, ImmI(w))
    BY OpsDiffer, ZenonT(60) DEF Traced
<1>8. w.op = \h63 => Traced(w) = ShownOr(BranchName[w.f3 + 1], w, ImmB(w))
    BY OpsDiffer, ZenonT(60) DEF Traced
<1>9. w.op = \h03 => Traced(w) = ShownOr(LoadOp[w.f3 + 1], w, ImmI(w))
    BY OpsDiffer, ZenonT(60) DEF Traced
<1>10. w.op = \h23 /\ w.f3 < 3 => Traced(w) = Shown(StoreOp[w.f3 + 1], w, ImmS(w))
    BY OpsDiffer, ZenonT(60) DEF Traced
<1> QED
    BY <1>1, <1>2, <1>3, <1>4, <1>5, <1>6, <1>7, <1>8, <1>9, <1>10

(* The words that have a text. *)
Texted(w) ==
    \/ w.op \in {\h13, \h33, \h37, \h17, \h6F, \h63, \h03}
    \/ w.op = \h2F /\ w.f3 = 2
    \/ w.op = \h67 /\ w.f3 = 0
    \/ w.op = \h23 /\ w.f3 < 3

LEMMA OnlyTextedShown ==
    ASSUME NEW w, NEW at
    PROVE  /\ Traced(w).m # "unknown" => Texted(w)
           /\ Disassembled(w, at).m # "unknown" => Texted(w)
<1> SUFFICES ASSUME ~Texted(w)
             PROVE  Traced(w).m = "unknown" /\ Disassembled(w, at).m = "unknown"
    OBVIOUS
<1>1. /\ w.op # \h13 /\ w.op # \h33 /\ w.op # \h37 /\ w.op # \h17 /\ w.op # \h6F /\ w.op # \h63
      /\ w.op # \h03 /\ ~(w.op = \h2F /\ w.f3 = 2) /\ ~(w.op = \h67 /\ w.f3 = 0)
      /\ ~(w.op = \h23 /\ w.f3 < 3)
    BY DEF Texted
<1>2. Traced(w) = NotShown
    BY <1>1, Zenon DEF Traced
<1>3. Disassembled(w, at) = NotShown
    BY <1>1, Zenon DEF Disassembled
<1> QED
    BY <1>2, <1>3 DEF NotShown

LEMMA ImmediateIsNumber ==
    ASSUME NEW w, WellFormedWord(w)
    PROVE  ImmI(w) \in Int
<1> DEFINE n == ImmI(w)
<1>1. n \in -2048 .. 2047
    BY ImmediatesFit
<1> HIDE DEF n
<1>2. n \in Int
    BY <1>1
<1> QED
    BY <1>2 DEF n

(* The trace. *)
LEMMA TraceReads ==
    ASSUME NEW w, WellFormedWord(w), Traced(w).m # "unknown", ~TraceMistakes(w)
    PROVE  Reads(w, Traced(w))
<1>1. CASE w.op = \h13
    <2> DEFINE m == ImmediateName(w)
               n == IF w.f3 \in {1, 5} THEN ImmI(w) % 32 ELSE ImmI(w)
    <2>1. Traced(w) = ShownOr(m, w, n)
        BY <1>1, TracedForms
    <2>2. Traced(w) = Shown(m, w, n) /\ m # "unknown"
        BY <2>1, ShownFields
    <2>3. /\ m \in DOMAIN ImmediateOp /\ w.f3 = Funct3[m]
          /\ m = "srli" => w.f7 = 0
          /\ m = "srai" => w.f7 = 32
          /\ w.f3 \in {1, 5} <=> m \in Shifts
        BY <2>2, ImmediateNames
    <2> HIDE DEF m
    <2>4. /\ n \in Int
          /\ IF m \in Shifts THEN n % XLen = ImmI(w) % XLen ELSE n = ImmI(w)
        <3> DEFINE a == ImmI(w)
        <3>1. a \in Int
            BY ImmediateIsNumber
        <3> HIDE DEF a
        <3>2. (a % 32) % 16 = a % 16 /\ (a % 32) % 32 = a % 32 /\ a % 32 \in Int
            BY <3>1, SMT
        <3>3. (a % 32) % XLen = a % XLen
            BY <3>2, WidthAssumption
        <3> QED
            BY <2>3, <3>1, <3>2, <3>3, Zenon DEF a
    <2> HIDE DEF n
    <2>5. /\ Traced(w).m = m /\ Traced(w).imm = n /\ Traced(w).rd = w.rd /\ Traced(w).rs1 = w.rs1
        BY <2>2, ShownFields
    <2> QED
        BY <1>1, <2>3, <2>4, <2>5, Zenon DEF Reads, ReadsImmediate
<1>2. CASE w.op = \h33
    <2>1. Traced(w) = Shown(TracedName(w), w, 0) /\ TracedName(w) # "unknown"
        BY <1>2, TracedForms, ShownFields
    <2>2. Operates(w, TracedName(w))
        BY <1>2, <2>1, TracedNames
    <2> QED
        BY <1>2, <2>1, <2>2, ShownFields DEF Reads, ReadsRegister
<1>3. CASE w.op \in {\h37, \h17}
    <2>1. \/ w.op = \h37 /\ Traced(w) = Shown("lui", w, ImmU(w))
          \/ w.op = \h17 /\ Traced(w) = Shown("auipc", w, ImmU(w))
        BY <1>3, TracedForms
    <2> QED
        BY <2>1, ShownFields DEF Reads, ReadsUpper
<1>4. CASE w.op = \h6F \/ (w.op = \h67 /\ w.f3 = 0)
    <2>1. \/ w.op = \h6F /\ Traced(w) = Shown("jal", w, ImmJ(w))
          \/ w.op = \h67 /\ w.f3 = 0 /\ Traced(w) = Shown("jalr", w, ImmI(w))
        BY <1>4, TracedForms
    <2> QED
        BY <2>1, ShownFields DEF Reads, ReadsJump
<1>5. CASE w.op = \h63
    <2>1. Traced(w) = Shown(BranchName[w.f3 + 1], w, ImmB(w)) /\ BranchName[w.f3 + 1] # "unknown"
        BY <1>5, TracedForms, ShownFields
    <2>2. BranchName[w.f3 + 1] \in Branches
        BY <2>1, TableNames
    <2> QED
        BY <1>5, <2>1, <2>2, ShownFields DEF Reads, ReadsBranch
<1>6. CASE w.op = \h03
    <2>1. Traced(w) = Shown(LoadOp[w.f3 + 1], w, ImmI(w)) /\ LoadOp[w.f3 + 1] # "unknown"
        BY <1>6, TracedForms, ShownFields
    <2>2. LoadOp[w.f3 + 1] \in Loads
        BY <2>1, TableNames
    <2> QED
        BY <1>6, <2>1, <2>2, ShownFields DEF Reads, ReadsAccess
<1>7. CASE w.op = \h23 /\ w.f3 < 3
    <2>1. Traced(w) = Shown(StoreOp[w.f3 + 1], w, ImmS(w))
        BY <1>7, TracedForms
    <2> QED
        BY <1>7, <2>1, ShownFields DEF Reads, ReadsAccess
<1>8. CASE w.op = \h2F /\ w.f3 = 2
    <2>1. Traced(w) = Shown(AtomicOp(w), w, 0)
        BY <1>8, TracedForms
    <2> QED
        BY <1>8, <2>1, ShownFields DEF Reads, ReadsAccess
<1> QED
    BY <1>1, <1>2, <1>3, <1>4, <1>5, <1>6, <1>7, <1>8, OnlyTextedShown DEF Texted

(* A line of the trace says what step then does, for every word that it shows *)
(* but those it takes for others.                                           *)
THEOREM TraceTellsHolds == Spec => TraceTells
<1>1. RegistersFit /\ [Next]_vars => [TracedAsDone]_vars
    <2> SUFFICES ASSUME RegistersFit, NEW i \in Instrs, Step(i), alive' PROVE TracedAsDone
        BY DEF Next, TracedAsDone
    <2>1. last' = i /\ Effect(Assemble(i)) /\ WellFormedWord(Assemble(i))
        BY StepCases, InstrsAssumption
    <2> QED
        BY <2>1, TraceReads, ReadsExecutes, Zenon DEF TracedAsDone
<1> QED
    BY <1>1, RegistersAlwaysFit, PTL DEF Spec, TraceTells

(* The debugger.  Its immediates have no sign, which is as well for those whose *)
(* highest bit is clear.                                                     *)
LEMMA UnsignedImmediates ==
    ASSUME NEW w, WellFormedWord(w), w.f7 < 64
    PROVE  UnsignedI(w) = ImmI(w) /\ UnsignedS(w) = ImmS(w) /\ ShownImmB(w) = ImmB(w)
<1> DEFINE f == w.f7
           d == w.rd
           r == w.rs2
<1>1. /\ f \in Int /\ 0 <= f /\ f < 64 /\ d \in Int /\ 0 <= d /\ d < 32
      /\ r \in Int /\ 0 <= r /\ r < 32
    BY DEF WellFormedWord
<1> DEFINE u == f * 32 + r
           v == f * 32 + d
           b == (d \div 2) * 2 + (f % 64) * 32 + (d % 2) * 2048 + (f \div 64) * 4096
<1>2. /\ UnsignedI(w) = u /\ ImmI(w) = SignExtend(u, 12)
      /\ UnsignedS(w) = v /\ ImmS(w) = SignExtend(v, 12)
    BY DEF UnsignedI, UnsignedS, ImmI, ImmS
<1>3. ImmB(w) = SignExtend(b, 13)
    BY DEF ImmB
<1>4. ShownImmB(w) = 2 * ((d \div 2) + (f % 64) * 16 + (d % 2) * 1024 + (f \div 64) * 2048)
    BY SMT DEF ShownImmB
<1> HIDE DEF f, d, r
<1>5. /\ u \in Int /\ 0 <= u /\ u < 2048 /\ v \in Int /\ 0 <= v /\ v < 2048
    BY <1>1, SMT
<1>6. f % 64 = f /\ f \div 64 = 0 /\ d \div 2 \in Int /\ 0 <= d \div 2 /\ d \div 2 < 16
      /\ d % 2 \in Int /\ 0 <= d % 2 /\ d % 2 < 2
    BY <1>1, SMT
<1>7. b = (d \div 2) * 2 + f * 32 + (d % 2) * 2048
    BY <1>1, <1>6, SMT
<1>8. b \in Int /\ 0 <= b /\ b < 4096
    BY <1>1, <1>6, <1>7, SMT
<1>9. ShownImmB(w) = b
    BY <1>1, <1>4, <1>6, <1>7, SMT
<1> HIDE DEF u, v, b
<1>10. SignExtend(u, 12) = u /\ SignExtend(v, 12) = v
    <2>1. SignExtend(u, 12) = ((u + 2048) % 4096) - 2048 /\ SignExtend(v, 12) = ((v + 2048) % 4096) - 2048
        BY <1>5, SignExtends, SMT
    <2>2. (u + 2048) % 4096 = u + 2048 /\ (v + 2048) % 4096 = v + 2048
        BY <1>5, SMT
    <2> QED
        BY <1>5, <2>1, <2>2, SMT
<1>11. SignExtend(b, 13) = b
    <2>1. SignExtend(b, 13) = ((b + 4096) % 8192) - 4096
        BY <1>8, SignExtends, SMT
    <2>2. (b + 4096) % 8192 = b + 4096
        BY <1>8, SMT
    <2> QED
        BY <1>8, <2>1, <2>2, SMT
<1> QED
    BY <1>2, <1>3, <1>9, <1>10, <1>11

LEMMA DisassembledForms ==
    ASSUME NEW w, NEW at
    PROVE  /\ w.op = \h13 => Disassembled(w, at) = ShownOr(ImmediateName(w), w, UnsignedI(w))
           /\ w.op = \h33 => Disassembled(w, at) = ShownOr(RegisterName(w), w, 0)
           /\ w.op = \h17 => Disassembled(w, at) = Shown("auipc", w, ImmU(w))
           /\ w.op = \h6F => Disassembled(w, at) = Shown("jal", w, ImmJ(w))
           /\ w.op = \h67 /\ w.f3 = 0 => Disassembled(w, at) = Shown("jalr", w, UnsignedI(w))
           /\ w.op = \h63 => Disassembled(w, at) = ShownOr(BranchName[w.f3 + 1], w, ShownImmB(w))
           /\ w.op = \h03 => Disassembled(w, at) = ShownOr(LoadOp[w.f3 + 1], w, UnsignedI(w))
           /\ w.op = \h23 /\ w.f3 < 3 => Disassembled(w, at) = Shown(StoreOp[w.f3 + 1], w, UnsignedS(w))
<1>1. w.op = \h13 => Disassembled(w, at) = ShownOr(ImmediateName(w), w, UnsignedI(w))
    BY OpsDiffer, ZenonT(60) DEF Disassembled
<1>2. w.op = \h33 => Disassembled(w, at) = ShownOr(RegisterName(w), w, 0)
    BY OpsDiffer, ZenonT(60) DEF Disassembled
<1>3. w.op = \h17 => Disassembled(w, at) = Shown("auipc", w, ImmU(w))
    BY OpsDiffer, ZenonT(60) DEF Disassembled
<1>4. w.op = \h6F => Disassembled(w, at) = Shown("jal", w, ImmJ(w))
    BY OpsDiffer, ZenonT(60) DEF Disassembled
<1>5. w.op = \h67 /\ w.f3 = 0 => Disassembled(w, at) = Shown("jalr", w, UnsignedI(w))
    BY OpsDiffer, ZenonT(60) DEF Disassembled
<1>6. w.op = \h63 => Disassembled(w, at) = ShownOr(BranchName[w.f3 + 1], w, ShownImmB(w))
    BY OpsDiffer, ZenonT(60) DEF Disassembled
<1>7. w.op = \h03 => Disassembled(w, at) = ShownOr(LoadOp[w.f3 + 1], w, UnsignedI(w))
    BY OpsDiffer, ZenonT(60) DEF Disassembled
<1>8. w.op = \h23 /\ w.f3 < 3 => Disassembled(w, at) = Shown(StoreOp[w.f3 + 1], w, UnsignedS(w))
    BY OpsDiffer, ZenonT(60) DEF Disassembled
<1> QED
    BY <1>1, <1>2, <1>3, <1>4, <1>5, <1>6, <1>7, <1>8

LEMMA RegisterNames ==
    ASSUME NEW w, w.op = \h33, ~HighProduct(w), RegisterName(w) # "unknown"
    PROVE  Operates(w, RegisterName(w))
<1> DEFINE named == {m \in DOMAIN OpCodes : OpCodes[m] = <<w.f3, w.f7>>}
           n == RegisterName(w)
<1>1. n \in named
    <2>1. n = IF named = {} THEN "unknown" ELSE CHOOSE m \in named : TRUE
        BY DEF RegisterName
    <2> HIDE DEF named, n
    <2>2. named # {} /\ n = CHOOSE m \in named : TRUE
        BY <2>1 DEF n
    <2> QED
        BY <2>2
<1>2. OpCodes[n] = <<w.f3, w.f7>>
    BY <1>1
<1>3. n \in RegisterOps
    BY <1>1 DEF OpCodes, RegisterOps
<1> HIDE DEF n
<1>4. w.f3 = OpCodes[n][1] /\ w.f7 = OpCodes[n][2]
    BY <1>2
<1>5. n \notin {"mulh", "mulhsu", "mulhu"}
    BY <1>4 DEF HighProduct, OpCodes
<1> QED
    BY <1>3, <1>4, <1>5 DEF Operates, n

LEMMA DisassemblyReads ==
    ASSUME NEW w, NEW at, WellFormedWord(w), Disassembled(w, at).m # "unknown",
           ~DisassemblyMistakes(w)
    PROVE  Reads(w, Disassembled(w, at))
<1> DEFINE d == Disassembled(w, at)
<1>1. w.f7 < 64 \/ w.op \notin {\h03, \h13, \h23, \h63, \h67}
    BY DEF DisassemblyMistakes, WellFormedWord
<1>2. w.op \notin {\h2F, \h37} /\ ~HighProduct(w)
    BY DEF DisassemblyMistakes
<1>3. CASE w.op = \h13
    <2> DEFINE m == ImmediateName(w)
    <2>1. d = ShownOr(m, w, ImmI(w))
        BY <1>1, <1>3, DisassembledForms, UnsignedImmediates
    <2>2. d = Shown(m, w, ImmI(w)) /\ m # "unknown"
        BY <2>1, ShownFields
    <2>3. /\ m \in DOMAIN ImmediateOp /\ w.f3 = Funct3[m]
          /\ m = "srli" => w.f7 = 0
          /\ m = "srai" => w.f7 = 32
        BY <2>2, ImmediateNames
    <2> HIDE DEF m
    <2>4. d.m = m /\ d.imm = ImmI(w) /\ d.rd = w.rd /\ d.rs1 = w.rs1
        BY <2>2, ShownFields
    <2> QED
        BY <1>3, <2>3, <2>4, ImmediateIsNumber, Zenon DEF Reads, ReadsImmediate
<1>4. CASE w.op = \h33
    <2>1. d = Shown(RegisterName(w), w, 0) /\ RegisterName(w) # "unknown"
        BY <1>4, DisassembledForms, ShownFields
    <2>2. Operates(w, RegisterName(w))
        BY <1>2, <1>4, <2>1, RegisterNames
    <2> QED
        BY <1>4, <2>1, <2>2, ShownFields DEF Reads, ReadsRegister
<1>5. CASE w.op = \h17
    <2>1. d = Shown("auipc", w, ImmU(w))
        BY <1>5, DisassembledForms
    <2> QED
        BY <1>5, <2>1, ShownFields DEF Reads, ReadsUpper
<1>6. CASE w.op = \h6F
    <2>1. d = Shown("jal", w, ImmJ(w))
        BY <1>6, DisassembledForms
    <2> QED
        BY <1>6, <2>1, ShownFields DEF Reads, ReadsJump
<1>7. CASE w.op = \h67 /\ w.f3 = 0
    <2>1. d = Shown("jalr", w, ImmI(w))
        BY <1>1, <1>7, DisassembledForms, UnsignedImmediates
    <2> QED
        BY <1>7, <2>1, ShownFields DEF Reads, ReadsJump
<1>8. CASE w.op = \h63
    <2>1. d = Shown(BranchName[w.f3 + 1], w, ImmB(w)) /\ BranchName[w.f3 + 1] # "unknown"
        BY <1>1, <1>8, DisassembledForms, UnsignedImmediates, ShownFields
    <2>2. BranchName[w.f3 + 1] \in Branches
        BY <2>1, TableNames
    <2> QED
        BY <1>8, <2>1, <2>2, ShownFields DEF Reads, ReadsBranch
<1>9. CASE w.op = \h03
    <2>1. d = Shown(LoadOp[w.f3 + 1], w, ImmI(w)) /\ LoadOp[w.f3 + 1] # "unknown"
        BY <1>1, <1>9, DisassembledForms, UnsignedImmediates, ShownFields
    <2>2. LoadOp[w.f3 + 1] \in Loads
        BY <2>1, TableNames
    <2> QED
        BY <1>9, <2>1, <2>2, ShownFields DEF Reads, ReadsAccess
<1>10. CASE w.op = \h23 /\ w.f3 < 3
    <2>1. d = Shown(StoreOp[w.f3 + 1], w, ImmS(w))
        BY <1>1, <1>10, DisassembledForms, UnsignedImmediates
    <2> QED
        BY <1>10, <2>1, ShownFields DEF Reads, ReadsAccess
<1> QED
    BY <1>2, <1>3, <1>4, <1>5, <1>6, <1>7, <1>8, <1>9, <1>10, OnlyTextedShown DEF Texted

(* What the debugger shows of a word, but for those it gets wrong, is what step *)
(* does with it.                                                             *)
THEOREM DisassemblyTellsHolds == Spec => DisassemblyTells
<1>1. RegistersFit /\ [Next]_vars => [DisassembledAsDone]_vars
    <2> SUFFICES ASSUME RegistersFit, NEW i \in Instrs, Step(i), alive' PROVE DisassembledAsDone
        BY DEF Next, DisassembledAsDone
    <2>1. last' = i /\ Effect(Assemble(i)) /\ WellFormedWord(Assemble(i))
        BY StepCases, InstrsAssumption
    <2> QED
        BY <2>1, DisassemblyReads, ReadsExecutes, Zenon DEF DisassembledAsDone
<1> QED
    BY <1>1, RegistersAlwaysFit, PTL DEF Spec, DisassemblyTells

----------------------------------------------------------------------------
(* The halves of a product, which Isa and Instructions put together from parts  *)
(* that TLC can hold, are those of the product that MUL and MULH* compute.   *)
THEOREM ProductHalves ==
    ASSUME NEW a \in Int, NEW b \in Int
    PROVE  High(a, b) = (a * b) \div Modulus /\ Low(a, b) = (a * b) % Modulus
<1> DEFINE H == Half
<1>1. (H = 256 /\ Modulus = 65536) \/ (H = 65536 /\ Modulus = 4294967296)
    <2>1. 2^8 = 256 /\ 2^16 = 65536 /\ 2^32 = 4294967296
        BY SMT
    <2>2. XLen = 16 => H = 2^8 /\ Modulus = 2^16
        BY SMT DEF Half, Modulus
    <2>3. XLen = 32 => H = 2^16 /\ Modulus = 2^32
        BY SMT DEF Half, Modulus
    <2> QED
        BY <2>1, <2>2, <2>3, WidthAssumption, SMT
<1> HIDE DEF H
<1>2. PICK q \in Int, r \in Int : q = a \div H /\ r = a % H /\ a = H * q + r
    BY <1>1, SMT
<1>3. PICK x \in Int, y \in Int : x = q * b /\ y = r * b
    <2>1. q * b \in Int /\ r * b \in Int
        BY <1>2, SMT
    <2> QED
        BY <2>1, Zenon
<1>4. a * b = H * x + y
    <2>1. CASE H = 256
        BY <1>2, <1>3, <2>1, SMT
    <2>2. CASE H = 65536
        BY <1>2, <1>3, <2>2, SMT
    <2> QED
        BY <1>1, <2>1, <2>2
<1>5. High(a, b) = (x + (y \div H)) \div H /\ Low(a, b) = ((x % H) * H + y) % Modulus
    BY <1>2, <1>3 DEF High, Low, H
<1>6. CASE H = 256 /\ Modulus = 65536
    <2>1. (256 * x + y) \div 65536 = (x + (y \div 256)) \div 256
        BY <1>3, SMT
    <2>2. ((x % 256) * 256 + y) % 65536 = (256 * x + y) % 65536
        BY <1>3, SMT
    <2> QED
        BY <1>4, <1>5, <1>6, <2>1, <2>2, SMT
<1>7. CASE H = 65536 /\ Modulus = 4294967296
    <2>1. (65536 * x + y) \div 4294967296 = (x + (y \div 65536)) \div 65536
        BY <1>3, SMT
    <2>2. ((x % 65536) * 65536 + y) % 4294967296 = (65536 * x + y) % 4294967296
        BY <1>3, SMT
    <2> QED
        BY <1>4, <1>5, <1>7, <2>1, <2>2, SMT
<1> QED
    BY <1>1, <1>6, <1>7

=============================================================================
