------------------------------ MODULE SoftArith ------------------------------
(***************************************************************************)
(* The arithmetic routines of testcode.c.  The simulated processor is an   *)
(* rv32i, which neither multiplies nor divides, so the compiler calls      *)
(* these for every *, / and %.  A call of __modsi3 runs through __divsi3,  *)
(* __udivsi3 with __clzsi2, and __mulsi3; __udivsi3 may be called directly.*)
(* Words are WordBits wide, a power of two (32 in the code).               *)
(***************************************************************************)
EXTENDS Integers

CONSTANT WordBits  \* bits_in_word_m1 + 1, n_uword_bits

Word == 0 .. (2 ^ WordBits) - 1

ASSUME SoftArithAssumption == WordBits \in {2, 4, 8, 16, 32}

VARIABLES
  at,          \* "idle", the loop that is running, or "returned"
  call,        \* the routine that was called
  a, b,        \* its arguments
  q, r,        \* __udivsi3: quotient and remainder, one shift register r:q
  sr, carry,   \* __udivsi3: iterations left, and the next quotient bit
  factor, addend, sum,  \* __mulsi3: its a, b and r
  result

arithVars == <<at, call, a, b, q, r, sr, carry, factor, addend, sum, result>>

Wrap(v) == v % 2 ^ WordBits
Negative(w) == w >= 2 ^ (WordBits - 1)
Signed(w) == IF Negative(w) THEN w - 2 ^ WordBits ELSE w

\* (w ^ s) - s, where s is 0 or -1.
NegatedIf(s, w) == IF s THEN Wrap(-w) ELSE w

\* What __udivsi3 divides: __divsi3 passes it absolute values.
Dividend == IF call = "__modsi3" THEN NegatedIf(Negative(a), a) ELSE a
Divisor == IF call = "__modsi3" THEN NegatedIf(Negative(b), b) ELSE b

\* The last step of __clzsi2, r + ((2 - x) & -((x & 2) == 0)).
ClzLast(w) == IF w >= 2 THEN 0 ELSE 2 - w

\* The numbers of bits that are to go in turn in __clzsi2.
Halves == {k \in {2, 4, 8, 16, 32} : k <= WordBits}

\* __clzsi2 asks whether the upper half of the bits is 0, counts it if it is and
\* drops the lower half if it is not, and goes on with half as many bits:
\* left[k] is the word <<x, r>> left when k bits are to go.
clzsi2(w) ==
  LET left[k \in Halves] ==
        IF k = WordBits THEN <<w, 0>>
        ELSE LET x == left[2 * k][1]
                 c == left[2 * k][2]
             IN  IF x < 2 ^ k THEN <<x, c + k>> ELSE <<x \div 2 ^ k, c>>
  IN  left[2][2] + ClzLast(left[2][1])

ArithInit ==
  /\ at = "idle" /\ call = "__modsi3"
  /\ a = 0 /\ b = 0 /\ q = 0 /\ r = 0 /\ sr = 0 /\ carry = 0
  /\ factor = 0 /\ addend = 0 /\ sum = 0 /\ result = 0

\* s_a ^ s_b.
QuotientNegative == Negative(a) # Negative(b)

\* __udivsi3 returns v: to its caller, or to __divsi3, which gives it its sign
\* before __modsi3 multiplies it by b.
Quotient(v) ==
  IF call = "__udivsi3"
    THEN at' = "returned" /\ result' = v /\ UNCHANGED <<factor, addend, sum>>
    ELSE /\ at' = "multiply" /\ UNCHANGED result
         /\ factor' = NegatedIf(QuotientNegative, v) /\ addend' = b /\ sum' = 0

Call ==
  /\ at = "idle" /\ at' = "entered"
  /\ call' \in {"__modsi3", "__udivsi3"}
  /\ a' \in Word /\ b' \in Word
  /\ UNCHANGED <<q, r, sr, carry, factor, addend, sum, result>>

\* Mutated form: the special case of a divisor 1 is missing.
NoShortCut == WordBits
\* sr == n_uword_bits - 1.
DivisorIsOne == WordBits - 1

\* __udivsi3 before its loop.
EnterDivision ==
  /\ at = "entered"
  /\ LET n == Dividend
         d == Divisor
         shift == clzsi2(d) - clzsi2(n)
     IN  IF d = 0 \/ n = 0 \/ shift < 0
           THEN Quotient(0) /\ UNCHANGED <<q, r, sr, carry>>
         ELSE IF shift = DivisorIsOne
           THEN Quotient(n) /\ UNCHANGED <<q, r, sr, carry>>
         ELSE /\ at' = "divide"
              /\ sr' = shift + 1 /\ carry' = 0
              /\ q' = Wrap(n * 2 ^ (WordBits - sr')) /\ r' = n \div 2 ^ sr'
              /\ UNCHANGED <<factor, addend, sum, result>>
  /\ UNCHANGED <<call, a, b>>

\* Mutated form: a remainder equal to the divisor is left.
FitsStrictly(rest) == Negative(Wrap(Divisor - rest))
\* s, the sign of d - r - 1.
Fits(rest) == Negative(Wrap(Divisor - rest - 1))

\* One iteration of the loop of __udivsi3.
DivideStep ==
  /\ at = "divide" /\ sr > 0
  /\ LET rest == Wrap(2 * r) + (IF Negative(q) THEN 1 ELSE 0)
     IN  IF Fits(rest) THEN carry' = 1 /\ r' = Wrap(rest - Divisor)
                       ELSE carry' = 0 /\ r' = rest
  /\ q' = Wrap(2 * q) + carry
  /\ sr' = sr - 1
  /\ UNCHANGED <<at, call, a, b, factor, addend, sum, result>>

LeaveDivision ==
  /\ at = "divide" /\ sr = 0
  /\ q' = Wrap(2 * q) + carry
  /\ Quotient(q')
  /\ UNCHANGED <<call, a, b, r, sr, carry>>

Doubled == Wrap(2 * addend)

\* One iteration of the loop of __mulsi3.
MultiplyStep ==
  /\ at = "multiply" /\ factor # 0
  /\ sum' = IF factor % 2 = 1 THEN Wrap(sum + addend) ELSE sum
  /\ factor' = factor \div 2 /\ addend' = Doubled
  /\ UNCHANGED <<at, call, a, b, q, r, sr, carry, result>>

\* __modsi3 subtracts the product.
LeaveMultiplication ==
  /\ at = "multiply" /\ factor = 0
  /\ result' = Wrap(a - sum) /\ at' = "returned"
  /\ UNCHANGED <<call, a, b, q, r, sr, carry, factor, addend, sum>>

\* The locals of the call are gone; the next one finds no trace of it.
Return ==
  /\ at = "returned"
  /\ at' = "idle" /\ call' = "__modsi3"
  /\ a' = 0 /\ b' = 0 /\ q' = 0 /\ r' = 0 /\ sr' = 0 /\ carry' = 0
  /\ factor' = 0 /\ addend' = 0 /\ sum' = 0 /\ result' = 0

ArithNext ==
  \/ Call \/ EnterDivision \/ DivideStep \/ LeaveDivision
  \/ MultiplyStep \/ LeaveMultiplication \/ Return

ArithSpec == ArithInit /\ [][ArithNext]_arithVars

-----------------------------------------------------------------------------
(* Properties.                                                             *)

\* Type invariant: no register ever holds more than a word.
ArithTypeOK ==
  /\ at \in {"idle", "entered", "divide", "multiply", "returned"}
  /\ call \in {"__modsi3", "__udivsi3"}
  /\ {a, b, q, r, factor, addend, sum, result} \subseteq Word
  /\ sr \in 0 .. WordBits - 1 /\ carry \in {0, 1}

\* The remainder of C, which has the sign of the dividend.
Remainder(x, y) ==
  LET m == (IF x < 0 THEN -x ELSE x) % (IF y < 0 THEN -y ELSE y)
  IN  IF x < 0 THEN -m ELSE m

\* Loop invariant of __udivsi3, with sr iterations to go: the shift register
\* still holds the sr low bits of the dividend at the top of q, the quotient
\* of the other bits below them and in carry, and their remainder in r.
LoopInvariant ==
  at = "divide" =>
    LET n == Dividend
        low == q % 2 ^ (WordBits - sr)
    IN  /\ q \div 2 ^ (WordBits - sr) = n % 2 ^ sr
        /\ 2 * low + carry = (n \div 2 ^ sr) \div Divisor
        /\ r = (n \div 2 ^ sr) % Divisor

\* The division is exact at every iteration, although it compares by the
\* sign of d - r - 1, which wraps around; and whatever its operands, the
\* smallest integer and zero among them, a call returns what C says, and for
\* a zero divisor the quotient 0 (the "?!" in __udivsi3).
DivisionExact ==
  /\ LoopInvariant
  /\ at = "returned" =>
       result = IF call = "__udivsi3"
                  THEN IF b = 0 THEN 0 ELSE a \div b
                  ELSE IF b = 0 THEN a ELSE Wrap(Remainder(Signed(a), Signed(b)))
=============================================================================
