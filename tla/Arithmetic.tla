----------------------------- MODULE Arithmetic -----------------------------
(***************************************************************************)
(* The 64-bit division of lib/arithmetic.c, which GCC calls for / and % on *)
(* the 32-bit machine, with words of H bits for the 32 of the code: a long *)
(* is two words.  TLC tries every pair of operands.                        *)
(***************************************************************************)
EXTENDS Integers

CONSTANT H          \* bits of a word, a power of two

B == 2 ^ H          \* 1ULL << 32
Long == B * B       \* one more than the largest unsigned long long

VARIABLES n, d,     \* the operands, as the bits of an unsigned long long
          op,       \* the routine, "none" before the call
          result,   \* what it returned, again as bits
          trapped   \* a divide error was raised

vars == <<n, d, op, result, trapped>>

U64(x) == x % Long
U32(x) == x % B
I64(x) == IF x >= Long \div 2 THEN x - Long ELSE x      \* the bits x, signed

\* The DIVL instruction: the quotient, and whether it traps.
divl(num, den) ==
  IF den = 0 \/ num \div den >= B THEN [trap |-> TRUE, q |-> 0]
  ELSE [trap |-> FALSE, q |-> num \div den]

\* Leading zero bits of a word, halving the stretch that is looked at.
RECURSIVE NlzFrom(_, _, _)
NlzFrom(x, k, count) ==
  IF k = 0 THEN count
  ELSE IF x <= 2 ^ (H - k) - 1 THEN NlzFrom(x * 2 ^ k, k \div 2, count + k)
  ELSE NlzFrom(x, k \div 2, count)
nlz(x) == NlzFrom(x, H \div 2, 0)

\* Changed form, for the mutation runs: the estimate is taken for the quotient.
udiv64_estimate(num, den) ==
  IF den \div B = 0 THEN [trap |-> den = 0, q |-> IF den = 0 THEN 0 ELSE num \div den]
  ELSE IF num < den THEN [trap |-> FALSE, q |-> 0]
  ELSE LET s == nlz(den \div B)
           high == divl(num \div 2, U64(den * 2 ^ s) \div B)
       IN [trap |-> high.trap, q |-> high.q \div 2 ^ (H - 1 - s)]

\* A divisor of one word takes two divisions; for a longer one the quotient
\* is estimated from its high bits and corrected by at most one.  A zero
\* divisor traps in n1 / d0.
udiv64(num, den) ==
  IF den \div B = 0
  THEN IF den = 0 THEN [trap |-> TRUE, q |-> 0]
       ELSE LET n1 == num \div B
                n0 == U32(num)
                low == divl(U64(B * (n1 % den) + n0), den)
            IN [trap |-> low.trap, q |-> U64(low.q + B * (n1 \div den))]
  ELSE IF num < den THEN [trap |-> FALSE, q |-> 0]
  ELSE LET s == nlz(den \div B)
           high == divl(num \div 2, U64(den * 2 ^ s) \div B)
           q == high.q \div 2 ^ (H - 1 - s)
       IN [trap |-> high.trap,
           q |-> IF U64(num - U64((q - 1) * den)) < den THEN U64(q - 1) ELSE q]

\* The remainder is returned as one word.
umod64(num, den) ==
  LET div == udiv64(num, den)
  IN [trap |-> div.trap, q |-> U32(num - den * div.q)]

Abs(x) == IF I64(x) >= 0 THEN x ELSE U64(-x)

sdiv64(num, den) ==
  LET div == udiv64(Abs(num), Abs(den))
  IN [trap |-> div.trap,
      q |-> IF (I64(num) < 0) <=> (I64(den) < 0) THEN div.q ELSE U64(-div.q)]

\* A signed word, extended to a long.
smod64(num, den) ==
  LET div == sdiv64(num, den)
      low == U32(num - den * div.q)
  IN [trap |-> div.trap, q |-> IF low >= B \div 2 THEN U64(low - B) ELSE low]

-----------------------------------------------------------------------------
Init ==
  /\ n \in 0 .. Long - 1 /\ d \in 0 .. Long - 1
  /\ op = "none" /\ result = 0 /\ trapped = FALSE

Call(name, r) ==
  /\ op = "none"
  /\ op' = name
  /\ result' = r.q
  /\ trapped' = r.trap
  /\ UNCHANGED <<n, d>>

__udivdi3 == Call("udiv", udiv64(n, d))
__umoddi3 == Call("umod", umod64(n, d))
__divdi3 == Call("div", sdiv64(n, d))
__moddi3 == Call("mod", smod64(n, d))

Returned == op # "none" /\ UNCHANGED vars

Next == __udivdi3 \/ __umoddi3 \/ __divdi3 \/ __moddi3 \/ Returned

Spec == Init /\ [][Next]_vars

-----------------------------------------------------------------------------
\* The operands and the result are longs.
TypeOK ==
  /\ {n, d, result} \subseteq 0 .. Long - 1
  /\ op \in {"none", "udiv", "umod", "div", "mod"} /\ trapped \in BOOLEAN

\* Division traps for a zero divisor and for nothing else: the argument of
\* the DIVL instruction always has a quotient of one word.
TrapsOnlyOnZero == op # "none" => (trapped <=> d = 0)

Trunc(a, b) == LET q == (IF a < 0 THEN -a ELSE a) \div (IF b < 0 THEN -b ELSE b)
               IN IF (a < 0) <=> (b < 0) THEN q ELSE -q

\* The quotient that could not be represented: the least long by -1.
Overflows == I64(n) = -(Long \div 2) /\ I64(d) = -1

\* The unsigned quotient is the floor of n / d for every pair of operands,
\* the signed one is truncated towards zero.
QuotientExact ==
  /\ op = "udiv" /\ d # 0 => result = n \div d
  /\ op = "div" /\ d # 0 /\ ~Overflows => I64(result) = Trunc(I64(n), I64(d))

\* While the remainder fits in a word, the remainder is exact.
WordRemainderExact ==
  /\ op = "umod" /\ d \in 1 .. B => result = n % d
  /\ op = "mod" /\ I64(d) \in (-(B \div 2)) .. B \div 2 /\ d # 0 =>
       I64(result) = I64(n) - I64(d) * Trunc(I64(n), I64(d))

\* The remainder is what umod64 () and smod64 () say they return.
RemainderExact ==
  /\ op = "umod" /\ d # 0 => result = n % d
  /\ op = "mod" /\ d # 0 /\ ~Overflows =>
       I64(result) = I64(n) - I64(d) * Trunc(I64(n), I64(d))
=============================================================================
