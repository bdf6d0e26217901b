---------------------------- MODULE CprintProofs ----------------------------
(***************************************************************************)
(* _itoa writes the numeral of its argument and stays inside its caller's  *)
(* buffer, for every integer width, argument, base and buffer size; and    *)
(* _cprint, which calls it, writes its message with the arguments put in,  *)
(* for all messages and arguments.                                         *)
(*                                                                         *)
(* What the recursive definitions Power, Digits and Expanded compute is    *)
(* proved by induction.  An induction theorem that takes a predicate as an *)
(* operator cannot be instantiated by the provers used here, so the        *)
(* induction is stated for sets of numbers: the set of counterexamples has *)
(* no least element (Least, from WFMin of the library), hence is empty     *)
(* (Induct, StrongInduct).  That a recursive definition has a solution at  *)
(* all is proved once, for definitions whose arguments get smaller         *)
(* (Recursion), and for the expansion of a message from its end on         *)
(* (ExpandedDefined).  The theorems of Spec use ItoaAssumption only.       *)
(***************************************************************************)
EXTENDS Cprint, WellFoundedInduction, TLAPS

(* The buffer *)

\* The length announced by ilog is known to fit before the first byte is
\* written, and bounds the index of every byte after it.
BoundsInv ==
    /\ bufsize \in Nat
    /\ ndigit \in Nat /\ out_size \in Nat /\ offset \in Nat
    /\ buf = [k \in DOMAIN buf |-> buf[k]] /\ DOMAIN buf \subseteq Int
    /\ pc \in {"ilog", "size", "digits", "written", "failed"}
    /\ pc = "size" => out_size = ndigit + PrefixLength(base) + (IF Negative(x) THEN 1 ELSE 0)
    /\ pc = "digits" => out_size < bufsize
    /\ pc \in {"ilog", "size", "failed"} => \A k \in DOMAIN buf : buf[k] = Unset
    /\ \A k \in DOMAIN buf : k >= bufsize => buf[k] = Unset

\* Nothing is written yet.
LEMMA InitBounds == Init => BoundsInv
  BY ItoaAssumption DEF Init, BoundsInv

\* Prefixes have a length.
LEMMA PrefixLengthNat == \A b : PrefixLength(b) \in Nat
  BY DEF PrefixLength

\* The minus sign and the prefix are part of the length that was checked.
LEMMA SignFits ==
  ASSUME BoundsInv, check_size
  PROVE  BoundsInv'
<1>1. CASE TooSmall(bufsize, out_size)
  BY <1>1 DEF BoundsInv, check_size, frame
<1>2. CASE ~TooSmall(bufsize, out_size)
  <2> DEFINE sign == IF Negative(x) THEN 1 ELSE 0
             first == sign + PrefixLength(base)
             head(k) == CASE k < sign -> Minus
                          [] sign <= k /\ k < first -> Prefix(base)[k - sign + 1]
                          [] OTHER -> buf[k]
  <2>1. /\ pc = "size" /\ pc' = "digits"
        /\ offset' = first
        /\ buf' = [k \in DOMAIN buf |-> head(k)]
        /\ UNCHANGED <<base, bufsize, ndigit, out_size>>
    BY <1>2 DEF check_size, frame
  <2>2. first \in Nat /\ sign \in Nat /\ sign <= first
    BY PrefixLengthNat
  <2>3. out_size = ndigit + PrefixLength(base) + sign
    BY <2>1 DEF BoundsInv
  <2>4. first <= out_size /\ out_size < bufsize
    <3>1. out_size < bufsize
      BY <1>2 DEF BoundsInv, TooSmall
    <3>2. ndigit \in Nat /\ PrefixLength(base) \in Nat
      BY PrefixLengthNat DEF BoundsInv
    <3> HIDE DEF sign
    <3> QED BY <2>2, <2>3, <3>1, <3>2
  <2>5. \A k \in DOMAIN buf : k >= bufsize => head(k) = buf[k]
    BY <2>2, <2>4 DEF BoundsInv
  <2>6. DOMAIN buf' = DOMAIN buf /\ \A k \in DOMAIN buf : buf'[k] = head(k)
    BY <2>1
  <2>7. \A k \in DOMAIN buf' : k >= bufsize' => buf'[k] = Unset
    BY <2>1, <2>5, <2>6 DEF BoundsInv
  <2>8. buf' = [k \in DOMAIN buf' |-> buf'[k]]
    BY <2>1
  <2> HIDE DEF first, head
  <2> QED BY <2>1, <2>2, <2>4, <2>6, <2>7, <2>8 DEF BoundsInv
<1> QED BY <1>1, <1>2

\* Every step preserves the invariant.
LEMMA StepBounds == BoundsInv /\ [Next]_vars => BoundsInv'
<1> SUFFICES ASSUME BoundsInv, [Next]_vars PROVE BoundsInv'
  OBVIOUS
<1>1. CASE ilog
  BY <1>1, PrefixLengthNat DEF BoundsInv, ilog, frame, Negative
<1>2. CASE check_size
  BY <1>2, SignFits
<1>3. CASE next_digit
  <2>1. offset < bufsize /\ offset + 1 \in Nat
    BY <1>3 DEF next_digit, BoundsInv
  <2>2. PICK code : buf' = [buf EXCEPT ![offset] = code]
    BY <1>3 DEF next_digit
  <2>3. /\ DOMAIN buf' = DOMAIN buf /\ buf' = [k \in DOMAIN buf' |-> buf'[k]]
        /\ \A k \in DOMAIN buf : k # offset => buf'[k] = buf[k]
    BY <2>2
  <2>4. \A k \in DOMAIN buf' : k >= bufsize => buf'[k] = Unset
    BY <2>1, <2>3 DEF BoundsInv
  <2>5. /\ pc = "digits" /\ offset' = offset + 1
        /\ UNCHANGED <<pc, base, bufsize, ndigit, out_size>>
    BY <1>3 DEF next_digit, frame
  <2> QED BY <2>1, <2>3, <2>4, <2>5 DEF BoundsInv
<1>4. CASE terminate
  <2>1. out_size < bufsize
    BY <1>4 DEF terminate, BoundsInv
  <2>2. /\ DOMAIN buf' = DOMAIN buf /\ buf' = [k \in DOMAIN buf' |-> buf'[k]]
        /\ \A k \in DOMAIN buf : k # out_size => buf'[k] = buf[k]
    BY <1>4 DEF terminate
  <2>3. \A k \in DOMAIN buf' : k >= bufsize => buf'[k] = Unset
    BY <2>1, <2>2 DEF BoundsInv
  <2>4. pc' = "written" /\ UNCHANGED <<base, bufsize, ndigit, out_size, offset>>
    BY <1>4 DEF terminate, frame
  <2> QED BY <2>2, <2>3, <2>4 DEF BoundsInv
<1>5. CASE Returned \/ UNCHANGED vars
  BY <1>5 DEF BoundsInv, Returned, vars, frame
<1> QED BY <1>1, <1>2, <1>3, <1>4, <1>5 DEF Next, Running

\* No byte outside the caller's buffer is ever written, and a call that fails
\* has written none.
THEOREM BufferSafe == Spec => []BufferInBounds
<1>1. BoundsInv => BufferInBounds
  BY DEF BoundsInv, BufferInBounds
<1> QED BY <1>1, InitBounds, StepBounds, PTL DEF Spec

-----------------------------------------------------------------------------
(* Induction and recursion on numbers *)

\* A set of numbers that is not empty has a least element.
LEMMA Least ==
    ASSUME NEW T, T \subseteq Nat, T # {}
    PROVE  \E n \in T : \A m \in T : n <= m
<1> DEFINE R == OpToRel(<, Nat)
<1>1. \A m \in Nat, n \in Nat : <<m, n>> \in R <=> m < n
  BY DEF OpToRel
<1>2. IsWellFoundedOn(R, Nat)
  BY NatLessThanWellFounded
<1> HIDE DEF R
<1>3. PICK n \in T : \A m \in T : ~ (<<m, n>> \in R)
  BY <1>2, WFMin
<1>4. ASSUME NEW m \in T PROVE n <= m
  <2>1. m \in Nat /\ n \in Nat
    OBVIOUS
  <2>2. ~ (m < n)
    BY <1>1, <1>3, <2>1
  <2> QED BY <2>1, <2>2
<1> QED BY <1>4

\* Induction on numbers, for a set instead of a predicate.
LEMMA Induct ==
    ASSUME NEW S, 0 \in S, \A n \in Nat : n \in S => n + 1 \in S
    PROVE  Nat \subseteq S
<1> DEFINE T == Nat \ S
<1>1. SUFFICES ASSUME T # {} PROVE FALSE
  OBVIOUS
<1>2. PICK m \in T : \A k \in T : m <= k
  BY <1>1, Least
<1>3. m # 0 /\ m \in Nat
  BY <1>2
<1>4. m - 1 \in Nat /\ m - 1 < m /\ (m - 1) + 1 = m
  BY <1>3
<1>5. m - 1 \in S
  BY <1>2, <1>4
<1> QED BY <1>2, <1>4, <1>5

\* Complete induction.
LEMMA StrongInduct ==
    ASSUME NEW S, \A n \in Nat : (\A m \in Nat : m < n => m \in S) => n \in S
    PROVE  Nat \subseteq S
<1> DEFINE T == Nat \ S
<1>1. SUFFICES ASSUME T # {} PROVE FALSE
  OBVIOUS
<1>2. PICK n \in T : \A m \in T : n <= m
  BY <1>1, Least
<1>3. n \in Nat
  OBVIOUS
<1>4. ASSUME NEW m \in Nat, m < n PROVE m \in S
  BY <1>2, <1>3, <1>4
<1> QED BY <1>3, <1>4

\* f starts from a value and is continued by the function step.
Iterates(f, S, s0, step) ==
    f \in [Nat -> S] /\ f[0] = s0 /\ \A n \in Nat : f[n + 1] = step[f[n]]

\* A step can be iterated from any value: the finite runs agree with each other,
\* so their last values are one function.
LEMMA Iteration ==
    ASSUME NEW S, NEW s0 \in S, NEW step \in [S -> S]
    PROVE  \E f : Iterates(f, S, s0, step)
<1> DEFINE Run(n, g) == /\ g \in [0 .. n -> S] /\ g[0] = s0
                        /\ \A k \in 0 .. n - 1 : g[k + 1] = step[g[k]]
           Good == {n \in Nat : \E g : Run(n, g)}
<1>1. 0 \in Good
  <2>1. Run(0, [k \in 0 .. 0 |-> s0])
    OBVIOUS
  <2> QED BY <2>1
<1>2. ASSUME NEW n \in Good PROVE n + 1 \in Good
  <2>1. PICK g : Run(n, g)
    OBVIOUS
  <2> DEFINE h == [k \in 0 .. n + 1 |-> IF k <= n THEN g[k] ELSE step[g[n]]]
  <2>2. n \in Nat /\ g \in [0 .. n -> S] /\ g[0] = s0 /\ \A k \in 0 .. n - 1 : g[k + 1] = step[g[k]]
    BY <2>1
  <2>3. \A k \in 0 .. n : g[k] \in S /\ step[g[k]] \in S
    BY <2>2
  <2>4. h \in [0 .. n + 1 -> S]
    BY <2>2, <2>3
  <2>5. h[0] = s0
    BY <2>2
  <2>6. ASSUME NEW k \in 0 .. n PROVE h[k + 1] = step[h[k]]
    <3>1. h[k] = g[k]
      BY <2>2
    <3>2. CASE k < n
      <4>1. h[k + 1] = g[k + 1]
        BY <2>2, <3>2
      <4> QED BY <2>2, <3>1, <3>2, <4>1
    <3>3. CASE k = n
      BY <2>2, <3>1, <3>3
    <3> QED BY <2>2, <3>2, <3>3
  <2>7. n + 1 \in Nat /\ (n + 1) - 1 = n
    BY <2>2
  <2> HIDE DEF h
  <2>8. Run(n + 1, h)
    BY <2>4, <2>5, <2>6, <2>7
  <2> HIDE DEF Run
  <2> QED BY <2>7, <2>8
<1>3. \A n \in Nat : \E g : Run(n, g)
  <2> HIDE DEF Run
  <2>1. \A n \in Nat : n \in Good => n + 1 \in Good
    BY <1>2
  <2> HIDE DEF Good
  <2>2. Nat \subseteq Good
    BY <1>1, <2>1, Induct
  <2> QED BY <2>2 DEF Good
<1>4. ASSUME NEW n \in Nat, NEW m \in Nat, NEW g, NEW h, Run(n, g), Run(m, h)
      PROVE  \A k \in Nat : k <= n /\ k <= m => g[k] = h[k]
  <2> DEFINE Same == {k \in Nat : k <= n /\ k <= m => g[k] = h[k]}
  <2>1. 0 \in Same
    BY <1>4
  <2>2. \A k \in Nat : k \in Same => k + 1 \in Same
    <3>1. SUFFICES ASSUME NEW k \in Nat, k \in Same, k + 1 <= n, k + 1 <= m
                   PROVE  g[k + 1] = h[k + 1]
      OBVIOUS
    <3>2. k \in 0 .. n - 1 /\ k \in 0 .. m - 1
      BY <3>1
    <3>3. g[k + 1] = step[g[k]] /\ h[k + 1] = step[h[k]]
      BY <1>4, <3>2
    <3>4. g[k] = h[k]
      BY <3>1
    <3> QED BY <3>3, <3>4
  <2> HIDE DEF Same
  <2>3. Nat \subseteq Same
    BY <2>1, <2>2, Induct
  <2> QED BY <2>3 DEF Same
<1> DEFINE G(n) == CHOOSE g : Run(n, g)
           f == [n \in Nat |-> G(n)[n]]
<1>5. \A n \in Nat : Run(n, G(n))
  <2> HIDE DEF Run
  <2> QED BY <1>3
<1>6. f[0] = s0
  BY <1>5
<1>7. ASSUME NEW n \in Nat PROVE f[n] \in S
  BY <1>5
<1>8. ASSUME NEW n \in Nat PROVE f[n + 1] = step[f[n]]
  <2> HIDE DEF G
  <2>1. n + 1 \in Nat /\ n \in 0 .. (n + 1) - 1 /\ Run(n, G(n)) /\ Run(n + 1, G(n + 1))
    BY <1>5
  <2>2. G(n + 1)[n + 1] = step[G(n + 1)[n]]
    BY <2>1
  <2>3. n <= n /\ n <= n + 1
    OBVIOUS
  <2>4. G(n)[n] = G(n + 1)[n]
    <3> HIDE DEF Run
    <3> QED BY <1>4, <2>1, <2>3
  <2> QED BY <2>1, <2>2, <2>4
<1>9. f \in [Nat -> S]
  BY <1>7
<1> HIDE DEF f
<1> QED BY <1>6, <1>8, <1>9 DEF Iterates

\* What step makes of a function on D at a depends on the function's values at
\* arguments of smaller measure only.
Descends(step, D, S, measure) ==
    /\ S # {} /\ measure \in [D -> Nat] /\ step \in [[D -> S] -> [D -> S]]
    /\ \A F \in [D -> S], G \in [D -> S], a \in D :
          (\A e \in D : measure[e] < measure[a] => F[e] = G[e]) => step[F][a] = step[G][a]

\* F is a solution of the recursive definition that step stands for.
Fixpoint(F, step, D, S) == F \in [D -> S] /\ F = step[F]

\* A recursive definition that descends has a solution: iterating step from any
\* function settles at every argument after as many rounds as its measure tells.
LEMMA Recursion ==
    ASSUME NEW D, NEW S, NEW measure, NEW step, Descends(step, D, S, measure)
    PROVE  \E F : Fixpoint(F, step, D, S)
<1> USE DEF Descends
<1>0. PICK s \in S : TRUE
  OBVIOUS
<1> measure \in [D -> Nat] /\ step \in [[D -> S] -> [D -> S]]
  OBVIOUS
<1> HIDE DEF Descends
<1> DEFINE Z == [D -> S]
           first == [a \in D |-> s]
<1>1. first \in Z
  OBVIOUS
<1> HIDE DEF first
<1>2. \E f : Iterates(f, Z, first, step)
  <2> HIDE DEF Z
  <2>1. step \in [Z -> Z]
    BY DEF Z
  <2> QED BY <1>1, <2>1, Iteration
<1>3. PICK f \in [Nat -> Z] : \A n \in Nat : f[n + 1] = step[f[n]]
  BY <1>2 DEF Iterates
<1> DEFINE Stable == {n \in Nat : \A m \in Nat, a \in D : measure[a] < n /\ n <= m => f[m][a] = f[n][a]}
<1>4. 0 \in Stable
  OBVIOUS
<1>5. ASSUME NEW n \in Nat, n \in Stable PROVE n + 1 \in Stable
  <2>1. SUFFICES ASSUME NEW m \in Nat, NEW a \in D, measure[a] < n + 1, n + 1 <= m
                 PROVE  f[m][a] = f[n + 1][a]
    BY <1>5
  <2>2. m - 1 \in Nat /\ (m - 1) + 1 = m /\ n <= m - 1
    BY <2>1
  <2>3. f[m] = step[f[m - 1]] /\ f[n + 1] = step[f[n]]
    BY <1>3, <2>2
  <2>4. ASSUME NEW e \in D, measure[e] < measure[a] PROVE f[m - 1][e] = f[n][e]
    <3>1. measure[e] \in Nat /\ measure[a] \in Nat
      OBVIOUS
    <3>2. measure[e] < n
      BY <2>1, <2>4, <3>1
    <3> QED BY <1>5, <2>2, <3>2
  <2>5. f[m - 1] \in Z /\ f[n] \in Z
    BY <1>3, <2>2
  <2>6. \A A \in Z, B \in Z : (\A e \in D : measure[e] < measure[a] => A[e] = B[e]) => step[A][a] = step[B][a]
    BY DEF Descends
  <2>7. step[f[m - 1]][a] = step[f[n]][a]
    <3> HIDE DEF Z
    <3> QED BY <2>4, <2>5, <2>6
  <2> QED BY <2>3, <2>7
<1>6. Nat \subseteq Stable
  <2> HIDE DEF Stable
  <2> QED BY <1>4, <1>5, Induct
<1> DEFINE F == [a \in D |-> f[measure[a] + 1][a]]
<1>7. F \in Z
  <2>1. ASSUME NEW a \in D PROVE f[measure[a] + 1][a] \in S
    <3>1. measure[a] + 1 \in Nat
      OBVIOUS
    <3>2. f[measure[a] + 1] \in Z
      BY <1>3, <3>1
    <3> QED BY <3>2
  <2> QED BY <2>1
<1>8. ASSUME NEW a \in D PROVE F[a] = step[F][a]
  <2> DEFINE n == measure[a]
  <2>1. n \in Nat /\ n + 1 \in Nat /\ f[n] \in Z
    BY <1>3
  <2>2. F[a] = step[f[n]][a]
    BY <1>3, <2>1
  <2>3. ASSUME NEW e \in D, measure[e] < measure[a] PROVE F[e] = f[n][e]
    <3> DEFINE m == measure[e] + 1
    <3>1. m \in Nat /\ m <= n /\ measure[e] < m
      BY <2>1, <2>3
    <3>2. m \in Stable
      BY <1>6, <3>1
    <3>3. f[n][e] = f[m][e]
      BY <2>1, <3>1, <3>2
    <3> QED BY <3>3
  <2> HIDE DEF F, n
  <2> QED BY <1>7, <2>1, <2>2, <2>3 DEF Descends
<1>9. F \in [D -> S] /\ step[F] \in [D -> S]
  BY <1>7
<1> HIDE DEF F
<1> QED BY <1>8, <1>9 DEF Fixpoint

-----------------------------------------------------------------------------
(* Arithmetic *)

\* A number is divided in one way only.
LEMMA QuotientUnique ==
    ASSUME NEW m \in Nat, m > 0, NEW q \in Nat, NEW r \in 0 .. m - 1
    PROVE  ((q * m) + r) \div m = q /\ ((q * m) + r) % m = r
BY SMT

\* Quotient and remainder.
LEMMA Division ==
    ASSUME NEW n \in Nat, NEW m \in Nat, m > 0
    PROVE  /\ n \div m \in Nat /\ n % m \in 0 .. m - 1
           /\ n = (n \div m) * m + (n % m)
<1>1. n \div m \in Nat /\ n % m \in 0 .. m - 1 /\ n = m * (n \div m) + (n % m)
  BY SMT
<1>2. \A q \in Nat : m * q = q * m
  BY SMT
<1> QED BY <1>1, <1>2

\* Products distribute over sums.
LEMMA Distribute ==
    ASSUME NEW a \in Int, NEW b \in Int, NEW c \in Int
    PROVE  (a + b) * c = a * c + b * c /\ c * (a + b) = c * a + c * b
BY SMT

\* Products associate and commute.
LEMMA Associate ==
    ASSUME NEW a \in Int, NEW b \in Int, NEW c \in Int
    PROVE  (a * b) * c = a * (b * c) /\ a * b = b * a /\ a * b \in Int
BY SMT

\* Products grow with their factors.
LEMMA TimesMonotone ==
    ASSUME NEW a \in Nat, NEW b \in Nat, NEW c \in Nat, a <= b
    PROVE  a * c <= b * c /\ c * a <= c * b /\ a * c \in Nat /\ c * a \in Nat
BY SMT

\* Quotients and remainders of two divisors.
LEMMA DivideTwice ==
    ASSUME NEW n \in Nat, NEW b \in Nat, b > 0, NEW p \in Nat, p > 0
    PROVE  /\ (n \div b) \div p = n \div (b * p)
           /\ (n % (b * p)) \div p = (n \div p) % b
           /\ (n % (b * p)) % p = n % p
<1> DEFINE bp == b * p
           q == n \div bp
           r == n % bp
           s == r \div p
           t == r % p
<1>1. bp \in Nat /\ bp > 0
  BY SMT
<1> HIDE DEF bp
<1>2. q \in Nat /\ r \in 0 .. bp - 1 /\ n = q * bp + r
  BY <1>1, Division
<1> HIDE DEF q, r
<1>3. s \in Nat /\ t \in 0 .. p - 1 /\ r = s * p + t
  BY <1>1, <1>2, Division
<1> HIDE DEF s, t
<1>4. s < b
  <2>1. SUFFICES ASSUME s >= b PROVE FALSE
    BY <1>3
  <2>2. b * p <= s * p
    BY <1>3, <2>1, TimesMonotone
  <2> QED BY <1>1, <1>2, <1>3, <2>2 DEF bp
<1>5. n \div p = q * b + s /\ n % p = t
  <2>1. q * bp = (q * b) * p
    BY <1>2, Associate DEF bp
  <2>2. q * b \in Nat
    BY <1>2
  <2>3. (q * b + s) * p = (q * b) * p + s * p
    BY <1>3, <2>2, Distribute
  <2>4. n = (q * b + s) * p + t
    BY <1>2, <1>3, <2>1, <2>2, <2>3
  <2>5. q * b + s \in Nat
    BY <1>3, <2>2
  <2> HIDE DEF s
  <2> QED BY <1>3, <2>4, <2>5, QuotientUnique
<1>6. (n \div p) % b = s
  <2>1. s \in 0 .. b - 1
    BY <1>3, <1>4
  <2> QED BY <1>2, <1>5, <2>1, QuotientUnique
<1>7. (n \div b) \div p = q
  <2> DEFINE u == n \div b
             v == n % b
             w == u \div p
             z == u % p
  <2>1. u \in Nat /\ v \in 0 .. b - 1 /\ n = u * b + v
    BY Division
  <2> HIDE DEF u, v
  <2>2. w \in Nat /\ z \in 0 .. p - 1 /\ u = w * p + z
    BY <2>1, Division
  <2> HIDE DEF w, z
  <2>3. z * b + v \in 0 .. bp - 1
    <3>1. (z + 1) * b <= p * b
      BY <2>2, TimesMonotone
    <3>2. (z + 1) * b = z * b + 1 * b
      BY <2>2, Distribute
    <3>3. p * b = bp /\ z * b \in Nat
      BY <2>2, Associate DEF bp
    <3> QED BY <1>1, <2>1, <3>1, <3>2, <3>3
  <2>4. n = w * bp + (z * b + v)
    <3>1. u * b = (w * p) * b + z * b
      BY <2>2, Distribute
    <3>2. (w * p) * b = w * bp
      BY <2>2, Associate DEF bp
    <3>3. w * bp \in Nat /\ z * b \in Nat
      BY <1>1, <2>2
    <3> QED BY <2>1, <2>2, <3>1, <3>2, <3>3
  <2>5. n \div bp = w
    BY <1>1, <2>2, <2>3, <2>4, QuotientUnique
  <2> QED BY <2>5 DEF q, u, w
<1> QED BY <1>5, <1>6, <1>7 DEF bp, q, r, s, t

-----------------------------------------------------------------------------
(* Powers *)

\* The powers of b.
PowerStep(b) == [r \in Nat |-> b * r]
Pow(b) == CHOOSE f : Iterates(f, Nat, 1, PowerStep(b))

\* The zeroth power is one and each is the base times the one before.
LEMMA PowIterates ==
    ASSUME NEW b \in Nat
    PROVE  /\ Pow(b) \in [Nat -> Nat] /\ Pow(b)[0] = 1
           /\ \A n \in Nat : Pow(b)[n + 1] = b * Pow(b)[n]
<1>1. PowerStep(b) \in [Nat -> Nat]
  BY DEF PowerStep
<1>2. Iterates(Pow(b), Nat, 1, PowerStep(b))
  <2>1. \E f : Iterates(f, Nat, 1, PowerStep(b))
    BY <1>1, Iteration
  <2> QED BY <2>1 DEF Pow
<1>3. Pow(b) \in [Nat -> Nat] /\ Pow(b)[0] = 1 /\ \A n \in Nat : Pow(b)[n + 1] = PowerStep(b)[Pow(b)[n]]
  BY <1>2 DEF Iterates
<1> QED BY <1>3 DEF PowerStep

\* Powers are positive and grow.
LEMMA PowPositive ==
    ASSUME NEW b \in Nat, b > 0
    PROVE  \A n \in Nat : Pow(b)[n] \in Nat /\ Pow(b)[n] > 0 /\ Pow(b)[n] <= Pow(b)[n + 1]
<1> DEFINE S == {n \in Nat : Pow(b)[n] \in Nat /\ Pow(b)[n] > 0}
<1>1. 0 \in S
  <2>1. Pow(b)[0] = 1
    BY PowIterates
  <2> QED BY <2>1
<1>2. ASSUME NEW n \in Nat, n \in S PROVE n + 1 \in S
  <2>1. Pow(b)[n + 1] = b * Pow(b)[n] /\ Pow(b)[n] \in Nat /\ Pow(b)[n] > 0
    BY <1>2, PowIterates
  <2>2. \A p \in Nat : p > 0 => b * p \in Nat /\ b * p > 0
    BY SMT
  <2> QED BY <2>1, <2>2
<1>3. Nat \subseteq S
  <2> HIDE DEF S
  <2> QED BY <1>1, <1>2, Induct
<1>4. ASSUME NEW n \in Nat PROVE Pow(b)[n] <= Pow(b)[n + 1]
  <2>1. Pow(b)[n + 1] = b * Pow(b)[n] /\ Pow(b)[n] \in Nat
    BY <1>3, PowIterates
  <2>2. 1 * Pow(b)[n] <= b * Pow(b)[n]
    BY <2>1, TimesMonotone
  <2> QED BY <2>1, <2>2
<1> QED BY <1>3, <1>4

\* A larger exponent gives no smaller a power.
LEMMA PowGrows ==
    ASSUME NEW b \in Nat, b > 0
    PROVE  \A n \in Nat : \A m \in Nat : m <= n => Pow(b)[m] <= Pow(b)[n]
<1> DEFINE S == {n \in Nat : \A m \in Nat : m <= n => Pow(b)[m] <= Pow(b)[n]}
<1>1. 0 \in S
  BY PowPositive
<1>2. ASSUME NEW n \in Nat, n \in S PROVE n + 1 \in S
  <2>1. SUFFICES ASSUME NEW m \in Nat, m <= n + 1 PROVE Pow(b)[m] <= Pow(b)[n + 1]
    OBVIOUS
  <2>2. Pow(b)[m] \in Nat /\ Pow(b)[n] \in Nat /\ Pow(b)[n + 1] \in Nat /\ Pow(b)[n] <= Pow(b)[n + 1]
    BY PowPositive
  <2>3. CASE m = n + 1
    BY <2>2, <2>3
  <2>4. CASE m <= n
    BY <1>2, <2>2, <2>4
  <2> QED BY <2>1, <2>3, <2>4
<1>3. Nat \subseteq S
  <2> HIDE DEF S
  <2> QED BY <1>1, <1>2, Induct
<1> QED BY <1>3

\* What square and multiply rests on.
LEMMA PowOfSquare ==
    ASSUME NEW b \in Nat, b > 0
    PROVE  \A n \in Nat : Pow(b * b)[n] = Pow(b)[2 * n]
<1> DEFINE S == {n \in Nat : Pow(b * b)[n] = Pow(b)[2 * n]}
<1>0. b * b \in Nat
  BY SMT
<1>1. 0 \in S
  <2>1. 2 * 0 = 0
    OBVIOUS
  <2> QED BY <1>0, <2>1, PowIterates
<1>2. ASSUME NEW n \in Nat, n \in S PROVE n + 1 \in S
  <2>1. 2 * n \in Nat /\ 2 * n + 1 \in Nat /\ 2 * (n + 1) = (2 * n + 1) + 1
    OBVIOUS
  <2>2. Pow(b * b)[n + 1] = (b * b) * Pow(b)[2 * n]
    BY <1>0, <1>2, PowIterates
  <2>3. Pow(b)[2 * (n + 1)] = b * (b * Pow(b)[2 * n]) /\ Pow(b)[2 * n] \in Nat
    <3> DEFINE P == Pow(b)
    <3>1. P \in [Nat -> Nat] /\ \A k \in Nat : P[k + 1] = b * P[k]
      BY PowIterates
    <3> HIDE DEF P
    <3>2. P[(2 * n + 1) + 1] = b * P[2 * n + 1] /\ P[2 * n + 1] = b * P[2 * n] /\ P[2 * n] \in Nat
      BY <2>1, <3>1
    <3> QED BY <2>1, <3>2 DEF P
  <2>4. (b * b) * Pow(b)[2 * n] = b * (b * Pow(b)[2 * n])
    BY <2>3, Associate
  <2> QED BY <2>2, <2>3, <2>4
<1>3. Nat \subseteq S
  <2> HIDE DEF S
  <2> QED BY <1>1, <1>2, Induct
<1> QED BY <1>3

\* ipow computes the power as long as it fits a register.
PowerArgs == Nat \X Nat \X Nat

\* The right-hand side of the definition of Power, for any F in its place.
PowerBody(F, c) ==
    LET result == IF c[3] % 2 = 1 THEN (c[1] * c[2]) % U ELSE c[1]
    IN  IF c[3] \div 2 = 0 THEN result
        ELSE F[<<result, (c[2] * c[2]) % U, c[3] \div 2>>]

\* The arguments of the next round of ipow are numbers, and its exponent is smaller.
LEMMA PowerArgsNext ==
    ASSUME NEW c \in PowerArgs
    PROVE  /\ (IF c[3] % 2 = 1 THEN (c[1] * c[2]) % U ELSE c[1]) \in Nat
           /\ (c[2] * c[2]) % U \in Nat /\ c[3] \div 2 \in Nat
           /\ c[3] \div 2 # 0 => c[3] \div 2 < c[3]
<1>1. c[1] \in Nat /\ c[2] \in Nat /\ c[3] \in Nat
  BY DEF PowerArgs
<1>2. U \in Nat /\ U > 0
  BY ItoaAssumption
<1>3. c[1] * c[2] \in Nat /\ c[2] * c[2] \in Nat
  BY <1>1
<1>4. (c[1] * c[2]) % U \in Nat /\ (c[2] * c[2]) % U \in Nat
  BY <1>2, <1>3, Division
<1>5. c[3] \div 2 \in Nat /\ (c[3] \div 2 # 0 => c[3] \div 2 < c[3])
  BY <1>1
<1> QED BY <1>1, <1>4, <1>5

\* The recursive definition of Power has a solution, so Power satisfies it.
LEMMA PowerDefined ==
    \A c \in PowerArgs : Power[c] = PowerBody(Power, c)
<1> DEFINE Z == [PowerArgs -> Nat]
           step == [F \in Z |-> [c \in PowerArgs |-> PowerBody(F, c)]]
           measure == [c \in PowerArgs |-> c[3]]
<1>1. measure \in [PowerArgs -> Nat]
  BY DEF PowerArgs
<1>2. ASSUME NEW F \in Z, NEW c \in PowerArgs PROVE PowerBody(F, c) \in Nat
  <2> DEFINE r == IF c[3] % 2 = 1 THEN (c[1] * c[2]) % U ELSE c[1]
             d == <<r, (c[2] * c[2]) % U, c[3] \div 2>>
  <2>1. r \in Nat /\ d \in PowerArgs
    BY PowerArgsNext DEF PowerArgs
  <2>2. F[d] \in Nat
    BY <2>1
  <2> QED BY <2>1, <2>2 DEF PowerBody
<1>3. step \in [Z -> Z]
  BY <1>2
<1>4. ASSUME NEW F \in Z, NEW G \in Z, NEW c \in PowerArgs,
             \A d \in PowerArgs : measure[d] < measure[c] => F[d] = G[d]
      PROVE  step[F][c] = step[G][c]
  <2> DEFINE r == IF c[3] % 2 = 1 THEN (c[1] * c[2]) % U ELSE c[1]
             d == <<r, (c[2] * c[2]) % U, c[3] \div 2>>
  <2>1. d \in PowerArgs
    BY PowerArgsNext DEF PowerArgs
  <2>2. c[3] \div 2 # 0 => measure[d] < measure[c]
    BY <2>1, PowerArgsNext
  <2>3. PowerBody(F, c) = PowerBody(G, c)
    BY <1>4, <2>1, <2>2 DEF PowerBody
  <2> QED BY <2>3
<1>5. Descends(step, PowerArgs, Nat, measure)
  <2>1. Nat # {}
    OBVIOUS
  <2> HIDE DEF step, measure
  <2> QED BY <1>1, <1>3, <1>4, <2>1 DEF Descends
<1>6. \E F \in Z : F = step[F]
  <2> HIDE DEF step, measure
  <2> QED BY <1>5, Recursion DEF Fixpoint
<1>7. \E F : F = [c \in PowerArgs |-> PowerBody(F, c)]
  BY <1>6
<1>8. Power = CHOOSE F : F = [c \in PowerArgs |-> PowerBody(F, c)]
  BY DEF Power, PowerBody, PowerArgs
<1>9. Power = [c \in PowerArgs |-> PowerBody(Power, c)]
  <2> HIDE DEF Z
  <2> QED BY <1>7, <1>8
<1> QED BY <1>9

\* One round of ipow.
LEMMA PowerEquation ==
    ASSUME NEW r \in Nat, NEW b \in Nat, NEW e \in Nat
    PROVE  Power[<<r, b, e>>] =
               IF e \div 2 = 0 THEN IF e % 2 = 1 THEN (r * b) % U ELSE r
               ELSE Power[<<IF e % 2 = 1 THEN (r * b) % U ELSE r, (b * b) % U, e \div 2>>]
<1>1. <<r, b, e>> \in PowerArgs
  BY DEF PowerArgs
<1>2. Power[<<r, b, e>>] = PowerBody(Power, <<r, b, e>>)
  BY <1>1, PowerDefined
<1> QED BY <1>2 DEF PowerBody

\* A register keeps what it can hold.
LEMMA RemainderOfSmall ==
    ASSUME NEW n \in Nat, n < U
    PROVE  n % U = n
BY ItoaAssumption, SMT

\* ipow is exact as long as the power fits a register.
LEMMA PowerIsPow ==
    \A e \in Nat : \A r \in Nat, b \in Nat :
        r > 0 /\ b > 0 /\ r * Pow(b)[e] < U => Power[<<r, b, e>>] = r * Pow(b)[e]
<1> DEFINE Exact(e) == \A r \in Nat, b \in Nat :
               r > 0 /\ b > 0 /\ r * Pow(b)[e] < U => Power[<<r, b, e>>] = r * Pow(b)[e]
           S == {e \in Nat : Exact(e)}
<1>1. ASSUME NEW e \in Nat, \A m \in Nat : m < e => m \in S PROVE e \in S
  <2>1. SUFFICES ASSUME NEW r \in Nat, NEW b \in Nat, r > 0, b > 0, r * Pow(b)[e] < U
                 PROVE  Power[<<r, b, e>>] = r * Pow(b)[e]
    OBVIOUS
  <2> HIDE DEF S
  <2> DEFINE h == e \div 2
  <2>2. h \in Nat /\ (e = 2 * h \/ e = 2 * h + 1) /\ (e % 2 = 1 <=> e = 2 * h + 1)
    OBVIOUS
  <2> HIDE DEF h
  <2>3. \A n \in Nat : Pow(b)[n] \in Nat /\ Pow(b)[n] > 0
    BY <2>1, PowPositive
  <2>4. Pow(b)[0] = 1 /\ Pow(b)[1] = b
    <3>1. Pow(b)[0 + 1] = b * Pow(b)[0] /\ Pow(b)[0] = 1
      BY PowIterates
    <3> QED BY <3>1
  <2>5. CASE e = 0
    <3>1. h = 0 /\ e % 2 # 1
      BY <2>2, <2>5
    <3>2. Power[<<r, b, e>>] = r
      BY <3>1, PowerEquation DEF h
    <3> QED BY <2>4, <2>5, <3>2
  <2>6. CASE e = 1
    <3>1. h = 0 /\ e % 2 = 1
      BY <2>2, <2>6
    <3>2. Power[<<r, b, e>>] = (r * b) % U
      BY <3>1, PowerEquation DEF h
    <3>3. r * Pow(b)[e] = r * b /\ r * b \in Nat
      BY <2>4, <2>6
    <3> QED BY <2>1, <3>2, <3>3, RemainderOfSmall
  <2>7. CASE e > 1
    <3> DEFINE q == Pow(b)[2 * h]
    <3>1. h > 0 /\ h < e /\ 2 * h \in Nat /\ 2 * h <= e
      BY <2>2, <2>7
    <3>2. q \in Nat /\ q > 0 /\ q = Pow(b * b)[h]
      BY <2>1, <2>2, <2>3, <3>1, PowOfSquare
    <3>3. b * b \in Nat /\ b * b > 0
      BY <2>1, SMT
    <3>4. b * b <= q
      <4>1. Pow(b)[2] = b * b
        <5>1. Pow(b)[1 + 1] = b * Pow(b)[1]
          BY PowIterates
        <5> QED BY <2>4, <5>1
      <4>2. 2 <= 2 * h
        BY <2>2, <3>1
      <4> QED BY <2>1, <3>1, <4>1, <4>2, PowGrows
    <3>5. h \in S
      BY <1>1, <2>2, <3>1
    <3>6. \A k \in Nat : k > 0 /\ k * q < U => Power[<<k, b * b, h>>] = k * q
      BY <3>2, <3>3, <3>5 DEF S
    <3>7. ASSUME NEW k \in Nat, k > 0, k * q < U PROVE b * b < U
      <4>1. 1 * q <= k * q /\ k * q \in Nat
        BY <3>2, <3>7, TimesMonotone
      <4> QED BY <3>2, <3>3, <3>4, <3>7, <4>1, ItoaAssumption
    <3>8. CASE e = 2 * h
      <4>1. r * q < U /\ r * Pow(b)[e] = r * q
        BY <2>1, <3>8
      <4>2. (b * b) % U = b * b
        BY <2>1, <3>3, <3>7, <4>1, RemainderOfSmall
      <4>3. Power[<<r, b, e>>] = Power[<<r, b * b, h>>]
        BY <2>2, <3>1, <3>8, <4>2, PowerEquation DEF h
      <4> QED BY <2>1, <3>6, <4>1, <4>3
    <3>9. CASE e = 2 * h + 1
      <4>1. r * b \in Nat /\ r * b > 0
        BY <2>1, SMT
      <4>2. Pow(b)[e] = b * q
        BY <2>2, <3>1, <3>9, PowIterates
      <4>3. r * Pow(b)[e] = (r * b) * q
        BY <3>2, <4>2, Associate
      <4>4. (b * b) % U = b * b
        BY <2>1, <3>3, <3>7, <4>1, <4>3, RemainderOfSmall
      <4>5. (r * b) * 1 <= (r * b) * q
        BY <3>2, <4>1, TimesMonotone
      <4>6. (r * b) % U = r * b
        <5>1. (r * b) * q \in Nat /\ (r * b) * 1 = r * b
          BY <3>2, <4>1
        <5>2. r * b < U
          BY <2>1, <4>1, <4>3, <4>5, <5>1, ItoaAssumption
        <5> QED BY <4>1, <5>2, RemainderOfSmall
      <4>7. Power[<<r, b, e>>] = Power[<<r * b, b * b, h>>]
        BY <2>2, <3>1, <3>9, <4>4, <4>6, PowerEquation DEF h
      <4> QED BY <2>1, <3>6, <4>1, <4>3, <4>7
    <3> QED BY <2>2, <3>8, <3>9
  <2> QED BY <2>5, <2>6, <2>7
<1>2. Nat \subseteq S
  <2> HIDE DEF S
  <2> QED BY <1>1, StrongInduct
<1> QED BY <1>2

-----------------------------------------------------------------------------
(* Digits *)

\* The right-hand side of the definition of Digits, for any F in its place.
DigitsBody(b, F, k) ==
    IF k < b THEN <<Code(k)>> ELSE Append(F[k \div b], Code(k % b))

\* Character codes are numbers.
LEMMA CodeNat == \A d \in Nat : Code(d) \in Nat
BY DEF Code

\* Dividing by a base makes a number of several digits smaller.
LEMMA ShorterQuotient ==
    ASSUME NEW b \in Nat, b > 1, NEW k \in Nat
    PROVE  k \div b \in Nat /\ k % b \in 0 .. b - 1 /\ (k >= b => k \div b < k)
<1>1. k \div b \in Nat /\ k % b \in 0 .. b - 1 /\ k = (k \div b) * b + (k % b)
  BY Division
<1> DEFINE q == k \div b
           r == k % b
<1>2. q \in Nat /\ r \in 0 .. b - 1 /\ k = q * b + r
  BY <1>1
<1> HIDE DEF q, r
<1>3. k >= b => q < k
  <2>1. SUFFICES ASSUME k >= b, q >= k PROVE FALSE
    BY <1>2
  <2>2. q * 2 <= q * b
    BY <1>2, TimesMonotone
  <2>3. q * b \in Nat /\ q * 2 = q + q
    BY <1>2
  <2> QED BY <1>2, <2>1, <2>2, <2>3
<1> QED BY <1>1, <1>3 DEF q

\* The recursive definition of Digits has a solution, so Digits(b) satisfies it.
LEMMA DigitsDefined ==
    ASSUME NEW b \in Nat, b > 1
    PROVE  \A k \in Nat : Digits(b)[k] = DigitsBody(b, Digits(b), k)
<1> DEFINE S == Seq(Nat)
           Z == [Nat -> S]
           step == [F \in Z |-> [k \in Nat |-> DigitsBody(b, F, k)]]
           measure == [k \in Nat |-> k]
<1>1. measure \in [Nat -> Nat]
  OBVIOUS
<1>2. ASSUME NEW F \in Z, NEW k \in Nat PROVE DigitsBody(b, F, k) \in S
  <2>1. k \div b \in Nat /\ k % b \in Nat
    BY ShorterQuotient
  <2>2. Code(k) \in Nat /\ Code(k % b) \in Nat
    BY <2>1, CodeNat
  <2>3. F[k \div b] \in Seq(Nat)
    BY <2>1
  <2> QED BY <2>2, <2>3 DEF DigitsBody
<1>3. step \in [Z -> Z]
  BY <1>2
<1>4. ASSUME NEW F \in Z, NEW G \in Z, NEW k \in Nat,
             \A j \in Nat : measure[j] < measure[k] => F[j] = G[j]
      PROVE  step[F][k] = step[G][k]
  <2>1. k >= b => F[k \div b] = G[k \div b]
    <3>1. k \div b \in Nat /\ (k >= b => k \div b < k)
      BY ShorterQuotient
    <3> QED BY <1>4, <3>1
  <2>2. DigitsBody(b, F, k) = DigitsBody(b, G, k)
    <3>1. CASE k < b
      BY <3>1 DEF DigitsBody
    <3>2. CASE k >= b
      <4>1. ~(k < b)
        BY <3>2
      <4> QED BY <2>1, <3>2, <4>1, Zenon DEF DigitsBody
    <3> QED BY <3>1, <3>2
  <2> QED BY <2>2
<1>5. Descends(step, Nat, S, measure)
  <2>1. S # {}
    <3>1. <<>> \in S
      OBVIOUS
    <3> QED BY <3>1
  <2> HIDE DEF step, measure
  <2>2. step \in [[Nat -> S] -> [Nat -> S]]
    BY <1>3
  <2> HIDE DEF S
  <2> QED BY <1>1, <1>4, <2>1, <2>2 DEF Descends
<1>6. \E F \in Z : F = step[F]
  <2> HIDE DEF step, measure, S
  <2> QED BY <1>5, Recursion DEF Fixpoint
<1>7. \E F : F = [k \in Nat |-> DigitsBody(b, F, k)]
  BY <1>6
<1>8. Digits(b) = CHOOSE F : F = [k \in Nat |-> DigitsBody(b, F, k)]
  BY DEF Digits, DigitsBody
<1>9. Digits(b) = [k \in Nat |-> DigitsBody(b, Digits(b), k)]
  <2> HIDE DEF Z
  <2> QED BY <1>7, <1>8
<1> QED BY <1>9

\* k has n digits in the base b, and which character the i-th of them is.
Fits(k, b, n) == n > 0 /\ k < Pow(b)[n] /\ (n > 1 => Pow(b)[n - 1] <= k)

\* The i-th of n digits.
Place(k, b, n, pos) == Code((k \div Pow(b)[n - pos]) % b)

\* A number of n digits is spelt by dividing it by the powers of the base, as the
\* digit loop does, though Digits takes the digits from the other end.
LEMMA DigitsPlaces ==
    ASSUME NEW b \in Nat, b > 1
    PROVE  \A n \in Nat : \A k \in Nat :
               Fits(k, b, n) => Digits(b)[k] = [pos \in 1 .. n |-> Place(k, b, n, pos)]
<1> DEFINE Spelt(n) == \A k \in Nat : Fits(k, b, n) => Digits(b)[k] = [pos \in 1 .. n |-> Place(k, b, n, pos)]
           S == {n \in Nat : Spelt(n)}
<1>0. Pow(b)[0] = 1 /\ Pow(b)[1] = b /\ \A n \in Nat : Pow(b)[n] \in Nat /\ Pow(b)[n] > 0
  <2>1. Pow(b)[0 + 1] = b * Pow(b)[0] /\ Pow(b)[0] = 1
    BY PowIterates
  <2> QED BY <2>1, PowPositive
<1>1. 0 \in S
  BY DEF Fits
<1>2. 1 \in S
  <2>1. SUFFICES ASSUME NEW k \in Nat, Fits(k, b, 1)
                 PROVE  Digits(b)[k] = [pos \in 1 .. 1 |-> Place(k, b, 1, pos)]
    OBVIOUS
  <2>2. k < b
    BY <1>0, <2>1 DEF Fits
  <2>3. Digits(b)[k] = <<Code(k)>>
    BY <2>2, DigitsDefined DEF DigitsBody
  <2>4. k \div 1 = k /\ k % b = k
    BY <2>2
  <2>5. Place(k, b, 1, 1) = Code(k)
    BY <1>0, <2>4 DEF Place
  <2>6. [pos \in 1 .. 1 |-> Place(k, b, 1, pos)] = <<Place(k, b, 1, 1)>>
    OBVIOUS
  <2> QED BY <2>3, <2>5, <2>6
<1>3. ASSUME NEW n \in Nat, n > 0, n \in S PROVE n + 1 \in S
  <2>1. SUFFICES ASSUME NEW k \in Nat, Fits(k, b, n + 1)
                 PROVE  Digits(b)[k] = [pos \in 1 .. n + 1 |-> Place(k, b, n + 1, pos)]
    OBVIOUS
  <2> DEFINE q == k \div b
             r == k % b
             P == Pow(b)
  <2>2. q \in Nat /\ r \in 0 .. b - 1 /\ k = q * b + r
    BY Division
  <2>3. (n + 1) - 1 = n /\ n + 1 > 1 /\ n + 1 > 0
    BY <1>3
  <2>4. k < P[n + 1] /\ P[n] <= k /\ P[n + 1] = b * P[n]
    BY <2>1, <2>3, PowIterates DEF Fits
  <2>5. n > 1 => P[n] = b * P[n - 1]
    <3>1. n - 1 \in Nat /\ (n - 1) + 1 = n
      BY <1>3
    <3> QED BY <3>1, PowIterates
  <2>6. b <= P[n]
    BY <1>0, <1>3, PowGrows
  <2>7. Digits(b)[k] = Append(Digits(b)[q], Code(r))
    <3>1. P[n] \in Nat
      BY <1>0
    <3>2. ~(k < b)
      BY <2>4, <2>6, <3>1
    <3> QED BY <3>2, DigitsDefined DEF DigitsBody
  <2>8. Fits(q, b, n)
    <3> HIDE DEF q, r, P
    <3>0. P[n] \in Nat /\ (n > 1 => P[n - 1] \in Nat)
      <4>1. n > 1 => n - 1 \in Nat
        OBVIOUS
      <4> QED BY <1>0, <4>1 DEF P
    <3>1. q < P[n]
      <4>1. SUFFICES ASSUME P[n] <= q PROVE FALSE
        BY <2>2, <3>0
      <4>2. P[n] * b <= q * b /\ P[n] * b = b * P[n]
        BY <2>2, <3>0, <4>1, TimesMonotone, Associate
      <4>3. q * b \in Nat /\ b * P[n] \in Nat
        BY <2>2, <3>0
      <4> QED BY <2>2, <2>4, <4>2, <4>3
    <3>2. ASSUME n > 1 PROVE P[n - 1] <= q
      <4>1. SUFFICES ASSUME q + 1 <= P[n - 1] PROVE FALSE
        BY <2>2, <3>0, <3>2
      <4>2. (q + 1) * b <= P[n - 1] * b
        BY <2>2, <3>0, <3>2, <4>1, TimesMonotone
      <4>3. (q + 1) * b = q * b + 1 * b /\ P[n - 1] * b = P[n]
        BY <2>2, <2>5, <3>0, <3>2, Distribute, Associate
      <4>4. q * b \in Nat
        BY <2>2
      <4> QED BY <2>2, <2>4, <3>0, <4>2, <4>3, <4>4
    <3> QED BY <1>3, <3>1, <3>2 DEF Fits, P
  <2>9. Digits(b)[q] = [pos \in 1 .. n |-> Place(q, b, n, pos)]
    BY <1>3, <2>2, <2>8
  <2>10. ASSUME NEW pos \in 1 .. n PROVE Place(q, b, n, pos) = Place(k, b, n + 1, pos)
    <3>1. n - pos \in Nat /\ (n + 1) - pos = (n - pos) + 1
      OBVIOUS
    <3>2. P[(n + 1) - pos] = b * P[n - pos] /\ P[n - pos] \in Nat /\ P[n - pos] > 0
      <4>1. P \in [Nat -> Nat] /\ \A m \in Nat : P[m + 1] = b * P[m]
        BY PowIterates
      <4>2. \A m \in Nat : P[m] \in Nat /\ P[m] > 0
        BY <1>0
      <4> HIDE DEF P
      <4> QED BY <3>1, <4>1, <4>2
    <3>3. q \div P[n - pos] = k \div (b * P[n - pos])
      BY <3>2, DivideTwice
    <3> QED BY <3>2, <3>3 DEF Place
  <2>11. Place(k, b, n + 1, n + 1) = Code(r)
    <3>1. (n + 1) - (n + 1) = 0 /\ k \div 1 = k
      OBVIOUS
    <3> QED BY <1>0, <3>1 DEF Place
  <2> DEFINE f == [pos \in 1 .. n |-> Place(k, b, n + 1, pos)]
             g == [pos \in 1 .. n + 1 |-> Place(k, b, n + 1, pos)]
  <2>12. Digits(b)[q] = f
    BY <2>9, <2>10
  <2>13. Append(f, g[n + 1]) = g
    OBVIOUS
  <2>14. g[n + 1] = Code(r)
    BY <2>11
  <2> QED BY <2>7, <2>12, <2>13, <2>14
<1>4. \A n \in Nat : n \in S => n + 1 \in S
  <2> HIDE DEF S
  <2>1. ASSUME NEW n \in Nat, n \in S PROVE n + 1 \in S
    <3>1. CASE n = 0
      <4>1. 0 + 1 = 1
        OBVIOUS
      <4> QED BY <1>2, <3>1, <4>1
    <3>2. CASE n > 0
      BY <1>3, <2>1, <3>2
    <3> QED BY <3>1, <3>2
  <2> QED BY <2>1
<1>5. Nat \subseteq S
  <2> HIDE DEF S
  <2> QED BY <1>1, <1>4, Induct
<1> QED BY <1>5

-----------------------------------------------------------------------------
(* The calculation of _itoa *)

\* Room for the minus sign, index of the first digit, and what abs returns.
SignLength == IF Negative(arg) THEN 1 ELSE 0
First == SignLength + PrefixLength(base)
Absolute == Abs(arg)

\* The character that belongs at index k of the buffer.
Shown(k) ==
    CASE k < SignLength                -> Minus
      [] SignLength <= k /\ k < First  -> Prefix(base)[k - SignLength + 1]
      [] OTHER                         -> Place(Absolute, base, ndigit, k - First + 1)

\* A call in progress, with arguments it may be made with.
Call == /\ arg \in 0 .. U - 1 /\ base \in Bases /\ bufsize \in Sizes /\ ndigit > 0
        /\ pc \in {"ilog", "size", "digits", "written", "failed"}

\* ndigit digits are certain, and rest is what they leave.
Counting ==
    pc = "ilog" => /\ rest = Absolute \div Pow(base)[ndigit - 1] /\ (ndigit > 1 => Pow(base)[ndigit - 1] <= Absolute)
                   /\ x = arg /\ magnitude = 0 /\ offset = 0 /\ out_size = 0

\* ilog has counted the digits and check_size has the length of the numeral.
Counted ==
    /\ pc # "ilog" => Fits(Absolute, base, ndigit) /\ out_size = First + ndigit
    /\ pc = "size" => x = arg /\ magnitude = 0 /\ offset = 0
    /\ pc = "failed" => bufsize <= out_size

\* j digits are written.
Spelling(j) ==
    /\ offset = First + j
    /\ x = Absolute % Pow(base)[ndigit - j]
    /\ magnitude = IF j = ndigit THEN 0 ELSE Pow(base)[ndigit - 1 - j]

\* Every byte before offset is the one that belongs there.
Spelt ==
    /\ pc = "digits" => \E j \in 0 .. ndigit : Spelling(j)
    /\ pc \in {"digits", "written"} => out_size < bufsize /\ \A k \in 0 .. offset - 1 : buf[k] = Shown(k)
    /\ pc = "written" => offset = out_size /\ buf[out_size] = 0

\* The inductive invariant.
NumeralInv == TypeOK /\ Call /\ Counting /\ Counted /\ Spelt

\* abs is the magnitude, also of the smallest number, whose negation is itself.
LEMMA AbsOf ==
    ASSUME NEW u \in 0 .. U - 1
    PROVE  Abs(u) \in 0 .. U - 1 /\ Abs(u) = IF Negative(u) THEN U - u ELSE u
<1>1. U \in Nat /\ U > 1 /\ U % 2 = 0
  BY ItoaAssumption
<1>2. CASE Negative(u)
  <2>1. u > 0
    BY <1>1, <1>2 DEF Negative
  <2>2. U - u \in Nat /\ U - u < U
    BY <1>1, <2>1
  <2>3. (U - u) % U = U - u
    BY <2>2, RemainderOfSmall
  <2> QED BY <1>1, <1>2, <2>2, <2>3 DEF Abs, Negated
<1>3. CASE ~Negative(u)
  BY <1>3 DEF Abs
<1> QED BY <1>2, <1>3

\* Bases are numbers above one.
LEMMA BaseOf ==
    ASSUME NEW b \in Bases
    PROVE  b \in Nat /\ b > 1
BY ItoaAssumption

\* get_prefix returns a prefix and its length.
LEMMA PrefixOf ==
    ASSUME NEW b
    PROVE  /\ Prefix(b) \in Seq(Nat) /\ Len(Prefix(b)) = PrefixLength(b)
           /\ PrefixLength(b) \in Nat
BY DEF Prefix, PrefixLength

\* What is written to the buffer are characters of numerals.
LEMMA CharactersKnown ==
    /\ 0 \in Characters /\ Minus \in Characters
    /\ \A b \in Bases : \A k \in 1 .. PrefixLength(b) : Prefix(b)[k] \in Characters
    /\ \A b \in Bases : \A d \in 0 .. b - 1 : Code(d) \in Characters
<1>1. 0 \in Characters /\ Minus \in Characters
  BY DEF Characters
<1>2. \A b \in Bases : CharactersOf(b) \subseteq Characters
  BY DEF Characters
<1>3. ASSUME NEW b PROVE \A k \in 1 .. PrefixLength(b) : Prefix(b)[k] \in CharactersOf(b)
  BY DEF CharactersOf
<1>4. ASSUME NEW b PROVE \A d \in 0 .. b - 1 : Code(d) \in CharactersOf(b)
  BY DEF CharactersOf
<1> QED BY <1>1, <1>2, <1>3, <1>4

\* The facts about powers for the base of a call.
LEMMA PowersOf ==
    ASSUME NEW b \in Bases
    PROVE  /\ Pow(b)[0] = 1
           /\ \A n \in Nat : /\ Pow(b)[n] \in Nat /\ Pow(b)[n] > 0
                             /\ Pow(b)[n + 1] = b * Pow(b)[n]
           /\ \A n \in Nat : n > 0 => n - 1 \in Nat /\ Pow(b)[n] = b * Pow(b)[n - 1]
<1>1. b \in Nat /\ b > 0
  BY BaseOf
<1>2. \A n \in Nat : /\ Pow(b)[n] \in Nat /\ Pow(b)[n] > 0
                     /\ Pow(b)[n + 1] = b * Pow(b)[n]
  BY <1>1, PowIterates, PowPositive
<1>3. ASSUME NEW n \in Nat, n > 0 PROVE n - 1 \in Nat /\ Pow(b)[n] = b * Pow(b)[n - 1]
  <2>1. n - 1 \in Nat /\ (n - 1) + 1 = n
    BY <1>3
  <2> QED BY <1>2, <2>1
<1>4. Pow(b)[0] = 1
  BY <1>1, PowIterates
<1> QED BY <1>2, <1>3, <1>4

\* Sign and prefix come before the digits.
LEMMA Lengths ==
    ASSUME Call
    PROVE  SignLength \in Nat /\ First \in Nat /\ SignLength <= First
<1>1. PrefixLength(base) \in Nat
  BY PrefixOf
<1> QED BY <1>1 DEF SignLength, First

\* A call that has just been made, whatever the buffer holds.
Started ==
    /\ pc = "ilog" /\ x \in 0 .. U - 1 /\ arg = x /\ base \in Bases /\ bufsize \in Sizes
    /\ rest = Abs(x) /\ ndigit = 1 /\ magnitude = 0 /\ offset = 0 /\ out_size = 0
    /\ buf \in [0 .. Memory - 1 -> {Unset} \cup Characters]

\* A call starts with one digit that is certain.
LEMMA StartNumeral == Started => NumeralInv
<1> SUFFICES ASSUME Started PROVE NumeralInv
  OBVIOUS
<1>1. Call
  BY DEF Started, Call
<1>2. Absolute \in 0 .. U - 1 /\ Absolute \div 1 = Absolute
  BY <1>1, AbsOf DEF Absolute, Call
<1>3. 1 - 1 = 0 /\ 0 \in 0 .. 0 /\ 0 \in 0 .. U - 1
  BY ItoaAssumption
<1>4. TypeOK
  BY <1>2, <1>3 DEF Started, TypeOK, Absolute
<1>5. Counting
  <2>1. Pow(base)[0] = 1
    BY <1>1, PowersOf DEF Call
  <2> HIDE DEF Absolute
  <2>2. rest = Absolute
    BY DEF Started, Absolute
  <2> QED BY <1>2, <1>3, <2>1, <2>2 DEF Started, Counting
<1> QED BY <1>1, <1>4, <1>5 DEF NumeralInv, Counted, Spelt, Started

\* Init is such a call.
LEMMA InitNumeral == Init => NumeralInv
<1>1. Init => Started
  BY DEF Init, Started
<1> QED BY <1>1, StartNumeral

\* A division that leaves a digit makes one more digit certain; the last one
\* completes the count.
LEMMA IlogNumeral ==
    ASSUME NumeralInv, ilog
    PROVE  NumeralInv'
<1> DEFINE P == Pow(base)
<1>1. /\ pc = "ilog" /\ x = arg /\ magnitude = 0 /\ offset = 0 /\ out_size = 0
      /\ rest = Absolute \div P[ndigit - 1] /\ (ndigit > 1 => P[ndigit - 1] <= Absolute)
      /\ UNCHANGED <<x, arg, base, bufsize, magnitude, offset, buf>>
  BY DEF NumeralInv, Counting, ilog, frame
<1>2. /\ Call /\ ndigit \in Nat /\ ndigit > 0 /\ rest \in 0 .. U - 1 /\ U \in Nat /\ U > 1
      /\ base \in Nat /\ base > 1 /\ base \in Bases
  BY BaseOf, ItoaAssumption DEF NumeralInv, TypeOK, Call
<1>3. Absolute \in Nat /\ Absolute' = Absolute /\ P' = P
  BY <1>1, <1>2, AbsOf DEF Absolute, Call
<1>4. /\ ndigit - 1 \in Nat /\ P[ndigit - 1] \in Nat /\ P[ndigit - 1] > 0 /\ P[ndigit] \in Nat
      /\ P[ndigit] = base * P[ndigit - 1]
  BY <1>2, PowersOf
<1> HIDE DEF P
<1> DEFINE p == P[ndigit - 1]
           t == Absolute % p
<1>5. t \in 0 .. p - 1 /\ Absolute = rest * p + t
  BY <1>1, <1>3, <1>4, Division
<1>6. p \in Nat /\ p > 0
  BY <1>4
<1> HIDE DEF p, t
<1>7. CASE ~LastDigit(rest, base)
  <2>1. /\ rest' = rest \div base /\ ndigit' = ndigit + 1 /\ UNCHANGED <<pc, out_size>>
        /\ rest >= base
    BY <1>1, <1>2, <1>7 DEF ilog, LastDigit
  <2>2. rest' \in 0 .. U - 1
    <3>1. rest \in Nat
      BY <1>2
    <3>2. rest \div base < rest /\ rest \div base \in Nat
      BY <1>2, <2>1, <3>1, ShorterQuotient
    <3> QED BY <1>2, <2>1, <3>1, <3>2
  <2>3. rest' = Absolute \div P[ndigit]
    <3>1. (Absolute \div p) \div base = Absolute \div (p * base)
      BY <1>2, <1>3, <1>6, DivideTwice
    <3>2. p * base = P[ndigit]
      BY <1>2, <1>4, <1>6, Associate DEF p
    <3> QED BY <1>1, <2>1, <3>1, <3>2 DEF p
  <2>4. P[ndigit] <= Absolute
    <3>1. base * p <= rest * p /\ rest * p \in Nat
      BY <1>2, <1>6, <2>1, TimesMonotone
    <3>2. t \in Nat
      BY <1>5, <1>6
    <3> QED BY <1>3, <1>4, <1>5, <3>1, <3>2 DEF p
  <2>5. ndigit' - 1 = ndigit /\ ndigit' \in Nat /\ ndigit' > 0
    BY <1>2, <2>1
  <2>6. TypeOK'
    BY <1>1, <2>1, <2>2, <2>5 DEF NumeralInv, TypeOK
  <2>7. Call'
    BY <1>1, <2>1, <2>5 DEF NumeralInv, Call
  <2>8. Counting'
    BY <1>1, <1>3, <2>1, <2>3, <2>4, <2>5 DEF Counting, P
  <2> QED BY <1>1, <2>1, <2>6, <2>7, <2>8 DEF NumeralInv, Counted, Spelt
<1>8. CASE LastDigit(rest, base)
  <2>1. /\ pc' = "size" /\ UNCHANGED <<rest, ndigit>> /\ rest < base
        /\ out_size' = ndigit + PrefixLength(base) + (IF Negative(x) THEN 1 ELSE 0)
    BY <1>1, <1>8 DEF ilog, LastDigit
  <2>2. First \in Nat /\ First' = First
    BY <1>1, <1>2, Lengths DEF First, SignLength
  <2>3. out_size' = First + ndigit
    <3>1. PrefixLength(base) \in Nat
      BY PrefixOf
    <3> QED BY <1>1, <1>2, <2>1, <3>1 DEF First, SignLength
  <2>4. Absolute < P[ndigit]
    <3>1. (rest + 1) * p <= base * p
      BY <1>2, <1>6, <2>1, TimesMonotone
    <3>2. (rest + 1) * p = rest * p + 1 * p /\ rest * p \in Nat
      BY <1>2, <1>6, Distribute
    <3> QED BY <1>3, <1>4, <1>5, <1>6, <3>1, <3>2 DEF p
  <2>5. Fits(Absolute, base, ndigit)'
    BY <1>1, <1>2, <1>3, <2>1, <2>4 DEF Fits, P
  <2>6. TypeOK'
    <3>1. out_size' \in Nat /\ offset' \in 0 .. out_size'
      BY <1>1, <1>2, <2>2, <2>3
    <3> QED BY <1>1, <2>1, <3>1 DEF NumeralInv, TypeOK
  <2>7. Call'
    BY <1>1, <2>1 DEF NumeralInv, Call
  <2>8. Counted'
    BY <1>1, <2>1, <2>2, <2>3, <2>5 DEF Counted
  <2> QED BY <2>1, <2>6, <2>7, <2>8 DEF NumeralInv, Counting, Spelt
<1> QED BY <1>7, <1>8

\* A sequence is the function from its positions to its elements.
LEMMA SequenceAsFunction ==
    ASSUME NEW T, NEW s \in Seq(T)
    PROVE  s = [k \in 1 .. Len(s) |-> s[k]]
OBVIOUS

\* Where the elements of a concatenation come from.
LEMMA Concatenation ==
    ASSUME NEW T, NEW s \in Seq(T), NEW t \in Seq(T)
    PROVE  /\ s \o t \in Seq(T) /\ Len(s \o t) = Len(s) + Len(t)
           /\ \A k \in 1 .. Len(s) + Len(t) : (s \o t)[k] = IF k <= Len(s) THEN s[k] ELSE t[k - Len(s)]
<1>1. Len(s) \in Nat /\ Len(t) \in Nat
  OBVIOUS
<1>2. s \o t \in Seq(T) /\ Len(s \o t) = Len(s) + Len(t)
  BY <1>1
<1>3. ASSUME NEW k \in 1 .. Len(s) + Len(t)
      PROVE  (s \o t)[k] = IF k <= Len(s) THEN s[k] ELSE t[k - Len(s)]
  BY <1>1
<1> QED BY <1>2, <1>3

\* Sign and prefix are written where they belong, and magnitude is the power that
\* tells the first digit: it is at most the argument, so ipow has not wrapped.
LEMMA CheckSizeNumeral ==
    ASSUME NumeralInv, check_size
    PROVE  NumeralInv'
<1> DEFINE P == Pow(base)
<1>1. /\ pc = "size" /\ x = arg /\ magnitude = 0 /\ offset = 0
      /\ Fits(Absolute, base, ndigit) /\ out_size = First + ndigit
      /\ UNCHANGED <<arg, base, bufsize, rest, ndigit, out_size>>
  BY DEF NumeralInv, Counted, check_size, frame
<1>2. /\ Call /\ ndigit \in Nat /\ ndigit > 0 /\ U \in Nat /\ U > 1 /\ out_size \in Nat
      /\ base \in Nat /\ base > 1 /\ base \in Bases /\ Memory \in Nat
      /\ bufsize \in Nat /\ bufsize <= Memory
  BY BaseOf, ItoaAssumption DEF NumeralInv, TypeOK, Call
<1>3. Absolute \in 0 .. U - 1 /\ Absolute' = Absolute /\ P' = P
  BY <1>1, <1>2, AbsOf DEF Absolute, Call
<1>4. /\ SignLength \in Nat /\ First \in Nat /\ SignLength <= First
      /\ SignLength' = SignLength /\ First' = First
  BY <1>1, <1>2, Lengths DEF SignLength, First
<1>5. CASE TooSmall(bufsize, out_size)
  <2>1. pc' = "failed" /\ UNCHANGED <<x, magnitude, offset, buf>> /\ bufsize <= out_size
    BY <1>1, <1>2, <1>5 DEF check_size, TooSmall
  <2>2. TypeOK' /\ Call'
    BY <1>1, <2>1 DEF NumeralInv, TypeOK, Call
  <2>3. Fits(Absolute, base, ndigit)'
    BY <1>1, <1>3 DEF Fits, P
  <2> QED BY <1>1, <1>4, <2>1, <2>2, <2>3 DEF NumeralInv, Counting, Counted, Spelt
<1>6. CASE ~TooSmall(bufsize, out_size)
  <2> DEFINE head(k) == CASE k < SignLength -> Minus
                          [] SignLength <= k /\ k < First -> Prefix(base)[k - SignLength + 1]
                          [] OTHER -> buf[k]
  <2>1. /\ pc' = "digits" /\ x' = Abs(x) /\ magnitude' = ipow(base, ndigit - 1) /\ offset' = First
        /\ out_size < bufsize
    BY <1>1, <1>2, <1>4, <1>6 DEF check_size, TooSmall, SignLength, First
  <2>2. buf' = [k \in DOMAIN buf |-> head(k)]
    BY <1>1, <1>4, <1>6, <2>1 DEF check_size, SignLength, First
  <2>3. buf \in [0 .. Memory - 1 -> {Unset} \cup Characters]
    BY DEF NumeralInv, TypeOK
  <2>4. ASSUME NEW k \in 0 .. Memory - 1 PROVE head(k) \in {Unset} \cup Characters
    <3>1. CASE k < SignLength
      <4>1. head(k) = Minus
        BY <1>4, <3>1
      <4>2. Minus \in Characters
        BY CharactersKnown
      <4> HIDE DEF head
      <4> QED BY <4>1, <4>2
    <3>2. CASE SignLength <= k /\ k < First
      <4>1. PrefixLength(base) \in Nat /\ First = SignLength + PrefixLength(base)
        BY PrefixOf DEF First
      <4>2. k - SignLength + 1 \in 1 .. PrefixLength(base)
        BY <1>4, <3>2, <4>1
      <4>3. ~(k < SignLength)
        BY <1>4, <3>2
      <4> QED BY <1>2, <3>2, <4>2, <4>3, CharactersKnown
    <3>3. CASE ~(k < SignLength) /\ ~(SignLength <= k /\ k < First)
      BY <2>3, <3>3
    <3> QED BY <3>1, <3>2, <3>3
  <2>5. buf' \in [0 .. Memory - 1 -> {Unset} \cup Characters]
    <3> HIDE DEF head
    <3> QED BY <2>2, <2>3, <2>4
  <2>6. ASSUME NEW k \in 0 .. First - 1 PROVE buf'[k] = Shown(k)'
    <3>1. k \in 0 .. Memory - 1
      BY <1>1, <1>2, <1>4, <2>1
    <3>2. buf'[k] = head(k)
      <4> HIDE DEF head
      <4> QED BY <2>2, <2>3, <3>1
    <3>3. k < First /\ (k < SignLength \/ SignLength <= k)
      BY <1>4
    <3>4. Shown(k)' = CASE k < SignLength -> Minus
                        [] SignLength <= k /\ k < First -> Prefix(base)[k - SignLength + 1]
                        [] OTHER -> Place(Absolute, base, ndigit, k - First + 1)'
      BY <1>1, <1>4 DEF Shown
    <3> QED BY <3>2, <3>3, <3>4
  <2>7. x' = Absolute % P[ndigit - 0] /\ x' = Absolute
    <3>1. Absolute < P[ndigit] /\ ndigit - 0 = ndigit /\ P[ndigit] \in Nat
      BY <1>1, <1>2, PowersOf DEF Fits
    <3>2. Absolute % P[ndigit] = Absolute
      BY <1>3, <3>1
    <3> QED BY <1>1, <2>1, <3>1, <3>2 DEF Absolute
  <2>8. magnitude' = P[ndigit - 1 - 0] /\ magnitude' \in 0 .. U - 1
    <3>1. ndigit - 1 \in Nat /\ ndigit - 1 - 0 = ndigit - 1
      BY <1>2
    <3>2. P[ndigit - 1] \in Nat /\ P[ndigit - 1] < U
      <4>1. P[ndigit - 1] \in Nat
        BY <1>2, <3>1, PowersOf
      <4>2. CASE ndigit = 1
        <5>1. P[ndigit - 1] = 1
          BY <1>2, <4>2, PowersOf
        <5> QED BY <1>2, <5>1
      <4>3. CASE ndigit > 1
        BY <1>1, <1>2, <1>3, <4>1, <4>3 DEF Fits
      <4> QED BY <1>2, <4>1, <4>2, <4>3
    <3>3. PICK r \in Nat : r = 1
      OBVIOUS
    <3>4. r * P[ndigit - 1] = P[ndigit - 1] /\ r > 0
      BY <3>2, <3>3
    <3>5. Power[<<r, base, ndigit - 1>>] = P[ndigit - 1]
      BY <1>2, <3>1, <3>2, <3>4, PowerIsPow
    <3>6. <<r, base, ndigit - 1>> = <<1, base, ndigit - 1>>
      BY <3>3
    <3>7. magnitude' = P[ndigit - 1]
      BY <2>1, <3>5, <3>6 DEF ipow
    <3> HIDE DEF P
    <3> QED BY <1>2, <3>1, <3>2, <3>7
  <2>9. TypeOK'
    <3>1. First \in 0 .. out_size
      BY <1>1, <1>2, <1>4
    <3>2. rest \in 0 .. U - 1
      BY DEF NumeralInv, TypeOK
    <3> QED BY <1>1, <1>2, <1>3, <2>1, <2>5, <2>7, <2>8, <3>1, <3>2 DEF TypeOK
  <2>10. Spelling(0)'
    <3>1. First + 0 = First /\ 0 # ndigit
      BY <1>2, <1>4
    <3> QED BY <1>1, <1>3, <1>4, <2>1, <2>7, <2>8, <3>1 DEF Spelling, P
  <2>11. Spelt'
    <3>1. 0 \in 0 .. ndigit'
      BY <1>1, <1>2
    <3> QED BY <1>1, <1>4, <2>1, <2>6, <2>10, <3>1 DEF Spelt
  <2>12. Call'
    BY <1>1, <2>1 DEF NumeralInv, Call
  <2>13. Counted'
    BY <1>1, <1>3, <1>4, <2>1 DEF Counted, Fits, P
  <2> QED BY <2>1, <2>9, <2>11, <2>12, <2>13 DEF NumeralInv, Counting
<1> QED BY <1>5, <1>6

\* The quotient by magnitude is the next digit, the remainder is what the digits
\* after it spell, and magnitude becomes the next smaller power.
LEMMA DigitNumeral ==
    ASSUME NumeralInv, next_digit
    PROVE  NumeralInv'
<1> DEFINE P == Pow(base)
<1>1. /\ pc = "digits" /\ offset < out_size
      /\ buf' = [buf EXCEPT ![offset] = Code(x \div magnitude)]
      /\ x' = x % magnitude /\ magnitude' = magnitude \div base /\ offset' = offset + 1
      /\ UNCHANGED <<pc, arg, base, bufsize, rest, ndigit, out_size>>
  BY DEF next_digit, frame
<1>2. /\ Call /\ ndigit \in Nat /\ ndigit > 0 /\ U \in Nat /\ U > 1 /\ out_size \in Nat
      /\ base \in Nat /\ base > 1 /\ base \in Bases /\ Memory \in Nat
      /\ bufsize \in Nat /\ bufsize <= Memory
  BY BaseOf, ItoaAssumption DEF NumeralInv, TypeOK, Call
<1>3. Absolute \in 0 .. U - 1 /\ Absolute' = Absolute /\ P' = P
  BY <1>1, <1>2, AbsOf DEF Absolute, Call
<1>4. /\ SignLength \in Nat /\ First \in Nat /\ SignLength <= First
      /\ SignLength' = SignLength /\ First' = First
  BY <1>1, <1>2, Lengths DEF SignLength, First
<1>5. /\ Fits(Absolute, base, ndigit) /\ out_size = First + ndigit /\ out_size < bufsize
      /\ \A k \in 0 .. offset - 1 : buf[k] = Shown(k)
      /\ buf \in [0 .. Memory - 1 -> {Unset} \cup Characters]
  BY <1>1 DEF NumeralInv, Counted, Spelt, TypeOK
<1>6. PICK j \in 0 .. ndigit : Spelling(j)
  BY <1>1 DEF NumeralInv, Spelt
<1>7. j \in Nat /\ j < ndigit /\ offset = First + j /\ offset \in Nat
  BY <1>1, <1>2, <1>4, <1>5, <1>6 DEF Spelling
<1> DEFINE m == P[ndigit - 1 - j]
<1>8. /\ magnitude = m /\ m \in Nat /\ m > 0 /\ P[ndigit - j] = base * m
      /\ x = Absolute % (base * m)
  <2>1. ndigit - j \in Nat /\ ndigit - j > 0 /\ (ndigit - j) - 1 = ndigit - 1 - j /\ j # ndigit
    BY <1>2, <1>7
  <2>2. m \in Nat /\ m > 0 /\ P[ndigit - j] = base * m
    <3>1. ndigit - 1 - j \in Nat
      BY <2>1
    <3> QED BY <1>2, <2>1, <3>1, PowersOf
  <2> QED BY <1>6, <2>1, <2>2 DEF Spelling
<1> HIDE DEF m
<1> DEFINE d == (Absolute \div m) % base
<1>9. /\ x \div magnitude = d /\ x' = Absolute % m /\ d \in 0 .. base - 1 /\ Absolute % m \in 0 .. m - 1
  <2>1. Absolute \in Nat
    BY <1>2, <1>3
  <2>2. /\ ((Absolute % (base * m)) \div m) = ((Absolute \div m) % base)
        /\ ((Absolute % (base * m)) % m) = (Absolute % m)
    <3>1. base \in Nat /\ base > 0 /\ m \in Nat /\ m > 0
      BY <1>2, <1>8
    <3> QED BY <2>1, <3>1, DivideTwice, Zenon
  <2>3. Absolute % m \in 0 .. m - 1 /\ Absolute \div m \in Nat
    BY <1>8, <2>1, Division
  <2>4. d \in 0 .. base - 1
    BY <1>2, <2>3, Division
  <2> QED BY <1>1, <1>8, <2>2, <2>3, <2>4
<1> HIDE DEF d
<1>10. Code(d) = Shown(offset)
  <2>1. ~(offset < SignLength) /\ ~(offset < First) /\ offset - First + 1 = j + 1
        /\ ndigit - (j + 1) = ndigit - 1 - j
    BY <1>2, <1>4, <1>7
  <2>2. Shown(offset) = Place(Absolute, base, ndigit, j + 1)
    BY <2>1 DEF Shown
  <2>3. Place(Absolute, base, ndigit, j + 1) = Code(d)
    BY <2>1 DEF Place, d, m
  <2> QED BY <2>2, <2>3
<1>11. offset \in 0 .. Memory - 1 /\ Code(d) \in Characters
  BY <1>1, <1>2, <1>5, <1>7, <1>9, CharactersKnown
<1>12. /\ buf' \in [0 .. Memory - 1 -> {Unset} \cup Characters]
       /\ buf'[offset] = Code(d) /\ \A k \in 0 .. Memory - 1 : k # offset => buf'[k] = buf[k]
  BY <1>1, <1>5, <1>9, <1>11
<1>13. \A k : Shown(k)' = Shown(k)
  BY <1>1, <1>3, <1>4 DEF Shown, Place, P
<1>14. ASSUME NEW k \in 0 .. offset' - 1 PROVE buf'[k] = Shown(k)'
  <2>1. k \in 0 .. offset /\ k \in 0 .. Memory - 1
    <3>1. offset' = offset + 1 /\ offset \in Nat /\ Memory \in Nat /\ offset <= Memory - 1
      BY <1>1, <1>2, <1>7, <1>11
    <3> QED BY <3>1
  <2>2. CASE k = offset
    BY <1>10, <1>12, <1>13, <2>2
  <2>3. CASE k # offset
    <3>1. k \in 0 .. offset - 1
      BY <1>7, <2>1, <2>3
    <3> QED BY <1>5, <1>12, <1>13, <2>1, <2>3, <3>1
  <2> QED BY <2>2, <2>3
<1>15. magnitude' = IF j + 1 = ndigit THEN 0 ELSE P[ndigit - 1 - (j + 1)]
  <2>1. CASE j + 1 = ndigit
    <3>1. ndigit - 1 - j = 0
      BY <1>2, <1>7, <2>1
    <3>2. m = 1
      BY <1>2, <3>1, PowersOf DEF m
    <3>3. 1 \div base = 0
      BY <1>2
    <3> QED BY <1>1, <1>8, <2>1, <3>2, <3>3
  <2>2. CASE j + 1 # ndigit
    <3> DEFINE q == P[ndigit - 1 - (j + 1)]
    <3>1. /\ ndigit - 1 - j \in Nat /\ ndigit - 1 - j > 0 /\ ndigit - 1 - (j + 1) \in Nat
          /\ (ndigit - 1 - j) - 1 = ndigit - 1 - (j + 1)
      BY <1>2, <1>7, <2>2
    <3>2. m = base * q /\ q \in Nat
      BY <1>2, <3>1, PowersOf DEF m
    <3> HIDE DEF q
    <3>3. m = (q * base) + 0 /\ 0 \in 0 .. base - 1
      BY <1>2, <3>2, Associate
    <3>4. m \div base = q
      BY <1>2, <3>2, <3>3, QuotientUnique
    <3> QED BY <1>1, <1>8, <2>2, <3>4 DEF q
  <2> QED BY <2>1, <2>2
<1>16. Spelling(j + 1)'
  <2>1. offset' = First + (j + 1) /\ ndigit - (j + 1) = ndigit - 1 - j
    BY <1>1, <1>2, <1>4, <1>7
  <2> QED BY <1>1, <1>3, <1>4, <1>9, <1>15, <2>1 DEF Spelling, P, m
<1>17. TypeOK'
  <2>1. /\ x \in 0 .. U - 1 /\ magnitude \in 0 .. U - 1 /\ rest \in 0 .. U - 1
    BY DEF NumeralInv, TypeOK
  <2>2. m \in 0 .. U - 1
    BY <1>8, <2>1
  <2>3. x' \in 0 .. U - 1
    BY <1>2, <1>8, <1>9, <2>2
  <2>4. magnitude' \in 0 .. U - 1
    <3>1. m \div base <= m /\ m \div base \in Nat
      <4>1. m >= base \/ m < base
        BY <1>2, <1>8
      <4>2. m < base => m \div base = 0
        BY <1>2, <1>8
      <4>3. m \div base \in Nat /\ (m >= base => m \div base < m)
        BY <1>2, <1>8, ShorterQuotient
      <4> DEFINE q == m \div base
      <4>4. q \in Nat /\ (m >= base => q < m) /\ (m < base => q = 0)
        BY <4>2, <4>3
      <4> HIDE DEF q
      <4>5. q <= m /\ q \in Nat
        BY <1>8, <4>1, <4>4
      <4> QED BY <4>5 DEF q
    <3> QED BY <1>1, <1>2, <1>8, <2>2, <3>1
  <2>5. offset' \in 0 .. out_size
    BY <1>1, <1>2, <1>7
  <2> QED BY <1>1, <1>2, <1>12, <2>1, <2>3, <2>4, <2>5 DEF TypeOK
<1>18. Spelt'
  <2>1. j + 1 \in 0 .. ndigit'
    BY <1>1, <1>2, <1>7
  <2> QED BY <1>1, <1>5, <1>14, <1>16, <2>1 DEF Spelt
<1>19. Call'
  BY <1>1 DEF NumeralInv, Call
<1>20. Counted'
  BY <1>1, <1>3, <1>4, <1>5 DEF Counted, Fits, P
<1> QED BY <1>1, <1>17, <1>18, <1>19, <1>20 DEF NumeralInv, Counting

\* The terminator follows the last digit.
LEMMA TerminateNumeral ==
    ASSUME NumeralInv, terminate
    PROVE  NumeralInv'
<1>1. /\ pc = "digits" /\ offset >= out_size /\ buf' = [buf EXCEPT ![out_size] = 0]
      /\ pc' = "written"
      /\ UNCHANGED <<x, arg, base, bufsize, rest, ndigit, magnitude, offset, out_size>>
  BY DEF terminate, frame
<1>2. /\ Call /\ out_size \in Nat /\ offset \in 0 .. out_size /\ Memory \in Nat
      /\ bufsize \in Nat /\ bufsize <= Memory
  BY ItoaAssumption DEF NumeralInv, TypeOK, Call
<1>3. /\ out_size < bufsize /\ \A k \in 0 .. offset - 1 : buf[k] = Shown(k)
      /\ buf \in [0 .. Memory - 1 -> {Unset} \cup Characters]
  BY <1>1 DEF NumeralInv, Spelt, TypeOK
<1>4. offset = out_size /\ out_size \in 0 .. Memory - 1
  BY <1>1, <1>2, <1>3
<1>5. /\ buf' \in [0 .. Memory - 1 -> {Unset} \cup Characters]
      /\ buf'[out_size] = 0 /\ \A k \in 0 .. out_size - 1 : buf'[k] = buf[k]
  BY <1>1, <1>2, <1>3, <1>4, CharactersKnown
<1>6. \A k : Shown(k)' = Shown(k)
  BY <1>1 DEF Shown, Place, First, SignLength, Absolute
<1>7. TypeOK' /\ Call'
  BY <1>1, <1>5 DEF NumeralInv, TypeOK, Call
<1>8. Spelt'
  BY <1>1, <1>3, <1>4, <1>5, <1>6 DEF Spelt
<1>9. Counted'
  BY <1>1 DEF NumeralInv, Counted, Fits, First, SignLength, Absolute
<1> QED BY <1>1, <1>7, <1>8, <1>9 DEF NumeralInv, Counting

\* Every step preserves the invariant.
LEMMA StepNumeral == NumeralInv /\ [Next]_vars => NumeralInv'
<1> SUFFICES ASSUME NumeralInv, [Next]_vars PROVE NumeralInv'
  OBVIOUS
<1>1. CASE Returned \/ UNCHANGED vars
  <2>1. UNCHANGED <<pc, x, arg, base, bufsize, rest, ndigit, magnitude, offset, out_size, buf>>
    BY <1>1 DEF Returned, vars, frame
  <2> QED BY <2>1 DEF NumeralInv, TypeOK, Call, Counting, Counted, Spelt, Spelling, Shown, Place,
                      Fits, First, SignLength, Absolute
<1> QED BY <1>1, IlogNumeral, CheckSizeNumeral, DigitNumeral, TerminateNumeral DEF Next, Running

\* The numeral of an argument with n digits, character by character.
LEMMA NumeralShown ==
    ASSUME NumeralInv, pc # "ilog"
    PROVE  Numeral(arg, base) = [k \in 1 .. out_size |-> Shown(k - 1)]
<1>1. /\ Call /\ ndigit \in Nat /\ base \in Nat /\ base > 1 /\ arg \in 0 .. U - 1
      /\ Fits(Absolute, base, ndigit) /\ out_size = First + ndigit
  BY BaseOf DEF NumeralInv, TypeOK, Call, Counted
<1>2. SignLength \in Nat /\ First \in Nat /\ SignLength <= First
  BY <1>1, Lengths
<1> DEFINE sign == IF Negative(arg) THEN <<Minus>> ELSE << >>
           pfx == Prefix(base)
           digits == [pos \in 1 .. ndigit |-> Place(Absolute, base, ndigit, pos)]
<1>3. Absolute \in Nat /\ Absolute = IF Negative(arg) THEN U - arg ELSE arg
  BY <1>1, AbsOf, ItoaAssumption DEF Absolute
<1>4. Digits(base)[Absolute] = digits
  BY <1>1, <1>3, DigitsPlaces
<1>5. Numeral(arg, base) = sign \o pfx \o digits
  BY <1>3, <1>4 DEF Numeral
<1>6. sign \in Seq({Minus}) /\ Len(sign) = SignLength /\ \A k \in 1 .. SignLength : sign[k] = Minus
  <2>1. CASE Negative(arg)
    <3>1. sign = <<Minus>> /\ SignLength = 1
      BY <2>1 DEF SignLength
    <3> HIDE DEF sign
    <3> QED BY <3>1
  <2>2. CASE ~Negative(arg)
    <3>1. sign = << >> /\ SignLength = 0
      BY <2>2 DEF SignLength
    <3> HIDE DEF sign
    <3> QED BY <3>1
  <2> QED BY <2>1, <2>2
<1>7. pfx \in Seq(Nat) /\ Len(pfx) = PrefixLength(base) /\ First = SignLength + Len(pfx)
  BY PrefixOf DEF First
<1>8. digits \in Seq({Place(Absolute, base, ndigit, pos) : pos \in 1 .. ndigit}) /\ Len(digits) = ndigit
  BY <1>1
<1> HIDE DEF sign, pfx
<1>9. sign \in Seq(Nat \cup {Minus}) /\ pfx \in Seq(Nat \cup {Minus})
  BY <1>6, <1>7
<1> DEFINE head == sign \o pfx
<1>10. /\ head \in Seq(Nat \cup {Minus}) /\ Len(head) = First
       /\ \A k \in 1 .. First : head[k] = IF k <= SignLength THEN sign[k] ELSE pfx[k - SignLength]
  BY <1>6, <1>7, <1>9, Concatenation, Zenon
<1> HIDE DEF digits, head
<1>11. /\ head \o digits = [k \in 1 .. First + ndigit |-> IF k <= First THEN head[k] ELSE digits[k - First]]
  <2>1. /\ head \in Seq(Nat \cup {Minus}) /\ Len(head) = First
        /\ digits \in Seq({Place(Absolute, base, ndigit, pos) : pos \in 1 .. ndigit}) /\ Len(digits) = ndigit
    BY <1>8, <1>10
  <2> DEFINE Any == (Nat \cup {Minus}) \cup {Place(Absolute, base, ndigit, pos) : pos \in 1 .. ndigit}
  <2>2. head \in Seq(Any) /\ digits \in Seq(Any)
    BY <2>1
  <2> HIDE DEF Any
  <2>3. /\ (head \o digits) \in Seq(Any) /\ Len(head \o digits) = First + ndigit
        /\ \A k \in 1 .. First + ndigit :
              (head \o digits)[k] = IF k <= First THEN head[k] ELSE digits[k - First]
    <3>1. Len(head) = First /\ Len(digits) = ndigit
      BY <2>1
    <3> QED BY <2>2, <3>1, Concatenation, Zenon
  <2>4. head \o digits = [k \in 1 .. First + ndigit |-> (head \o digits)[k]]
    BY <2>3, SequenceAsFunction
  <2> QED BY <2>3, <2>4
<1>12. ASSUME NEW k \in 1 .. First + ndigit
       PROVE  (IF k <= First THEN head[k] ELSE digits[k - First]) = Shown(k - 1)
  <2>1. CASE k <= SignLength
    <3>1. k - 1 < SignLength /\ k <= First /\ k \in 1 .. SignLength
      BY <1>1, <1>2, <2>1
    <3> QED BY <1>6, <1>10, <2>1, <3>1 DEF Shown
  <2>2. CASE SignLength < k /\ k <= First
    <3>1. /\ ~(k - 1 < SignLength) /\ SignLength <= k - 1 /\ k - 1 < First /\ k \in 1 .. First
          /\ ~(k <= SignLength) /\ (k - 1) - SignLength + 1 = k - SignLength
      BY <1>1, <1>2, <2>2
    <3> QED BY <1>10, <2>2, <3>1 DEF Shown, pfx
  <2>3. CASE First < k
    <3>1. /\ ~(k - 1 < SignLength) /\ ~(k - 1 < First) /\ ~(k <= First) /\ k - First \in 1 .. ndigit
          /\ (k - 1) - First + 1 = k - First
      BY <1>1, <1>2, <2>3
    <3>2. digits[k - First] = Place(Absolute, base, ndigit, k - First)
      BY <3>1 DEF digits
    <3> QED BY <3>1, <3>2 DEF Shown
  <2> QED BY <1>1, <1>2, <2>1, <2>2, <2>3
<1> QED BY <1>1, <1>5, <1>11, <1>12 DEF head

\* With every byte where it belongs the buffer holds the numeral.
LEMMA NumeralAtEnd == NumeralInv => ResultIsNumeral
<1> SUFFICES ASSUME NumeralInv PROVE ResultIsNumeral
  OBVIOUS
<1>1. out_size \in Nat
  BY DEF NumeralInv, TypeOK
<1>2. ASSUME pc = "written"
      PROVE  Numeral(arg, base) = [k \in 1 .. out_size |-> buf[k - 1]] /\ buf[out_size] = 0
  <2>1. offset = out_size /\ buf[out_size] = 0 /\ \A k \in 0 .. out_size - 1 : buf[k] = Shown(k)
    BY <1>2 DEF NumeralInv, Spelt
  <2>2. \A k \in 1 .. out_size : Shown(k - 1) = buf[k - 1]
    <3>1. \A k \in 1 .. out_size : k - 1 \in 0 .. out_size - 1
      BY <1>1
    <3> QED BY <2>1, <3>1
  <2>3. Numeral(arg, base) = [k \in 1 .. out_size |-> Shown(k - 1)]
    BY <1>2, NumeralShown
  <2> QED BY <2>1, <2>2, <2>3
<1>3. ASSUME pc = "failed"
      PROVE  bufsize <= out_size /\ out_size = Len(Numeral(arg, base))
  <2>1. bufsize <= out_size
    BY <1>3 DEF NumeralInv, Counted
  <2>2. Numeral(arg, base) = [k \in 1 .. out_size |-> Shown(k - 1)]
    BY <1>3, NumeralShown
  <2> QED BY <1>1, <2>1, <2>2
<1> QED BY <1>2, <1>3 DEF ResultIsNumeral

\* Registers stay in range, and the buffer holds nothing but characters of
\* numerals: every quotient of the digit loop is a digit.
THEOREM ItoaTypes == Spec => []TypeOK
<1>1. NumeralInv => TypeOK
  BY DEF NumeralInv
<1> QED BY <1>1, InitNumeral, StepNumeral, PTL DEF Spec

\* What _itoa leaves in the buffer is the numeral of its argument, of every one
\* and in every base, and a call that fails returns the length it would have had.
THEOREM ItoaIsNumeral == Spec => []ResultIsNumeral
BY InitNumeral, StepNumeral, NumeralAtEnd, PTL DEF Spec

-----------------------------------------------------------------------------
(* The characters of a numeral *)

\* Characters other than the terminator.
Printable == Nat \ {0}

\* No digit is written as the terminator.
LEMMA CodePrintable == \A d \in Nat : Code(d) \in Printable
BY DEF Code, Printable

\* No string of digits holds a terminator.
LEMMA DigitsPrintable ==
    ASSUME NEW b \in Nat, b > 1
    PROVE  \A k \in Nat : Digits(b)[k] \in Seq(Printable)
<1> DEFINE S == {k \in Nat : Digits(b)[k] \in Seq(Printable)}
<1>1. ASSUME NEW k \in Nat, \A m \in Nat : m < k => m \in S PROVE k \in S
  <2>1. k \div b \in Nat /\ k % b \in Nat /\ (k >= b => k \div b < k)
    BY ShorterQuotient
  <2>2. Code(k) \in Printable /\ Code(k % b) \in Printable
    BY <2>1, CodePrintable
  <2>3. Digits(b)[k] = IF k < b THEN <<Code(k)>> ELSE Append(Digits(b)[k \div b], Code(k % b))
    BY DigitsDefined DEF DigitsBody
  <2>4. CASE k < b
    <3>1. Digits(b)[k] = <<Code(k)>>
      BY <2>3, <2>4
    <3>2. <<Code(k)>> \in Seq(Printable)
      BY <2>2
    <3> QED BY <3>1, <3>2
  <2>5. CASE k >= b
    <3>1. Digits(b)[k \div b] \in Seq(Printable)
      BY <1>1, <2>1, <2>5
    <3>2. Digits(b)[k] = Append(Digits(b)[k \div b], Code(k % b))
      BY <2>3, <2>5
    <3>3. Append(Digits(b)[k \div b], Code(k % b)) \in Seq(Printable)
      BY <2>2, <3>1
    <3> QED BY <3>2, <3>3
  <2> QED BY <2>4, <2>5
<1>2. Nat \subseteq S
  <2> HIDE DEF S
  <2> QED BY <1>1, StrongInduct
<1> QED BY <1>2

\* No numeral holds a terminator, so the first one in the buffer ends it.
LEMMA NumeralPrintable ==
    ASSUME NEW u \in 0 .. U - 1, NEW b \in Bases
    PROVE  Numeral(u, b) \in Seq(Printable) /\ Numeral(u, b) \in Seq(Nat) /\ Len(Numeral(u, b)) \in Nat
<1> DEFINE sign == IF Negative(u) THEN <<Minus>> ELSE << >>
           size == IF Negative(u) THEN U - u ELSE u
<1>1. sign \in Seq(Printable)
  <2>1. Minus \in Printable
    BY DEF Minus, Printable
  <2>2. CASE Negative(u)
    <3>1. sign = <<Minus>>
      BY <2>2
    <3> HIDE DEF sign
    <3> QED BY <2>1, <3>1
  <2>3. CASE ~Negative(u)
    <3>1. sign = << >>
      BY <2>3
    <3> HIDE DEF sign
    <3> QED BY <3>1
  <2> QED BY <2>2, <2>3
<1>2. Prefix(b) \in Seq(Printable)
  <2>1. 48 \in Printable /\ 98 \in Printable /\ 97 \in Printable /\ 120 \in Printable
    BY DEF Printable
  <2>2. CASE b = 2
    <3>1. Prefix(b) = <<48, 98>>
      BY <2>2 DEF Prefix
    <3> QED BY <2>1, <3>1
  <2>3. CASE b = 8
    <3>1. Prefix(b) = <<48, 97>>
      BY <2>3 DEF Prefix
    <3> QED BY <2>1, <3>1
  <2>4. CASE b = 16
    <3>1. Prefix(b) = <<48, 120>>
      BY <2>4 DEF Prefix
    <3> QED BY <2>1, <3>1
  <2>5. CASE b \notin {2, 8, 16}
    <3>1. Prefix(b) = << >>
      BY <2>5 DEF Prefix
    <3> QED BY <3>1
  <2> QED BY <2>2, <2>3, <2>4, <2>5
<1>3. size \in Nat
  BY ItoaAssumption
<1>4. Digits(b)[size] \in Seq(Printable)
  BY <1>3, BaseOf, DigitsPrintable
<1>5. Numeral(u, b) = sign \o Prefix(b) \o Digits(b)[size]
  BY DEF Numeral
<1> HIDE DEF sign, size
<1>6. sign \o Prefix(b) \in Seq(Printable)
  BY <1>1, <1>2
<1>7. Numeral(u, b) \in Seq(Printable)
  BY <1>4, <1>5, <1>6
<1> QED BY <1>7 DEF Printable

\* A number below the n-th power of the base has at most n digits.
LEMMA FewDigits ==
    ASSUME NEW b \in Nat, b > 1
    PROVE  \A n \in Nat : \A k \in Nat : k < Pow(b)[n + 1] => Len(Digits(b)[k]) <= n + 1
<1> DEFINE S == {n \in Nat : \A k \in Nat : k < Pow(b)[n + 1] => Len(Digits(b)[k]) <= n + 1}
<1>1. \A k \in Nat : Digits(b)[k] = IF k < b THEN <<Code(k)>> ELSE Append(Digits(b)[k \div b], Code(k % b))
  BY DigitsDefined DEF DigitsBody
<1>2. ASSUME NEW k \in Nat, k < b PROVE Len(Digits(b)[k]) = 1
  <2>1. Digits(b)[k] = <<Code(k)>>
    BY <1>1, <1>2
  <2> QED BY <2>1
<1>3. 0 \in S
  <2>1. Pow(b)[0] = 1 /\ \A n \in Nat : Pow(b)[n + 1] = b * Pow(b)[n]
    BY PowIterates
  <2>2. b * 1 = b
    OBVIOUS
  <2>3. Pow(b)[0 + 1] = b
    BY <2>1, <2>2
  <2>4. ASSUME NEW k \in Nat, k < Pow(b)[0 + 1] PROVE Len(Digits(b)[k]) <= 0 + 1
    <3>1. k < b
      BY <2>3, <2>4
    <3>2. Len(Digits(b)[k]) = 1
      BY <1>2, <3>1
    <3> QED BY <3>2
  <2> QED BY <2>4
<1>4. ASSUME NEW n \in Nat, n \in S PROVE n + 1 \in S
  <2>1. SUFFICES ASSUME NEW k \in Nat, k < Pow(b)[(n + 1) + 1] PROVE Len(Digits(b)[k]) <= (n + 1) + 1
    OBVIOUS
  <2>2. CASE k < b
    <3>1. Len(Digits(b)[k]) = 1
      BY <1>2, <2>2
    <3> QED BY <3>1
  <2>3. CASE k >= b
    <3> DEFINE q == k \div b
               s == Digits(b)[q]
               P == Pow(b)[n + 1]
    <3>1. q \in Nat /\ k % b \in 0 .. b - 1 /\ k = q * b + (k % b)
      BY Division
    <3>2. q < P
      <4>0. P \in Nat /\ n + 1 \in Nat
        BY PowPositive
      <4>1. P \in Nat /\ k < b * P
        BY <2>1, <4>0, PowIterates
      <4> HIDE DEF P, q
      <4>2. SUFFICES ASSUME P <= q PROVE FALSE
        BY <3>1, <4>1
      <4>3. b * P <= q * b
        <5>1. P * b <= q * b /\ P * b = b * P
          BY <3>1, <4>1, <4>2, TimesMonotone, Associate
        <5> QED BY <5>1
      <4>4. q * b \in Nat /\ b * P \in Nat
        BY <3>1, <4>1, TimesMonotone
      <4> QED BY <3>1, <4>1, <4>3, <4>4
    <3>3. Len(s) <= n + 1
      <4> HIDE DEF q
      <4> QED BY <1>4, <3>1, <3>2
    <3>4. s \in Seq(Printable) /\ Code(k % b) \in Printable
      <4>1. k % b \in Nat
        BY <3>1
      <4> HIDE DEF q
      <4>2. s \in Seq(Printable)
        BY <3>1, DigitsPrintable
      <4>3. Code(k % b) \in Printable
        BY <4>1, CodePrintable
      <4> QED BY <4>2, <4>3
    <3>5. Digits(b)[k] = Append(s, Code(k % b))
      <4>1. ~(k < b)
        BY <2>3
      <4> QED BY <1>1, <4>1, Zenon
    <3> HIDE DEF s
    <3> DEFINE c == Code(k % b)
    <3> HIDE DEF c
    <3>6. Len(Append(s, c)) = Len(s) + 1 /\ Len(s) \in Nat
      BY <3>4 DEF c
    <3> QED BY <3>3, <3>5, <3>6 DEF c
  <2> QED BY <2>2, <2>3
<1>5. Nat \subseteq S
  <2> HIDE DEF S
  <2> QED BY <1>3, <1>4, Induct
<1> QED BY <1>5

\* Every number of 32 bits has at most 10 decimal and 8 hexadecimal digits.
LEMMA Powers32 == Pow(10)[9 + 1] >= 256 * (256 * (256 * 256)) /\ Pow(16)[7 + 1] >= 256 * (256 * (256 * 256))
<1>1. ASSUME NEW b \in Nat
      PROVE  /\ Pow(b)[1] = b * 1 /\ Pow(b)[2] = b * Pow(b)[1] /\ Pow(b)[3] = b * Pow(b)[2]
             /\ Pow(b)[4] = b * Pow(b)[3] /\ Pow(b)[5] = b * Pow(b)[4] /\ Pow(b)[6] = b * Pow(b)[5]
             /\ Pow(b)[7] = b * Pow(b)[6] /\ Pow(b)[8] = b * Pow(b)[7] /\ Pow(b)[9] = b * Pow(b)[8]
             /\ Pow(b)[10] = b * Pow(b)[9]
  <2>1. Pow(b)[0] = 1 /\ \A n \in Nat : Pow(b)[n + 1] = b * Pow(b)[n]
    BY PowIterates
  <2>2. /\ 0 + 1 = 1 /\ 1 + 1 = 2 /\ 2 + 1 = 3 /\ 3 + 1 = 4 /\ 4 + 1 = 5 /\ 5 + 1 = 6 /\ 6 + 1 = 7
        /\ 7 + 1 = 8 /\ 8 + 1 = 9 /\ 9 + 1 = 10
    OBVIOUS
  <2> QED BY <2>1, <2>2
<1>2. Pow(10)[10] = 100 * (100 * (100 * (100 * 100)))
  <2>1. Pow(10)[1] = 10 /\ Pow(10)[2] = 100 /\ Pow(10)[3] = 1000 /\ Pow(10)[4] = 10000 /\ Pow(10)[5] = 100000
    BY <1>1, SMT
  <2> QED BY <1>1, <2>1, SMT
<1>3. Pow(16)[8] = 256 * (256 * (256 * 256))
  <2>1. Pow(16)[1] = 16 /\ Pow(16)[2] = 256 /\ Pow(16)[3] = 4096 /\ Pow(16)[4] = 65536
    BY <1>1, SMT
  <2> QED BY <1>1, <2>1, SMT
<1> QED BY <1>2, <1>3, SMT

\* The length of a numeral, from the power that reaches every integer.
LEMMA NumeralLength ==
    ASSUME NEW n \in 0 .. U - 1, NEW b \in Nat, b > 1, NEW d \in Nat, U <= Pow(b)[d + 1]
    PROVE  Len(Numeral(n, b)) <= 1 + PrefixLength(b) + (d + 1)
<1> DEFINE sign == IF Negative(n) THEN <<Minus>> ELSE << >>
           pfx == Prefix(b)
           size == IF Negative(n) THEN U - n ELSE n
           digits == Digits(b)[size]
<1>1. size \in Nat /\ size < U /\ U \in Nat
  <2>1. Negative(n) => n > 0
    BY ItoaAssumption DEF Negative
  <2> QED BY <2>1, ItoaAssumption
<1>2. Numeral(n, b) = sign \o pfx \o digits
  BY DEF Numeral
<1>3. sign \in Seq(Nat \cup {Minus}) /\ Len(sign) <= 1 /\ Len(sign) \in Nat
  <2>1. CASE Negative(n)
    <3>1. sign = <<Minus>>
      BY <2>1
    <3> HIDE DEF sign
    <3> QED BY <3>1
  <2>2. CASE ~Negative(n)
    <3>1. sign = << >>
      BY <2>2
    <3> HIDE DEF sign
    <3> QED BY <3>1
  <2> QED BY <2>1, <2>2
<1>4. pfx \in Seq(Nat \cup {Minus}) /\ Len(pfx) \in Nat /\ Len(pfx) = PrefixLength(b)
  <2>1. pfx \in Seq(Nat) /\ Len(pfx) = PrefixLength(b)
    BY PrefixOf
  <2> HIDE DEF pfx
  <2> QED BY <2>1
<1>5. digits \in Seq(Nat \cup {Minus}) /\ Len(digits) \in Nat
  <2> HIDE DEF size
  <2>1. digits \in Seq(Printable)
    BY <1>1, DigitsPrintable
  <2> HIDE DEF digits
  <2> QED BY <2>1 DEF Printable
<1>6. Len(digits) <= d + 1
  <2> HIDE DEF size
  <2>1. size < Pow(b)[d + 1]
    <3>1. Pow(b)[d + 1] \in Nat
      BY PowPositive
    <3> QED BY <1>1, <3>1
  <2> QED BY <1>1, <2>1, FewDigits
<1> HIDE DEF sign, pfx, digits
<1>7. Len(sign \o pfx \o digits) = (Len(sign) + Len(pfx)) + Len(digits)
  <2> DEFINE head == sign \o pfx
  <2>1. head \in Seq(Nat \cup {Minus}) /\ Len(head) = Len(sign) + Len(pfx)
    BY <1>3, <1>4
  <2> HIDE DEF head
  <2>2. Len(head \o digits) = Len(head) + Len(digits)
    BY <1>5, <2>1
  <2> QED BY <2>1, <2>2 DEF head
<1> QED BY <1>2, <1>3, <1>4, <1>5, <1>6, <1>7

\* If the powers of both bases reach the integers.
LEMMA PowersSuffice ==
    ASSUME U <= Pow(10)[9 + 1], U <= Pow(16)[7 + 1]
    PROVE  \A n \in 0 .. U - 1 : \A b \in {10, 16} : Len(Numeral(n, b)) <= 11
<1>1. ASSUME NEW n \in 0 .. U - 1, NEW b \in Nat, b = 10 PROVE Len(Numeral(n, b)) <= 11
  <2>1. PICK d \in Nat : d = 9
    OBVIOUS
  <2>2. b > 1 /\ U <= Pow(b)[d + 1] /\ PrefixLength(b) = 0
    BY <1>1, <2>1 DEF PrefixLength
  <2>3. Len(Numeral(n, b)) <= 1 + PrefixLength(b) + (d + 1)
    BY <2>2, NumeralLength
  <2>4. 1 + PrefixLength(b) + (d + 1) = 11
    BY <2>1, <2>2
  <2> QED BY <2>3, <2>4
<1>2. ASSUME NEW n \in 0 .. U - 1, NEW b \in Nat, b = 16 PROVE Len(Numeral(n, b)) <= 11
  <2>1. PICK d \in Nat : d = 7
    OBVIOUS
  <2>2. b > 1 /\ U <= Pow(b)[d + 1] /\ PrefixLength(b) = 2
    BY <1>2, <2>1 DEF PrefixLength
  <2>3. Len(Numeral(n, b)) <= 1 + PrefixLength(b) + (d + 1)
    BY <2>2, NumeralLength
  <2>4. 1 + PrefixLength(b) + (d + 1) = 11
    BY <2>1, <2>2
  <2> QED BY <2>3, <2>4
<1> QED BY <1>1, <1>2

\* With 32-bit integers no number takes more than 11 characters.
THEOREM BufferSuffices ==
    U = 256 * (256 * (256 * 256)) =>
        \A n \in 0 .. U - 1 : \A b \in {10, 16} : Len(Numeral(n, b)) <= 11
<1>1. U = 256 * (256 * (256 * 256)) => U <= Pow(10)[9 + 1] /\ U <= Pow(16)[7 + 1]
  BY Powers32, SMT
<1> QED BY <1>1, PowersSuffice, Zenon

-----------------------------------------------------------------------------
(* The expansion of a message *)

\* Concatenation under a name of its own, for citing facts about it.
Joined(s, t) == s \o t

\* The right-hand side of the definition of Expanded, for any F in its place.
ExpandedBody(m, args, F, c) ==
    IF c[1] > Len(m) THEN << >>
    ELSE IF m[c[1]] # Percent THEN <<m[c[1]]>> \o F[<<c[1] + 1, c[2]>>]
    ELSE IF m[c[1] + 1] = Percent THEN <<Percent>> \o F[<<c[1] + 2, c[2]>>]
    ELSE Shape(m[c[1] + 1], args[c[2] + 1]) \o F[<<c[1] + 2, c[2] + 1>>]

\* A position in the format and a number of arguments used.
Places == Nat \X Nat

\* The recursive definition of Expanded has a solution, so Expanded satisfies it.
\* It is built from the end of the format on, one position more at a time.
LEMMA ExpandedDefined ==
    ASSUME NEW m, Len(m) \in Nat, NEW args
    PROVE  \A c \in Places : Expanded(m, args)[c] = ExpandedBody(m, args, Expanded(m, args), c)
<1> DEFINE Body(F, c) == ExpandedBody(m, args, F, c)
           Solves(F, d) == /\ F = [c \in Places |-> F[c]]
                           /\ \A c \in Places : c[1] + d > Len(m) => F[c] = Body(F, c)
           S == {d \in Nat : \E F : Solves(F, d)}
<1>1. ASSUME NEW F, NEW G, NEW c \in Places,
             \A e \in Places : e[1] > c[1] => F[e] = G[e]
      PROVE  Body(F, c) = Body(G, c)
  <2>1. /\ <<c[1] + 1, c[2]>> \in Places /\ <<c[1] + 2, c[2]>> \in Places /\ <<c[1] + 2, c[2] + 1>> \in Places
        /\ c[1] \in Nat
    BY DEF Places
  <2>2. /\ F[<<c[1] + 1, c[2]>>] = G[<<c[1] + 1, c[2]>>]
        /\ F[<<c[1] + 2, c[2]>>] = G[<<c[1] + 2, c[2]>>]
        /\ F[<<c[1] + 2, c[2] + 1>>] = G[<<c[1] + 2, c[2] + 1>>]
    BY <1>1, <2>1
  <2> QED BY <2>2, Zenon DEF ExpandedBody
<1>2. ASSUME NEW c \in Places, NEW F, c[1] > Len(m) PROVE Body(F, c) = << >>
  BY <1>2 DEF ExpandedBody
<1>3. 0 \in S
  <2> DEFINE F == [c \in Places |-> << >>]
  <2>1. F = [c \in Places |-> F[c]]
    OBVIOUS
  <2>2. ASSUME NEW c \in Places, c[1] + 0 > Len(m) PROVE F[c] = Body(F, c)
    <3>1. c[1] > Len(m)
      BY <2>2 DEF Places
    <3>2. F[c] = << >>
      OBVIOUS
    <3> HIDE DEF F, Body
    <3> QED BY <1>2, <3>1, <3>2
  <2> HIDE DEF F, Body
  <2> QED BY <2>1, <2>2
<1>4. ASSUME NEW d \in Nat, d \in S PROVE d + 1 \in S
  <2>1. PICK F : Solves(F, d)
    BY <1>4
  <2> DEFINE G == [c \in Places |-> IF c[1] + d > Len(m) THEN F[c] ELSE Body(F, c)]
  <2>2. ASSUME NEW c \in Places, c[1] + (d + 1) > Len(m) PROVE G[c] = Body(G, c)
    <3>1. c[1] \in Nat
      BY DEF Places
    <3>2. ASSUME NEW e \in Places, e[1] > c[1] PROVE F[e] = G[e]
      <4>1. e[1] + d > Len(m)
        BY <2>2, <3>1, <3>2 DEF Places
      <4> HIDE DEF Body
      <4> QED BY <4>1
    <3>3. Body(F, c) = Body(G, c)
      <4> HIDE DEF G, Body
      <4> QED BY <1>1, <3>2
    <3>4. G[c] = IF c[1] + d > Len(m) THEN F[c] ELSE Body(F, c)
      BY DEF Body
    <3>5. G[c] = Body(F, c)
      <4> HIDE DEF G, Body
      <4> QED BY <2>1, <3>4
    <3> QED BY <3>3, <3>5
  <2>3. G = [c \in Places |-> G[c]]
    OBVIOUS
  <2> HIDE DEF G, Body
  <2>4. Solves(G, d + 1)
    BY <2>2, <2>3
  <2> HIDE DEF Solves
  <2> QED BY <2>4
<1>5. Nat \subseteq S
  <2> HIDE DEF S
  <2> QED BY <1>3, <1>4, Induct
<1>6. \E F : Solves(F, Len(m) + 1)
  <2> HIDE DEF Solves
  <2>1. Len(m) + 1 \in S
    BY <1>5
  <2> QED BY <2>1
<1>7. \E F : F = [c \in Places |-> Body(F, c)]
  <2> HIDE DEF Body
  <2>1. PICK F : Solves(F, Len(m) + 1)
    BY <1>6
  <2>2. \A c \in Places : c[1] + (Len(m) + 1) > Len(m)
    BY DEF Places
  <2>3. F = [c \in Places |-> F[c]] /\ \A c \in Places : F[c] = Body(F, c)
    BY <2>1, <2>2
  <2>4. F = [c \in Places |-> Body(F, c)]
    BY <2>3, Zenon
  <2> QED BY <2>4
<1>8. Expanded(m, args) = CHOOSE F : F = [c \in Places |-> Body(F, c)]
  BY DEF Expanded, ExpandedBody, Places
<1>9. Expanded(m, args) = [c \in Places |-> Body(Expanded(m, args), c)]
  <2> HIDE DEF Body
  <2> QED BY <1>7, <1>8
<1> QED BY <1>9

\* The expansion from position p of f on, when n of the arguments are used.
TextFrom(f, args, p, n) == Expanded(f, args)[<<p, n>>]

\* Behind the format the expansion has no more characters,
LEMMA TextAtEnd ==
    ASSUME NEW m, Len(m) \in Nat, NEW args, NEW p \in Nat, NEW n \in Nat, p > Len(m)
    PROVE  TextFrom(m, args, p, n) = << >>
<1> DEFINE E == Expanded(m, args)
<1>1. E[<<p, n>>] = ExpandedBody(m, args, E, <<p, n>>)
  BY ExpandedDefined DEF Places
<1> HIDE DEF E
<1>2. p > Len(m)
  OBVIOUS
<1>3. ExpandedBody(m, args, E, <<p, n>>) = << >>
  BY <1>2 DEF ExpandedBody
<1> QED BY <1>1, <1>3, Zenon DEF E, TextFrom

\* at a character that stands for itself it starts with that one,
LEMMA TextAtCharacter ==
    ASSUME NEW m, Len(m) \in Nat, NEW args, NEW p \in Nat, NEW n \in Nat, p <= Len(m), m[p] # Percent
    PROVE  TextFrom(m, args, p, n) = <<m[p]>> \o TextFrom(m, args, p + 1, n)
<1> DEFINE E == Expanded(m, args)
<1>1. E[<<p, n>>] = ExpandedBody(m, args, E, <<p, n>>)
  BY ExpandedDefined DEF Places
<1> HIDE DEF E
<1>2. ~(p > Len(m))
  OBVIOUS
<1>3. ExpandedBody(m, args, E, <<p, n>>) = <<m[p]>> \o E[<<p + 1, n>>]
  BY <1>2 DEF ExpandedBody
<1> QED BY <1>1, <1>3, Zenon DEF E, TextFrom

\* at two percent signs with one of them,
LEMMA TextAtPercent ==
    ASSUME NEW m, Len(m) \in Nat, NEW args, NEW p \in Nat, NEW n \in Nat, p <= Len(m), m[p] = Percent, m[p + 1] = Percent
    PROVE  TextFrom(m, args, p, n) = <<Percent>> \o TextFrom(m, args, p + 2, n)
<1> DEFINE E == Expanded(m, args)
<1>1. E[<<p, n>>] = ExpandedBody(m, args, E, <<p, n>>)
  BY ExpandedDefined DEF Places
<1> HIDE DEF E
<1>2. ~(p > Len(m))
  OBVIOUS
<1>3. ExpandedBody(m, args, E, <<p, n>>) = <<Percent>> \o E[<<p + 2, n>>]
  BY <1>2 DEF ExpandedBody
<1> QED BY <1>1, <1>3, Zenon DEF E, TextFrom

\* and at another specifier with what it stands for.
LEMMA TextAtSpecifier ==
    ASSUME NEW m, Len(m) \in Nat, NEW args, NEW p \in Nat, NEW n \in Nat, p <= Len(m), m[p] = Percent, m[p + 1] # Percent
    PROVE  TextFrom(m, args, p, n) = Shape(m[p + 1], args[n + 1]) \o TextFrom(m, args, p + 2, n + 1)
<1> DEFINE E == Expanded(m, args)
<1>1. E[<<p, n>>] = ExpandedBody(m, args, E, <<p, n>>)
  BY ExpandedDefined DEF Places
<1> HIDE DEF E
<1>2. ~(p > Len(m))
  OBVIOUS
<1>3. ExpandedBody(m, args, E, <<p, n>>) = Shape(m[p + 1], args[n + 1]) \o E[<<p + 2, n + 1>>]
  BY <1>2 DEF ExpandedBody
<1> QED BY <1>1, <1>3, Zenon DEF E, TextFrom

-----------------------------------------------------------------------------
(* Sequences *)

\* Sequences are equal that agree in length and elements.
LEMMA SameSequence ==
    ASSUME NEW T, NEW s \in Seq(T), NEW t \in Seq(T), Len(s) = Len(t),
           \A k \in 1 .. Len(s) : s[k] = t[k]
    PROVE  s = t
BY SequenceAsFunction

\* Concatenation associates.
LEMMA AssociateSequences ==
    ASSUME NEW T, NEW r \in Seq(T), NEW s \in Seq(T), NEW t \in Seq(T)
    PROVE  (r \o s) \o t = r \o (s \o t)
<1> DEFINE st == s \o t
           rs == r \o s
<1>0. Len(r) \in Nat /\ Len(s) \in Nat /\ Len(t) \in Nat
  OBVIOUS
<1>1. /\ st \in Seq(T) /\ Len(st) = Len(s) + Len(t)
      /\ \A k \in 1 .. Len(s) + Len(t) : st[k] = IF k <= Len(s) THEN s[k] ELSE t[k - Len(s)]
  BY Concatenation
<1>2. /\ rs \in Seq(T) /\ Len(rs) = Len(r) + Len(s)
      /\ \A k \in 1 .. Len(r) + Len(s) : rs[k] = IF k <= Len(r) THEN r[k] ELSE s[k - Len(r)]
  BY Concatenation
<1> HIDE DEF st, rs
<1>3. /\ r \o st \in Seq(T) /\ Len(r \o st) = Len(r) + Len(st)
      /\ \A k \in 1 .. Len(r) + Len(st) : (r \o st)[k] = IF k <= Len(r) THEN r[k] ELSE st[k - Len(r)]
  <2>1. st \in Seq(T)
    BY <1>1
  <2> QED BY <2>1, Concatenation, Zenon
<1>4. /\ rs \o t \in Seq(T) /\ Len(rs \o t) = Len(rs) + Len(t)
      /\ \A k \in 1 .. Len(rs) + Len(t) : (rs \o t)[k] = IF k <= Len(rs) THEN rs[k] ELSE t[k - Len(rs)]
  <2>1. rs \in Seq(T)
    BY <1>2
  <2> QED BY <2>1, Concatenation, Zenon
<1> DEFINE n == Len(r) + (Len(s) + Len(t))
<1>5. Len(r \o st) = n /\ Len(rs \o t) = n /\ Len(r) + Len(st) = n /\ Len(rs) + Len(t) = n
  BY <1>0, <1>1, <1>2, <1>3, <1>4
<1>6. ASSUME NEW k \in 1 .. n PROVE (r \o st)[k] = (rs \o t)[k]
  <2>1. CASE k <= Len(r)
    <3>1. (r \o st)[k] = r[k]
      BY <1>3, <1>5, <2>1
    <3>2. k <= Len(rs) /\ k \in 1 .. Len(r) + Len(s)
      BY <1>0, <1>2, <2>1
    <3>3. (rs \o t)[k] = rs[k] /\ rs[k] = r[k]
      BY <1>2, <1>4, <1>5, <2>1, <3>2
    <3> QED BY <3>1, <3>3
  <2>2. CASE k > Len(r) /\ k <= Len(r) + Len(s)
    <3>1. /\ ~(k <= Len(r)) /\ k - Len(r) \in 1 .. Len(s) + Len(t) /\ k - Len(r) <= Len(s)
          /\ k <= Len(rs) /\ k \in 1 .. Len(r) + Len(s)
      BY <1>0, <1>2, <2>2
    <3>2. (r \o st)[k] = st[k - Len(r)] /\ st[k - Len(r)] = s[k - Len(r)]
      BY <1>1, <1>3, <1>5, <3>1
    <3>3. (rs \o t)[k] = rs[k] /\ rs[k] = s[k - Len(r)]
      BY <1>2, <1>4, <1>5, <3>1
    <3> QED BY <3>2, <3>3
  <2>3. CASE k > Len(r) + Len(s)
    <3>1. /\ ~(k <= Len(r)) /\ k - Len(r) \in 1 .. Len(s) + Len(t) /\ ~(k - Len(r) <= Len(s))
          /\ ~(k <= Len(rs)) /\ (k - Len(r)) - Len(s) = k - Len(rs)
      BY <1>0, <1>2, <2>3
    <3>2. (r \o st)[k] = st[k - Len(r)] /\ st[k - Len(r)] = t[(k - Len(r)) - Len(s)]
      BY <1>1, <1>3, <1>5, <3>1
    <3>3. (rs \o t)[k] = t[k - Len(rs)]
      BY <1>4, <1>5, <3>1
    <3> QED BY <3>1, <3>2, <3>3
  <2>4. k <= Len(r) \/ (k > Len(r) /\ k <= Len(r) + Len(s)) \/ k > Len(r) + Len(s)
    BY <1>0
  <2> QED BY <2>1, <2>2, <2>3, <2>4
<1> HIDE DEF n
<1>7. r \o st = rs \o t
  BY <1>3, <1>4, <1>5, <1>6, SameSequence
<1> QED BY <1>7 DEF st, rs

\* The same, quantified.
LEMMA AssociateAll ==
    ASSUME NEW T
    PROVE  \A r \in Seq(T), s \in Seq(T), t \in Seq(T) : (r \o s) \o t = r \o (s \o t)
BY AssociateSequences

\* The same under the name.
LEMMA JoinedAssociate ==
    ASSUME NEW T
    PROVE  \A r \in Seq(T), s \in Seq(T), t \in Seq(T) : Joined(Joined(r, s), t) = Joined(r, Joined(s, t))
BY AssociateAll DEF Joined

\* The empty sequence changes nothing.
LEMMA EmptySequence ==
    ASSUME NEW T, NEW s \in Seq(T)
    PROVE  << >> \o s = s /\ s \o << >> = s /\ << >> \in Seq(T)
<1>1. << >> \in Seq(T) /\ Len(<< >>) = 0 /\ Len(s) \in Nat
  OBVIOUS
<1>2. /\ << >> \o s \in Seq(T) /\ Len(<< >> \o s) = Len(s) /\ s \o << >> \in Seq(T) /\ Len(s \o << >>) = Len(s)
      /\ \A k \in 1 .. Len(s) : (<< >> \o s)[k] = s[k] /\ (s \o << >>)[k] = s[k]
  BY <1>1
<1> QED BY <1>1, <1>2, SameSequence

\* Append concatenates one element.
LEMMA AppendIsConcatenation ==
    ASSUME NEW T, NEW s \in Seq(T), NEW e \in T
    PROVE  Append(s, e) = s \o <<e>> /\ <<e>> \in Seq(T) /\ Append(s, e) \in Seq(T)
<1>1. <<e>> \in Seq(T) /\ Append(s, e) \in Seq(T) /\ s \o <<e>> \in Seq(T)
  OBVIOUS
<1>2. Len(Append(s, e)) = Len(s) + 1 /\ Len(s \o <<e>>) = Len(s) + 1
  OBVIOUS
<1>3. \A k \in 1 .. Len(s) + 1 : Append(s, e)[k] = (s \o <<e>>)[k]
  OBVIOUS
<1> QED BY <1>1, <1>2, <1>3, SameSequence

\* A sequence is its first element and the rest.
LEMMA FirstAndTail ==
    ASSUME NEW T, NEW s \in Seq(T), s # << >>
    PROVE  s = <<s[1]>> \o Tail(s) /\ s[1] \in T /\ Tail(s) \in Seq(T)
<1>1. s[1] \in T /\ Tail(s) \in Seq(T) /\ Len(s) \in Nat /\ Len(s) > 0 /\ Len(Tail(s)) = Len(s) - 1
      /\ \A k \in 1 .. Len(s) - 1 : Tail(s)[k] = s[k + 1]
  OBVIOUS
<1>2. <<s[1]>> \in Seq(T) /\ Len(<<s[1]>>) = 1 /\ <<s[1]>>[1] = s[1]
  BY <1>1
<1> DEFINE h == <<s[1]>>
           t == Tail(s)
<1> HIDE DEF h, t
<1>3. /\ h \o t \in Seq(T) /\ Len(h \o t) = Len(h) + Len(t)
      /\ \A k \in 1 .. Len(h) + Len(t) : (h \o t)[k] = IF k <= Len(h) THEN h[k] ELSE t[k - Len(h)]
  BY <1>1, <1>2, Concatenation DEF h, t
<1>4. Len(h) = 1 /\ Len(t) = Len(s) - 1 /\ h[1] = s[1] /\ \A k \in 1 .. Len(s) - 1 : t[k] = s[k + 1]
  BY <1>1, <1>2 DEF h, t
<1>5. Len(h \o t) = Len(s)
  BY <1>1, <1>3, <1>4
<1>6. ASSUME NEW k \in 1 .. Len(s) PROVE s[k] = (h \o t)[k]
  <2>1. CASE k = 1
    BY <1>1, <1>3, <1>4, <2>1
  <2>2. CASE k > 1
    <3>1. k - 1 \in 1 .. Len(s) - 1 /\ (k - 1) + 1 = k /\ ~(k <= 1) /\ k \in 1 .. Len(h) + Len(t)
      BY <1>1, <1>4, <2>2
    <3> QED BY <1>3, <1>4, <3>1
  <2>3. k = 1 \/ k > 1
    BY <1>1
  <2> QED BY <2>1, <2>2, <2>3
<1>7. s = h \o t
  BY <1>3, <1>5, <1>6, SameSequence
<1> QED BY <1>1, <1>7 DEF h, t

-----------------------------------------------------------------------------
(* What has been written and what is to come *)

\* What va_arg may find.
Arguments == Letters \cup Strings \cup Numbers

\* Whatever arguments more are taken after g: the expansion of f is what is out,
\* what is owed before reading on, and the expansion from position p on.
Tells(f, o, owed, g, p) ==
    \A more \in Seq(Arguments) :
        TextFrom(f, g \o more, p, Len(g)) \in Seq(Nat) =>
            TextFrom(f, g \o more, 1, 0) = o \o (owed \o TextFrom(f, g \o more, p, Len(g)))

\* Writing the first of the characters that are owed.
LEMMA TellsWrite ==
    ASSUME NEW f, NEW g, NEW p, NEW o \in Seq(Nat), NEW w \in Seq(Nat), w # << >>,
           Tells(f, o, w, g, p)
    PROVE  Tells(f, Append(o, w[1]), Tail(w), g, p)
<1> DEFINE c == <<w[1]>>
           t == Tail(w)
<1>1. w = c \o t /\ w[1] \in Nat /\ t \in Seq(Nat)
  BY FirstAndTail
<1>2. Append(o, w[1]) = o \o c /\ c \in Seq(Nat)
  BY <1>1, AppendIsConcatenation
<1> HIDE DEF c, t
<1>3. ASSUME NEW r \in Seq(Nat) PROVE o \o (w \o r) = Append(o, w[1]) \o (t \o r)
  <2>1. c \in Seq(Nat) /\ t \in Seq(Nat) /\ t \o r \in Seq(Nat)
    BY <1>1, <1>2
  <2>2. (c \o t) \o r = c \o (t \o r)
    <3>1. Joined(Joined(c, t), r) = Joined(c, Joined(t, r))
      BY <2>1, JoinedAssociate
    <3> QED BY <3>1 DEF Joined
  <2> DEFINE s == t \o r
  <2>3. s \in Seq(Nat)
    BY <2>1
  <2> HIDE DEF s
  <2>4. (o \o c) \o s = o \o (c \o s)
    <3>1. Joined(Joined(o, c), s) = Joined(o, Joined(c, s))
      BY <2>1, <2>3, JoinedAssociate
    <3> QED BY <3>1 DEF Joined
  <2> QED BY <1>1, <1>2, <2>2, <2>4 DEF s
<1> QED BY <1>3 DEF Tells, t

\* A character that stands for itself.
LEMMA TellsPlain ==
    ASSUME NEW f \in Seq(Nat), NEW g \in Seq(Arguments), NEW p \in Nat, NEW q \in Nat, NEW o \in Seq(Nat),
           NEW c \in Nat,
           \A args : TextFrom(f, args, p, Len(g)) = <<c>> \o TextFrom(f, args, q, Len(g)),
           Tells(f, o, << >>, g, p)
    PROVE  Tells(f, Append(o, c), << >>, g, q)
<1> DEFINE ch == <<c>>
<1>1. Append(o, c) = o \o ch /\ ch \in Seq(Nat)
  BY AppendIsConcatenation
<1>2. \A args : TextFrom(f, args, p, Len(g)) = ch \o TextFrom(f, args, q, Len(g))
  OBVIOUS
<1> HIDE DEF ch
<1>3. ASSUME NEW more \in Seq(Arguments), TextFrom(f, g \o more, q, Len(g)) \in Seq(Nat)
      PROVE  TextFrom(f, g \o more, 1, 0) = Append(o, c) \o (<< >> \o TextFrom(f, g \o more, q, Len(g)))
  <2> DEFINE args == g \o more
             r == TextFrom(f, args, q, Len(g))
  <2>1. TextFrom(f, args, p, Len(g)) = ch \o r
    BY <1>2
  <2>2. r \in Seq(Nat) /\ ch \in Seq(Nat)
    BY <1>1, <1>3
  <2> HIDE DEF r
  <2>3. ch \o r \in Seq(Nat)
    BY <2>2
  <2>4. TextFrom(f, args, 1, 0) = o \o (<< >> \o (ch \o r))
    BY <2>1, <2>3 DEF Tells
  <2>5. << >> \o (ch \o r) = ch \o r /\ << >> \o r = r
    BY <2>2, <2>3, EmptySequence
  <2>6. (o \o ch) \o r = o \o (ch \o r)
    <3>1. Joined(Joined(o, ch), r) = Joined(o, Joined(ch, r))
      BY <2>2, JoinedAssociate
    <3> QED BY <3>1 DEF Joined
  <2> QED BY <1>1, <2>4, <2>5, <2>6 DEF r
<1> QED BY <1>3 DEF Tells

\* An argument taken is the first of those that were to come.
LEMMA MoreArguments ==
    ASSUME NEW g \in Seq(Arguments), NEW v \in Arguments, NEW more \in Seq(Arguments)
    PROVE  /\ <<v>> \o more \in Seq(Arguments)
           /\ Append(g, v) \o more = g \o (<<v>> \o more)
           /\ Len(Append(g, v)) = Len(g) + 1 /\ Len(g) \in Nat
           /\ (Append(g, v) \o more)[Len(g) + 1] = v
<1> DEFINE s == <<v>>
<1>1. s \in Seq(Arguments) /\ Append(g, v) = g \o s
  BY AppendIsConcatenation
<1> HIDE DEF s
<1>2. s \in Seq(Arguments) /\ s \o more \in Seq(Arguments)
  BY <1>1
<1>3. (g \o s) \o more = g \o (s \o more)
  <2>1. Joined(Joined(g, s), more) = Joined(g, Joined(s, more))
    BY <1>2, JoinedAssociate
  <2> QED BY <2>1 DEF Joined
<1>4. Len(Append(g, v)) = Len(g) + 1 /\ Len(g) \in Nat /\ (Append(g, v) \o more)[Len(g) + 1] = v
  OBVIOUS
<1> QED BY <1>1, <1>2, <1>3, <1>4 DEF s

\* A specifier that takes the argument v, which stands for w.
LEMMA TellsArgument ==
    ASSUME NEW f \in Seq(Nat), NEW g \in Seq(Arguments), NEW p \in Nat, NEW o \in Seq(Nat),
           p <= Len(f), f[p] = Percent, f[p + 1] # Percent,
           NEW v \in Arguments, NEW w \in Seq(Nat), Shape(f[p + 1], v) = w,
           Tells(f, o, << >>, g, p)
    PROVE  Tells(f, o, w, Append(g, v), p + 2)
<1>1. ASSUME NEW more \in Seq(Arguments), TextFrom(f, Append(g, v) \o more, p + 2, Len(Append(g, v))) \in Seq(Nat)
      PROVE  TextFrom(f, Append(g, v) \o more, 1, 0) =
                o \o (w \o TextFrom(f, Append(g, v) \o more, p + 2, Len(Append(g, v))))
  <2> DEFINE args == Append(g, v) \o more
             all == <<v>> \o more
             n == Len(g)
             r == TextFrom(f, args, p + 2, n + 1)
  <2>1. all \in Seq(Arguments) /\ args = g \o all /\ Len(Append(g, v)) = n + 1 /\ n \in Nat /\ args[n + 1] = v
    BY MoreArguments
  <2>2. r \in Seq(Nat)
    BY <1>1, <2>1
  <2> HIDE DEF args, all, n
  <2>3. TextFrom(f, args, p, n) = w \o r
    <3>1. Len(f) \in Nat /\ n \in Nat
      BY <2>1
    <3>2. TextFrom(f, args, p, n) = Shape(f[p + 1], args[n + 1]) \o TextFrom(f, args, p + 2, n + 1)
      BY <3>1, TextAtSpecifier
    <3> QED BY <2>1, <3>2
  <2> HIDE DEF r
  <2>4. w \o r \in Seq(Nat)
    BY <2>2
  <2>5. TextFrom(f, args, 1, 0) = o \o (<< >> \o (w \o r))
    BY <2>1, <2>3, <2>4, Zenon DEF Tells, n
  <2>6. << >> \o (w \o r) = w \o r
    BY <2>4, EmptySequence
  <2> QED BY <2>1, <2>5, <2>6 DEF args, r
<1> QED BY <1>1 DEF Tells

\* At the end of the format.
LEMMA TellsAll ==
    ASSUME NEW f \in Seq(Nat), NEW g \in Seq(Arguments), NEW o \in Seq(Nat),
           Tells(f, o, << >>, g, Len(f) + 1)
    PROVE  o = Expansion(f, g)
<1>1. Len(f) \in Nat /\ Len(g) \in Nat /\ Len(f) + 1 \in Nat /\ Len(f) + 1 > Len(f)
  OBVIOUS
<1>2. g \o << >> = g /\ << >> \in Seq(Arguments)
  BY EmptySequence
<1>3. << >> \in Seq(Nat) /\ << >> \o << >> = << >> /\ o \o << >> = o
  BY EmptySequence
<1>4. TextFrom(f, g, Len(f) + 1, Len(g)) = << >>
  <2> DEFINE p == Len(f) + 1
             n == Len(g)
  <2>1. p \in Nat /\ n \in Nat /\ p > Len(f) /\ Len(f) \in Nat
    BY <1>1
  <2> HIDE DEF p, n
  <2>2. TextFrom(f, g, p, n) = << >>
    BY <2>1, TextAtEnd
  <2> QED BY <2>2 DEF p, n
<1>5. TextFrom(f, g, 1, 0) = o \o (<< >> \o << >>)
  BY <1>2, <1>3, <1>4 DEF Tells
<1> QED BY <1>3, <1>5 DEF Expansion, TextFrom

\* Before the first character.
LEMMA TellsNothing ==
    ASSUME NEW f
    PROVE  Tells(f, << >>, << >>, << >>, 1)
<1>1. \A r \in Seq(Nat) : << >> \o (<< >> \o r) = r
  BY EmptySequence
<1>2. Len(<< >>) = 0
  OBVIOUS
<1> QED BY <1>1, <1>2 DEF Tells

-----------------------------------------------------------------------------
(* The states of _cprint *)

\* Where _itoa is running or has just returned.
Phases == {"ilog", "size", "digits", "written", "failed"}

\* m is f from position p on.
RestOf(f, m, p) ==
    /\ p \in 1 .. Len(f) + 1
    /\ m \in Seq(Nat) /\ Len(m) = Len(f) + 1 - p
    /\ \A k \in 1 .. Len(m) : m[k] = f[p + k - 1]

\* What is to be written before reading on.
Owed ==
    IF pc = "string" THEN str
    ELSE IF pc \in Phases THEN Numeral(arg, base)
    ELSE IF pc = "number" THEN SubSeq(Numeral(arg, base), i + 1, out_size)
    ELSE << >>

\* Out is what the format says so far: what has been read, less what is owed.
Reading ==
    pc # "done" =>
        \E reads : \E p \in reads : Reads(format, reads) /\ RestOf(format, msg, p) /\ Tells(format, out, Owed, given, p)

\* The buffer holds the number that is being written.
Held ==
    pc = "number" =>
        /\ out_size = Len(Numeral(arg, base)) /\ out_size \in 0 .. Memory - 1 /\ i \in 0 .. out_size
        /\ buf[out_size] = 0
        /\ \A k \in 0 .. out_size - 1 : buf[k] = Numeral(arg, base)[k + 1]

\* A number is converted from the start of the buffer, and none fails.
Converting ==
    /\ pc \in Phases \cup {"number"} => base \in {10, 16} /\ arg \in Numbers
    /\ pc \in Phases => i = 0
    /\ pc # "failed" /\ bufsize = BufSize

\* The end of the message.
Ended ==
    pc = "done" => out = Expansion(format, given) \o (IF caller = "_cprintln" THEN <<10>> ELSE << >>)

\* The format and what has been made of it.
Texts == format \in Formats /\ out \in Seq(Nat) /\ given \in Seq(Arguments) /\ str \in Seq(Nat)

\* No byte beyond the size passed to _itoa is written.
Bounded ==
    /\ bufsize \in Sizes
    /\ \A k \in DOMAIN buf : k >= bufsize => buf[k] = Unset
    /\ caller = "other" /\ pc \in {"ilog", "size", "failed"} => \A k \in DOMAIN buf : buf[k] = Unset

\* Code other than _cprint only calls _itoa; the call obeys its own invariant.
Callers ==
    /\ caller \in {"other", "_cprint", "_cprintln"}
    /\ caller = "other" => pc \in Phases
    /\ pc \in Phases => NumeralInv

\* The inductive invariant.
PrintInv ==
    /\ TypeOK /\ Callers /\ Bounded
    /\ caller # "other" => Texts /\ Converting /\ Held /\ Reading /\ Ended

\* A format is text, and what is read of it is known.
LEMMA FormatText ==
    ASSUME NEW f \in Formats
    PROVE  f \in Seq(Nat) /\ Len(f) \in Nat /\ \E reads : Reads(f, reads)
<1>1. CASE f \in Messages
  BY <1>1, PrintAssumption DEF WellFormed
<1>2. CASE f = << >>
  <2>1. f \in Seq(Nat) /\ Len(f) = 0
    BY <1>2
  <2>2. Reads(f, {1})
    BY <2>1 DEF Reads
  <2> QED BY <2>1, <2>2
<1> QED BY <1>1, <1>2 DEF Formats

\* What is left without the first element.
LEMMA TailOf ==
    ASSUME NEW s \in Seq(Nat), s # << >>
    PROVE  /\ Len(s) \in Nat /\ Len(s) > 0 /\ Tail(s) \in Seq(Nat) /\ Len(Tail(s)) = Len(s) - 1
           /\ \A k \in 1 .. Len(s) - 1 : Tail(s)[k] = s[k + 1]
           /\ Len(s) > 1 => Tail(s) # << >>
<1>1. /\ Len(s) \in Nat /\ Len(s) > 0 /\ Tail(s) \in Seq(Nat) /\ Len(Tail(s)) = Len(s) - 1
      /\ \A k \in 1 .. Len(s) - 1 : Tail(s)[k] = s[k + 1]
  OBVIOUS
<1> DEFINE t == Tail(s)
<1> HIDE DEF t
<1>2. Len(t) = Len(s) - 1 /\ Len(<< >>) = 0
  BY <1>1 DEF t
<1>3. Len(s) > 1 => t # << >>
  BY <1>1, <1>2
<1> QED BY <1>1, <1>3 DEF t

\* One character less is left one position on.
LEMMA RestTail ==
    ASSUME NEW f \in Seq(Nat), NEW m, NEW p, RestOf(f, m, p), m # << >>
    PROVE  RestOf(f, Tail(m), p + 1)
<1> DEFINE n == Len(f)
           t == Tail(m)
<1>1. /\ n \in Nat /\ p \in 1 .. n + 1 /\ m \in Seq(Nat) /\ Len(m) = n + 1 - p
      /\ \A k \in 1 .. Len(m) : m[k] = f[p + k - 1]
  BY DEF RestOf
<1>2. /\ Len(m) \in Nat /\ Len(m) > 0 /\ t \in Seq(Nat) /\ Len(t) = Len(m) - 1
      /\ \A k \in 1 .. Len(m) - 1 : t[k] = m[k + 1]
  BY <1>1, TailOf
<1> HIDE DEF n, t
<1>3. p + 1 \in 1 .. n + 1 /\ Len(t) = n + 1 - (p + 1)
  BY <1>1, <1>2
<1>4. ASSUME NEW k \in 1 .. Len(t) PROVE t[k] = f[(p + 1) + k - 1]
  <2>1. k \in 1 .. Len(m) - 1 /\ k + 1 \in 1 .. Len(m) /\ p + (k + 1) - 1 = (p + 1) + k - 1
    BY <1>1, <1>2
  <2> QED BY <1>1, <1>2, <2>1
<1> QED BY <1>2, <1>3, <1>4 DEF RestOf, n, t

\* What is read next.
LEMMA NextRead ==
    ASSUME NEW reads, NEW p \in reads, Reads(format, reads), RestOf(format, msg, p), format \in Seq(Nat), msg # << >>
    PROVE  /\ p \in Nat /\ p <= Len(format) /\ msg[1] = format[p] /\ msg[1] \in Nat
           /\ msg[1] # Percent => p + 1 \in reads
           /\ msg[1] = Percent => /\ Len(msg) > 1 /\ msg[2] = format[p + 1] /\ p + 2 \in reads
                                  /\ msg[2] \in {Percent, 99, 115, 100, 120}
                                  /\ Tail(msg) # << >>
<1>1. /\ Len(format) \in Nat /\ p \in 1 .. Len(format) + 1 /\ msg \in Seq(Nat) /\ Len(msg) = Len(format) + 1 - p
      /\ \A k \in 1 .. Len(msg) : msg[k] = format[p + k - 1]
  BY DEF RestOf
<1>2. Len(msg) > 0 /\ Len(msg) \in Nat /\ p \in Nat
  BY <1>1
<1>3. p <= Len(format) /\ 1 \in 1 .. Len(msg) /\ p + 1 - 1 = p
  BY <1>1, <1>2
<1>4. msg[1] = format[p] /\ msg[1] \in Nat
  BY <1>1, <1>3
<1>5. \/ format[p] # Percent /\ p + 1 \in reads
      \/ /\ format[p] = Percent /\ p < Len(format)
         /\ format[p + 1] \in {Percent, 99, 115, 100, 120}
         /\ p + 2 \in reads
  BY <1>3 DEF Reads
<1>6. ASSUME msg[1] = Percent
      PROVE  /\ Len(msg) > 1 /\ msg[2] = format[p + 1] /\ p + 2 \in reads
             /\ msg[2] \in {Percent, 99, 115, 100, 120} /\ Tail(msg) # << >>
  <2>1. /\ p < Len(format) /\ format[p + 1] \in {Percent, 99, 115, 100, 120} /\ p + 2 \in reads
    BY <1>4, <1>5, <1>6
  <2>2. Len(msg) > 1 /\ 2 \in 1 .. Len(msg) /\ p + 2 - 1 = p + 1
    BY <1>1, <2>1
  <2>3. msg[2] = format[p + 1]
    BY <1>1, <2>2
  <2>4. Tail(msg) # << >>
    BY <1>1, <2>2, TailOf
  <2> QED BY <2>1, <2>2, <2>3, <2>4
<1> QED BY <1>2, <1>3, <1>4, <1>5, <1>6

\* A percent sign is followed by a specifier.
LEMMA NextAtSign ==
    ASSUME NEW reads, NEW p \in reads, Reads(format, reads), RestOf(format, msg, p), format \in Seq(Nat), msg # << >>,
           msg[1] = Percent
    PROVE  /\ p \in Nat /\ p <= Len(format) /\ format[p] = Percent /\ format[p + 1] = msg[2]
           /\ p + 2 \in reads /\ Tail(msg) # << >>
<1> DEFINE known == {Percent, 99, 115, 100, 120}
           n == Len(msg)
<1>1. /\ p \in Nat /\ p <= Len(format) /\ msg[1] = format[p] /\ msg[1] \in Nat
      /\ msg[1] # Percent => p + 1 \in reads
      /\ msg[1] = Percent => /\ n > 1 /\ msg[2] = format[p + 1] /\ p + 2 \in reads
                             /\ msg[2] \in known
                             /\ Tail(msg) # << >>
  BY NextRead
<1> HIDE DEF known, n
<1> QED BY <1>1

\* Two characters less are left two positions on.
LEMMA RestTailTail ==
    ASSUME NEW f \in Seq(Nat), NEW m, NEW p, RestOf(f, m, p), m # << >>, Tail(m) # << >>
    PROVE  RestOf(f, Tail(Tail(m)), p + 2)
<1> DEFINE t == Tail(m)
           q == p + 1
<1>1. RestOf(f, t, q) /\ t # << >>
  BY RestTail
<1>2. q + 1 = p + 2
  BY DEF RestOf
<1> HIDE DEF t, q
<1>3. RestOf(f, Tail(t), q + 1)
  BY <1>1, RestTail
<1> QED BY <1>2, <1>3 DEF t

\* Nothing is read and nothing written.
LEMMA InitPrint == PrintInit => PrintInv
<1> SUFFICES ASSUME PrintInit PROVE PrintInv
  OBVIOUS
<1>1. CASE Init /\ caller = "other"
  <2>1. NumeralInv /\ pc = "ilog" /\ bufsize \in Sizes /\ \A k \in DOMAIN buf : buf[k] = Unset
    BY <1>1, InitNumeral DEF Init
  <2> QED BY <1>1, <2>1 DEF PrintInv, Callers, Bounded, NumeralInv, Phases
<1>2. CASE /\ caller \in {"_cprint", "_cprintln"} /\ msg \in Formats /\ format = msg
           /\ pc = "parse"
           /\ x = 0 /\ arg = 0 /\ base = 10 /\ bufsize = BufSize
           /\ rest = 0 /\ ndigit = 0 /\ magnitude = 0 /\ offset = 0 /\ out_size = 0
           /\ buf = [k \in 0 .. Memory - 1 |-> Unset]
  <2>1. str = << >> /\ i = 0 /\ out = << >> /\ given = << >>
    BY DEF PrintInit
  <2>2. TypeOK
    BY <1>2, ItoaAssumption DEF TypeOK
  <2>3. Texts
    BY <1>2, <2>1, EmptySequence DEF Texts
  <2>4. Bounded
    BY <1>2, PrintAssumption DEF Bounded
  <2>5. Callers /\ Converting /\ Held /\ Ended
    BY <1>2 DEF Callers, Converting, Held, Ended, Phases
  <2>6. Reading
    <3>1. PICK reads : Reads(format, reads)
      BY <1>2, FormatText
    <3>2. 1 \in reads
      BY <3>1 DEF Reads
    <3>3. RestOf(format, msg, 1)
      <4>1. Len(format) \in Nat /\ format \in Seq(Nat) /\ Len(format) = Len(format) + 1 - 1
        BY <1>2, FormatText
      <4>2. \A k \in 1 .. Len(format) : 1 + k - 1 = k
        BY <4>1
      <4> QED BY <1>2, <4>1, <4>2 DEF RestOf
    <3>4. Owed = << >>
      BY <1>2 DEF Owed, Phases
    <3>5. Tells(format, out, Owed, given, 1)
      BY <2>1, <3>4, TellsNothing
    <3> QED BY <3>1, <3>2, <3>3, <3>5 DEF Reading
  <2> QED BY <2>2, <2>3, <2>4, <2>5, <2>6 DEF PrintInv
<1> QED BY <1>1, <1>2 DEF PrintInit

-----------------------------------------------------------------------------
(* The steps of _cprint *)

\* Stuttering.
LEMMA SameState == PrintInv /\ UNCHANGED printVars => PrintInv'
<1> SUFFICES ASSUME PrintInv, UNCHANGED printVars PROVE PrintInv'
  OBVIOUS
<1>1. UNCHANGED <<pc, x, arg, base, bufsize, rest, ndigit, magnitude, offset, out_size, buf>>
      /\ UNCHANGED <<caller, msg, str, i, out, format, given>>
  BY DEF printVars, printing, vars, frame
<1>2. TypeOK' /\ Bounded'
  BY <1>1 DEF PrintInv, TypeOK, Bounded
<1>3. Callers'
  <2>1. ASSUME NumeralInv PROVE NumeralInv'
    BY <1>1, <2>1, StepNumeral DEF vars, frame
  <2> QED BY <1>1, <2>1 DEF PrintInv, Callers
<1>4. caller # "other" => Texts' /\ Converting' /\ Held' /\ Ended'
  BY <1>1 DEF PrintInv, Texts, Converting, Held, Ended
<1>5. caller # "other" => Reading'
  BY <1>1 DEF PrintInv, Reading, Owed
<1> QED BY <1>1, <1>2, <1>3, <1>4, <1>5 DEF PrintInv

\* The length checked against the size bounds every index that _itoa writes.
LEMMA RunningBounded ==
    ASSUME NumeralInv, Bounded, Running, caller' = caller
    PROVE  Bounded'
<1>1. /\ bufsize \in Nat /\ out_size \in Nat /\ offset \in 0 .. out_size /\ ndigit \in Nat
      /\ bufsize' = bufsize /\ bufsize \in Sizes
      /\ pc \in {"size", "digits"} => out_size = First + ndigit
      /\ PrefixLength(base) \in Nat /\ DOMAIN buf = 0 .. Memory - 1 /\ Memory \in Nat
  <2>1. out_size \in Nat /\ offset \in 0 .. out_size /\ ndigit \in Nat /\ DOMAIN buf = 0 .. Memory - 1
    BY DEF NumeralInv, TypeOK
  <2>2. bufsize \in Sizes /\ bufsize \in Nat /\ Memory \in Nat
    BY ItoaAssumption DEF NumeralInv, Call
  <2>3. bufsize' = bufsize
    BY DEF Running, ilog, check_size, next_digit, terminate, frame
  <2>4. pc \in {"size", "digits"} => out_size = First + ndigit
    BY DEF NumeralInv, Counted
  <2> QED BY <2>1, <2>2, <2>3, <2>4, PrefixLengthNat
<1>2. CASE ilog
  <2>1. UNCHANGED buf /\ pc = "ilog"
    BY <1>2 DEF ilog
  <2> QED BY <1>1, <2>1 DEF Bounded
<1>3. CASE check_size /\ pc' = "failed"
  <2>1. UNCHANGED buf /\ pc = "size"
    BY <1>3 DEF check_size
  <2> QED BY <1>1, <2>1 DEF Bounded
<1>4. CASE check_size /\ pc' # "failed"
  <2> DEFINE sign == IF Negative(x) THEN 1 ELSE 0
             first == sign + PrefixLength(base)
             head(k) == CASE k < sign -> Minus
                          [] sign <= k /\ k < first -> Prefix(base)[k - sign + 1]
                          [] OTHER -> buf[k]
  <2>1. /\ pc = "size" /\ pc' = "digits" /\ offset' = first /\ ~TooSmall(bufsize, out_size)
        /\ buf' = [k \in DOMAIN buf |-> head(k)]
    BY <1>4 DEF check_size
  <2>2. first = First /\ sign \in Nat /\ sign <= first
    BY <1>1, <2>1 DEF NumeralInv, Counted, First, SignLength
  <2>3. out_size < bufsize /\ first <= out_size
    BY <1>1, <2>1, <2>2 DEF TooSmall
  <2> HIDE DEF first
  <2>4. \A k \in DOMAIN buf : k >= bufsize => head(k) = buf[k]
    <3>1. first \in Nat
      BY <1>1 DEF first
    <3> QED BY <1>1, <2>2, <2>3, <3>1
  <2> HIDE DEF head
  <2>5. DOMAIN buf' = DOMAIN buf /\ \A k \in DOMAIN buf : buf'[k] = head(k)
    BY <2>1
  <2> QED BY <1>1, <2>1, <2>4, <2>5 DEF Bounded
<1>5. CASE next_digit
  <2>1. pc = "digits" /\ pc' = "digits" /\ offset < out_size
    BY <1>5 DEF next_digit
  <2>2. out_size < bufsize
    BY <2>1 DEF NumeralInv, Spelt
  <2>3. PICK code : buf' = [buf EXCEPT ![offset] = code]
    BY <1>5 DEF next_digit
  <2>4. DOMAIN buf' = DOMAIN buf /\ \A k \in DOMAIN buf : k # offset => buf'[k] = buf[k]
    BY <2>3
  <2> QED BY <1>1, <2>1, <2>2, <2>4 DEF Bounded
<1>6. CASE terminate
  <2>1. pc = "digits" /\ pc' = "written"
    BY <1>6 DEF terminate
  <2>2. out_size < bufsize
    BY <2>1 DEF NumeralInv, Spelt
  <2>3. DOMAIN buf' = DOMAIN buf /\ \A k \in DOMAIN buf : k # out_size => buf'[k] = buf[k]
    BY <1>6 DEF terminate
  <2> QED BY <1>1, <2>1, <2>2, <2>3 DEF Bounded
<1> QED BY <1>2, <1>3, <1>4, <1>5, <1>6 DEF Running

\* NumeralAtEnd for the next state.
LEMMA NumeralAtNextEnd == NumeralInv' => ResultIsNumeral'
BY NumeralAtEnd, PTL

\* A step of _itoa leaves the message alone, and the size passed to it suffices.
LEMMA RunningPrint ==
    ASSUME PrintInv, Running, UNCHANGED printing
    PROVE  PrintInv'
<1>1. UNCHANGED <<arg, base, bufsize>> /\ UNCHANGED <<caller, msg, str, i, out, format, given>>
      /\ pc \in Phases
  BY DEF Running, ilog, check_size, next_digit, terminate, frame, printing, Phases
<1>2. NumeralInv /\ Bounded
  BY <1>1 DEF PrintInv, Callers
<1>3. NumeralInv'
  BY <1>2, StepNumeral DEF Next
<1>4. Bounded'
  BY <1>1, <1>2, RunningBounded
<1>5. pc' \in Phases /\ TypeOK'
  BY <1>3 DEF NumeralInv, Call, Phases
<1>6. Callers'
  BY <1>1, <1>3, <1>5 DEF PrintInv, Callers
<1>7. ASSUME caller # "other" PROVE Texts' /\ Converting' /\ Held' /\ Reading' /\ Ended'
  <2>1. Texts /\ Converting /\ Reading
    BY <1>7 DEF PrintInv
  <2>2. Texts'
    BY <1>1, <2>1 DEF Texts
  <2>3. pc' # "failed"
    <3>1. SUFFICES ASSUME pc' = "failed" PROVE FALSE
      OBVIOUS
    <3>2. bufsize <= out_size' /\ out_size' = Len(Numeral(arg, base))
      BY <1>1, <1>3, <3>1, NumeralAtNextEnd DEF ResultIsNumeral
    <3>3. arg \in Numbers /\ base \in {10, 16} /\ bufsize = BufSize
      BY <1>1, <2>1 DEF Converting
    <3>4. out_size' < BufSize
      BY <3>2, <3>3, BufferAssumption
    <3>5. out_size' \in Nat /\ BufSize \in Nat
      BY <1>5, PrintAssumption, ItoaAssumption DEF TypeOK
    <3> QED BY <3>2, <3>3, <3>4, <3>5
  <2>4. Converting'
    BY <1>1, <1>5, <2>1, <2>3 DEF Converting
  <2>5. Held' /\ Ended'
    BY <1>5 DEF Held, Ended, Phases
  <2>6. Owed' = Owed
    BY <1>1, <1>5 DEF Owed, Phases
  <2>7. pc # "done"
    BY <1>1 DEF Phases
  <2>8. Reading'
    BY <1>1, <2>1, <2>6, <2>7 DEF Reading
  <2> QED BY <2>2, <2>4, <2>5, <2>8
<1> QED BY <1>1, <1>4, <1>5, <1>6, <1>7 DEF PrintInv

\* A character that stands for itself is written and read over.
LEMMA AtPlain ==
    ASSUME Texts, Reading, pc = "parse", msg # << >>, msg[1] # Percent
    PROVE  \E reads : \E p \in reads : /\ Reads(format, reads) /\ RestOf(format, Tail(msg), p)
                                       /\ Tells(format, Append(out, msg[1]), << >>, given, p)
<1>1. PICK reads : \E p \in reads : Reads(format, reads) /\ RestOf(format, msg, p) /\ Tells(format, out, Owed, given, p)
  BY DEF Reading
<1>2. PICK p \in reads : Reads(format, reads) /\ RestOf(format, msg, p) /\ Tells(format, out, Owed, given, p)
  BY <1>1
<1>3. /\ format \in Seq(Nat) /\ Len(format) \in Nat /\ out \in Seq(Nat) /\ given \in Seq(Arguments)
      /\ Len(given) \in Nat /\ Owed = << >>
  BY FormatText DEF Texts, Owed, Phases
<1>4. /\ p \in Nat /\ p <= Len(format) /\ msg[1] = format[p] /\ msg[1] \in Nat /\ p + 1 \in reads
  BY <1>2, <1>3, NextRead
<1>5. RestOf(format, Tail(msg), p + 1)
  BY <1>2, <1>3, RestTail
<1>6. \A args : TextFrom(format, args, p, Len(given)) = <<msg[1]>> \o TextFrom(format, args, p + 1, Len(given))
  <2> DEFINE n == Len(given)
  <2>1. n \in Nat
    BY <1>3
  <2> HIDE DEF n
  <2>2. \A args : TextFrom(format, args, p, n) = <<format[p]>> \o TextFrom(format, args, p + 1, n)
    <3>1. p <= Len(format) /\ format[p] # Percent /\ p \in Nat /\ Len(format) \in Nat
      BY <1>3, <1>4
    <3> QED BY <2>1, <3>1, TextAtCharacter
  <2> QED BY <1>4, <2>2 DEF n
<1> DEFINE q == p + 1
           c == msg[1]
<1>7. q \in Nat /\ c \in Nat
  BY <1>4
<1>8. /\ \A args : TextFrom(format, args, p, Len(given)) = <<c>> \o TextFrom(format, args, q, Len(given))
      /\ RestOf(format, Tail(msg), q) /\ q \in reads /\ Tells(format, out, << >>, given, p)
  BY <1>2, <1>3, <1>4, <1>5, <1>6
<1> HIDE DEF q, c
<1>9. Tells(format, Append(out, c), << >>, given, q)
  BY <1>3, <1>4, <1>7, <1>8, TellsPlain
<1> QED BY <1>2, <1>8, <1>9 DEF c

\* Where the format is read at a percent sign.
PercentAt(reads, p) ==
    /\ Reads(format, reads) /\ Tells(format, out, << >>, given, p)
    /\ p \in Nat /\ p <= Len(format) /\ format[p] = Percent /\ format[p + 1] = msg[2] /\ p + 2 \in reads
    /\ RestOf(format, Tail(Tail(msg)), p + 2)

\* At a percent sign.
LEMMA AtSign ==
    ASSUME Texts, Reading, pc = "parse", msg # << >>, msg[1] = Percent
    PROVE  /\ \E reads, p : PercentAt(reads, p)
           /\ format \in Seq(Nat) /\ Len(format) \in Nat /\ out \in Seq(Nat) /\ given \in Seq(Arguments)
           /\ Len(given) \in Nat
<1>1. PICK reads : \E p \in reads : Reads(format, reads) /\ RestOf(format, msg, p) /\ Tells(format, out, Owed, given, p)
  BY DEF Reading
<1>2. PICK p \in reads : Reads(format, reads) /\ RestOf(format, msg, p) /\ Tells(format, out, Owed, given, p)
  BY <1>1
<1>3. /\ format \in Seq(Nat) /\ Len(format) \in Nat /\ out \in Seq(Nat) /\ given \in Seq(Arguments)
      /\ Len(given) \in Nat /\ Owed = << >>
  BY FormatText DEF Texts, Owed, Phases
<1>4. /\ p \in Nat /\ p <= Len(format) /\ format[p] = Percent /\ format[p + 1] = msg[2]
      /\ p + 2 \in reads /\ Tail(msg) # << >>
  BY <1>2, <1>3, NextAtSign
<1>5. RestOf(format, Tail(Tail(msg)), p + 2)
  BY <1>2, <1>3, <1>4, RestTailTail
<1>6. PercentAt(reads, p)
  BY <1>2, <1>3, <1>4, <1>5 DEF PercentAt
<1> QED BY <1>3, <1>6

\* Two percent signs are written as one.
LEMMA AtPercent ==
    ASSUME Texts, Reading, pc = "parse", msg # << >>, msg[1] = Percent, msg[2] = Percent
    PROVE  \E reads : \E p \in reads : /\ Reads(format, reads) /\ RestOf(format, Tail(Tail(msg)), p)
                                       /\ Tells(format, Append(out, Percent), << >>, given, p)
<1>1. PICK reads, p : PercentAt(reads, p)
  BY AtSign
<1>2. /\ format \in Seq(Nat) /\ Len(format) \in Nat /\ out \in Seq(Nat) /\ given \in Seq(Arguments)
      /\ Len(given) \in Nat /\ Percent \in Nat
  BY AtSign DEF Percent
<1> DEFINE q == p + 2
           n == Len(given)
           c == Percent
<1>3. q \in Nat /\ p \in Nat
  BY <1>1 DEF PercentAt
<1>4. \A args : TextFrom(format, args, p, n) = <<Percent>> \o TextFrom(format, args, q, n)
  <2> HIDE DEF n
  <2>1. /\ p <= Len(format) /\ format[p] = Percent /\ format[p + 1] = Percent /\ p \in Nat
        /\ Len(format) \in Nat /\ n \in Nat
    BY <1>1, <1>2 DEF PercentAt, n
  <2>2. \A args : TextFrom(format, args, p, n) = <<Percent>> \o TextFrom(format, args, p + 2, n)
    BY <2>1, TextAtPercent
  <2> QED BY <2>2
<1>5. /\ Reads(format, reads) /\ RestOf(format, Tail(Tail(msg)), q) /\ q \in reads
      /\ Tells(format, out, << >>, given, p)
  BY <1>1 DEF PercentAt
<1>6. c \in Nat /\ \A args : TextFrom(format, args, p, Len(given)) = <<c>> \o TextFrom(format, args, q, Len(given))
  BY <1>2, <1>4
<1> HIDE DEF q, c
<1>7. Tells(format, Append(out, c), << >>, given, q)
  BY <1>2, <1>3, <1>5, <1>6, TellsPlain
<1> QED BY <1>5, <1>7 DEF c

\* A specifier takes an argument and owes what it stands for.
LEMMA AtSpecifier ==
    ASSUME Texts, Reading, pc = "parse", msg # << >>, msg[1] = Percent, msg[2] # Percent,
           NEW v \in Arguments, NEW w \in Seq(Nat), Shape(msg[2], v) = w
    PROVE  \E reads : \E p \in reads : /\ Reads(format, reads) /\ RestOf(format, Tail(Tail(msg)), p)
                                       /\ Tells(format, out, w, Append(given, v), p)
<1>1. PICK reads, p : PercentAt(reads, p)
  BY AtSign
<1>2. format \in Seq(Nat) /\ out \in Seq(Nat) /\ given \in Seq(Arguments)
  BY AtSign
<1>3. /\ p \in Nat /\ p <= Len(format) /\ format[p] = Percent /\ format[p + 1] # Percent
      /\ Shape(format[p + 1], v) = w /\ Tells(format, out, << >>, given, p)
  BY <1>1 DEF PercentAt
<1>4. Tells(format, out, w, Append(given, v), p + 2)
  BY <1>2, <1>3, TellsArgument
<1> QED BY <1>1, <1>4 DEF PercentAt

\* StartNumeral for the next state.
LEMMA StartedNext == Started' => NumeralInv'
BY StartNumeral, PTL

\* What is left of a sequence from an index on.
LEMMA Parts ==
    ASSUME NEW T, NEW s \in Seq(T)
    PROVE  /\ Len(s) \in Nat /\ SubSeq(s, 1, Len(s)) = s /\ SubSeq(s, Len(s) + 1, Len(s)) = << >>
           /\ \A k \in 0 .. Len(s) - 1 :
                 /\ SubSeq(s, k + 1, Len(s)) \in Seq(T) /\ SubSeq(s, k + 1, Len(s)) # << >>
                 /\ SubSeq(s, k + 1, Len(s))[1] = s[k + 1]
                 /\ Tail(SubSeq(s, k + 1, Len(s))) = SubSeq(s, (k + 1) + 1, Len(s))
<1> DEFINE n == Len(s)
<1>1. n \in Nat
  OBVIOUS
<1>2. ASSUME NEW k \in 0 .. n
      PROVE  /\ SubSeq(s, k + 1, n) \in Seq(T) /\ Len(SubSeq(s, k + 1, n)) = n - k
             /\ \A j \in 1 .. n - k : SubSeq(s, k + 1, n)[j] = s[k + j]
  OBVIOUS
<1> HIDE DEF n
<1>3. SubSeq(s, 1, n) = s
  <2>1. 0 \in 0 .. n /\ 0 + 1 = 1 /\ n - 0 = n
    BY <1>1
  <2>2. SubSeq(s, 1, n) \in Seq(T) /\ Len(SubSeq(s, 1, n)) = n
    BY <1>2, <2>1
  <2>3. \A j \in 1 .. n : SubSeq(s, 1, n)[j] = s[j]
    BY <1>1 DEF n
  <2> QED BY <2>2, <2>3, SameSequence DEF n
<1>4. SubSeq(s, n + 1, n) = << >>
  <2>1. SubSeq(s, n + 1, n) \in Seq(T) /\ Len(SubSeq(s, n + 1, n)) = 0
    BY <1>1, <1>2
  <2> QED BY <2>1
<1>5. ASSUME NEW k \in 0 .. n - 1
      PROVE  /\ SubSeq(s, k + 1, n) \in Seq(T) /\ SubSeq(s, k + 1, n) # << >>
             /\ SubSeq(s, k + 1, n)[1] = s[k + 1]
             /\ Tail(SubSeq(s, k + 1, n)) = SubSeq(s, (k + 1) + 1, n)
  <2> DEFINE w == SubSeq(s, k + 1, n)
             v == SubSeq(s, (k + 1) + 1, n)
  <2>1. k \in 0 .. n /\ k + 1 \in 0 .. n /\ 1 \in 1 .. n - k /\ n - k > 0
    BY <1>1
  <2>2. w \in Seq(T) /\ Len(w) = n - k /\ \A j \in 1 .. n - k : w[j] = s[k + j]
    BY <1>2, <2>1
  <2>3. v \in Seq(T) /\ Len(v) = n - (k + 1) /\ \A j \in 1 .. n - (k + 1) : v[j] = s[(k + 1) + j]
    BY <1>2, <2>1
  <2> HIDE DEF w, v
  <2>4. w # << >>
    BY <2>1, <2>2
  <2>5. Tail(w) \in Seq(T) /\ Len(Tail(w)) = n - (k + 1) /\ \A j \in 1 .. Len(w) - 1 : Tail(w)[j] = w[j + 1]
    BY <1>1, <2>1, <2>2, <2>4
  <2>6. ASSUME NEW j \in 1 .. n - (k + 1) PROVE Tail(w)[j] = v[j]
    <3>1. j \in 1 .. Len(w) - 1 /\ j + 1 \in 1 .. n - k /\ k + (j + 1) = (k + 1) + j
      BY <1>1, <2>1, <2>2
    <3> QED BY <2>2, <2>3, <2>5, <3>1
  <2>7. Tail(w) = v
    BY <2>3, <2>5, <2>6, SameSequence
  <2>8. w[1] = s[k + 1]
    BY <2>1, <2>2
  <2> QED BY <2>2, <2>4, <2>7, <2>8 DEF w, v
<1> QED BY <1>1, <1>3, <1>4, <1>5 DEF n

\* What does not depend on the calculation.
LEMMA Kept ==
    ASSUME PrintInv, caller # "other", caller' = caller,
           UNCHANGED <<x, frame, rest, ndigit, magnitude, offset, out_size, buf>>,
           pc' \in {"parse", "string", "number", "done"}
    PROVE  TypeOK' /\ Callers' /\ Bounded' /\ (pc' # "number" => Converting' /\ Held') /\ (pc' # "done" => Ended')
<1>1. UNCHANGED <<x, arg, base, bufsize, rest, ndigit, magnitude, offset, out_size, buf>>
  BY DEF frame
<1>2. TypeOK'
  BY <1>1 DEF PrintInv, TypeOK
<1>3. Callers' /\ Bounded'
  BY <1>1 DEF PrintInv, Callers, Bounded, Phases
<1>4. pc' # "number" => Converting' /\ Held'
  BY <1>1 DEF PrintInv, Converting, Held, Phases
<1>5. pc' # "done" => Ended'
  BY DEF Ended
<1> QED BY <1>2, <1>3, <1>4, <1>5

\* A character that stands for itself, or two percent signs.
LEMMA PlainPrint == PrintInv /\ plain_character => PrintInv'
<1> SUFFICES ASSUME PrintInv, plain_character PROVE PrintInv'
  OBVIOUS
<1>1. /\ pc = "parse" /\ pc' = "parse" /\ msg # << >>
      /\ UNCHANGED <<x, frame, rest, ndigit, magnitude, offset, out_size, buf>>
      /\ UNCHANGED <<caller, str, i, format, given>>
  BY DEF plain_character, vars
<1>2. caller # "other"
  BY <1>1 DEF PrintInv, Callers, Phases
<1>3. Texts /\ Reading
  BY <1>2 DEF PrintInv
<1>4. Owed' = << >>
  BY <1>1 DEF Owed, Phases
<1>5. /\ out' \in Seq(Nat)
      /\ \E reads : \E p \in reads : Reads(format, reads) /\ RestOf(format, msg', p) /\ Tells(format, out', << >>, given, p)
  <2>1. CASE msg[1] # Percent /\ write_char(msg[1]) /\ msg' = Tail(msg)
    <3>1. msg[1] \in Nat
      <4>1. PICK reads : \E p \in reads : Reads(format, reads) /\ RestOf(format, msg, p)
        BY <1>1, <1>3 DEF Reading
      <4>2. msg \in Seq(Nat)
        BY <4>1 DEF RestOf
      <4> QED BY <1>1, <4>2
    <3>2. out' = Append(out, msg[1]) /\ out' \in Seq(Nat)
      BY <1>3, <2>1, <3>1 DEF Texts, write_char
    <3> QED BY <1>1, <1>3, <2>1, <3>2, AtPlain
  <2>2. CASE msg[1] = Percent /\ msg[2] = Percent /\ write_char(Percent) /\ msg' = Tail(Tail(msg))
    <3>1. out' = Append(out, Percent) /\ out' \in Seq(Nat)
      BY <1>3, <2>2 DEF Texts, write_char, Percent
    <3> QED BY <1>1, <1>3, <2>2, <3>1, AtPercent
  <2> QED BY <2>1, <2>2 DEF plain_character
<1>6. Reading' /\ Texts'
  BY <1>1, <1>3, <1>4, <1>5 DEF Reading, Texts
<1> QED BY <1>1, <1>2, <1>6, Kept DEF PrintInv

\* %c
LEMMA CharacterPrint == PrintInv /\ character => PrintInv'
<1> SUFFICES ASSUME PrintInv, character PROVE PrintInv'
  OBVIOUS
<1>1. /\ pc = "parse" /\ pc' = "parse" /\ msg # << >> /\ msg[1] = Percent /\ msg[2] = 99 /\ msg' = Tail(Tail(msg))
      /\ UNCHANGED <<x, frame, rest, ndigit, magnitude, offset, out_size, buf>>
      /\ UNCHANGED <<caller, str, i, format>>
  BY DEF character, Specifier, vars
<1>2. caller # "other"
  BY <1>1 DEF PrintInv, Callers, Phases
<1>3. Texts /\ Reading
  BY <1>2 DEF PrintInv
<1>4. PICK l \in Letters : out' = Append(out, l) /\ given' = Append(given, l)
  BY DEF character, write_char
<1> DEFINE w == <<l>>
<1>5. w \in Seq(Nat) /\ w # << >> /\ w[1] = l /\ Tail(w) = << >> /\ l \in Arguments /\ l \in Nat
  BY PrintAssumption DEF Arguments
<1>6. Shape(msg[2], l) = w /\ msg[2] # Percent
  BY <1>1 DEF Shape, Percent
<1> HIDE DEF w
<1>7. PICK reads : \E p \in reads : /\ Reads(format, reads) /\ RestOf(format, msg', p)
                                    /\ Tells(format, out, w, given', p)
  BY <1>1, <1>3, <1>4, <1>5, <1>6, AtSpecifier
<1>8. PICK p \in reads : /\ Reads(format, reads) /\ RestOf(format, msg', p)
                         /\ Tells(format, out, w, given', p)
  BY <1>7
<1>9. Tells(format, out', << >>, given', p)
  <2>1. out \in Seq(Nat)
    BY <1>3 DEF Texts
  <2>2. Tells(format, Append(out, w[1]), Tail(w), given', p)
    BY <1>5, <1>8, <2>1, TellsWrite
  <2> QED BY <1>4, <1>5, <2>2
<1>10. Owed' = << >>
  BY <1>1 DEF Owed, Phases
<1>11. Reading'
  BY <1>1, <1>8, <1>9, <1>10 DEF Reading
<1>12. Texts'
  BY <1>1, <1>3, <1>4, <1>5 DEF Texts
<1> QED BY <1>1, <1>2, <1>11, <1>12, Kept DEF PrintInv

\* %s, and the characters of the string.
LEMMA StringPrint == PrintInv /\ string => PrintInv'
<1> SUFFICES ASSUME PrintInv, string PROVE PrintInv'
  OBVIOUS
<1>0. /\ pc \in {"parse", "string"} /\ pc' \in {"parse", "string"}
      /\ UNCHANGED <<x, frame, rest, ndigit, magnitude, offset, out_size, buf>>
      /\ UNCHANGED <<caller, i, format>>
  BY DEF string, Specifier
<1>1. caller # "other"
  BY <1>0 DEF PrintInv, Callers, Phases
<1>2. Texts /\ Reading
  BY <1>1 DEF PrintInv
<1>3. CASE /\ Specifier(115) /\ pc' = "string"
           /\ \E s \in Strings : str' = s /\ given' = Append(given, s)
           /\ UNCHANGED out
  <2>1. PICK s \in Strings : str' = s /\ given' = Append(given, s)
    BY <1>3
  <2>2. pc = "parse" /\ msg # << >> /\ msg[1] = Percent /\ msg[2] = 115 /\ msg' = Tail(Tail(msg))
    BY <1>3 DEF Specifier
  <2>3. s \in Seq(Nat) /\ s \in Arguments
    BY PrintAssumption DEF Arguments
  <2>4. Shape(msg[2], s) = s /\ msg[2] # Percent
    BY <2>2 DEF Shape, Percent
  <2>5. PICK reads : \E p \in reads : /\ Reads(format, reads) /\ RestOf(format, msg', p)
                                      /\ Tells(format, out, s, given', p)
    BY <1>2, <2>1, <2>2, <2>3, <2>4, AtSpecifier
  <2>6. Owed' = s
    BY <1>3, <2>1 DEF Owed
  <2>7. Reading'
    BY <1>0, <1>3, <2>5, <2>6 DEF Reading
  <2>8. Texts'
    BY <1>0, <1>2, <1>3, <2>1, <2>3 DEF Texts
  <2> QED BY <1>0, <1>1, <2>7, <2>8, Kept DEF PrintInv
<1>4. CASE pc = "string" /\ UNCHANGED <<msg, given>> /\ str # << >> /\ write_char(str[1]) /\ str' = Tail(str) /\ UNCHANGED pc
  <2>1. PICK reads : \E p \in reads : Reads(format, reads) /\ RestOf(format, msg, p) /\ Tells(format, out, str, given, p)
    BY <1>2, <1>4 DEF Reading, Owed
  <2>2. PICK p \in reads : Reads(format, reads) /\ RestOf(format, msg, p) /\ Tells(format, out, str, given, p)
    BY <2>1
  <2>3. out \in Seq(Nat) /\ str \in Seq(Nat) /\ str[1] \in Nat /\ Tail(str) \in Seq(Nat)
    BY <1>2, <1>4, FirstAndTail DEF Texts
  <2>4. Tells(format, Append(out, str[1]), Tail(str), given, p)
    BY <1>4, <2>2, <2>3, TellsWrite
  <2>5. Owed' = Tail(str) /\ out' = Append(out, str[1])
    BY <1>4 DEF Owed, write_char
  <2>6. Reading'
    BY <1>0, <1>4, <2>2, <2>4, <2>5 DEF Reading
  <2>7. Texts'
    BY <1>0, <1>2, <1>4, <2>3, <2>5 DEF Texts
  <2> QED BY <1>0, <1>1, <2>6, <2>7, Kept DEF PrintInv
<1>5. CASE pc = "string" /\ UNCHANGED <<msg, given>> /\ str = << >> /\ pc' = "parse" /\ UNCHANGED <<str, out>>
  <2>1. Owed = << >> /\ Owed' = << >>
    BY <1>5 DEF Owed, Phases
  <2>2. Reading'
    BY <1>0, <1>2, <1>5, <2>1 DEF Reading
  <2>3. Texts'
    BY <1>0, <1>2, <1>5 DEF Texts
  <2> QED BY <1>0, <1>1, <2>2, <2>3, Kept DEF PrintInv
<1> QED BY <1>3, <1>4, <1>5 DEF string

\* %d and %x start a conversion, whatever an earlier one left in the buffer.
LEMMA NumberPrint == PrintInv /\ number => PrintInv'
<1> SUFFICES ASSUME PrintInv, number PROVE PrintInv'
  OBVIOUS
<1>1. PICK n \in Numbers : /\ \/ Specifier(100) /\ CallWith(n, 10, BufSize)
                              \/ Specifier(120) /\ CallWith(n, 16, BufSize)
                           /\ given' = Append(given, n)
  BY DEF number
<1>2. PICK b \in {10, 16} : /\ CallWith(n, b, BufSize)
                            /\ Specifier(IF b = 10 THEN 100 ELSE 120)
  BY <1>1
<1>3. i' = 0 /\ UNCHANGED <<buf, caller, str, out, format>>
  BY DEF number, FirstIndex
<1>4. /\ pc = "parse" /\ msg # << >> /\ msg[1] = Percent /\ msg[2] \in {100, 120}
      /\ (msg[2] = 100 => b = 10) /\ (msg[2] = 120 => b = 16) /\ msg' = Tail(Tail(msg))
  BY <1>2 DEF Specifier
<1>5. caller # "other"
  BY <1>4 DEF PrintInv, Callers, Phases
<1>6. Texts /\ Reading /\ TypeOK /\ Converting /\ Bounded
  BY <1>5 DEF PrintInv
<1>7. n \in 0 .. U - 1 /\ b \in Bases /\ BufSize \in Sizes /\ n \in Arguments
  BY PrintAssumption DEF Arguments
<1>8. /\ pc' = "ilog" /\ x' = n /\ arg' = n /\ base' = b /\ bufsize' = BufSize
      /\ rest' = Abs(n) /\ ndigit' = 1 /\ magnitude' = 0 /\ offset' = 0 /\ out_size' = 0
  BY <1>2 DEF CallWith
<1>9. Started'
  BY <1>3, <1>6, <1>7, <1>8 DEF Started, TypeOK
<1>10. NumeralInv'
  BY <1>9, StartedNext
<1>11. TypeOK' /\ Callers'
  BY <1>3, <1>5, <1>8, <1>10 DEF NumeralInv, Callers, Phases, PrintInv
<1>12. Bounded'
  <2>1. bufsize = BufSize
    BY <1>6 DEF Converting
  <2> QED BY <1>3, <1>5, <1>6, <1>7, <1>8, <2>1 DEF Bounded
<1>13. Converting' /\ Held' /\ Ended'
  BY <1>3, <1>8 DEF Converting, Held, Ended, Phases
<1> DEFINE w == Numeral(n, b)
<1>14. w \in Seq(Nat)
  BY <1>7, NumeralPrintable
<1>15. Shape(msg[2], n) = w /\ msg[2] # Percent
  BY <1>4 DEF Shape, Percent
<1>16. Owed' = w
  BY <1>8 DEF Owed, Phases
<1> HIDE DEF w
<1>17. PICK reads : \E p \in reads : /\ Reads(format, reads) /\ RestOf(format, msg', p)
                                     /\ Tells(format, out, w, given', p)
  BY <1>1, <1>4, <1>6, <1>7, <1>14, <1>15, AtSpecifier
<1>18. Reading'
  BY <1>3, <1>16, <1>17 DEF Reading
<1>19. Texts'
  BY <1>1, <1>3, <1>6, <1>7 DEF Texts
<1> QED BY <1>3, <1>5, <1>11, <1>12, <1>13, <1>18, <1>19 DEF PrintInv

\* The buffer holds the numeral and its terminator, and the loop stops there: at a
\* zero, which no character of the numeral is.
LEMMA BufferPrint == PrintInv /\ write_buffer => PrintInv'
<1> SUFFICES ASSUME PrintInv, write_buffer PROVE PrintInv'
  OBVIOUS
<1>1. /\ caller # "other"
      /\ UNCHANGED <<x, frame, rest, ndigit, magnitude, offset, out_size, buf>>
      /\ UNCHANGED <<arg, base, bufsize>>
      /\ UNCHANGED <<caller, msg, str, format, given>>
      /\ pc \in {"written", "failed", "number"} /\ pc' \in {"parse", "number"}
  BY DEF write_buffer, frame
<1>2. Texts /\ Converting /\ Held /\ Reading /\ TypeOK /\ Callers
  BY <1>1 DEF PrintInv
<1> DEFINE N == Numeral(arg, base)
           n == Len(N)
<1>3. arg \in 0 .. U - 1 /\ base \in Bases
  BY <1>1, <1>2, PrintAssumption DEF Converting, Phases
<1>4. N \in Seq(Printable) /\ N \in Seq(Nat) /\ n \in Nat
  BY <1>3, NumeralPrintable
<1>5. TypeOK' /\ Callers' /\ Bounded' /\ (pc' # "number" => Converting' /\ Held') /\ (pc' # "done" => Ended')
  BY <1>1, Kept
<1>6. Converting'
  BY <1>1, <1>2 DEF Converting, Phases
<1>7. CASE pc \in {"written", "failed"} /\ pc' = "number" /\ UNCHANGED <<i, out>>
  <2>1. pc = "written" /\ NumeralInv /\ i = 0
    BY <1>2, <1>7 DEF Converting, Callers, Phases
  <2>2. N = [k \in 1 .. out_size |-> buf[k - 1]] /\ buf[out_size] = 0 /\ out_size \in Nat
    BY <2>1, NumeralAtEnd DEF ResultIsNumeral, NumeralInv, TypeOK
  <2>3. out_size \in 0 .. Memory - 1
    <3>1. out_size < bufsize /\ bufsize \in 0 .. Memory /\ Memory \in Nat
      BY <2>1, ItoaAssumption DEF NumeralInv, Spelt, Call
    <3> QED BY <2>2, <3>1
  <2> HIDE DEF N
  <2>4. n = out_size /\ \A k \in 0 .. out_size - 1 : buf[k] = N[k + 1]
    BY <2>2
  <2>5. Held'
    BY <1>1, <1>7, <2>1, <2>2, <2>3, <2>4 DEF Held, N
  <2>6. Owed = N
    BY <2>1 DEF Owed, Phases, N
  <2>7. Owed' = N
    <3>1. Owed' = SubSeq(N, 1, n)
      BY <1>1, <1>7, <2>1, <2>4 DEF Owed, Phases, N
    <3>2. SubSeq(N, 1, n) = N
      BY <1>4, Parts
    <3> QED BY <3>1, <3>2
  <2>8. Reading' /\ Texts'
    BY <1>1, <1>2, <1>7, <2>1, <2>6, <2>7 DEF Reading, Texts
  <2> QED BY <1>1, <1>5, <1>6, <1>7, <2>5, <2>8 DEF PrintInv
<1>8. CASE pc = "number" /\ buf[i] \in 1 .. 255 /\ write_char(buf[i]) /\ i' = i + 1 /\ UNCHANGED pc
  <2>1. /\ out_size = n /\ out_size \in 0 .. Memory - 1 /\ i \in 0 .. n /\ buf[n] = 0
        /\ \A k \in 0 .. n - 1 : buf[k] = N[k + 1]
    BY <1>2, <1>8 DEF Held
  <2> HIDE DEF N
  <2> HIDE DEF n
  <2>2. i # n
    BY <1>8, <2>1
  <2>3. i \in 0 .. n - 1 /\ i + 1 \in 0 .. n
    BY <1>4, <2>1, <2>2
  <2> DEFINE w == SubSeq(N, i + 1, n)
  <2>4. w \in Seq(Nat) /\ w # << >> /\ w[1] = buf[i] /\ Tail(w) = SubSeq(N, (i + 1) + 1, n)
    <3>1. w \in Seq(Nat) /\ w # << >> /\ w[1] = N[i + 1] /\ Tail(w) = SubSeq(N, (i + 1) + 1, n)
      BY <1>4, <2>3, Parts DEF n
    <3> QED BY <2>1, <2>3, <3>1
  <2>5. Owed = w /\ Owed' = Tail(w)
    <3>1. Owed = w
      BY <1>8, <2>1 DEF Owed, Phases, N
    <3>2. Owed' = SubSeq(N, (i + 1) + 1, n)
      BY <1>1, <1>8, <2>1 DEF Owed, Phases, N
    <3> QED BY <2>4, <3>1, <3>2
  <2> HIDE DEF w
  <2>6. out' = Append(out, w[1]) /\ out \in Seq(Nat) /\ out' \in Seq(Nat)
    <3>1. w[1] \in Nat /\ out' = Append(out, w[1])
      BY <1>8, <2>4 DEF write_char
    <3> QED BY <1>2, <3>1 DEF Texts
  <2>7. PICK reads : \E p \in reads : Reads(format, reads) /\ RestOf(format, msg, p) /\ Tells(format, out, w, given, p)
    BY <1>2, <1>8, <2>5 DEF Reading
  <2>8. PICK p \in reads : Reads(format, reads) /\ RestOf(format, msg, p) /\ Tells(format, out, w, given, p)
    BY <2>7
  <2>9. Tells(format, out', Tail(w), given, p)
    BY <2>4, <2>6, <2>8, TellsWrite
  <2>10. Reading'
    BY <1>1, <2>5, <2>8, <2>9 DEF Reading
  <2>11. Texts'
    BY <1>1, <1>2, <2>6 DEF Texts
  <2>12. Held'
    BY <1>1, <1>8, <2>1, <2>3 DEF Held, N, n
  <2> QED BY <1>1, <1>5, <1>6, <1>8, <2>10, <2>11, <2>12 DEF PrintInv
<1>9. CASE pc = "number" /\ buf[i] = 0 /\ pc' = "parse" /\ UNCHANGED <<i, out>>
  <2>1. /\ out_size = n /\ i \in 0 .. n /\ \A k \in 0 .. n - 1 : buf[k] = N[k + 1]
    BY <1>2, <1>9 DEF Held
  <2> HIDE DEF N
  <2>2. i = n
    <3>1. SUFFICES ASSUME i # n PROVE FALSE
      OBVIOUS
    <3>2. i \in 0 .. n - 1 /\ i + 1 \in 1 .. n
      BY <1>4, <2>1, <3>1
    <3>3. N[i + 1] \in Printable /\ N[i + 1] = 0
      BY <1>4, <1>9, <2>1, <3>2
    <3> QED BY <3>3 DEF Printable
  <2>3. Owed = << >>
    <3>1. Owed = SubSeq(N, n + 1, n)
      BY <1>9, <2>1, <2>2 DEF Owed, Phases, N
    <3>2. SubSeq(N, n + 1, n) = << >>
      BY <1>4, Parts
    <3> QED BY <3>1, <3>2
  <2>4. Owed' = << >>
    BY <1>9 DEF Owed, Phases
  <2>5. Reading' /\ Texts'
    BY <1>1, <1>2, <1>9, <2>3, <2>4 DEF Reading, Texts
  <2> QED BY <1>1, <1>5, <1>9, <2>5 DEF PrintInv
<1> QED BY <1>7, <1>8, <1>9 DEF write_buffer

\* Behind the format nothing is owed.
LEMMA EndPrint == PrintInv /\ end_message => PrintInv'
<1> SUFFICES ASSUME PrintInv, end_message PROVE PrintInv'
  OBVIOUS
<1>1. /\ pc = "parse" /\ pc' = "done" /\ msg = << >>
      /\ UNCHANGED <<x, frame, rest, ndigit, magnitude, offset, out_size, buf>>
      /\ UNCHANGED <<caller, msg, str, i, format, given>>
      /\ out' = IF caller = "_cprintln" THEN Append(out, 10) ELSE out
  BY DEF end_message, write_char
<1>2. caller # "other"
  BY <1>1 DEF PrintInv, Callers, Phases
<1>3. Texts /\ Reading
  BY <1>2 DEF PrintInv
<1>4. format \in Seq(Nat) /\ Len(format) \in Nat /\ out \in Seq(Nat) /\ given \in Seq(Arguments)
  BY <1>3, FormatText DEF Texts
<1>5. out = Expansion(format, given)
  <2>1. PICK reads : \E p \in reads : RestOf(format, msg, p) /\ Tells(format, out, Owed, given, p)
    BY <1>1, <1>3 DEF Reading
  <2>2. PICK p \in reads : RestOf(format, msg, p) /\ Tells(format, out, Owed, given, p)
    BY <2>1
  <2>3. Len(msg) = 0
    BY <1>1
  <2>4. p = Len(format) + 1
    BY <1>4, <2>2, <2>3 DEF RestOf
  <2>5. Owed = << >>
    BY <1>1 DEF Owed, Phases
  <2>6. Tells(format, out, << >>, given, Len(format) + 1)
    BY <2>2, <2>4, <2>5
  <2> QED BY <1>4, <2>6, TellsAll
<1>6. out' \in Seq(Nat) /\ out' = out \o (IF caller = "_cprintln" THEN <<10>> ELSE << >>)
  <2>1. CASE caller = "_cprintln"
    <3> DEFINE c == 10
    <3>1. c \in Nat /\ out' = Append(out, c)
      BY <1>1, <2>1
    <3> HIDE DEF c
    <3>2. out' = out \o <<c>> /\ out' \in Seq(Nat)
      BY <1>4, <3>1, AppendIsConcatenation
    <3> QED BY <2>1, <3>2 DEF c
  <2>2. CASE caller # "_cprintln"
    BY <1>1, <1>4, <2>2, EmptySequence
  <2> QED BY <2>1, <2>2
<1>7. Ended'
  BY <1>1, <1>5, <1>6 DEF Ended
<1>8. Reading' /\ Texts'
  BY <1>1, <1>3, <1>6 DEF Reading, Texts
<1> QED BY <1>1, <1>2, <1>7, <1>8, Kept DEF PrintInv

\* Every step preserves the invariant.
LEMMA StepPrint == PrintInv /\ [PrintNext]_printVars => PrintInv'
<1> SUFFICES ASSUME PrintInv, [PrintNext]_printVars PROVE PrintInv'
  OBVIOUS
<1>1. CASE PrintReturned \/ UNCHANGED printVars
  <2>1. UNCHANGED printVars
    BY <1>1 DEF PrintReturned, Returned, printVars
  <2> QED BY <2>1, SameState
<1>2. CASE Running /\ UNCHANGED printing
  BY <1>2, RunningPrint
<1> QED BY <1>1, <1>2, PlainPrint, CharacterPrint, StringPrint, NumberPrint, BufferPrint, EndPrint
    DEF PrintNext, Printing

\* Registers stay in range and the shared buffer holds nothing but characters of
\* numerals, whichever numbers a message prints one after the other.
THEOREM CprintTypes == PrintSpec => []TypeOK
<1>1. PrintInv => TypeOK
  BY DEF PrintInv
<1> QED BY <1>1, InitPrint, StepPrint, PTL DEF PrintSpec

\* Each number of a message is converted to its numeral in the shared buffer.
THEOREM CprintNumerals == PrintSpec => []ResultIsNumeral
<1>1. PrintInv => ResultIsNumeral
  <2>1. CASE pc \in Phases
    BY <2>1, NumeralAtEnd DEF PrintInv, Callers
  <2>2. CASE pc \notin Phases
    BY <2>2 DEF Phases, ResultIsNumeral
  <2> QED BY <2>1, <2>2
<1> QED BY <1>1, InitPrint, StepPrint, PTL DEF PrintSpec

\* No conversion writes outside the buffer it was given.
THEOREM CprintInBounds == PrintSpec => []BufferInBounds
<1>1. PrintInv => BufferInBounds
  BY DEF PrintInv, Bounded, BufferInBounds, Converting
<1> QED BY <1>1, InitPrint, StepPrint, PTL DEF PrintSpec

\* _cprint writes the message with its arguments put in, for every message and all
\* arguments, when the buffer suffices.
THEOREM CprintIsExpansion == PrintSpec => []OutputIsExpansion
<1>1. PrintInv => OutputIsExpansion
  BY DEF PrintInv, Ended, OutputIsExpansion, Callers, Phases
<1> QED BY <1>1, InitPrint, StepPrint, PTL DEF PrintSpec
=============================================================================
