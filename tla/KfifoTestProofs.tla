-------------------------- MODULE KfifoTestProofs --------------------------
(***************************************************************************)
(* Proof that kfifo-test.c reports a device's losses truthfully, for a     *)
(* FIFO of any size and however reads and writes are cut up: nothing lost, *)
(* nothing reported; at most one report for each byte lost; and a loss of  *)
(* less than a decade does not go unnoticed.                               *)
(***************************************************************************)
EXTENDS KfifoTest, TLAPS

\* Reduction modulo ten can be put off.
LEMMA ModAdd ==
    ASSUME NEW x \in Nat, NEW y \in Nat
    PROVE  ((x % 10) + y) % 10 = (x + y) % 10
  OBVIOUS

\* Numbers that agree modulo ten still do after the same addition.
LEMMA ModShift ==
    ASSUME NEW x \in Nat, NEW k \in Nat, x % 10 = k % 10, NEW y \in Nat
    PROVE  (x + y) % 10 = (k + y) % 10
<1>1. (x + y) % 10 = ((x % 10) + y) % 10 /\ (k + y) % 10 = ((k % 10) + y) % 10
  BY ModAdd
<1> QED BY <1>1

\* The rounded-up pattern consists of whole decades.
LEMMA PrefillWhole == Prefill \in Nat /\ Prefill > 0 /\ Prefill % 10 = 0
  BY SizeAssumption DEF Prefill, Base

Digit == 0..(Base - 1)

-----------------------------------------------------------------------------
(* The bytes under way, and how many are missing before each of them. *)

\* n bytes s are under way to a reader that expects `next`, from a writer at o:
\* before the i-th byte d[i] bytes are missing, d[n + 1] in all.  Those reported
\* (rep) and those missing are among those lost (gone); with no report and less
\* than a decade lost they are all of them.
Missing(n, s, d, next, o, rep, gone) ==
    /\ \A i, j \in Nat : i <= j => d[i] <= d[j]
    /\ \A i \in 1..n : s[i] = (next + (i - 1) + d[i]) % 10
    /\ o % 10 = (next + n + d[n + 1]) % 10
    /\ rep + d[n + 1] <= gone
    /\ rep = 0 /\ gone < 10 => d[n + 1] = gone

\* There is such a count.
Accounted(n, s, next, o, rep, gone) ==
    \E d \in [Nat -> Nat] : Missing(n, s, d, next, o, rep, gone)

\* Bytes the writer adds continue its count.
LEMMA AccountedWrite ==
    ASSUME NEW n \in Nat, NEW s, NEW next \in Nat, NEW o \in Nat,
           NEW rep \in Nat, NEW gone \in Nat, Accounted(n, s, next, o, rep, gone),
           NEW p \in Nat, p % 10 = o % 10, NEW m \in Nat, NEW t,
           \A i \in 1..n : t[i] = s[i],
           \A i \in 1..m : t[n + i] = (p + (i - 1)) % 10
    PROVE  Accounted(n + m, t, next, p + m, rep, gone)
<1>0. PICK d \in [Nat -> Nat] : Missing(n, s, d, next, o, rep, gone)
  BY DEF Accounted
<1> DEFINE e == [i \in Nat |-> IF i <= n THEN d[i] ELSE d[n + 1]]
<1>1. /\ \A i, j \in Nat : i <= j => d[i] <= d[j]
      /\ \A i \in 1..n : s[i] = (next + (i - 1) + d[i]) % 10
      /\ o % 10 = (next + n + d[n + 1]) % 10
      /\ rep + d[n + 1] <= gone
      /\ rep = 0 /\ gone < 10 => d[n + 1] = gone
  BY <1>0 DEF Missing
<1>2. PICK x \in Nat : x = d[n + 1]
  OBVIOUS
<1> DEFINE k == next + n + x
<1>3. k \in Nat /\ p % 10 = k % 10
  <2>1. o % 10 = (next + n + x) % 10
    BY <1>1, <1>2
  <2>2. k \in Nat
    OBVIOUS
  <2> HIDE DEF e
  <2> QED BY <2>1, <2>2, Zenon
<1>4. e \in [Nat -> Nat]
  OBVIOUS
<1>5. \A i \in Nat : i > n => e[i] = x
  BY <1>2
<1>6. \A i, j \in Nat : i <= j => e[i] <= e[j]
  BY <1>1
<1> HIDE DEF k
<1>7. \A y \in Nat : (p + y) % 10 = (k + y) % 10
  BY <1>3, ModShift
<1>8. ASSUME NEW i \in 1..(n + m) PROVE t[i] = (next + (i - 1) + e[i]) % 10
  <2>1. CASE i <= n
    BY <1>1, <2>1
  <2>2. CASE i > n
    <3>1. i - n \in 1..m /\ n + (i - n) = i /\ (i - n) - 1 \in Nat
      BY <2>2
    <3>2. t[i] = (p + ((i - n) - 1)) % 10
      BY <3>1
    <3>3. (p + ((i - n) - 1)) % 10 = (k + ((i - n) - 1)) % 10
      BY <3>1, <1>7
    <3>4. k + ((i - n) - 1) = next + (i - 1) + x
      BY DEF k
    <3>5. e[i] = x
      BY <1>5, <2>2
    <3> QED BY <3>2, <3>3, <3>4, <3>5
  <2> QED BY <2>1, <2>2
<1>9. (p + m) % 10 = (next + (n + m) + e[n + m + 1]) % 10
  <2>1. (p + m) % 10 = (k + m) % 10
    BY <1>7
  <2>2. k + m = next + (n + m) + x
    BY DEF k
  <2>3. e[n + m + 1] = x
    BY <1>5
  <2> QED BY <2>1, <2>2, <2>3
<1>10. e[n + m + 1] = d[n + 1]
  BY <1>2, <1>5
<1> HIDE DEF e
<1>11. Missing(n + m, t, e, next, p + m, rep, gone)
  BY <1>1, <1>6, <1>8, <1>9, <1>10 DEF Missing
<1> QED BY <1>4, <1>11 DEF Accounted

\* A byte that is not the one expected has bytes missing before it, and less than
\* a decade of missing bytes shows.
LEMMA FirstByte ==
    ASSUME NEW next \in 0..9, NEW x \in Nat
    PROVE  /\ (next + x) % 10 \in 0..9
           /\ (next + x) % 10 # next => x > 0
           /\ (next + x) % 10 = next /\ x < 10 => x = 0
  OBVIOUS

\* The byte expected after one that came x places late.
LEMMA AfterByte ==
    ASSUME NEW next \in 0..9, NEW x \in Nat, NEW y \in Nat, NEW b \in Nat, b = (next + x) % 10
    PROVE  (((b + 1) % 10) + y) % 10 = (next + x + 1 + y) % 10
<1>1. (((b + 1) % 10) + y) % 10 = (b + 1 + y) % 10
  BY ModAdd
<1>2. (((next + x) % 10) + (1 + y)) % 10 = (next + x + (1 + y)) % 10
  BY ModAdd
<1> QED BY <1>1, <1>2

\* Looking at the first byte finds the bytes missing before it, and reports them
\* as one, unless they are whole decades.
LEMMA AccountedDump ==
    ASSUME NEW n \in Nat, NEW s, NEW next \in 0..9, NEW o \in Nat,
           NEW rep \in Nat, NEW gone \in Nat, Accounted(n + 1, s, next, o, rep, gone),
           NEW t, \A i \in 1..n : t[i] = s[i + 1]
    PROVE  Accounted(n, t, (s[1] + 1) % 10, o, IF s[1] # next THEN rep + 1 ELSE rep, gone)
<1>0. PICK d \in [Nat -> Nat] : Missing(n + 1, s, d, next, o, rep, gone)
  BY DEF Accounted
<1> DEFINE e == [i \in Nat |-> d[i + 1] - d[1]]
           q == IF s[1] # next THEN rep + 1 ELSE rep
           l == (s[1] + 1) % 10
<1>1. /\ \A i, j \in Nat : i <= j => d[i] <= d[j]
      /\ \A i \in 1..(n + 1) : s[i] = (next + (i - 1) + d[i]) % 10
      /\ o % 10 = (next + (n + 1) + d[n + 2]) % 10
      /\ rep + d[n + 2] <= gone
      /\ rep = 0 /\ gone < 10 => d[n + 2] = gone
  <2>1. (n + 1) + 1 = n + 2
    OBVIOUS
  <2> QED BY <1>0, <2>1 DEF Missing
<1>2. PICK x \in Nat : x = d[1]
  OBVIOUS
<1>3. s[1] = (next + x) % 10
  <2>1. 1 \in 1..(n + 1)
    OBVIOUS
  <2>2. s[1] = (next + (1 - 1) + d[1]) % 10
    BY <1>1, <2>1
  <2> QED BY <1>2, <2>2
<1>4. /\ s[1] \in 0..9 /\ (s[1] # next => x > 0) /\ (s[1] = next /\ x < 10 => x = 0)
      /\ \A y \in Nat : (l + y) % 10 = (next + x + 1 + y) % 10
  <2>1. PICK b : b = s[1]
    OBVIOUS
  <2>2. b = (next + x) % 10
    BY <1>3, <2>1, Zenon
  <2>3. b \in 0..9 /\ (b # next => x > 0) /\ (b = next /\ x < 10 => x = 0)
    BY <2>2, FirstByte
  <2>4. b \in Nat
    BY <2>3
  <2>5. \A y \in Nat : (((b + 1) % 10) + y) % 10 = (next + x + 1 + y) % 10
    BY <2>2, <2>4, AfterByte
  <2> QED BY <2>1, <2>3, <2>5, Zenon
<1>5. l \in Nat
  <2>1. PICK b \in 0..9 : b = s[1]
    BY <1>4, Zenon
  <2>2. (b + 1) % 10 \in Nat
    OBVIOUS
  <2> QED BY <2>1, <2>2, Zenon
<1> HIDE DEF l
<1>6. \A i \in Nat : i >= 0 => d[i + 1] >= x /\ e[i] = d[i + 1] - x
  <2> TAKE i \in Nat
  <2>0. CASE i = 0
    BY <1>2, <2>0
  <2>1. CASE i # 0
    <3>1. 1 <= i + 1 /\ i + 1 \in Nat /\ 1 \in Nat
      BY <2>1
    <3>2. d[1] <= d[i + 1]
      BY <1>1, <3>1
    <3> QED BY <1>2, <3>2
  <2> QED BY <2>0, <2>1
<1>7. e \in [Nat -> Nat]
  <2> SUFFICES ASSUME NEW i \in Nat PROVE d[i + 1] - d[1] \in Nat
    OBVIOUS
  <2>1. d[i + 1] \in Nat /\ d[i + 1] >= x
    BY <1>6
  <2> QED BY <1>2, <2>1
<1>8. ASSUME NEW i \in Nat, NEW j \in Nat, i <= j PROVE e[i] <= e[j]
  <2>1. d[i + 1] <= d[j + 1]
    <3>1. i + 1 \in Nat /\ j + 1 \in Nat /\ i + 1 <= j + 1
      BY <1>8
    <3> QED BY <1>1, <3>1
  <2>2. e[i] = d[i + 1] - x /\ e[j] = d[j + 1] - x /\ d[i + 1] \in Nat /\ d[j + 1] \in Nat
    BY <1>6
  <2> QED BY <2>1, <2>2
<1>9. \A i \in Nat : \E y, z \in Nat : y = e[i] /\ z = d[i + 1] /\ z = y + x
  <2> TAKE i \in Nat
  <2>1. e[i] \in Nat /\ d[i + 1] \in Nat /\ e[i] = d[i + 1] - x
    BY <1>6, <1>7
  <2> QED BY <2>1
<1> HIDE DEF e
<1>10. ASSUME NEW i \in 1..n PROVE t[i] = (l + (i - 1) + e[i]) % 10
  <2>0. i \in Nat /\ i + 1 \in 1..(n + 1)
    OBVIOUS
  <2>1. PICK y, z \in Nat : y = e[i] /\ z = d[i + 1] /\ z = y + x
    BY <1>9, <2>0, Zenon
  <2>2. t[i] = (next + ((i + 1) - 1) + z) % 10
    <3>1. t[i] = s[i + 1]
      OBVIOUS
    <3>2. s[i + 1] = (next + ((i + 1) - 1) + d[i + 1]) % 10
      BY <1>1, <2>0, Zenon
    <3> QED BY <2>1, <3>1, <3>2, Zenon
  <2>3. (l + ((i - 1) + y)) % 10 = (next + x + 1 + ((i - 1) + y)) % 10
    BY <1>4
  <2>4. next + x + 1 + ((i - 1) + y) = next + ((i + 1) - 1) + z
    BY <2>1
  <2>5. l + (i - 1) + y = l + ((i - 1) + y)
    BY <1>5
  <2> QED BY <2>1, <2>2, <2>3, <2>4, <2>5
<1>11. PICK y, z \in Nat : y = e[n + 1] /\ z = d[n + 2] /\ z = y + x
  <2>1. n + 1 \in Nat /\ (n + 1) + 1 = n + 2
    OBVIOUS
  <2>2. PICK y, z \in Nat : y = e[n + 1] /\ z = d[(n + 1) + 1] /\ z = y + x
    BY <1>9, <2>1, Zenon
  <2> QED BY <2>1, <2>2, Zenon
<1>12. o % 10 = (l + n + e[n + 1]) % 10
  <2>1. (l + (n + y)) % 10 = (next + x + 1 + (n + y)) % 10
    BY <1>4
  <2>2. next + x + 1 + (n + y) = next + (n + 1) + z
    BY <1>11
  <2>3. l + n + y = l + (n + y)
    BY <1>5
  <2> QED BY <1>1, <1>11, <2>1, <2>2, <2>3
<1>13. q + e[n + 1] <= gone /\ (q = 0 /\ gone < 10 => e[n + 1] = gone)
  <2>1. rep + z <= gone /\ (rep = 0 /\ gone < 10 => z = gone)
    BY <1>1, <1>11
  <2>2. CASE s[1] # next
    BY <1>4, <1>11, <2>1, <2>2
  <2>3. CASE s[1] = next
    <3>1. gone < 10 => x = 0
      BY <1>4, <1>11, <2>1, <2>3
    <3> QED BY <1>11, <2>1, <2>3, <3>1
  <2> QED BY <2>2, <2>3
<1> HIDE DEF q
<1>14. Missing(n, t, e, l, o, q, gone)
  BY <1>8, <1>10, <1>12, <1>13 DEF Missing
<1> QED BY <1>7, <1>14 DEF Accounted, l, q

\* A byte lost at k is missing before all that come after it.
LEMMA AccountedLose ==
    ASSUME NEW n \in Nat, NEW s, NEW next \in Nat, NEW o \in Nat,
           NEW rep \in Nat, NEW gone \in Nat, Accounted(n + 1, s, next, o, rep, gone),
           NEW k \in 1..(n + 1), NEW t,
           \A i \in 1..n : t[i] = IF i < k THEN s[i] ELSE s[i + 1]
    PROVE  Accounted(n, t, next, o, rep, gone + 1)
<1>0. PICK d \in [Nat -> Nat] : Missing(n + 1, s, d, next, o, rep, gone)
  BY DEF Accounted
<1> DEFINE e == [i \in Nat |-> IF i < k THEN d[i] ELSE d[i + 1] + 1]
<1>1. /\ \A i, j \in Nat : i <= j => d[i] <= d[j]
      /\ \A i \in 1..(n + 1) : s[i] = (next + (i - 1) + d[i]) % 10
      /\ o % 10 = (next + (n + 1) + d[n + 2]) % 10
      /\ rep + d[n + 2] <= gone
      /\ rep = 0 /\ gone < 10 => d[n + 2] = gone
  <2>1. (n + 1) + 1 = n + 2
    OBVIOUS
  <2> QED BY <1>0, <2>1 DEF Missing
<1>2. e \in [Nat -> Nat]
  OBVIOUS
<1>3. \A i \in Nat : \E y, z \in Nat :
        y = d[i] /\ z = d[i + 1] /\ y <= z /\ e[i] = IF i < k THEN y ELSE z + 1
  <2> TAKE i \in Nat
  <2>1. i + 1 \in Nat /\ i <= i + 1
    OBVIOUS
  <2>2. d[i] <= d[i + 1] /\ d[i] \in Nat /\ d[i + 1] \in Nat
    BY <1>1, <2>1
  <2> QED BY <2>2
<1>4. ASSUME NEW i \in Nat, NEW j \in Nat, i <= j PROVE e[i] <= e[j]
  <2>1. PICK y, z \in Nat : y = d[i] /\ z = d[i + 1] /\ y <= z /\ e[i] = IF i < k THEN y ELSE z + 1
    BY <1>3
  <2>2. PICK u, v \in Nat : u = d[j] /\ v = d[j + 1] /\ u <= v /\ e[j] = IF j < k THEN u ELSE v + 1
    BY <1>3
  <2>3. y <= u /\ z <= v
    <3>1. i + 1 \in Nat /\ j + 1 \in Nat /\ i + 1 <= j + 1
      BY <1>4
    <3> QED BY <1>1, <1>4, <2>1, <2>2, <3>1
  <2> HIDE DEF e
  <2> QED BY <1>4, <2>1, <2>2, <2>3
<1> HIDE DEF e
<1>5. ASSUME NEW i \in 1..n PROVE t[i] = (next + (i - 1) + e[i]) % 10
  <2>1. PICK y, z \in Nat : y = d[i] /\ z = d[i + 1] /\ y <= z /\ e[i] = IF i < k THEN y ELSE z + 1
    BY <1>3
  <2>2. CASE i < k
    BY <1>1, <2>1, <2>2
  <2>3. CASE ~(i < k)
    <3>1. t[i] = (next + ((i + 1) - 1) + z) % 10 /\ e[i] = z + 1
      BY <1>1, <2>1, <2>3
    <3>2. next + ((i + 1) - 1) + z = next + (i - 1) + (z + 1)
      BY <2>1
    <3> QED BY <3>1, <3>2
  <2> QED BY <2>2, <2>3
<1>6. PICK z \in Nat : z = d[n + 2] /\ e[n + 1] = z + 1
  <2>1. n + 1 \in Nat /\ (n + 1) + 1 = n + 2 /\ ~(n + 1 < k)
    OBVIOUS
  <2>2. PICK y, z \in Nat : z = d[(n + 1) + 1] /\ e[n + 1] = IF n + 1 < k THEN y ELSE z + 1
    BY <1>3, <2>1
  <2> QED BY <2>1, <2>2
<1>7. o % 10 = (next + n + e[n + 1]) % 10
  <2>1. next + (n + 1) + z = next + n + (z + 1)
    BY <1>6
  <2> QED BY <1>1, <1>6, <2>1
<1>8. rep + e[n + 1] <= gone + 1 /\ (rep = 0 /\ gone + 1 < 10 => e[n + 1] = gone + 1)
  <2>1. rep + z <= gone /\ (rep = 0 /\ gone < 10 => z = gone)
    BY <1>1, <1>6
  <2> QED BY <1>6, <2>1
<1>9. Missing(n, t, e, next, o, rep, gone + 1)
  BY <1>4, <1>5, <1>7, <1>8 DEF Missing
<1> QED BY <1>2, <1>9 DEF Accounted

-----------------------------------------------------------------------------
(* The program. *)

\* The bytes in the reader's buffer come before those in the device.
UnderWay == Len(buf) + Len(dev)
Under == [i \in 1..UnderWay |-> IF i <= Len(buf) THEN buf[i] ELSE dev[i - Len(buf)]]

\* What was lost is reported, or missing from the bytes under way.
LossInv == Accounted(UnderWay, Under, last, off, errors, lost)

\* do_read() has a buffer in hand only inside dump(), and stops at the limit.
ReaderInv ==
    /\ wpc = "fork" => rpc = "unborn"
    /\ rpc = "dump" => buf # <<>>
    /\ rpc \in {"unborn", "poll"} => buf = <<>>
    /\ rpc # "failed" => errors <= ERRORS + 1

Ind == TypeOK /\ ReaderInv /\ LossInv

\* Types and lengths of a concatenation.
LEMMA ConcatType ==
    ASSUME NEW S, NEW f \in Seq(S), NEW g \in Seq(S)
    PROVE  f \o g \in Seq(S) /\ Len(f \o g) = Len(f) + Len(g)
  OBVIOUS

\* Taking a byte out of the device moves up those behind it.
LEMMA RemoveAtProperties ==
    ASSUME NEW s \in Seq(Digit), NEW i \in 1..Len(s)
    PROVE  /\ RemoveAt(s, i) \in Seq(Digit) /\ Len(RemoveAt(s, i)) = Len(s) - 1
           /\ \A j \in 1..(Len(s) - 1) : RemoveAt(s, i)[j] = IF j < i THEN s[j] ELSE s[j + 1]
<1> DEFINE f == SubSeq(s, 1, i - 1)
           g == SubSeq(s, i + 1, Len(s))
<1>1. /\ f \in Seq(Digit) /\ Len(f) = i - 1 /\ g \in Seq(Digit) /\ Len(g) = Len(s) - i
      /\ \A j \in 1..(i - 1) : f[j] = s[j]
      /\ \A j \in 1..(Len(s) - i) : g[j] = s[i + j]
  OBVIOUS
<1>2. RemoveAt(s, i) = f \o g
  BY DEF RemoveAt
<1> HIDE DEF f, g
<1>3. f \o g \in Seq(Digit) /\ Len(f \o g) = Len(f) + Len(g)
  BY <1>1, ConcatType
<1>4. Len(s) \in Nat /\ (i - 1) + (Len(s) - i) = Len(s) - 1
  OBVIOUS
<1>5. ASSUME NEW j \in 1..(Len(s) - 1) PROVE (f \o g)[j] = IF j < i THEN s[j] ELSE s[j + 1]
  <2>1. CASE j < i
    <3>1. j \in 1..Len(f)
      BY <1>1, <2>1
    <3>2. (f \o g)[j] = f[j]
      BY <1>1, <3>1
    <3> QED BY <1>1, <2>1, <3>2
  <2>2. CASE ~(j < i)
    <3>1. /\ j > Len(f) /\ j <= Len(f) + Len(g) /\ j - Len(f) = j - i + 1
          /\ j - i + 1 \in 1..(Len(s) - i) /\ i + (j - i + 1) = j + 1
      BY <1>1, <1>4, <2>2
    <3>2. (f \o g)[j] = g[j - Len(f)]
      BY <1>1, <3>1
    <3> QED BY <1>1, <2>2, <3>1, <3>2
  <2> QED BY <2>1, <2>2
<1> QED BY <1>1, <1>2, <1>3, <1>4, <1>5

\* The losses a step does not touch.
LEMMA LossInvStable ==
    ASSUME LossInv, UNCHANGED <<buf, dev, last, off, errors, lost>>
    PROVE  LossInv'
  BY DEF LossInv, UnderWay, Under

\* Every step of the two processes and of the device keeps the invariant.
THEOREM Inductive == Spec => []Ind
<1>1. Init => Ind
  <2> SUFFICES ASSUME Init PROVE Ind
    OBVIOUS
  <2>1. TypeOK /\ ReaderInv
    BY SizeAssumption, PrefillWhole DEF Init, TypeOK, ReaderInv, Base, ERRORS
  <2> DEFINE d == [i \in Nat |-> 0]
  <2>2. UnderWay = 0 /\ last = 0 /\ off = 0 /\ errors = 0 /\ lost = 0
    BY DEF Init, UnderWay
  <2>3. d \in [Nat -> Nat] /\ \A i \in Nat : d[i] = 0
    OBVIOUS
  <2> HIDE DEF d
  <2>4. Missing(UnderWay, Under, d, last, off, errors, lost)
    BY <2>2, <2>3 DEF Missing
  <2> QED BY <2>1, <2>3, <2>4 DEF Ind, LossInv, Accounted
<1>2. Ind /\ [Next]_vars => Ind'
  <2> SUFFICES ASSUME Ind, [Next]_vars PROVE Ind'
    OBVIOUS
  <2> USE SizeAssumption, PrefillWhole DEF Ind, ReaderInv, Base, ERRORS, TypeOK,
          Gone, writerVars, readerVars
  <2>0. /\ last \in 0..9 /\ last \in Nat /\ off \in Nat /\ errors \in Nat /\ lost \in Nat
        /\ buf \in Seq(Digit) /\ dev \in Seq(Digit) /\ Len(buf) \in Nat /\ Len(dev) \in Nat
    BY DEF Digit
  <2>1. CASE Fork
    <3>1. TypeOK' /\ ReaderInv'
      BY <2>1 DEF Fork
    <3>2. LossInv'
      BY <2>1, LossInvStable DEF Fork
    <3> QED BY <3>1, <3>2
  <2>2. CASE Write
    <3> DEFINE o == IF off = Prefill THEN 0 ELSE off
    <3>1. PICK n \in 1..(Prefill - o) :
            /\ Len(dev) + n <= FifoSize
            /\ dev' = dev \o [i \in 1..n |-> (o + i - 1) % Base]
            /\ off' = o + n
      BY <2>2 DEF Write
    <3> DEFINE new == [i \in 1..n |-> (o + i - 1) % Base]
    <3>2. o \in Nat /\ o % 10 = off % 10 /\ o <= Prefill
      OBVIOUS
    <3>3. new \in Seq(Digit) /\ Len(new) = n
      BY <3>2 DEF Digit
    <3>4. /\ dev' \in Seq(Digit) /\ Len(dev') = Len(dev) + n
          /\ \A i \in 1..Len(dev) : dev'[i] = dev[i]
          /\ \A i \in 1..n : dev'[Len(dev) + i] = (o + i - 1) % 10
      BY <3>1, <3>3 DEF Digit
    <3>5. UNCHANGED <<wpc, rpc, buf, last, errors, lost>>
      BY <2>2 DEF Write
    <3>6. TypeOK' /\ ReaderInv'
      BY <3>1, <3>2, <3>4, <3>5 DEF Digit
    <3> HIDE DEF o
    <3>7. UnderWay \in Nat /\ UnderWay' = UnderWay + n /\ n \in Nat
      BY <2>0, <3>1, <3>4, <3>5 DEF UnderWay
    <3>8. ASSUME NEW i \in 1..UnderWay PROVE Under'[i] = Under[i]
      <4>1. i \in 1..UnderWay' /\ (~(i <= Len(buf)) => i - Len(buf) \in 1..Len(dev))
        BY <2>0, <3>7 DEF UnderWay
      <4>2. /\ Under[i] = IF i <= Len(buf) THEN buf[i] ELSE dev[i - Len(buf)]
            /\ Under'[i] = IF i <= Len(buf) THEN buf[i] ELSE dev'[i - Len(buf)]
        BY <3>5, <4>1, Zenon DEF Under
      <4> QED BY <3>4, <4>1, <4>2, Zenon
    <3>9. ASSUME NEW i \in 1..n PROVE Under'[UnderWay + i] = (o + (i - 1)) % 10
      <4>1. UnderWay + i \in 1..UnderWay' /\ UnderWay + i > Len(buf)
            /\ UnderWay + i - Len(buf) = Len(dev) + i /\ o + i - 1 = o + (i - 1)
        BY <2>0, <3>2, <3>7 DEF UnderWay
      <4>2. Under'[UnderWay + i] = dev'[UnderWay + i - Len(buf)]
        <5>1. ~(UnderWay + i <= Len(buf))
          BY <2>0, <3>7, <4>1
        <5>2. PICK j \in 1..UnderWay' : j = UnderWay + i
          BY <4>1, Zenon
        <5>3. Under'[j] = IF j <= Len(buf) THEN buf[j] ELSE dev'[j - Len(buf)]
          BY <3>5, Zenon DEF Under
        <5>4. ~(j <= Len(buf))
          BY <5>1, <5>2, Zenon
        <5>5. Under'[j] = dev'[j - Len(buf)]
          BY <5>3, <5>4, Zenon
        <5> QED BY <2>0, <3>7, <5>2, <5>5
      <4> QED BY <3>4, <4>1, <4>2
    <3>10. Accounted(UnderWay + n, Under', last, o + n, errors, lost)
      BY <2>0, <3>2, <3>7, <3>8, <3>9, AccountedWrite, Zenon DEF LossInv
    <3>11. LossInv'
      BY <3>1, <3>5, <3>7, <3>10 DEF LossInv
    <3> QED BY <3>6, <3>11
  <2>3. CASE WriteTimeout \/ WriteFails \/ Reap
    <3>1. TypeOK' /\ ReaderInv'
      BY <2>3 DEF WriteTimeout, WriteFails, Reap
    <3>2. LossInv'
      BY <2>3, LossInvStable DEF WriteTimeout, WriteFails, Reap
    <3> QED BY <3>1, <3>2
  <2>4. CASE Read
    <3>1. CASE FifoSize \div 8 = 0
      <4>1. TypeOK' /\ ReaderInv'
        BY <2>4, <3>1 DEF Read
      <4>2. LossInv'
        BY <2>4, <3>1, LossInvStable DEF Read
      <4> QED BY <4>1, <4>2
    <3>2. CASE FifoSize \div 8 # 0
      <4>1. PICK n \in 1..(FifoSize \div 8) :
              /\ n <= Len(dev) /\ rpc' = "dump"
              /\ buf' = SubSeq(dev, 1, n)
              /\ dev' = SubSeq(dev, n + 1, Len(dev))
        BY <2>4, <3>2 DEF Read
      <4>2. /\ buf = <<>> /\ Len(buf) = 0
            /\ UNCHANGED <<last, errors, wpc, off, lost>>
        BY <2>4 DEF Read
      <4>3. /\ buf' \in Seq(Digit) /\ Len(buf') = n
            /\ \A i \in 1..n : buf'[i] = dev[i]
        BY <4>1 DEF Digit
      <4>4. /\ dev' \in Seq(Digit) /\ Len(dev') = Len(dev) - n
            /\ \A i \in 1..(Len(dev) - n) : dev'[i] = dev[n + i]
        BY <4>1 DEF Digit
      <4>5. TypeOK'
        <5>1. n <= FifoSize \div 8 /\ n \in Nat /\ Len(dev) \in Nat
          OBVIOUS
        <5> QED BY <4>1, <4>2, <4>3, <4>4, <5>1 DEF Digit
      <4>6. ReaderInv'
        <5>1. Len(buf') # 0
          BY <4>3
        <5>2. buf' # <<>>
          BY <5>1
        <5> QED BY <2>4, <4>1, <4>2, <5>2 DEF Read
      <4>7. UnderWay' = UnderWay /\ UnderWay = Len(dev) /\ n \in Nat
        BY <2>0, <4>1, <4>2, <4>3, <4>4 DEF UnderWay
      <4>8. ASSUME NEW i \in 1..UnderWay PROVE Under'[i] = Under[i]
        <5>1. Under[i] = dev[i]
          BY <2>0, <4>2, <4>7 DEF Under
        <5>2. CASE i <= n
          BY <2>0, <4>3, <4>7, <5>1, <5>2 DEF Under
        <5>3. CASE i > n
          <6>1. i - n \in 1..(Len(dev) - n) /\ n + (i - n) = i
            BY <2>0, <4>7, <5>3
          <6>2. Under'[i] = dev'[i - n]
            BY <2>0, <4>3, <4>7, <5>3 DEF Under
          <6> QED BY <4>4, <5>1, <6>1, <6>2
        <5> QED BY <2>0, <4>7, <5>2, <5>3
      <4>9. Under' = Under
        BY <4>7, <4>8 DEF Under
      <4>10. LossInv'
        BY <4>2, <4>7, <4>9 DEF LossInv
      <4> QED BY <4>5, <4>6, <4>10
    <3> QED BY <3>1, <3>2
  <2>5. CASE DumpByte
    <3>1. /\ buf # <<>> /\ Len(buf) \in Nat /\ Len(buf) > 0
          /\ UNCHANGED <<wpc, off, dev, lost>>
      BY <2>5 DEF DumpByte
    <3>2. /\ buf' \in Seq(Digit) /\ Len(buf') = Len(buf) - 1
          /\ \A i \in 1..(Len(buf) - 1) : buf'[i] = buf[i + 1]
          /\ Head(buf) = buf[1] /\ Head(buf) \in Digit
      BY <2>5, <3>1 DEF DumpByte, Digit
    <3>3. TypeOK' /\ ReaderInv'
      <4>1. last' \in Digit
        BY <2>5, <3>2 DEF DumpByte, Digit
      <4>2. errors' \in 0..(ERRORS + 2) /\ (rpc' # "failed" => errors' <= ERRORS + 1)
        BY <2>5 DEF DumpByte
      <4>3. /\ rpc' \in {"failed", "poll", "dump"}
            /\ rpc' = "poll" => Len(buf) = 1
            /\ rpc' = "dump" => Len(buf) # 1
        BY <2>5 DEF DumpByte
      <4>4. /\ rpc' = "poll" => buf' = <<>>
            /\ rpc' = "dump" => buf' # <<>>
        <5>1. buf' = <<>> <=> Len(buf') = 0
          BY <3>2
        <5> QED BY <5>1, <4>3, <3>1, <3>2
      <4>5. TypeOK'
        BY <4>1, <4>2, <4>3, <3>1, <3>2 DEF Digit
      <4>6. wpc # "fork"
        BY <2>5 DEF DumpByte
      <4> QED BY <4>2, <4>3, <4>4, <4>5, <4>6, <3>1
    <3> DEFINE m == UnderWay'
    <3>4. m \in Nat /\ UnderWay = m + 1
      BY <2>0, <3>1, <3>2 DEF UnderWay
    <3>5. Under[1] = Head(buf)
      <4>1. 1 \in 1..UnderWay /\ 1 <= Len(buf)
        BY <2>0, <3>1 DEF UnderWay
      <4>2. Under[1] = IF 1 <= Len(buf) THEN buf[1] ELSE dev[1 - Len(buf)]
        BY <4>1, Zenon DEF Under
      <4> QED BY <3>2, <4>1, <4>2, Zenon
    <3>6. ASSUME NEW i \in 1..m PROVE Under'[i] = Under[i + 1]
      <4>1. i + 1 \in 1..UnderWay
        <5>1. \A n \in Nat : \A j \in 1..n : j + 1 \in 1..(n + 1)
          OBVIOUS
        <5> QED BY <3>4, <5>1, Zenon
      <4>2. CASE i + 1 <= Len(buf)
        <5>1. i \in 1..(Len(buf) - 1)
          BY <3>1, <4>2
        <5>2. Under'[i] = buf'[i] /\ Under[i + 1] = buf[i + 1]
          BY <3>2, <4>1, <4>2, <5>1 DEF Under
        <5> QED BY <3>2, <5>1, <5>2
      <4>3. CASE i + 1 > Len(buf)
        <5>1. ~(i <= Len(buf')) /\ ~(i + 1 <= Len(buf)) /\ i - Len(buf') = i + 1 - Len(buf)
          BY <3>1, <3>2, <4>3
        <5>2. Under'[i] = dev'[i - Len(buf')] /\ Under[i + 1] = dev[i + 1 - Len(buf)]
          BY <4>1, <5>1 DEF Under
        <5> QED BY <3>1, <5>1, <5>2
      <4> QED BY <3>1, <4>2, <4>3
    <3>7. /\ last' = (Under[1] + 1) % 10
          /\ errors' = IF Under[1] # last THEN errors + 1 ELSE errors
      BY <2>5, <3>5 DEF DumpByte
    <3>8. Accounted(m + 1, Under, last, off, errors, lost)
      BY <3>4 DEF LossInv
    <3> HIDE DEF m
    <3>9. Accounted(m, Under', (Under[1] + 1) % 10, off,
                    IF Under[1] # last THEN errors + 1 ELSE errors, lost)
      BY <2>0, <3>4, <3>6, <3>8, AccountedDump
    <3>10. LossInv'
      BY <3>1, <3>7, <3>9 DEF LossInv, m
    <3> QED BY <3>3, <3>10
  <2>6. CASE ReadTimeout \/ ReadFails
    <3>1. TypeOK' /\ ReaderInv'
      BY <2>6 DEF ReadTimeout, ReadFails
    <3>2. LossInv'
      BY <2>6, LossInvStable DEF ReadTimeout, ReadFails
    <3> QED BY <3>1, <3>2
  <2>7. CASE LoseByte
    <3>1. PICK i \in 1..Len(dev) : dev' = RemoveAt(dev, i)
      BY <2>7 DEF LoseByte
    <3>2. lost' = lost + 1 /\ lost < MaxLost /\ UNCHANGED <<wpc, off, rpc, buf, last, errors>>
      BY <2>7 DEF LoseByte
    <3>3. /\ dev' \in Seq(Digit) /\ Len(dev') = Len(dev) - 1
          /\ \A j \in 1..(Len(dev) - 1) : dev'[j] = IF j < i THEN dev[j] ELSE dev[j + 1]
      BY <2>0, <3>1, RemoveAtProperties
    <3>4. TypeOK' /\ ReaderInv'
      BY <3>2, <3>3 DEF Digit
    <3> DEFINE m == UnderWay'
               k == Len(buf) + i
    <3>5. m \in Nat /\ UnderWay = m + 1 /\ k \in 1..(m + 1)
      BY <2>0, <3>1, <3>2, <3>3 DEF UnderWay
    <3>6. ASSUME NEW j \in 1..m PROVE Under'[j] = IF j < k THEN Under[j] ELSE Under[j + 1]
      <4>1. j \in 1..UnderWay /\ j + 1 \in 1..UnderWay
        <5>1. \A n \in Nat : \A l \in 1..n : l \in 1..(n + 1) /\ l + 1 \in 1..(n + 1)
          OBVIOUS
        <5> QED BY <3>5, <5>1, Zenon
      <4>2. CASE j <= Len(buf)
        BY <2>0, <3>2, <4>1, <4>2 DEF Under
      <4>3. CASE j > Len(buf)
        <5>1. /\ j - Len(buf) \in 1..(Len(dev) - 1) /\ (j < k <=> j - Len(buf) < i)
              /\ j + 1 - Len(buf) = (j - Len(buf)) + 1
          BY <2>0, <3>2, <3>3, <4>3 DEF UnderWay
        <5>2. /\ Under'[j] = dev'[j - Len(buf)] /\ Under[j] = dev[j - Len(buf)]
              /\ Under[j + 1] = dev[j + 1 - Len(buf)]
          BY <2>0, <3>2, <4>1, <4>3 DEF Under
        <5> QED BY <3>3, <5>1, <5>2
      <4> QED BY <2>0, <4>2, <4>3
    <3>7. Accounted(m + 1, Under, last, off, errors, lost)
      BY <3>5 DEF LossInv
    <3> HIDE DEF m, k
    <3>8. Accounted(m, Under', last, off, errors, lost + 1)
      BY <2>0, <3>5, <3>6, <3>7, AccountedLose, Zenon
    <3>9. LossInv'
      BY <3>2, <3>8 DEF LossInv, m
    <3> QED BY <3>4, <3>9
  <2>8. CASE UNCHANGED vars
    <3>1. TypeOK' /\ ReaderInv'
      BY <2>8 DEF vars
    <3>2. LossInv'
      BY <2>8, LossInvStable DEF vars
    <3> QED BY <3>1, <3>2
  <2> QED
    BY <2>1, <2>2, <2>3, <2>4, <2>5, <2>6, <2>7, <2>8
    DEF Next, WriterStep, ReaderStep, Finished
<1> QED BY <1>1, <1>2, PTL DEF Spec

\* The reader stops at its limit, and no more than FifoSize \div 8 bytes are read
\* or FifoSize bytes stored at once.
THEOREM TypeCorrect == Spec => []TypeOK
<1>1. Ind => TypeOK
  BY DEF Ind
<1> QED BY <1>1, Inductive, PTL

\* A lost byte costs at most one report.
THEOREM OneReportPerLossSafe == Spec => []OneReportPerLoss
<1>1. Ind => OneReportPerLoss
  <2> SUFFICES ASSUME Ind PROVE OneReportPerLoss
    OBVIOUS
  <2>1. errors \in Nat /\ lost \in Nat /\ UnderWay + 1 \in Nat
    BY DEF Ind, TypeOK, UnderWay
  <2>2. PICK d \in [Nat -> Nat] : errors + d[UnderWay + 1] <= lost
    BY DEF Ind, LossInv, Accounted, Missing
  <2> QED BY <2>1, <2>2 DEF OneReportPerLoss
<1> QED BY <1>1, Inductive, PTL

\* A device that loses nothing is never accused.
THEOREM NoFalseAlarmSafe == Spec => []NoFalseAlarm
<1>1. TypeOK /\ OneReportPerLoss => NoFalseAlarm
  BY DEF TypeOK, OneReportPerLoss, NoFalseAlarm
<1> QED BY <1>1, TypeCorrect, OneReportPerLossSafe, PTL

\* A loss of less than a decade is noticed once reader and writer are in step.
THEOREM LossNoticedSafe == Spec => []LossNoticed
<1>1. Ind => LossNoticed
  <2> SUFFICES ASSUME Ind, lost \in 1..9, dev = <<>>, buf = <<>>, last = off % 10, errors = 0
               PROVE  FALSE
    BY DEF Ind, TypeOK, LossNoticed, Base, ERRORS
  <2>1. UnderWay = 0
    BY DEF UnderWay
  <2>2. PICK d \in [Nat -> Nat] : Missing(0, Under, d, last, off, 0, lost)
    BY <2>1 DEF Ind, LossInv, Accounted
  <2>3. PICK x \in Nat : x = d[0 + 1]
    OBVIOUS
  <2>4. off % 10 = (last + 0 + x) % 10
    BY <2>2, <2>3 DEF Missing
  <2>5. last \in 0..9
    BY DEF Ind, TypeOK, Base
  <2>6. lost < 10 /\ x = lost
    <3>1. 0 = 0 /\ lost < 10 => d[0 + 1] = lost
      BY <2>2 DEF Missing
    <3> QED BY <2>3, <3>1
  <2>7. last = (last + x) % 10
    BY <2>4, <2>5
  <2>8. x = 0
    BY <2>5, <2>6, <2>7, FirstByte
  <2> QED BY <2>6, <2>8
<1> QED BY <1>1, Inductive, PTL

=============================================================================
