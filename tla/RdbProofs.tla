----------------------------- MODULE RdbProofs ------------------------------
(***************************************************************************)
(* What rdb.c does with every text, alphabet and buffer size, and the      *)
(* lemmas about single calls of wdb.c and single characters of rdb.c from  *)
(* which DbReadProofs and DbProofs follow a text that is written and read. *)
(*                                                                         *)
(* ValueHasKey: StepKinds reads off rdb.c what one rdb_next can do to st,  *)
(* got_key and expect_colon, nine kinds of step.  Owed ties these three to *)
(* the marks: while the context promises that a value may come, the marks  *)
(* show the key, and the ':' once it is not expected any more, on the line *)
(* that is open.                                                           *)
(*                                                                         *)
(* BuffersHold: IsBuf is kept by the function of every state.              *)
(*                                                                         *)
(* NumberValue: Denotes ties the number that is being read to its text,    *)
(* character by character, and NumInv ties that text to the end of the     *)
(* whole.                                                                  *)
(***************************************************************************)
EXTENDS RdbText, Db, SequenceTheorems, WellFoundedInduction, TLAPS

(* A sequence, of whatever characters                                      *)
IsSeq(s) == \E S : s \in Seq(S)

(* A sequence with more characters behind it                               *)
LEMMA SeqGrows ==
  ASSUME NEW s, IsSeq(s), NEW n \in Nat, NEW T, NEW f \in [1..n -> T]
  PROVE  /\ IsSeq(s \o f) /\ Len(s \o f) = Len(s) + n /\ Len(s) \in Nat
         /\ n > 0 => (s \o f)[Len(s) + n] = f[n]
<1>1. PICK S : s \in Seq(S)
  BY DEF IsSeq
<1>2. s \in Seq(S \cup T)
  BY <1>1
<1>3. f \in Seq(S \cup T) /\ Len(f) = n
  OBVIOUS
<1>4. s \o f \in Seq(S \cup T) /\ Len(s \o f) = Len(s) + n /\ Len(s) \in Nat
  BY <1>2, <1>3
<1>5. n > 0 => (s \o f)[Len(s) + n] = f[n]
  BY <1>2, <1>3, <1>4
<1> QED
  BY <1>4, <1>5 DEF IsSeq

(* The same for Append                                                     *)
LEMMA SeqGrowsByOne ==
  ASSUME NEW s, IsSeq(s), NEW x
  PROVE  IsSeq(Append(s, x)) /\ Len(Append(s, x)) = Len(s) + 1 /\ Len(s) \in Nat
<1>1. PICK S : s \in Seq(S)
  BY DEF IsSeq
<1>2. s \in Seq(S \cup {x})
  BY <1>1
<1>3. Append(s, x) \in Seq(S \cup {x}) /\ Len(Append(s, x)) = Len(s) + 1 /\ Len(s) \in Nat
  BY <1>2, AppendProperties
<1> QED
  BY <1>3 DEF IsSeq

-----------------------------------------------------------------------------
(***************************************************************************)
(* Sequences                                                               *)
(***************************************************************************)
(* A set of natural numbers has a least one.                               *)
LEMMA NatMin ==
  ASSUME NEW T, T \subseteq Nat, T # {}
  PROVE  \E x \in T : \A y \in T : x <= y
<1> USE ZenonT(40)
<1> DEFINE R == OpToRel(<, Nat)
<1>1. IsWellFoundedOn(R, Nat)
  BY NatLessThanWellFounded
<1>2. \A x, y \in Nat : x < y => <<x, y>> \in R
  BY DEF OpToRel
<1> HIDE DEF R
<1>3. PICK x \in T : \A y \in T : ~(<<y, x>> \in R)
  BY <1>1, WFMin
<1>4. \A y \in T : ~(y < x)
  BY <1>2, <1>3
<1>5. \A y \in T : x <= y
  BY <1>4, SMT
<1> QED
  BY <1>5, SMT

(* Induction: a set that has 0, and n + 1 with n, up to N has all of them. *)
LEMMA UpTo ==
  ASSUME NEW N \in Nat, NEW T, 0 \in T, \A n \in 0..(N - 1) : n \in T => n + 1 \in T
  PROVE  \A n \in 0..N : n \in T
<1> SUFFICES ASSUME NEW m \in 0..N, m \notin T PROVE FALSE
  OBVIOUS
<1> DEFINE C == {n \in 0..N : n \notin T}
<1>1. C \subseteq Nat /\ C # {}
  OBVIOUS
<1>2. PICK x \in C : \A y \in C : x <= y
  <2> HIDE DEF C
  <2> QED BY <1>1, NatMin, Zenon
<1>3. x \in 1..N /\ x - 1 \in 0..(N - 1) /\ (x - 1) + 1 = x /\ ~(x <= x - 1)
  OBVIOUS
<1>4. x - 1 \in T
  BY <1>2, <1>3
<1> QED
  BY <1>3, <1>4

(* One sequence behind another                                             *)
LEMMA Concat ==
  ASSUME NEW s, NEW t, IsSeq(s), IsSeq(t)
  PROVE  /\ IsSeq(s \o t) /\ Len(s) \in Nat /\ Len(t) \in Nat /\ Len(s \o t) = Len(s) + Len(t)
         /\ \A k \in 1..Len(s) : (s \o t)[k] = s[k]
         /\ \A k \in 1..Len(t) : (s \o t)[Len(s) + k] = t[k]
<1>1. PICK S : s \in Seq(S)
  BY DEF IsSeq
<1>2. PICK T : t \in Seq(T)
  BY DEF IsSeq
<1>3. s \in Seq(S \cup T) /\ t \in Seq(S \cup T)
  BY <1>1, <1>2
<1>4. s \o t \in Seq(S \cup T) /\ Len(s \o t) = Len(s) + Len(t) /\ Len(s) \in Nat /\ Len(t) \in Nat
  BY <1>3
<1>5. \A k \in 1..Len(s) : (s \o t)[k] = s[k]
  BY <1>3
<1>6. \A k \in 1..Len(t) : (s \o t)[Len(s) + k] = t[k]
  BY <1>3
<1> QED
  BY <1>4, <1>5, <1>6 DEF IsSeq

IsCat(y, s, t) ==
  /\ Len(s) \in Nat /\ Len(t) \in Nat /\ Len(y) = Len(s) + Len(t)
  /\ (\A k \in 1..Len(s) : y[k] = s[k]) /\ \A k \in 1..Len(t) : y[Len(s) + k] = t[k]

(* The same as a predicate                                                 *)
LEMMA ConcatIs ==
  ASSUME NEW s, NEW t, IsSeq(s), IsSeq(t)
  PROVE  IsCat(s \o t, s, t)
BY Concat DEF IsCat

Grouped(s, t, u) == (s \o t) \o u = s \o (t \o u)

(* Concatenation is associative.                                           *)
LEMMA Regroup ==
  ASSUME NEW s, NEW t, NEW u, IsSeq(s), IsSeq(t), IsSeq(u)
  PROVE  Grouped(s, t, u)
<1>1. PICK S : s \in Seq(S)
  BY DEF IsSeq
<1>2. PICK T : t \in Seq(T)
  BY DEF IsSeq
<1>3. PICK U : u \in Seq(U)
  BY DEF IsSeq
<1> DEFINE V == S \cup T \cup U
<1>4. s \in Seq(V) /\ t \in Seq(V) /\ u \in Seq(V)
  BY <1>1, <1>2, <1>3
<1> HIDE DEF V
<1> QED
  BY <1>4, ConcatAssociative, SMT DEF Grouped

(* The texts of the values are sequences, also the ones that do not fit.   *)
LEMMA BetweenSeq ==
  ASSUME NEW a, NEW b, NEW z, IsSeq(a), IsSeq(b), IsSeq(z)
  PROVE  IsSeq((a \o b) \o z)
<1> USE ZenonT(40)
<1>1. \A x, y : IsSeq(x) /\ IsSeq(y) => IsSeq(x \o y)
  BY Concat
<1>2. IsSeq(a \o b)
  BY <1>1
<1> QED
  BY <1>1, <1>2

(* Two characters are a sequence.                                          *)
LEMMA PairSeq ==
  ASSUME NEW x, NEW y
  PROVE  IsSeq(<<x, y>>)
<1>1. <<x, y>> \in Seq({x, y})
  OBVIOUS
<1> QED
  BY <1>1, Zenon DEF IsSeq

(* The text t stands in s behind its first p characters.                   *)
Segment(s, p, t) == p + Len(t) <= Len(s) /\ \A k \in 1..Len(t) : s[p + k] = t[k]

(* Its parts stand there one behind the other.                             *)
LEMMA Parts ==
  ASSUME NEW s, Len(s) \in Nat, NEW p \in Nat, NEW t, NEW u, IsSeq(t), IsSeq(u), Segment(s, p, t \o u)
  PROVE  Segment(s, p, t) /\ Segment(s, p + Len(t), u) /\ Len(t) \in Nat /\ Len(u) \in Nat
<1>1. /\ Len(t) \in Nat /\ Len(u) \in Nat /\ Len(t \o u) = Len(t) + Len(u)
      /\ \A k \in 1..Len(t) : (t \o u)[k] = t[k]
      /\ \A k \in 1..Len(u) : (t \o u)[Len(t) + k] = u[k]
  BY Concat
<1> DEFINE tu == t \o u
<1>2. Len(tu) = Len(t) + Len(u) /\ p + Len(tu) <= Len(s) /\ \A k \in 1..Len(tu) : s[p + k] = tu[k]
  BY <1>1, Zenon DEF Segment
<1>3. /\ \A k \in 1..Len(t) : tu[k] = t[k]
      /\ \A k \in 1..Len(u) : tu[Len(t) + k] = u[k]
  BY <1>1, Zenon
<1> HIDE DEF tu
<1>4. p + Len(t) <= Len(s) /\ p + Len(t) + Len(u) <= Len(s)
  BY <1>1, <1>2
<1>5. ASSUME NEW k \in 1..Len(t) PROVE s[p + k] = t[k]
  <2>1. k \in 1..Len(tu)
    BY <1>1, <1>2
  <2> QED
    BY <1>2, <1>3, <2>1, Zenon
<1>6. ASSUME NEW k \in 1..Len(u) PROVE s[p + Len(t) + k] = u[k]
  <2>1. Len(t) + k \in 1..Len(tu) /\ p + Len(t) + k = p + (Len(t) + k)
    BY <1>1, <1>2
  <2> QED
    BY <1>2, <1>3, <2>1, Zenon
<1> QED
  BY <1>1, <1>4, <1>5, <1>6, Zenon DEF Segment

(* A character is one of them.                                             *)
LEMMA OneChar ==
  ASSUME NEW x
  PROVE  /\ IsSeq(<<x>>) /\ Len(<<x>>) = 1
         /\ \A s, p : Segment(s, p, <<x>>) <=> p + 1 <= Len(s) /\ s[p + 1] = x
<1>1. <<x>> \in Seq({x}) /\ Len(<<x>>) = 1 /\ <<x>>[1] = x
  OBVIOUS
<1> DEFINE e == <<x>>
<1>2. 1..Len(e) = {1} /\ e[1] = x /\ Len(e) = 1
  BY <1>1
<1> HIDE DEF e
<1>3. ASSUME NEW s, NEW p PROVE Segment(s, p, e) <=> p + 1 <= Len(s) /\ s[p + 1] = x
  BY <1>2, Zenon DEF Segment
<1> QED
  BY <1>1, <1>3, Zenon DEF IsSeq, e

(* Two characters where they stand in a text                               *)
LEMMA TwoChars ==
  ASSUME NEW x, NEW y, NEW s, Len(s) \in Nat, NEW p \in Nat
  PROVE  /\ IsSeq(<<x, y>>) /\ Len(<<x, y>>) = 2
         /\ Segment(s, p, <<x, y>>) => p + 2 <= Len(s) /\ s[p + 1] = x /\ s[p + 2] = y
<1>1. <<x, y>> \in Seq({x, y}) /\ Len(<<x, y>>) = 2 /\ <<x, y>>[1] = x /\ <<x, y>>[2] = y
  OBVIOUS
<1> DEFINE e == <<x, y>>
<1>2. 1..Len(e) = {1, 2} /\ e[1] = x /\ e[2] = y /\ Len(e) = 2
  BY <1>1
<1> HIDE DEF e
<1>3. Segment(s, p, e) => p + 2 <= Len(s) /\ s[p + 1] = x /\ s[p + 2] = y
  BY <1>2, Zenon DEF Segment
<1> QED
  BY <1>1, <1>3, Zenon DEF IsSeq, e

(* A text between two others                                              *)
InRow(s, p, a, b, z) ==
  /\ Segment(s, p, a) /\ Segment(s, p + Len(a), b) /\ Segment(s, (p + Len(a)) + Len(b), z)
  /\ Len(a) \in Nat /\ Len(b) \in Nat /\ Len(z) \in Nat
  /\ p + Len((a \o b) \o z) = ((p + Len(a)) + Len(b)) + Len(z)

(* The three texts of a row stand one behind the other.                    *)
LEMMA RowRead ==
  ASSUME NEW s, Len(s) \in Nat, NEW p \in Nat, NEW a, NEW b, NEW z, IsSeq(a), IsSeq(b), IsSeq(z),
         Segment(s, p, (a \o b) \o z)
  PROVE  InRow(s, p, a, b, z)
<1> USE ZenonT(40)
<1> DEFINE ab == a \o b
<1>1. IsSeq(ab) /\ Len(a) \in Nat /\ Len(b) \in Nat /\ Len(ab) = Len(a) + Len(b)
  BY Concat, SMT
<1> HIDE DEF ab
<1>2. Len(z) \in Nat /\ Len(ab \o z) = Len(ab) + Len(z)
  BY <1>1, Concat
<1>3. Segment(s, p, ab) /\ Segment(s, p + Len(ab), z)
  BY <1>1, Parts DEF ab
<1>4. Segment(s, p, a) /\ Segment(s, p + Len(a), b)
  BY <1>3, Parts DEF ab
<1>5. p + Len(ab) = (p + Len(a)) + Len(b) /\ p + Len(ab \o z) = ((p + Len(a)) + Len(b)) + Len(z)
  BY <1>1, <1>2, SMT
<1> QED
  BY <1>1, <1>2, <1>3, <1>4, <1>5 DEF ab, InRow

(* The first k characters of a string                                      *)
Upto(v, k) == [j \in 1..k |-> v[j]]

(* Character by character, the first k become the whole string.            *)
LEMMA UptoGrows ==
  ASSUME NEW v, IsSeq(v)
  PROVE  /\ Upto(v, 0) = <<>> /\ Upto(v, Len(v)) = v /\ Len(v) \in Nat
         /\ \A k \in 0..Len(v) : IsSeq(Upto(v, k)) /\ Len(Upto(v, k)) = k
         /\ \A k \in 1..Len(v) : Upto(v, k) = Append(Upto(v, k - 1), v[k])
<1>1. PICK S : v \in Seq(S)
  BY DEF IsSeq
<1>2. Len(v) \in Nat /\ Upto(v, 0) = <<>> /\ Upto(v, Len(v)) = v
  BY <1>1 DEF Upto
<1>3. \A k \in 0..Len(v) : Upto(v, k) \in Seq(S) /\ Len(Upto(v, k)) = k
  BY <1>1 DEF Upto
<1>4. ASSUME NEW k \in 1..Len(v) PROVE Upto(v, k) = Append(Upto(v, k - 1), v[k])
  <2>1. k - 1 \in 0..Len(v) /\ k \in 0..Len(v) /\ v[k] \in S
    BY <1>1, <1>2
  <2>2. Upto(v, k - 1) \in Seq(S) /\ Len(Upto(v, k - 1)) = k - 1 /\ Upto(v, k) \in Seq(S) /\ Len(Upto(v, k)) = k
    BY <1>3, <2>1
  <2>3. /\ Append(Upto(v, k - 1), v[k]) \in Seq(S) /\ Len(Append(Upto(v, k - 1), v[k])) = k
        /\ \A j \in 1..k : Append(Upto(v, k - 1), v[k])[j] = IF j = k THEN v[k] ELSE Upto(v, k - 1)[j]
    BY <1>2, <2>1, <2>2
  <2>4. \A j \in 1..k : Upto(v, k)[j] = v[j]
    BY DEF Upto
  <2>5. \A j \in 1..(k - 1) : Upto(v, k - 1)[j] = v[j]
    BY DEF Upto
  <2> QED
    BY <1>2, <2>2, <2>3, <2>4, <2>5, SeqEqual
<1> QED
  BY <1>2, <1>3, <1>4 DEF IsSeq

(* A text goes on with another behind it.                                  *)
Extends(z, s) == Len(s) \in Nat /\ Len(z) \in Nat /\ Len(s) <= Len(z) /\ \A k \in 1..Len(s) : z[k] = s[k]

(* One more token                                                          *)
LEMMA AppendIs ==
  ASSUME NEW u, IsSeq(u), NEW x
  PROVE  /\ IsSeq(Append(u, x)) /\ Len(u) \in Nat /\ Len(Append(u, x)) = Len(u) + 1
         /\ Append(u, x)[Len(u) + 1] = x /\ \A i \in 1..Len(u) : Append(u, x)[i] = u[i]
         /\ Append(u, x) = u \o <<x>>
<1>1. PICK S : u \in Seq(S)
  BY DEF IsSeq
<1>2. u \in Seq(S \cup {x}) /\ x \in S \cup {x}
  BY <1>1
<1>3. Append(u, x) \in Seq(S \cup {x})
  BY <1>2
<1>4. IsSeq(Append(u, x))
  BY <1>3, Zenon DEF IsSeq
<1>5. Len(u) \in Nat /\ Len(Append(u, x)) = Len(u) + 1 /\ Append(u, x)[Len(u) + 1] = x
  BY <1>2
<1>6. \A i \in 1..Len(u) : Append(u, x)[i] = u[i]
  BY <1>2
<1>7. Append(u, x) = u \o <<x>>
  BY <1>2
<1> QED
  BY <1>4, <1>5, <1>6, <1>7

(* The tokens of t are the first ones of u.                                *)
Prefix(t, u) == IsSeq(t) /\ IsSeq(u) /\ Len(t) <= Len(u) /\ \A k \in 1..Len(t) : t[k] = u[k]

(* A prefix stays one when more follows.                                   *)
LEMMA PrefixGrows ==
  ASSUME NEW t, NEW u, NEW x, Prefix(t, u), IsSeq(x)
  PROVE  Prefix(t, u \o x)
<1>1. /\ IsSeq(u \o x) /\ Len(u) \in Nat /\ Len(x) \in Nat /\ Len(u \o x) = Len(u) + Len(x)
      /\ \A k \in 1..Len(u) : (u \o x)[k] = u[k]
  BY Concat DEF Prefix
<1>2. Len(t) \in Nat
  BY DEF Prefix, IsSeq
<1> DEFINE z == u \o x
<1>3. /\ IsSeq(z) /\ Len(u) \in Nat /\ Len(x) \in Nat /\ Len(z) = Len(u) + Len(x)
      /\ \A k \in 1..Len(u) : z[k] = u[k]
  BY <1>1
<1> HIDE DEF z
<1>4. Prefix(t, z)
  BY <1>2, <1>3 DEF Prefix
<1> QED
  BY <1>4 DEF z

(* Also when one token follows.                                            *)
LEMMA PrefixAppend ==
  ASSUME NEW t, NEW u, NEW x, Prefix(t, u)
  PROVE  Prefix(t, Append(u, x))
<1> USE ZenonT(40)
<1>1. IsSeq(u)
  BY DEF Prefix
<1>2. IsSeq(<<x>>)
  BY OneChar
<1>3. Prefix(t, u \o <<x>>)
  BY <1>2, PrefixGrows
<1> QED
  BY <1>1, <1>3, AppendIs

(* A sequence is a prefix of itself.                                       *)
LEMMA PrefixSelf ==
  ASSUME NEW u, IsSeq(u)
  PROVE  Prefix(u, u)
<1>1. Len(u) \in Nat
  BY AppendIs, Zenon
<1>2. Len(u) <= Len(u)
  BY <1>1
<1> QED
  BY <1>2, Zenon DEF Prefix

(* A prefix of a prefix                                                    *)
LEMMA PrefixOf ==
  ASSUME NEW t, NEW u, NEW x, Prefix(t, u), Prefix(u, x)
  PROVE  Prefix(t, x)
BY DEF Prefix, IsSeq

(* A prefix is a SubSeq, as ReadsBack has it.                              *)
LEMMA PrefixIs ==
  ASSUME NEW t, NEW u, Prefix(t, u)
  PROVE  Len(t) <= Len(u) /\ t = SubSeq(u, 1, Len(t))
<1>1. PICK S : t \in Seq(S)
  BY Zenon DEF Prefix, IsSeq
<1>2. PICK U : u \in Seq(U)
  BY Zenon DEF Prefix, IsSeq
<1>3. Len(t) \in Nat /\ Len(u) \in Nat /\ Len(t) <= Len(u) /\ \A k \in 1..Len(t) : t[k] = u[k]
  BY <1>1, <1>2 DEF Prefix
<1> DEFINE x == SubSeq(u, 1, Len(t))
<1>4. x \in Seq(U) /\ Len(x) = Len(t) /\ \A k \in 1..Len(x) : x[k] = u[k]
  BY <1>2, <1>3
<1> HIDE DEF x
<1>5. t = x
  BY <1>1, <1>3, <1>4
<1> QED
  BY <1>3, <1>5 DEF x

(* The texts of a list one after the other: the recursion of Joined has a  *)
(* solution, f[k] being the first k texts.                                 *)
IsJoin(f, texts, N) ==
  /\ f[0] = <<>> /\ Joined(texts) = f[N]
  /\ \A k \in 1..N : f[k] = f[k - 1] \o texts[k]
  /\ \A k \in 0..N : IsSeq(f[k])

(* The recursion of Joined, unfolded                                       *)
LEMMA JoinedIs ==
  ASSUME NEW texts, NEW N \in Nat, Len(texts) = N, \A k \in 1..N : IsSeq(texts[k])
  PROVE  \E f : IsJoin(f, texts, N)
<1> USE ZenonT(40)
<1> DEFINE Q(g, n) == g = [k \in 0..n |-> IF k = 0 THEN <<>> ELSE g[k - 1] \o texts[k]]
           T == {n \in 0..N : \E g : Q(g, n)}
<1>1. 0 \in T
  <2> DEFINE g == [k \in 0..0 |-> <<>>]
  <2>1. Q(g, 0)
    BY SMT
  <2>2. 0 \in 0..N
    BY SMT
  <2> HIDE DEF Q, g
  <2> QED
    BY <2>1, <2>2
<1>2. ASSUME NEW n \in 0..(N - 1), n \in T PROVE n + 1 \in T
  <2>1. PICK g : Q(g, n)
    <3> HIDE DEF Q
    <3> QED BY <1>2
  <2> DEFINE h == [k \in 0..(n + 1) |-> IF k = n + 1 THEN g[n] \o texts[n + 1] ELSE g[k]]
  <2>2. \A k \in 0..n : g[k] = (IF k = 0 THEN <<>> ELSE g[k - 1] \o texts[k]) /\ h[k] = g[k]
    <3>1. \A k \in 0..n : k \in 0..(n + 1) /\ k # n + 1
      BY <1>2, SMT
    <3>2. \A k \in 0..n : g[k] = (IF k = 0 THEN <<>> ELSE g[k - 1] \o texts[k])
      BY <2>1
    <3>3. \A k \in 0..n : h[k] = g[k]
      BY <3>1
    <3> QED
      BY <3>2, <3>3
  <2>3. n + 1 \in 0..(n + 1) /\ h[n + 1] = g[n] \o texts[n + 1]
    BY <1>2, SMT
  <2>4. ASSUME NEW k \in 0..(n + 1) PROVE h[k] = IF k = 0 THEN <<>> ELSE h[k - 1] \o texts[k]
    <3>1. CASE k = n + 1
      <4>1. k # 0 /\ k - 1 = n /\ n \in 0..n
        BY <1>2, <3>1, SMT
      <4>2. h[n] = g[n]
        BY <2>2, <4>1
      <4> HIDE DEF h
      <4>3. h[k] = h[k - 1] \o texts[k]
        BY <2>3, <3>1, <4>1, <4>2
      <4> QED
        BY <4>1, <4>3
    <3>2. CASE k = 0
      <4>1. 0 \in 0..n
        BY <1>2, SMT
      <4> HIDE DEF h
      <4> QED
        BY <2>2, <3>2, <4>1
    <3>3. CASE k # 0 /\ k # n + 1
      <4>1. k \in 0..n /\ k - 1 \in 0..n
        BY <1>2, <3>3, SMT
      <4> HIDE DEF h
      <4> QED
        BY <2>2, <3>3, <4>1
    <3> QED
      BY <3>1, <3>2, <3>3
  <2>5. h = [k \in 0..(n + 1) |-> IF k = 0 THEN <<>> ELSE h[k - 1] \o texts[k]]
    <3>1. h = [k \in 0..(n + 1) |-> h[k]]
      BY SMT
    <3> HIDE DEF h
    <3> QED
      BY <2>4, <3>1
  <2>6. Q(h, n + 1)
    BY <2>5
  <2>7. n + 1 \in 0..N
    BY <1>2, SMT
  <2> HIDE DEF Q, h
  <2> QED
    BY <2>6, <2>7
<1>3. N \in T
  <2>1. N \in 0..N
    BY SMT
  <2> HIDE DEF T
  <2> QED
    BY <1>1, <1>2, <2>1, UpTo
<1>4. PICK g : Q(g, N)
  <2> HIDE DEF Q
  <2> QED BY <1>3
<1> DEFINE f == CHOOSE h : Q(h, N)
<1>5. Q(f, N)
  <2> HIDE DEF Q
  <2> QED
    BY <1>4
<1>6. Joined(texts) = f[N]
  BY DEF Joined
<1> HIDE DEF f
<1>7. \A k \in 0..N : f[k] = IF k = 0 THEN <<>> ELSE f[k - 1] \o texts[k]
  BY <1>5
<1>8. f[0] = <<>> /\ \A k \in 1..N : f[k] = f[k - 1] \o texts[k]
  <2>1. 0 \in 0..N /\ \A k \in 1..N : k \in 0..N /\ k # 0
    BY SMT
  <2> QED
    BY <1>7, <2>1
<1>9. \A k \in 0..N : IsSeq(f[k])
  <2> DEFINE W == {k \in 0..N : IsSeq(f[k])}
  <2>1. 0 \in W
    <3>1. IsSeq(<<>>)
      BY EmptySeq, SMT DEF IsSeq
    <3>2. 0 \in 0..N
      BY SMT
    <3> QED
      BY <1>8, <3>1, <3>2
  <2>2. ASSUME NEW k \in 0..(N - 1), k \in W PROVE k + 1 \in W
    <3>1. k + 1 \in 1..N /\ k + 1 \in 0..N /\ (k + 1) - 1 = k
      BY <2>2, SMT
    <3>2. f[k + 1] = f[k] \o texts[k + 1]
      BY <1>8, <3>1
    <3>3. IsSeq(f[k]) /\ IsSeq(texts[k + 1])
      BY <2>2, <3>1
    <3>4. IsSeq(f[k + 1])
      BY <3>2, <3>3, Concat, SMT
    <3> QED
      BY <3>1, <3>4
  <2>3. \A k \in 0..N : k \in W
    <3> HIDE DEF W
    <3> QED
      BY <2>1, <2>2, UpTo
  <2> QED
    BY <2>3
<1> QED
  BY <1>6, <1>8, <1>9 DEF IsJoin

(* Where each text of the list stands in the whole                         *)
LEMMA JoinedAt ==
  ASSUME NEW texts, NEW N \in Nat, Len(texts) = N, \A k \in 1..N : IsSeq(texts[k]),
         NEW s, Len(s) \in Nat, NEW p \in Nat, Segment(s, p, Joined(texts))
  PROVE  \E at : /\ at[0] = 0 /\ at[N] = Len(Joined(texts))
                 /\ \A k \in 0..N : at[k] \in Nat
                 /\ \A k \in 1..N : at[k] = at[k - 1] + Len(texts[k]) /\ Segment(s, p + at[k - 1], texts[k])
<1> USE ZenonT(40)
<1>0. PICK f : IsJoin(f, texts, N)
  BY JoinedIs
<1>1. /\ f[0] = <<>> /\ Joined(texts) = f[N]
      /\ \A k \in 1..N : f[k] = f[k - 1] \o texts[k]
      /\ \A k \in 0..N : IsSeq(f[k])
  BY <1>0 DEF IsJoin
<1>2. ASSUME NEW k \in 1..N PROVE k - 1 \in 0..N /\ k \in 0..N /\ IsSeq(f[k - 1]) /\ IsSeq(texts[k]) /\ f[k] = f[k - 1] \o texts[k]
  <2>1. k - 1 \in 0..N /\ k \in 0..N
    BY <1>2, SMT
  <2> QED
    BY <1>1, <2>1
<1> DEFINE W == {j \in 0..N : Segment(s, p, f[N - j])}
<1>3. 0 \in W
  <2>1. 0 \in 0..N /\ N - 0 = N
    BY SMT
  <2> QED
    BY <1>1, <2>1
<1>4. ASSUME NEW j \in 0..(N - 1), j \in W PROVE j + 1 \in W
  <2>1. N - j \in 1..N /\ N - (j + 1) = (N - j) - 1 /\ j + 1 \in 0..N
    BY <1>4, SMT
  <2>2. f[N - j] = f[(N - j) - 1] \o texts[N - j] /\ IsSeq(f[(N - j) - 1]) /\ IsSeq(texts[N - j]) /\ Segment(s, p, f[N - j])
    BY <1>2, <1>4, <2>1
  <2>3. Segment(s, p, f[(N - j) - 1])
    BY <2>2, Parts
  <2> QED
    BY <2>1, <2>3
<1>5. \A j \in 0..N : j \in W
  <2> HIDE DEF W
  <2> QED
    BY <1>3, <1>4, UpTo
<1>6. ASSUME NEW k \in 0..N PROVE Segment(s, p, f[k])
  <2>1. N - k \in 0..N /\ N - (N - k) = k
    BY <1>6, SMT
  <2> QED
    BY <1>5, <2>1
<1> DEFINE at == [k \in 0..N |-> Len(f[k])]
<1>7. \A k \in 0..N : at[k] = Len(f[k]) /\ at[k] \in Nat
  <2>1. \A k \in 0..N : at[k] = Len(f[k])
    OBVIOUS
  <2>2. ASSUME NEW u, IsSeq(u) PROVE Len(u) \in Nat
    BY <2>2, SMT DEF IsSeq
  <2> QED
    BY <1>1, <2>1, <2>2
<1> HIDE DEF at
<1>8. ASSUME NEW k \in 1..N PROVE at[k] = at[k - 1] + Len(texts[k]) /\ Segment(s, p + at[k - 1], texts[k])
  <2>1. k - 1 \in 0..N /\ k \in 0..N /\ IsSeq(f[k - 1]) /\ IsSeq(texts[k]) /\ f[k] = f[k - 1] \o texts[k]
    BY <1>2
  <2>2. at[k] = Len(f[k]) /\ at[k - 1] = Len(f[k - 1]) /\ Segment(s, p, f[k - 1] \o texts[k])
    BY <1>6, <1>7, <2>1
  <2>3. Segment(s, p + Len(f[k - 1]), texts[k])
    BY <2>1, <2>2, Parts
  <2>4. Len(f[k]) = Len(f[k - 1]) + Len(texts[k])
    BY <2>1, Concat, SMT
  <2> QED
    BY <2>2, <2>3, <2>4
<1>9. at[0] = 0 /\ at[N] = Len(Joined(texts))
  <2>1. 0 \in 0..N /\ N \in 0..N /\ Len(<<>>) = 0
    BY SMT
  <2> QED
    BY <1>1, <1>7, <2>1
<1> QED
  BY <1>7, <1>8, <1>9

-----------------------------------------------------------------------------
(***************************************************************************)
(* Numerals                                                                *)
(***************************************************************************)
(* The digits as a set                                                     *)
LEMMA DigitChars == Chars(digit) = {"0", "1", "2", "3", "4", "5", "6", "7", "8", "9"}
<1>1. DOMAIN digit = 1..10
  BY DEF digit
<1>2. \A k \in 1..10 : digit[k] \in {"0", "1", "2", "3", "4", "5", "6", "7", "8", "9"}
  BY DEF digit
<1>3. /\ digit[1] = "0" /\ digit[2] = "1" /\ digit[3] = "2" /\ digit[4] = "3" /\ digit[5] = "4"
      /\ digit[6] = "5" /\ digit[7] = "6" /\ digit[8] = "7" /\ digit[9] = "8" /\ digit[10] = "9"
  BY DEF digit
<1>. QED
  BY <1>1, <1>2, <1>3 DEF Chars

(* The last digit of a number and the digits before it                     *)
LEMMA Tens ==
  ASSUME NEW n \in Nat
  PROVE  /\ n \div 10 \in Nat /\ n % 10 \in 0..9 /\ n = 10 * (n \div 10) + (n % 10)
         /\ n >= 10 => n \div 10 < n /\ n \div 10 > 0
OBVIOUS

(* d is a numeral of n: pre[j] is the number its first j digits make.      *)
IsNumeral(d, n, pre) ==
  /\ pre[0] = 0 /\ pre[Len(d)] = n
  /\ \A j \in 0..Len(d) : pre[j] \in Nat
  /\ \A j \in 1..Len(d) : \E q \in 0..9 : d[j] = digit[q + 1] /\ pre[j] = 10 * pre[j - 1] + q

Numeral(d, n) == IsSeq(d) /\ Len(d) >= 1 /\ \E pre : IsNumeral(d, n, pre)

(* One digit                                                               *)
LEMMA NumeralOne ==
  ASSUME NEW q \in 0..9
  PROVE  Numeral(<<digit[q + 1]>>, q)
<1> DEFINE x == digit[q + 1]
           d == <<x>>
           pre == [j \in 0..1 |-> IF j = 0 THEN 0 ELSE q]
<1> HIDE DEF x
<1>1. d \in Seq({x}) /\ Len(d) = 1 /\ d[1] = x
  OBVIOUS
<1>2. pre[0] = 0 /\ pre[1] = q /\ q = 10 * 0 + q /\ 1 - 1 = 0 /\ q \in Nat /\ 0 \in Nat
  OBVIOUS
<1> HIDE DEF d, pre
<1>3. /\ \A j \in 1..Len(d) : j = 1
      /\ \A j \in 0..Len(d) : j = 0 \/ j = 1
      /\ Len(d) >= 1
  BY <1>1
<1>4. d[1] = digit[q + 1] /\ pre[1] = 10 * pre[1 - 1] + q
  <2>1. pre[1] = 10 * pre[1 - 1] + q
    BY <1>2
  <2> QED
    BY <1>1, <2>1, Zenon DEF x
<1>5. IsNumeral(d, q, pre)
  BY <1>1, <1>2, <1>3, <1>4, Zenon DEF IsNumeral
<1> QED
  BY <1>1, <1>3, <1>5, Zenon DEF Numeral, IsSeq, d, x

(* One digit more                                                          *)
LEMMA NumeralNext ==
  ASSUME NEW d, NEW n \in Nat, Numeral(d, n), NEW q \in 0..9
  PROVE  Numeral(Append(d, digit[q + 1]), 10 * n + q)
<1> USE ZenonT(40)
<1> DEFINE x == digit[q + 1]
           N == Len(d)
           e == Append(d, x)
<1>1. PICK S : d \in Seq(S)
  BY SMT DEF Numeral, IsSeq
<1>2. PICK pre : IsNumeral(d, n, pre)
  BY DEF Numeral
<1> HIDE DEF x
<1>3. N \in Nat /\ N >= 1 /\ e \in Seq(S \cup {x}) /\ Len(e) = N + 1 /\ e[N + 1] = x /\ \A j \in 1..N : e[j] = d[j]
  BY <1>1, SMT DEF Numeral
<1> HIDE DEF e, N
<1>4. /\ pre[0] = 0 /\ pre[N] = n /\ \A j \in 0..N : pre[j] \in Nat
      /\ \A j \in 1..N : \E k \in 0..9 : d[j] = digit[k + 1] /\ pre[j] = 10 * pre[j - 1] + k
  BY <1>2 DEF IsNumeral, N
<1> DEFINE new == [j \in 0..(N + 1) |-> IF j = N + 1 THEN 10 * n + q ELSE pre[j]]
<1>5. new[N + 1] = 10 * n + q /\ \A j \in 0..N : new[j] = pre[j]
  BY <1>3, SMT
<1> HIDE DEF new
<1>6. ASSUME NEW j \in 0..(N + 1) PROVE new[j] \in Nat
  <2>1. CASE j = N + 1
    BY <1>5, <2>1, SMT
  <2>2. CASE j # N + 1
    <3>1. j \in 0..N
      BY <1>3, <2>2, SMT
    <3> QED
      BY <1>4, <1>5, <3>1
  <2> QED
    BY <2>1, <2>2
<1>7. ASSUME NEW j \in 1..(N + 1) PROVE \E k \in 0..9 : e[j] = digit[k + 1] /\ new[j] = 10 * new[j - 1] + k
  <2>1. CASE j = N + 1
    <3>1. j - 1 = N /\ N \in 0..N
      BY <1>3, <2>1, SMT
    <3>2. new[j - 1] = n
      BY <1>4, <1>5, <3>1
    <3>3. e[j] = digit[q + 1] /\ new[j] = 10 * new[j - 1] + q
      BY <1>3, <1>5, <2>1, <3>2 DEF x
    <3> QED
      BY <3>3
  <2>2. CASE j # N + 1
    <3>1. j \in 1..N /\ j \in 0..N /\ j - 1 \in 0..N
      BY <1>3, <2>2, SMT
    <3>2. e[j] = d[j] /\ new[j] = pre[j] /\ new[j - 1] = pre[j - 1]
      BY <1>3, <1>5, <3>1
    <3> QED
      BY <1>4, <3>1, <3>2
  <2> QED
    BY <2>1, <2>2
<1>8. new[0] = 0 /\ Len(e) >= 1
  <2>1. 0 \in 0..N
    BY <1>3, SMT
  <2>2. new[0] = 0
    BY <1>4, <1>5, <2>1
  <2> QED
    BY <1>3, <2>2, SMT
<1>9. IsNumeral(e, 10 * n + q, new)
  BY <1>3, <1>5, <1>6, <1>7, <1>8 DEF IsNumeral
<1> QED
  BY <1>3, <1>8, <1>9 DEF Numeral, IsSeq, e, x

(* "%li" and the integer part of "%f": the recursion of decimal has a      *)
(* solution, and gives a numeral.                                          *)
LEMMA DecimalIs ==
  ASSUME NEW N \in Nat
  PROVE  Numeral(decimal(N), N)
<1> USE ZenonT(40)
<1> DEFINE At(g, k) == IF k < 10 THEN <<digit[k + 1]>> ELSE Append(g[k \div 10], digit[(k % 10) + 1])
           Q(g, n) == g = [k \in 0..n |-> IF k < 10 THEN <<digit[k + 1]>> ELSE Append(g[k \div 10], digit[(k % 10) + 1])]
           T == {n \in 0..N : \E g : Q(g, n)}
<1>0. ASSUME NEW g, NEW h, NEW n \in Nat, \A k \in 0..n : h[k] = g[k], NEW k \in 0..(n + 1)
      PROVE  At(h, k) = At(g, k)
  <2>1. CASE k < 10
    BY <2>1
  <2>2. CASE ~(k < 10)
    <3>1. k \div 10 \in 0..n
      <4>1. k \in Nat /\ k >= 10
        BY <2>2, SMT
      <4>2. k \div 10 \in Nat /\ k \div 10 < k
        BY <4>1, Tens
      <4> QED
        BY <4>2, SMT
    <3>2. h[k \div 10] = g[k \div 10]
      BY <1>0, <3>1
    <3> QED
      BY <2>2, <3>2
  <2> QED
    BY <2>1, <2>2
<1>1. 0 \in T
  <2> DEFINE g == [k \in 0..0 |-> <<digit[k + 1]>>]
  <2>1. \A k \in 0..0 : k < 10
    BY SMT
  <2>2. g = [k \in 0..0 |-> IF k < 10 THEN <<digit[k + 1]>> ELSE Append(g[k \div 10], digit[(k % 10) + 1])]
    <3>1. \A k \in 0..0 : (IF k < 10 THEN <<digit[k + 1]>> ELSE Append(g[k \div 10], digit[(k % 10) + 1])) = <<digit[k + 1]>>
      BY <2>1
    <3> QED
      BY <3>1
  <2>3. Q(g, 0)
    BY <2>2
  <2>4. 0 \in 0..N
    BY SMT
  <2> HIDE DEF Q, g
  <2> QED
    BY <2>3, <2>4
<1>2. ASSUME NEW n \in 0..(N - 1), n \in T PROVE n + 1 \in T
  <2>1. PICK g : Q(g, n)
    <3> HIDE DEF Q
    <3> QED BY <1>2
  <2> DEFINE h == [k \in 0..(n + 1) |-> IF k = n + 1 THEN At(g, n + 1) ELSE g[k]]
  <2>2. \A k \in 0..n : g[k] = At(g, k)
    BY <2>1
  <2> HIDE DEF At
  <2>3. \A k \in 0..n : h[k] = g[k]
    <3>1. \A k \in 0..n : k \in 0..(n + 1) /\ k # n + 1
      BY <1>2, SMT
    <3> QED
      BY <3>1
  <2>4. n + 1 \in 0..(n + 1) /\ h[n + 1] = At(g, n + 1) /\ n \in Nat
    BY <1>2, SMT
  <2>5. h = [k \in 0..(n + 1) |-> h[k]]
    OBVIOUS
  <2> HIDE DEF h
  <2>6. ASSUME NEW k \in 0..(n + 1) PROVE h[k] = At(h, k)
    <3>1. At(h, k) = At(g, k)
      BY <1>0, <2>3, <2>4
    <3>2. CASE k = n + 1
      BY <2>4, <3>1, <3>2
    <3>3. CASE k # n + 1
      <4>1. k \in 0..n
        BY <1>2, <3>3, SMT
      <4> QED
        BY <2>2, <2>3, <3>1, <4>1
    <3> QED
      BY <3>2, <3>3
  <2>7. Q(h, n + 1)
    BY <2>5, <2>6 DEF At
  <2>8. n + 1 \in 0..N
    BY <1>2, SMT
  <2> HIDE DEF Q
  <2> QED
    BY <2>7, <2>8
<1>3. N \in T
  <2>1. N \in 0..N
    BY SMT
  <2> HIDE DEF T
  <2> QED
    BY <1>1, <1>2, <2>1, UpTo
<1>4. PICK g : Q(g, N)
  <2> HIDE DEF Q
  <2> QED BY <1>3
<1> DEFINE f == CHOOSE h : Q(h, N)
<1>5. Q(f, N)
  <2> HIDE DEF Q
  <2> QED
    BY <1>4
<1>6. decimal(N) = f[N]
  BY DEF decimal
<1> HIDE DEF f
<1>7. \A k \in 0..N : f[k] = At(f, k)
  BY <1>5
<1> DEFINE W == {n \in 0..N : \A k \in 0..n : Numeral(f[k], k)}
<1>8. ASSUME NEW n \in 0..N, \A k \in 0..(n - 1) : Numeral(f[k], k) PROVE Numeral(f[n], n)
  <2>1. f[n] = At(f, n) /\ n \in Nat
    BY <1>7, SMT
  <2>2. CASE n < 10
    <3>1. n \in 0..9 /\ At(f, n) = <<digit[n + 1]>>
      BY <2>2, SMT
    <3> QED
      BY <2>1, <3>1, NumeralOne
  <2>3. CASE ~(n < 10)
    <3> DEFINE m == n \div 10
               q == n % 10
    <3>1. At(f, n) = Append(f[m], digit[q + 1])
      BY <2>3
    <3>2. m \in Nat /\ q \in 0..9 /\ n = 10 * m + q /\ m < n
      <4>1. n >= 10
        BY <2>1, <2>3, SMT
      <4> QED
        BY <2>1, <4>1, Tens
    <3> HIDE DEF m, q
    <3>3. m \in 0..(n - 1)
      BY <2>1, <3>2, SMT
    <3>4. Numeral(f[m], m)
      BY <1>8, <3>3
    <3>5. Numeral(Append(f[m], digit[q + 1]), 10 * m + q)
      BY <3>2, <3>4, NumeralNext
    <3> HIDE DEF At
    <3> QED
      BY <2>1, <3>1, <3>2, <3>5
  <2> QED
    BY <2>2, <2>3
<1> HIDE DEF At, Q, T
<1>9. 0 \in W
  <2>1. 0 \in 0..N /\ 0..(0 - 1) = {} /\ \A k \in 0..0 : k = 0
    BY SMT
  <2>2. Numeral(f[0], 0)
    BY <1>8, <2>1
  <2> QED
    BY <2>1, <2>2
<1>10. ASSUME NEW n \in 0..(N - 1), n \in W PROVE n + 1 \in W
  <2>1. n + 1 \in 0..N /\ (n + 1) - 1 = n /\ \A k \in 0..(n + 1) : k \in 0..n \/ k = n + 1
    BY <1>10, SMT
  <2>2. \A k \in 0..n : Numeral(f[k], k)
    BY <1>10
  <2>3. Numeral(f[n + 1], n + 1)
    BY <1>8, <2>1, <2>2
  <2> QED
    BY <2>1, <2>2, <2>3
<1>11. N \in W
  <2>1. N \in 0..N
    BY SMT
  <2> HIDE DEF W
  <2> QED
    BY <1>9, <1>10, <2>1, UpTo
<1>12. N \in 0..N
  BY SMT
<1> QED
  BY <1>6, <1>11, <1>12

(* The mantissa without its last digits                                    *)
LEMMA CutsIs ==
  ASSUME NEW n \in Nat, NEW N \in Nat
  PROVE  LET C == Cuts(n, N) IN
         C[0] = n /\ \A k \in 1..N : C[k] = C[k - 1] \div 10 /\ C[k - 1] \in Nat /\ C[k] \in Nat
<1> USE ZenonT(40)
<1> DEFINE Q(g, m) == g = [k \in 0..m |-> IF k = 0 THEN n ELSE g[k - 1] \div 10]
           T == {m \in 0..N : \E g : Q(g, m)}
<1>1. 0 \in T
  <2> DEFINE g == [k \in 0..0 |-> n]
  <2>1. Q(g, 0)
    BY SMT
  <2>2. 0 \in 0..N
    BY SMT
  <2> HIDE DEF Q, g
  <2> QED
    BY <2>1, <2>2
<1>2. ASSUME NEW m \in 0..(N - 1), m \in T PROVE m + 1 \in T
  <2>1. PICK g : Q(g, m)
    <3> HIDE DEF Q
    <3> QED BY <1>2
  <2> DEFINE h == [k \in 0..(m + 1) |-> IF k = m + 1 THEN g[m] \div 10 ELSE g[k]]
  <2>2. \A k \in 0..m : g[k] = IF k = 0 THEN n ELSE g[k - 1] \div 10
    BY <2>1
  <2>3. \A k \in 0..m : h[k] = g[k]
    <3>1. \A k \in 0..m : k \in 0..(m + 1) /\ k # m + 1
      BY <1>2, SMT
    <3> QED
      BY <3>1
  <2>4. m + 1 \in 0..(m + 1) /\ h[m + 1] = g[m] \div 10 /\ m \in 0..m
    BY <1>2, SMT
  <2>5. h = [k \in 0..(m + 1) |-> h[k]]
    OBVIOUS
  <2> HIDE DEF h
  <2>6. ASSUME NEW k \in 0..(m + 1) PROVE h[k] = IF k = 0 THEN n ELSE h[k - 1] \div 10
    <3>1. CASE k = m + 1
      <4>1. k # 0 /\ k - 1 = m
        BY <1>2, <3>1, SMT
      <4>2. h[k] = h[k - 1] \div 10
        BY <2>3, <2>4, <3>1, <4>1
      <4> QED
        BY <4>1, <4>2
    <3>2. CASE k # m + 1
      <4>1. k \in 0..m /\ (k # 0 => k - 1 \in 0..m)
        BY <1>2, <3>2, SMT
      <4> QED
        BY <2>2, <2>3, <4>1
    <3> QED
      BY <3>1, <3>2
  <2>7. Q(h, m + 1)
    BY <2>5, <2>6
  <2>8. m + 1 \in 0..N
    BY <1>2, SMT
  <2> HIDE DEF Q
  <2> QED
    BY <2>7, <2>8
<1>3. N \in T
  <2>1. N \in 0..N
    BY SMT
  <2> HIDE DEF T
  <2> QED
    BY <1>1, <1>2, <2>1, UpTo
<1>4. PICK g : Q(g, N)
  <2> HIDE DEF Q
  <2> QED BY <1>3
<1> DEFINE C == CHOOSE h : Q(h, N)
<1>5. Q(C, N)
  <2> HIDE DEF Q
  <2> QED
    BY <1>4
<1>6. Cuts(n, N) = C
  BY DEF Cuts
<1> HIDE DEF C
<1>7. \A k \in 0..N : C[k] = IF k = 0 THEN n ELSE C[k - 1] \div 10
  BY <1>5
<1>8. C[0] = n /\ \A k \in 1..N : C[k] = C[k - 1] \div 10
  <2>1. 0 \in 0..N /\ \A k \in 1..N : k \in 0..N /\ k # 0
    BY SMT
  <2> QED
    BY <1>7, <2>1
<1>9. \A k \in 0..N : C[k] \in Nat
  <2> DEFINE W == {k \in 0..N : C[k] \in Nat}
  <2>1. 0 \in W
    BY <1>8, SMT
  <2>2. ASSUME NEW k \in 0..(N - 1), k \in W PROVE k + 1 \in W
    <3>1. k + 1 \in 1..N /\ k + 1 \in 0..N /\ (k + 1) - 1 = k
      BY <2>2, SMT
    <3>2. C[k + 1] = C[k] \div 10 /\ C[k] \in Nat
      BY <1>8, <2>2, <3>1
    <3>3. C[k + 1] \in Nat
      BY <3>2, Tens
    <3> QED
      BY <3>1, <3>3
  <2>3. \A k \in 0..N : k \in W
    <3> HIDE DEF W
    <3> QED
      BY <2>1, <2>2, UpTo
  <2> QED
    BY <2>3
<1>10. \A k \in 1..N : k \in 0..N /\ k - 1 \in 0..N
  BY SMT
<1> QED
  BY <1>6, <1>8, <1>9, <1>10

(* The digits behind the '.'                                               *)
LEMMA FractionIs ==
  ASSUME NEW v, v.fracs \in Nat
  PROVE  /\ IsSeq(Fraction(v)) /\ Len(Fraction(v)) = v.fracs
         /\ \A k \in 1..v.fracs : Fraction(v)[k] = digit[(Cuts(v.mant, v.fracs)[v.fracs - k] % 10) + 1]
<1> USE ZenonT(40)
<1> DEFINE x(k) == digit[(Cuts(v.mant, v.fracs)[v.fracs - k] % 10) + 1]
           f == [k \in 1..v.fracs |-> x(k)]
<1>1. Fraction(v) = f
  BY DEF Fraction
<1> HIDE DEF x
<1>2. f \in Seq({x(k) : k \in 1..v.fracs}) /\ Len(f) = v.fracs /\ \A k \in 1..v.fracs : f[k] = x(k)
  BY SMT
<1>3. IsSeq(f)
  BY <1>2 DEF IsSeq
<1> HIDE DEF f
<1> QED
  BY <1>1, <1>2, <1>3 DEF x

-----------------------------------------------------------------------------
(***************************************************************************)
(* The calls of the writer                                                 *)
(***************************************************************************)
(* A context of the writer                                                 *)
IsWriter(c) == DOMAIN c = {"out", "got_key", "is_first_val"} /\ IsSeq(c.out) /\ Len(c.out) <= mlen

(* A text that fits                                                        *)
LEMMA AddedHeld ==
  ASSUME NEW c, IsWriter(c), NEW t, Fits(c, t)
  PROVE  LET d == Added(c, t) IN
         IsWriter(d) /\ Len(t) \in Nat /\ (Len(t) > 0 => Len(d.out) > 0 /\ d.out[Len(d.out)] = t[Len(t)])
<1>. DEFINE n == Len(t)
            f == [k \in 1..n |-> t[k]]
            d == Added(c, t)
            s == c.out \o f
<1>1. Len(c.out) \in Nat
  BY DEF IsWriter, IsSeq
<1>2. n \in Nat /\ Len(c.out) + n <= mlen
  BY <1>1, WdbAssumption DEF Fits, IsWriter
<1>3. DOMAIN d = {"out", "got_key", "is_first_val"} /\ d.out = s
  BY DEF Added, IsWriter
<1>4. f \in [1..n -> {t[k] : k \in 1..n}]
  BY Zenon
<1>5. n > 0 => f[n] = t[n]
  BY <1>2
<1>. HIDE DEF n, d, f
<1>6. IsSeq(s) /\ Len(s) = Len(c.out) + n /\ (n > 0 => s[Len(c.out) + n] = f[n])
  <2>1. IsSeq(c.out)
    BY DEF IsWriter
  <2>. QED
    BY <1>2, <1>4, <2>1, SeqGrows, Zenon
<1>. HIDE DEF s
<1>7. IsWriter(d)
  BY <1>1, <1>2, <1>3, <1>6 DEF IsWriter
<1>8. n > 0 => Len(d.out) > 0 /\ d.out[Len(d.out)] = t[n]
  BY <1>1, <1>2, <1>3, <1>5, <1>6
<1>. QED
  BY <1>2, <1>7, <1>8 DEF n, d

(* Flags that are set                                                      *)
LEMMA FlagsHeld ==
  ASSUME NEW c, IsWriter(c), NEW x, NEW y
  PROVE  /\ IsWriter([c EXCEPT !.is_first_val = x]) /\ [c EXCEPT !.is_first_val = x].out = c.out
         /\ IsWriter([c EXCEPT !.got_key = x, !.is_first_val = y])
BY DEF IsWriter

(* What all the calls that write a value have in common                    *)
LEMMA ValueHeld ==
  ASSUME NEW c, IsWriter(c), NEW valid, NEW t
  PROVE  IsWriter(Value(c, valid, t).c)
<1> USE ZenonT(40)
<1>. DEFINE rest == [c EXCEPT !.is_first_val = FALSE]
            s == maybe_arr_(c) \o t
<1>1. IsWriter(rest) /\ rest.out = c.out
  BY FlagsHeld
<1>2. Value(c, valid, t) \in {Fail(c), Fail(rest)} \/ (Fits(c, s) /\ Value(c, valid, t) = Ok(Added(rest, s)))
  BY DEF Value
<1>3. Fail(c).c = c /\ Fail(rest).c = rest /\ Ok(Added(rest, s)).c = Added(rest, s)
  BY DEF Fail, Ok
<1>. HIDE DEF rest, s
<1>4. Fits(c, s) => IsWriter(Added(rest, s))
  <2>1. Fits(c, s) => Fits(rest, s)
    BY <1>1, SMT DEF Fits
  <2>. QED
    BY <1>1, <2>1, AddedHeld, SMT
<1>. QED
  BY <1>1, <1>2, <1>3, <1>4

(* A key sets both flags behind its text.                                  *)
LEMMA KeyHeld ==
  ASSUME NEW c, IsWriter(c), NEW v
  PROVE  IsWriter(wdb_key(c, v).c)
<1> USE ZenonT(40)
<1>. DEFINE t == (IF c.got_key THEN <<"\n">> ELSE <<>>) \o v \o <<":", " ">>
            d == [Added(c, t) EXCEPT !.got_key = TRUE, !.is_first_val = TRUE]
<1>1. wdb_key(c, v) = Fail(c) \/ (Fits(c, t) /\ wdb_key(c, v) = Ok(d))
  BY DEF wdb_key
<1>2. Fits(c, t) => IsWriter(d)
  <2>. HIDE DEF t
  <2>. QED
    BY AddedHeld, FlagsHeld
<1>3. Fail(c).c = c /\ Ok(d).c = d
  BY DEF Fail, Ok
<1>. HIDE DEF d
<1>. QED
  BY <1>1, <1>2, <1>3

(* wdb_fin puts the '\0' where the text ends.                              *)
LEMMA FinHeld ==
  ASSUME NEW c, IsWriter(c)
  PROVE  LET d == wdb_fin(c).c IN
         /\ IsWriter(d) /\ wdb_fin(c).ok \in BOOLEAN
         /\ wdb_fin(c).ok => Len(d.out) > 0 /\ d.out[Len(d.out)] = "NUL"
<1>. DEFINE t == <<"\n", "NUL">>
            a == Added(c, t)
<1>1. wdb_fin(c) = Fail(c) \/ (Fits(c, t) /\ wdb_fin(c) = Ok(a))
  BY Zenon DEF wdb_fin
<1>2. Len(t) = 2 /\ t[2] = "NUL"
  OBVIOUS
<1>. HIDE DEF t
<1>3. Fits(c, t) => IsWriter(a) /\ (Len(t) > 0 => Len(a.out) > 0 /\ a.out[Len(a.out)] = t[Len(t)])
  BY AddedHeld, Zenon
<1>4. Fail(c).c = c /\ Fail(c).ok = FALSE /\ Ok(a).c = a /\ Ok(a).ok = TRUE
  BY DEF Fail, Ok
<1>. HIDE DEF a
<1>5. Fits(c, t) => IsWriter(a) /\ Len(a.out) > 0 /\ a.out[Len(a.out)] = "NUL"
  BY <1>2, <1>3
<1>. QED
  BY <1>1, <1>4, <1>5, Zenon

(* d is c with the text x behind its own.                                  *)
Wrote(d, c, x) ==
  /\ d.got_key = c.got_key /\ d.is_first_val = c.is_first_val
  /\ Extends(d.out, c.out) /\ Segment(d.out, Len(c.out), x) /\ Len(d.out) = Len(c.out) + Len(x)

(* Added is the only way a text grows.                                     *)
LEMMA AddedWrote ==
  ASSUME NEW c, IsWriter(c), NEW x, IsSeq(x)
  PROVE  Wrote(Added(c, x), c, x)
<1> DEFINE y == [k \in 1..Len(x) |-> x[k]]
<1>1. y = x
  <2>1. PICK S : x \in Seq(S)
    BY DEF IsSeq
  <2> QED
    BY <2>1
<1>2. IsSeq(c.out) /\ DOMAIN c = {"out", "got_key", "is_first_val"}
  BY Zenon DEF IsWriter
<1> DEFINE d == [c EXCEPT !.out = c.out \o y]
<1>3. Added(c, x) = d
  BY Zenon DEF Added
<1> HIDE DEF y
<1>4. d.out = c.out \o x /\ d.got_key = c.got_key /\ d.is_first_val = c.is_first_val
  BY <1>1, <1>2
<1> HIDE DEF d
<1>5. /\ Len(c.out) \in Nat /\ Len(x) \in Nat /\ Len(d.out) = Len(c.out) + Len(x)
      /\ (\A k \in 1..Len(c.out) : d.out[k] = c.out[k]) /\ \A k \in 1..Len(x) : d.out[Len(c.out) + k] = x[k]
  <2>1. IsCat(d.out, c.out, x)
    BY <1>2, <1>4, ConcatIs, Zenon
  <2> QED
    BY <2>1, Zenon DEF IsCat
<1>6. Len(d.out) \in Nat /\ Len(c.out) <= Len(d.out) /\ Len(c.out) + Len(x) <= Len(d.out)
  BY <1>5
<1> QED
  BY <1>3, <1>4, <1>5, <1>6, Zenon DEF Wrote, Extends, Segment

(* maybe_arr_: the separator before a value that is not the first          *)
Sep(f) == IF f THEN <<>> ELSE <<",", " ">>

(* maybe_arr_ as a function of is_first_val                                *)
LEMMA SepIs ==
  ASSUME NEW c
  PROVE  maybe_arr_(c) = Sep(c.is_first_val) /\ IsSeq(Sep(c.is_first_val))
<1>1. IsSeq(<<>>)
  BY DEF IsSeq
<1>2. ASSUME NEW x, NEW y PROVE IsSeq(<<x, y>>)
  <2>1. <<x, y>> \in Seq({x, y})
    OBVIOUS
  <2> QED
    BY <2>1, Zenon DEF IsSeq
<1>3. IsSeq(Sep(c.is_first_val))
  BY <1>1, <1>2, Zenon DEF Sep
<1> QED
  BY <1>3, Zenon DEF maybe_arr_, Sep

(* The three outcomes of a value: no key or no room for the separator, the *)
(* value refused behind it, and the value written.                         *)
ValueCase(c, valid, txt, rest) ==
  /\ IsWriter(rest) /\ rest.out = c.out /\ rest.got_key = c.got_key /\ rest.is_first_val = FALSE
  /\ \/ Value(c, valid, txt) = Fail(c)
     \/ Value(c, valid, txt) = Fail(rest)
     \/ c.got_key /\ valid /\ Value(c, valid, txt) = Ok(Added(rest, maybe_arr_(c) \o txt))

(* Value has no other outcome.                                             *)
LEMMA ValueCases ==
  ASSUME NEW c, IsWriter(c), NEW valid, NEW txt
  PROVE  \E rest : ValueCase(c, valid, txt, rest)
<1> USE ZenonT(40)
<1> DEFINE rest == [c EXCEPT !.is_first_val = FALSE]
<1>1. DOMAIN c = {"out", "got_key", "is_first_val"}
  BY DEF IsWriter
<1>2. rest.out = c.out /\ rest.got_key = c.got_key /\ rest.is_first_val = FALSE
  BY <1>1, SMT
<1>3. \/ Value(c, valid, txt) = Fail(c)
      \/ Value(c, valid, txt) = Fail(rest)
      \/ c.got_key /\ valid /\ Value(c, valid, txt) = Ok(Added(rest, maybe_arr_(c) \o txt))
  BY DEF Value
<1>4. IsWriter(rest)
  BY FlagsHeld
<1> HIDE DEF rest
<1> QED
  BY <1>2, <1>3, <1>4 DEF ValueCase

(* What Ok and Fail return                                                 *)
LEMMA ResultIs == \A c : Ok(c).c = c /\ Ok(c).ok = TRUE /\ Fail(c).c = c /\ Fail(c).ok = FALSE
BY DEF Ok, Fail

-----------------------------------------------------------------------------
(***************************************************************************)
(* What one rdb_next does                                                  *)
(***************************************************************************)
StrStates == {"str", "long_str"}

ValStates == StrStates \cup {"num", "bool"}

States == ValStates \cup {"idle", "key"}

Fields == {"st", "ty", "is_in_arr", "got_key", "expect_colon", "got_first_val", "str", "is_escape",
           "skip_whitespace", "keep_last_newline", "num", "word"}

NumFields == {"neg", "got_sign", "got_int", "mant", "fracs", "eneg", "exp", "pos", "part"}

(* A context has its fields, and the part of a number is one of the three  *)
(* next_num_ knows.                                                        *)
IsCtx(c) ==
  /\ Fields = DOMAIN c /\ NumFields = DOMAIN c.num
  /\ c.st \in States
  /\ c.got_key \in BOOLEAN /\ c.expect_colon \in BOOLEAN
  /\ c.num.part \in {"int", "frac", "exp"}

SameFlags(c, d) == d.got_key = c.got_key /\ d.expect_colon = c.expect_colon

Marked == {":", ",", "\n"}

KeyEnds(c, ch, d) ==
  /\ c.st = "key" /\ d.ty = "key" /\ d.st = "idle" /\ d.got_key
  /\ ch \in {":", " ", "\t"} /\ (d.expect_colon <=> ch # ":")

StrEnds(c, ch, d) == c.st \in StrStates /\ d.ty = "str" /\ d.st = "idle"

PlainEnds(c, ch, d) ==
  /\ c.st \in {"num", "bool"} /\ d.ty \in {"num", "bool"} /\ d.st = "idle"
  /\ is_separator_(ch) /\ (d.got_key <=> ch # "\n")

LineEnds(c, ch, d) == c.st = "idle" /\ d.ty = "incomplete" /\ ch = "\n" /\ d.st = "idle" /\ ~d.got_key

Colon(c, ch, d) ==
  c.st = "idle" /\ d.ty = "incomplete" /\ ch = ":" /\ d.st = "idle" /\ d.got_key = c.got_key

Idles(c, ch, d) ==
  /\ c.st = "idle" /\ d.ty = "incomplete" /\ ch \notin {":", "\n"} /\ d.st = "idle"
  /\ (d.got_key => c.got_key) /\ d.expect_colon = c.expect_colon

ValueStarts(c, ch, d) ==
  /\ c.st = "idle" /\ d.ty = "incomplete" /\ ch \notin Marked /\ d.st \in ValStates
  /\ c.got_key /\ ~c.expect_colon /\ SameFlags(c, d)

KeyStarts(c, ch, d) == c.st = "idle" /\ d.ty = "incomplete" /\ ch \notin Marked /\ d.st = "key" /\ ~d.got_key

GoesOn(c, ch, d) ==
  /\ c.st # "idle" /\ d.ty = "incomplete" /\ d.st = c.st /\ SameFlags(c, d)
  /\ ch = "\n" => c.st \in StrStates
  /\ c.st = "key" => ch \notin Marked

StepKind(c, ch, d) ==
  \/ KeyEnds(c, ch, d) \/ StrEnds(c, ch, d) \/ PlainEnds(c, ch, d) \/ LineEnds(c, ch, d) \/ Colon(c, ch, d)
  \/ Idles(c, ch, d) \/ ValueStarts(c, ch, d) \/ KeyStarts(c, ch, d) \/ GoesOn(c, ch, d)

(* What the proof needs of a result: a context again, and a kind of step   *)
(* unless the text was refused.                                            *)
Fine(c, ch, res) == res.r # "syntax" => IsCtx(res.c) /\ StepKind(c, ch, res.c)

Incomplete(c) == IsCtx(c) /\ c.ty = "incomplete"

(* Put keeps the context but for str.                                      *)
LEMMA PutGoesOn ==
  ASSUME NEW c, IsCtx(c), NEW ch, Put(c, ch).r # "syntax"
  PROVE  LET d == Put(c, ch).c IN IsCtx(d) /\ SameFlags(c, d) /\ d.st = c.st /\ d.ty = c.ty
BY DEF Put, Ret, Syntax, IsCtx, Fields, States, SameFlags

(* next_key_ ends the key or goes on with it.                              *)
LEMMA KeyFine ==
  ASSUME NEW c, Incomplete(c), c.st = "key", NEW ch
  PROVE  Fine(c, ch, next_key_(c, ch))
<1>1. CASE ch \in {":", " ", "\t"}
  BY <1>1 DEF next_key_, Ret, Syntax, Fine, IsCtx, Fields, States, Incomplete, StepKind, KeyEnds, States
<1>2. CASE ch \in Letters \cup Chars(digit) \cup {".", "_", "-"} /\ ch \notin {":", " ", "\t"}
  <2>1. ch \notin Marked
    BY <1>2, DigitChars DEF Letters, Marked
  <2>2. next_key_(c, ch) = Put(c, ch)
    BY <1>2 DEF next_key_
  <2>3. ASSUME Put(c, ch).r # "syntax"
        PROVE  IsCtx(Put(c, ch).c) /\ GoesOn(c, ch, Put(c, ch).c)
    BY <2>1, <2>3, PutGoesOn DEF Incomplete, GoesOn, Marked
  <2>. QED
    BY <2>2, <2>3 DEF Fine, StepKind
<1>3. CASE ch \notin Letters \cup Chars(digit) \cup {".", "_", "-"} /\ ch \notin {":", " ", "\t"}
  BY <1>3 DEF next_key_, Syntax, Fine
<1>. QED
  BY <1>1, <1>2, <1>3

(* The end of a string sets the flags for the next value.                  *)
LEMMA StrEndFine ==
  ASSUME NEW c, IsCtx(c), StrEnd(c).r # "syntax"
  PROVE  LET d == StrEnd(c).c IN IsCtx(d) /\ d.ty = "str" /\ d.st = "idle"
BY Zenon DEF StrEnd, Ret, Syntax, IsCtx, Fields, States

(* next_str_ ends the string, or goes on with it.                          *)
LEMMA StrFine ==
  ASSUME NEW c, Incomplete(c), c.st = "str", NEW ch
  PROVE  Fine(c, ch, next_str_(c, ch))
<1>. DEFINE res == next_str_(c, ch)
<1>. SUFFICES ASSUME res.r # "syntax"
              PROVE  IsCtx(res.c) /\ StepKind(c, ch, res.c)
  BY DEF Fine
<1>0. ch \notin {"NUL", "CTL", "U8", "\n", "\r"}
  BY DEF next_str_, Syntax
<1>1. CASE c.is_escape
  <2>. DEFINE d == [c EXCEPT !.is_escape = FALSE]
  <2>1. IsCtx(d) /\ SameFlags(c, d) /\ d.st = c.st /\ d.ty = c.ty
    BY DEF IsCtx, Fields, Incomplete, SameFlags
  <2>2. res = Put(d, escape_ch_(ch))
    BY <1>0, <1>1 DEF next_str_
  <2>3. IsCtx(res.c) /\ SameFlags(d, res.c) /\ res.c.st = d.st /\ res.c.ty = d.ty
    <3>. HIDE DEF d
    <3>. QED
      BY <2>1, <2>2, PutGoesOn
  <2>. QED
    BY <2>1, <2>3 DEF StepKind, GoesOn, SameFlags, Incomplete, StrStates
<1>2. CASE ~c.is_escape /\ ch = "\""
  <2>1. res = StrEnd(c)
    BY <1>0, <1>2 DEF next_str_
  <2>. QED
    BY <2>1, StrEndFine DEF StepKind, StrEnds, StrStates, Incomplete
<1>3. CASE ~c.is_escape /\ ch = "\\"
  <2>1. res.c = [c EXCEPT !.is_escape = TRUE]
    BY <1>0, <1>3 DEF next_str_, Ret
  <2>2. IsCtx(res.c) /\ SameFlags(c, res.c) /\ res.c.st = c.st /\ res.c.ty = c.ty
    BY <2>1 DEF IsCtx, Fields, States, Incomplete, SameFlags
  <2>. QED
    BY <2>2 DEF StepKind, GoesOn, Incomplete, StrStates
<1>4. CASE ~c.is_escape /\ ch # "\"" /\ ch # "\\"
  <2>1. res = Put(c, ch)
    BY <1>0, <1>4 DEF next_str_
  <2>. QED
    BY <2>1, PutGoesOn DEF StepKind, GoesOn, Incomplete, StrStates
<1>. QED
  BY <1>1, <1>2, <1>3, <1>4

(* next_long_str_ does so too, and may take off the newline at its end.    *)
LEMMA LongStrFine ==
  ASSUME NEW c, Incomplete(c), c.st = "long_str", NEW ch
  PROVE  Fine(c, ch, next_long_str_(c, ch))
<1>. DEFINE res == next_long_str_(c, ch)
            put == [c EXCEPT !.is_escape = FALSE, !.skip_whitespace = FALSE]
<1>. SUFFICES ASSUME res.r # "syntax"
              PROVE  IsCtx(res.c) /\ StepKind(c, ch, res.c)
  BY DEF Fine
<1>0. ch \notin {"NUL", "CTL", "U8", "\r"}
  BY DEF next_long_str_, Syntax
<1>a. ASSUME NEW d, IsCtx(d), SameFlags(c, d), d.st = c.st, d.ty = c.ty, NEW x, res = Put(d, x)
      PROVE  IsCtx(res.c) /\ StepKind(c, ch, res.c)
  <2>1. IsCtx(res.c) /\ SameFlags(d, res.c) /\ res.c.st = d.st /\ res.c.ty = d.ty
    BY <1>a, PutGoesOn
  <2>. QED
    BY <1>a, <2>1 DEF StepKind, GoesOn, SameFlags, Incomplete, StrStates
<1>b. ASSUME NEW d, IsCtx(d), SameFlags(c, d), d.st = c.st, d.ty = c.ty, res.c = d
      PROVE  IsCtx(res.c) /\ StepKind(c, ch, res.c)
  BY <1>b DEF StepKind, GoesOn, SameFlags, Incomplete, StrStates
<1>1. CASE c.is_escape
  <2>. DEFINE d == [put EXCEPT !.keep_last_newline = (escape_ch_(ch) = "\n")]
  <2>1. IsCtx(d) /\ SameFlags(c, d) /\ d.st = c.st /\ d.ty = c.ty
    BY DEF IsCtx, Fields, Incomplete, SameFlags
  <2>2. res = Put(d, escape_ch_(ch))
    BY <1>0, <1>1 DEF next_long_str_
  <2>. QED
    BY <2>1, <2>2, <1>a, Zenon
<1>2. CASE ~c.is_escape /\ ch = ">"
  <2>1. res = StrEnd(WithoutNewline(c))
    BY <1>0, <1>2 DEF next_long_str_
  <2>2. IsCtx(WithoutNewline(c))
    BY DEF WithoutNewline, IsCtx, Fields, States, Incomplete
  <2>. QED
    BY <2>1, <2>2, StrEndFine DEF StepKind, StrEnds, StrStates
<1>3. CASE ~c.is_escape /\ ch = "\\"
  <2>. DEFINE d == [c EXCEPT !.is_escape = TRUE, !.skip_whitespace = FALSE]
  <2>1. res.c = d
    BY <1>0, <1>3 DEF next_long_str_, Ret
  <2>2. IsCtx(d) /\ SameFlags(c, d) /\ d.st = c.st /\ d.ty = c.ty
    BY DEF IsCtx, Fields, Incomplete, SameFlags
  <2>. QED
    BY <2>1, <2>2, <1>b, Zenon
<1>4. CASE ~c.is_escape /\ ch \in {" ", "\t", "\n"} /\ c.skip_whitespace
  <2>. DEFINE d == [c EXCEPT !.skip_whitespace = (ch # "\n"), !.keep_last_newline = TRUE]
  <2>1. res.c = d
    BY <1>0, <1>4 DEF next_long_str_, Ret
  <2>2. IsCtx(d) /\ SameFlags(c, d) /\ d.st = c.st /\ d.ty = c.ty
    BY DEF IsCtx, Fields, Incomplete, SameFlags
  <2>. QED
    BY <2>1, <2>2, <1>b, Zenon
<1>5. CASE ~c.is_escape /\ ch # ">" /\ ch # "\\" /\ ~(ch \in {" ", "\t", "\n"} /\ c.skip_whitespace)
  <2>. DEFINE d == [put EXCEPT !.keep_last_newline = FALSE]
  <2>1. res = Put(d, ch)
    BY <1>0, <1>5 DEF next_long_str_
  <2>2. IsCtx(d) /\ SameFlags(c, d) /\ d.st = c.st /\ d.ty = c.ty
    BY DEF IsCtx, Fields, Incomplete, SameFlags
  <2>. QED
    BY <2>1, <2>2, <1>a, Zenon
<1>. QED
  BY <1>1, <1>2, <1>3, <1>4, <1>5

(* The separator ends a number or a word, and a newline its line.          *)
LEMMA PlainEndFine ==
  ASSUME NEW c, IsCtx(c), c.st \in {"num", "bool"}, NEW ty \in {"num", "bool"}, NEW ch, is_separator_(ch)
  PROVE  Fine(c, ch, PlainEnd(c, ty, ch))
<1>. DEFINE d == PlainEnd(c, ty, ch).c
<1>1. /\ Fields = DOMAIN d /\ d.num = c.num /\ d.st = "idle" /\ d.ty = ty
      /\ d.got_key = (ch # "\n") /\ d.expect_colon = FALSE
  BY Zenon DEF PlainEnd, IsCtx, Fields
<1>2. IsCtx(d) /\ PlainEnds(c, ch, d)
  <2>. HIDE DEF d
  <2>. QED
    BY <1>1, Zenon DEF IsCtx, States, PlainEnds
<1>. QED
  BY <1>2 DEF Fine, StepKind

(* A step that changes only num or word goes on.                           *)
LEMMA GoesOnFine ==
  ASSUME NEW c, Incomplete(c), NEW ch, c.st \in {"num", "bool"}, ch # "\n", NEW d,
         IsCtx(d), d.st = c.st, d.ty = c.ty, SameFlags(c, d)
  PROVE  Fine(c, ch, Ret(d))
<1>1. GoesOn(c, ch, d)
  BY DEF GoesOn, Incomplete
<1>2. Ret(d).c = d
  BY DEF Ret
<1>. QED
  BY <1>1, <1>2 DEF Fine, StepKind

(* next_bool_ takes a letter or ends the word.                             *)
LEMMA BoolFine ==
  ASSUME NEW c, Incomplete(c), c.st = "bool", NEW ch
  PROVE  Fine(c, ch, next_bool_(c, ch))
<1>1. CASE is_separator_(ch)
  <2>1. Fine(c, ch, PlainEnd(c, "bool", ch))
    BY <1>1, PlainEndFine DEF Incomplete
  <2>2. Fine(c, ch, Syntax(c))
    BY DEF Fine, Syntax
  <2>. QED
    BY <1>1, <2>1, <2>2 DEF next_bool_
<1>2. CASE ~is_separator_(ch)
  <2>1. ch # "\n"
    BY <1>2 DEF is_separator_
  <2>. DEFINE d == [c EXCEPT !.word = Append(@, ch)]
  <2>2. IsCtx(d) /\ d.st = c.st /\ d.ty = c.ty /\ SameFlags(c, d)
    BY DEF IsCtx, Incomplete, Fields, SameFlags
  <2>3. Fine(c, ch, Ret(d))
    <3>. HIDE DEF d
    <3>. QED
      BY <2>1, <2>2, GoesOnFine
  <2>4. Fine(c, ch, Syntax(c))
    BY DEF Fine, Syntax
  <2>. QED
    BY <1>2, <2>3, <2>4 DEF next_bool_
<1>. QED
  BY <1>1, <1>2

(* d is c but for its number, which has its fields.                        *)
NumChanged(c, d) ==
  /\ DOMAIN d = DOMAIN c /\ \A f \in Fields \ {"num"} : d[f] = c[f]
  /\ DOMAIN d.num = DOMAIN c.num /\ d.num.part \in {"int", "frac", "exp"}

(* A change of the number alone goes on with it.                           *)
LEMMA NumGoesOn ==
  ASSUME NEW c, Incomplete(c), c.st = "num", NEW ch, ch # "\n", NEW d, NumChanged(c, d)
  PROVE  Fine(c, ch, Ret(d))
<1>1. d.st = c.st /\ d.ty = c.ty /\ SameFlags(c, d)
  BY DEF Fields, SameFlags, NumChanged
<1>2. IsCtx(d)
  BY <1>1 DEF IsCtx, Incomplete, SameFlags, NumChanged
<1>. QED
  BY <1>1, <1>2, GoesOnFine

(* The classes of characters that next_num_ tells apart are disjoint.      *)
LEMMA NumChars ==
  ASSUME NEW ch
  PROVE  /\ IsDigit(ch) => ch \notin {"-", "+", ".", "e", "\n"} /\ ~is_separator_(ch)
         /\ ch \in {"-", "+", ".", "e"} => ~is_separator_(ch) /\ ch # "\n"
BY DigitChars DEF IsDigit, is_separator_

(* next_num_ goes on with the number or ends it.                           *)
LEMMA NumFine ==
  ASSUME NEW c, Incomplete(c), c.st = "num", NEW ch
  PROVE  Fine(c, ch, next_num_(c, ch))
<1>0. Fine(c, ch, Syntax(c))
  BY DEF Fine, Syntax
<1>1. is_separator_(ch) => Fine(c, ch, PlainEnd(c, "num", ch))
  BY PlainEndFine DEF Incomplete
<1>f. Fields = DOMAIN c /\ NumFields = DOMAIN c.num /\ c.num.part \in {"int", "frac", "exp"}
  BY DEF Incomplete, IsCtx
<1>a. ch # "\n" => Fine(c, ch, Ret([c EXCEPT !.num.got_int = TRUE]))
  <2>1. NumChanged(c, [c EXCEPT !.num.got_int = TRUE])
    BY <1>f, Zenon DEF Fields, NumFields, NumChanged
  <2>. QED
    BY <2>1, NumGoesOn, Zenon
<1>b. ch # "\n" => Fine(c, ch, Ret([c EXCEPT !.num.got_int = TRUE, !.num.mant = 10 * @ + DigitOf(ch), !.num.pos = @ + 1]))
  <2>1. NumChanged(c, [c EXCEPT !.num.got_int = TRUE, !.num.mant = 10 * @ + DigitOf(ch), !.num.pos = @ + 1])
    BY <1>f, Zenon DEF Fields, NumFields, NumChanged
  <2>. QED
    BY <2>1, NumGoesOn, Zenon
<1>c. ch # "\n" => Fine(c, ch, Ret([c EXCEPT !.num.neg = (ch = "-"), !.num.got_sign = TRUE]))
  <2>1. NumChanged(c, [c EXCEPT !.num.neg = (ch = "-"), !.num.got_sign = TRUE])
    BY <1>f, Zenon DEF Fields, NumFields, NumChanged
  <2>. QED
    BY <2>1, NumGoesOn, Zenon
<1>d. ch # "\n" => Fine(c, ch, Ret([c EXCEPT !.num.pos = 1, !.num.part = "frac"]))
  <2>1. NumChanged(c, [c EXCEPT !.num.pos = 1, !.num.part = "frac"])
    BY <1>f, Zenon DEF Fields, NumFields, NumChanged
  <2>. QED
    BY <2>1, NumGoesOn, Zenon
<1>e. ch # "\n" => Fine(c, ch, ToExp(c))
  <2>1. NumChanged(c, ToExp(c).c)
    BY <1>f, Zenon DEF Fields, NumFields, ToExp, Ret, NumChanged
  <2>2. ToExp(c) = Ret(ToExp(c).c)
    BY DEF ToExp, Ret
  <2>3. ch # "\n" => Fine(c, ch, Ret(ToExp(c).c))
    BY <2>1, NumGoesOn, Zenon
  <2>. QED
    BY <2>2, <2>3, Zenon
<1>g. ch # "\n" => Fine(c, ch, Ret([c EXCEPT !.num.mant = 10 * @ + DigitOf(ch), !.num.fracs = @ + 1, !.num.pos = @ + 1]))
  <2>1. NumChanged(c, [c EXCEPT !.num.mant = 10 * @ + DigitOf(ch), !.num.fracs = @ + 1, !.num.pos = @ + 1])
    BY <1>f, Zenon DEF Fields, NumFields, NumChanged
  <2>. QED
    BY <2>1, NumGoesOn, Zenon
<1>h. ch # "\n" => Fine(c, ch, Ret([c EXCEPT !.num.got_int = TRUE, !.num.exp = 10 * @ + DigitOf(ch), !.num.pos = @ + 1]))
  <2>1. NumChanged(c, [c EXCEPT !.num.got_int = TRUE, !.num.exp = 10 * @ + DigitOf(ch), !.num.pos = @ + 1])
    BY <1>f, Zenon DEF Fields, NumFields, NumChanged
  <2>. QED
    BY <2>1, NumGoesOn, Zenon
<1>i. ch # "\n" => Fine(c, ch, Ret([c EXCEPT !.num.eneg = (ch = "-"), !.num.got_sign = TRUE]))
  <2>1. NumChanged(c, [c EXCEPT !.num.eneg = (ch = "-"), !.num.got_sign = TRUE])
    BY <1>f, Zenon DEF Fields, NumFields, NumChanged
  <2>. QED
    BY <2>1, NumGoesOn, Zenon
<1>4. Fine(c, ch, next_num_int_(c, ch))
  <2>1. CASE IsDigit(ch)
    BY <2>1, <1>a, <1>b, NumChars DEF next_num_int_
  <2>2. CASE ch \in {"-", "+"}
    BY <2>2, <1>0, <1>c, NumChars DEF next_num_int_
  <2>3. CASE ch = "."
    BY <2>3, <1>0, <1>d, NumChars DEF next_num_int_
  <2>4. CASE ch = "e"
    BY <2>4, <1>0, <1>e, NumChars DEF next_num_int_
  <2>5. CASE is_separator_(ch)
    BY <2>5, <1>0, <1>1, NumChars DEF next_num_int_
  <2>6. CASE ~IsDigit(ch) /\ ch \notin {"-", "+", ".", "e"} /\ ~is_separator_(ch)
    BY <2>6, <1>0 DEF next_num_int_
  <2>. QED
    BY <2>1, <2>2, <2>3, <2>4, <2>5, <2>6
<1>5. Fine(c, ch, next_num_frac_(c, ch))
  <2>1. CASE IsDigit(ch)
    BY <2>1, <1>g, NumChars DEF next_num_frac_
  <2>4. CASE ch = "e"
    BY <2>4, <1>0, <1>e, NumChars DEF next_num_frac_
  <2>5. CASE is_separator_(ch)
    BY <2>5, <1>0, <1>1, NumChars DEF next_num_frac_
  <2>6. CASE ~IsDigit(ch) /\ ch # "e" /\ ~is_separator_(ch)
    BY <2>6, <1>0 DEF next_num_frac_
  <2>. QED
    BY <2>1, <2>4, <2>5, <2>6
<1>6. Fine(c, ch, next_num_exp_(c, ch))
  <2>1. CASE IsDigit(ch)
    BY <2>1, <1>a, <1>h, NumChars DEF next_num_exp_
  <2>2. CASE ch \in {"-", "+"}
    BY <2>2, <1>0, <1>i, NumChars DEF next_num_exp_
  <2>5. CASE is_separator_(ch)
    BY <2>5, <1>0, <1>1, NumChars DEF next_num_exp_
  <2>6. CASE ~IsDigit(ch) /\ ch \notin {"-", "+"} /\ ~is_separator_(ch)
    BY <2>6, <1>0 DEF next_num_exp_
  <2>. QED
    BY <2>1, <2>2, <2>5, <2>6
<1>. QED
  BY <1>4, <1>5, <1>6 DEF next_num_, Incomplete, IsCtx

(* Entering the state of a value keeps the flags of its key.               *)
LEMMA EnterKeeps ==
  ASSUME NEW c, Incomplete(c), NEW st \in ValStates
  PROVE  Incomplete(Enter(c, st)) /\ Enter(c, st).st = st /\ SameFlags(c, Enter(c, st))
<1>. DEFINE e == Enter(c, st)
<1>1. Fields = DOMAIN e /\ e.st = st /\ e.ty = c.ty /\ SameFlags(c, e) /\ e.num = NoNum
  BY DEF Enter, Incomplete, IsCtx, Fields, SameFlags
<1>2. DOMAIN NoNum = NumFields /\ NoNum.part = "int"
  BY DEF NoNum, NumFields
<1>3. Incomplete(e)
  <2>. HIDE DEF e
  <2>. QED
    BY <1>1, <1>2 DEF Incomplete, IsCtx, SameFlags, States
<1>. QED
  BY <1>1, <1>3

(* next_idle_ starts a value only where one is expected, and a key only    *)
(* where the line has none.                                                *)
LEMMA IdleFine ==
  ASSUME NEW c, Incomplete(c), c.st = "idle", NEW ch
  PROVE  Fine(c, ch, next_idle_(c, ch))
<1>0. Fine(c, ch, Syntax(c))
  BY DEF Fine, Syntax
<1>a. ASSUME NEW e, NEW res, Incomplete(e), e.st \in {"num", "bool"}, SameFlags(c, e), Fine(e, ch, res),
             is_val_expected(c), ~is_separator_(ch), ch # ":"
      PROVE  Fine(c, ch, res)
  <2>. SUFFICES ASSUME res.r # "syntax"
                PROVE  IsCtx(res.c) /\ StepKind(c, ch, res.c)
    BY DEF Fine
  <2>1. IsCtx(res.c) /\ StepKind(e, ch, res.c)
    BY <1>a, ZenonT(40) DEF Fine
  <2>2. GoesOn(e, ch, res.c)
    BY <1>a, <2>1 DEF StepKind, KeyEnds, StrEnds, PlainEnds, LineEnds, Colon, Idles, ValueStarts, KeyStarts, StrStates
  <2>3. ValueStarts(c, ch, res.c)
    BY <1>a, <2>2 DEF GoesOn, ValueStarts, SameFlags, is_val_expected, is_separator_, Marked, ValStates
  <2>. QED
    BY <2>1, <2>3 DEF StepKind
<1>b. ASSUME NEW st \in StrStates, is_val_expected(c), ch \notin Marked
      PROVE  Fine(c, ch, Ret(Enter(c, st)))
  <2>1. Incomplete(Enter(c, st)) /\ Enter(c, st).st = st /\ SameFlags(c, Enter(c, st))
    BY EnterKeeps DEF ValStates
  <2>2. ValueStarts(c, ch, Enter(c, st))
    BY <1>b, <2>1 DEF ValueStarts, Incomplete, is_val_expected, ValStates
  <2>. QED
    BY <2>1, <2>2 DEF Fine, StepKind, Ret, Incomplete
<1>1. CASE IsDigit(ch) \/ ch \in {"-", "+", "."}
  <2>1. ~is_separator_(ch) /\ ch # ":"
    BY <1>1, DigitChars DEF IsDigit, is_separator_
  <2>2. Incomplete(Enter(c, "num")) /\ Enter(c, "num").st = "num" /\ SameFlags(c, Enter(c, "num"))
    BY EnterKeeps DEF ValStates
  <2>3. Fine(Enter(c, "num"), ch, next_num_(Enter(c, "num"), ch))
    BY <2>2, NumFine
  <2>4. is_val_expected(c) => Fine(c, ch, next_num_(Enter(c, "num"), ch))
    BY <2>1, <2>2, <2>3, <1>a
  <2>5. CASE IsDigit(ch)
    <3>1. ch \notin {":", "\"", "<", ",", "\n", "NUL", " ", "\t"}
      BY <2>5, DigitChars DEF IsDigit
    <3>. QED
      BY <1>0, <2>4, <2>5, <3>1 DEF next_idle_
  <2>6. CASE ch \in {"-", "+", "."}
    BY <1>0, <2>4, <2>6 DEF next_idle_
  <2>. QED
    BY <1>1, <2>5, <2>6
<1>2. CASE ch = ":"
  <2>. DEFINE d == [c EXCEPT !.expect_colon = FALSE]
  <2>1. IsCtx(d) /\ Colon(c, ch, d)
    BY <1>2 DEF Incomplete, IsCtx, Fields, Colon
  <2>2. Fine(c, ch, Ret(d))
    <3>. HIDE DEF d
    <3>. QED
      BY <2>1 DEF Fine, StepKind, Ret
  <2>3. ~IsDigit(ch)
    BY <1>2, DigitChars DEF IsDigit
  <2>. QED
    BY <1>0, <1>2, <2>2, <2>3 DEF next_idle_
<1>3. CASE ch = "\""
  <2>1. is_val_expected(c) => Fine(c, ch, Ret(Enter(c, "str")))
    BY <1>3, <1>b DEF StrStates, Marked
  <2>2. ~IsDigit(ch)
    BY <1>3, DigitChars DEF IsDigit
  <2>. QED
    BY <1>0, <1>3, <2>1, <2>2 DEF next_idle_
<1>4. CASE ch = "<"
  <2>1. is_val_expected(c) => Fine(c, ch, Ret(Enter(c, "long_str")))
    BY <1>4, <1>b DEF StrStates, Marked
  <2>2. ~IsDigit(ch)
    BY <1>4, DigitChars DEF IsDigit
  <2>. QED
    BY <1>0, <1>4, <2>1, <2>2 DEF next_idle_
<1>5. CASE ch = ","
  <2>. DEFINE d == [c EXCEPT !.is_in_arr = TRUE]
  <2>1. IsCtx(d) /\ Idles(c, ch, d)
    BY <1>5 DEF Incomplete, IsCtx, Fields, Idles
  <2>2. Fine(c, ch, Ret(d))
    <3>. HIDE DEF d
    <3>. QED
      BY <2>1 DEF Fine, StepKind, Ret
  <2>3. ~IsDigit(ch)
    BY <1>5, DigitChars DEF IsDigit
  <2>. QED
    BY <1>5, <2>2, <2>3 DEF next_idle_
<1>6. CASE ch \in {"\n", "NUL"}
  <2>1. IsCtx(LineEnd(c)) /\ LineEnd(c).st = "idle" /\ LineEnd(c).ty = "incomplete" /\ ~LineEnd(c).got_key
        /\ LineEnd(c).expect_colon = c.expect_colon
    BY ZenonT(40) DEF LineEnd, Incomplete, IsCtx, Fields
  <2>2. StepKind(c, ch, LineEnd(c))
    BY <1>6, <2>1 DEF StepKind, LineEnds, Idles
  <2>3. next_idle_(c, ch).c = LineEnd(c)
    <3>1. ~IsDigit(ch)
      BY <1>6, DigitChars, ZenonT(40) DEF IsDigit
    <3>. QED
      BY <1>6, <3>1 DEF next_idle_, Ret
  <2>. QED
    BY <2>1, <2>2, <2>3 DEF Fine
<1>7. CASE ch \in {" ", "\t"}
  <2>1. Idles(c, ch, c)
    BY <1>7 DEF Idles, Incomplete
  <2>2. ~IsDigit(ch)
    BY <1>7, DigitChars DEF IsDigit
  <2>3. next_idle_(c, ch).c = c
    BY <1>7, <2>2 DEF next_idle_, Ret
  <2>. QED
    BY <2>1, <2>3 DEF Fine, StepKind, Incomplete
<1>8. CASE ~IsDigit(ch) /\ ch \notin {"-", "+", ".", ":", "\"", "<", ",", "\n", "NUL", " ", "\t"}
  <2>1. CASE c.got_key
    <3>1. ~is_separator_(ch)
      BY <1>8 DEF is_separator_
    <3>2. Incomplete(Enter(c, "bool")) /\ Enter(c, "bool").st = "bool" /\ SameFlags(c, Enter(c, "bool"))
      BY EnterKeeps DEF ValStates
    <3>3. Fine(Enter(c, "bool"), ch, next_bool_(Enter(c, "bool"), ch))
      BY <3>2, BoolFine
    <3>4. is_val_expected(c) => Fine(c, ch, next_bool_(Enter(c, "bool"), ch))
      BY <1>8, <3>1, <3>2, <3>3, <1>a
    <3>. QED
      BY <1>0, <1>8, <2>1, <3>4 DEF next_idle_
  <2>2. CASE ~c.got_key
    <3>. DEFINE k == EnterKey(c)
                res == next_key_(k, ch)
    <3>1. Incomplete(k) /\ k.st = "key" /\ ~k.got_key
      BY DEF EnterKey, Incomplete, IsCtx, Fields, States
    <3>2. Fine(k, ch, res)
      BY <3>1, KeyFine
    <3>3. ASSUME res.r # "syntax"
          PROVE  IsCtx(res.c) /\ StepKind(c, ch, res.c)
      <4>. HIDE DEF k, res
      <4>1. IsCtx(res.c) /\ GoesOn(k, ch, res.c)
        BY <1>8, <3>1, <3>2, <3>3
           DEF Fine, StepKind, KeyEnds, StrEnds, PlainEnds, LineEnds, Colon, Idles, ValueStarts, KeyStarts, StrStates
      <4>2. KeyStarts(c, ch, res.c)
        BY <1>8, <3>1, <4>1 DEF GoesOn, KeyStarts, SameFlags, Marked
      <4>. QED
        BY <4>1, <4>2, ZenonT(40) DEF StepKind
    <3>4. next_idle_(c, ch) = res
      BY <1>8, <2>2 DEF next_idle_
    <3>. QED
      BY <3>3, <3>4 DEF Fine
  <2>. QED
    BY <2>1, <2>2
<1>. QED
  BY <1>1, <1>2, <1>3, <1>4, <1>5, <1>6, <1>7, <1>8

(* Every rdb_next is a step of one of the kinds, or refuses the text.      *)
LEMMA StepKinds ==
  ASSUME NEW ctx, IsCtx(ctx), NEW ch
  PROVE  Fine(ctx, ch, rdb_next(ctx, ch))
<1>. DEFINE c == [ctx EXCEPT !.ty = "incomplete"]
<1>1. Incomplete(c) /\ c.st = ctx.st /\ SameFlags(ctx, c)
  BY DEF Incomplete, IsCtx, Fields, SameFlags
<1>2. Fine(c, ch, rdb_next(ctx, ch))
  <2>1. rdb_next(ctx, ch) = CASE c.st = "idle" -> next_idle_(c, ch)
                              [] c.st = "key" -> next_key_(c, ch)
                              [] c.st = "str" -> next_str_(c, ch)
                              [] c.st = "long_str" -> next_long_str_(c, ch)
                              [] c.st = "num" -> next_num_(c, ch)
                              [] c.st = "bool" -> next_bool_(c, ch)
    BY Zenon DEF rdb_next
  <2>2. c.st \in {"idle", "key", "str", "long_str", "num", "bool"}
    BY <1>1 DEF Incomplete, IsCtx, States, ValStates, StrStates
  <2>. HIDE DEF c
  <2>. QED
    BY <1>1, <2>1, <2>2, IdleFine, KeyFine, StrFine, LongStrFine, NumFine, BoolFine
<1>3. ASSUME NEW d PROVE StepKind(c, ch, d) => StepKind(ctx, ch, d)
  <2>. HIDE DEF c
  <2>. QED
    BY <1>1 DEF StepKind, KeyEnds, StrEnds, PlainEnds, LineEnds, Colon, Idles, ValueStarts, KeyStarts, GoesOn, SameFlags
<1>. HIDE DEF c
<1>. QED
  BY <1>2, <1>3 DEF Fine

-----------------------------------------------------------------------------
(***************************************************************************)
(* The marks of a text                                                     *)
(***************************************************************************)
MarkSet == {"key", "str", "num", "bool", ":", ",", "\n"}

Enders == {"\n", "key"}

(* Before the mark k there are a key and its ':', and its line is open.    *)
ColonBefore(m, k) ==
  \E i, j \in 1..(k - 1) : /\ i < j /\ m[i] = "key" /\ m[j] = ":"
                          /\ \A n \in (i + 1)..(k - 1) : m[n] \notin Enders

ColonSeen(m) == ColonBefore(m, Len(m) + 1)

KeyOpen(m) == \E i \in 1..Len(m) : m[i] = "key" /\ \A n \in (i + 1)..Len(m) : m[n] \notin Enders

ValuesFine(m) == \A k \in 1..Len(m) : m[k] \in Values => ColonBefore(m, k)

(* What the context promises about the marks                               *)
Owed(c, m) ==
  /\ c.got_key => KeyOpen(m)
  /\ c.got_key /\ ~c.expect_colon => ColonSeen(m)
  /\ c.st \in ValStates => ColonSeen(m)
  /\ c.st = "key" => ~c.got_key

(* The inductive invariant                                                 *)
MarksInv ==
  /\ marks \in Seq(MarkSet)
  /\ ValuesFine(marks)
  /\ r = "ok" => IsCtx(rd) /\ Owed(rd, marks)

(* A key whose ':' was seen is open.                                       *)
LEMMA SeenIsOpen ==
  ASSUME NEW m \in Seq(MarkSet), ColonSeen(m)
  PROVE  KeyOpen(m)
BY DEF ColonSeen, ColonBefore, KeyOpen

(* How one more mark changes what the marks show                           *)
LEMMA OneMore ==
  ASSUME NEW m \in Seq(MarkSet), NEW x \in MarkSet
  PROVE  /\ Append(m, x) \in Seq(MarkSet)
         /\ ValuesFine(m) /\ (x \in Values => ColonSeen(m)) => ValuesFine(Append(m, x))
         /\ ColonSeen(m) /\ x \notin Enders => ColonSeen(Append(m, x))
         /\ KeyOpen(m) /\ x \notin Enders => KeyOpen(Append(m, x))
         /\ KeyOpen(m) /\ x = ":" => ColonSeen(Append(m, x))
         /\ x = "key" => KeyOpen(Append(m, x))
<1>. DEFINE a == Append(m, x)
            L == Len(m)
<1>1. /\ L \in Nat /\ a \in Seq(MarkSet) /\ Len(a) = L + 1 /\ a[L + 1] = x
      /\ \A k \in 1..L : a[k] = m[k]
  <2>1. L \in Nat
    OBVIOUS
  <2>2. a \in Seq(MarkSet) /\ Len(a) = L + 1
    BY AppendProperties, Zenon
  <2>3. a[L + 1] = x
    BY AppendProperties, Zenon
  <2>4. ASSUME NEW k \in 1..L PROVE a[k] = m[k]
    BY AppendProperties
  <2>. HIDE DEF a, L
  <2>. QED
    BY <2>1, <2>2, <2>3, <2>4
<1>. HIDE DEF a, L
<1>2. ASSUME NEW k \in 1..(L + 1), ColonBefore(m, k) PROVE ColonBefore(a, k)
  BY <1>1, <1>2 DEF ColonBefore
<1>3. ValuesFine(m) /\ (x \in Values => ColonSeen(m)) => ValuesFine(a)
  <2>. SUFFICES ASSUME ValuesFine(m), x \in Values => ColonSeen(m), NEW k \in 1..(L + 1), a[k] \in Values
                PROVE  ColonBefore(m, k)
    BY <1>1, <1>2 DEF ValuesFine
  <2>1. CASE k = L + 1
    BY <1>1, <2>1 DEF ColonSeen, L
  <2>2. CASE k \in 1..L
    BY <1>1, <2>2 DEF ValuesFine, L
  <2>. QED
    BY <1>1, <2>1, <2>2
<1>4. ColonSeen(m) /\ x \notin Enders => ColonSeen(a)
  BY <1>1 DEF ColonSeen, ColonBefore, L
<1>5. KeyOpen(m) /\ x \notin Enders => KeyOpen(a)
  BY <1>1 DEF KeyOpen, L
<1>6. KeyOpen(m) /\ x = ":" => ColonSeen(a)
  BY <1>1 DEF KeyOpen, ColonSeen, ColonBefore, Enders, L
<1>7. x = "key" => KeyOpen(a)
  BY <1>1 DEF KeyOpen
<1>. QED
  BY <1>1, <1>3, <1>4, <1>5, <1>6, <1>7, ZenonT(40) DEF a

(* rdb_init makes a context.                                               *)
LEMMA InitCtx == IsCtx(rdb_init)
<1>1. NumFields = DOMAIN NoNum /\ NoNum.part = "int"
  BY DEF NoNum, NumFields
<1>2. /\ Fields = DOMAIN rdb_init /\ rdb_init.num = NoNum /\ rdb_init.st = "idle"
      /\ rdb_init.got_key = FALSE /\ rdb_init.expect_colon = FALSE
  BY DEF rdb_init, Fields
<1>. QED
  BY <1>1, <1>2, Zenon DEF IsCtx, States

(* Nothing has been marked yet, and no key has been read.                  *)
LEMMA MarksInit == TextInit => MarksInv
<1>. SUFFICES ASSUME TextInit PROVE MarksInv
  OBVIOUS
<1>1. marks \in Seq(MarkSet) /\ ValuesFine(marks)
  BY DEF TextInit, ValuesFine
<1>2. IsCtx(rd)
  BY InitCtx, Zenon DEF TextInit
<1>3. Owed(rd, marks)
  BY DEF TextInit, rdb_init, Owed, ValStates, StrStates
<1>. QED
  BY <1>1, <1>2, <1>3 DEF MarksInv

(* The marks of a step, one at a time                                      *)
LEMMA OneByOne ==
  ASSUME NEW S, NEW m \in Seq(S), NEW x \in S, NEW y \in S
  PROVE  /\ m \o (<<>> \o <<>>) = m
         /\ m \o (<<>> \o <<y>>) = Append(m, y)
         /\ m \o (<<x>> \o <<>>) = Append(m, x)
         /\ m \o (<<x>> \o <<y>>) = Append(Append(m, x), y)
<1>1. <<>> \in Seq(S) /\ <<x>> \in Seq(S) /\ <<y>> \in Seq(S)
  <2>1. <<>> \in Seq(S)
    OBVIOUS
  <2>2. <<x>> \in Seq(S)
    OBVIOUS
  <2>3. <<y>> \in Seq(S)
    OBVIOUS
  <2>. QED
    BY <2>1, <2>2, <2>3
<1>2. <<>> \o <<>> = <<>> /\ <<>> \o <<y>> = <<y>> /\ <<x>> \o <<>> = <<x>> /\ m \o <<>> = m
  BY <1>1, ConcatEmptySeq, Zenon
<1>3. Append(m, x) = m \o <<x>> /\ Append(m, y) = m \o <<y>>
  BY AppendIsConcat, Zenon
<1>4. Append(Append(m, x), y) = (m \o <<x>>) \o <<y>>
  <2>1. Append(m, x) \in Seq(S)
    BY AppendProperties, Zenon
  <2>2. Append(Append(m, x), y) = Append(m, x) \o <<y>>
    BY <2>1, AppendIsConcat, Zenon
  <2>. QED
    BY <2>2, <1>3, Zenon
<1>5. (m \o <<x>>) \o <<y>> = m \o (<<x>> \o <<y>>)
  BY <1>1, ConcatAssociative
<1>. QED
  BY <1>2, <1>3, <1>4, <1>5, Zenon

(* Each kind of step keeps the promises, with the marks it adds.           *)
LEMMA MarksFeed ==
  ASSUME MarksInv, NEW ch, Feed(ch)
  PROVE  MarksInv'
<1>. DEFINE res == rdb_next(rd, ch)
            d == res.c
            m == marks
<1>1. r = "ok" /\ rd' = d /\ r' = res.r /\ IsCtx(rd) /\ Owed(rd, m) /\ m \in Seq(MarkSet) /\ ValuesFine(m)
  BY DEF MarksInv, Feed
<1>2. CASE res.r = "syntax"
  BY <1>1, <1>2 DEF MarksInv, Feed
<1>3. CASE res.r # "syntax"
  <2>1. IsCtx(d) /\ StepKind(rd, ch, d)
    BY <1>1, <1>3, StepKinds DEF Fine
  <2>2. marks' = m \o Seen(res, ch)
    BY <1>3 DEF Feed
  <2>3. Seen(res, ch) = (IF d.ty = "incomplete" THEN <<>> ELSE <<d.ty>>) \o
                        (IF ch \in Marked /\ rd.st \notin StrStates THEN <<ch>> ELSE <<>>)
    BY Zenon DEF Seen, Marked, StrStates
  <2>4. ":" \in MarkSet /\ "key" \in MarkSet /\ (ch \in Marked => ch \in MarkSet)
    BY DEF Marked, MarkSet
  <2>. HIDE DEF res, d, m
  <2>a. ASSUME d.ty = "incomplete", ~(ch \in Marked /\ rd.st \notin StrStates) PROVE marks' = m
    BY <1>1, <2>2, <2>3, <2>a, OneByOne
  <2>b. ASSUME d.ty = "incomplete", ch \in Marked, rd.st \notin StrStates PROVE marks' = Append(m, ch)
    BY <1>1, <2>2, <2>3, <2>4, <2>b, OneByOne
  <2>c. ASSUME d.ty \in MarkSet, d.ty # "incomplete", ~(ch \in Marked /\ rd.st \notin StrStates)
        PROVE  marks' = Append(m, d.ty)
    BY <1>1, <2>2, <2>3, <2>c, OneByOne
  <2>d. ASSUME d.ty \in MarkSet, d.ty # "incomplete", ch \in Marked, rd.st \notin StrStates
        PROVE  marks' = Append(Append(m, d.ty), ch)
    BY <1>1, <2>2, <2>3, <2>4, <2>d, OneByOne
  <2>e. SUFFICES marks' \in Seq(MarkSet) /\ ValuesFine(marks') /\ Owed(d, marks')
    BY <1>1, <2>1 DEF MarksInv
  <2>5. CASE KeyEnds(rd, ch, d)
    <3>. DEFINE k == Append(m, "key")
    <3>1. k \in Seq(MarkSet) /\ ValuesFine(k) /\ KeyOpen(k)
      BY <1>1, <2>4, OneMore DEF Values
    <3>2. CASE ch = ":"
      <4>1. marks' = Append(k, ":")
        BY <2>4, <2>5, <2>d, <3>2 DEF KeyEnds, Marked, StrStates
      <4>2. marks' \in Seq(MarkSet) /\ ValuesFine(marks') /\ ColonSeen(marks')
        <5>. HIDE DEF k
        <5>. QED
          BY <2>4, <3>1, <4>1, OneMore DEF Values
      <4>. QED
        BY <2>5, <4>2, SeenIsOpen DEF KeyEnds, Owed, ValStates, StrStates
    <3>3. CASE ch # ":"
      <4>1. marks' = k
        BY <2>4, <2>5, <2>c, <3>3 DEF KeyEnds, Marked
      <4>. QED
        BY <2>5, <3>1, <3>3, <4>1 DEF KeyEnds, Owed, ValStates, StrStates
    <3>. QED
      BY <3>2, <3>3
  <2>6. CASE StrEnds(rd, ch, d)
    <3>1. ColonSeen(m) /\ d.ty = "str" /\ d.st = "idle"
      BY <1>1, <2>6 DEF StrEnds, Owed, ValStates
    <3>2. "str" \in MarkSet /\ "str" \notin Enders /\ "str" # "incomplete"
      BY DEF Enders, MarkSet
    <3>3. marks' = Append(m, "str")
      BY <2>6, <2>c, <3>1, <3>2, ZenonT(40) DEF StrEnds
    <3>4. marks' \in Seq(MarkSet) /\ ValuesFine(marks') /\ ColonSeen(marks')
      BY <1>1, <3>1, <3>2, <3>3, OneMore, ZenonT(40)
    <3>. QED
      BY <3>1, <3>4, SeenIsOpen DEF Owed, ValStates, StrStates
  <2>7. CASE PlainEnds(rd, ch, d)
    <3>. DEFINE v == Append(m, d.ty)
    <3>1. ColonSeen(m) /\ d.ty \in MarkSet \ Enders /\ d.ty # "incomplete" /\ d.st = "idle"
      BY <1>1, <2>7 DEF PlainEnds, Owed, ValStates, Enders, MarkSet
    <3>2. v \in Seq(MarkSet) /\ ValuesFine(v) /\ ColonSeen(v)
      BY <1>1, <3>1, OneMore
    <3>3. rd.st \notin StrStates /\ ch # ":"
      BY <2>7 DEF PlainEnds, StrStates, is_separator_
    <3>4. CASE ch \in Marked
      <4>1. marks' = Append(v, ch)
        BY <2>d, <3>1, <3>3, <3>4
      <4>. HIDE DEF v
      <4>2. marks' \in Seq(MarkSet) /\ ValuesFine(marks')
        BY <2>4, <3>2, <3>4, <4>1, OneMore DEF Marked, Values
      <4>3. CASE ch = "\n"
        BY <2>7, <3>1, <4>2, <4>3, ZenonT(40) DEF PlainEnds, Owed, ValStates, StrStates
      <4>4. CASE ch = ","
        <5>1. ColonSeen(marks')
          BY <2>4, <3>2, <3>4, <4>1, <4>4, OneMore DEF Enders
        <5>. QED
          BY <3>1, <4>2, <5>1, SeenIsOpen DEF Owed, ValStates, StrStates
      <4>. QED
        BY <3>3, <3>4, <4>3, <4>4 DEF Marked
    <3>5. CASE ch \notin Marked
      <4>1. marks' = v
        BY <2>c, <3>1, <3>5
      <4>. HIDE DEF v
      <4>. QED
        BY <3>1, <3>2, <4>1, SeenIsOpen DEF Owed, ValStates, StrStates
    <3>. QED
      BY <3>4, <3>5
  <2>8. CASE LineEnds(rd, ch, d)
    <3>1. marks' = Append(m, ch) /\ ch \in MarkSet /\ ch \notin Values
      BY <2>4, <2>8, <2>b DEF LineEnds, Marked, StrStates, Values
    <3>2. marks' \in Seq(MarkSet) /\ ValuesFine(marks')
      BY <1>1, <3>1, OneMore, ZenonT(40)
    <3>. QED
      BY <2>8, <3>2 DEF LineEnds, Owed, ValStates, StrStates
  <2>9. CASE Colon(rd, ch, d)
    <3>1. marks' = Append(m, ch) /\ ch \in MarkSet /\ ch \notin Values /\ ch = ":"
      BY <2>4, <2>9, <2>b DEF Colon, Marked, StrStates, Values
    <3>2. marks' \in Seq(MarkSet) /\ ValuesFine(marks') /\ (KeyOpen(m) => ColonSeen(marks'))
      BY <1>1, <3>1, OneMore, ZenonT(40)
    <3>. QED
      BY <1>1, <2>9, <3>2, SeenIsOpen DEF Colon, Owed, ValStates, StrStates
  <2>10. CASE Idles(rd, ch, d)
    <3>1. CASE ch \in Marked
      <4>1. marks' = Append(m, ch) /\ ch \in MarkSet /\ ch \notin Values /\ ch \notin Enders
        BY <2>4, <2>10, <2>b, <3>1 DEF Idles, Marked, StrStates, Values, Enders
      <4>2. /\ marks' \in Seq(MarkSet) /\ ValuesFine(marks')
            /\ KeyOpen(m) => KeyOpen(marks')
            /\ ColonSeen(m) => ColonSeen(marks')
        BY <1>1, <4>1, OneMore, ZenonT(40)
      <4>. QED
        BY <1>1, <2>10, <4>2 DEF Idles, Owed, ValStates, StrStates
    <3>2. CASE ch \notin Marked
      <4>1. marks' = m
        BY <2>10, <2>a, <3>2 DEF Idles
      <4>. QED
        BY <1>1, <2>10, <4>1 DEF Idles, Owed, ValStates, StrStates
    <3>. QED
      BY <3>1, <3>2
  <2>11. CASE ValueStarts(rd, ch, d)
    <3>1. marks' = m
      BY <2>11, <2>a DEF ValueStarts
    <3>. QED
      BY <1>1, <2>11, <3>1 DEF ValueStarts, Owed, SameFlags, ValStates, StrStates
  <2>12. CASE KeyStarts(rd, ch, d)
    <3>1. marks' = m
      BY <2>12, <2>a DEF KeyStarts
    <3>. QED
      BY <1>1, <2>12, <3>1 DEF KeyStarts, Owed, ValStates, StrStates
  <2>13. CASE GoesOn(rd, ch, d)
    <3>1. CASE ch \in Marked /\ rd.st \notin StrStates
      <4>1. marks' = Append(m, ch) /\ ch \in MarkSet /\ ch \notin Values /\ ch \notin Enders
        BY <2>4, <2>13, <2>b, <3>1 DEF GoesOn, Marked, Values, Enders
      <4>2. ColonSeen(m) /\ d.st # "key"
        BY <1>1, <2>1, <2>13, <3>1 DEF GoesOn, Owed, IsCtx, States
      <4>3. marks' \in Seq(MarkSet) /\ ValuesFine(marks') /\ ColonSeen(marks')
        BY <1>1, <4>1, <4>2, OneMore, ZenonT(40)
      <4>. QED
        BY <4>2, <4>3, SeenIsOpen DEF Owed
    <3>2. CASE ~(ch \in Marked /\ rd.st \notin StrStates)
      <4>1. marks' = m
        BY <2>13, <2>a, <3>2 DEF GoesOn
      <4>. QED
        BY <1>1, <2>13, <4>1 DEF GoesOn, Owed, SameFlags
    <3>. QED
      BY <3>1, <3>2
  <2>. QED
    BY <2>1, <2>5, <2>6, <2>7, <2>8, <2>9, <2>10, <2>11, <2>12, <2>13, ZenonT(40) DEF StepKind
<1>. QED
  BY <1>2, <1>3

(* MarksInv holds in every state, for any text and any buffer.             *)
THEOREM MarksInvariance == TextSpec => []MarksInv
<1>1. MarksInv /\ [TextNext]_textvars => MarksInv'
  <2>. SUFFICES ASSUME MarksInv, [TextNext]_textvars PROVE MarksInv'
    OBVIOUS
  <2>1. CASE TextNext
    BY <2>1, MarksFeed DEF TextNext
  <2>2. CASE UNCHANGED textvars
    BY <2>2 DEF textvars, MarksInv
  <2>. QED
    BY <2>1, <2>2
<1>. QED
  BY <1>1, MarksInit, PTL DEF TextSpec

(* Whatever the text, and whatever the room of str_out, a value that       *)
(* rdb_next reports belongs to a key of its line whose ':' came before it. *)
THEOREM ValuesHaveKeys == TextSpec => []ValueHasKey
<1>1. MarksInv => ValueHasKey
  <2>. SUFFICES ASSUME MarksInv, NEW k \in ValuesAt
                PROVE  \E i, j \in 1..(k - 1) : /\ i < j /\ marks[i] = "key" /\ marks[j] = ":"
                                               /\ {"\n", "key"} \cap Between(i, k) = {}
    BY DEF ValueHasKey
  <2>1. k \in 1..Len(marks) /\ ColonBefore(marks, k)
    BY DEF MarksInv, ValuesFine, ValuesAt
  <2>2. PICK i, j \in 1..(k - 1) : /\ i < j /\ marks[i] = "key" /\ marks[j] = ":"
                                   /\ \A n \in (i + 1)..(k - 1) : marks[n] \notin Enders
    BY <2>1 DEF ColonBefore
  <2>3. {"\n", "key"} \cap Between(i, k) = {}
    BY <2>2 DEF Between, Enders
  <2>. QED
    BY <2>2, <2>3
<1>. QED
  BY <1>1, MarksInvariance, PTL

(* The two buffers hold what was put in them.                              *)
IsBuf(c) ==
  /\ IsSeq(c.str) /\ Len(c.str) <= str_mlen
  /\ IsSeq(c.word) /\ Len(c.word) <= word_size

SameBuf(c, d) == d.str = c.str /\ d.word = c.word

(* Put checks the room first.                                              *)
LEMMA PutBuf ==
  ASSUME NEW c, Fields = DOMAIN c, IsBuf(c), NEW x
  PROVE  IsBuf(Put(c, x).c)
<1>1. CASE Len(c.str) < str_mlen
  <2>. DEFINE d == [c EXCEPT !.str = Append(@, x)]
  <2>1. Put(c, x).c = d
    BY <1>1 DEF Put, Ret
  <2>2. d.str = Append(c.str, x) /\ d.word = c.word
    BY DEF Fields
  <2>3. IsSeq(Append(c.str, x)) /\ Len(Append(c.str, x)) = Len(c.str) + 1 /\ Len(c.str) \in Nat
    BY SeqGrowsByOne DEF IsBuf
  <2>4. Len(c.str) + 1 <= str_mlen
    BY <1>1, <2>3, StrMlenAssumption
  <2>. HIDE DEF d
  <2>. QED
    BY <2>1, <2>2, <2>3, <2>4 DEF IsBuf
<1>2. CASE ~(Len(c.str) < str_mlen)
  BY <1>2 DEF Put, Syntax
<1>. QED
  BY <1>1, <1>2

(* The states of keys, strings and words keep the buffers within bounds.   *)
LEMMA KeyBuf ==
  ASSUME NEW c, Fields = DOMAIN c, IsBuf(c), NEW ch
  PROVE  IsBuf(next_key_(c, ch).c)
<1>1. IsBuf(Put(c, ch).c)
  BY PutBuf
<1>2. next_key_(c, ch) = Put(c, ch) \/ SameBuf(c, next_key_(c, ch).c)
  BY DEF next_key_, Ret, Syntax, SameBuf, Fields
<1>. QED
  BY <1>1, <1>2 DEF IsBuf, SameBuf

(* An escape is one character.                                             *)
LEMMA StrBuf ==
  ASSUME NEW c, Fields = DOMAIN c, IsBuf(c), NEW ch
  PROVE  IsBuf(next_str_(c, ch).c)
<1>. DEFINE e == [c EXCEPT !.is_escape = FALSE]
<1>2. Fields = DOMAIN e /\ IsBuf(e)
  BY DEF Fields, IsBuf
<1>3. IsBuf(Put(c, ch).c)
  BY PutBuf
<1>4. IsBuf(Put(e, escape_ch_(ch)).c)
  <2>. HIDE DEF e
  <2>. QED
    BY <1>2, PutBuf
<1>5. SameBuf(c, StrEnd(c).c)
  BY DEF StrEnd, Ret, Syntax, SameBuf, Fields
<1>6. \/ next_str_(c, ch) \in {Put(c, ch), Put(e, escape_ch_(ch)), StrEnd(c)}
      \/ SameBuf(c, next_str_(c, ch).c)
  BY DEF next_str_, Ret, Syntax, SameBuf, Fields
<1>. HIDE DEF e
<1>. QED
  BY <1>3, <1>4, <1>5, <1>6 DEF IsBuf, SameBuf

(* The newline before '>' only makes the string shorter.                   *)
LEMMA LongStrBuf ==
  ASSUME NEW c, Fields = DOMAIN c, IsBuf(c), NEW ch
  PROVE  IsBuf(next_long_str_(c, ch).c)
<1>. DEFINE put == [c EXCEPT !.is_escape = FALSE, !.skip_whitespace = FALSE]
            e == [put EXCEPT !.keep_last_newline = (escape_ch_(ch) = "\n")]
            f == [put EXCEPT !.keep_last_newline = FALSE]
            t == WithoutNewline(c)
<1>2. Fields = DOMAIN e /\ SameBuf(c, e) /\ Fields = DOMAIN f /\ SameBuf(c, f)
  BY DEF Fields, SameBuf
<1>3. IsBuf(Put(f, ch).c) /\ IsBuf(Put(e, escape_ch_(ch)).c)
  <2>1. IsBuf(e) /\ IsBuf(f)
    BY <1>2, Zenon DEF SameBuf, IsBuf
  <2>. HIDE DEF e, f
  <2>. QED
    BY <1>2, <2>1, PutBuf, Zenon
<1>4. Fields = DOMAIN t /\ IsBuf(t)
  <2>1. CASE Len(c.str) > 0
    <3>. DEFINE front == SubSeq(c.str, 1, Len(c.str) - 1)
    <3>1. IsSeq(front) /\ Len(front) <= str_mlen
      <4>1. PICK S : c.str \in Seq(S)
        BY DEF IsBuf, IsSeq
      <4>2. front \in Seq(S) /\ Len(front) = Len(c.str) - 1 /\ Len(c.str) \in Nat
        BY <2>1, <4>1
      <4>. HIDE DEF front
      <4>3. Len(front) <= str_mlen
        BY <4>2, StrMlenAssumption DEF IsBuf
      <4>. QED
        BY <4>2, <4>3, Zenon DEF IsSeq
    <3>2. t = [c EXCEPT !.str = front] \/ t = c
      BY DEF WithoutNewline
    <3>. HIDE DEF front
    <3>. QED
      BY <3>1, <3>2 DEF IsBuf, Fields
  <2>2. CASE ~(Len(c.str) > 0)
    BY <2>2 DEF WithoutNewline
  <2>. QED
    BY <2>1, <2>2
<1>5. SameBuf(t, StrEnd(t).c)
  <2>. HIDE DEF t
  <2>. QED
    BY <1>4 DEF StrEnd, Ret, Syntax, SameBuf, Fields
<1>6. \/ next_long_str_(c, ch) \in {Put(f, ch), Put(e, escape_ch_(ch)), StrEnd(t)}
      \/ SameBuf(c, next_long_str_(c, ch).c)
  BY DEF next_long_str_, Ret, Syntax, SameBuf, Fields
<1>. HIDE DEF e, f, t
<1>. QED
  BY <1>3, <1>4, <1>5, <1>6 DEF IsBuf, SameBuf

(* next_bool_ has a buffer of its own.                                     *)
LEMMA BoolBuf ==
  ASSUME NEW c, Fields = DOMAIN c, IsBuf(c), NEW ch
  PROVE  IsBuf(next_bool_(c, ch).c)
<1>. DEFINE d == [c EXCEPT !.word = Append(@, ch)]
<1>1. Len(c.word) < word_size => IsBuf(d)
  <2>1. d.str = c.str /\ d.word = Append(c.word, ch)
    BY DEF Fields
  <2>2. IsSeq(Append(c.word, ch)) /\ Len(Append(c.word, ch)) = Len(c.word) + 1 /\ Len(c.word) \in Nat
    BY SeqGrowsByOne DEF IsBuf
  <2>. HIDE DEF d
  <2>. QED
    BY <2>1, <2>2 DEF IsBuf, word_size
<1>2. \/ SameBuf(c, next_bool_(c, ch).c)
      \/ next_bool_(c, ch).c = d /\ Len(c.word) < word_size
  BY DEF next_bool_, PlainEnd, Ret, Syntax, SameBuf, Fields
<1>. HIDE DEF d
<1>. QED
  BY <1>1, <1>2 DEF IsBuf, SameBuf

(* A number touches neither buffer.                                        *)
LEMMA NumBuf ==
  ASSUME NEW c, IsCtx(c), NEW ch
  PROVE  SameBuf(c, next_num_(c, ch).c)
<1>f. Fields = DOMAIN c
  BY DEF IsCtx
<1>1. SameBuf(c, next_num_int_(c, ch).c)
  BY <1>f DEF next_num_int_, ToExp, PlainEnd, Ret, Syntax, SameBuf, Fields
<1>2. SameBuf(c, next_num_frac_(c, ch).c)
  BY <1>f DEF next_num_frac_, ToExp, PlainEnd, Ret, Syntax, SameBuf, Fields
<1>3. SameBuf(c, next_num_exp_(c, ch).c)
  BY <1>f, ZenonT(40) DEF next_num_exp_, PlainEnd, Ret, Syntax, SameBuf, Fields
<1>. QED
  BY <1>1, <1>2, <1>3 DEF next_num_, IsCtx

(* next_idle_ starts every key and value with empty buffers.               *)
LEMMA IdleBuf ==
  ASSUME NEW c, Incomplete(c), IsBuf(c), NEW ch
  PROVE  IsBuf(next_idle_(c, ch).c)
<1>. DEFINE num == Enter(c, "num")
            str == Enter(c, "str")
            long == Enter(c, "long_str")
            bool == Enter(c, "bool")
            key == EnterKey(c)
<1>f. Fields = DOMAIN c
  BY DEF Incomplete, IsCtx
<1>0. IsSeq(<<>>) /\ Len(<<>>) <= str_mlen /\ Len(<<>>) <= word_size
  BY StrMlenAssumption, EmptySeq DEF word_size, IsSeq
<1>1. ASSUME NEW st PROVE Fields = DOMAIN Enter(c, st) /\ IsBuf(Enter(c, st))
  <2>1. Fields = DOMAIN Enter(c, st) /\ Enter(c, st).str = <<>> /\ Enter(c, st).word = <<>>
    BY <1>f DEF Enter, Fields
  <2>. QED
    BY <1>0, <2>1 DEF IsBuf
<1>2. Fields = DOMAIN key /\ IsBuf(key)
  <2>1. Fields = DOMAIN key /\ key.str = <<>> /\ key.word = c.word
    BY <1>f, ZenonT(40) DEF EnterKey, Fields
  <2>. HIDE DEF key
  <2>. QED
    BY <1>0, <2>1 DEF IsBuf
<1>3. IsBuf(next_num_(num, ch).c)
  <2>1. IsCtx(num)
    BY EnterKeeps DEF ValStates, Incomplete
  <2>2. SameBuf(num, next_num_(num, ch).c)
    BY <2>1, NumBuf
  <2>. QED
    BY <1>1, <2>2 DEF SameBuf, IsBuf
<1>4. IsBuf(next_bool_(bool, ch).c)
  <2>1. Fields = DOMAIN bool /\ IsBuf(bool)
    BY <1>1, ZenonT(40)
  <2>. HIDE DEF bool
  <2>. QED
    BY <2>1, BoolBuf
<1>5. IsBuf(next_key_(key, ch).c)
  <2>. HIDE DEF key
  <2>. QED
    BY <1>2, KeyBuf
<1>6. \/ next_idle_(c, ch) \in {next_num_(num, ch), next_bool_(bool, ch), next_key_(key, ch), Ret(str), Ret(long)}
      \/ SameBuf(c, next_idle_(c, ch).c)
  <2>1. SameBuf(c, Syntax(c).c)
    BY DEF SameBuf, Syntax
  <2>2. CASE IsDigit(ch)
    <3>1. ch \notin {":", "\"", "<", ",", "\n", "NUL", " ", "\t"}
      BY <2>2, DigitChars DEF IsDigit
    <3>2. next_idle_(c, ch) \in {next_num_(num, ch), Syntax(c)}
      BY <2>2, <3>1 DEF next_idle_
    <3>. QED
      BY <2>1, <3>2
  <2>3. CASE ~IsDigit(ch) /\ ch \in {"-", "+", "."}
    <3>1. next_idle_(c, ch) \in {next_num_(num, ch), Syntax(c)}
      BY <2>3 DEF next_idle_
    <3>. QED
      BY <2>1, <3>1
  <2>4. CASE ~IsDigit(ch) /\ ch \in {"\"", "<"}
    <3>1. next_idle_(c, ch) \in {Ret(str), Ret(long), Syntax(c)}
      BY <2>4 DEF next_idle_
    <3>. QED
      BY <2>1, <3>1
  <2>5. CASE ~IsDigit(ch) /\ ch \in {":", ",", "\n", "NUL", " ", "\t"}
    BY <1>f, <2>5 DEF next_idle_, LineEnd, Ret, Syntax, SameBuf, Fields
  <2>6. CASE ~IsDigit(ch) /\ ch \notin {"-", "+", ".", "\"", "<", ":", ",", "\n", "NUL", " ", "\t"}
    <3>1. next_idle_(c, ch) \in {next_key_(key, ch), next_bool_(bool, ch), Syntax(c)}
      BY <2>6 DEF next_idle_
    <3>. QED
      BY <2>1, <3>1
  <2>. QED
    BY <2>2, <2>3, <2>4, <2>5, <2>6
<1>7. Ret(str).c = str /\ Ret(long).c = long
  BY DEF Ret
<1>. QED
  BY <1>1, <1>3, <1>4, <1>5, <1>6, <1>7, ZenonT(40) DEF IsBuf, SameBuf

(* So does every rdb_next, also the one that refuses the text.             *)
LEMMA NextBuf ==
  ASSUME NEW ctx, IsCtx(ctx), IsBuf(ctx), NEW ch
  PROVE  IsBuf(rdb_next(ctx, ch).c)
<1>. DEFINE c == [ctx EXCEPT !.ty = "incomplete"]
<1>1. Incomplete(c) /\ Fields = DOMAIN c /\ IsBuf(c)
  BY DEF Incomplete, IsCtx, Fields, IsBuf
<1>2. rdb_next(ctx, ch) = CASE c.st = "idle" -> next_idle_(c, ch)
                            [] c.st = "key" -> next_key_(c, ch)
                            [] c.st = "str" -> next_str_(c, ch)
                            [] c.st = "long_str" -> next_long_str_(c, ch)
                            [] c.st = "num" -> next_num_(c, ch)
                            [] c.st = "bool" -> next_bool_(c, ch)
  BY Zenon DEF rdb_next
<1>. HIDE DEF c
<1>3. c.st \in {"idle", "key", "str", "long_str", "num", "bool"}
  BY <1>1 DEF Incomplete, IsCtx, States, ValStates, StrStates
<1>4. IsBuf(next_num_(c, ch).c)
  BY <1>1, NumBuf DEF Incomplete, SameBuf, IsBuf
<1>. QED
  BY <1>1, <1>2, <1>3, <1>4, IdleBuf, KeyBuf, StrBuf, LongStrBuf, BoolBuf, ZenonT(40)

(* The buffers are empty at first.                                         *)
LEMMA InitBuf == IsBuf(rdb_init)
<1>1. IsSeq(<<>>) /\ Len(<<>>) <= str_mlen /\ Len(<<>>) <= word_size
  BY StrMlenAssumption, EmptySeq DEF word_size, IsSeq
<1>. QED
  BY <1>1 DEF rdb_init, IsBuf

(* Whatever the text, rdb.c writes no character past the end of str_out or *)
(* of its buffer for a word.                                               *)
THEOREM BuffersNeverOverflow == TextSpec => []BuffersHold
<1>1. TextInit => IsBuf(rd)
  BY InitBuf, Zenon DEF TextInit
<1>2. IsBuf(rd) /\ MarksInv /\ [TextNext]_textvars => IsBuf(rd)'
  <2>. SUFFICES ASSUME IsBuf(rd), MarksInv, [TextNext]_textvars PROVE IsBuf(rd)'
    OBVIOUS
  <2>1. ASSUME NEW ch \in Alphabet, Feed(ch) PROVE IsBuf(rd')
    BY <2>1, NextBuf, ZenonT(40) DEF Feed, MarksInv
  <2>2. CASE UNCHANGED textvars
    BY <2>2 DEF textvars, IsBuf
  <2>. QED
    BY <2>1, <2>2 DEF TextNext, IsBuf
<1>3. IsBuf(rd) => BuffersHold
  BY DEF IsBuf, BuffersHold
<1>. QED
  BY <1>1, <1>2, <1>3, MarksInvariance, PTL DEF TextSpec

-----------------------------------------------------------------------------
(***************************************************************************)
(* The value of a number                                                   *)
(***************************************************************************)
(* The digits                                                              *)
LEMMA DigitIs ==
  ASSUME NEW q \in 0..9
  PROVE  IsDigit(digit[q + 1]) /\ DigitOf(digit[q + 1]) = q /\ (digit[q + 1] = "0" <=> q = 0)
<1>1. \A k \in 0..9 : digit[k + 1] = digit[q + 1] => k = q
  BY DEF digit
<1>2. DigitOf(digit[q + 1]) = q
  <2> DEFINE P(k) == k \in 0..9 /\ digit[k + 1] = digit[q + 1]
  <2>1. P(q)
    OBVIOUS
  <2>2. DigitOf(digit[q + 1]) = CHOOSE k \in 0..9 : digit[k + 1] = digit[q + 1]
    BY Zenon DEF DigitOf
  <2>3. LET k == CHOOSE k \in 0..9 : digit[k + 1] = digit[q + 1] IN k \in 0..9 /\ digit[k + 1] = digit[q + 1]
    BY Zenon
  <2> QED
    BY <1>1, <2>2, <2>3, Zenon
<1>3. q + 1 \in DOMAIN digit
  BY DEF digit
<1>4. IsDigit(digit[q + 1])
  BY <1>3, Zenon DEF IsDigit, Chars
<1>5. digit[q + 1] = "0" <=> q = 0
  BY DEF digit
<1> QED
  BY <1>2, <1>4, <1>5, ZenonT(40)

(* The value with one more character                                       *)
Scaled(v, ch) == IF IsDigit(ch) THEN 10 * v + DigitOf(ch) ELSE v

(* f[k] is the value of the first k characters of s.                       *)
IsValue(f, s, N) ==
  /\ ValueOf(s) = f[N] /\ f[0] = 0
  /\ \A k \in 1..N : f[k] = Scaled(f[k - 1], s[k])

(* The recursion of ValueOf, unfolded                                      *)
LEMMA ValueIs ==
  ASSUME NEW s, NEW N \in Nat, Len(s) = N
  PROVE  \E f : IsValue(f, s, N)
<1> USE ZenonT(40)
<1> DEFINE Q(g, n) == g = [k \in 0..n |-> IF k = 0 THEN 0
                                          ELSE IF IsDigit(s[k]) THEN 10 * g[k - 1] + DigitOf(s[k]) ELSE g[k - 1]]
           P(g, n) == g = [k \in 0..n |-> IF k = 0 THEN 0 ELSE Scaled(g[k - 1], s[k])]
           T == {n \in 0..N : \E g : P(g, n)}
<1>1. 0 \in T
  <2> DEFINE g == [k \in 0..0 |-> 0]
  <2>1. P(g, 0)
    BY SMT
  <2>2. 0 \in 0..N
    BY SMT
  <2> HIDE DEF P, g
  <2> QED
    BY <2>1, <2>2
<1>2. ASSUME NEW n \in 0..(N - 1), n \in T PROVE n + 1 \in T
  <2>1. PICK g : P(g, n)
    <3> HIDE DEF P
    <3> QED BY <1>2
  <2> DEFINE h == [k \in 0..(n + 1) |-> IF k = n + 1 THEN Scaled(g[n], s[n + 1]) ELSE g[k]]
  <2>2. \A k \in 0..n : g[k] = (IF k = 0 THEN 0 ELSE Scaled(g[k - 1], s[k])) /\ h[k] = g[k]
    <3>1. \A k \in 0..n : k \in 0..(n + 1) /\ k # n + 1
      BY <1>2, SMT
    <3>2. \A k \in 0..n : g[k] = (IF k = 0 THEN 0 ELSE Scaled(g[k - 1], s[k]))
      BY <2>1
    <3>3. \A k \in 0..n : h[k] = g[k]
      BY <3>1
    <3> QED
      BY <3>2, <3>3
  <2>3. n + 1 \in 0..(n + 1) /\ h[n + 1] = Scaled(g[n], s[n + 1])
    BY <1>2, SMT
  <2>4. ASSUME NEW k \in 0..(n + 1) PROVE h[k] = IF k = 0 THEN 0 ELSE Scaled(h[k - 1], s[k])
    <3>1. CASE k = n + 1
      <4>1. k # 0 /\ k - 1 = n /\ n \in 0..n
        BY <1>2, <3>1, SMT
      <4>2. h[n] = g[n]
        BY <2>2, <4>1
      <4> HIDE DEF h
      <4>3. h[k] = Scaled(h[k - 1], s[k])
        BY <2>3, <3>1, <4>1, <4>2
      <4> QED
        BY <4>1, <4>3
    <3>2. CASE k = 0
      <4>1. 0 \in 0..n
        BY <1>2, SMT
      <4> HIDE DEF h
      <4> QED
        BY <2>2, <3>2, <4>1
    <3>3. CASE k # 0 /\ k # n + 1
      <4>1. k \in 0..n /\ k - 1 \in 0..n
        BY <1>2, <3>3, SMT
      <4> HIDE DEF h
      <4> QED
        BY <2>2, <3>3, <4>1
    <3> QED
      BY <3>1, <3>2, <3>3
  <2>5. P(h, n + 1)
    <3>1. h = [k \in 0..(n + 1) |-> h[k]]
      BY SMT
    <3> HIDE DEF h
    <3> QED
      BY <2>4, <3>1
  <2>6. n + 1 \in 0..N
    BY <1>2, SMT
  <2> HIDE DEF P, h
  <2> QED
    BY <2>5, <2>6
<1>3. N \in T
  <2>1. N \in 0..N
    BY SMT
  <2> HIDE DEF T
  <2> QED
    BY <1>1, <1>2, <2>1, UpTo
<1>4. PICK g : P(g, N)
  <2> HIDE DEF P
  <2> QED BY <1>3
<1>5. Q(g, N)
  BY <1>4 DEF Scaled
<1> DEFINE f == CHOOSE h : Q(h, N)
<1>6. Q(f, N)
  <2> HIDE DEF Q
  <2> QED
    BY <1>5
<1>7. ValueOf(s) = f[N]
  BY DEF ValueOf
<1> HIDE DEF f
<1>8. \A k \in 0..N : f[k] = IF k = 0 THEN 0 ELSE Scaled(f[k - 1], s[k])
  BY <1>6 DEF Scaled
<1>9. f[0] = 0 /\ \A k \in 1..N : f[k] = Scaled(f[k - 1], s[k])
  <2>1. 0 \in 0..N /\ \A k \in 1..N : k \in 0..N /\ k # 0
    BY SMT
  <2> QED
    BY <1>8, <2>1
<1> QED
  BY <1>7, <1>9 DEF IsValue

(* A digit more                                                            *)
LEMMA ValueGrows ==
  ASSUME NEW s, IsSeq(s), NEW ch
  PROVE  ValueOf(Append(s, ch)) = Scaled(ValueOf(s), ch)
<1> DEFINE t == Append(s, ch)
           N == Len(s)
<1>1. N \in Nat /\ Len(t) = N + 1 /\ t[N + 1] = ch /\ \A k \in 1..N : t[k] = s[k]
  BY DEF IsSeq
<1>2. PICK f : IsValue(f, s, N)
  BY <1>1, ValueIs
<1> HIDE DEF t, N
<1>3. PICK g : IsValue(g, t, N + 1)
  BY <1>1, ValueIs
<1>a. N = Len(s) /\ t = Append(s, ch)
  BY DEF N, t
<1> DEFINE T == {k \in 0..N : f[k] = g[k]}
<1>4. 0 \in T
  <2>1. 0 \in 0..N
    BY <1>1
  <2> QED
    BY <1>2, <1>3, <2>1, Zenon DEF IsValue
<1>5. ASSUME NEW n \in 0..(N - 1), n \in T PROVE n + 1 \in T
  <2>1. n + 1 \in 1..N /\ n + 1 \in 1..(N + 1) /\ n + 1 \in 0..N /\ (n + 1) - 1 = n
    BY <1>1, <1>5
  <2>2. f[n + 1] = Scaled(f[n], s[n + 1]) /\ g[n + 1] = Scaled(g[n], t[n + 1]) /\ t[n + 1] = s[n + 1]
    BY <1>1, <1>2, <1>3, <2>1, Zenon DEF IsValue
  <2> QED
    BY <1>5, <2>1, <2>2, Zenon
<1>6. N \in T
  <2>1. N \in 0..N
    BY <1>1
  <2> HIDE DEF T
  <2> QED
    BY <1>1, <1>4, <1>5, <2>1, UpTo, Zenon
<1>7. N + 1 \in 1..(N + 1) /\ (N + 1) - 1 = N
  BY <1>1
<1> QED
  BY <1>a, <1>1, <1>2, <1>3, <1>6, <1>7, Zenon DEF IsValue

(* No digit                                                                *)
LEMMA ValueNone == ValueOf(<<>>) = 0
<1>1. PICK f : IsValue(f, <<>>, 0)
  BY ValueIs
<1> QED
  BY <1>1, Zenon DEF IsValue

(* A character more                                                        *)
LEMMA CharsGrow ==
  ASSUME NEW s, IsSeq(s), NEW ch
  PROVE  Chars(Append(s, ch)) = Chars(s) \cup {ch}
<1> DEFINE t == Append(s, ch)
           N == Len(s)
<1>1. /\ N \in Nat /\ DOMAIN s = 1..N /\ DOMAIN t = 1..(N + 1)
      /\ t[N + 1] = ch /\ \A k \in 1..N : t[k] = s[k]
  BY DEF IsSeq
<1>2. \A k \in 1..(N + 1) : k \in 1..N \/ k = N + 1
  BY <1>1
<1>3. N + 1 \in 1..(N + 1) /\ \A k \in 1..N : k \in 1..(N + 1)
  BY <1>1
<1> HIDE DEF t, N
<1>4. \A x : x \in Chars(t) <=> x \in Chars(s) \/ x = ch
  BY <1>1, <1>2, <1>3, Zenon DEF Chars
<1>5. Chars(t) = Chars(s) \cup {ch}
  BY <1>4
<1> QED
  BY <1>5 DEF t

(* The first of the places of ch                                           *)
LEMMA FirstIs ==
  ASSUME NEW s, IsSeq(s), NEW ch, ch \in Chars(s)
  PROVE  First(s, ch) \in DOMAIN s /\ IsFirst(s, ch, First(s, ch))
<1> DEFINE T == {k \in DOMAIN s : s[k] = ch}
<1>1. Len(s) \in Nat /\ DOMAIN s = 1..Len(s)
  BY DEF IsSeq
<1>2. T \subseteq Nat /\ T # {}
  BY <1>1 DEF Chars
<1>3. PICK k \in T : \A j \in T : k <= j
  <2> HIDE DEF T
  <2> QED BY <1>2, NatMin, Zenon
<1>4. \A j \in 1..(k - 1) : j \in DOMAIN s /\ ~(k <= j)
  BY <1>1, <1>3
<1>5. k \in DOMAIN s /\ IsFirst(s, ch, k)
  BY <1>3, <1>4, Zenon DEF IsFirst
<1> QED
  BY <1>5, Zenon DEF First

(* There is only one.                                                      *)
LEMMA FirstOnce ==
  ASSUME NEW s, IsSeq(s), NEW ch, NEW k \in DOMAIN s, IsFirst(s, ch, k)
  PROVE  First(s, ch) = k /\ ch \in Chars(s)
<1>1. ch \in Chars(s)
  BY Zenon DEF Chars, IsFirst
<1> DEFINE j == First(s, ch)
<1>2. j \in DOMAIN s /\ IsFirst(s, ch, j)
  BY <1>1, FirstIs, Zenon
<1>3. Len(s) \in Nat /\ DOMAIN s = 1..Len(s)
  BY DEF IsSeq
<1> HIDE DEF j
<1>4. j \in Nat /\ k \in Nat /\ (j < k => j \in 1..(k - 1)) /\ (k < j => k \in 1..(j - 1))
  BY <1>2, <1>3
<1>5. ~(j < k) /\ ~(k < j)
  BY <1>2, <1>4, Zenon DEF IsFirst
<1>6. j = k
  BY <1>4, <1>5
<1> QED
  BY <1>1, <1>6 DEF j

(* A part of s is one of what s grows to.                                  *)
LEMMA CutSame ==
  ASSUME NEW s, IsSeq(s), NEW x, NEW m \in 1..(Len(s) + 1), NEW n \in 0..Len(s)
  PROVE  SubSeq(Append(s, x), m, n) = SubSeq(s, m, n)
<1> DEFINE t == Append(s, x)
           u == SubSeq(s, m, n)
           v == SubSeq(t, m, n)
<1>0. PICK S : s \in Seq(S)
  BY DEF IsSeq
<1>1. Len(s) \in Nat /\ \A k \in 1..Len(s) : t[k] = s[k] /\ s[k] \in S
  BY <1>0, AppendIs
<1> HIDE DEF t
<1>2. m \in Int /\ n \in Int /\ \A i \in m..n : i \in 1..Len(s)
  BY <1>1
<1>3. \A i \in m..n : s[i] \in S /\ t[i] \in S
  BY <1>1, <1>2, Zenon
<1> DEFINE L == IF m <= n THEN n - m + 1 ELSE 0
<1>4. u \in Seq(S) /\ Len(u) = L /\ \A i \in 1..(n - m + 1) : u[i] = s[m + i - 1]
  <2>1. \A i \in m..n : s[i] \in S
    BY <1>3, Zenon
  <2> QED
    BY <1>2, <2>1, SubSeqProperties
<1>5. v \in Seq(S) /\ Len(v) = L /\ \A i \in 1..(n - m + 1) : v[i] = t[m + i - 1]
  <2>1. \A i \in m..n : t[i] \in S
    BY <1>3, Zenon
  <2> QED
    BY <1>2, <2>1, SubSeqProperties
<1>6. \A i \in 1..L : i \in 1..(n - m + 1) /\ m + i - 1 \in 1..Len(s)
  BY <1>1
<1> HIDE DEF u, v, L
<1>7. \A i \in 1..Len(u) : u[i] = v[i]
  BY <1>1, <1>4, <1>5, <1>6, Zenon
<1>8. u = v
  BY <1>4, <1>5, <1>7, SeqEqual, Zenon
<1> QED
  BY <1>8 DEF t, u, v

(* Its end grows with it.                                                  *)
LEMMA CutLonger ==
  ASSUME NEW s, IsSeq(s), NEW x, NEW m \in 1..(Len(s) + 1)
  PROVE  SubSeq(Append(s, x), m, Len(s) + 1) = Append(SubSeq(s, m, Len(s)), x)
<1> DEFINE t == Append(s, x)
           N == Len(s)
<1>0. PICK S : s \in Seq(S)
  BY DEF IsSeq
<1>1. N \in Nat /\ t \in Seq(S \cup {x}) /\ Len(t) = N + 1 /\ t[N + 1] = x
  BY <1>0
<1>2. SubSeq(t, m, N) = SubSeq(s, m, N)
  <2>1. N \in 0..N
    BY <1>1
  <2> QED
    BY <2>1, CutSame, Zenon
<1> DEFINE u == SubSeq(s, m, N)
<1>3. \A i \in m..N : s[i] \in S
  BY <1>0, <1>1
<1>4. u \in Seq(S)
  <2>1. m \in Int /\ N \in Int
    BY <1>1
  <2> QED
    BY <1>3, <2>1, SubSeqProperties, Zenon
<1>5. IsSeq(u)
  BY <1>4, Zenon DEF IsSeq
<1> HIDE DEF t, u, N
<1>6. m \in 1..Len(t) /\ N + 1 \in m..Len(t) /\ (N + 1) - 1 = N
  BY <1>1 DEF N
<1>7. SubSeq(t, m, N + 1) = SubSeq(t, m, (N + 1) - 1) \o <<t[N + 1]>>
  BY <1>1, <1>6, SubSeqRecursiveSecond, Zenon
<1>8. SubSeq(t, m, N + 1) = u \o <<x>>
  BY <1>1, <1>2, <1>6, <1>7, Zenon DEF u
<1>9. Append(u, x) = u \o <<x>>
  BY <1>5, AppendIs, Zenon
<1> QED
  BY <1>8, <1>9 DEF t, u, N

(* What stands before and after the first ch, when another character comes *)
LEMMA CutGrows ==
  ASSUME NEW s, IsSeq(s), NEW ch, NEW x
  PROVE  LET t == Append(s, x) IN
         /\ ch \in Chars(s) => Before(t, ch) = Before(s, ch) /\ After(t, ch) = Append(After(s, ch), x)
         /\ ch \notin Chars(s) /\ x = ch => Before(t, ch) = s /\ After(t, ch) = <<>>
         /\ ch \notin Chars(s) /\ x # ch => Before(t, ch) = t /\ After(t, ch) = <<>>
<1> USE ZenonT(40)
<1> DEFINE t == Append(s, x)
           N == Len(s)
<1>0. PICK S : s \in Seq(S)
  BY SMT DEF IsSeq
<1>1. /\ N \in Nat /\ DOMAIN s = 1..N /\ DOMAIN t = 1..(N + 1) /\ Len(t) = N + 1
      /\ t[N + 1] = x /\ \A k \in 1..N : t[k] = s[k]
  BY <1>0, SMT
<1>2. IsSeq(t) /\ t \in Seq(S \cup {x})
  BY <1>0, SMT DEF IsSeq
<1>3. Chars(t) = Chars(s) \cup {x}
  BY CharsGrow, SMT
<1>4. ASSUME ch \in Chars(s) PROVE Before(t, ch) = Before(s, ch) /\ After(t, ch) = Append(After(s, ch), x)
  <2> DEFINE k == First(s, ch)
  <2>1. k \in DOMAIN s /\ IsFirst(s, ch, k)
    BY <1>4, FirstIs
  <2> HIDE DEF k
  <2>2. k \in 1..N /\ k \in DOMAIN t /\ \A j \in 1..(k - 1) : j \in 1..N
    BY <1>1, <2>1, SMT
  <2>3. IsFirst(t, ch, k)
    BY <1>1, <2>1, <2>2 DEF IsFirst
  <2>4. First(t, ch) = k /\ ch \in Chars(t)
    BY <1>2, <2>2, <2>3, FirstOnce
  <2>5. SubSeq(t, 1, k - 1) = SubSeq(s, 1, k - 1)
    <3>1. 1 \in 1..(N + 1) /\ k - 1 \in 0..N
      BY <1>1, <2>2, SMT
    <3> QED
      BY <3>1, CutSame
  <2>6. SubSeq(t, k + 1, N + 1) = Append(SubSeq(s, k + 1, N), x)
    <3>1. k + 1 \in 1..(N + 1)
      BY <1>1, <2>2, SMT
    <3> QED
      BY <3>1, CutLonger
  <2>7. /\ Before(t, ch) = SubSeq(t, 1, k - 1) /\ Before(s, ch) = SubSeq(s, 1, k - 1)
        /\ After(t, ch) = SubSeq(t, k + 1, N + 1) /\ After(s, ch) = SubSeq(s, k + 1, N)
    BY <1>1, <1>4, <2>4 DEF Before, After, k
  <2> QED
    BY <2>5, <2>6, <2>7
<1>5. ASSUME ch \notin Chars(s), x = ch PROVE Before(t, ch) = s /\ After(t, ch) = <<>>
  <2>1. \A j \in 1..N : t[j] # ch
    BY <1>1, <1>5 DEF Chars
  <2>2. N + 1 \in DOMAIN t /\ (N + 1) - 1 = N
    BY <1>1, SMT
  <2>3. IsFirst(t, ch, N + 1)
    BY <1>1, <1>5, <2>1, <2>2 DEF IsFirst
  <2>4. First(t, ch) = N + 1 /\ ch \in Chars(t)
    BY <1>2, <2>2, <2>3, FirstOnce
  <2>5. SubSeq(t, 1, N) = s
    BY <1>0, <1>1, <1>2, SMT
  <2>6. SubSeq(t, (N + 1) + 1, N + 1) = <<>>
    BY <1>0, <1>1, <1>2, SMT
  <2>7. Before(t, ch) = SubSeq(t, 1, (N + 1) - 1) /\ After(t, ch) = SubSeq(t, (N + 1) + 1, N + 1)
    BY <1>1, <2>4 DEF Before, After
  <2> QED
    BY <2>2, <2>5, <2>6, <2>7
<1>6. ASSUME ch \notin Chars(s), x # ch PROVE Before(t, ch) = t /\ After(t, ch) = <<>>
  <2>1. ch \notin Chars(t)
    BY <1>3, <1>6, SMT
  <2> QED
    BY <2>1 DEF Before, After
<1> QED
  BY <1>4, <1>5, <1>6

(* Both parts are sequences.                                               *)
LEMMA CutSeq ==
  ASSUME NEW s, IsSeq(s), NEW ch
  PROVE  IsSeq(Before(s, ch)) /\ IsSeq(After(s, ch))
<1>0. PICK S : s \in Seq(S)
  BY DEF IsSeq
<1>1. IsSeq(<<>>)
  BY EmptySeq DEF IsSeq
<1>2. ASSUME ch \in Chars(s) PROVE IsSeq(Before(s, ch)) /\ IsSeq(After(s, ch))
  <2> DEFINE k == First(s, ch)
  <2>1. k \in 1..Len(s) /\ Len(s) \in Nat
    BY <1>0, <1>2, FirstIs
  <2> HIDE DEF k
  <2>2. SubSeq(s, 1, k - 1) \in Seq(S) /\ SubSeq(s, k + 1, Len(s)) \in Seq(S)
    BY <1>0, <2>1
  <2> QED
    BY <1>2, <2>2, Zenon DEF Before, After, IsSeq, k
<1> QED
  BY <1>1, <1>2, Zenon DEF Before, After

(* A digit scales what is in Nat.                                          *)
LEMMA ScaledIs ==
  ASSUME NEW v \in Nat, NEW ch
  PROVE  /\ IsDigit(ch) => Scaled(v, ch) = 10 * v + DigitOf(ch) /\ DigitOf(ch) \in Nat /\ Scaled(v, ch) \in Nat
         /\ ~IsDigit(ch) => Scaled(v, ch) = v
         /\ ch = "0" => Scaled(0, ch) = 0
<1>1. ASSUME IsDigit(ch) PROVE DigitOf(ch) \in 0..9 /\ (ch = "0" => DigitOf(ch) = 0)
  <2>1. PICK k \in DOMAIN digit : ch = digit[k]
    BY <1>1 DEF IsDigit, Chars
  <2>2. k - 1 \in 0..9 /\ (k - 1) + 1 = k
    BY <2>1 DEF digit
  <2>3. DigitOf(ch) = k - 1 /\ (ch = "0" <=> k - 1 = 0)
    BY <2>1, <2>2, DigitIs
  <2> QED
    BY <2>2, <2>3
<1>2. IsDigit("0")
  BY DigitChars DEF IsDigit
<1>3. IsDigit(ch) => Scaled(v, ch) = 10 * v + DigitOf(ch)
  BY Zenon DEF Scaled
<1>4. ~IsDigit(ch) => Scaled(v, ch) = v
  BY Zenon DEF Scaled
<1>5. ch = "0" => Scaled(0, ch) = 10 * 0 + DigitOf(ch)
  BY <1>2, Zenon DEF Scaled
<1> QED
  BY <1>1, <1>2, <1>3, <1>4, <1>5

(* A number has its fields.                                               *)
Typed(n) ==
  /\ NumFields = DOMAIN n /\ n.part \in {"int", "frac", "exp"}
  /\ n.mant \in Nat /\ n.fracs \in Nat /\ n.exp \in Nat /\ n.pos \in Nat
  /\ n.neg \in BOOLEAN /\ n.eneg \in BOOLEAN /\ n.got_sign \in BOOLEAN

(* What was read before the "e" is in mant, neg and fracs, what was read   *)
(* behind it in exp and eneg.                                              *)
Mantissa(b, n) == n.mant = ValueOf(b) /\ n.neg = ("-" \in Chars(b)) /\ n.fracs = Len(After(b, "."))

Exponent(x, n) == n.exp = ValueOf(x) /\ n.eneg = ("-" \in Chars(x))

(* The part tells which of the two is open, and pos, got_sign what it has. *)
OpenPart(s, n) ==
  /\ n.part = "exp" <=> "e" \in Chars(s)
  /\ n.part = "int" => "." \notin Chars(s) /\ (n.pos = 0 => n.mant = 0) /\ (n.got_sign = FALSE => n.neg = FALSE)
  /\ n.part = "frac" => "." \in Chars(s)
  /\ n.part = "exp" => (n.pos = 0 => n.exp = 0) /\ (n.got_sign = FALSE => n.eneg = FALSE)

(* The number n is what the text s denotes.                                *)
Denotes(s, n) ==
  IsSeq(s) /\ Typed(n) /\ Mantissa(Before(s, "e"), n) /\ Exponent(After(s, "e"), n) /\ OpenPart(s, n)

(* Before the "e" the whole text is the mantissa.                          *)
LEMMA BaseGrows ==
  ASSUME NEW s, NEW n, Denotes(s, n), n.part # "exp", NEW ch, ch # "e"
  PROVE  LET t == Append(s, ch) IN
         /\ IsSeq(t) /\ Before(t, "e") = t /\ After(t, "e") = <<>> /\ "e" \notin Chars(t)
         /\ Mantissa(s, n) /\ Exponent(<<>>, n)
         /\ ValueOf(t) = Scaled(n.mant, ch) /\ Chars(t) = Chars(s) \cup {ch}
         /\ n.fracs = Len(After(s, ".")) /\ IsSeq(After(s, "."))
<1> USE ZenonT(40)
<1> DEFINE t == Append(s, ch)
<1>1. IsSeq(s) /\ "e" \notin Chars(s) /\ Mantissa(Before(s, "e"), n) /\ Exponent(After(s, "e"), n)
  BY DEF Denotes, OpenPart
<1>2. Before(s, "e") = s /\ After(s, "e") = <<>>
  BY <1>1 DEF Before, After
<1>3. Chars(t) = Chars(s) \cup {ch}
  BY <1>1, CharsGrow, SMT
<1>4. "e" \notin Chars(t)
  BY <1>1, <1>3, SMT
<1>5. Before(t, "e") = t /\ After(t, "e") = <<>>
  BY <1>4 DEF Before, After
<1>6. ValueOf(t) = Scaled(ValueOf(s), ch)
  BY <1>1, ValueGrows
<1>7. IsSeq(t)
  BY <1>1, AppendIs
<1>8. Mantissa(s, n) /\ Exponent(<<>>, n)
  BY <1>1, <1>2
<1>9. n.mant = ValueOf(s) /\ n.fracs = Len(After(s, "."))
  BY <1>8 DEF Mantissa
<1>10. IsSeq(After(s, "."))
  BY <1>1, CutSeq
<1> QED
  BY <1>3, <1>4, <1>5, <1>6, <1>7, <1>8, <1>9, <1>10

(* A digit of the integer part                                             *)
LEMMA IntDigitRead ==
  ASSUME NEW s, NEW n, Denotes(s, n), n.part = "int", NEW ch, IsDigit(ch), NEW d,
         \/ n.pos = 0 /\ ch = "0" /\ d = [n EXCEPT !.got_int = TRUE]
         \/ d = [n EXCEPT !.got_int = TRUE, !.mant = 10 * n.mant + DigitOf(ch), !.pos = n.pos + 1]
  PROVE  Denotes(Append(s, ch), d)
<1> USE ZenonT(40)
<1> DEFINE t == Append(s, ch)
<1>1. ch \notin {"-", "+", ".", "e"}
  BY NumChars, SMT
<1>2. /\ IsSeq(t) /\ Before(t, "e") = t /\ After(t, "e") = <<>> /\ "e" \notin Chars(t)
      /\ Mantissa(s, n) /\ Exponent(<<>>, n)
      /\ ValueOf(t) = Scaled(n.mant, ch) /\ Chars(t) = Chars(s) \cup {ch}
  BY <1>1, BaseGrows, SMT
<1>3. Typed(n) /\ OpenPart(s, n) /\ IsSeq(s)
  BY DEF Denotes
<1>4. Len(After(t, ".")) = Len(After(s, "."))
  <2>1. "." \notin Chars(s) /\ "." \notin Chars(t)
    BY <1>1, <1>2, <1>3, SMT DEF OpenPart
  <2> QED
    BY <2>1 DEF After
<1> HIDE DEF t
<1>5. Scaled(n.mant, ch) = 10 * n.mant + DigitOf(ch) /\ DigitOf(ch) \in Nat /\ (ch = "0" => Scaled(0, ch) = 0)
  BY <1>3, ScaledIs, SMT DEF Typed
<1>6. /\ Typed(d) /\ d.part = "int" /\ d.neg = n.neg /\ d.eneg = n.eneg /\ d.exp = n.exp /\ d.fracs = n.fracs
      /\ d.got_sign = n.got_sign /\ d.mant = Scaled(n.mant, ch) /\ (d.pos = 0 => d.mant = 0)
  <2>1. n.pos = 0 => n.mant = 0
    BY <1>3 DEF OpenPart
  <2>2. CASE n.pos = 0 /\ ch = "0" /\ d = [n EXCEPT !.got_int = TRUE]
    <3>1. /\ NumFields = DOMAIN d /\ d.part = "int" /\ d.neg = n.neg /\ d.eneg = n.eneg /\ d.exp = n.exp
          /\ d.fracs = n.fracs /\ d.got_sign = n.got_sign /\ d.mant = n.mant /\ d.pos = n.pos
      BY <1>3, <2>2 DEF Typed, NumFields
    <3>2. n.mant = 0 /\ d.mant = Scaled(n.mant, ch)
      BY <1>5, <2>1, <2>2, <3>1
    <3>3. Typed(d)
      BY <1>3, <3>1 DEF Typed
    <3> QED
      BY <3>1, <3>2, <3>3
  <2>3. CASE d = [n EXCEPT !.got_int = TRUE, !.mant = 10 * n.mant + DigitOf(ch), !.pos = n.pos + 1]
    <3>1. /\ NumFields = DOMAIN d /\ d.part = "int" /\ d.neg = n.neg /\ d.eneg = n.eneg /\ d.exp = n.exp
          /\ d.fracs = n.fracs /\ d.got_sign = n.got_sign /\ d.mant = 10 * n.mant + DigitOf(ch) /\ d.pos = n.pos + 1
      BY <1>3, <2>3 DEF Typed, NumFields
    <3>2. d.mant \in Nat /\ d.pos \in Nat /\ d.pos # 0
      BY <1>3, <1>5, <3>1, SMT DEF Typed
    <3>3. Typed(d)
      BY <1>3, <3>1, <3>2 DEF Typed
    <3> QED
      BY <1>5, <3>1, <3>2, <3>3
  <2> QED
    BY <2>2, <2>3
<1>7. "-" \in Chars(t) <=> "-" \in Chars(s)
  BY <1>1, <1>2, SMT
<1>8. "." \notin Chars(t)
  BY <1>1, <1>2, <1>3, SMT DEF OpenPart
<1>9. Mantissa(t, d) /\ Exponent(<<>>, d)
  BY <1>2, <1>4, <1>6, <1>7, SMT DEF Mantissa, Exponent
<1>10. OpenPart(t, d)
  BY <1>2, <1>3, <1>6, <1>8, SMT DEF OpenPart
<1>11. Denotes(t, d)
  BY <1>2, <1>6, <1>9, <1>10 DEF Denotes
<1> QED
  BY <1>11, SMT DEF t

(* The sign                                                                *)
LEMMA IntSignRead ==
  ASSUME NEW s, NEW n, Denotes(s, n), n.part = "int", n.got_sign = FALSE, NEW ch \in {"-", "+"},
         NEW d, d = [n EXCEPT !.neg = (ch = "-"), !.got_sign = TRUE]
  PROVE  Denotes(Append(s, ch), d)
<1> DEFINE t == Append(s, ch)
<1>1. ~IsDigit(ch) /\ ch \notin {".", "e"}
  BY NumChars
<1>2. /\ IsSeq(t) /\ Before(t, "e") = t /\ After(t, "e") = <<>> /\ "e" \notin Chars(t)
      /\ Mantissa(s, n) /\ Exponent(<<>>, n)
      /\ ValueOf(t) = Scaled(n.mant, ch) /\ Chars(t) = Chars(s) \cup {ch}
  BY <1>1, BaseGrows
<1>3. Typed(n) /\ OpenPart(s, n) /\ IsSeq(s)
  BY Zenon DEF Denotes
<1>4. Scaled(n.mant, ch) = n.mant
  BY <1>1, <1>3, ScaledIs DEF Typed
<1>5. /\ NumFields = DOMAIN d /\ d.part = n.part /\ d.neg = (ch = "-") /\ d.eneg = n.eneg /\ d.exp = n.exp
      /\ d.fracs = n.fracs /\ d.got_sign = TRUE /\ d.mant = n.mant /\ d.pos = n.pos
  BY <1>3, Zenon DEF Typed, NumFields
<1>6. n.neg = FALSE /\ "." \notin Chars(s) /\ (n.pos = 0 => n.mant = 0)
  BY <1>3, Zenon DEF OpenPart
<1>7. "-" \notin Chars(s)
  BY <1>2, <1>6, Zenon DEF Mantissa
<1>8. "-" \in Chars(t) <=> ch = "-"
  BY <1>2, <1>7
<1>9. "." \notin Chars(t)
  BY <1>1, <1>2, <1>6
<1> HIDE DEF t
<1>10. Len(After(t, ".")) = Len(After(s, "."))
  BY <1>6, <1>9, Zenon DEF After
<1>11. Typed(d)
  <2>1. (ch = "-") \in BOOLEAN /\ TRUE \in BOOLEAN
    OBVIOUS
  <2> QED
    BY <1>3, <1>5, <2>1, Zenon DEF Typed
<1>12. Mantissa(t, d) /\ Exponent(<<>>, d)
  BY <1>2, <1>4, <1>5, <1>8, <1>10 DEF Mantissa, Exponent
<1>13. OpenPart(t, d)
  BY <1>2, <1>5, <1>6, <1>9 DEF OpenPart
<1>14. Denotes(t, d)
  BY <1>2, <1>11, <1>12, <1>13, Zenon DEF Denotes
<1> QED
  BY <1>14 DEF t

(* The point                                                               *)
LEMMA DotRead ==
  ASSUME NEW s, NEW n, Denotes(s, n), n.part = "int",
         NEW d, d = [n EXCEPT !.pos = 1, !.part = "frac"]
  PROVE  Denotes(Append(s, "."), d)
<1> DEFINE t == Append(s, ".")
<1>1. ~IsDigit(".")
  BY NumChars
<1>2. /\ IsSeq(t) /\ Before(t, "e") = t /\ After(t, "e") = <<>> /\ "e" \notin Chars(t)
      /\ Mantissa(s, n) /\ Exponent(<<>>, n)
      /\ ValueOf(t) = Scaled(n.mant, ".") /\ Chars(t) = Chars(s) \cup {"."}
  BY BaseGrows
<1>3. Typed(n) /\ OpenPart(s, n) /\ IsSeq(s)
  BY Zenon DEF Denotes
<1>4. Scaled(n.mant, ".") = n.mant
  BY <1>1, <1>3, ScaledIs DEF Typed
<1>5. /\ NumFields = DOMAIN d /\ d.part = "frac" /\ d.neg = n.neg /\ d.eneg = n.eneg /\ d.exp = n.exp
      /\ d.fracs = n.fracs /\ d.got_sign = n.got_sign /\ d.mant = n.mant /\ d.pos = 1
  BY <1>3, Zenon DEF Typed, NumFields
<1>6. "." \notin Chars(s)
  BY <1>3, Zenon DEF OpenPart
<1>7. "-" \in Chars(t) <=> "-" \in Chars(s)
  BY <1>2
<1>8. "." \in Chars(t)
  BY <1>2
<1>9. After(t, ".") = After(s, ".")
  <2>1. After(t, ".") = <<>>
    BY <1>3, <1>6, CutGrows
  <2>2. After(s, ".") = <<>>
    BY <1>6, Zenon DEF After
  <2> QED
    BY <2>1, <2>2, Zenon
<1> HIDE DEF t
<1>11. Typed(d)
  <2>1. 1 \in Nat
    OBVIOUS
  <2> QED
    BY <1>3, <1>5, <2>1, Zenon DEF Typed
<1>12. Mantissa(t, d) /\ Exponent(<<>>, d)
  BY <1>2, <1>4, <1>5, <1>7, <1>9 DEF Mantissa, Exponent
<1>13. OpenPart(t, d)
  BY <1>2, <1>5, <1>8 DEF OpenPart
<1>14. Denotes(t, d)
  BY <1>2, <1>11, <1>12, <1>13, Zenon DEF Denotes
<1> QED
  BY <1>14 DEF t

(* A digit of the fraction                                                 *)
LEMMA FracDigitRead ==
  ASSUME NEW s, NEW n, Denotes(s, n), n.part = "frac", NEW ch, IsDigit(ch),
         NEW d, d = [n EXCEPT !.mant = 10 * n.mant + DigitOf(ch), !.fracs = n.fracs + 1, !.pos = n.pos + 1]
  PROVE  Denotes(Append(s, ch), d)
<1> DEFINE t == Append(s, ch)
<1>1. ch \notin {"-", "+", ".", "e"}
  BY NumChars
<1>2. /\ IsSeq(t) /\ Before(t, "e") = t /\ After(t, "e") = <<>> /\ "e" \notin Chars(t)
      /\ Mantissa(s, n) /\ Exponent(<<>>, n)
      /\ ValueOf(t) = Scaled(n.mant, ch) /\ Chars(t) = Chars(s) \cup {ch}
      /\ n.fracs = Len(After(s, ".")) /\ IsSeq(After(s, "."))
  BY <1>1, BaseGrows
<1>3. Typed(n) /\ OpenPart(s, n) /\ IsSeq(s)
  BY Zenon DEF Denotes
<1>4. "." \in Chars(s) /\ "." \in Chars(t)
  BY <1>2, <1>3 DEF OpenPart
<1>5. Len(After(t, ".")) = n.fracs + 1
  <2>1. After(t, ".") = Append(After(s, "."), ch)
    BY <1>3, <1>4, CutGrows
  <2> DEFINE a == After(s, ".")
  <2>2. IsSeq(a)
    BY <1>2
  <2> HIDE DEF a
  <2>3. Len(Append(a, ch)) = Len(a) + 1
    BY <2>2, AppendIs, Zenon
  <2> QED
    BY <1>2, <2>1, <2>3, Zenon DEF a
<1>6. Scaled(n.mant, ch) = 10 * n.mant + DigitOf(ch) /\ DigitOf(ch) \in Nat
  BY <1>3, ScaledIs DEF Typed
<1>7. /\ NumFields = DOMAIN d /\ d.part = n.part /\ d.neg = n.neg /\ d.eneg = n.eneg /\ d.exp = n.exp
      /\ d.fracs = n.fracs + 1 /\ d.got_sign = n.got_sign /\ d.mant = 10 * n.mant + DigitOf(ch) /\ d.pos = n.pos + 1
  BY <1>3, Zenon DEF Typed, NumFields
<1>8. "-" \in Chars(t) <=> "-" \in Chars(s)
  BY <1>1, <1>2
<1> HIDE DEF t
<1>9. d.mant \in Nat /\ d.pos \in Nat /\ d.fracs \in Nat
  BY <1>3, <1>6, <1>7 DEF Typed
<1>10. Typed(d)
  BY <1>3, <1>7, <1>9, Zenon DEF Typed
<1>11. Mantissa(t, d) /\ Exponent(<<>>, d)
  BY <1>2, <1>5, <1>6, <1>7, <1>8 DEF Mantissa, Exponent
<1>12. OpenPart(t, d)
  BY <1>2, <1>4, <1>7 DEF OpenPart
<1>13. Denotes(t, d)
  BY <1>2, <1>10, <1>11, <1>12, Zenon DEF Denotes
<1> QED
  BY <1>13 DEF t

(* The "e"                                                                 *)
LEMMA ExpStarts ==
  ASSUME NEW s, NEW n, Denotes(s, n), n.part # "exp",
         NEW d, d = [n EXCEPT !.pos = 0, !.exp = 0, !.eneg = FALSE, !.got_sign = FALSE, !.got_int = FALSE, !.part = "exp"]
  PROVE  Denotes(Append(s, "e"), d)
<1> DEFINE t == Append(s, "e")
<1>1. IsSeq(s) /\ Typed(n) /\ "e" \notin Chars(s) /\ Mantissa(Before(s, "e"), n)
  BY Zenon DEF Denotes, OpenPart
<1>2. Before(s, "e") = s
  BY <1>1, Zenon DEF Before
<1>3. Before(t, "e") = s /\ After(t, "e") = <<>>
  BY <1>1, CutGrows
<1>4. Chars(t) = Chars(s) \cup {"e"}
  BY <1>1, CharsGrow
<1>5. "e" \in Chars(t)
  BY <1>4
<1>6. IsSeq(t)
  BY <1>1, AppendIs, Zenon
<1>7. /\ NumFields = DOMAIN d /\ d.part = "exp" /\ d.neg = n.neg /\ d.eneg = FALSE /\ d.exp = 0
      /\ d.fracs = n.fracs /\ d.got_sign = FALSE /\ d.mant = n.mant /\ d.pos = 0
  BY <1>1, Zenon DEF Typed, NumFields
<1> HIDE DEF t
<1>8. Typed(d)
  <2>1. 0 \in Nat /\ FALSE \in BOOLEAN
    OBVIOUS
  <2> QED
    BY <1>1, <1>7, <2>1, Zenon DEF Typed
<1>9. Mantissa(s, d)
  BY <1>1, <1>2, <1>7, Zenon DEF Mantissa
<1>10. Exponent(<<>>, d)
  <2>1. Chars(<<>>) = {}
    BY DEF Chars
  <2>2. "-" \notin Chars(<<>>)
    BY <2>1
  <2>3. FALSE = ("-" \in Chars(<<>>))
    BY <2>2
  <2> QED
    BY <1>7, <2>3, ValueNone, Zenon DEF Exponent
<1>11. OpenPart(t, d)
  BY <1>5, <1>7 DEF OpenPart
<1>12. Denotes(t, d)
  BY <1>3, <1>6, <1>8, <1>9, <1>10, <1>11, Zenon DEF Denotes
<1> QED
  BY <1>12 DEF t

(* Behind the "e" only the exponent grows.                                 *)
LEMMA ExpGrows ==
  ASSUME NEW s, NEW n, Denotes(s, n), n.part = "exp", NEW ch
  PROVE  LET t == Append(s, ch) IN
         /\ IsSeq(t) /\ "e" \in Chars(t) /\ Mantissa(Before(t, "e"), n)
         /\ ValueOf(After(t, "e")) = Scaled(n.exp, ch)
         /\ "-" \in Chars(After(t, "e")) <=> n.eneg \/ ch = "-"
<1> USE ZenonT(40)
<1> DEFINE t == Append(s, ch)
           x == After(s, "e")
<1>1. IsSeq(s) /\ Typed(n) /\ "e" \in Chars(s) /\ Mantissa(Before(s, "e"), n) /\ Exponent(x, n)
  BY DEF Denotes, OpenPart
<1>2. Before(t, "e") = Before(s, "e") /\ After(t, "e") = Append(x, ch)
  BY <1>1, CutGrows, SMT
<1>3. Chars(t) = Chars(s) \cup {ch}
  BY <1>1, CharsGrow, SMT
<1>4. "e" \in Chars(t)
  BY <1>1, <1>3, SMT
<1>5. IsSeq(t)
  BY <1>1, AppendIs
<1>6. IsSeq(x)
  BY <1>1, CutSeq
<1> HIDE DEF x, t
<1>7. ValueOf(Append(x, ch)) = Scaled(ValueOf(x), ch)
  BY <1>6, ValueGrows
<1>8. Chars(Append(x, ch)) = Chars(x) \cup {ch}
  BY <1>6, CharsGrow, SMT
<1>9. n.exp = ValueOf(x) /\ n.eneg = ("-" \in Chars(x))
  BY <1>1 DEF Exponent
<1>10. "-" \in Chars(Append(x, ch)) <=> "-" \in Chars(x) \/ ch = "-"
  BY <1>8, SMT
<1>11. "-" \in Chars(Append(x, ch)) <=> n.eneg \/ ch = "-"
  BY <1>9, <1>10
<1>12. ValueOf(After(t, "e")) = Scaled(n.exp, ch)
  BY <1>2, <1>7, <1>9
<1>13. "-" \in Chars(After(t, "e")) <=> n.eneg \/ ch = "-"
  BY <1>2, <1>11
<1>14. Mantissa(Before(t, "e"), n)
  BY <1>1, <1>2
<1>15. IsSeq(t) /\ "e" \in Chars(t) /\ Mantissa(Before(t, "e"), n)
  BY <1>4, <1>5, <1>14, SMT
<1> QED
  BY <1>12, <1>13, <1>15, SMT DEF t

(* A digit of the exponent                                                 *)
LEMMA ExpDigitRead ==
  ASSUME NEW s, NEW n, Denotes(s, n), n.part = "exp", NEW ch, IsDigit(ch), NEW d,
         \/ n.pos = 0 /\ ch = "0" /\ d = [n EXCEPT !.got_int = TRUE]
         \/ d = [n EXCEPT !.got_int = TRUE, !.exp = 10 * n.exp + DigitOf(ch), !.pos = n.pos + 1]
  PROVE  Denotes(Append(s, ch), d)
<1> USE ZenonT(40)
<1> DEFINE t == Append(s, ch)
<1>1. ch # "-"
  BY NumChars, SMT
<1>2. /\ IsSeq(t) /\ "e" \in Chars(t) /\ Mantissa(Before(t, "e"), n)
      /\ ValueOf(After(t, "e")) = Scaled(n.exp, ch)
      /\ "-" \in Chars(After(t, "e")) <=> n.eneg \/ ch = "-"
  BY ExpGrows
<1>3. Typed(n) /\ OpenPart(s, n)
  BY DEF Denotes
<1> HIDE DEF t
<1>4. Scaled(n.exp, ch) = 10 * n.exp + DigitOf(ch) /\ DigitOf(ch) \in Nat /\ (ch = "0" => Scaled(0, ch) = 0)
  BY <1>3, ScaledIs, SMT DEF Typed
<1>5. /\ Typed(d) /\ d.part = "exp" /\ d.neg = n.neg /\ d.eneg = n.eneg /\ d.mant = n.mant /\ d.fracs = n.fracs
      /\ d.got_sign = n.got_sign /\ d.exp = Scaled(n.exp, ch) /\ (d.pos = 0 => d.exp = 0)
  <2>1. n.pos = 0 => n.exp = 0
    BY <1>3 DEF OpenPart
  <2>2. CASE n.pos = 0 /\ ch = "0" /\ d = [n EXCEPT !.got_int = TRUE]
    <3>1. /\ NumFields = DOMAIN d /\ d.part = "exp" /\ d.neg = n.neg /\ d.eneg = n.eneg /\ d.exp = n.exp
          /\ d.fracs = n.fracs /\ d.got_sign = n.got_sign /\ d.mant = n.mant /\ d.pos = n.pos
      BY <1>3, <2>2 DEF Typed, NumFields
    <3>2. n.exp = 0 /\ d.exp = Scaled(n.exp, ch)
      BY <1>4, <2>1, <2>2, <3>1
    <3>3. Typed(d)
      BY <1>3, <3>1 DEF Typed
    <3> QED
      BY <3>1, <3>2, <3>3
  <2>3. CASE d = [n EXCEPT !.got_int = TRUE, !.exp = 10 * n.exp + DigitOf(ch), !.pos = n.pos + 1]
    <3>1. /\ NumFields = DOMAIN d /\ d.part = "exp" /\ d.neg = n.neg /\ d.eneg = n.eneg /\ d.mant = n.mant
          /\ d.fracs = n.fracs /\ d.got_sign = n.got_sign /\ d.exp = 10 * n.exp + DigitOf(ch) /\ d.pos = n.pos + 1
      BY <1>3, <2>3 DEF Typed, NumFields
    <3>2. d.exp \in Nat /\ d.pos \in Nat /\ d.pos # 0
      BY <1>3, <1>4, <3>1, SMT DEF Typed
    <3>3. Typed(d)
      BY <1>3, <3>1, <3>2 DEF Typed
    <3> QED
      BY <1>4, <3>1, <3>2, <3>3
  <2> QED
    BY <2>2, <2>3
<1>6. Mantissa(Before(t, "e"), d)
  BY <1>2, <1>5 DEF Mantissa
<1>7. n.eneg = ("-" \in Chars(After(t, "e")))
  BY <1>1, <1>2, <1>3, SMT DEF Typed
<1>8. Exponent(After(t, "e"), d)
  BY <1>2, <1>5, <1>7 DEF Exponent
<1>9. OpenPart(t, d)
  BY <1>2, <1>3, <1>5, SMT DEF OpenPart
<1>10. Denotes(t, d)
  BY <1>2, <1>5, <1>6, <1>8, <1>9 DEF Denotes
<1> QED
  BY <1>10, SMT DEF t

(* The sign of the exponent                                                *)
LEMMA ExpSignRead ==
  ASSUME NEW s, NEW n, Denotes(s, n), n.part = "exp", n.got_sign = FALSE, NEW ch \in {"-", "+"},
         NEW d, d = [n EXCEPT !.eneg = (ch = "-"), !.got_sign = TRUE]
  PROVE  Denotes(Append(s, ch), d)
<1> USE ZenonT(40)
<1> DEFINE t == Append(s, ch)
<1>1. ~IsDigit(ch)
  BY NumChars, SMT
<1>2. /\ IsSeq(t) /\ "e" \in Chars(t) /\ Mantissa(Before(t, "e"), n)
      /\ ValueOf(After(t, "e")) = Scaled(n.exp, ch)
      /\ "-" \in Chars(After(t, "e")) <=> n.eneg \/ ch = "-"
  BY ExpGrows
<1>3. Typed(n) /\ OpenPart(s, n)
  BY DEF Denotes
<1>4. Scaled(n.exp, ch) = n.exp
  BY <1>1, <1>3, ScaledIs, SMT DEF Typed
<1>5. n.eneg = FALSE /\ (n.pos = 0 => n.exp = 0)
  BY <1>3 DEF OpenPart
<1>6. /\ NumFields = DOMAIN d /\ d.part = n.part /\ d.neg = n.neg /\ d.eneg = (ch = "-") /\ d.exp = n.exp
      /\ d.fracs = n.fracs /\ d.got_sign = TRUE /\ d.mant = n.mant /\ d.pos = n.pos
  BY <1>3 DEF Typed, NumFields
<1> HIDE DEF t
<1>7. (ch = "-") = ("-" \in Chars(After(t, "e")))
  BY <1>2, <1>5, SMT
<1>8. Typed(d)
  <2>1. (ch = "-") \in BOOLEAN /\ TRUE \in BOOLEAN
    BY SMT
  <2> QED
    BY <1>3, <1>6, <2>1 DEF Typed
<1>9. Mantissa(Before(t, "e"), d)
  BY <1>2, <1>6 DEF Mantissa
<1>10. Exponent(After(t, "e"), d)
  BY <1>2, <1>4, <1>6, <1>7 DEF Exponent
<1>11. OpenPart(t, d)
  BY <1>2, <1>5, <1>6, SMT DEF OpenPart
<1>12. Denotes(t, d)
  BY <1>2, <1>8, <1>9, <1>10, <1>11 DEF Denotes
<1> QED
  BY <1>12, SMT DEF t

(* Nothing read yet                                                        *)
LEMMA NoNumRead == Denotes(<<>>, NoNum)
<1>1. IsSeq(<<>>) /\ Chars(<<>>) = {} /\ Len(<<>>) = 0
  BY EmptySeq DEF IsSeq, Chars
<1>2. "e" \notin Chars(<<>>) /\ "." \notin Chars(<<>>) /\ "-" \notin Chars(<<>>)
  BY <1>1
<1>3. Before(<<>>, "e") = <<>> /\ After(<<>>, "e") = <<>> /\ After(<<>>, ".") = <<>>
  BY <1>2, Zenon DEF Before, After
<1>4. /\ NumFields = DOMAIN NoNum /\ NoNum.part = "int" /\ NoNum.neg = FALSE /\ NoNum.eneg = FALSE /\ NoNum.exp = 0
      /\ NoNum.fracs = 0 /\ NoNum.got_sign = FALSE /\ NoNum.mant = 0 /\ NoNum.pos = 0
  BY DEF NoNum, NumFields
<1>5. FALSE = ("-" \in Chars(<<>>))
  BY <1>2
<1>6. Typed(NoNum)
  <2>1. 0 \in Nat /\ FALSE \in BOOLEAN
    OBVIOUS
  <2> QED
    BY <1>4, <2>1, Zenon DEF Typed
<1>7. Mantissa(<<>>, NoNum) /\ Exponent(<<>>, NoNum)
  BY <1>1, <1>3, <1>4, <1>5, ValueNone, Zenon DEF Mantissa, Exponent
<1>8. OpenPart(<<>>, NoNum)
  BY <1>2, <1>4 DEF OpenPart
<1> QED
  BY <1>1, <1>3, <1>6, <1>7, <1>8, Zenon DEF Denotes

(* What a character does to the number whose text s was read: the number   *)
(* goes on with it, ends before it, or there is no number.                 *)
NumGrows(s, ch, res) ==
  ch \in NumberChars /\ res.c.st = "num" /\ res.c.ty # "num" /\ Denotes(Append(s, ch), res.c.num)

NumEnds(n, ch, res) == ch \notin NumberChars /\ res.c.st = "idle" /\ res.c.num = n

NoNumber(ch, res) ==
  /\ res.c.ty # "num"
  /\ res.r = "syntax" \/ (res.c.st # "num" /\ (res.c.st = "idle" => ch \notin NumberChars))

(* The characters of a number are no separators.                           *)
LEMMA NumberCharsAre ==
  ASSUME NEW ch
  PROVE  /\ ch \in NumberChars <=> IsDigit(ch) \/ ch \in {"-", "+", ".", "e"}
         /\ is_separator_(ch) => ch \notin NumberChars
         /\ ch \in {":", " ", "\t", "\"", ">", "<", ",", "\n", "NUL"} => ch \notin NumberChars
<1> USE ZenonT(40)
<1>1. ch \in NumberChars <=> IsDigit(ch) \/ ch \in {"-", "+", ".", "e"}
  BY DEF NumberChars, IsDigit
<1>2. ch \in {":", " ", "\t", "\"", ">", "<", ",", "\n", "NUL"} => ch \notin NumberChars
  BY <1>1, DigitChars DEF IsDigit
<1> QED
  BY <1>1, <1>2 DEF is_separator_

(* next_num_ reads one more character of the number or ends it.            *)
LEMMA NumRead ==
  ASSUME NEW c, Incomplete(c), c.st = "num", NEW s, Denotes(s, c.num), NEW ch
  PROVE  LET res == next_num_(c, ch) IN NumGrows(s, ch, res) \/ NumEnds(c.num, ch, res) \/ NoNumber(ch, res)
<1> USE ZenonT(40)
<1> DEFINE n == c.num
           Outcome(res) == NumGrows(s, ch, res) \/ NumEnds(n, ch, res) \/ NoNumber(ch, res)
<1>1. Fields = DOMAIN c /\ c.ty = "incomplete" /\ n.part \in {"int", "frac", "exp"} /\ n.got_sign \in BOOLEAN
  BY DEF Incomplete, IsCtx, Denotes, Typed
<1>2. Outcome(Syntax(c))
  <2>1. Syntax(c).r = "syntax" /\ Syntax(c).c = c
    BY SMT DEF Syntax
  <2> QED
    BY <1>1, <2>1, SMT DEF NoNumber
<1>3. is_separator_(ch) => Outcome(PlainEnd(c, "num", ch))
  <2>1. PlainEnd(c, "num", ch).c.st = "idle" /\ PlainEnd(c, "num", ch).c.num = n
    BY <1>1 DEF PlainEnd, Fields
  <2> QED
    BY <2>1, NumberCharsAre DEF NumEnds
<1>4. ASSUME NEW d, d.st = c.st, d.ty = c.ty, ch \in NumberChars, Denotes(Append(s, ch), d.num)
      PROVE  Outcome(Ret(d))
  <2>1. Ret(d).c = d /\ d.ty # "num"
    BY <1>1, <1>4, SMT DEF Ret
  <2> QED
    BY <1>4, <2>1 DEF NumGrows
<1>5. IsDigit(ch) \/ ch \in {"-", "+", ".", "e"} => ch \in NumberChars
  BY NumberCharsAre
<1> HIDE DEF Outcome
<1>6. ch = "e" /\ n.part # "exp" => Outcome(ToExp(c))
  <2> DEFINE d == [c EXCEPT !.num.pos = 0, !.num.exp = 0, !.num.eneg = FALSE, !.num.got_sign = FALSE,
                            !.num.got_int = FALSE, !.num.part = "exp"]
  <2>1. /\ d.st = c.st /\ d.ty = c.ty
        /\ d.num = [n EXCEPT !.pos = 0, !.exp = 0, !.eneg = FALSE, !.got_sign = FALSE, !.got_int = FALSE, !.part = "exp"]
    BY <1>1 DEF Fields
  <2>2. ToExp(c) = Ret(d)
    BY SMT DEF ToExp
  <2> HIDE DEF d
  <2>3. ch = "e" /\ n.part # "exp" => Denotes(Append(s, ch), d.num)
    BY <2>1, ExpStarts
  <2> QED
    BY <1>4, <1>5, <2>1, <2>2, <2>3, SMT
<1>7. CASE n.part = "int"
  <2>1. IsDigit(ch) => Outcome(Ret([c EXCEPT !.num.got_int = TRUE, !.num.mant = 10 * @ + DigitOf(ch), !.num.pos = @ + 1]))
    <3> DEFINE d == [c EXCEPT !.num.got_int = TRUE, !.num.mant = 10 * @ + DigitOf(ch), !.num.pos = @ + 1]
    <3>1. /\ d.st = c.st /\ d.ty = c.ty
          /\ d.num = [n EXCEPT !.got_int = TRUE, !.mant = 10 * n.mant + DigitOf(ch), !.pos = n.pos + 1]
      BY <1>1 DEF Fields
    <3> HIDE DEF d
    <3>2. IsDigit(ch) => Denotes(Append(s, ch), d.num)
      BY <1>7, <3>1, IntDigitRead
    <3> QED
      BY <1>4, <1>5, <3>1, <3>2 DEF d
  <2>2. ch = "0" /\ IsDigit(ch) /\ n.pos = 0 => Outcome(Ret([c EXCEPT !.num.got_int = TRUE]))
    <3> DEFINE d == [c EXCEPT !.num.got_int = TRUE]
    <3>1. d.st = c.st /\ d.ty = c.ty /\ d.num = [n EXCEPT !.got_int = TRUE]
      BY <1>1 DEF Fields
    <3> HIDE DEF d
    <3>2. ch = "0" /\ IsDigit(ch) /\ n.pos = 0 => Denotes(Append(s, ch), d.num)
      BY <1>7, <3>1, IntDigitRead
    <3> QED
      BY <1>4, <1>5, <3>1, <3>2 DEF d
  <2>3. ch \in {"-", "+"} /\ ~n.got_sign => Outcome(Ret([c EXCEPT !.num.neg = (ch = "-"), !.num.got_sign = TRUE]))
    <3> DEFINE d == [c EXCEPT !.num.neg = (ch = "-"), !.num.got_sign = TRUE]
    <3>1. d.st = c.st /\ d.ty = c.ty /\ d.num = [n EXCEPT !.neg = (ch = "-"), !.got_sign = TRUE]
      BY <1>1 DEF Fields
    <3> HIDE DEF d
    <3>2. ~n.got_sign => n.got_sign = FALSE
      BY <1>1, SMT
    <3>3. ch \in {"-", "+"} /\ ~n.got_sign => Denotes(Append(s, ch), d.num)
      BY <1>7, <3>1, <3>2, IntSignRead
    <3>4. ch \in {"-", "+"} => ch \in NumberChars
      BY <1>5, SMT
    <3> QED
      BY <1>4, <3>1, <3>3, <3>4 DEF d
  <2>4. ch = "." => Outcome(Ret([c EXCEPT !.num.pos = 1, !.num.part = "frac"]))
    <3> DEFINE d == [c EXCEPT !.num.pos = 1, !.num.part = "frac"]
    <3>1. d.st = c.st /\ d.ty = c.ty /\ d.num = [n EXCEPT !.pos = 1, !.part = "frac"]
      BY <1>1 DEF Fields
    <3> HIDE DEF d
    <3>2. ch = "." => Denotes(Append(s, ch), d.num)
      BY <1>7, <3>1, DotRead
    <3>3. ch = "." => ch \in NumberChars
      BY <1>5, SMT
    <3> QED
      BY <1>4, <3>1, <3>2, <3>3 DEF d
  <2>5. Outcome(next_num_int_(c, ch))
    <3>1. CASE IsDigit(ch)
      BY <2>1, <2>2, <3>1, NumChars, SMT DEF next_num_int_
    <3>2. CASE ch \in {"-", "+"}
      BY <1>2, <2>3, <3>2, NumChars, SMT DEF next_num_int_
    <3>3. CASE ch = "."
      BY <1>2, <2>4, <3>3, NumChars, SMT DEF next_num_int_
    <3>4. CASE ch = "e"
      BY <1>2, <1>6, <1>7, <3>4, NumChars, SMT DEF next_num_int_
    <3>5. CASE is_separator_(ch)
      BY <1>2, <1>3, <3>5, NumChars, SMT DEF next_num_int_
    <3>6. CASE ~IsDigit(ch) /\ ch \notin {"-", "+", ".", "e"} /\ ~is_separator_(ch)
      BY <1>2, <3>6, SMT DEF next_num_int_
    <3> QED
      BY <3>1, <3>2, <3>3, <3>4, <3>5, <3>6, SMT
  <2>6. next_num_(c, ch) = next_num_int_(c, ch)
    BY <1>7, SMT DEF next_num_
  <2> QED
    BY <2>5, <2>6 DEF Outcome
<1>8. CASE n.part = "frac"
  <2>1. IsDigit(ch) => Outcome(Ret([c EXCEPT !.num.mant = 10 * @ + DigitOf(ch), !.num.fracs = @ + 1, !.num.pos = @ + 1]))
    <3> DEFINE d == [c EXCEPT !.num.mant = 10 * @ + DigitOf(ch), !.num.fracs = @ + 1, !.num.pos = @ + 1]
    <3>1. /\ d.st = c.st /\ d.ty = c.ty
          /\ d.num = [n EXCEPT !.mant = 10 * n.mant + DigitOf(ch), !.fracs = n.fracs + 1, !.pos = n.pos + 1]
      BY <1>1 DEF Fields
    <3> HIDE DEF d
    <3>2. IsDigit(ch) => Denotes(Append(s, ch), d.num)
      BY <1>8, <3>1, FracDigitRead
    <3> QED
      BY <1>4, <1>5, <3>1, <3>2 DEF d
  <2>2. Outcome(next_num_frac_(c, ch))
    <3>1. CASE IsDigit(ch)
      BY <2>1, <3>1, NumChars, SMT DEF next_num_frac_
    <3>2. CASE ch = "e"
      BY <1>2, <1>6, <1>8, <3>2, NumChars, SMT DEF next_num_frac_
    <3>3. CASE is_separator_(ch)
      BY <1>2, <1>3, <3>3, NumChars, SMT DEF next_num_frac_
    <3>4. CASE ~IsDigit(ch) /\ ch # "e" /\ ~is_separator_(ch)
      BY <1>2, <3>4, SMT DEF next_num_frac_
    <3> QED
      BY <3>1, <3>2, <3>3, <3>4, SMT
  <2>3. next_num_(c, ch) = next_num_frac_(c, ch)
    BY <1>8, SMT DEF next_num_
  <2> QED
    BY <2>2, <2>3 DEF Outcome
<1>9. CASE n.part = "exp"
  <2>1. IsDigit(ch) => Outcome(Ret([c EXCEPT !.num.got_int = TRUE, !.num.exp = 10 * @ + DigitOf(ch), !.num.pos = @ + 1]))
    <3> DEFINE d == [c EXCEPT !.num.got_int = TRUE, !.num.exp = 10 * @ + DigitOf(ch), !.num.pos = @ + 1]
    <3>1. /\ d.st = c.st /\ d.ty = c.ty
          /\ d.num = [n EXCEPT !.got_int = TRUE, !.exp = 10 * n.exp + DigitOf(ch), !.pos = n.pos + 1]
      BY <1>1 DEF Fields
    <3> HIDE DEF d
    <3>2. IsDigit(ch) => Denotes(Append(s, ch), d.num)
      BY <1>9, <3>1, ExpDigitRead
    <3> QED
      BY <1>4, <1>5, <3>1, <3>2 DEF d
  <2>2. ch = "0" /\ IsDigit(ch) /\ n.pos = 0 => Outcome(Ret([c EXCEPT !.num.got_int = TRUE]))
    <3> DEFINE d == [c EXCEPT !.num.got_int = TRUE]
    <3>1. d.st = c.st /\ d.ty = c.ty /\ d.num = [n EXCEPT !.got_int = TRUE]
      BY <1>1 DEF Fields
    <3> HIDE DEF d
    <3>2. ch = "0" /\ IsDigit(ch) /\ n.pos = 0 => Denotes(Append(s, ch), d.num)
      BY <1>9, <3>1, ExpDigitRead
    <3> QED
      BY <1>4, <1>5, <3>1, <3>2 DEF d
  <2>3. ch \in {"-", "+"} /\ ~n.got_sign => Outcome(Ret([c EXCEPT !.num.eneg = (ch = "-"), !.num.got_sign = TRUE]))
    <3> DEFINE d == [c EXCEPT !.num.eneg = (ch = "-"), !.num.got_sign = TRUE]
    <3>1. d.st = c.st /\ d.ty = c.ty /\ d.num = [n EXCEPT !.eneg = (ch = "-"), !.got_sign = TRUE]
      BY <1>1 DEF Fields
    <3> HIDE DEF d
    <3>2. ~n.got_sign => n.got_sign = FALSE
      BY <1>1, SMT
    <3>3. ch \in {"-", "+"} /\ ~n.got_sign => Denotes(Append(s, ch), d.num)
      BY <1>9, <3>1, <3>2, ExpSignRead
    <3>4. ch \in {"-", "+"} => ch \in NumberChars
      BY <1>5, SMT
    <3> QED
      BY <1>4, <3>1, <3>3, <3>4 DEF d
  <2>4. Outcome(next_num_exp_(c, ch))
    <3>1. CASE IsDigit(ch)
      BY <2>1, <2>2, <3>1, NumChars, SMT DEF next_num_exp_
    <3>2. CASE ch \in {"-", "+"}
      BY <1>2, <2>3, <3>2, NumChars, SMT DEF next_num_exp_
    <3>3. CASE is_separator_(ch)
      BY <1>2, <1>3, <3>3, NumChars, SMT DEF next_num_exp_
    <3>4. CASE ~IsDigit(ch) /\ ch \notin {"-", "+"} /\ ~is_separator_(ch)
      BY <1>2, <3>4, SMT DEF next_num_exp_
    <3> QED
      BY <3>1, <3>2, <3>3, <3>4, SMT
  <2>5. next_num_(c, ch) = next_num_exp_(c, ch)
    BY <1>9, SMT DEF next_num_
  <2> QED
    BY <2>4, <2>5 DEF Outcome
<1> QED
  BY <1>1, <1>7, <1>8, <1>9

(* The states that read a key, a string or a word never read a number.     *)
LEMMA OtherRead ==
  ASSUME NEW c, Incomplete(c), NEW ch
  PROVE  /\ c.st = "key" => NoNumber(ch, next_key_(c, ch))
         /\ c.st = "str" => NoNumber(ch, next_str_(c, ch))
         /\ c.st = "long_str" => NoNumber(ch, next_long_str_(c, ch))
         /\ c.st = "bool" => NoNumber(ch, next_bool_(c, ch))
<1> USE ZenonT(40)
<1>1. Fields = DOMAIN c /\ c.ty = "incomplete"
  BY DEF Incomplete, IsCtx
<1>2. ASSUME NEW d, d.st = c.st, d.ty = c.ty, NEW x
      PROVE  NoNumber(ch, Syntax(d)) /\ (c.st # "num" /\ c.st # "idle" => NoNumber(ch, Ret(d)) /\ NoNumber(ch, Put(d, x)))
  <2>1. Syntax(d).c = d /\ Syntax(d).r = "syntax" /\ Ret(d).c = d
    BY SMT DEF Syntax, Ret
  <2>2. NoNumber(ch, Syntax(d))
    BY <1>1, <1>2, <2>1 DEF NoNumber
  <2>3. c.st # "num" /\ c.st # "idle" => NoNumber(ch, Ret(d))
    BY <1>1, <1>2, <2>1 DEF NoNumber
  <2>4. c.st # "num" /\ c.st # "idle" => NoNumber(ch, Ret([d EXCEPT !.str = Append(@, x)]))
    <3> DEFINE e == [d EXCEPT !.str = Append(@, x)]
    <3>1. e.st = d.st /\ e.ty = d.ty
      BY SMT
    <3> HIDE DEF e
    <3>2. Ret(e).c = e
      BY SMT DEF Ret
    <3>3. c.st # "num" /\ c.st # "idle" => NoNumber(ch, Ret(e))
      BY <1>1, <1>2, <3>1, <3>2 DEF NoNumber
    <3> QED
      BY <3>3, SMT DEF e
  <2> QED
    BY <2>2, <2>3, <2>4 DEF Put
<1>3. ASSUME NEW d, d.ty # "num", d.st = "idle", ch \notin NumberChars, NEW x PROVE NoNumber(ch, [c |-> d, r |-> x])
  BY <1>3, SMT DEF NoNumber
<1>4. c.st = "key" => NoNumber(ch, next_key_(c, ch))
  <2> DEFINE d == [c EXCEPT !.ty = "key", !.st = "idle", !.expect_colon = (ch # ":"),
                            !.got_key = TRUE, !.got_first_val = FALSE, !.is_in_arr = FALSE]
  <2>1. d.ty # "num" /\ d.st = "idle"
    BY <1>1, SMT DEF Fields
  <2>2. ch \in {":", " ", "\t"} => ch \notin NumberChars
    BY NumberCharsAre
  <2>3. ch \in {":", " ", "\t"} => NoNumber(ch, Ret(d))
    BY <1>3, <2>1, <2>2 DEF Ret
  <2>4. c.st = "key" => NoNumber(ch, Put(c, ch)) /\ NoNumber(ch, Syntax(c))
    BY <1>2, SMT
  <2> QED
    BY <2>3, <2>4 DEF next_key_
<1>5. ASSUME NEW d, d.st = "str" \/ d.st = "long_str", c.st = d.st, d.ty = c.ty, Fields = DOMAIN d, ch \notin NumberChars
      PROVE  NoNumber(ch, StrEnd(d))
  <2> DEFINE e == [d EXCEPT !.ty = "str", !.st = "idle", !.expect_colon = FALSE, !.got_key = TRUE, !.got_first_val = TRUE]
  <2>1. e.ty # "num" /\ e.st = "idle"
    BY <1>5, SMT DEF Fields
  <2>2. NoNumber(ch, Ret(e))
    BY <1>3, <1>5, <2>1 DEF Ret
  <2>3. NoNumber(ch, Syntax(d))
    BY <1>2, <1>5, SMT
  <2> QED
    BY <2>2, <2>3 DEF StrEnd
<1>6. ch = "\"" \/ ch = ">" => ch \notin NumberChars
  BY NumberCharsAre
<1>7. c.st = "str" => NoNumber(ch, next_str_(c, ch))
  <2>1. LET e == [c EXCEPT !.is_escape = FALSE] IN e.st = c.st /\ e.ty = c.ty
    BY <1>1, SMT DEF Fields
  <2>2. LET e == [c EXCEPT !.is_escape = TRUE] IN e.st = c.st /\ e.ty = c.ty
    BY <1>1, SMT DEF Fields
  <2>3. c.st = "str" => /\ NoNumber(ch, Syntax(c)) /\ NoNumber(ch, Put(c, ch))
                        /\ NoNumber(ch, Put([c EXCEPT !.is_escape = FALSE], escape_ch_(ch)))
                        /\ NoNumber(ch, Ret([c EXCEPT !.is_escape = TRUE]))
    BY <1>2, <2>1, <2>2
  <2>4. c.st = "str" /\ ch = "\"" => NoNumber(ch, StrEnd(c))
    BY <1>1, <1>5, <1>6
  <2> QED
    BY <2>3, <2>4 DEF next_str_
<1>8. c.st = "long_str" => NoNumber(ch, next_long_str_(c, ch))
  <2> DEFINE put == [c EXCEPT !.is_escape = FALSE, !.skip_whitespace = FALSE]
             cut == WithoutNewline(c)
  <2>1. cut.st = c.st /\ cut.ty = c.ty /\ Fields = DOMAIN cut
    BY <1>1, SMT DEF WithoutNewline, Fields
  <2>2. LET e == [put EXCEPT !.keep_last_newline = (escape_ch_(ch) = "\n")] IN e.st = c.st /\ e.ty = c.ty
    BY <1>1, SMT DEF Fields
  <2>3. LET e == [put EXCEPT !.keep_last_newline = FALSE] IN e.st = c.st /\ e.ty = c.ty
    BY <1>1, SMT DEF Fields
  <2>4. LET e == [c EXCEPT !.is_escape = TRUE, !.skip_whitespace = FALSE] IN e.st = c.st /\ e.ty = c.ty
    BY <1>1, SMT DEF Fields
  <2>5. LET e == [c EXCEPT !.skip_whitespace = (ch # "\n"), !.keep_last_newline = TRUE] IN e.st = c.st /\ e.ty = c.ty
    BY <1>1, SMT DEF Fields
  <2> HIDE DEF put, cut
  <2>6. c.st = "long_str" => /\ NoNumber(ch, Syntax(c))
                             /\ NoNumber(ch, Put([put EXCEPT !.keep_last_newline = (escape_ch_(ch) = "\n")], escape_ch_(ch)))
                             /\ NoNumber(ch, Put([put EXCEPT !.keep_last_newline = FALSE], ch))
                             /\ NoNumber(ch, Ret([c EXCEPT !.is_escape = TRUE, !.skip_whitespace = FALSE]))
                             /\ NoNumber(ch, Ret([c EXCEPT !.skip_whitespace = (ch # "\n"), !.keep_last_newline = TRUE]))
    BY <1>2, <2>2, <2>3, <2>4, <2>5
  <2>7. c.st = "long_str" /\ ch = ">" => NoNumber(ch, StrEnd(cut))
    BY <1>5, <1>6, <2>1
  <2> QED
    BY <2>6, <2>7 DEF next_long_str_, put, cut
<1>9. c.st = "bool" => NoNumber(ch, next_bool_(c, ch))
  <2> DEFINE d == PlainEnd(c, "bool", ch).c
             e == [c EXCEPT !.word = Append(@, ch)]
  <2>1. d.ty # "num" /\ d.st = "idle"
    BY <1>1 DEF Fields, PlainEnd
  <2>2. is_separator_(ch) => ch \notin NumberChars
    BY NumberCharsAre
  <2>3. is_separator_(ch) => NoNumber(ch, PlainEnd(c, "bool", ch))
    BY <2>1, <2>2 DEF NoNumber
  <2>4. e.st = c.st /\ e.ty = c.ty
    BY <1>1, SMT DEF Fields
  <2>5. c.st = "bool" => NoNumber(ch, Ret(e)) /\ NoNumber(ch, Syntax(c))
    BY <1>2, <2>4
  <2> QED
    BY <2>3, <2>5 DEF next_bool_
<1> QED
  BY <1>4, <1>7, <1>8, <1>9

(* From the idle state a number is entered with the character that begins  *)
(* it, and only a character that is none of a number's leaves it idle.     *)
LEMMA IdleRead ==
  ASSUME NEW c, Incomplete(c), c.st = "idle", NEW ch
  PROVE  LET res == next_idle_(c, ch) IN NumGrows(<<>>, ch, res) \/ NoNumber(ch, res)
<1> USE ZenonT(40)
<1> DEFINE Outcome(res) == NumGrows(<<>>, ch, res) \/ NoNumber(ch, res)
<1>1. Fields = DOMAIN c /\ c.ty = "incomplete"
  BY DEF Incomplete, IsCtx
<1>2. Outcome(Syntax(c))
  <2>1. Syntax(c).r = "syntax" /\ Syntax(c).c = c
    BY SMT DEF Syntax
  <2> QED
    BY <1>1, <2>1 DEF NoNumber
<1>3. ASSUME NEW d, NEW x, d.st # "num", d.ty = c.ty, d.st = "idle" => ch \notin NumberChars
      PROVE  Outcome([c |-> d, r |-> x])
  BY <1>1, <1>3 DEF NoNumber
<1>4. ASSUME NEW st \in ValStates
      PROVE  Incomplete(Enter(c, st)) /\ Enter(c, st).st = st /\ Enter(c, st).ty = c.ty /\ Enter(c, st).num = NoNum
  <2>1. Enter(c, st).ty = c.ty /\ Enter(c, st).num = NoNum
    BY <1>1 DEF Enter, Fields
  <2> QED
    BY <2>1, EnterKeeps
<1>5. "num" \in ValStates /\ "bool" \in ValStates /\ "str" \in ValStates /\ "long_str" \in ValStates
  BY SMT DEF ValStates, StrStates
<1>6. IsDigit(ch) \/ ch \in {"-", "+", "."} => Outcome(next_num_(Enter(c, "num"), ch))
  <2> DEFINE e == Enter(c, "num")
             res == next_num_(e, ch)
  <2>1. Incomplete(e) /\ e.st = "num" /\ Denotes(<<>>, e.num)
    BY <1>4, <1>5, NoNumRead
  <2>2. NumGrows(<<>>, ch, res) \/ NumEnds(e.num, ch, res) \/ NoNumber(ch, res)
    BY <2>1, NumRead
  <2>3. IsDigit(ch) \/ ch \in {"-", "+", "."} => ch \in NumberChars
    BY NumberCharsAre
  <2> QED
    BY <2>2, <2>3 DEF NumEnds
<1>7. Outcome(Ret(Enter(c, "str"))) /\ Outcome(Ret(Enter(c, "long_str")))
  BY <1>3, <1>4, <1>5 DEF Ret
<1>8. ASSUME ch \notin NumberChars
      PROVE  /\ Outcome(Ret([c EXCEPT !.expect_colon = FALSE])) /\ Outcome(Ret([c EXCEPT !.is_in_arr = TRUE]))
             /\ Outcome(Ret(LineEnd(c))) /\ Outcome([c |-> LineEnd(c), r |-> "fin"]) /\ Outcome(Ret(c))
  <2>1. [c EXCEPT !.expect_colon = FALSE].st = c.st /\ [c EXCEPT !.expect_colon = FALSE].ty = c.ty
    BY <1>1 DEF Fields
  <2>2. [c EXCEPT !.is_in_arr = TRUE].st = c.st /\ [c EXCEPT !.is_in_arr = TRUE].ty = c.ty
    BY <1>1 DEF Fields
  <2>3. LineEnd(c).st = c.st /\ LineEnd(c).ty = c.ty
    BY <1>1 DEF Fields, LineEnd
  <2> HIDE DEF Outcome
  <2>4. ASSUME NEW d, NEW x, d.st = c.st, d.ty = c.ty PROVE Outcome([c |-> d, r |-> x])
    BY <1>3, <1>8, <2>4
  <2> QED
    BY <2>1, <2>2, <2>3, <2>4 DEF Ret
<1>9. Outcome(next_bool_(Enter(c, "bool"), ch))
  <2>1. NoNumber(ch, next_bool_(Enter(c, "bool"), ch))
    BY <1>4, <1>5, OtherRead
  <2> QED
    BY <2>1
<1>10. Outcome(next_key_(EnterKey(c), ch))
  <2> DEFINE e == EnterKey(c)
  <2>1. /\ Fields = DOMAIN e /\ e.ty = c.ty /\ e.st = "key" /\ e.num = c.num
        /\ e.got_key = FALSE /\ e.expect_colon = FALSE
    BY <1>1 DEF Fields, EnterKey
  <2> HIDE DEF e
  <2>2. "key" \in States /\ FALSE \in BOOLEAN
    BY SMT DEF States
  <2>3. Incomplete(e)
    BY <1>1, <2>1, <2>2 DEF Incomplete, IsCtx
  <2>4. NoNumber(ch, next_key_(e, ch))
    BY <2>1, <2>3, OtherRead
  <2> QED
    BY <2>4 DEF e
<1>11. ch \in {":", ",", "\n", "NUL", " ", "\t"} => ch \notin NumberChars /\ ~IsDigit(ch) /\ ch \notin {"-", "+", "."}
  BY NumberCharsAre
<1> HIDE DEF Outcome
<1>12. Outcome(next_idle_(c, ch))
  <2>1. CASE IsDigit(ch) \/ ch \in {"-", "+", "."}
    <3>1. ch \notin {":", "\"", "<", ",", "\n", "NUL", " ", "\t"}
      BY <2>1, DigitChars DEF IsDigit
    <3>2. next_idle_(c, ch) = IF is_val_expected(c) THEN next_num_(Enter(c, "num"), ch) ELSE Syntax(c)
      BY <2>1, <3>1 DEF next_idle_
    <3> QED
      BY <1>2, <1>6, <2>1, <3>2
  <2>2. CASE ch = ":"
    BY <1>2, <1>8, <1>11, <2>2 DEF next_idle_
  <2>3. CASE ch = "\""
    <3>1. ~IsDigit(ch)
      BY <2>3, DigitChars DEF IsDigit
    <3> QED
      BY <1>2, <1>7, <2>3, <3>1 DEF next_idle_
  <2>4. CASE ch = "<"
    <3>1. ~IsDigit(ch)
      BY <2>4, DigitChars DEF IsDigit
    <3> QED
      BY <1>2, <1>7, <2>4, <3>1 DEF next_idle_
  <2>5. CASE ch = ","
    BY <1>8, <1>11, <2>5 DEF next_idle_
  <2>6. CASE ch = "\n"
    BY <1>8, <1>11, <2>6 DEF next_idle_
  <2>7. CASE ch = "NUL"
    BY <1>8, <1>11, <2>7 DEF next_idle_
  <2>8. CASE ch \in {" ", "\t"}
    BY <1>8, <1>11, <2>8 DEF next_idle_
  <2>9. CASE ~(IsDigit(ch) \/ ch \in {"-", "+", "."}) /\ ch \notin {":", "\"", "<", ",", "\n", "NUL", " ", "\t"}
    <3>1. next_idle_(c, ch) = IF ~c.got_key THEN next_key_(EnterKey(c), ch)
                              ELSE IF is_val_expected(c) THEN next_bool_(Enter(c, "bool"), ch) ELSE Syntax(c)
      BY <2>9 DEF next_idle_
    <3> QED
      BY <1>2, <1>9, <1>10, <3>1
  <2> QED
    BY <2>1, <2>2, <2>3, <2>4, <2>5, <2>6, <2>7, <2>8, <2>9
<1> QED
  BY <1>12 DEF Outcome

(* rdb_next, whatever the state                                            *)
LEMMA NextRead ==
  ASSUME NEW ctx, IsCtx(ctx), NEW ch
  PROVE  LET res == rdb_next(ctx, ch) IN
         /\ ctx.st = "num" => \A s : Denotes(s, ctx.num) =>
                                NumGrows(s, ch, res) \/ NumEnds(ctx.num, ch, res) \/ NoNumber(ch, res)
         /\ ctx.st = "idle" => NumGrows(<<>>, ch, res) \/ NoNumber(ch, res)
         /\ ctx.st # "num" /\ ctx.st # "idle" => NoNumber(ch, res)
<1> USE ZenonT(40)
<1> DEFINE c == [ctx EXCEPT !.ty = "incomplete"]
           res == rdb_next(ctx, ch)
<1>1. Incomplete(c) /\ c.st = ctx.st /\ c.num = ctx.num
  BY DEF Incomplete, IsCtx, Fields
<1>2. res = CASE c.st = "idle" -> next_idle_(c, ch)
              [] c.st = "key" -> next_key_(c, ch)
              [] c.st = "str" -> next_str_(c, ch)
              [] c.st = "long_str" -> next_long_str_(c, ch)
              [] c.st = "num" -> next_num_(c, ch)
              [] c.st = "bool" -> next_bool_(c, ch)
  BY DEF rdb_next
<1>3. c.st \in {"idle", "key", "str", "long_str", "num", "bool"}
  BY <1>1, SMT DEF Incomplete, IsCtx, States, ValStates, StrStates
<1> HIDE DEF c, res
<1>4. /\ c.st = "idle" => res = next_idle_(c, ch)
      /\ c.st = "num" => res = next_num_(c, ch)
      /\ c.st = "key" => res = next_key_(c, ch)
      /\ c.st = "str" => res = next_str_(c, ch)
      /\ c.st = "long_str" => res = next_long_str_(c, ch)
      /\ c.st = "bool" => res = next_bool_(c, ch)
  BY <1>2, SMT
<1>5. ASSUME c.st = "num", NEW s, Denotes(s, c.num)
      PROVE  NumGrows(s, ch, res) \/ NumEnds(c.num, ch, res) \/ NoNumber(ch, res)
  BY <1>1, <1>4, <1>5, NumRead
<1>6. c.st = "idle" => NumGrows(<<>>, ch, res) \/ NoNumber(ch, res)
  BY <1>1, <1>4, IdleRead
<1>7. c.st # "num" /\ c.st # "idle" => NoNumber(ch, res)
  BY <1>1, <1>3, <1>4, OtherRead
<1> QED
  BY <1>1, <1>5, <1>6, <1>7 DEF res

-----------------------------------------------------------------------------
(* The text ends with the text of a number that reads as n.                *)
EndsWith(s, n) == \E k \in 1..(Len(s) + 1) : Begins(s, k) /\ Denotes(SubSeq(s, k, Len(s)), n)

(* Where the last number of a text begins, as the text grows               *)
LEMMA BeginsAt ==
  ASSUME NEW s, IsSeq(s), NEW ch
  PROVE  /\ \A k \in 1..(Len(s) + 1) : Begins(s, k) /\ ch \in NumberChars => Begins(Append(s, ch), k)
         /\ ch \notin NumberChars => Begins(Append(s, ch), Len(s) + 2)
         /\ \A j, k \in 1..(Len(s) + 1) : Begins(s, j) /\ Begins(s, k) => j = k
<1> DEFINE t == Append(s, ch)
           N == Len(s)
<1>1. N \in Nat /\ Len(t) = N + 1 /\ t[N + 1] = ch /\ \A i \in 1..N : t[i] = s[i]
  BY AppendIs
<1> HIDE DEF t, N
<1>2. ASSUME NEW k \in 1..(N + 1), Begins(s, k), ch \in NumberChars PROVE Begins(t, k)
  <2>1. \A i \in k..N : s[i] \in NumberChars
    BY <1>2, Zenon DEF Begins, N
  <2>2. k = 1 \/ s[k - 1] \notin NumberChars
    BY <1>2, Zenon DEF Begins
  <2>3. \A i \in k..(N + 1) : t[i] \in NumberChars
    BY <1>1, <1>2, <2>1
  <2>4. k = 1 \/ t[k - 1] \notin NumberChars
    BY <1>1, <2>2
  <2> QED
    BY <1>1, <2>3, <2>4, Zenon DEF Begins
<1>3. ch \notin NumberChars => Begins(t, N + 2)
  BY <1>1 DEF Begins
<1>4. ASSUME NEW j \in 1..(N + 1), NEW k \in 1..(N + 1), Begins(s, j), Begins(s, k) PROVE ~(j < k)
  <2>1. \A i \in j..N : s[i] \in NumberChars
    BY <1>4, Zenon DEF Begins, N
  <2>2. k = 1 \/ s[k - 1] \notin NumberChars
    BY <1>4, Zenon DEF Begins
  <2> QED
    BY <1>1, <2>1, <2>2
<1>5. ASSUME NEW j \in 1..(N + 1), NEW k \in 1..(N + 1), Begins(s, j), Begins(s, k) PROVE j = k
  <2>1. ~(j < k) /\ ~(k < j)
    BY <1>4, <1>5, Zenon
  <2> QED
    BY <1>1, <2>1
<1> QED
  BY <1>2, <1>3, <1>5, Zenon DEF t, N

(* The last number of a text that ends with one                            *)
LEMMA LastNumberIs ==
  ASSUME NEW s, IsSeq(s), NEW n, EndsWith(s, n)
  PROVE  Denotes(LastNumber(s), n)
<1> USE ZenonT(40)
<1>1. PICK k \in 1..(Len(s) + 1) : Begins(s, k) /\ Denotes(SubSeq(s, k, Len(s)), n)
  BY DEF EndsWith
<1> DEFINE j == CHOOSE i \in 1..(Len(s) + 1) : Begins(s, i)
<1>2. j \in 1..(Len(s) + 1) /\ Begins(s, j)
  BY <1>1
<1>3. j = k
  <2> HIDE DEF j
  <2> QED
    BY <1>1, <1>2, BeginsAt
<1>4. LastNumber(s) = SubSeq(s, j, Len(s))
  BY DEF LastNumber
<1> QED
  BY <1>1, <1>3, <1>4

(* The inductive invariant: the number being read, and the one just read,  *)
(* is what its text denotes, and idle no character of a number came last.  *)
NumInv ==
  /\ IsSeq(text)
  /\ r = "ok" /\ rd.st = "num" => EndsWith(text, rd.num)
  /\ r = "ok" /\ rd.st = "idle" => Begins(text, Len(text) + 1)
  /\ rd.ty = "num" => EndsWith(SubSeq(text, 1, Len(text) - 1), rd.num)

(* One character keeps it.                                                *)
LEMMA NumFeed ==
  ASSUME MarksInv, NumInv, NEW ch, Feed(ch)
  PROVE  NumInv'
<1> USE ZenonT(40)
<1> DEFINE s == text
           N == Len(text)
           res == rdb_next(rd, ch)
<1>1. r = "ok" /\ text' = Append(s, ch) /\ rd' = res.c /\ r' = res.r /\ IsCtx(rd) /\ IsSeq(s)
  BY DEF Feed, MarksInv, NumInv
<1>2. N \in Nat /\ IsSeq(text') /\ Len(text') = N + 1
  BY <1>1, AppendIs
<1>3. SubSeq(text', 1, Len(text') - 1) = s
  <2>1. 1 \in 1..(N + 1) /\ N \in 0..N /\ Len(text') - 1 = N
    BY <1>2, SMT
  <2>2. SubSeq(Append(s, ch), 1, N) = SubSeq(s, 1, N)
    BY <1>1, <2>1, CutSame
  <2>3. SubSeq(s, 1, N) = s
    <3>1. Prefix(s, s)
      BY <1>1, PrefixSelf
    <3> QED
      BY <3>1, PrefixIs
  <2> QED
    BY <1>1, <2>1, <2>2, <2>3
<1>4. ASSUME NEW k \in 1..(N + 1), Begins(s, k), ch \in NumberChars, NEW n, Denotes(Append(SubSeq(s, k, N), ch), n)
      PROVE  EndsWith(text', n)
  <2>1. SubSeq(text', k, N + 1) = Append(SubSeq(s, k, N), ch)
    BY <1>1, <1>4, CutLonger
  <2>2. k \in 1..((N + 1) + 1)
    BY <1>2, SMT
  <2>3. Begins(text', k)
    BY <1>1, <1>4, BeginsAt
  <2> QED
    BY <1>2, <1>4, <2>1, <2>2, <2>3 DEF EndsWith
<1>5. ASSUME NoNumber(ch, res) PROVE NumInv'
  <2>1. res.c.ty # "num" /\ (res.r = "ok" => res.c.st # "num" /\ (res.c.st = "idle" => ch \notin NumberChars))
    BY <1>5 DEF NoNumber
  <2>2. ch \notin NumberChars => Begins(text', Len(text') + 1)
    <3>1. Len(text') + 1 = N + 2
      BY <1>2, SMT
    <3> QED
      BY <1>1, <3>1, BeginsAt
  <2> QED
    BY <1>1, <1>2, <2>1, <2>2 DEF NumInv
<1>6. ASSUME NEW k \in 1..(N + 1), Begins(s, k), NumGrows(SubSeq(s, k, N), ch, res) PROVE NumInv'
  <2>1. res.c.st = "num" /\ res.c.ty # "num" /\ EndsWith(text', res.c.num)
    BY <1>4, <1>6 DEF NumGrows
  <2> QED
    BY <1>1, <1>2, <2>1 DEF NumInv
<1>7. CASE rd.st = "num"
  <2>1. PICK k \in 1..(N + 1) : Begins(s, k) /\ Denotes(SubSeq(s, k, N), rd.num)
    BY <1>1, <1>7 DEF NumInv, EndsWith
  <2>2. NumGrows(SubSeq(s, k, N), ch, res) \/ NumEnds(rd.num, ch, res) \/ NoNumber(ch, res)
    BY <1>1, <1>7, <2>1, NextRead
  <2>3. CASE NumEnds(rd.num, ch, res)
    <3>1. res.c.st = "idle" /\ res.c.num = rd.num /\ ch \notin NumberChars
      BY <2>3 DEF NumEnds
    <3>2. EndsWith(s, rd.num)
      BY <2>1 DEF EndsWith
    <3>3. Len(text') + 1 = N + 2
      BY <1>2, SMT
    <3>4. Begins(text', Len(text') + 1)
      BY <1>1, <3>1, <3>3, BeginsAt
    <3>5. EndsWith(SubSeq(text', 1, Len(text') - 1), rd'.num)
      BY <1>1, <1>3, <3>1, <3>2
    <3> QED
      BY <1>1, <1>2, <3>1, <3>4, <3>5 DEF NumInv
  <2> QED
    BY <1>5, <1>6, <2>1, <2>2, <2>3
<1>8. CASE rd.st = "idle"
  <2>1. N + 1 \in 1..(N + 1)
    BY <1>2, SMT
  <2>2. Begins(s, N + 1)
    BY <1>1, <1>8 DEF NumInv
  <2>3. SubSeq(s, N + 1, N) = <<>>
    BY <1>2, SMT
  <2>4. NumGrows(SubSeq(s, N + 1, N), ch, res) \/ NoNumber(ch, res)
    BY <1>1, <1>8, <2>3, NextRead
  <2> QED
    BY <1>5, <1>6, <2>1, <2>2, <2>4
<1>9. CASE rd.st # "num" /\ rd.st # "idle"
  BY <1>1, <1>5, <1>9, NextRead
<1> QED
  BY <1>7, <1>8, <1>9

(* What the number read denotes is what NumberValue says of its text.      *)
LEMMA NumHasValue ==
  ASSUME NumInv
  PROVE  NumberValue
<1> USE ZenonT(40)
<1> SUFFICES ASSUME rd.ty = "num"
             PROVE  LET base == Before(NumberText, "e") IN
                    rdb_cur_num(rd) = [neg |-> "-" \in Chars(base), mant |-> ValueOf(base),
                                       fracs |-> Len(After(base, ".")), exp |-> SignedValue(After(NumberText, "e"))]
  BY DEF NumberValue
<1> DEFINE s == SubSeq(text, 1, Len(text) - 1)
           n == rd.num
           b == Before(NumberText, "e")
           x == After(NumberText, "e")
<1>1. EndsWith(s, n) /\ IsSeq(text)
  BY DEF NumInv
<1>2. IsSeq(s)
  <2>1. PICK S : text \in Seq(S)
    BY <1>1, SMT DEF IsSeq
  <2>2. s \in Seq(S)
    BY <2>1, SMT
  <2> HIDE DEF s
  <2> QED
    BY <2>2 DEF IsSeq
<1>3. Denotes(NumberText, n)
  BY <1>1, <1>2, LastNumberIs DEF NumberText
<1>4. Mantissa(b, n) /\ Exponent(x, n)
  BY <1>3 DEF Denotes
<1> HIDE DEF b, x
<1>5. n.neg = ("-" \in Chars(b)) /\ n.mant = ValueOf(b) /\ n.fracs = Len(After(b, "."))
  BY <1>4 DEF Mantissa
<1>6. n.exp = ValueOf(x) /\ n.eneg = ("-" \in Chars(x))
  BY <1>4 DEF Exponent
<1>7. (IF n.eneg THEN -n.exp ELSE n.exp) = SignedValue(x)
  BY <1>6 DEF SignedValue
<1> QED
  BY <1>5, <1>7, SMT DEF rdb_cur_num, b, x

(* Whatever the text, a number that rdb_next reports is the decimal its    *)
(* characters denote: next_num_int_, next_num_frac_ and next_num_exp_ lose *)
(* no digit, sign or scale of it.                                          *)
THEOREM NumbersHaveValue == TextSpec => []NumberValue
<1>1. TextInit => NumInv
  <2> SUFFICES ASSUME TextInit PROVE NumInv
    OBVIOUS
  <2>1. IsSeq(<<>>) /\ Len(<<>>) = 0
    BY EmptySeq DEF IsSeq
  <2>2. Begins(<<>>, 0 + 1)
    BY <2>1 DEF Begins
  <2>3. text = <<>> /\ rd.st = "idle" /\ rd.ty = "incomplete"
    BY DEF TextInit, rdb_init
  <2> QED
    BY <2>1, <2>2, <2>3, Zenon DEF NumInv
<1>2. NumInv /\ MarksInv /\ [TextNext]_textvars => NumInv'
  <2> SUFFICES ASSUME NumInv, MarksInv, [TextNext]_textvars PROVE NumInv'
    OBVIOUS
  <2>1. CASE TextNext
    BY <2>1, NumFeed, Zenon DEF TextNext
  <2>2. CASE UNCHANGED textvars
    BY <2>2, Zenon DEF textvars, NumInv
  <2> QED
    BY <2>1, <2>2, Zenon
<1>3. NumInv => NumberValue
  BY NumHasValue, Zenon
<1> QED
  BY <1>1, <1>2, <1>3, MarksInvariance, PTL DEF TextSpec

-----------------------------------------------------------------------------
(***************************************************************************)
(* What rdb_next does with the characters that wdb.c writes                *)
(***************************************************************************)
Fresh(c) == [c EXCEPT !.ty = "incomplete"]

(* rdb_next clears ty first and leaves the rest.                           *)
LEMMA FreshIs ==
  ASSUME NEW c, IsCtx(c)
  PROVE  /\ Incomplete(Fresh(c)) /\ Fields = DOMAIN Fresh(c)
         /\ \A x \in Fields \ {"ty"} : Fresh(c)[x] = c[x]
<1>1. Fields = DOMAIN c
  BY DEF IsCtx
<1>2. /\ Fields = DOMAIN Fresh(c) /\ Fresh(c)["ty"] = "incomplete"
      /\ \A x \in Fields \ {"ty"} : Fresh(c)[x] = c[x]
  BY <1>1 DEF Fresh, Fields
<1>3. Incomplete(Fresh(c))
  BY <1>2 DEF Incomplete, IsCtx, Fields
<1> QED
  BY <1>2, <1>3

(* rdb_next is the function of the state.                                  *)
LEMMA NextIs ==
  ASSUME NEW c, IsCtx(c), NEW ch
  PROVE  /\ c.st = "idle" => rdb_next(c, ch) = next_idle_(Fresh(c), ch)
         /\ c.st = "key" => rdb_next(c, ch) = next_key_(Fresh(c), ch)
         /\ c.st = "str" => rdb_next(c, ch) = next_str_(Fresh(c), ch)
         /\ c.st = "long_str" => rdb_next(c, ch) = next_long_str_(Fresh(c), ch)
         /\ c.st = "num" => rdb_next(c, ch) = next_num_(Fresh(c), ch)
         /\ c.st = "bool" => rdb_next(c, ch) = next_bool_(Fresh(c), ch)
<1> DEFINE d == Fresh(c)
<1>1. d.st = c.st
  BY FreshIs DEF Fields
<1>2. rdb_next(c, ch) = CASE d.st = "idle" -> next_idle_(d, ch)
                          [] d.st = "key" -> next_key_(d, ch)
                          [] d.st = "str" -> next_str_(d, ch)
                          [] d.st = "long_str" -> next_long_str_(d, ch)
                          [] d.st = "num" -> next_num_(d, ch)
                          [] d.st = "bool" -> next_bool_(d, ch)
  BY Zenon DEF rdb_next, Fresh
<1> HIDE DEF d
<1>3. /\ d.st = "idle" => rdb_next(c, ch) = next_idle_(d, ch)
      /\ d.st = "key" => rdb_next(c, ch) = next_key_(d, ch)
      /\ d.st = "str" => rdb_next(c, ch) = next_str_(d, ch)
      /\ d.st = "long_str" => rdb_next(c, ch) = next_long_str_(d, ch)
      /\ d.st = "num" => rdb_next(c, ch) = next_num_(d, ch)
      /\ d.st = "bool" => rdb_next(c, ch) = next_bool_(d, ch)
  BY <1>2
<1> QED
  BY <1>1, <1>3 DEF d

(* The two results                                                         *)
LEMMA Results == \A c : Ret(c).r = "ok" /\ Ret(c).c = c /\ Syntax(c).r = "syntax" /\ Syntax(c).c = c
BY DEF Ret, Syntax

(* The character was accepted and completed no value.                      *)
Quiet(res) == res.r = "ok" /\ res.c.ty = "incomplete"

(* What rdb_next can return, and that it goes on after no '\0'             *)
Returns(ch, res) == res.r \in {"ok", "fin", "syntax"} /\ (ch = "NUL" => res.r # "ok")

(* The states, by their functions                                          *)
LEMMA StateReturns ==
  ASSUME NEW c, NEW ch
  PROVE  /\ Returns(ch, next_num_int_(c, ch)) /\ Returns(ch, next_num_frac_(c, ch)) /\ Returns(ch, next_num_exp_(c, ch))
         /\ Returns(ch, next_bool_(c, ch)) /\ Returns(ch, next_key_(c, ch))
         /\ Returns(ch, next_str_(c, ch)) /\ Returns(ch, next_long_str_(c, ch))
<1>1. ~IsDigit("NUL")
  BY DigitChars DEF IsDigit
<1>2. \A d : Ret(d).r = "ok" /\ Syntax(d).r = "syntax"
  BY DEF Ret, Syntax
<1>3. \A d, ty : PlainEnd(d, ty, ch).r = IF ch = "NUL" THEN "fin" ELSE "ok"
  BY DEF PlainEnd
<1>4. \A d, x : Put(d, x).r \in {"ok", "syntax"} /\ StrEnd(d).r \in {"ok", "syntax"} /\ ToExp(d).r = "ok"
  BY <1>2, Zenon DEF Put, StrEnd, ToExp
<1>5. Returns(ch, next_num_int_(c, ch))
  BY <1>1, <1>2, <1>3, <1>4 DEF next_num_int_, Returns
<1>6. Returns(ch, next_num_frac_(c, ch))
  BY <1>1, <1>2, <1>3, <1>4 DEF next_num_frac_, Returns
<1>7. Returns(ch, next_num_exp_(c, ch))
  BY <1>1, <1>2, <1>3, <1>4 DEF next_num_exp_, Returns
<1>8. Returns(ch, next_bool_(c, ch))
  <2>1. is_separator_("NUL")
    BY DEF is_separator_
  <2>. QED
    BY <1>2, <1>3, <2>1 DEF next_bool_, Returns
<1>9. Returns(ch, next_key_(c, ch))
  <2>1. "NUL" \notin Letters \cup Chars(digit) \cup {".", "_", "-"} /\ "NUL" \notin {":", " ", "\t"}
    BY DigitChars DEF Letters
  <2>. QED
    BY <1>2, <1>4, <2>1 DEF next_key_, Returns
<1>10. Returns(ch, next_str_(c, ch))
  BY <1>2, <1>4 DEF next_str_, Returns
<1>11. Returns(ch, next_long_str_(c, ch))
  <2>. DEFINE put == [c EXCEPT !.is_escape = FALSE, !.skip_whitespace = FALSE]
              e == [put EXCEPT !.keep_last_newline = (escape_ch_(ch) = "\n")]
              f == [put EXCEPT !.keep_last_newline = FALSE]
              g == [c EXCEPT !.is_escape = TRUE, !.skip_whitespace = FALSE]
              h == [c EXCEPT !.skip_whitespace = (ch # "\n"), !.keep_last_newline = TRUE]
  <2>1. next_long_str_(c, ch) \in {Syntax(c), Put(e, escape_ch_(ch)), StrEnd(WithoutNewline(c)), Ret(g), Ret(h), Put(f, ch)}
    BY Zenon DEF next_long_str_
  <2>2. ch = "NUL" => next_long_str_(c, ch) = Syntax(c)
    BY Zenon DEF next_long_str_
  <2>. HIDE DEF e, f, g, h
  <2>. QED
    BY <1>2, <1>4, <2>1, <2>2 DEF Returns
<1>. QED
  BY <1>5, <1>6, <1>7, <1>8, <1>9, <1>10, <1>11

(* next_idle_ ends at a '\0', and every other state passes it on.          *)
LEMMA NextReturns ==
  ASSUME NEW ctx, IsCtx(ctx), NEW ch
  PROVE  Returns(ch, rdb_next(ctx, ch))
<1>. DEFINE c == [ctx EXCEPT !.ty = "incomplete"]
            n == Enter(c, "num")
<1>1. Incomplete(c) /\ IsCtx(n)
  <2>1. Incomplete(c)
    BY DEF Incomplete, IsCtx, Fields
  <2>. HIDE DEF c
  <2>. QED
    BY <2>1, EnterKeeps DEF ValStates, Incomplete
<1>2. rdb_next(ctx, ch) = CASE c.st = "idle" -> next_idle_(c, ch)
                            [] c.st = "key" -> next_key_(c, ch)
                            [] c.st = "str" -> next_str_(c, ch)
                            [] c.st = "long_str" -> next_long_str_(c, ch)
                            [] c.st = "num" -> next_num_(c, ch)
                            [] c.st = "bool" -> next_bool_(c, ch)
  BY Zenon DEF rdb_next
<1>. HIDE DEF c
<1>3. c.st \in {"idle", "key", "str", "long_str", "num", "bool"}
  BY <1>1 DEF Incomplete, IsCtx, States, ValStates, StrStates
<1>4. ASSUME NEW e, IsCtx(e) PROVE Returns(ch, next_num_(e, ch))
  <2>1. e.num.part \in {"int", "frac", "exp"}
    BY <1>4 DEF IsCtx
  <2>. QED
    BY <2>1, StateReturns DEF next_num_
<1>5. Returns(ch, next_idle_(c, ch))
  <2>1. Returns(ch, next_num_(n, ch))
    BY <1>1, <1>4
  <2>2. Returns(ch, next_bool_(Enter(c, "bool"), ch)) /\ Returns(ch, next_key_(EnterKey(c), ch))
    BY StateReturns
  <2>3. \A d : Ret(d).r = "ok" /\ Syntax(d).r = "syntax"
    BY DEF Ret, Syntax
  <2>4. ~IsDigit("NUL")
    BY DigitChars DEF IsDigit
  <2>5. CASE ch = "NUL"
    <3>1. next_idle_(c, ch) = [c |-> LineEnd(c), r |-> "fin"]
      BY <2>4, <2>5 DEF next_idle_
    <3>. QED
      BY <3>1 DEF Returns
  <2>6. CASE ch # "NUL"
    <3>1. next_idle_(c, ch).r \in {"ok", "fin", "syntax"}
      BY <2>1, <2>2, <2>3, <2>6 DEF next_idle_, Returns
    <3>. QED
      BY <2>6, <3>1 DEF Returns
  <2>. QED
    BY <2>5, <2>6
<1>. QED
  BY <1>1, <1>2, <1>3, <1>4, <1>5, StateReturns DEF Incomplete

(* A character that is refused completes no value.                         *)
Mute(res) == res.r = "syntax" => res.c.ty = "incomplete"

(* The functions of the states but idle                                    *)
LEMMA StateMute ==
  ASSUME NEW c, Fields = DOMAIN c, c.ty = "incomplete", NEW ch
  PROVE  /\ Mute(next_num_int_(c, ch)) /\ Mute(next_num_frac_(c, ch)) /\ Mute(next_num_exp_(c, ch))
         /\ Mute(next_bool_(c, ch)) /\ Mute(next_key_(c, ch)) /\ Mute(next_str_(c, ch)) /\ Mute(next_long_str_(c, ch))
<1> USE ZenonT(40)
<1>1. \A d : Mute(Ret(d)) /\ (d.ty = "incomplete" => Mute(Syntax(d)))
  <2>1. "ok" # "syntax"
    BY SMT
  <2> QED
    BY <2>1, Results DEF Mute
<1>2. \A ty : Mute(PlainEnd(c, ty, ch))
  <2>1. \A ty : PlainEnd(c, ty, ch).r \in {"ok", "fin"}
    BY SMT DEF PlainEnd
  <2>2. "syntax" \notin {"ok", "fin"}
    BY SMT
  <2> QED
    BY <2>1, <2>2 DEF Mute
<1>3. \A d, x : d.ty = "incomplete" => Mute(Put(d, x)) /\ Mute(StrEnd(d))
  BY <1>1 DEF Put, StrEnd
<1>4. Mute(ToExp(c)) /\ Mute(Syntax(c))
  BY <1>1 DEF ToExp
<1>5. Mute(next_num_int_(c, ch))
  BY <1>1, <1>2, <1>4, SMT DEF next_num_int_
<1>6. Mute(next_num_frac_(c, ch))
  BY <1>1, <1>2, <1>4, SMT DEF next_num_frac_
<1>7. Mute(next_num_exp_(c, ch))
  BY <1>1, <1>2, <1>4, SMT DEF next_num_exp_
<1>8. Mute(next_bool_(c, ch))
  BY <1>1, <1>2, <1>4 DEF next_bool_
<1>9. Mute(next_key_(c, ch))
  BY <1>1, <1>3, <1>4 DEF next_key_
<1>10. [c EXCEPT !.is_escape = FALSE].ty = "incomplete"
  BY SMT DEF Fields
<1>11. Mute(next_str_(c, ch))
  BY <1>1, <1>3, <1>4, <1>10 DEF next_str_
<1>12. Mute(next_long_str_(c, ch))
  <2> DEFINE put == [c EXCEPT !.is_escape = FALSE, !.skip_whitespace = FALSE]
             e == [put EXCEPT !.keep_last_newline = (escape_ch_(ch) = "\n")]
             f == [put EXCEPT !.keep_last_newline = FALSE]
             g == [c EXCEPT !.is_escape = TRUE, !.skip_whitespace = FALSE]
             h == [c EXCEPT !.skip_whitespace = (ch # "\n"), !.keep_last_newline = TRUE]
  <2>1. next_long_str_(c, ch) \in {Syntax(c), Put(e, escape_ch_(ch)), StrEnd(WithoutNewline(c)), Ret(g), Ret(h), Put(f, ch)}
    BY DEF next_long_str_
  <2>2. \A b : [put EXCEPT !.keep_last_newline = b].ty = "incomplete"
    BY SMT DEF Fields
  <2>3. WithoutNewline(c).ty = "incomplete"
    BY SMT DEF WithoutNewline, Fields
  <2>4. e.ty = "incomplete" /\ f.ty = "incomplete"
    BY <2>2
  <2> HIDE DEF e, f, g, h
  <2> QED
    BY <1>1, <1>3, <1>4, <2>1, <2>3, <2>4
<1> QED
  BY <1>5, <1>6, <1>7, <1>8, <1>9, <1>11, <1>12

(* And rdb_next: an error reports nothing.                                 *)
LEMMA NextMute ==
  ASSUME NEW ctx, IsCtx(ctx), NEW ch
  PROVE  Mute(rdb_next(ctx, ch))
<1> USE ZenonT(40)
<1> DEFINE c == Fresh(ctx)
<1>1. Incomplete(c) /\ Fields = DOMAIN c /\ c.st = ctx.st
  BY FreshIs, SMT DEF Fields
<1>2. ctx.st \in {"idle", "key", "str", "long_str", "num", "bool"}
  BY SMT DEF IsCtx, States, ValStates, StrStates
<1> HIDE DEF c
<1>3. c.ty = "incomplete" /\ IsCtx(c)
  BY <1>1 DEF Incomplete
<1>4. ASSUME NEW e, Incomplete(e) PROVE Mute(next_num_(e, ch))
  <2>1. e.num.part \in {"int", "frac", "exp"} /\ Fields = DOMAIN e /\ e.ty = "incomplete"
    BY <1>4 DEF IsCtx, Incomplete
  <2>2. Mute(next_num_int_(e, ch)) /\ Mute(next_num_frac_(e, ch)) /\ Mute(next_num_exp_(e, ch))
    BY <2>1, StateMute
  <2> QED
    BY <2>1, <2>2, SMT DEF next_num_
<1>5. Mute(next_idle_(c, ch))
  <2> DEFINE n == Enter(c, "num")
             b == Enter(c, "bool")
             k == EnterKey(c)
             z == [c |-> LineEnd(c), r |-> "fin"]
  <2>1. Incomplete(n) /\ Incomplete(b)
    BY <1>1, EnterKeeps DEF ValStates
  <2>2. Fields = DOMAIN b /\ b.ty = "incomplete"
    BY <2>1 DEF Incomplete, IsCtx
  <2>3. Fields = DOMAIN k /\ k.ty = "incomplete"
    BY <1>1, <1>3, SMT DEF EnterKey, Fields
  <2>4. Mute(z)
    BY SMT DEF Mute
  <2>5. \A d : Mute(Ret(d)) /\ (d.ty = "incomplete" => Mute(Syntax(d)))
    <3>1. "ok" # "syntax"
      BY SMT
    <3> QED
      BY <3>1, Results DEF Mute
  <2>6. Mute(next_num_(n, ch)) /\ Mute(Syntax(c))
    BY <1>3, <1>4, <2>1, <2>5
  <2>7. Mute(next_bool_(b, ch)) /\ Mute(next_key_(k, ch))
    <3> HIDE DEF b, k
    <3> QED BY <2>2, <2>3, StateMute
  <2> QED
    BY <2>4, <2>5, <2>6, <2>7 DEF next_idle_
<1>6. Mute(next_num_(c, ch)) /\ Mute(next_bool_(c, ch)) /\ Mute(next_key_(c, ch)) /\ Mute(next_str_(c, ch)) /\ Mute(next_long_str_(c, ch))
  BY <1>1, <1>3, <1>4, StateMute
<1> QED
  BY <1>2, <1>5, <1>6, NextIs DEF c

(* A context reports at most one value.                                    *)
LEMMA TokenSeq ==
  ASSUME NEW c
  PROVE  IsSeq(Token(c)) /\ (c.ty = "incomplete" => Token(c) = <<>>)
<1> USE ZenonT(40)
<1>1. \E x : Token(c) = <<x>> \/ Token(c) = <<>>
  BY DEF Token
<1>2. IsSeq(<<>>)
  BY EmptySeq, SMT DEF IsSeq
<1>3. c.ty = "incomplete" => Token(c) = <<>>
  BY DEF Token
<1> QED
  BY <1>1, <1>2, <1>3, OneChar

(* Between values: ',', a newline, a space and the '\0'                    *)
LEMMA IdleChars ==
  ASSUME NEW c, IsCtx(c), c.st = "idle"
  PROVE  /\ LET res == rdb_next(c, ",") IN
            /\ Quiet(res) /\ res.c.st = "idle" /\ res.c.is_in_arr = TRUE
            /\ res.c.got_key = c.got_key /\ res.c.expect_colon = c.expect_colon
         /\ LET res == rdb_next(c, "\n") IN
            /\ Quiet(res) /\ res.c.st = "idle" /\ res.c.got_key = FALSE /\ res.c.expect_colon = c.expect_colon
         /\ LET res == rdb_next(c, " ") IN
            /\ Quiet(res) /\ res.c.st = "idle" /\ res.c.got_key = c.got_key /\ res.c.expect_colon = c.expect_colon
            /\ res.c.is_in_arr = c.is_in_arr /\ res.c.got_first_val = c.got_first_val
         /\ rdb_next(c, "NUL").r = "fin" /\ rdb_next(c, "NUL").c.ty = "incomplete"
<1> USE ZenonT(40)
<1> DEFINE d == Fresh(c)
<1>1. /\ Fields = DOMAIN d /\ d.ty = "incomplete" /\ d.st = "idle" /\ d.got_key = c.got_key
      /\ d.expect_colon = c.expect_colon /\ d.is_in_arr = c.is_in_arr /\ d.got_first_val = c.got_first_val
  BY FreshIs, SMT DEF Fields, Incomplete
<1>2. \A ch : rdb_next(c, ch) = next_idle_(d, ch)
  BY NextIs
<1>3. ~IsDigit(",") /\ ~IsDigit("\n") /\ ~IsDigit(" ") /\ ~IsDigit("NUL")
  BY DigitChars, SMT DEF IsDigit
<1> HIDE DEF d
<1>4. /\ next_idle_(d, ",") = Ret([d EXCEPT !.is_in_arr = TRUE])
      /\ next_idle_(d, "\n") = Ret(LineEnd(d))
      /\ next_idle_(d, " ") = Ret(d)
      /\ next_idle_(d, "NUL") = [c |-> LineEnd(d), r |-> "fin"]
  BY <1>3 DEF next_idle_
<1> DEFINE x == [d EXCEPT !.is_in_arr = TRUE]
           y == LineEnd(d)
<1>5. x.ty = "incomplete" /\ x.st = "idle" /\ x.is_in_arr = TRUE /\ x.got_key = c.got_key /\ x.expect_colon = c.expect_colon
  BY <1>1, SMT DEF Fields
<1>6. y.ty = "incomplete" /\ y.st = "idle" /\ y.got_key = FALSE /\ y.expect_colon = c.expect_colon
  BY <1>1, SMT DEF Fields, LineEnd
<1>7. [c |-> y, r |-> "fin"].c = y /\ [c |-> y, r |-> "fin"].r = "fin"
  BY SMT
<1>8. rdb_next(c, ",") = Ret(x) /\ rdb_next(c, "\n") = Ret(y) /\ rdb_next(c, " ") = Ret(d) /\ rdb_next(c, "NUL") = [c |-> y, r |-> "fin"]
  BY <1>2, <1>4
<1> HIDE DEF x, y
<1>9. \A e : e.ty = "incomplete" => Quiet(Ret(e)) /\ Ret(e).c = e
  BY Results DEF Quiet
<1>10. Quiet(rdb_next(c, ",")) /\ rdb_next(c, ",").c = x
  BY <1>5, <1>8, <1>9
<1>11. Quiet(rdb_next(c, "\n")) /\ rdb_next(c, "\n").c = y
  BY <1>6, <1>8, <1>9
<1>12. Quiet(rdb_next(c, " ")) /\ rdb_next(c, " ").c = d
  BY <1>1, <1>8, <1>9
<1>13. rdb_next(c, "NUL").r = "fin" /\ rdb_next(c, "NUL").c = y
  BY <1>7, <1>8
<1> QED
  BY <1>1, <1>5, <1>6, <1>10, <1>11, <1>12, <1>13

(* A value of which no text is read back: a key or a string without room   *)
(* in the reader's buffer, a key that does not begin with a letter or '_', *)
(* a '\0' in a string, and the integer -0.                                 *)
BeginsKey(v) == v # <<>> /\ v[1] \in Letters \cup {"_"}

Unreadable(x) ==
  \/ x[1] \in {"key", "str"} /\ Len(x[2]) >= str_mlen
  \/ x[1] = "key" /\ ~BeginsKey(x[2])
  \/ x[1] = "str" /\ "NUL" \in Chars(x[2])
  \/ x[1] = "num" /\ x[2].neg /\ x[2].mant = 0 /\ x[2].fracs = 0

(* A number or a word whose text is complete; its separator comes with the *)
(* next call of the writer.                                                *)
Pending(c) == IF c.st = "num" THEN <<"num", rdb_cur_num(c)>> ELSE <<"bool", rdb_cur_is_true(c)>>

PlainOk(c) ==
  \/ /\ c.st = "num" /\ c.num.part = "int"
     /\ c.num.pos > 0 \/ ~c.num.got_sign \/ Unreadable(Pending(c))
  \/ c.st = "num" /\ c.num.part = "frac" /\ c.num.pos >= 2
  \/ c.st = "bool" /\ (IsTrue(c.word) \/ IsFalse(c.word))

PlainNext(res, c, ch) ==
  \/ /\ res.r = "ok" /\ Token(res.c) = <<Pending(c)>> /\ res.c.st = "idle"
     /\ res.c.expect_colon = FALSE /\ res.c.got_key = (ch # "\n") /\ res.c.is_in_arr = (ch = ",")
  \/ res.r = "syntax" /\ Unreadable(Pending(c))

(* A ',' or a newline ends a number or a word, and reports it.             *)
LEMMA PlainChars ==
  ASSUME NEW c, IsCtx(c), PlainOk(c), NEW ch \in {",", "\n"}
  PROVE  PlainNext(rdb_next(c, ch), c, ch)
<1> USE ZenonT(40)
<1> DEFINE d == Fresh(c)
           res == rdb_next(c, ch)
<1>1. Fields = DOMAIN d /\ d.st = c.st /\ d.num = c.num /\ d.word = c.word
  BY FreshIs DEF Fields
<1>2. is_separator_(ch) /\ ~IsDigit(ch) /\ ch \notin {"-", "+", ".", "e", "NUL"}
  BY DigitChars DEF IsDigit, is_separator_
<1> DEFINE Ended(e, ty) ==
             /\ e.r = "ok" /\ e.c.ty = ty /\ e.c.st = "idle" /\ e.c.expect_colon = FALSE /\ e.c.got_key = (ch # "\n")
             /\ e.c.is_in_arr = (ch = ",") /\ e.c.num = c.num /\ e.c.word = c.word
<1>3. \A ty : Ended(PlainEnd(d, ty, ch), ty)
  <2> TAKE ty
  <2> DEFINE x == [d EXCEPT !.ty = ty, !.st = "idle", !.expect_colon = FALSE, !.is_in_arr = (ch = ","),
                            !.got_key = (ch # "\n"), !.got_first_val = TRUE]
  <2>1. PlainEnd(d, ty, ch).c = x /\ PlainEnd(d, ty, ch).r = "ok"
    BY <1>2 DEF PlainEnd
  <2>2. /\ x.ty = ty /\ x.st = "idle" /\ x.expect_colon = FALSE /\ x.num = c.num /\ x.word = c.word
        /\ x.got_key = (ch # "\n") /\ x.is_in_arr = (ch = ",")
    <3> HIDE DEF d
    <3> QED
      BY <1>1 DEF Fields
  <2> HIDE DEF x, d
  <2> QED
    BY <2>1, <2>2
<1> HIDE DEF Ended
<1>4. CASE c.st = "num"
  <2>1. res = next_num_(d, ch)
    BY <1>4, NextIs
  <2>2. Pending(c) = <<"num", rdb_cur_num(c)>>
    BY <1>4 DEF Pending
  <2> HIDE DEF d
  <2>3. \/ res = PlainEnd(d, "num", ch)
        \/ res = Syntax(d) /\ Unreadable(Pending(c))
    <3>1. CASE c.num.part = "int"
      <4>1. res = next_num_int_(d, ch)
        BY <1>1, <2>1, <3>1 DEF next_num_
      <4>2. d.num.pos > 0 \/ ~d.num.got_sign \/ Unreadable(Pending(c))
        BY <1>1, <1>4, <3>1 DEF PlainOk
      <4>3. \/ (d.num.pos > 0 \/ ~d.num.got_sign) /\ next_num_int_(d, ch) = PlainEnd(d, "num", ch)
            \/ ~(d.num.pos > 0 \/ ~d.num.got_sign) /\ next_num_int_(d, ch) = Syntax(d)
        BY <1>2 DEF next_num_int_
      <4> QED
        BY <4>1, <4>2, <4>3
    <3>2. CASE c.num.part # "int"
      <4>1. d.num.part = "frac" /\ d.num.pos >= 2
        BY <1>1, <1>4, <3>2 DEF PlainOk
      <4>2. res = next_num_frac_(d, ch)
        BY <2>1, <4>1 DEF next_num_
      <4> QED
        BY <1>2, <4>1, <4>2 DEF next_num_frac_
    <3> QED
      BY <3>1, <3>2
  <2>4. ASSUME NEW e, e.ty = "num", e.num = c.num PROVE Token(e) = <<Pending(c)>>
    BY <2>2, <2>4 DEF Token, rdb_cur_num
  <2>5. Ended(PlainEnd(d, "num", ch), "num")
    BY <1>3
  <2>6. res = PlainEnd(d, "num", ch) => Token(res.c) = <<Pending(c)>>
    BY <2>4, <2>5 DEF Ended
  <2> HIDE DEF res
  <2> QED
    BY <2>3, <2>5, <2>6, Results DEF Ended, PlainNext, res
<1>5. CASE c.st # "num"
  <2>1. c.st = "bool" /\ (IsTrue(d.word) \/ IsFalse(d.word))
    BY <1>1, <1>5 DEF PlainOk
  <2>2. res = next_bool_(d, ch)
    BY <2>1, NextIs
  <2> HIDE DEF d
  <2>3. res = PlainEnd(d, "bool", ch)
    BY <1>2, <2>1, <2>2 DEF next_bool_
  <2>4. Pending(c) = <<"bool", IsTrue(c.word)>>
    BY <1>5 DEF Pending, rdb_cur_is_true
  <2>5. ASSUME NEW e, e.ty = "bool", e.word = c.word PROVE Token(e) = <<Pending(c)>>
    BY <2>4, <2>5 DEF Token, rdb_cur_is_true
  <2>6. Ended(res, "bool")
    BY <1>3, <2>3
  <2>7. Token(res.c) = <<Pending(c)>>
    BY <2>5, <2>6 DEF Ended
  <2> HIDE DEF res
  <2> QED
    BY <2>6, <2>7 DEF Ended, PlainNext, res
<1> QED
  BY <1>4, <1>5
=============================================================================
