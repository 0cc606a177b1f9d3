------------------------------ MODULE DbProofs ------------------------------
(***************************************************************************)
(* What wdb.c and rdb.c do together, for texts and values of any length    *)
(* and buffers of any size.                                                *)
(*                                                                         *)
(* TypeOK of Db: IsWriter is kept by every call of wdb.c, a text that is   *)
(* read ends with the '\0' of wdb_fin, and no state of rdb.c goes on after *)
(* a '\0' (Returns).                                                       *)
(*                                                                         *)
(* ReadsBack and RefusedOnlyWhenLong are about the end of a run of which   *)
(* the reading is only the last part.  Tellable(w, said) says of a text    *)
(* under way what the reader would make of it, and is kept by every call   *)
(* of wdb.c.  Done says it of the text with its '\0', and the reader,      *)
(* one character after the other, gets what Done promises (BackInv).       *)
(***************************************************************************)
EXTENDS DbReadProofs

-----------------------------------------------------------------------------
(***************************************************************************)
(* What the reader makes of the text of a writer: s is the text so far and *)
(* u the accepted calls.                                                   *)
(***************************************************************************)
(* The reader refuses s, and a value of u explains it.                     *)
Explained(u) == \E i \in 1..Len(u) : Unreadable(u[i])

Refused(s, u) == \E t : Stuck(s, t) /\ Prefix(t, u) /\ Explained(u)

(* At the end of s the reader has reported u, or all of it but a number or *)
(* a word that it is still reading.  k and f are the flags got_key and     *)
(* is_first_val of the writer.                                             *)
SettledAt(c, t, k, f, u) ==
  \/ c.st = "idle" /\ c.got_key = k /\ c.expect_colon = FALSE /\ (f => c.got_first_val = FALSE) /\ t = u
  \/ PlainOk(c) /\ k = TRUE /\ f = FALSE /\ u = Append(t, Pending(c))

Settled(s, k, f, u) == \E c, t : Reads(s, Len(s), c, t) /\ SettledAt(c, t, k, f, u)

(* What follows does not change a refusal.                                 *)
LEMMA StuckStays ==
  ASSUME NEW s, NEW z, NEW t, Stuck(s, t), Extends(z, s)
  PROVE  Stuck(z, t)
<1> USE ZenonT(40)
<1>1. PICK n \in Nat : \E c : n + 1 <= Len(s) /\ Reads(s, n, c, t) /\ rdb_next(c, s[n + 1]).r = "syntax"
  BY DEF Stuck
<1>2. PICK c : n + 1 <= Len(s) /\ Reads(s, n, c, t) /\ rdb_next(c, s[n + 1]).r = "syntax"
  BY <1>1
<1>3. Len(s) \in Nat /\ Len(z) \in Nat /\ Len(s) <= Len(z) /\ \A k \in 1..Len(s) : z[k] = s[k]
  BY DEF Extends
<1>4. n + 1 \in 1..Len(s) /\ n + 1 <= Len(z) /\ \A k \in 1..n : k \in 1..Len(s)
  BY <1>2, <1>3, SMT
<1>5. Reads(z, n, c, t)
  BY <1>2, <1>3, <1>4, ReadsSame
<1>6. z[n + 1] = s[n + 1]
  BY <1>3, <1>4
<1> QED
  BY <1>2, <1>4, <1>5, <1>6 DEF Stuck

(* An explanation stays one, and a token that is not readable is one.      *)
LEMMA ExplainedStays ==
  ASSUME NEW u, IsSeq(u), NEW x
  PROVE  (Explained(u) => Explained(Append(u, x))) /\ (Unreadable(x) => Explained(Append(u, x)))
<1>1. /\ Len(u) \in Nat /\ Len(Append(u, x)) = Len(u) + 1
      /\ Append(u, x)[Len(u) + 1] = x /\ \A i \in 1..Len(u) : Append(u, x)[i] = u[i]
  BY AppendIs, ZenonT(40)
<1>2. Len(u) + 1 \in 1..Len(Append(u, x)) /\ \A i \in 1..Len(u) : i \in 1..Len(Append(u, x))
  BY <1>1
<1>3. Explained(u) => Explained(Append(u, x))
  BY <1>1, <1>2, Zenon DEF Explained
<1>4. Unreadable(x) => Explained(Append(u, x))
  BY <1>1, <1>2, Zenon DEF Explained
<1> QED
  BY <1>3, <1>4

(* A refusal stays one.                                                    *)
LEMMA RefusedStays ==
  ASSUME NEW s, NEW z, NEW u, Refused(s, u), IsSeq(u), Extends(z, s)
  PROVE  Refused(z, u) /\ \A x : Refused(z, Append(u, x))
<1> USE ZenonT(40)
<1>1. PICK t : Stuck(s, t) /\ Prefix(t, u) /\ Explained(u)
  BY DEF Refused
<1>2. Stuck(z, t)
  BY <1>1, StuckStays
<1>3. ASSUME NEW x PROVE Refused(z, Append(u, x))
  <2>1. Prefix(t, Append(u, x)) /\ Explained(Append(u, x))
    BY <1>1, PrefixAppend, ExplainedStays
  <2> QED
    BY <1>2, <2>1 DEF Refused
<1> QED
  BY <1>1, <1>2, <1>3 DEF Refused

SepOut(z, n, t, u) ==
  \/ \E d : Reads(z, n, d, u) /\ Ready(d)
  \/ Stuck(z, t) /\ \E y : u = Append(t, y) /\ Unreadable(y)

InList(d) == d.st = "idle" /\ d.got_key = TRUE /\ d.expect_colon = FALSE /\ d.is_in_arr = TRUE

CommaOut(z, n, t, u) ==
  \/ \E d : Reads(z, n, d, u) /\ InList(d)
  \/ Stuck(z, t) /\ \E y : u = Append(t, y) /\ Unreadable(y)

(* The ',' ends a number or a word that is being read.                     *)
LEMMA CommaRead ==
  ASSUME NEW z, NEW p \in Nat, p + 1 <= Len(z), z[p + 1] = ",", NEW c, NEW t, Reads(z, p, c, t), NEW u, NEW f,
         SettledAt(c, t, TRUE, f, u)
  PROVE  CommaOut(z, p + 1, t, u)
<1> USE ZenonT(40)
<1>1. IsCtx(c)
  BY ReadsTyped
<1> DEFINE res == rdb_next(c, z[p + 1])
<1>2. CASE c.st = "idle" /\ c.got_key = TRUE /\ c.expect_colon = FALSE /\ t = u
  <2>1. Quiet(rdb_next(c, ",")) /\ InList(rdb_next(c, ",").c)
    BY <1>1, <1>2, IdleChars DEF InList
  <2>2. Quiet(res) /\ InList(res.c)
    BY <2>1
  <2>3. Reads(z, p + 1, res.c, t)
    BY <2>2, Goes
  <2> QED
    BY <1>2, <2>2, <2>3 DEF CommaOut
<1>3. CASE PlainOk(c) /\ u = Append(t, Pending(c))
  <2>1. "," \in {",", "\n"} /\ ("," # "\n") = TRUE /\ ("," = ",") = TRUE
    OBVIOUS
  <2>2. \/ res.r = "ok" /\ Token(res.c) = <<Pending(c)>> /\ InList(res.c)
        \/ res.r = "syntax" /\ Unreadable(Pending(c))
    <3>1. PlainNext(rdb_next(c, ","), c, ",")
      BY <1>1, <1>3, <2>1, PlainChars
    <3> QED
      BY <2>1, <3>1 DEF PlainNext, InList
  <2>3. CASE res.r = "ok" /\ Token(res.c) = <<Pending(c)>> /\ InList(res.c)
    <3>1. Reads(z, p + 1, res.c, Append(t, Pending(c)))
      BY <2>3, Tells
    <3> QED
      BY <1>3, <2>3, <3>1 DEF CommaOut
  <2>4. CASE res.r = "syntax" /\ Unreadable(Pending(c))
    <3>1. Stuck(z, t)
      BY <2>4 DEF Stuck
    <3> QED
      BY <1>3, <2>4, <3>1 DEF CommaOut
  <2> QED
    BY <2>2, <2>3, <2>4
<1> QED
  BY <1>2, <1>3 DEF SettledAt

(* The ',' and the space bring the reader to where a value may come.       *)
LEMMA SepRead ==
  ASSUME NEW z, Len(z) \in Nat, NEW p \in Nat, NEW c, NEW t, Reads(z, p, c, t), NEW f \in BOOLEAN, NEW u,
         SettledAt(c, t, TRUE, f, u), Segment(z, p, Sep(f))
  PROVE  SepOut(z, p + Len(Sep(f)), t, u)
<1> USE ZenonT(40)
<1>1. CASE f = TRUE
  <2>1. Sep(f) = <<>>
    BY <1>1 DEF Sep
  <2>2. p + Len(Sep(f)) = p
    BY <2>1, SMT
  <2>3. c.st = "idle" /\ c.got_key = TRUE /\ c.expect_colon = FALSE /\ c.got_first_val = FALSE /\ t = u
    BY <1>1 DEF SettledAt
  <2>4. Ready(c)
    BY <2>3 DEF Ready, is_val_expected
  <2> QED
    BY <2>2, <2>3, <2>4 DEF SepOut
<1>2. CASE f = FALSE
  <2>1. Sep(f) = <<",", " ">>
    BY <1>2 DEF Sep
  <2> DEFINE Ends(e, x, y) == Len(e) = 2 /\ (Segment(z, p, e) => p + 2 <= Len(z) /\ z[p + 1] = x /\ z[p + 2] = y)
  <2>2. \A x, y : Ends(<<x, y>>, x, y)
    BY TwoChars, SMT
  <2> HIDE DEF Ends
  <2>3. Ends(Sep(f), ",", " ")
    BY <2>1, <2>2
  <2>4. p + 2 <= Len(z) /\ z[p + 1] = "," /\ z[p + 2] = " " /\ Len(Sep(f)) = 2 /\ p + Len(Sep(f)) = p + 2
    BY <2>3 DEF Ends
  <2>5. p + 1 <= Len(z) /\ (p + 1) + 1 = p + 2 /\ p + 1 \in Nat
    <3>1. p + 2 <= Len(z)
      BY <2>4
    <3> QED
      BY <3>1, SMT
  <2>6. CASE \E d : Reads(z, p + 1, d, u) /\ InList(d)
    <3>1. PICK d : Reads(z, p + 1, d, u) /\ InList(d)
      BY <2>6
    <3>2. IsCtx(d) /\ d.st = "idle" /\ d.got_key = TRUE /\ d.expect_colon = FALSE /\ d.is_in_arr = TRUE
      BY <2>5, <3>1, ReadsTyped DEF InList
    <3> DEFINE res == rdb_next(d, z[(p + 1) + 1])
    <3>3. Quiet(rdb_next(d, " ")) /\ Ready(rdb_next(d, " ").c)
      BY <3>2, IdleChars DEF Ready, is_val_expected
    <3>4. Quiet(res) /\ Ready(res.c)
      BY <2>4, <2>5, <3>3
    <3>5. Reads(z, (p + 1) + 1, res.c, u)
      BY <2>5, <3>1, <3>4, Goes
    <3> QED
      BY <2>4, <2>5, <3>4, <3>5 DEF SepOut
  <2>7. CASE Stuck(z, t) /\ \E y : u = Append(t, y) /\ Unreadable(y)
    BY <2>7 DEF SepOut
  <2> QED
    <3>1. CommaOut(z, p + 1, t, u)
      BY <2>4, <2>5, CommaRead
    <3> QED
      BY <2>6, <2>7, <3>1 DEF CommaOut
<1> QED
  BY <1>1, <1>2

(* A value behind its separator                                            *)
Told(s, k, f, u) == Settled(s, k, f, u) \/ Refused(s, u)

(* The separator and the text of a value together                          *)
LEMMA ValueRead ==
  ASSUME NEW s, NEW z, Extends(z, s), NEW f \in BOOLEAN, NEW u, IsSeq(u), Told(s, TRUE, f, u),
         NEW txt, NEW x, ReadAs(txt, x), IsSeq(txt), IsSeq(Sep(f)), Segment(z, Len(s), Sep(f) \o txt), Len(z) = Len(s) + Len(Sep(f) \o txt)
  PROVE  Told(z, TRUE, FALSE, Append(u, x))
<1> USE ZenonT(40)
<1>1. Len(s) \in Nat /\ Len(z) \in Nat /\ \A k \in 1..Len(s) : z[k] = s[k]
  BY DEF Extends
<1>2. CASE Refused(s, u)
  BY <1>2, RefusedStays DEF Told
<1>3. CASE Settled(s, TRUE, f, u)
  <2>1. PICK c, t : Reads(s, Len(s), c, t) /\ SettledAt(c, t, TRUE, f, u)
    BY <1>3 DEF Settled
  <2>2. Reads(z, Len(s), c, t)
    BY <1>1, <2>1, ReadsSame
  <2>3. Segment(z, Len(s), Sep(f)) /\ Segment(z, Len(s) + Len(Sep(f)), txt) /\ Len(Sep(f)) \in Nat /\ Len(txt) \in Nat
    BY <1>1, Parts
  <2>4. Len(Sep(f) \o txt) = Len(Sep(f)) + Len(txt)
    BY Concat
  <2>5. Len(s) + Len(Sep(f)) \in Nat /\ Len(z) = (Len(s) + Len(Sep(f))) + Len(txt)
    BY <1>1, <2>3, <2>4, SMT
  <2>6. SepOut(z, Len(s) + Len(Sep(f)), t, u)
    BY <1>1, <2>1, <2>2, <2>3, SepRead
  <2>7. CASE \E d : Reads(z, Len(s) + Len(Sep(f)), d, u) /\ Ready(d)
    <3>1. PICK d : Reads(z, Len(s) + Len(Sep(f)), d, u) /\ Ready(d)
      BY <2>7
    <3>2. Outcome(z, (Len(s) + Len(Sep(f))) + Len(txt), u, x)
      BY <1>1, <2>3, <2>5, <3>1 DEF ReadAs
    <3>3. Outcome(z, Len(z), u, x)
      BY <2>5, <3>2
    <3>4. CASE \E e : Reads(z, Len(z), e, Append(u, x)) /\ Free(e)
      <4>1. PICK e : Reads(z, Len(z), e, Append(u, x)) /\ Free(e)
        BY <3>4
      <4>2. SettledAt(e, Append(u, x), TRUE, FALSE, Append(u, x))
        BY <4>1 DEF SettledAt, Free
      <4> QED
        BY <4>1, <4>2 DEF Settled, Told
    <3>5. CASE \E e : Reads(z, Len(z), e, u) /\ PlainOk(e) /\ Pending(e) = x
      <4>1. PICK e : Reads(z, Len(z), e, u) /\ PlainOk(e) /\ Pending(e) = x
        BY <3>5
      <4>2. SettledAt(e, u, TRUE, FALSE, Append(u, x))
        BY <4>1 DEF SettledAt
      <4> QED
        BY <4>1, <4>2 DEF Settled, Told
    <3>6. CASE Stuck(z, u) /\ Unreadable(x)
      <4>1. Prefix(u, Append(u, x)) /\ Explained(Append(u, x))
        BY <3>6, PrefixSelf, PrefixAppend, ExplainedStays
      <4> QED
        BY <3>6, <4>1 DEF Refused, Told
    <3> QED
      BY <3>3, <3>4, <3>5, <3>6 DEF Outcome
  <2>8. CASE Stuck(z, t) /\ \E y : u = Append(t, y) /\ Unreadable(y)
    <3>1. PICK y : u = Append(t, y) /\ Unreadable(y)
      BY <2>8
    <3>2. IsSeq(t)
      BY <1>1, <2>1, ReadsTyped
    <3>3. Prefix(t, u) /\ Explained(u)
      BY <3>1, <3>2, PrefixSelf, PrefixAppend, ExplainedStays
    <3>4. Prefix(t, Append(u, x)) /\ Explained(Append(u, x))
      BY <3>3, PrefixAppend, ExplainedStays
    <3> QED
      BY <2>8, <3>4 DEF Refused, Told
  <2> QED
    BY <2>6, <2>7, <2>8 DEF SepOut
<1> QED
  BY <1>2, <1>3 DEF Told

(* The text that is read ends with the '\0' of wdb_fin, so that the reader *)
(* stops there at the latest.                                              *)
DbInv ==
  /\ phase \in {"write", "read", "done", "bad"}
  /\ IsWriter(w) /\ IsBuf(rdr) /\ calls \in 0..MaxCalls /\ pos \in Nat
  /\ phase \in {"write", "read"} => IsCtx(rdr)
  /\ phase = "write" => pos = 0
  /\ phase = "read" => pos < Len(w.out) /\ w.out[Len(w.out)] = "NUL"

(* Both contexts begin within their bounds.                                *)
LEMMA DbInit == Init => DbInv
<1>. SUFFICES ASSUME Init PROVE DbInv
  OBVIOUS
<1>1. IsCtx(rdr) /\ IsBuf(rdr)
  BY InitCtx, InitBuf DEF Init
<1>2. IsWriter(w)
  <2>1. IsSeq(<<>>) /\ Len(<<>>) <= mlen
    BY EmptySeq, WdbAssumption DEF IsSeq
  <2>2. DOMAIN w = {"out", "got_key", "is_first_val"} /\ w.out = <<>>
    BY DEF Init, wdb_init
  <2>. QED
    BY <2>1, <2>2 DEF IsWriter
<1>3. phase = "write" /\ calls \in 0..MaxCalls /\ pos = 0
  BY DbAssumption DEF Init
<1>. QED
  BY <1>1, <1>2, <1>3, ZenonT(40) DEF DbInv

(* A call of the writer                                                    *)
LEMMA DbCall ==
  ASSUME DbInv, NEW res, NEW token, IsWriter(res.c), Call(res, token)
  PROVE  DbInv'
<1>1. phase = "write" /\ phase' = "write" /\ w' = res.c /\ rdr' = rdr /\ pos' = pos /\ calls' \in 0..MaxCalls
  BY DbAssumption DEF DbInv, Call, reader
<1>. QED
  BY <1>1, Zenon DEF DbInv, IsWriter, IsBuf, IsCtx

(* A character of the text for the reader                                  *)
LEMMA DbRead ==
  ASSUME DbInv, Read
  PROVE  DbInv'
<1>. DEFINE ch == w.out[pos + 1]
            res == rdb_next(rdr, ch)
<1>1. /\ phase = "read" /\ pos' = pos + 1 /\ rdr' = res.c /\ w' = w /\ calls' = calls
      /\ phase' = CASE res.r = "ok" -> "read" [] res.r = "fin" -> "done" [] res.r = "syntax" -> "bad"
  BY Zenon DEF Read
<1>2. IsCtx(rdr) /\ IsBuf(rdr) /\ IsWriter(w) /\ pos \in Nat /\ pos < Len(w.out) /\ w.out[Len(w.out)] = "NUL"
  BY <1>1 DEF DbInv
<1>3. Len(w.out) \in Nat
  BY <1>2 DEF IsWriter, IsSeq
<1>4. Returns(ch, res) /\ Fine(rdr, ch, res) /\ IsBuf(res.c)
  BY <1>2, NextReturns, StepKinds, NextBuf, ZenonT(40)
<1>5. res.r = "ok" => pos + 1 < Len(w.out)
  <2>1. pos + 1 = Len(w.out) => ch = "NUL"
    BY <1>2
  <2>. HIDE DEF ch, res
  <2>. QED
    BY <1>2, <1>3, <1>4, <2>1 DEF Returns
<1>. HIDE DEF ch, res
<1>6. res.r \in {"ok", "fin", "syntax"} /\ (res.r = "ok" => IsCtx(res.c))
  BY <1>4 DEF Returns, Fine
<1>7. phase' \in {"read", "done", "bad"} /\ (phase' = "read" => res.r = "ok")
  BY <1>1, <1>6, ZenonT(40)
<1>8. pos' \in Nat /\ IsWriter(w') /\ IsBuf(rdr') /\ calls' \in 0..MaxCalls
  BY <1>1, <1>2, <1>4 DEF DbInv
<1>9. phase' = "read" => IsCtx(rdr') /\ pos' < Len(w'.out) /\ w'.out[Len(w'.out)] = "NUL"
  BY <1>1, <1>2, <1>5, <1>6, <1>7, ZenonT(40)
<1>. QED
  BY <1>7, <1>8, <1>9, ZenonT(40) DEF DbInv, IsCtx, IsBuf, IsWriter

(* One step for both sides                                                 *)
LEMMA DbStep ==
  ASSUME DbInv, [Next]_vars
  PROVE  DbInv'
<1> USE ZenonT(40)
<1>0. IsWriter(w)
  BY SMT DEF DbInv
<1>1. CASE WriteKey
  BY <1>0, <1>1, KeyHeld, DbCall DEF WriteKey
<1>2. CASE WriteStr
  BY <1>0, <1>2, ValueHeld, DbCall DEF WriteStr, wdb_str
<1>3. CASE WriteLongStr
  BY <1>0, <1>3, ValueHeld, DbCall DEF WriteLongStr, wdb_long_str
<1>4. CASE WriteInt
  BY <1>0, <1>4, ValueHeld, DbCall DEF WriteInt, wdb_int
<1>5. CASE WriteNum
  BY <1>0, <1>5, ValueHeld, DbCall DEF WriteNum, wdb_num
<1>6. CASE WriteBool
  BY <1>0, <1>6, ValueHeld, DbCall DEF WriteBool, wdb_bool
<1>7. CASE Fin
  <2>1. /\ phase = "write" /\ w' = wdb_fin(w).c /\ phase' = IF wdb_fin(w).ok THEN "read" ELSE "write"
        /\ calls' = calls /\ rdr' = rdr /\ pos' = pos
    BY <1>7, SMT DEF Fin, reader
  <2>2. pos = 0 /\ IsCtx(rdr) /\ IsBuf(rdr) /\ calls \in 0..MaxCalls
    BY <2>1, SMT DEF DbInv
  <2>3. IsWriter(w') /\ (phase' = "read" => Len(w'.out) > 0 /\ w'.out[Len(w'.out)] = "NUL") /\ phase' \in {"write", "read"}
    BY <1>0, <2>1, FinHeld
  <2>. QED
    BY <2>1, <2>2, <2>3 DEF DbInv, IsCtx, IsBuf, IsWriter
<1>8. CASE Read
  BY <1>8, DbRead
<1>9. CASE UNCHANGED vars
  BY <1>9 DEF vars, DbInv, IsCtx, IsBuf, IsWriter
<1>. QED
  BY <1>1, <1>2, <1>3, <1>4, <1>5, <1>6, <1>7, <1>8, <1>9 DEF Next

(* A text written by any calls and read back keeps both sides within their *)
(* buffers, and rdb_next says fin or syntax at its '\0' at the latest: no  *)
(* state reads past the end of what wdb_fin finished.                      *)
THEOREM TypeCorrect == Spec => []TypeOK
<1>1. DbInv /\ [Next]_vars => DbInv'
  BY DbStep
<1>2. DbInv => TypeOK
  BY DEF DbInv, TypeOK, IsWriter, IsBuf
<1>. QED
  BY <1>1, <1>2, DbInit, PTL DEF Spec

(* What the reader will report of the text of c is u.                      *)
Tellable(c, u) ==
  /\ c.got_key \in BOOLEAN /\ c.is_first_val \in BOOLEAN /\ IsSeq(u)
  /\ Told(c.out, c.got_key, c.is_first_val, u)

(* It does not matter to the reader that is_first_val is cleared.          *)
LEMMA ToldLater ==
  ASSUME NEW s, NEW k, NEW f, NEW u, Told(s, k, f, u)
  PROVE  Told(s, k, FALSE, u)
<1> USE ZenonT(40)
<1>1. \A c, t : SettledAt(c, t, k, f, u) => SettledAt(c, t, k, FALSE, u)
  BY DEF SettledAt
<1> QED
  BY <1>1 DEF Told, Settled

(* What a call that returned res leaves, x being its token                 *)
Answers(res, u, x) == \/ res.ok = TRUE /\ Tellable(res.c, Append(u, x))
                      \/ res.ok = FALSE /\ Tellable(res.c, u)

(* Value, whatever the text: written and told, or not written and nothing  *)
(* changed for the reader.                                                 *)
LEMMA ValueTold ==
  ASSUME NEW c, IsWriter(c), NEW u, Tellable(c, u), NEW valid, NEW txt, NEW x, valid => IsSeq(txt) /\ ReadAs(txt, x)
  PROVE  Answers(Value(c, valid, txt), u, x)
<1> USE ZenonT(40)
<1>1. c.got_key \in BOOLEAN /\ c.is_first_val \in BOOLEAN /\ IsSeq(u) /\ Told(c.out, c.got_key, c.is_first_val, u)
  BY DEF Tellable
<1>2. maybe_arr_(c) = Sep(c.is_first_val) /\ IsSeq(Sep(c.is_first_val))
  BY SepIs
<1>0. PICK rest : ValueCase(c, valid, txt, rest)
  BY ValueCases
<1>3. /\ IsWriter(rest) /\ rest.out = c.out /\ rest.got_key = c.got_key /\ rest.is_first_val = FALSE
      /\ \/ Value(c, valid, txt) = Fail(c)
         \/ Value(c, valid, txt) = Fail(rest)
         \/ c.got_key /\ valid /\ Value(c, valid, txt) = Ok(Added(rest, maybe_arr_(c) \o txt))
  BY <1>0 DEF ValueCase
<1>4. CASE Value(c, valid, txt) = Fail(c)
  BY <1>4, ResultIs DEF Answers
<1>5. CASE Value(c, valid, txt) = Fail(rest)
  <2>1. Told(rest.out, rest.got_key, FALSE, u)
    BY <1>1, <1>3, ToldLater
  <2>2. Tellable(rest, u)
    BY <1>1, <1>3, <2>1 DEF Tellable
  <2> QED
    BY <1>5, <2>2, ResultIs DEF Answers
<1>6. CASE c.got_key /\ valid /\ Value(c, valid, txt) = Ok(Added(rest, maybe_arr_(c) \o txt))
  <2> DEFINE e == Sep(c.is_first_val) \o txt
             d == Added(rest, e)
  <2>1. c.got_key = TRUE /\ IsSeq(txt) /\ ReadAs(txt, x) /\ Value(c, valid, txt) = Ok(d)
    BY <1>1, <1>2, <1>6
  <2>2. IsSeq(e)
    BY <1>2, <2>1, Concat
  <2>3. Wrote(d, rest, e)
    <3> HIDE DEF e
    <3> QED BY <1>3, <2>2, AddedWrote
  <2> HIDE DEF d
  <2>4. /\ d.got_key = TRUE /\ d.is_first_val = FALSE /\ Extends(d.out, c.out)
        /\ Segment(d.out, Len(c.out), e) /\ Len(d.out) = Len(c.out) + Len(e)
    BY <1>3, <2>1, <2>3 DEF Wrote
  <2>5. Told(c.out, TRUE, c.is_first_val, u)
    BY <1>1, <2>1
  <2>6. Told(d.out, TRUE, FALSE, Append(u, x))
    BY <1>1, <1>2, <2>1, <2>4, <2>5, ValueRead
  <2>7. IsSeq(Append(u, x))
    BY <1>1, AppendIs
  <2>8. Tellable(d, Append(u, x))
    BY <2>4, <2>6, <2>7 DEF Tellable
  <2> QED
    BY <2>1, <2>8, ResultIs DEF Answers
<1> QED
  BY <1>3, <1>4, <1>5, <1>6

(* The newline before a key or the end                                     *)
OnLine(d) == d.st = "idle" /\ d.got_key = FALSE /\ d.expect_colon = FALSE

LineOut(z, n, t, u) ==
  \/ \E d : Reads(z, n, d, u) /\ OnLine(d)
  \/ Stuck(z, t) /\ \E y : u = Append(t, y) /\ Unreadable(y)

(* The newline ends a number or a word that is being read.                 *)
LEMMA NewlineRead ==
  ASSUME NEW z, NEW p \in Nat, p + 1 <= Len(z), z[p + 1] = "\n", NEW c, NEW t, Reads(z, p, c, t), NEW u, NEW k, NEW f,
         SettledAt(c, t, k, f, u)
  PROVE  LineOut(z, p + 1, t, u)
<1> USE ZenonT(40)
<1>1. IsCtx(c)
  BY ReadsTyped
<1> DEFINE res == rdb_next(c, z[p + 1])
<1>2. CASE c.st = "idle" /\ c.expect_colon = FALSE /\ t = u
  <2>1. Quiet(rdb_next(c, "\n")) /\ OnLine(rdb_next(c, "\n").c)
    <3>1. LET x == rdb_next(c, "\n") IN
          /\ Quiet(x) /\ x.c.st = "idle" /\ x.c.got_key = FALSE /\ x.c.expect_colon = c.expect_colon
      BY <1>1, <1>2, IdleChars
    <3> QED
      BY <1>2, <3>1 DEF OnLine
  <2>2. Quiet(res) /\ OnLine(res.c)
    BY <2>1
  <2>3. Reads(z, p + 1, res.c, t)
    BY <2>2, Goes
  <2> QED
    BY <1>2, <2>2, <2>3 DEF LineOut
<1>3. CASE PlainOk(c) /\ u = Append(t, Pending(c))
  <2>1. "\n" \in {",", "\n"} /\ ("\n" # "\n") = FALSE
    OBVIOUS
  <2>2. \/ res.r = "ok" /\ Token(res.c) = <<Pending(c)>> /\ OnLine(res.c)
        \/ res.r = "syntax" /\ Unreadable(Pending(c))
    <3>1. PlainNext(rdb_next(c, "\n"), c, "\n")
      BY <1>1, <1>3, <2>1, PlainChars
    <3> QED
      BY <2>1, <3>1 DEF PlainNext, OnLine
  <2>3. CASE res.r = "ok" /\ Token(res.c) = <<Pending(c)>> /\ OnLine(res.c)
    <3>1. Reads(z, p + 1, res.c, Append(t, Pending(c)))
      BY <2>3, Tells
    <3> QED
      BY <1>3, <2>3, <3>1 DEF LineOut
  <2>4. CASE res.r = "syntax" /\ Unreadable(Pending(c))
    <3>1. Stuck(z, t)
      BY <2>4 DEF Stuck
    <3> QED
      BY <1>3, <2>4, <3>1 DEF LineOut
  <2> QED
    BY <2>2, <2>3, <2>4
<1> QED
  BY <1>2, <1>3 DEF SettledAt

(* A number or a word that the newline shows to be none explains a refusal.*)
LEMMA PendingRefused ==
  ASSUME NEW z, NEW n \in Nat, NEW c, NEW t, Reads(z, n, c, t), NEW u, Stuck(z, t), \E y : u = Append(t, y) /\ Unreadable(y)
  PROVE  Refused(z, u) /\ \A x : Refused(z, Append(u, x))
<1> USE ZenonT(40)
<1>1. PICK y : u = Append(t, y) /\ Unreadable(y)
  OBVIOUS
<1>2. IsSeq(t)
  BY ReadsTyped
<1>3. IsSeq(u)
  BY <1>1, <1>2, AppendIs
<1>4. Prefix(t, u) /\ Explained(u)
  BY <1>1, <1>2, PrefixSelf, PrefixAppend, ExplainedStays
<1>5. \A x : Prefix(t, Append(u, x)) /\ Explained(Append(u, x))
  BY <1>3, <1>4, PrefixAppend, ExplainedStays
<1> QED
  BY <1>4, <1>5 DEF Refused

LineStart(k) == IF k THEN <<"\n">> ELSE <<>>

(* The reader at the beginning of a line                                   *)
LEMMA LineRead ==
  ASSUME NEW z, Len(z) \in Nat, NEW p \in Nat, NEW c, NEW t, Reads(z, p, c, t), NEW u, NEW k \in BOOLEAN, NEW f,
         SettledAt(c, t, k, f, u), Segment(z, p, LineStart(k))
  PROVE  LineOut(z, p + Len(LineStart(k)), t, u)
<1> USE ZenonT(40)
<1>1. CASE k = TRUE
  <2> DEFINE Ends(e, x) == Len(e) = 1 /\ (Segment(z, p, e) => p + 1 <= Len(z) /\ z[p + 1] = x)
  <2>1. \A x : Ends(<<x>>, x)
    BY OneChar
  <2> HIDE DEF Ends
  <2>2. LineStart(k) = <<"\n">>
    BY <1>1 DEF LineStart
  <2>3. Ends(LineStart(k), "\n")
    BY <2>1, <2>2
  <2>4. p + 1 <= Len(z) /\ z[p + 1] = "\n" /\ Len(LineStart(k)) = 1
    BY <2>3 DEF Ends
  <2>5. LineOut(z, p + 1, t, u)
    BY <2>4, NewlineRead
  <2> QED
    BY <2>4, <2>5
<1>2. CASE k = FALSE
  <2>1. LineStart(k) = <<>>
    BY <1>2 DEF LineStart
  <2>2. p + Len(LineStart(k)) = p
    BY <2>1, SMT
  <2>3. OnLine(c) /\ t = u
    BY <1>2 DEF SettledAt, OnLine
  <2> QED
    BY <2>2, <2>3 DEF LineOut
<1> QED
  BY <1>1, <1>2

(* A key behind its newline                                                *)
LEMMA KeyToldRead ==
  ASSUME NEW s, NEW z, Extends(z, s), NEW k \in BOOLEAN, NEW f, NEW u, IsSeq(u), Told(s, k, f, u),
         NEW v \in Seq(STRING), Chars(v) \subseteq KeyChars, IsSeq(v \o KeyTail), IsSeq(LineStart(k)),
         Segment(z, Len(s), LineStart(k) \o (v \o KeyTail)), Len(z) = Len(s) + Len(LineStart(k) \o (v \o KeyTail))
  PROVE  Told(z, TRUE, TRUE, Append(u, <<"key", v>>))
<1> USE ZenonT(40)
<1> DEFINE txt == v \o KeyTail
           x == <<"key", v>>
           a == LineStart(k)
<1>1. Len(s) \in Nat /\ Len(z) \in Nat /\ \A i \in 1..Len(s) : z[i] = s[i]
  BY DEF Extends
<1> HIDE DEF x
<1>2. CASE Refused(s, u)
  BY <1>2, RefusedStays DEF Told, x
<1>3. CASE Settled(s, k, f, u)
  <2>1. PICK c, t : Reads(s, Len(s), c, t) /\ SettledAt(c, t, k, f, u)
    BY <1>3 DEF Settled
  <2>2. Reads(z, Len(s), c, t)
    BY <1>1, <2>1, ReadsSame
  <2>3. Segment(z, Len(s), a) /\ Segment(z, Len(s) + Len(a), txt) /\ Len(a) \in Nat /\ Len(txt) \in Nat
    BY <1>1, Parts
  <2>4. Len(a \o txt) = Len(a) + Len(txt)
    BY Concat
  <2>5. Len(s) + Len(a) \in Nat /\ Len(z) = (Len(s) + Len(a)) + Len(txt)
    <3>1. Len(z) = Len(s) + Len(a \o txt)
      OBVIOUS
    <3> HIDE DEF a, txt
    <3> QED BY <1>1, <2>3, <2>4, <3>1, SMT
  <2>6. LineOut(z, Len(s) + Len(a), t, u)
    BY <1>1, <2>1, <2>2, <2>3, LineRead
  <2>7. CASE \E d : Reads(z, Len(s) + Len(a), d, u) /\ OnLine(d)
    <3>1. PICK d : Reads(z, Len(s) + Len(a), d, u) /\ OnLine(d)
      BY <2>7
    <3>2. d.st = "idle" /\ d.got_key = FALSE /\ d.expect_colon = FALSE
      BY <3>1 DEF OnLine
    <3>3. KeyOutcome(z, (Len(s) + Len(a)) + Len(txt), u, x)
      <4> HIDE DEF a
      <4> QED BY <1>1, <2>3, <2>5, <3>1, <3>2, KeyRead DEF x
    <3> HIDE DEF a, txt
    <3>4. KeyOutcome(z, Len(z), u, x)
      BY <2>5, <3>3
    <3>5. CASE \E e : Reads(z, Len(z), e, Append(u, x)) /\ Free(e) /\ e.got_first_val = FALSE
      <4>1. PICK e : Reads(z, Len(z), e, Append(u, x)) /\ Free(e) /\ e.got_first_val = FALSE
        BY <3>5
      <4>2. SettledAt(e, Append(u, x), TRUE, TRUE, Append(u, x))
        BY <4>1 DEF SettledAt, Free
      <4> QED
        BY <4>1, <4>2 DEF Settled, Told, x
    <3>6. CASE Stuck(z, u) /\ Unreadable(x)
      <4>1. Prefix(u, Append(u, x)) /\ Explained(Append(u, x))
        BY <3>6, PrefixSelf, PrefixAppend, ExplainedStays
      <4> QED
        BY <3>6, <4>1 DEF Refused, Told, x
    <3> QED
      BY <3>4, <3>5, <3>6 DEF KeyOutcome
  <2>8. CASE Stuck(z, t) /\ \E y : u = Append(t, y) /\ Unreadable(y)
    <3>1. \A y : Refused(z, Append(u, y))
      BY <1>1, <2>2, <2>8, PendingRefused
    <3> QED
      BY <3>1 DEF Told
  <2> QED
    BY <2>6, <2>7, <2>8 DEF LineOut
<1> QED
  BY <1>2, <1>3 DEF Told

(* The text of wdb_key in two parts                                        *)
LEMMA KeyText ==
  ASSUME NEW k \in BOOLEAN, NEW v \in Seq(STRING)
  PROVE  /\ IsSeq(LineStart(k)) /\ IsSeq(v \o KeyTail) /\ IsSeq(LineStart(k) \o (v \o KeyTail))
         /\ (IF k THEN <<"\n">> ELSE <<>>) \o v \o <<":", " ">> = LineStart(k) \o (v \o KeyTail)
<1> USE ZenonT(40)
<1> DEFINE a == LineStart(k)
           b == KeyTail
<1>1. (IF k THEN <<"\n">> ELSE <<>>) = a /\ b = <<":", " ">>
  BY DEF LineStart, KeyTail
<1>2. IsSeq(b)
  <2> HIDE DEF b
  <2>1. Len(<<>>) \in Nat /\ 0 \in Nat
    BY SMT
  <2> QED BY <2>1, KeyTailIs DEF b
<1>3. IsSeq(a)
  <2>1. IsSeq(<<>>)
    BY SMT DEF IsSeq
  <2>2. IsSeq(<<"\n">>)
    BY OneChar
  <2> QED
    BY <2>1, <2>2 DEF LineStart
<1> HIDE DEF a, b
<1>4. IsSeq(v)
  BY DEF IsSeq
<1>5. Grouped(a, v, b)
  BY <1>2, <1>3, <1>4, Regroup
<1>6. IsSeq(v \o b)
  BY <1>2, <1>4, Concat
<1>7. ASSUME NEW y, IsSeq(y) PROVE IsSeq(a \o y)
  BY <1>3, <1>7, Concat
<1>8. IsSeq(a \o (v \o b))
  BY <1>6, <1>7
<1> QED
  BY <1>1, <1>3, <1>5, <1>6, <1>8 DEF a, b, Grouped

(* wdb_key                                                                 *)
LEMMA KeyTold ==
  ASSUME NEW c, IsWriter(c), NEW u, Tellable(c, u), NEW v \in Seq(STRING)
  PROVE  Answers(wdb_key(c, v), u, <<"key", v>>)
<1> USE ZenonT(40)
<1> DEFINE k == c.got_key
           text0 == (IF k THEN <<"\n">> ELSE <<>>) \o v \o <<":", " ">>
           y == LineStart(k) \o (v \o KeyTail)
           e == Added(c, y)
           d == [e EXCEPT !.got_key = TRUE, !.is_first_val = TRUE]
           x == <<"key", v>>
<1>1. k \in BOOLEAN /\ IsSeq(u) /\ Told(c.out, k, c.is_first_val, u)
  BY DEF Tellable
<1>2. IsSeq(LineStart(k)) /\ IsSeq(v \o KeyTail) /\ IsSeq(y) /\ text0 = y
  <2>1. \A j \in BOOLEAN : /\ IsSeq(LineStart(j)) /\ IsSeq(v \o KeyTail) /\ IsSeq(LineStart(j) \o (v \o KeyTail))
                           /\ (IF j THEN <<"\n">> ELSE <<>>) \o v \o <<":", " ">> = LineStart(j) \o (v \o KeyTail)
    BY KeyText
  <2> QED
    BY <1>1, <2>1
<1>3. \/ wdb_key(c, v) = Fail(c)
      \/ Chars(v) \subseteq KeyChars /\ wdb_key(c, v) = Ok([Added(c, text0) EXCEPT !.got_key = TRUE, !.is_first_val = TRUE])
  BY DEF wdb_key
<1>4. \/ wdb_key(c, v) = Fail(c)
      \/ Chars(v) \subseteq KeyChars /\ wdb_key(c, v) = Ok(d)
  <2> HIDE DEF text0
  <2> QED BY <1>2, <1>3
<1>5. CASE wdb_key(c, v) = Fail(c)
  BY <1>5, ResultIs DEF Answers
<1>6. CASE Chars(v) \subseteq KeyChars /\ wdb_key(c, v) = Ok(d)
  <2>1. Wrote(e, c, y) /\ e = [c EXCEPT !.out = c.out \o [i \in 1..Len(y) |-> y[i]]]
    <3> HIDE DEF y
    <3> QED BY <1>2, AddedWrote DEF Added
  <2>2. DOMAIN e = {"out", "got_key", "is_first_val"}
    <3>1. DOMAIN c = {"out", "got_key", "is_first_val"}
      BY DEF IsWriter
    <3> HIDE DEF y, e
    <3> QED BY <2>1, <3>1
  <2> HIDE DEF e
  <2>3. d.out = e.out /\ d.got_key = TRUE /\ d.is_first_val = TRUE
    BY <2>2, SMT
  <2> HIDE DEF d
  <2>4. Extends(d.out, c.out) /\ Segment(d.out, Len(c.out), y) /\ Len(d.out) = Len(c.out) + Len(y)
    <3> HIDE DEF y
    <3> QED BY <2>1, <2>3 DEF Wrote
  <2>5. Told(d.out, TRUE, TRUE, Append(u, x))
    <3> HIDE DEF k
    <3> QED BY <1>1, <1>2, <1>6, <2>4, KeyToldRead
  <2>6. IsSeq(Append(u, x))
    BY <1>1, AppendIs
  <2>7. Tellable(d, Append(u, x))
    BY <2>3, <2>5, <2>6 DEF Tellable
  <2> QED
    BY <1>6, <2>7, ResultIs DEF Answers
<1> QED
  BY <1>4, <1>5, <1>6

(* wdb_fin: all the text but its '\0' is read and told.                    *)
Done(z, u) ==
  \/ \E c : Reads(z, Len(z) - 1, c, u) /\ c.st = "idle"
  \/ Refused(z, u)

(* The newline of wdb_fin ends what is pending.                            *)
LEMMA FinTold ==
  ASSUME NEW c, IsWriter(c), NEW u, Tellable(c, u)
  PROVE  \/ wdb_fin(c).ok = FALSE /\ wdb_fin(c).c = c
         \/ wdb_fin(c).ok = TRUE /\ Done(wdb_fin(c).c.out, u)
<1> USE ZenonT(40)
<1> DEFINE k == c.got_key
           f == c.is_first_val
           y == <<"\n", "NUL">>
           d == Added(c, y)
           s == c.out
           z == d.out
<1>1. IsSeq(u) /\ Told(s, k, f, u)
  BY DEF Tellable
<1>2. wdb_fin(c) = Fail(c) \/ wdb_fin(c) = Ok(d)
  BY DEF wdb_fin
<1>3. y \in Seq({"\n", "NUL"}) /\ Len(y) = 2 /\ y[1] = "\n" /\ 1 \in 1..2
  BY SMT
<1> HIDE DEF y
<1>4. IsSeq(y)
  BY <1>3 DEF IsSeq
<1>5. Extends(z, s) /\ Segment(z, Len(s), y) /\ Len(z) = Len(s) + Len(y)
  <2>1. Wrote(d, c, y)
    BY <1>4, AddedWrote
  <2> HIDE DEF d
  <2> QED BY <2>1 DEF Wrote
<1> HIDE DEF k, f, d
<1>6. Done(z, u)
  <2> HIDE DEF s, z
  <2>1. Len(s) \in Nat /\ Len(z) \in Nat /\ \A i \in 1..Len(s) : z[i] = s[i]
    BY <1>5 DEF Extends
  <2>2. z[Len(s) + 1] = "\n"
    BY <1>3, <1>5 DEF Segment
  <2>3. Len(s) + 1 <= Len(z) /\ Len(z) - 1 = Len(s) + 1
    BY <1>3, <1>5, <2>1, SMTT(30)
  <2>4. CASE Refused(s, u)
    BY <1>1, <1>5, <2>4, RefusedStays DEF Done
  <2>5. CASE Settled(s, k, f, u)
    <3>1. PICK e, t : Reads(s, Len(s), e, t) /\ SettledAt(e, t, k, f, u)
      BY <2>5 DEF Settled
    <3>2. Reads(z, Len(s), e, t)
      BY <2>1, <3>1, ReadsSame
    <3>3. LineOut(z, Len(s) + 1, t, u)
      BY <2>1, <2>2, <2>3, <3>1, <3>2, NewlineRead
    <3>4. CASE \E g : Reads(z, Len(s) + 1, g, u) /\ OnLine(g)
      BY <2>3, <3>4 DEF OnLine, Done
    <3>5. CASE Stuck(z, t) /\ \E i : u = Append(t, i) /\ Unreadable(i)
      BY <2>1, <3>2, <3>5, PendingRefused DEF Done
    <3> QED
      BY <3>3, <3>4, <3>5 DEF LineOut
  <2> QED
    BY <1>1, <2>4, <2>5 DEF Told
<1> QED
  BY <1>2, <1>6, ResultIs

(* The calls that write a value                                            *)
LEMMA StrTold ==
  ASSUME NEW c, IsWriter(c), NEW u, Tellable(c, u), NEW v \in Seq(STRING), "\\" \notin Chars(v)
  PROVE  Answers(wdb_str(c, v), u, <<"str", v>>)
<1> USE ZenonT(40)
<1> DEFINE body == Joined([k \in DOMAIN v |-> str_escape_(v[k])])
           txt == (<<"\"">> \o body) \o <<"\"">>
<1>1. wdb_str(c, v) = Value(c, Printable(v), txt)
  BY DEF wdb_str
<1>2. ASSUME Printable(v) PROVE IsSeq(txt) /\ ReadAs(txt, <<"str", v>>)
  <2>1. [k \in DOMAIN v |-> Escaped("str", v[k])] = [k \in DOMAIN v |-> str_escape_(v[k])]
    BY DEF Escaped
  <2>2. "str" \in StrStates
    BY SMTT(30) DEF StrStates
  <2>3. IsSeq(Joined([k \in DOMAIN v |-> Escaped("str", v[k])]))
    BY <1>2, <2>2, EscapedTexts
  <2>4. IsSeq(body)
    BY <2>1, <2>3
  <2>5. IsSeq(<<"\"">>)
    BY OneChar
  <2>6. IsSeq(txt)
    <3> HIDE DEF body
    <3> QED BY <2>4, <2>5, BetweenSeq
  <2>7. ReadAs(txt, <<"str", v>>)
    BY <1>2, StrRead
  <2> QED
    BY <2>6, <2>7
<1> HIDE DEF txt
<1>3. Answers(Value(c, Printable(v), txt), u, <<"str", v>>)
  BY <1>2, ValueTold
<1> QED
  BY <1>1, <1>3

(* wdb_long_str                                                            *)
LEMMA LongStrTold ==
  ASSUME NEW c, IsWriter(c), NEW u, Tellable(c, u), NEW v \in Seq(STRING), "\\" \notin Chars(v)
  PROVE  Answers(wdb_long_str(c, v), u, <<"str", v>>)
<1> USE ZenonT(40)
<1> DEFINE body == Joined([k \in DOMAIN v |-> long_str_escape_(v[k])])
           txt == (<<"<", "\n">> \o body) \o <<"\n", ">">>
<1>1. wdb_long_str(c, v) = Value(c, Printable(v), txt)
  BY DEF wdb_long_str
<1>2. ASSUME Printable(v) PROVE IsSeq(txt) /\ ReadAs(txt, <<"str", v>>)
  <2>1. [k \in DOMAIN v |-> Escaped("long_str", v[k])] = [k \in DOMAIN v |-> long_str_escape_(v[k])]
    <3>1. "long_str" # "str"
      BY SMT
    <3> QED
      BY <3>1 DEF Escaped
  <2>2. "long_str" \in StrStates
    BY SMT DEF StrStates
  <2>3. IsSeq(Joined([k \in DOMAIN v |-> Escaped("long_str", v[k])]))
    BY <1>2, <2>2, EscapedTexts
  <2>4. IsSeq(body)
    BY <2>1, <2>3
  <2>5. IsSeq(<<"<", "\n">>) /\ IsSeq(<<"\n", ">">>)
    BY PairSeq
  <2>6. IsSeq(txt)
    <3> HIDE DEF body
    <3> QED BY <2>4, <2>5, BetweenSeq
  <2>7. ReadAs(txt, <<"str", v>>)
    BY <1>2, LongRead
  <2> QED
    BY <2>6, <2>7
<1> HIDE DEF txt
<1>3. Answers(Value(c, Printable(v), txt), u, <<"str", v>>)
  BY <1>2, ValueTold
<1> QED
  BY <1>1, <1>3

(* wdb_int                                                                 *)
LEMMA IntTold ==
  ASSUME NEW c, IsWriter(c), NEW u, Tellable(c, u), NEW v, IsNum(v), v.fracs = 0
  PROVE  Answers(wdb_int(c, v), u, Written(v))
<1> USE ZenonT(40)
<1> DEFINE txt == Sign(v) \o decimal(v.mant)
<1>1. wdb_int(c, v) = Value(c, TRUE, txt)
  BY DEF wdb_int
<1>2. v.mant \in Nat
  BY DEF IsNum
<1>3. Numeral(decimal(v.mant), v.mant)
  BY <1>2, DecimalIs
<1>4. IsSeq(decimal(v.mant)) /\ IsSeq(Sign(v))
  BY <1>3, SignSeq DEF Numeral
<1>5. IsSeq(txt)
  BY <1>4, Concat
<1>6. ReadAs(txt, Written(v))
  BY IntText
<1> HIDE DEF txt
<1>7. Answers(Value(c, TRUE, txt), u, Written(v))
  BY <1>5, <1>6, ValueTold
<1> QED
  BY <1>1, <1>7

(* wdb_num                                                                 *)
LEMMA NumTold ==
  ASSUME NEW c, IsWriter(c), NEW u, Tellable(c, u), NEW v, IsNum(v), v.fracs > 0
  PROVE  Answers(wdb_num(c, v), u, Written(v))
<1> USE ZenonT(40)
<1> DEFINE m == Cuts(v.mant, v.fracs)[v.fracs]
           f == Fraction(v)
           txt == ((Sign(v) \o decimal(m)) \o <<".">>) \o f
           ok == Len(txt) < num_buf
<1>1. wdb_num(c, v) = Value(c, ok, txt)
  BY DEF wdb_num
<1>2. v.mant \in Nat /\ v.fracs \in Nat /\ v.fracs \in 1..v.fracs
  BY SMT DEF IsNum
<1>3. m \in Nat
  BY <1>2, CutsIs
<1>4. IsSeq(f)
  BY <1>2, FractionIs
<1>5. ReadAs(txt, Written(v))
  BY NumText
<1> HIDE DEF m, f
<1>6. IsSeq(txt)
  <2>1. Numeral(decimal(m), m)
    BY <1>3, DecimalIs
  <2>2. IsSeq(decimal(m)) /\ IsSeq(Sign(v)) /\ IsSeq(<<".">>)
    BY <2>1, SignSeq, OneChar DEF Numeral
  <2> DEFINE a == Sign(v) \o decimal(m)
  <2>3. IsSeq(a)
    BY <2>2, Concat
  <2> HIDE DEF a
  <2>4. IsSeq((a \o <<".">>) \o f)
    BY <1>4, <2>2, <2>3, BetweenSeq
  <2> QED
    BY <2>4 DEF a
<1> HIDE DEF txt, ok
<1>7. Answers(Value(c, ok, txt), u, Written(v))
  BY <1>5, <1>6, ValueTold
<1> QED
  BY <1>1, <1>7

(* wdb_bool                                                                *)
LEMMA BoolTold ==
  ASSUME NEW c, IsWriter(c), NEW u, Tellable(c, u), NEW v \in BOOLEAN
  PROVE  Answers(wdb_bool(c, v), u, <<"bool", v>>)
<1> USE ZenonT(40)
<1> DEFINE t == <<"t", "r", "u", "e">>
           f == <<"f", "a", "l", "s", "e">>
<1>1. t \in Seq({"t", "r", "u", "e"}) /\ f \in Seq({"f", "a", "l", "s", "e"})
  BY SMT
<1>2. IsSeq(t) /\ IsSeq(f)
  BY <1>1 DEF IsSeq
<1>3. ReadAs(t, <<"bool", TRUE>>) /\ ReadAs(f, <<"bool", FALSE>>)
  BY BoolRead
<1>4. (v = TRUE => wdb_bool(c, v) = Value(c, TRUE, t)) /\ (v = FALSE => wdb_bool(c, v) = Value(c, TRUE, f))
  BY DEF wdb_bool
<1> HIDE DEF t, f
<1>5. Answers(Value(c, TRUE, t), u, <<"bool", TRUE>>) /\ Answers(Value(c, TRUE, f), u, <<"bool", FALSE>>)
  BY <1>2, <1>3, ValueTold
<1>6. CASE v = TRUE
  BY <1>4, <1>5, <1>6
<1>7. CASE v = FALSE
  BY <1>4, <1>5, <1>7
<1> QED
  BY <1>6, <1>7

-----------------------------------------------------------------------------
(***************************************************************************)
(* Reading the finished text z, of which the accepted calls are u          *)
(***************************************************************************)
(* What the reader has reported on its way is the beginning of u, and how  *)
(* the next character can end it.                                          *)
Ends(res, t, u) ==
  \/ res.r = "ok"
  \/ res.r = "fin" /\ t \o Token(res.c) = u
  \/ res.r = "syntax" /\ t \o Token(res.c) = t /\ Explained(u)

(* A context that is incomplete adds nothing.                              *)
LEMMA EmptyToken ==
  ASSUME NEW t, IsSeq(t), NEW c, c.ty = "incomplete"
  PROVE  t \o Token(c) = t
<1> USE ZenonT(40)
<1>1. Token(c) = <<>>
  BY TokenSeq
<1>2. PICK S : t \in Seq(S)
  BY DEF IsSeq
<1>3. t \o <<>> = t
  BY <1>2, SMT
<1> QED
  BY <1>1, <1>3

(* Every reading of a finished text is on the way to its end or to the     *)
(* refusal.                                                                *)
LEMMA DoneReads ==
  ASSUME NEW z, Len(z) \in Nat, z[Len(z)] = "NUL", NEW u, IsSeq(u), Done(z, u),
         NEW n \in Nat, n < Len(z), NEW c, NEW t, Reads(z, n, c, t)
  PROVE  Prefix(t, u) /\ Ends(rdb_next(c, z[n + 1]), t, u)
<1> USE ZenonT(40)
<1> DEFINE res == rdb_next(c, z[n + 1])
<1>0. IsCtx(c) /\ IsSeq(t)
  BY ReadsTyped
<1>1. ASSUME NEW d, Reads(z, Len(z) - 1, d, u), d.st = "idle" PROVE Prefix(t, u) /\ Ends(res, t, u)
  <2>1. Len(z) - 1 \in Nat /\ n \in 0..(Len(z) - 1) /\ (n < Len(z) - 1 \/ n = Len(z) - 1) /\ (n = Len(z) - 1 => n + 1 = Len(z))
    BY SMT
  <2>2. /\ n = Len(z) - 1 => c = d /\ t = u
        /\ n < Len(z) - 1 => res.r = "ok"
        /\ Prefix(t, u)
    <3> DEFINE m == Len(z) - 1
    <3>1. m \in Nat /\ n \in 0..m /\ Reads(z, m, d, u)
      BY <1>1, <2>1
    <3> HIDE DEF m
    <3>2. Agree(z, m, d, u, n, c, t)
      BY <3>1, ReadsOnce
    <3> QED
      BY <3>2 DEF m, Agree
  <2>3. CASE n < Len(z) - 1
    BY <2>2, <2>3 DEF Ends
  <2>4. CASE n = Len(z) - 1
    <3>1. res = rdb_next(c, "NUL") /\ c.st = "idle" /\ t = u
      BY <1>1, <2>1, <2>2, <2>4
    <3>1a. rdb_next(c, "NUL").r = "fin" /\ rdb_next(c, "NUL").c.ty = "incomplete"
      BY <1>0, <3>1, IdleChars
    <3>2. res.r = "fin" /\ res.c.ty = "incomplete"
      BY <3>1, <3>1a
    <3> HIDE DEF res
    <3>3. t \o Token(res.c) = t
      BY <1>0, <3>2, EmptyToken
    <3> QED
      BY <2>2, <3>1, <3>2, <3>3 DEF Ends
  <2> QED
    BY <2>1, <2>3, <2>4
<1>2. ASSUME Refused(z, u) PROVE Prefix(t, u) /\ Ends(res, t, u)
  <2>1. PICK y : Stuck(z, y) /\ Prefix(y, u) /\ Explained(u)
    BY <1>2 DEF Refused
  <2>2a. PICK m \in Nat : \E e : m + 1 <= Len(z) /\ Reads(z, m, e, y) /\ rdb_next(e, z[m + 1]).r = "syntax"
    BY <2>1 DEF Stuck
  <2>2. PICK d : Reads(z, m, d, y) /\ rdb_next(d, z[m + 1]).r = "syntax"
    BY <2>2a
  <2>3. (n < m \/ n = m \/ m < n) /\ (n <= m => n \in 0..m) /\ (n < m => n <= m) /\ (n = m => n <= m) /\ (m < n => m \in 0..n)
    BY SMT
  <2>4. CASE n <= m
    <3>1. n \in 0..m
      BY <2>3, <2>4
    <3>0. Agree(z, m, d, y, n, c, t)
      BY <2>2, <3>1, ReadsOnce
    <3>2. (n = m => c = d /\ t = y) /\ (n < m => res.r = "ok") /\ Prefix(t, y)
      BY <3>0 DEF Agree
    <3>3. Prefix(t, u)
      BY <2>1, <3>2, PrefixOf
    <3>4. CASE n < m
      BY <3>2, <3>3, <3>4 DEF Ends
    <3>5. CASE n = m
      <4>1. res.r = "syntax"
        BY <2>2, <3>2, <3>5
      <4>2. Mute(res)
        BY <1>0, NextMute
      <4> HIDE DEF res
      <4>3. res.c.ty = "incomplete"
        BY <4>1, <4>2 DEF Mute
      <4>4. t \o Token(res.c) = t
        BY <1>0, <4>3, EmptyToken
      <4> QED
        BY <2>1, <3>3, <4>1, <4>4 DEF Ends
    <3>6. n < m \/ n = m
      BY <2>4, SMT
    <3> QED
      BY <3>4, <3>5, <3>6
  <2>5. CASE m < n
    <3>0. Agree(z, n, c, t, m, d, y)
      BY <2>2, <2>3, <2>5, ReadsOnce
    <3>1. rdb_next(d, z[m + 1]).r = "ok"
      BY <2>5, <3>0 DEF Agree
    <3>2. "ok" # "syntax"
      BY SMT
    <3> QED
      BY <2>2, <3>1, <3>2
  <2> QED
    BY <2>3, <2>4, <2>5
<1> QED
  BY <1>1, <1>2 DEF Done

-----------------------------------------------------------------------------
(***************************************************************************)
(* The text read back.  wdb.c writes a backslash of a string as it is, and *)
(* rdb.c takes it for the beginning of an escape: what follows is about    *)
(* strings without one.                                                    *)
(***************************************************************************)
NoBackslash == \A v \in Strs \cup LongStrs : "\\" \notin Chars(v)

BackInv ==
  /\ DbInv /\ IsSeq(said)
  /\ phase = "write" => Tellable(w, said) /\ rdr = rdb_init /\ pos = 0 /\ got = <<>>
  /\ phase = "read" => Done(w.out, said) /\ Reads(w.out, pos, rdr, got)
  /\ phase = "done" => got = said
  /\ phase = "bad" => Prefix(got, said) /\ Explained(said)

(* Nothing written and nothing read                                        *)
LEMMA BackInit == Init => BackInv
<1> USE ZenonT(40)
<1> SUFFICES ASSUME Init PROVE BackInv
  BY SMT
<1>1. phase = "write" /\ rdr = rdb_init /\ pos = 0 /\ got = <<>> /\ said = <<>> /\ w = wdb_init
  BY SMT DEF Init
<1>2. DbInv
  BY DbInit
<1>3. IsSeq(<<>>) /\ Len(<<>>) = 0
  BY EmptySeq DEF IsSeq
<1>4. /\ wdb_init.out = <<>> /\ wdb_init.got_key = FALSE /\ wdb_init.is_first_val = FALSE
      /\ rdb_init.st = "idle" /\ rdb_init.got_key = FALSE /\ rdb_init.expect_colon = FALSE
  BY SMT DEF wdb_init, rdb_init
<1>5. SettledAt(rdb_init, <<>>, FALSE, FALSE, <<>>)
  BY <1>4 DEF SettledAt
<1>6. Reads(<<>>, Len(<<>>), rdb_init, <<>>)
  BY <1>3, ReadsStart
<1>7. Told(<<>>, FALSE, FALSE, <<>>)
  BY <1>5, <1>6 DEF Told, Settled
<1>8. Tellable(w, said)
  BY <1>1, <1>3, <1>4, <1>7 DEF Tellable
<1>9. "write" # "read" /\ "write" # "done" /\ "write" # "bad"
  BY SMT
<1> QED
  BY <1>1, <1>2, <1>3, <1>8, <1>9 DEF BackInv

(* A call of the writer                                                    *)
LEMMA BackCall ==
  ASSUME BackInv, NEW res, NEW token, IsWriter(res.c), Call(res, token),
         Tellable(w, said) => Answers(res, said, token)
  PROVE  BackInv'
<1> USE ZenonT(40)
<1>1. /\ phase = "write" /\ phase' = "write" /\ w' = res.c /\ rdr' = rdr /\ pos' = pos /\ got' = got
      /\ said' = IF res.ok THEN Append(said, token) ELSE said
  BY DEF Call, reader
<1>2. DbInv /\ Tellable(w, said) /\ rdr = rdb_init /\ pos = 0 /\ got = <<>>
  BY <1>1 DEF BackInv
<1>3. DbInv'
  BY <1>2, DbCall
<1>4. Tellable(res.c, said')
  BY <1>1, <1>2 DEF Answers
<1>5. IsSeq(said')
  BY <1>4 DEF Tellable
<1>6. "write" # "read" /\ "write" # "done" /\ "write" # "bad"
  OBVIOUS
<1>7. Tellable(w, said)'
  BY <1>1, <1>4
<1> QED
  BY <1>1, <1>2, <1>3, <1>5, <1>6, <1>7 DEF BackInv

(* wdb_fin                                                                 *)
LEMMA BackFin ==
  ASSUME BackInv, DbInv', Fin
  PROVE  BackInv'
<1> USE ZenonT(40)
<1>1. /\ phase = "write" /\ w' = wdb_fin(w).c /\ phase' = (IF wdb_fin(w).ok THEN "read" ELSE "write")
      /\ said' = said /\ rdr' = rdr /\ pos' = pos /\ got' = got
  BY DEF Fin, reader
<1>2. IsSeq(said) /\ IsWriter(w) /\ Tellable(w, said) /\ rdr = rdb_init /\ pos = 0 /\ got = <<>>
  BY <1>1 DEF BackInv, DbInv
<1>3. "write" # "read" /\ "write" # "done" /\ "write" # "bad" /\ "read" # "done" /\ "read" # "bad"
  OBVIOUS
<1>4. \/ wdb_fin(w).ok = FALSE /\ wdb_fin(w).c = w
      \/ wdb_fin(w).ok = TRUE /\ Done(wdb_fin(w).c.out, said)
  BY <1>2, FinTold
<1>5. CASE wdb_fin(w).ok = FALSE /\ wdb_fin(w).c = w
  <2>1. phase' = "write" /\ w' = w
    BY <1>1, <1>5
  <2> QED
    BY <1>1, <1>2, <1>3, <2>1 DEF BackInv
<1>6. CASE wdb_fin(w).ok = TRUE /\ Done(wdb_fin(w).c.out, said)
  <2>1. phase' = "read" /\ Done(w'.out, said')
    BY <1>1, <1>6
  <2>2. Reads(w'.out, pos', rdr', got')
    BY <1>1, <1>2, ReadsStart
  <2>3. IsSeq(said')
    BY <1>1, <1>2
  <2> QED
    BY <1>3, <2>1, <2>2, <2>3 DEF BackInv
<1> QED
  BY <1>4, <1>5, <1>6

(* A character for the reader                                              *)
LEMMA BackRead ==
  ASSUME BackInv, DbInv', Read
  PROVE  BackInv'
<1> USE ZenonT(40)
<1> DEFINE ch == w.out[pos + 1]
           res == rdb_next(rdr, ch)
<1>1. /\ phase = "read" /\ pos' = pos + 1 /\ rdr' = res.c /\ got' = got \o Token(res.c) /\ w' = w /\ said' = said
      /\ phase' = CASE res.r = "ok" -> "read" [] res.r = "fin" -> "done" [] res.r = "syntax" -> "bad"
  BY DEF Read
<1>2. /\ IsSeq(said) /\ IsWriter(w) /\ pos \in Nat /\ pos < Len(w.out) /\ w.out[Len(w.out)] = "NUL"
      /\ Done(w.out, said) /\ Reads(w.out, pos, rdr, got)
  BY <1>1, SMT DEF BackInv, DbInv
<1>3. Len(w.out) \in Nat
  BY <1>2, SMT DEF IsWriter, IsSeq
<1>4. Prefix(got, said) /\ Ends(res, got, said)
  BY <1>2, <1>3, DoneReads
<1>5. "read" # "write" /\ "read" # "done" /\ "read" # "bad" /\ "done" # "bad" /\ "done" # "write" /\ "bad" # "write"
  BY SMT
<1>6. res.r = "ok" => Reads(w.out, pos + 1, res.c, got \o Token(res.c))
  BY <1>2, ReadsNext
<1> HIDE DEF res
<1>7. /\ res.r = "ok" => phase' = "read"
      /\ res.r = "fin" => phase' = "done"
      /\ res.r = "syntax" => phase' = "bad"
  BY <1>1, SMT
<1>8. IsSeq(said')
  BY <1>1, <1>2
<1>9. CASE res.r = "ok"
  <2>1. phase' = "read"
    BY <1>7, <1>9
  <2>2. Reads(w'.out, pos', rdr', got') /\ Done(w'.out, said')
    BY <1>1, <1>2, <1>6, <1>9
  <2> QED
    BY <1>5, <1>8, <2>1, <2>2 DEF BackInv
<1>10. CASE res.r = "fin" /\ got \o Token(res.c) = said
  <2>1. phase' = "done" /\ got' = said'
    BY <1>1, <1>7, <1>10
  <2> QED
    BY <1>5, <1>8, <2>1 DEF BackInv
<1>11. CASE res.r = "syntax" /\ got \o Token(res.c) = got /\ Explained(said)
  <2>1. phase' = "bad" /\ Prefix(got', said') /\ Explained(said')
    BY <1>1, <1>4, <1>7, <1>11
  <2> QED
    BY <1>5, <1>8, <2>1 DEF BackInv
<1> QED
  BY <1>4, <1>9, <1>10, <1>11 DEF Ends

(* Every step keeps it.                                                    *)
LEMMA BackStep ==
  ASSUME NoBackslash, BackInv, [Next]_vars
  PROVE  BackInv'
<1> USE ZenonT(40)
<1>1. DbInv /\ IsWriter(w)
  BY SMT DEF BackInv, DbInv
<1>2. DbInv'
  BY <1>1, DbStep
<1>3. \A v \in Keys \cup Strs \cup LongStrs : v \in Seq(STRING)
  BY DbAssumption, SMT
<1>4. \A v \in Nums : IsNum(v)
  BY DbAssumption, SMT DEF IsNum
<1>5. CASE WriteKey
  <2>1. PICK v \in Keys : Call(wdb_key(w, v), <<"key", v>>)
    BY <1>5 DEF WriteKey
  <2>2. v \in Seq(STRING)
    BY <1>3
  <2>3. IsWriter(wdb_key(w, v).c)
    BY <1>1, KeyHeld
  <2>4. Tellable(w, said) => Answers(wdb_key(w, v), said, <<"key", v>>)
    BY <1>1, <2>2, KeyTold
  <2> QED
    BY <2>1, <2>3, <2>4, BackCall
<1>6. CASE WriteStr
  <2>1. PICK v \in Strs : Call(wdb_str(w, v), <<"str", v>>)
    BY <1>6 DEF WriteStr
  <2>2. v \in Seq(STRING) /\ "\\" \notin Chars(v)
    BY <1>3 DEF NoBackslash
  <2>3. IsWriter(wdb_str(w, v).c)
    BY <1>1, ValueHeld DEF wdb_str
  <2>4. Tellable(w, said) => Answers(wdb_str(w, v), said, <<"str", v>>)
    BY <1>1, <2>2, StrTold
  <2> QED
    BY <2>1, <2>3, <2>4, BackCall
<1>7. CASE WriteLongStr
  <2>1. PICK v \in LongStrs : Call(wdb_long_str(w, v), <<"str", v>>)
    BY <1>7 DEF WriteLongStr
  <2>2. v \in Seq(STRING) /\ "\\" \notin Chars(v)
    BY <1>3 DEF NoBackslash
  <2>3. IsWriter(wdb_long_str(w, v).c)
    BY <1>1, ValueHeld DEF wdb_long_str
  <2>4. Tellable(w, said) => Answers(wdb_long_str(w, v), said, <<"str", v>>)
    BY <1>1, <2>2, LongStrTold
  <2> QED
    BY <2>1, <2>3, <2>4, BackCall
<1>8. CASE WriteInt
  <2>1. PICK v \in Nums : v.fracs = 0 /\ Call(wdb_int(w, v), Written(v))
    BY <1>8 DEF WriteInt
  <2>2. IsNum(v)
    BY <1>4
  <2>3. IsWriter(wdb_int(w, v).c)
    BY <1>1, ValueHeld DEF wdb_int
  <2>4. Tellable(w, said) => Answers(wdb_int(w, v), said, Written(v))
    BY <1>1, <2>1, <2>2, IntTold
  <2> QED
    BY <2>1, <2>3, <2>4, BackCall
<1>9. CASE WriteNum
  <2>1. PICK v \in Nums : v.fracs > 0 /\ Call(wdb_num(w, v), Written(v))
    BY <1>9 DEF WriteNum
  <2>2. IsNum(v)
    BY <1>4
  <2>3. IsWriter(wdb_num(w, v).c)
    BY <1>1, ValueHeld DEF wdb_num
  <2>4. Tellable(w, said) => Answers(wdb_num(w, v), said, Written(v))
    BY <1>1, <2>1, <2>2, NumTold
  <2> QED
    BY <2>1, <2>3, <2>4, BackCall
<1>10. CASE WriteBool
  <2>1. PICK v \in BOOLEAN : Call(wdb_bool(w, v), <<"bool", v>>)
    BY <1>10 DEF WriteBool
  <2>3. IsWriter(wdb_bool(w, v).c)
    BY <1>1, ValueHeld DEF wdb_bool
  <2>4. Tellable(w, said) => Answers(wdb_bool(w, v), said, <<"bool", v>>)
    BY <1>1, BoolTold
  <2> QED
    BY <2>1, <2>3, <2>4, BackCall
<1>11. CASE Fin
  BY <1>2, <1>11, BackFin
<1>12. CASE Read
  BY <1>2, <1>12, BackRead
<1>13. CASE UNCHANGED vars
  BY <1>2, <1>13 DEF vars, BackInv
<1> QED
  BY <1>5, <1>6, <1>7, <1>8, <1>9, <1>10, <1>11, <1>12, <1>13 DEF Next

(* What was reported so far is the beginning of what was written.          *)
LEMMA BackPrefix ==
  ASSUME BackInv
  PROVE  Prefix(got, said)
<1> USE ZenonT(40)
<1>1. DbInv /\ IsSeq(said) /\ IsSeq(<<>>) /\ Len(<<>>) = 0
  BY EmptySeq, SMT DEF BackInv, IsSeq
<1>2. CASE phase = "write"
  <2>1. got = <<>>
    BY <1>2 DEF BackInv
  <2> QED
    BY <1>1, <2>1, SMT DEF Prefix, IsSeq
<1>3. CASE phase = "read"
  <2>1. /\ Done(w.out, said) /\ Reads(w.out, pos, rdr, got) /\ IsWriter(w)
        /\ pos \in Nat /\ pos < Len(w.out) /\ w.out[Len(w.out)] = "NUL"
    BY <1>3, SMT DEF BackInv, DbInv
  <2>2. Len(w.out) \in Nat
    BY <2>1, SMT DEF IsWriter, IsSeq
  <2> QED
    BY <1>1, <2>1, <2>2, DoneReads
<1>4. CASE phase = "done"
  BY <1>1, <1>4, PrefixSelf DEF BackInv
<1>5. CASE phase = "bad"
  BY <1>5 DEF BackInv
<1>6. phase \in {"write", "read", "done", "bad"}
  BY <1>1 DEF DbInv
<1> QED
  BY <1>2, <1>3, <1>4, <1>5, <1>6

(* For every set of keys, strings without a backslash and numbers, and any *)
(* calls of the writer: what rdb_next reports of the text is, in order,    *)
(* what the calls that returned wdb_ok wrote, and all of it at the '\0'.   *)
THEOREM WritesReadBack ==
  ASSUME NoBackslash
  PROVE  Spec => []ReadsBack
<1>1. BackInv /\ [Next]_vars => BackInv'
  BY BackStep
<1>2. BackInv => ReadsBack
  <2> SUFFICES ASSUME BackInv PROVE ReadsBack
    OBVIOUS
  <2>1. Len(got) <= Len(said) /\ got = SubSeq(said, 1, Len(got))
    BY BackPrefix, PrefixIs, Zenon
  <2> QED
    BY <2>1, Zenon DEF ReadsBack, BackInv
<1> QED
  BY <1>1, <1>2, BackInit, PTL DEF Spec

(* What a C program can pass (a string has no '\0' inside, an integer is   *)
(* not -0), with keys that begin the way rdb.c has them.                   *)
Readable ==
  /\ \A v \in Keys : BeginsKey(v)
  /\ \A v \in Strs \cup LongStrs : "NUL" \notin Chars(v)
  /\ \A v \in Nums : v.neg /\ v.mant = 0 => v.fracs # 0

TooLong(x) == x[1] \in {"key", "str"} /\ Len(x[2]) >= str_mlen

(* The only token of the writer that rdb.c may refuse is a long one.       *)
OnlyLong(x) == Unreadable(x) => TooLong(x)

LongInv == IsSeq(said) /\ \A i \in 1..Len(said) : OnlyLong(said[i])

(* A token is too long or readable, by its kind.                           *)
LEMMA Kinds ==
  ASSUME NEW v
  PROVE  /\ BeginsKey(v) => OnlyLong(<<"key", v>>)
         /\ "NUL" \notin Chars(v) => OnlyLong(<<"str", v>>)
         /\ OnlyLong(<<"bool", v>>)
         /\ (v.neg /\ v.mant = 0 => v.fracs # 0) => OnlyLong(Written(v))
<1> USE ZenonT(40)
<1>1. /\ "key" # "str" /\ "key" # "num" /\ "str" # "num" /\ "bool" # "key" /\ "bool" # "str" /\ "bool" # "num"
      /\ "bool" \notin {"key", "str"} /\ "num" \notin {"key", "str"}
  BY SMT
<1>2. \A k, x : <<k, x>>[1] = k /\ <<k, x>>[2] = x
  BY SMT
<1>3. BeginsKey(v) => OnlyLong(<<"key", v>>)
  BY <1>1, <1>2 DEF OnlyLong, Unreadable, TooLong
<1>4. "NUL" \notin Chars(v) => OnlyLong(<<"str", v>>)
  BY <1>1, <1>2 DEF OnlyLong, Unreadable, TooLong
<1>5. OnlyLong(<<"bool", v>>)
  BY <1>1, <1>2 DEF OnlyLong, Unreadable, TooLong
<1>6. (v.neg /\ v.mant = 0 => v.fracs # 0) => OnlyLong(Written(v))
  <2> DEFINE x == [neg |-> v.neg, mant |-> v.mant, fracs |-> v.fracs, exp |-> 0]
  <2>1. x.neg = v.neg /\ x.mant = v.mant /\ x.fracs = v.fracs
    BY SMT
  <2>2. Written(v) = <<"num", x>>
    BY DEF Written
  <2> HIDE DEF x
  <2>3. (x.neg /\ x.mant = 0 => x.fracs # 0) => OnlyLong(<<"num", x>>)
    BY <1>1, <1>2 DEF OnlyLong, Unreadable, TooLong
  <2> QED
    BY <2>1, <2>2, <2>3
<1> QED
  BY <1>3, <1>4, <1>5, <1>6

(* A call adds at most its token.                                          *)
LEMMA LongCall ==
  ASSUME LongInv, NEW res, NEW token, Call(res, token), OnlyLong(token)
  PROVE  LongInv'
<1> USE ZenonT(40)
<1>1. said' = Append(said, token) \/ said' = said
  BY DEF Call
<1>2. CASE said' = said
  BY <1>2 DEF LongInv
<1>3. CASE said' = Append(said, token)
  <2> DEFINE u == Append(said, token)
  <2>1. IsSeq(said) /\ \A i \in 1..Len(said) : OnlyLong(said[i])
    BY DEF LongInv
  <2>2. /\ IsSeq(u) /\ Len(said) \in Nat /\ Len(u) = Len(said) + 1
        /\ u[Len(said) + 1] = token /\ \A i \in 1..Len(said) : u[i] = said[i]
    BY <2>1, AppendIs
  <2> HIDE DEF u
  <2>3. ASSUME NEW i \in 1..Len(u) PROVE OnlyLong(u[i])
    <3>1. i \in 1..Len(said) \/ i = Len(said) + 1
      BY <2>2, SMT
    <3> QED
      BY <2>1, <2>2, <3>1
  <2>4. said' = u
    BY <1>3 DEF u
  <2> QED
    BY <2>2, <2>3, <2>4 DEF LongInv
<1> QED
  BY <1>1, <1>2, <1>3

(* Only the calls change said.                                             *)
LEMMA LongStep ==
  ASSUME Readable, LongInv, [Next]_vars
  PROVE  LongInv'
<1> USE ZenonT(40)
<1>1. CASE WriteKey
  BY <1>1, LongCall, Kinds DEF WriteKey, Readable
<1>2. CASE WriteStr
  BY <1>2, LongCall, Kinds DEF WriteStr, Readable
<1>3. CASE WriteLongStr
  BY <1>3, LongCall, Kinds DEF WriteLongStr, Readable
<1>4. CASE WriteInt
  BY <1>4, LongCall, Kinds DEF WriteInt, Readable
<1>5. CASE WriteNum
  BY <1>5, LongCall, Kinds DEF WriteNum, Readable
<1>6. CASE WriteBool
  BY <1>6, LongCall, Kinds DEF WriteBool
<1>7. CASE Fin \/ Read \/ UNCHANGED vars
  <2>1. said' = said
    BY <1>7 DEF Fin, Read, vars
  <2> QED
    BY <2>1 DEF LongInv
<1> QED
  BY <1>1, <1>2, <1>3, <1>4, <1>5, <1>6, <1>7 DEF Next

(* For every set of such values: rdb_next refuses a text of the writer     *)
(* only when a key or a string in it does not fit in str_mlen with its     *)
(* '\0'.                                                                   *)
THEOREM RefusesOnlyLong ==
  ASSUME NoBackslash, Readable
  PROVE  Spec => []RefusedOnlyWhenLong
<1>1. BackInv /\ [Next]_vars => BackInv'
  BY BackStep
<1>2. LongInv /\ [Next]_vars => LongInv'
  BY LongStep, ZenonT(40)
<1>3. Init => LongInv
  <2>1. IsSeq(<<>>) /\ 1..Len(<<>>) = {}
    BY EmptySeq DEF IsSeq
  <2> QED
    BY <2>1, ZenonT(40) DEF Init, LongInv
<1>4. BackInv /\ LongInv => RefusedOnlyWhenLong
  <2> SUFFICES ASSUME BackInv, LongInv, phase = "bad" PROVE \E k \in DOMAIN said : TooLong(said[k])
    BY Zenon DEF RefusedOnlyWhenLong, TooLong
  <2>1. PICK i \in 1..Len(said) : Unreadable(said[i])
    BY Zenon DEF BackInv, Explained
  <2>2. TooLong(said[i])
    BY <2>1, Zenon DEF LongInv, OnlyLong
  <2>3. i \in DOMAIN said
    BY DEF LongInv, IsSeq
  <2> QED
    BY <2>2, <2>3, Zenon
<1> QED
  BY <1>1, <1>2, <1>3, <1>4, BackInit, PTL DEF Spec
====
