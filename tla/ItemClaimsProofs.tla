------------------------- MODULE ItemClaimsProofs ---------------------------
(***************************************************************************)
(* A pointer joined of keys leads where the keys lead, whatever characters *)
(* they hold and however deep they go; so a claim's selector finds the item*)
(* it was made from, for every body and every matcher.                     *)
(*                                                                         *)
(* What recursive functions compute is proved by induction, which here is  *)
(* that a set of numbers with a member has a least one.                    *)
(***************************************************************************)
EXTENDS ItemClaims, SequenceTheorems, WellFoundedInduction, TLAPS

(* What holds of 0, and of n + 1 whenever it holds of n, holds always.      *)
LEMMA Induction ==
  ASSUME NEW S, 0 \in S, \A n \in Nat : n \in S => n + 1 \in S
  PROVE  \A n \in Nat : n \in S
<1> DEFINE rest == Nat \ S
<1> SUFFICES ASSUME rest # {} PROVE FALSE
  OBVIOUS
<1>1. \E least \in rest : \A n \in rest : ~ <<n, least>> \in OpToRel(<, Nat)
  BY NatLessThanWellFounded, WFMin, Zenon
<1>2. ASSUME NEW least \in rest, NEW n \in rest,
             ~ <<n, least>> \in OpToRel(<, Nat)
      PROVE  ~ n < least
  BY <1>2, Zenon DEF OpToRel
<1>3. PICK least \in rest : \A n \in rest : ~ n < least
  BY <1>1, <1>2, Zenon
<1>4. least \in Nat /\ least # 0
  BY <1>3
<1>5. least - 1 \in S
  BY <1>3, <1>4
<1> QED BY <1>3, <1>4, <1>5

LEMMA TextAssociative ==
  \A s, t, u \in Text : (s \o t) \o u = s \o (t \o u)
BY ConcatAssociative DEF Text

-----------------------------------------------------------------------------
(* FlattenSeq *)

(* What FlattenSeq's function is up to n.                                  *)
Flattens(f, ss, n) ==
  \A i \in 1 .. n : f[i] = IF i = 1 THEN ss[i] ELSE f[i - 1] \o ss[i]

LEMMA FlattenIs ==
  ASSUME NEW ss \in Seq(Text), ss # <<>>
  PROVE  \E f : Flattens(f, ss, Len(ss)) /\ FlattenSeq(ss) = f[Len(ss)]
<1> DEFINE Upto(f, n) ==
             f = [i \in 1 .. n |->
                    IF i = 1 THEN ss[i] ELSE f[i - 1] \o ss[i]]
           defined == {n \in Nat : \E f : Upto(f, n)}
<1>1. 0 \in defined
  <2>1. Upto([i \in {} |-> 0], 0)
    OBVIOUS
  <2> QED BY <2>1
<1>2. ASSUME NEW n \in Nat, n \in defined PROVE n + 1 \in defined
  <2>1. PICK f : Upto(f, n)
    BY <1>2
  <2> DEFINE g == [i \in 1 .. n + 1 |->
                     IF i = 1 THEN ss[i] ELSE f[i - 1] \o ss[i]]
  <2>2. ASSUME NEW i \in 1 .. n + 1, i # 1 PROVE g[i - 1] = f[i - 1]
    <3>1. i - 1 \in 1 .. n /\ i - 1 \in 1 .. n + 1
      BY <2>2
    <3>2. f[i - 1] = IF i - 1 = 1 THEN ss[i - 1]
                     ELSE f[(i - 1) - 1] \o ss[i - 1]
      BY <2>1, <3>1
    <3> QED BY <3>1, <3>2
  <2>3. Upto(g, n + 1)
    <3>1. g = [i \in 1 .. n + 1 |->
                 IF i = 1 THEN ss[i] ELSE f[i - 1] \o ss[i]]
      OBVIOUS
    <3> HIDE DEF g
    <3>2. [i \in 1 .. n + 1 |-> IF i = 1 THEN ss[i] ELSE f[i - 1] \o ss[i]]
            = [i \in 1 .. n + 1 |->
                 IF i = 1 THEN ss[i] ELSE g[i - 1] \o ss[i]]
      BY <2>2
    <3> QED BY <3>1, <3>2
  <2> HIDE DEF g, Upto
  <2> QED BY <2>3
<1>3. Len(ss) \in Nat /\ Len(ss) # 0
  OBVIOUS
<1>4. Len(ss) \in defined
  <2> HIDE DEF defined
  <2> QED BY <1>1, <1>2, <1>3, Induction
<1> DEFINE flatten == CHOOSE f : Upto(f, Len(ss))
<1>5. Upto(flatten, Len(ss))
  BY <1>4
<1>6. FlattenSeq(ss) = flatten[Len(ss)]
  BY <1>3 DEF FlattenSeq
<1> HIDE DEF flatten
<1>7. Flattens(flatten, ss, Len(ss))
  BY <1>5 DEF Flattens
<1> QED BY <1>6, <1>7

LEMMA FlattenTypes ==
  ASSUME NEW ss \in Seq(Text), NEW f, NEW n \in Nat, n <= Len(ss),
         Flattens(f, ss, n)
  PROVE  \A i \in 1 .. n : f[i] \in Text
<1> DEFINE typed == {i \in Nat : i \in 1 .. n => f[i] \in Text}
<1>1. 0 \in typed
  OBVIOUS
<1>2. ASSUME NEW i \in Nat, i \in typed PROVE i + 1 \in typed
  <2> SUFFICES ASSUME i + 1 \in 1 .. n PROVE f[i + 1] \in Text
    OBVIOUS
  <2>1. ss[i + 1] \in Text
    OBVIOUS
  <2>2. CASE i = 0
    BY <2>1, <2>2 DEF Flattens
  <2>3. CASE i # 0
    <3>1. f[i + 1] = f[i] \o ss[i + 1]
      <4>1. (i + 1) - 1 = i /\ i + 1 # 1
        BY <2>3
      <4> QED BY <4>1 DEF Flattens
    <3>2. f[i] \in Text
      BY <1>2, <2>3
    <3> QED BY <2>1, <3>1, <3>2 DEF Text
  <2> QED BY <2>2, <2>3
<1> HIDE DEF typed
<1>3. \A i \in Nat : i \in typed
  BY <1>1, <1>2, Induction
<1> QED BY <1>3 DEF typed

LEMMA FlattenConcat ==
  ASSUME NEW ss \in Seq(Text), NEW tt \in Seq(Text)
  PROVE  /\ FlattenSeq(ss) \in Text
         /\ FlattenSeq(ss \o tt) = FlattenSeq(ss) \o FlattenSeq(tt)
<1>1. FlattenSeq(<<>>) = <<>>
  BY DEF FlattenSeq
<1>2. <<>> \in Text
  BY DEF Text
<1>3. ASSUME NEW ts \in Seq(Text) PROVE FlattenSeq(ts) \in Text
  <2>1. CASE ts = <<>>
    BY <1>1, <1>2, <2>1
  <2>2. CASE ts # <<>>
    <3>1. PICK f : Flattens(f, ts, Len(ts)) /\ FlattenSeq(ts) = f[Len(ts)]
      BY <2>2, FlattenIs
    <3>2. Len(ts) \in Nat /\ Len(ts) \in 1 .. Len(ts)
      BY <2>2
    <3> QED BY <3>1, <3>2, FlattenTypes
  <2> QED BY <2>1, <2>2
<1>4. CASE ss = <<>>
  <2>1. ss \o tt = tt
    BY <1>4
  <2>2. FlattenSeq(tt) \in Text
    BY <1>3
  <2>3. <<>> \o FlattenSeq(tt) = FlattenSeq(tt)
    BY <2>2 DEF Text
  <2> QED BY <1>1, <1>2, <1>4, <2>1, <2>3
<1>5. CASE tt = <<>>
  <2>1. ss \o tt = ss
    BY <1>5
  <2>2. FlattenSeq(ss) \in Text
    BY <1>3
  <2>3. FlattenSeq(ss) \o <<>> = FlattenSeq(ss)
    BY <2>2 DEF Text
  <2> QED BY <1>1, <1>5, <2>1, <2>2, <2>3
<1>6. CASE ss # <<>> /\ tt # <<>>
  <2> DEFINE st == ss \o tt
             k == Len(ss)
             l == Len(tt)
  <2>1. /\ st \in Seq(Text) /\ Len(st) = k + l /\ st # <<>>
        /\ k \in Nat /\ l \in Nat /\ k # 0 /\ l # 0
        /\ \A i \in 1 .. k : st[i] = ss[i]
        /\ \A i \in 1 .. l : st[k + i] = tt[i]
    BY <1>6
  <2> HIDE DEF st, k, l
  <2>2. PICK f : Flattens(f, ss, k) /\ FlattenSeq(ss) = f[k]
    BY <1>6, FlattenIs DEF k
  <2>3. PICK g : Flattens(g, tt, l) /\ FlattenSeq(tt) = g[l]
    BY <1>6, FlattenIs DEF l
  <2>4. PICK h : Flattens(h, st, k + l) /\ FlattenSeq(st) = h[k + l]
    BY <2>1, FlattenIs
  <2>5. /\ \A i \in 1 .. k : f[i] \in Text
        /\ \A i \in 1 .. l : g[i] \in Text
    <3>1. k \in Nat /\ k <= Len(ss) /\ l \in Nat /\ l <= Len(tt)
      BY DEF k, l
    <3>2. \A i \in 1 .. k : f[i] \in Text
      BY <2>2, <3>1, FlattenTypes
    <3> QED BY <2>3, <3>1, <3>2, FlattenTypes
  <2> DEFINE same == {i \in Nat : i \in 1 .. k => h[i] = f[i]}
             joined == {i \in Nat : i \in 1 .. l => h[k + i] = f[k] \o g[i]}
  <2>6. \A i \in Nat : i \in same
    <3>1. 0 \in same
      OBVIOUS
    <3>2. ASSUME NEW i \in Nat, i \in same PROVE i + 1 \in same
      <4> SUFFICES ASSUME i + 1 \in 1 .. k PROVE h[i + 1] = f[i + 1]
        OBVIOUS
      <4>1. i + 1 \in 1 .. k + l /\ (i # 0 => i \in 1 .. k)
        BY <2>1
      <4>2. f[i + 1] = IF i = 0 THEN ss[i + 1] ELSE f[i] \o ss[i + 1]
        BY <2>2 DEF Flattens
      <4>3. h[i + 1] = IF i = 0 THEN st[i + 1] ELSE h[i] \o st[i + 1]
        BY <2>4, <4>1 DEF Flattens
      <4>4. i # 0 => h[i] = f[i]
        BY <3>2, <4>1
      <4> QED BY <2>1, <4>2, <4>3, <4>4
    <3> HIDE DEF same
    <3> QED BY <3>1, <3>2, Induction
  <2>7. \A i \in Nat : i \in joined
    <3>1. 0 \in joined
      OBVIOUS
    <3>2. ASSUME NEW i \in Nat, i \in joined PROVE i + 1 \in joined
      <4> SUFFICES ASSUME i + 1 \in 1 .. l
                   PROVE  h[k + (i + 1)] = f[k] \o g[i + 1]
        <5>1. i + 1 \in Nat
          OBVIOUS
        <5> QED BY <5>1, Zenon
      <4>1. /\ k + (i + 1) \in 1 .. k + l /\ k + (i + 1) # 1
            /\ (k + (i + 1)) - 1 = k + i /\ k \in 1 .. k
            /\ i # 0 => i \in 1 .. l
        BY <2>1
      <4>2. h[k + (i + 1)] = h[k + i] \o st[k + (i + 1)]
        BY <2>4, <4>1 DEF Flattens
      <4>3. st[k + (i + 1)] = tt[i + 1]
        BY <2>1
      <4>4. CASE i = 0
        <5>1. h[k + i] = f[k]
          BY <2>1, <2>6, <4>1, <4>4
        <5>2. g[i + 1] = tt[i + 1]
          BY <2>3, <4>4 DEF Flattens
        <5> QED BY <4>2, <4>3, <5>1, <5>2
      <4>5. CASE i # 0
        <5>1. h[k + i] = f[k] \o g[i]
          BY <3>2, <4>1, <4>5
        <5>2. g[i + 1] = g[i] \o tt[i + 1]
          <6>1. (i + 1) - 1 = i /\ i + 1 # 1
            BY <4>5
          <6> QED BY <2>3, <6>1 DEF Flattens
        <5>3. f[k] \in Text /\ g[i] \in Text /\ tt[i + 1] \in Text
          BY <2>5, <4>1, <4>5 DEF l
        <5>4. (f[k] \o g[i]) \o tt[i + 1] = f[k] \o (g[i] \o tt[i + 1])
          BY <5>3, TextAssociative
        <5> QED BY <4>2, <4>3, <5>1, <5>2, <5>4
      <4> QED BY <4>4, <4>5
    <3> HIDE DEF joined
    <3> QED BY <3>1, <3>2, Induction
  <2>8. h[k + l] = f[k] \o g[l]
    <3>1. l \in Nat /\ l \in 1 .. l
      BY <2>1
    <3> QED BY <2>7, <3>1, Zenon
  <2>9. FlattenSeq(st) = FlattenSeq(ss) \o FlattenSeq(tt)
    BY <2>2, <2>3, <2>4, <2>8
  <2> QED BY <1>3, <2>9 DEF st
<1> QED BY <1>3, <1>4, <1>5, <1>6

-----------------------------------------------------------------------------
(* Texts, character by character *)

LEMMA SeqInduction ==
  ASSUME NEW T, NEW S, <<>> \in S,
         \A s \in Seq(T), e \in T : s \in S => Append(s, e) \in S
  PROVE  \A s \in Seq(T) : s \in S
<1> DEFINE long == {n \in Nat : \A s \in Seq(T) : Len(s) = n => s \in S}
<1>1. 0 \in long
  OBVIOUS
<1>2. ASSUME NEW n \in Nat, n \in long PROVE n + 1 \in long
  <2> SUFFICES ASSUME NEW s \in Seq(T), Len(s) = n + 1 PROVE s \in S
    OBVIOUS
  <2>1. s # <<>>
    OBVIOUS
  <2>2. PICK t \in Seq(T), e \in T : s = Append(t, e)
    BY <2>1, SequenceEmptyOrAppend
  <2>3. Len(t) = n
    BY <2>2, AppendProperties
  <2>4. t \in S
    BY <1>2, <2>3
  <2> QED BY <2>2, <2>4
<1> HIDE DEF long
<1>3. \A n \in Nat : n \in long
  BY <1>1, <1>2, Induction
<1>4. \A s \in Seq(T) : Len(s) \in Nat
  OBVIOUS
<1> QED BY <1>3, <1>4 DEF long

LEMMA TextInduction ==
  ASSUME NEW S, <<>> \in S,
         \A s \in Text, c \in Char : s \in S => s \o <<c>> \in S
  PROVE  \A s \in Text : s \in S
<1>1. \A s \in Seq(Char), c \in Char : s \in S => Append(s, c) \in S
  BY AppendIsConcat DEF Text
<1> QED BY <1>1, SeqInduction DEF Text

LEMMA TextFacts ==
  ASSUME NEW s \in Text, NEW t \in Text
  PROVE  /\ s \o t \in Text /\ s \o <<>> = s /\ <<>> \o s = s
         /\ DOMAIN s = 1 .. Len(s) /\ Len(s) \in Nat
         /\ Len(s \o t) = Len(s) + Len(t)
         /\ \A i \in 1 .. Len(s) : (s \o t)[i] = s[i] /\ s[i] \in Char
         /\ \A i \in 1 .. Len(t) : (s \o t)[Len(s) + i] = t[i]
BY ConcatProperties, ConcatEmptySeq DEF Text

LEMMA CharFacts ==
  /\ {"~", "/", "0", "1"} \subseteq Char
  /\ \A c \in Char : <<c>> \in Text /\ Len(<<c>>) = 1 /\ <<c>>[1] = c
  /\ <<>> \in Text /\ Len(<<>>) = 0
<1>1. {"~", "/"} \subseteq Char
  BY CharAssumption
<1>2. "0" = Digits[1] /\ "1" = Digits[2] /\ 1 \in DOMAIN Digits
      /\ 2 \in DOMAIN Digits
  BY DEF Digits
<1>3. "0" \in ToSet(Digits) /\ "1" \in ToSet(Digits)
  BY <1>2 DEF ToSet
<1>4. ToSet(Digits) \subseteq Char
  BY CharAssumption
<1>5. \A c \in Char : <<c>> \in Text /\ Len(<<c>>) = 1 /\ <<c>>[1] = c
  BY DEF Text
<1>6. <<>> \in Text /\ Len(<<>>) = 0
  BY DEF Text
<1> QED BY <1>1, <1>3, <1>4, <1>5, <1>6

LEMMA FlattenSmall ==
  /\ FlattenSeq(<<>>) = <<>>
  /\ \A s \in Text : FlattenSeq(<<s>>) = s
  /\ \A s, t \in Text : FlattenSeq(<<s, t>>) = s \o t
<1>1. FlattenSeq(<<>>) = <<>>
  BY DEF FlattenSeq
<1>2. ASSUME NEW s \in Text PROVE FlattenSeq(<<s>>) = s
  <2>1. <<s>> \in Seq(Text) /\ <<s>> # <<>> /\ Len(<<s>>) = 1 /\ <<s>>[1] = s
    OBVIOUS
  <2>2. PICK f : Flattens(f, <<s>>, 1) /\ FlattenSeq(<<s>>) = f[1]
    BY <2>1, FlattenIs
  <2>3. f[1] = <<s>>[1]
    BY <2>2 DEF Flattens
  <2> QED BY <2>1, <2>2, <2>3
<1>3. ASSUME NEW s \in Text, NEW t \in Text
      PROVE  FlattenSeq(<<s, t>>) = s \o t
  <2> DEFINE st == <<s, t>>
  <2>1. /\ st \in Seq(Text) /\ st # <<>> /\ Len(st) = 2
        /\ st[1] = s /\ st[2] = t
    OBVIOUS
  <2> HIDE DEF st
  <2>2. PICK f : Flattens(f, st, 2) /\ FlattenSeq(st) = f[2]
    BY <2>1, FlattenIs
  <2>3. f[1] = st[1] /\ f[2] = f[1] \o st[2]
    <3>1. 1 \in 1 .. 2 /\ 2 \in 1 .. 2 /\ 2 # 1 /\ 2 - 1 = 1
      OBVIOUS
    <3>2. f[2] = f[2 - 1] \o st[2]
      BY <2>2, <3>1, Zenon DEF Flattens
    <3>3. f[1] = st[1]
      BY <2>2, <3>1, Zenon DEF Flattens
    <3> QED BY <3>1, <3>2, <3>3
  <2>4. FlattenSeq(st) = s \o t
    BY <2>1, <2>2, <2>3
  <2> QED BY <2>4 DEF st
<1> QED BY <1>1, <1>2, <1>3

(* Pieces cut in two places side by side.                                  *)
LEMMA FlattenSplit ==
  ASSUME NEW p \in Seq(Text), NEW q \in Seq(Text), NEW r \in Seq(Text),
         Len(r) = Len(p) + Len(q),
         \A i \in 1 .. Len(p) : r[i] = p[i],
         \A i \in 1 .. Len(q) : r[Len(p) + i] = q[i]
  PROVE  FlattenSeq(r) = FlattenSeq(p) \o FlattenSeq(q)
<1>1. /\ p \o q \in Seq(Text) /\ Len(p \o q) = Len(p) + Len(q)
      /\ Len(p) \in Nat /\ Len(q) \in Nat
      /\ \A i \in 1 .. Len(p) : (p \o q)[i] = p[i]
      /\ \A i \in 1 .. Len(q) : (p \o q)[Len(p) + i] = q[i]
  OBVIOUS
<1>2. ASSUME NEW i \in 1 .. Len(r) PROVE r[i] = (p \o q)[i]
  <2>1. CASE i <= Len(p)
    <3>1. i \in 1 .. Len(p)
      BY <1>1, <2>1
    <3> QED BY <1>1, <3>1
  <2>2. CASE ~(i <= Len(p))
    <3>1. i - Len(p) \in 1 .. Len(q) /\ i = Len(p) + (i - Len(p))
      BY <1>1, <2>2
    <3>2. r[Len(p) + (i - Len(p))] = (p \o q)[Len(p) + (i - Len(p))]
      BY <1>1, <3>1
    <3> QED BY <3>1, <3>2
  <2> QED BY <2>1, <2>2
<1>3. r = p \o q
  <2> DEFINE pq == p \o q
  <2>1. pq \in Seq(Text) /\ Len(pq) = Len(r)
    BY <1>1
  <2>2. \A i \in 1 .. Len(r) : r[i] = pq[i]
    BY <1>2
  <2> HIDE DEF pq
  <2>3. r = pq
    BY <2>1, <2>2, SeqEqual
  <2> QED BY <2>3 DEF pq
<1> QED BY <1>3, FlattenConcat

LEMMA ReplaceCharIs ==
  ASSUME NEW x, NEW by \in Text
  PROVE  /\ ReplaceChar(<<>>, x, by) = <<>>
         /\ \A c \in Char :
              ReplaceChar(<<c>>, x, by) = IF c = x THEN by ELSE <<c>>
         /\ \A s, t \in Text :
              /\ ReplaceChar(s, x, by) \in Text
              /\ ReplaceChar(s \o t, x, by)
                   = ReplaceChar(s, x, by) \o ReplaceChar(t, x, by)
<1> DEFINE Pieces(s) == [i \in DOMAIN s |-> IF s[i] = x THEN by ELSE <<s[i]>>]
<1>1. \A s : ReplaceChar(s, x, by) = FlattenSeq(Pieces(s))
  BY DEF ReplaceChar
<1>2. Pieces(<<>>) = <<>>
  OBVIOUS
<1>3. ASSUME NEW c \in Char
      PROVE  Pieces(<<c>>) = << IF c = x THEN by ELSE <<c>> >>
  OBVIOUS
<1>4. ASSUME NEW s \in Text
      PROVE  Pieces(s) \in Seq(Text) /\ Len(Pieces(s)) = Len(s)
  <2>1. \A i \in 1 .. Len(s) : <<s[i]>> \in Text
    BY DEF Text
  <2>2. DOMAIN s = 1 .. Len(s) /\ Len(s) \in Nat
    BY DEF Text
  <2>3. Pieces(s) \in [1 .. Len(s) -> Text]
    BY <2>1, <2>2
  <2> QED BY <2>2, <2>3
<1>5. ASSUME NEW s \in Text, NEW t \in Text
      PROVE  FlattenSeq(Pieces(s \o t))
               = FlattenSeq(Pieces(s)) \o FlattenSeq(Pieces(t))
  <2> DEFINE p == Pieces(s)
             q == Pieces(t)
             r == Pieces(s \o t)
  <2>1. s \o t \in Text /\ Len(s \o t) = Len(s) + Len(t)
    BY TextFacts
  <2>2. /\ p \in Seq(Text) /\ q \in Seq(Text) /\ r \in Seq(Text)
        /\ Len(p) = Len(s) /\ Len(q) = Len(t) /\ Len(r) = Len(p) + Len(q)
    <3> HIDE DEF Pieces
    <3> QED BY <1>4, <2>1
  <2>3. /\ DOMAIN (s \o t) = 1 .. Len(s) + Len(t) /\ DOMAIN s = 1 .. Len(s)
        /\ DOMAIN t = 1 .. Len(t) /\ Len(s) \in Nat /\ Len(t) \in Nat
    BY <2>1, TextFacts
  <2>4. ASSUME NEW i \in 1 .. Len(s) PROVE r[i] = p[i]
    <3>1. (s \o t)[i] = s[i] /\ i \in 1 .. Len(s) + Len(t)
      BY <2>3, TextFacts
    <3> QED BY <2>3, <3>1
  <2>5. ASSUME NEW i \in 1 .. Len(t) PROVE r[Len(s) + i] = q[i]
    <3>1. (s \o t)[Len(s) + i] = t[i]
      BY TextFacts
    <3>2. Len(s) + i \in 1 .. Len(s) + Len(t)
      BY <2>3
    <3> QED BY <2>3, <3>1, <3>2
  <2> HIDE DEF p, q, r
  <2>6. FlattenSeq(r) = FlattenSeq(p) \o FlattenSeq(q)
    <3>1. /\ \A i \in 1 .. Len(p) : r[i] = p[i]
          /\ \A i \in 1 .. Len(q) : r[Len(p) + i] = q[i]
      BY <2>2, <2>4, <2>5
    <3> QED BY <2>2, <3>1, FlattenSplit
  <2> QED BY <2>6 DEF p, q, r
<1> HIDE DEF Pieces
<1>6. ASSUME NEW c \in Char
      PROVE  ReplaceChar(<<c>>, x, by) = IF c = x THEN by ELSE <<c>>
  BY <1>1, <1>3, CharFacts, FlattenSmall
<1>7. ASSUME NEW s \in Text, NEW t \in Text
      PROVE  /\ ReplaceChar(s, x, by) \in Text
             /\ ReplaceChar(s \o t, x, by)
                  = ReplaceChar(s, x, by) \o ReplaceChar(t, x, by)
  <2>1. FlattenSeq(Pieces(s)) \in Text
    <3>1. Pieces(s) \in Seq(Text)
      BY <1>4
    <3> QED BY <3>1, FlattenConcat
  <2>2. /\ ReplaceChar(s, x, by) = FlattenSeq(Pieces(s))
        /\ ReplaceChar(t, x, by) = FlattenSeq(Pieces(t))
        /\ ReplaceChar(s \o t, x, by) = FlattenSeq(Pieces(s \o t))
    BY <1>1, Zenon
  <2>3. FlattenSeq(Pieces(s \o t))
          = FlattenSeq(Pieces(s)) \o FlattenSeq(Pieces(t))
    BY <1>5, Zenon
  <2> QED BY <2>1, <2>2, <2>3, Zenon
<1>8. ReplaceChar(<<>>, x, by) = <<>>
  BY <1>1, <1>2, FlattenSmall
<1> QED BY <1>6, <1>7, <1>8

(* What ends in x and what begins with y make a pair side by side.         *)
EndsIn(s, x) == s # <<>> /\ s[Len(s)] = x
BeginsWith(s, y) == s # <<>> /\ s[1] = y

LEMMA ReplacePairIs ==
  ASSUME NEW x \in Char, NEW y \in Char, x # y, NEW by \in Char
  PROVE  /\ ReplacePair(<<>>, x, y, by) = <<>>
         /\ \A c \in Char : ReplacePair(<<c>>, x, y, by) = <<c>>
         /\ ReplacePair(<<x, y>>, x, y, by) = <<by>>
         /\ \A s, t \in Text :
              /\ ReplacePair(s, x, y, by) \in Text
              /\ ~(EndsIn(s, x) /\ BeginsWith(t, y)) =>
                   ReplacePair(s \o t, x, y, by)
                     = ReplacePair(s, x, y, by) \o ReplacePair(t, x, y, by)
<1> DEFINE Begins(s, i) == i + 1 \in DOMAIN s /\ s[i] = x /\ s[i + 1] = y
           Ends(s, i) == i - 1 \in DOMAIN s /\ Begins(s, i - 1)
           Piece(s, i) == IF Begins(s, i) THEN <<by>>
                          ELSE IF Ends(s, i) THEN <<>> ELSE <<s[i]>>
           Pieces(s) == [i \in DOMAIN s |-> Piece(s, i)]
<1>1. \A s : ReplacePair(s, x, y, by) = FlattenSeq(Pieces(s))
  BY DEF ReplacePair
<1>2. Pieces(<<>>) = <<>>
  OBVIOUS
<1>3. ASSUME NEW c \in Char PROVE Pieces(<<c>>) = << <<c>> >>
  OBVIOUS
<1>4. Pieces(<<x, y>>) = << <<by>>, <<>> >>
  OBVIOUS
<1>5. ASSUME NEW s \in Text
      PROVE  Pieces(s) \in Seq(Text) /\ Len(Pieces(s)) = Len(s)
  <2>1. \A i \in 1 .. Len(s) : <<s[i]>> \in Text
    BY DEF Text
  <2>2. DOMAIN s = 1 .. Len(s) /\ Len(s) \in Nat
    BY DEF Text
  <2>3. <<by>> \in Text /\ <<>> \in Text
    BY CharFacts
  <2>4. Pieces(s) \in [1 .. Len(s) -> Text]
    <3>1. \A i \in 1 .. Len(s) : Piece(s, i) \in Text
      <4> HIDE DEF Begins, Ends
      <4> QED BY <2>1, <2>3
    <3> HIDE DEF Piece
    <3> QED BY <2>2, <3>1
  <2> HIDE DEF Pieces
  <2> QED BY <2>2, <2>4
<1>6. ASSUME NEW s \in Text, NEW t \in Text,
             ~(EndsIn(s, x) /\ BeginsWith(t, y))
      PROVE  FlattenSeq(Pieces(s \o t))
               = FlattenSeq(Pieces(s)) \o FlattenSeq(Pieces(t))
  <2> DEFINE p == Pieces(s)
             q == Pieces(t)
             r == Pieces(s \o t)
             st == s \o t
             k == Len(s)
             l == Len(t)
  <2>1. s \o t \in Text /\ Len(s \o t) = Len(s) + Len(t)
    BY TextFacts
  <2>2. /\ p \in Seq(Text) /\ q \in Seq(Text) /\ r \in Seq(Text)
        /\ Len(p) = Len(s) /\ Len(q) = Len(t) /\ Len(r) = Len(p) + Len(q)
    <3> HIDE DEF Pieces
    <3> QED BY <1>5, <2>1
  <2>3. /\ DOMAIN st = 1 .. k + l /\ DOMAIN s = 1 .. k
        /\ DOMAIN t = 1 .. l /\ k \in Nat /\ l \in Nat
        /\ \A i \in 1 .. k : st[i] = s[i]
        /\ \A i \in 1 .. l : st[k + i] = t[i]
    BY <2>1, TextFacts
  <2>4. ~(k > 0 /\ l > 0 /\ s[k] = x /\ t[1] = y)
    <3>1. (k > 0 => s # <<>>) /\ (l > 0 => t # <<>>)
      BY DEF Text
    <3> QED BY <1>6, <3>1 DEF EndsIn, BeginsWith
  <2> HIDE DEF st, k, l
  <2>5. ASSUME NEW i \in 1 .. k PROVE Begins(st, i) = Begins(s, i)
    <3>1. CASE i = k
      <4>1. ~Begins(s, i)
        BY <2>3, <3>1
      <4>2. CASE l = 0
        BY <2>3, <3>1, <4>1, <4>2
      <4>3. CASE l # 0
        <5>1. st[k + 1] = t[1] /\ st[k] = s[k] /\ k > 0 /\ l > 0
          BY <2>3, <3>1, <4>3
        <5> QED BY <2>4, <3>1, <4>1, <5>1
      <4> QED BY <4>2, <4>3
    <3>2. CASE i # k
      <4>1. i + 1 \in 1 .. k /\ i + 1 \in 1 .. k + l
        BY <2>3, <3>2
      <4> QED BY <2>3, <4>1
    <3> QED BY <3>1, <3>2
  <2>6. ASSUME NEW i \in 1 .. l PROVE Begins(st, k + i) = Begins(t, i)
    <3>1. (k + i) + 1 = k + (i + 1)
          /\ (k + (i + 1) \in 1 .. k + l <=> i + 1 \in 1 .. l)
      BY <2>3
    <3>2. st[k + i] = t[i] /\ (i + 1 \in 1 .. l => st[k + (i + 1)] = t[i + 1])
      BY <2>3
    <3> QED BY <2>3, <3>1, <3>2
  <2>7. ASSUME NEW i \in 1 .. k PROVE Ends(st, i) = Ends(s, i)
    <3>1. i - 1 \in 1 .. k <=> i - 1 \in 1 .. k + l
      BY <2>3
    <3> HIDE DEF Begins
    <3> QED BY <2>3, <2>5, <3>1
  <2>8. ASSUME NEW i \in 1 .. l PROVE Ends(st, k + i) = Ends(t, i)
    <3>1. CASE i = 1
      <4>1. ~Ends(t, i)
        BY <2>3, <3>1
      <4>2. CASE k = 0
        BY <2>3, <3>1, <4>1, <4>2
      <4>3. CASE k # 0
        <5>1. /\ st[k + 1] = t[1] /\ st[k] = s[k] /\ k > 0 /\ l > 0
              /\ (k + i) - 1 = k /\ k + 1 = k + i
          BY <2>3, <3>1, <4>3
        <5> QED BY <2>4, <3>1, <4>1, <5>1
      <4> QED BY <4>2, <4>3
    <3>2. CASE i # 1
      <4>1. /\ i - 1 \in 1 .. l /\ (k + i) - 1 = k + (i - 1)
            /\ k + (i - 1) \in 1 .. k + l
        BY <2>3, <3>2
      <4> HIDE DEF Begins
      <4> QED BY <2>3, <2>6, <4>1
    <3> QED BY <3>1, <3>2
  <2>9. ASSUME NEW i \in 1 .. Len(p) PROVE r[i] = p[i]
    <3>1. i \in 1 .. k /\ i \in DOMAIN s /\ i \in DOMAIN st /\ st[i] = s[i]
      <4>1. i \in 1 .. k
        BY <2>2 DEF k
      <4> QED BY <2>3, <4>1
    <3>2. Piece(st, i) = Piece(s, i)
      <4>1. Begins(st, i) = Begins(s, i) /\ Ends(st, i) = Ends(s, i)
        BY <2>5, <2>7, <3>1
      <4> HIDE DEF Begins, Ends
      <4> QED BY <3>1, <4>1
    <3> HIDE DEF Piece
    <3> QED BY <3>1, <3>2 DEF st
  <2>10. ASSUME NEW i \in 1 .. Len(q) PROVE r[Len(p) + i] = q[i]
    <3>1. /\ i \in 1 .. l /\ i \in DOMAIN t /\ k + i \in DOMAIN st
          /\ st[k + i] = t[i]
      <4>1. i \in 1 .. l
        BY <2>2 DEF l
      <4> QED BY <2>3, <4>1
    <3>2. Piece(st, k + i) = Piece(t, i)
      <4>1. Begins(st, k + i) = Begins(t, i) /\ Ends(st, k + i) = Ends(t, i)
        BY <2>6, <2>8, <3>1
      <4> HIDE DEF Begins, Ends
      <4> QED BY <3>1, <4>1
    <3>3. Len(p) = k
      BY <2>2 DEF k
    <3> HIDE DEF Piece
    <3>4. r[k + i] = Piece(st, k + i) /\ q[i] = Piece(t, i)
      BY <3>1 DEF st
    <3> HIDE DEF p, q, r
    <3> QED BY <3>2, <3>3, <3>4
  <2> HIDE DEF p, q, r
  <2>11. FlattenSeq(r) = FlattenSeq(p) \o FlattenSeq(q)
    BY <2>2, <2>9, <2>10, FlattenSplit
  <2> QED BY <2>11 DEF p, q, r
<1> HIDE DEF Pieces
<1>7. ASSUME NEW c \in Char PROVE ReplacePair(<<c>>, x, y, by) = <<c>>
  BY <1>1, <1>3, CharFacts, FlattenSmall
<1>8. ReplacePair(<<x, y>>, x, y, by) = <<by>>
  <2>1. <<by>> \in Text /\ <<>> \in Text /\ <<by>> \o <<>> = <<by>>
    BY CharFacts, TextFacts
  <2> QED BY <1>1, <1>4, <2>1, FlattenSmall
<1>9. ASSUME NEW s \in Text, NEW t \in Text
      PROVE  /\ ReplacePair(s, x, y, by) \in Text
             /\ ~(EndsIn(s, x) /\ BeginsWith(t, y)) =>
                  ReplacePair(s \o t, x, y, by)
                    = ReplacePair(s, x, y, by) \o ReplacePair(t, x, y, by)
  <2>1. FlattenSeq(Pieces(s)) \in Text
    <3>1. Pieces(s) \in Seq(Text)
      BY <1>5
    <3> QED BY <3>1, FlattenConcat
  <2>2. /\ ReplacePair(s, x, y, by) = FlattenSeq(Pieces(s))
        /\ ReplacePair(t, x, y, by) = FlattenSeq(Pieces(t))
        /\ ReplacePair(s \o t, x, y, by) = FlattenSeq(Pieces(s \o t))
    BY <1>1, Zenon
  <2>3. ~(EndsIn(s, x) /\ BeginsWith(t, y)) =>
          FlattenSeq(Pieces(s \o t))
            = FlattenSeq(Pieces(s)) \o FlattenSeq(Pieces(t))
    BY <1>6, Zenon
  <2> QED BY <2>1, <2>2, <2>3, Zenon
<1>10. ReplacePair(<<>>, x, y, by) = <<>>
  BY <1>1, <1>2, FlattenSmall
<1> QED BY <1>7, <1>8, <1>9, <1>10

-----------------------------------------------------------------------------
(* Escaping *)

(* A text is without "/".                                                  *)
Plain(s) == \A i \in 1 .. Len(s) : s[i] # "/"

LEMMA PlainConcat ==
  ASSUME NEW s \in Text, NEW t \in Text
  PROVE  /\ Plain(s) /\ Plain(t) => Plain(s \o t)
         /\ \A x : t # <<>> => (EndsIn(s \o t, x) <=> EndsIn(t, x))
<1>1. /\ Len(s \o t) = Len(s) + Len(t) /\ Len(s) \in Nat /\ Len(t) \in Nat
      /\ \A i \in 1 .. Len(s) : (s \o t)[i] = s[i]
      /\ \A i \in 1 .. Len(t) : (s \o t)[Len(s) + i] = t[i]
  BY TextFacts
<1>2. ASSUME Plain(s), Plain(t), NEW i \in 1 .. Len(s) + Len(t)
      PROVE  (s \o t)[i] # "/"
  <2>1. CASE i <= Len(s)
    BY <1>1, <1>2, <2>1 DEF Plain
  <2>2. CASE ~(i <= Len(s))
    <3>1. i - Len(s) \in 1 .. Len(t) /\ i = Len(s) + (i - Len(s))
      BY <1>1, <2>2
    <3>2. (s \o t)[Len(s) + (i - Len(s))] # "/"
      BY <1>1, <1>2, <3>1 DEF Plain
    <3> QED BY <3>1, <3>2
  <2> QED BY <2>1, <2>2
<1>3. ASSUME NEW x, t # <<>> PROVE (EndsIn(s \o t, x) <=> EndsIn(t, x))
  <2>1. Len(t) \in 1 .. Len(t) /\ Len(s \o t) # 0
    <3>1. Len(t) # 0
      BY <1>3 DEF Text
    <3> QED BY <1>1, <3>1
  <2>2. (s \o t)[Len(s \o t)] = t[Len(t)]
    BY <1>1, <2>1
  <2>3. s \o t # <<>>
    BY <2>1
  <2> QED BY <1>3, <2>2, <2>3 DEF EndsIn
<1>4. Plain(s) /\ Plain(t) => Plain(s \o t)
  <2>1. Len(s \o t) = Len(s) + Len(t)
    BY <1>1
  <2> QED BY <1>2, <2>1 DEF Plain
<1> QED BY <1>3, <1>4

(* The first half of Escape, and what Escape makes of one character.       *)
Tildes(s) == ReplaceChar(s, "~", <<"~", "0">>)
EscapedChar(c) ==
  IF c = "~" THEN <<"~", "0">> ELSE IF c = "/" THEN <<"~", "1">> ELSE <<c>>
TildeChar(c) == IF c = "~" THEN <<"~", "0">> ELSE <<c>>

LEMMA EscapedCharIs ==
  ASSUME NEW c \in Char
  PROVE  /\ EscapedChar(c) \in Text /\ EscapedChar(c) # <<>>
         /\ Plain(EscapedChar(c)) /\ ~EndsIn(EscapedChar(c), "~")
         /\ TildeChar(c) \in Text /\ TildeChar(c) # <<>>
         /\ ~EndsIn(TildeChar(c), "~")
<1>1. {"~", "/", "0", "1"} \subseteq Char
  BY CharFacts
<1>2. <<"~", "0">> \in Text /\ <<"~", "1">> \in Text /\ <<c>> \in Text
  BY <1>1 DEF Text
<1>3. Plain(<<"~", "0">>) /\ Plain(<<"~", "1">>) /\ (c # "/" => Plain(<<c>>))
  <2>1. \A i \in 1 .. 2 : i = 1 \/ i = 2
    OBVIOUS
  <2>2. \A i \in 1 .. 1 : i = 1
    OBVIOUS
  <2>3. Len(<<"~", "0">>) = 2 /\ Len(<<"~", "1">>) = 2 /\ Len(<<c>>) = 1
    OBVIOUS
  <2>4. Plain(<<"~", "0">>)
    BY <2>1, <2>3 DEF Plain
  <2>5. Plain(<<"~", "1">>)
    BY <2>1, <2>3 DEF Plain
  <2>6. c # "/" => Plain(<<c>>)
    BY <2>2, <2>3 DEF Plain
  <2> QED BY <2>4, <2>5, <2>6
<1>4. ~EndsIn(<<"~", "0">>, "~") /\ ~EndsIn(<<"~", "1">>, "~")
      /\ (c # "~" => ~EndsIn(<<c>>, "~"))
  BY DEF EndsIn
<1> QED BY <1>2, <1>3, <1>4 DEF EscapedChar, TildeChar

LEMMA EscapeIs ==
  /\ Escape(<<>>) = <<>> /\ Tildes(<<>>) = <<>>
  /\ \A s \in Text, c \in Char :
       /\ Escape(s) \in Text /\ Tildes(s) \in Text
       /\ Escape(s \o <<c>>) = Escape(s) \o EscapedChar(c)
       /\ Tildes(s \o <<c>>) = Tildes(s) \o TildeChar(c)
<1> DEFINE slashes(s) == ReplaceChar(s, "/", <<"~", "1">>)
<1>1. {"~", "/", "0", "1"} \subseteq Char
  BY CharFacts
<1>2. <<"~", "0">> \in Text /\ <<"~", "1">> \in Text
  BY <1>1 DEF Text
<1>3. /\ Tildes(<<>>) = <<>>
      /\ \A c \in Char : Tildes(<<c>>) = TildeChar(c)
      /\ \A s, t \in Text : /\ Tildes(s) \in Text
                            /\ Tildes(s \o t) = Tildes(s) \o Tildes(t)
  BY <1>2, ReplaceCharIs, Zenon DEF Tildes, TildeChar
<1>4. /\ slashes(<<>>) = <<>>
      /\ \A c \in Char :
           slashes(<<c>>) = IF c = "/" THEN <<"~", "1">> ELSE <<c>>
      /\ \A s, t \in Text : /\ slashes(s) \in Text
                            /\ slashes(s \o t) = slashes(s) \o slashes(t)
  BY <1>2, ReplaceCharIs, Zenon
<1>5. \A s : Escape(s) = slashes(Tildes(s))
  BY DEF Escape, Tildes
<1> HIDE DEF slashes
<1>6. ASSUME NEW c \in Char PROVE slashes(TildeChar(c)) = EscapedChar(c)
  <2>1. CASE c = "~"
    <3>1. <<"~", "0">> = <<"~">> \o <<"0">>
      OBVIOUS
    <3>2. slashes(<<"~">>) = <<"~">> /\ slashes(<<"0">>) = <<"0">>
      BY <1>1, <1>4
    <3>3. <<"~">> \in Text /\ <<"0">> \in Text
      BY <1>1, CharFacts
    <3>4. slashes(<<"~", "0">>) = <<"~", "0">>
      BY <1>4, <3>1, <3>2, <3>3
    <3> QED BY <2>1, <3>4 DEF TildeChar, EscapedChar
  <2>2. CASE c # "~"
    BY <1>4, <2>2 DEF TildeChar, EscapedChar
  <2> QED BY <2>1, <2>2
<1>7. ASSUME NEW s \in Text, NEW c \in Char
      PROVE  /\ Escape(s) \in Text /\ Tildes(s) \in Text
             /\ Escape(s \o <<c>>) = Escape(s) \o EscapedChar(c)
             /\ Tildes(s \o <<c>>) = Tildes(s) \o TildeChar(c)
  <2>1. <<c>> \in Text /\ TildeChar(c) \in Text
    BY CharFacts, EscapedCharIs
  <2>2. Tildes(s \o <<c>>) = Tildes(s) \o TildeChar(c) /\ Tildes(s) \in Text
    BY <1>3, <2>1
  <2>3. Escape(s \o <<c>>) = slashes(Tildes(s)) \o slashes(TildeChar(c))
    BY <1>4, <1>5, <2>1, <2>2
  <2> QED BY <1>4, <1>5, <1>6, <2>2, <2>3
<1> QED BY <1>3, <1>4, <1>5, <1>7

(* Nothing that Escape returns holds a "/", which Split divides at, and    *)
(* Unescape takes it back to the key, whatever characters that has.        *)
THEOREM UnescapeEscape ==
  \A s \in Text : /\ Escape(s) \in Text /\ Plain(Escape(s))
                  /\ Unescape(Escape(s)) = s
<1> DEFINE slash(s) == ReplacePair(s, "~", "1", "/")
           tilde(s) == ReplacePair(s, "~", "0", "~")
<1>1. {"~", "/", "0", "1"} \subseteq Char
  BY CharFacts
<1>2. /\ slash(<<>>) = <<>> /\ slash(<<"~", "1">>) = <<"/">>
      /\ \A c \in Char : slash(<<c>>) = <<c>>
      /\ \A s, t \in Text :
           ~EndsIn(s, "~") \/ ~BeginsWith(t, "1") =>
             slash(s \o t) = slash(s) \o slash(t)
  <2>1. "~" \in Char /\ "1" \in Char /\ "/" \in Char /\ "~" # "1"
    BY <1>1
  <2>2. /\ ReplacePair(<<>>, "~", "1", "/") = <<>>
        /\ \A c \in Char : ReplacePair(<<c>>, "~", "1", "/") = <<c>>
        /\ ReplacePair(<<"~", "1">>, "~", "1", "/") = <<"/">>
        /\ \A s, t \in Text :
             /\ ReplacePair(s, "~", "1", "/") \in Text
             /\ ~(EndsIn(s, "~") /\ BeginsWith(t, "1")) =>
                  ReplacePair(s \o t, "~", "1", "/")
                    = ReplacePair(s, "~", "1", "/")
                        \o ReplacePair(t, "~", "1", "/")
    BY <2>1, ReplacePairIs, ZenonT(40)
  <2> QED BY <2>2, Zenon
<1>3. /\ tilde(<<>>) = <<>> /\ tilde(<<"~", "0">>) = <<"~">>
      /\ \A c \in Char : tilde(<<c>>) = <<c>>
      /\ \A s, t \in Text :
           ~EndsIn(s, "~") \/ ~BeginsWith(t, "0") =>
             tilde(s \o t) = tilde(s) \o tilde(t)
  <2>1. "~" \in Char /\ "0" \in Char /\ "~" # "0"
    BY <1>1
  <2>2. /\ ReplacePair(<<>>, "~", "0", "~") = <<>>
        /\ \A c \in Char : ReplacePair(<<c>>, "~", "0", "~") = <<c>>
        /\ ReplacePair(<<"~", "0">>, "~", "0", "~") = <<"~">>
        /\ \A s, t \in Text :
             /\ ReplacePair(s, "~", "0", "~") \in Text
             /\ ~(EndsIn(s, "~") /\ BeginsWith(t, "0")) =>
                  ReplacePair(s \o t, "~", "0", "~")
                    = ReplacePair(s, "~", "0", "~")
                        \o ReplacePair(t, "~", "0", "~")
    BY <2>1, ReplacePairIs, ZenonT(40)
  <2> QED BY <2>2, Zenon
<1>4. \A s : Unescape(s) = tilde(slash(s))
  BY DEF Unescape
<1> HIDE DEF slash, tilde
<1>5. ASSUME NEW c \in Char
      PROVE  /\ slash(EscapedChar(c)) = TildeChar(c)
             /\ tilde(TildeChar(c)) = <<c>>
  <2>1. slash(<<"~", "0">>) = <<"~", "0">>
    <3>1. <<"~", "0">> = <<"~">> \o <<"0">>
      OBVIOUS
    <3>2. <<"~">> \in Text /\ <<"0">> \in Text
      BY <1>1, CharFacts
    <3>3. ~BeginsWith(<<"0">>, "1")
      BY DEF BeginsWith
    <3> QED BY <1>1, <1>2, <3>1, <3>2, <3>3
  <2> QED BY <1>2, <1>3, <2>1 DEF EscapedChar, TildeChar
<1> DEFINE good ==
      {s \in Text : /\ Plain(Escape(s)) /\ ~EndsIn(Escape(s), "~")
                    /\ ~EndsIn(Tildes(s), "~")
                    /\ slash(Escape(s)) = Tildes(s) /\ tilde(Tildes(s)) = s}
<1>6. <<>> \in good
  <2>1. Plain(<<>>) /\ ~EndsIn(<<>>, "~")
    BY DEF Plain, EndsIn
  <2> QED BY <1>2, <1>3, <2>1, EscapeIs, CharFacts
<1>7. ASSUME NEW s \in Text, NEW c \in Char, s \in good
      PROVE  s \o <<c>> \in good
  <2> DEFINE sc == s \o <<c>>
  <2>1. sc \in Text
    BY CharFacts, TextFacts
  <2>2. /\ Escape(s) \in Text /\ Tildes(s) \in Text
        /\ Escape(sc) = Escape(s) \o EscapedChar(c)
        /\ Tildes(sc) = Tildes(s) \o TildeChar(c)
    BY EscapeIs
  <2>3. /\ Plain(Escape(sc)) /\ ~EndsIn(Escape(sc), "~")
        /\ ~EndsIn(Tildes(sc), "~")
    <3>1. EndsIn(Escape(sc), "~") <=> EndsIn(EscapedChar(c), "~")
      <4>1. EscapedChar(c) \in Text /\ EscapedChar(c) # <<>>
        BY EscapedCharIs
      <4>2. EndsIn(Escape(s) \o EscapedChar(c), "~")
              <=> EndsIn(EscapedChar(c), "~")
        BY <2>2, <4>1, PlainConcat
      <4> QED BY <2>2, <4>2
    <3>2. EndsIn(Tildes(sc), "~") <=> EndsIn(TildeChar(c), "~")
      <4>1. TildeChar(c) \in Text /\ TildeChar(c) # <<>>
        BY EscapedCharIs
      <4>2. EndsIn(Tildes(s) \o TildeChar(c), "~")
              <=> EndsIn(TildeChar(c), "~")
        BY <2>2, <4>1, PlainConcat
      <4> QED BY <2>2, <4>2
    <3>3. Plain(Escape(sc))
      BY <1>7, <2>2, EscapedCharIs, PlainConcat
    <3> QED BY <3>1, <3>2, <3>3, EscapedCharIs
  <2>4. slash(Escape(sc)) = Tildes(sc)
    <3>1. slash(Escape(sc)) = slash(Escape(s)) \o slash(EscapedChar(c))
      BY <1>2, <1>7, <2>2, EscapedCharIs
    <3> QED BY <1>5, <1>7, <2>2, <3>1
  <2>5. tilde(Tildes(sc)) = sc
    <3>1. tilde(Tildes(sc)) = tilde(Tildes(s)) \o tilde(TildeChar(c))
      BY <1>3, <1>7, <2>2, EscapedCharIs
    <3> QED BY <1>5, <1>7, <3>1
  <2> QED BY <2>1, <2>3, <2>4, <2>5
<1>8. \A s \in Text : s \in good
  <2> HIDE DEF good
  <2> QED BY <1>6, <1>7, TextInduction
<1> QED BY <1>4, <1>8, EscapeIs, CharFacts

-----------------------------------------------------------------------------
(* Splitting *)

(* What Split's function is up to n.                                       *)
Splits(f, s, n) ==
  f[0] = <<<<>>>> /\ \A i \in 1 .. n : f[i] = Put(f[i - 1], s[i])

LEMMA SplitIs ==
  ASSUME NEW s \in Text
  PROVE  \E f : Splits(f, s, Len(s)) /\ Split(s) = f[Len(s)]
<1> DEFINE Upto(f, n) ==
             f = [i \in 0 .. n |->
                    IF i = 0 THEN <<<<>>>> ELSE Put(f[i - 1], s[i])]
           defined == {n \in Nat : \E f : Upto(f, n)}
<1>1. 0 \in defined
  <2> DEFINE g == [i \in 0 .. 0 |-> <<<<>>>>]
  <2>1. g = [i \in 0 .. 0 |-> <<<<>>>>]
    OBVIOUS
  <2> HIDE DEF g
  <2>2. [i \in 0 .. 0 |-> <<<<>>>>]
          = [i \in 0 .. 0 |-> IF i = 0 THEN <<<<>>>> ELSE Put(g[i - 1], s[i])]
    OBVIOUS
  <2>3. Upto(g, 0)
    BY <2>1, <2>2
  <2> HIDE DEF Upto
  <2> QED BY <2>3
<1>2. ASSUME NEW n \in Nat, n \in defined PROVE n + 1 \in defined
  <2>1. PICK f : Upto(f, n)
    BY <1>2
  <2> DEFINE g == [i \in 0 .. n + 1 |->
                     IF i = 0 THEN <<<<>>>> ELSE Put(f[i - 1], s[i])]
  <2>2. ASSUME NEW i \in 0 .. n + 1, i # 0 PROVE g[i - 1] = f[i - 1]
    <3>1. i - 1 \in 0 .. n /\ i - 1 \in 0 .. n + 1
      BY <2>2
    <3>2. f[i - 1] = IF i - 1 = 0 THEN <<<<>>>>
                     ELSE Put(f[(i - 1) - 1], s[i - 1])
      BY <2>1, <3>1
    <3> QED BY <3>1, <3>2
  <2>3. Upto(g, n + 1)
    <3>1. g = [i \in 0 .. n + 1 |->
                 IF i = 0 THEN <<<<>>>> ELSE Put(f[i - 1], s[i])]
      OBVIOUS
    <3> HIDE DEF g
    <3>2. [i \in 0 .. n + 1 |->
             IF i = 0 THEN <<<<>>>> ELSE Put(f[i - 1], s[i])]
            = [i \in 0 .. n + 1 |->
                 IF i = 0 THEN <<<<>>>> ELSE Put(g[i - 1], s[i])]
      BY <2>2
    <3> QED BY <3>1, <3>2
  <2> HIDE DEF g, Upto
  <2> QED BY <2>3
<1>3. Len(s) \in Nat
  BY DEF Text
<1>4. Len(s) \in defined
  <2> HIDE DEF defined
  <2> QED BY <1>1, <1>2, <1>3, Induction
<1> DEFINE tokens == CHOOSE f : Upto(f, Len(s))
<1>5. Upto(tokens, Len(s))
  BY <1>4
<1>6. Split(s) = tokens[Len(s)]
  BY DEF Split
<1> HIDE DEF tokens
<1>7. Splits(tokens, s, Len(s))
  BY <1>3, <1>5 DEF Splits
<1> QED BY <1>6, <1>7

LEMMA SplitNext ==
  /\ Split(<<>>) = <<<<>>>>
  /\ \A s \in Text, c \in Char : Split(s \o <<c>>) = Put(Split(s), c)
<1>1. Split(<<>>) = <<<<>>>>
  <2>1. PICK f : Splits(f, <<>>, Len(<<>>)) /\ Split(<<>>) = f[Len(<<>>)]
    BY SplitIs, CharFacts
  <2> QED BY <2>1, CharFacts DEF Splits
<1>2. ASSUME NEW s \in Text, NEW c \in Char
      PROVE  Split(s \o <<c>>) = Put(Split(s), c)
  <2> DEFINE t == s \o <<c>>
             k == Len(s)
  <2>1. /\ t \in Text /\ Len(t) = k + 1 /\ k \in Nat
        /\ \A i \in 1 .. k : t[i] = s[i]
        /\ t[k + 1] = c
    <3>1. <<c>> \in Text /\ Len(<<c>>) = 1 /\ <<c>>[1] = c /\ 1 \in 1 .. 1
      BY CharFacts
    <3> QED BY <3>1, TextFacts
  <2> HIDE DEF t, k
  <2>2. PICK f : Splits(f, s, k) /\ Split(s) = f[k]
    BY SplitIs DEF k
  <2>3. PICK g : Splits(g, t, k + 1) /\ Split(t) = g[k + 1]
    BY <2>1, SplitIs
  <2> DEFINE same == {i \in Nat : i <= k => g[i] = f[i]}
  <2>4. 0 \in same
    BY <2>2, <2>3 DEF Splits
  <2>5. ASSUME NEW i \in Nat, i \in same PROVE i + 1 \in same
    <3> SUFFICES ASSUME i + 1 <= k PROVE g[i + 1] = f[i + 1]
      OBVIOUS
    <3>1. /\ i + 1 \in 1 .. k /\ i + 1 \in 1 .. k + 1 /\ (i + 1) - 1 = i
          /\ i <= k
      BY <2>1
    <3>2. f[i + 1] = Put(f[i], s[i + 1])
      BY <2>2, <3>1 DEF Splits
    <3>3. g[i + 1] = Put(g[i], t[i + 1])
      BY <2>3, <3>1 DEF Splits
    <3>4. g[i] = f[i] /\ t[i + 1] = s[i + 1]
      BY <2>1, <2>5, <3>1
    <3> QED BY <3>2, <3>3, <3>4
  <2>6. \A i \in Nat : i \in same
    <3> HIDE DEF same
    <3> QED BY <2>4, <2>5, Induction
  <2>7. g[k] = f[k]
    BY <2>1, <2>6
  <2>8. g[k + 1] = Put(g[k], t[k + 1])
    <3>1. k + 1 \in 1 .. k + 1 /\ (k + 1) - 1 = k
      BY <2>1
    <3> QED BY <2>3, <3>1 DEF Splits
  <2>9. Split(t) = Put(Split(s), c)
    BY <2>1, <2>2, <2>3, <2>7, <2>8
  <2> QED BY <2>9 DEF t
<1> QED BY <1>1, <1>2

LEMMA PutIs ==
  ASSUME NEW ts \in Seq(Text), NEW t \in Text, NEW c \in Char
  PROVE  /\ Put(ts, "/") = Append(ts, <<>>)
         /\ c # "/" => Put(Append(ts, t), c) = Append(ts, t \o <<c>>)
<1>1. Put(ts, "/") = Append(ts, <<>>)
  BY DEF Put
<1>2. ASSUME c # "/" PROVE Put(Append(ts, t), c) = Append(ts, t \o <<c>>)
  <2> DEFINE a == Append(ts, t)
             tc == Append(t, c)
             b == Append(ts, tc)
             n == Len(ts) + 1
  <2>1. tc \in Text /\ tc = t \o <<c>>
    BY AppendIsConcat, AppendProperties DEF Text
  <2>2. /\ a \in Seq(Text) /\ Len(a) = n /\ a[n] = t /\ n \in Nat
        /\ \A i \in 1 .. Len(ts) : a[i] = ts[i]
    OBVIOUS
  <2>3. /\ b \in Seq(Text) /\ Len(b) = n /\ b[n] = tc
        /\ \A i \in 1 .. Len(ts) : b[i] = ts[i]
    BY <2>1
  <2>4. Put(a, c) = [a EXCEPT ![n] = tc]
    BY <1>2, <2>2 DEF Put
  <2> DEFINE e == [a EXCEPT ![n] = tc]
  <2> HIDE DEF a, b, tc
  <2>5. e \in Seq(Text) /\ Len(e) = n
    BY <2>1, <2>2, ExceptSeq
  <2>6. \A i \in 1 .. n : e[i] = b[i]
    <3>1. \A i \in 1 .. n : i = n \/ i \in 1 .. Len(ts)
      OBVIOUS
    <3>2. DOMAIN a = 1 .. n
      BY <2>2
    <3> QED BY <2>2, <2>3, <3>1, <3>2
  <2> HIDE DEF e
  <2>7. e = b
    BY <2>3, <2>5, <2>6, SeqEqual
  <2> QED BY <2>1, <2>4, <2>7 DEF a, b, e
<1> QED BY <1>1, <1>2

(* Split takes apart what was joined with "/".                             *)
LEMMA SplitJoined ==
  /\ \A s \in Text : Split(s) \in Seq(Text)
  /\ \A t \in Text : Plain(t) => Split(t) = <<t>>
  /\ \A s, t \in Text :
       Plain(t) => Split((s \o <<"/">>) \o t) = Append(Split(s), t)
<1>1. "/" \in Char
  BY CharFacts
<1> DEFINE split == {s \in Text : \E ts \in Seq(Text), t \in Text :
                                    Split(s) = Append(ts, t)}
<1>2. <<>> \in split
  <2>1. <<>> \in Seq(Text) /\ <<>> \in Text /\ Append(<<>>, <<>>) = <<<<>>>>
    BY CharFacts
  <2> QED BY <2>1, SplitNext
<1>3. ASSUME NEW s \in Text, NEW c \in Char, s \in split
      PROVE  s \o <<c>> \in split
  <2>1. PICK ts \in Seq(Text), t \in Text : Split(s) = Append(ts, t)
    BY <1>3
  <2>2. s \o <<c>> \in Text /\ t \o <<c>> \in Text /\ <<>> \in Text
    BY CharFacts, TextFacts
  <2>3. Append(ts, t) \in Seq(Text)
    OBVIOUS
  <2>4. Split(s \o <<c>>) = Put(Append(ts, t), c)
    BY <2>1, SplitNext
  <2>5. CASE c = "/"
    <3>1. Split(s \o <<c>>) = Append(Append(ts, t), <<>>)
      BY <1>1, <2>2, <2>3, <2>4, <2>5, PutIs
    <3> QED BY <2>2, <2>3, <3>1, Zenon
  <2>6. CASE c # "/"
    <3>1. Split(s \o <<c>>) = Append(ts, t \o <<c>>)
      BY <2>4, <2>6, PutIs
    <3> QED BY <2>2, <3>1, Zenon
  <2> QED BY <2>5, <2>6
<1>4. \A s \in Text : s \in split
  <2> HIDE DEF split
  <2> QED BY <1>2, <1>3, TextInduction
<1>5. ASSUME NEW s \in Text PROVE Split(s) \in Seq(Text)
  <2>1. PICK ts \in Seq(Text), t \in Text : Split(s) = Append(ts, t)
    BY <1>4
  <2> QED BY <2>1
<1>6. ASSUME NEW t \in Text, NEW c \in Char, Plain(t \o <<c>>)
      PROVE  Plain(t) /\ c # "/"
  <2>1. /\ <<c>> \in Text /\ Len(<<c>>) = 1 /\ <<c>>[1] = c
        /\ 1 \in 1 .. Len(<<c>>)
    BY CharFacts
  <2>2. /\ Len(t \o <<c>>) = Len(t) + 1 /\ Len(t) \in Nat
        /\ \A i \in 1 .. Len(t) : (t \o <<c>>)[i] = t[i]
        /\ (t \o <<c>>)[Len(t) + 1] = c
    BY <2>1, TextFacts
  <2>3. Len(t) + 1 \in 1 .. Len(t) + 1
        /\ \A i \in 1 .. Len(t) : i \in 1 .. Len(t) + 1
    BY <2>2
  <2> QED BY <1>6, <2>2, <2>3 DEF Plain
<1> DEFINE alone == {t \in Text : Plain(t) => Split(t) = <<t>>}
<1>7. <<>> \in alone
  BY SplitNext, CharFacts
<1>8. ASSUME NEW t \in Text, NEW c \in Char, t \in alone
      PROVE  t \o <<c>> \in alone
  <2>1. t \o <<c>> \in Text /\ <<>> \in Seq(Text)
    BY CharFacts, TextFacts
  <2>2. ASSUME Plain(t \o <<c>>) PROVE Split(t \o <<c>>) = <<t \o <<c>>>>
    <3>1. Split(t) = <<t>> /\ c # "/"
      BY <1>6, <1>8, <2>2
    <3>2. Split(t \o <<c>>) = Put(Append(<<>>, t), c)
      BY <3>1, SplitNext
    <3>3. Put(Append(<<>>, t), c) = Append(<<>>, t \o <<c>>)
      BY <2>1, <3>1, PutIs
    <3>4. \A u \in Text : Append(<<>>, u) = <<u>>
      OBVIOUS
    <3>5. Append(<<>>, t \o <<c>>) = <<t \o <<c>>>>
      BY <2>1, <3>4, Zenon
    <3> QED BY <3>2, <3>3, <3>5, Zenon
  <2> QED BY <2>1, <2>2
<1>9. \A t \in Text : t \in alone
  <2> HIDE DEF alone
  <2> QED BY <1>7, <1>8, TextInduction
<1>10. ASSUME NEW s \in Text
       PROVE  \A t \in Text :
                Plain(t) => Split((s \o <<"/">>) \o t) = Append(Split(s), t)
  <2> DEFINE p == s \o <<"/">>
             last == {t \in Text :
                        Plain(t) => Split(p \o t) = Append(Split(s), t)}
  <2>1. p \in Text /\ p \o <<>> = p
    BY <1>1, CharFacts, TextFacts
  <2>2. Split(p) = Append(Split(s), <<>>)
    BY <1>1, <1>5, CharFacts, SplitNext, PutIs
  <2> HIDE DEF p
  <2>3. <<>> \in last
    BY <2>1, <2>2, CharFacts
  <2>4. ASSUME NEW t \in Text, NEW c \in Char, t \in last
        PROVE  t \o <<c>> \in last
    <3>1. <<c>> \in Text /\ t \o <<c>> \in Text /\ p \o t \in Text
      BY <2>1, CharFacts, TextFacts
    <3>2. ASSUME Plain(t \o <<c>>)
          PROVE  Split(p \o (t \o <<c>>)) = Append(Split(s), t \o <<c>>)
      <4>1. Split(p \o t) = Append(Split(s), t) /\ c # "/"
        BY <1>6, <2>4, <3>2
      <4>2. p \o (t \o <<c>>) = (p \o t) \o <<c>>
        BY <2>1, <3>1, TextAssociative
      <4>3. Split((p \o t) \o <<c>>) = Put(Append(Split(s), t), c)
        BY <3>1, <4>1, SplitNext
      <4>4. Put(Append(Split(s), t), c) = Append(Split(s), t \o <<c>>)
        BY <1>5, <4>1, PutIs
      <4> QED BY <4>2, <4>3, <4>4
    <3> QED BY <3>1, <3>2
  <2>5. \A t \in Text : t \in last
    <3> HIDE DEF last
    <3> QED BY <2>3, <2>4, TextInduction
  <2> QED BY <2>5 DEF p
<1> QED BY <1>5, <1>9, <1>10

-----------------------------------------------------------------------------
(* Following *)

(* What Follow's function is up to n.                                      *)
Follows(f, doc, keys, n) ==
  f[0] = doc /\ \A i \in 1 .. n : f[i] = Child(f[i - 1], keys[i])

LEMMA FollowIs ==
  ASSUME NEW doc, NEW keys \in Seq(Text)
  PROVE  \E f : /\ Follows(f, doc, keys, Len(keys))
                /\ Follow(doc, keys) = f[Len(keys)]
<1> DEFINE Upto(f, n) ==
             f = [i \in 0 .. n |->
                    IF i = 0 THEN doc ELSE Child(f[i - 1], keys[i])]
           defined == {n \in Nat : \E f : Upto(f, n)}
<1>1. 0 \in defined
  <2> DEFINE g == [i \in 0 .. 0 |-> doc]
  <2>1. g = [i \in 0 .. 0 |-> doc]
    OBVIOUS
  <2> HIDE DEF g
  <2>2. [i \in 0 .. 0 |-> doc]
          = [i \in 0 .. 0 |-> IF i = 0 THEN doc ELSE Child(g[i - 1], keys[i])]
    OBVIOUS
  <2>3. Upto(g, 0)
    BY <2>1, <2>2
  <2> HIDE DEF Upto
  <2> QED BY <2>3
<1>2. ASSUME NEW n \in Nat, n \in defined PROVE n + 1 \in defined
  <2>1. PICK f : Upto(f, n)
    BY <1>2
  <2> DEFINE g == [i \in 0 .. n + 1 |->
                     IF i = 0 THEN doc ELSE Child(f[i - 1], keys[i])]
  <2>2. ASSUME NEW i \in 0 .. n + 1, i # 0 PROVE g[i - 1] = f[i - 1]
    <3>1. i - 1 \in 0 .. n /\ i - 1 \in 0 .. n + 1
      BY <2>2
    <3>2. f[i - 1] = IF i - 1 = 0 THEN doc
                     ELSE Child(f[(i - 1) - 1], keys[i - 1])
      BY <2>1, <3>1
    <3> QED BY <3>1, <3>2
  <2>3. Upto(g, n + 1)
    <3>1. g = [i \in 0 .. n + 1 |->
                 IF i = 0 THEN doc ELSE Child(f[i - 1], keys[i])]
      OBVIOUS
    <3> HIDE DEF g
    <3>2. [i \in 0 .. n + 1 |->
             IF i = 0 THEN doc ELSE Child(f[i - 1], keys[i])]
            = [i \in 0 .. n + 1 |->
                 IF i = 0 THEN doc ELSE Child(g[i - 1], keys[i])]
      BY <2>2
    <3> QED BY <3>1, <3>2
  <2> HIDE DEF g, Upto
  <2> QED BY <2>3
<1>3. Len(keys) \in Nat
  OBVIOUS
<1>4. Len(keys) \in defined
  <2> HIDE DEF defined
  <2> QED BY <1>1, <1>2, <1>3, Induction
<1> DEFINE cur == CHOOSE f : Upto(f, Len(keys))
<1>5. Upto(cur, Len(keys))
  BY <1>4
<1>6. Follow(doc, keys) = cur[Len(keys)]
  BY DEF Follow
<1> HIDE DEF cur
<1>7. Follows(cur, doc, keys, Len(keys))
  BY <1>3, <1>5 DEF Follows
<1> QED BY <1>6, <1>7

LEMMA FollowNext ==
  ASSUME NEW doc
  PROVE  /\ Follow(doc, <<>>) = doc
         /\ \A keys \in Seq(Text), key \in Text :
              Follow(doc, Append(keys, key)) = Child(Follow(doc, keys), key)
<1>1. Follow(doc, <<>>) = doc
  <2>1. <<>> \in Seq(Text) /\ Len(<<>>) = 0
    OBVIOUS
  <2>2. PICK f : Follows(f, doc, <<>>, Len(<<>>))
                 /\ Follow(doc, <<>>) = f[Len(<<>>)]
    BY <2>1, FollowIs
  <2> QED BY <2>1, <2>2 DEF Follows
<1>2. ASSUME NEW keys \in Seq(Text), NEW key \in Text
      PROVE  Follow(doc, Append(keys, key)) = Child(Follow(doc, keys), key)
  <2> DEFINE t == Append(keys, key)
             k == Len(keys)
  <2>1. /\ t \in Seq(Text) /\ Len(t) = k + 1 /\ k \in Nat
        /\ \A i \in 1 .. k : t[i] = keys[i]
        /\ t[k + 1] = key
    OBVIOUS
  <2> HIDE DEF t, k
  <2>2. PICK f : Follows(f, doc, keys, k) /\ Follow(doc, keys) = f[k]
    BY FollowIs DEF k
  <2>3. PICK g : Follows(g, doc, t, k + 1) /\ Follow(doc, t) = g[k + 1]
    BY <2>1, FollowIs
  <2> DEFINE same == {i \in Nat : i <= k => g[i] = f[i]}
  <2>4. 0 \in same
    BY <2>2, <2>3 DEF Follows
  <2>5. ASSUME NEW i \in Nat, i \in same PROVE i + 1 \in same
    <3> SUFFICES ASSUME i + 1 <= k PROVE g[i + 1] = f[i + 1]
      OBVIOUS
    <3>1. /\ i + 1 \in 1 .. k /\ i + 1 \in 1 .. k + 1 /\ (i + 1) - 1 = i
          /\ i <= k
      BY <2>1
    <3>2. f[i + 1] = Child(f[i], keys[i + 1])
      BY <2>2, <3>1 DEF Follows
    <3>3. g[i + 1] = Child(g[i], t[i + 1])
      BY <2>3, <3>1 DEF Follows
    <3>4. g[i] = f[i] /\ t[i + 1] = keys[i + 1]
      BY <2>1, <2>5, <3>1
    <3> QED BY <3>2, <3>3, <3>4
  <2>6. \A i \in Nat : i \in same
    <3> HIDE DEF same
    <3> QED BY <2>4, <2>5, Induction
  <2>7. g[k] = f[k]
    BY <2>1, <2>6
  <2>8. g[k + 1] = Child(g[k], t[k + 1])
    <3>1. k + 1 \in 1 .. k + 1 /\ (k + 1) - 1 = k
      BY <2>1
    <3> QED BY <2>3, <3>1 DEF Follows
  <2>9. Follow(doc, t) = Child(Follow(doc, keys), key)
    BY <2>1, <2>2, <2>3, <2>7, <2>8
  <2> QED BY <2>9 DEF t
<1> QED BY <1>1, <1>2

-----------------------------------------------------------------------------
(* Pointers *)

(* A pointer as there is: empty, or led by a "/".                          *)
WellFormed(pointer) ==
  pointer \in Text /\ (pointer = <<>> \/ Head(pointer) = "/")

(* The keys a pointer names.                                               *)
KeysOf(pointer) ==
  IF pointer = <<>> THEN <<>>
  ELSE LET tokens == Split(Tail(pointer))
       IN  [i \in DOMAIN tokens |-> Unescape(tokens[i])]

LEMMA UnescapeType == \A s \in Text : Unescape(s) \in Text
<1>1. {"~", "/", "0", "1"} \subseteq Char /\ "~" # "1" /\ "~" # "0"
  BY CharFacts
<1>2. \A s \in Text : ReplacePair(s, "~", "1", "/") \in Text
  BY <1>1, ReplacePairIs
<1>3. \A s \in Text : ReplacePair(s, "~", "0", "~") \in Text
  BY <1>1, ReplacePairIs
<1> QED BY <1>2, <1>3 DEF Unescape

LEMMA GetIs ==
  ASSUME NEW doc, NEW pointer, WellFormed(pointer)
  PROVE  /\ KeysOf(pointer) \in Seq(Text)
         /\ GetJSONPointer(doc, pointer) = Follow(doc, KeysOf(pointer))
<1>1. CASE pointer = <<>>
  BY <1>1, FollowNext DEF GetJSONPointer, KeysOf
<1>2. CASE pointer # <<>>
  <2> DEFINE tokens == Split(Tail(pointer))
             keys == [i \in DOMAIN tokens |-> Unescape(tokens[i])]
  <2>1. Tail(pointer) \in Text
    BY <1>2 DEF WellFormed, Text
  <2>2. tokens \in Seq(Text)
    BY <2>1, SplitJoined
  <2>3. keys \in Seq(Text)
    <3> HIDE DEF tokens
    <3>1. DOMAIN tokens = 1 .. Len(tokens) /\ Len(tokens) \in Nat
          /\ \A i \in 1 .. Len(tokens) : tokens[i] \in Text
      BY <2>2
    <3>2. \A i \in 1 .. Len(tokens) : Unescape(tokens[i]) \in Text
      BY <3>1, UnescapeType
    <3> QED BY <3>1, <3>2
  <2>4. KeysOf(pointer) = keys
    BY <1>2 DEF KeysOf
  <2>5. GetJSONPointer(doc, pointer) = Follow(doc, keys)
    BY <1>2 DEF GetJSONPointer, WellFormed
  <2> QED BY <2>3, <2>4, <2>5
<1> QED BY <1>1, <1>2

(* One more token is one more key, the one that was escaped.               *)
LEMMA KeysOfJoined ==
  ASSUME NEW base, WellFormed(base), NEW key \in Text
  PROVE  /\ WellFormed(JoinPointer(base, key))
         /\ JoinPointer(base, key) # <<>>
         /\ KeysOf(JoinPointer(base, key)) = Append(KeysOf(base), key)
<1> DEFINE e == Escape(key)
           pointer == JoinPointer(base, key)
<1>1. e \in Text /\ Plain(e) /\ Unescape(e) = key
  BY UnescapeEscape
<1>2. base \in Text /\ <<"/">> \in Text /\ "/" \in Char
  BY CharFacts DEF WellFormed
<1>3. pointer = (base \o <<"/">>) \o e /\ pointer = base \o (<<"/">> \o e)
  BY <1>1, <1>2, TextAssociative DEF JoinPointer
<1> HIDE DEF e, pointer
<1>4. /\ pointer \in Text /\ pointer # <<>> /\ Head(pointer) = "/"
      /\ Split(Tail(pointer)) =
           IF base = <<>> THEN <<e>> ELSE Append(Split(Tail(base)), e)
  <2>1. CASE base = <<>>
    <3> DEFINE p == <<"/">> \o e
    <3>1. pointer = p
      <4>1. p \in Text
        BY <1>1, <1>2, TextFacts
      <4> QED BY <1>3, <2>1, <4>1, TextFacts
    <3>2. p \in Text /\ p # <<>> /\ Head(p) = "/" /\ Tail(p) = e
      BY <1>1, <1>2 DEF Text
    <3>3. Split(e) = <<e>>
      BY <1>1, SplitJoined
    <3> HIDE DEF p
    <3> QED BY <2>1, <3>1, <3>2, <3>3
  <2>2. CASE base # <<>>
    <3>1. Tail(base) \in Text /\ Head(base) = "/"
      BY <1>2, <2>2 DEF Text, WellFormed
    <3>2. /\ pointer \in Text /\ pointer # <<>> /\ Head(pointer) = Head(base)
          /\ Tail(pointer) = Tail(base) \o (<<"/">> \o e)
      <4> DEFINE q == <<"/">> \o e
      <4>1. q \in Text /\ pointer = base \o q
        BY <1>1, <1>2, <1>3, TextFacts
      <4> HIDE DEF q
      <4>2. /\ base \o q \in Text /\ base \o q # <<>>
            /\ Head(base \o q) = Head(base)
            /\ Tail(base \o q) = Tail(base) \o q
        <5>1. base \in Seq(Char) /\ base # <<>> /\ q \in Seq(Char)
          BY <1>2, <2>2, <4>1 DEF Text
        <5>2. base \o q \in Seq(Char) /\ base \o q # <<>>
          BY <5>1
        <5>3. Head(base \o q) = Head(base)
          BY <5>1
        <5>4. Tail(base \o q) = Tail(base) \o q
          BY <5>1
        <5> QED BY <5>2, <5>3, <5>4 DEF Text
      <4> QED BY <4>1, <4>2 DEF q
    <3>3. Tail(pointer) = (Tail(base) \o <<"/">>) \o e
      <4>1. Tail(base) \in Text /\ <<"/">> \in Text /\ e \in Text
        BY <1>1, <1>2, <3>1
      <4>2. (Tail(base) \o <<"/">>) \o e = Tail(base) \o (<<"/">> \o e)
        BY <4>1, TextAssociative, Zenon
      <4> QED BY <3>2, <4>2, Zenon
    <3>4. Split(Tail(pointer)) = Append(Split(Tail(base)), e)
      BY <1>1, <3>1, <3>3, SplitJoined
    <3> QED BY <2>2, <3>1, <3>2, <3>4
  <2> QED BY <2>1, <2>2
<1>5. KeysOf(pointer) = Append(KeysOf(base), key)
  <2>1. CASE base = <<>>
    <3>1. Split(Tail(pointer)) = <<e>>
      BY <1>4, <2>1
    <3>2. KeysOf(pointer) = <<Unescape(e)>>
      BY <1>4, <3>1 DEF KeysOf
    <3>3. KeysOf(base) = <<>>
      BY <2>1 DEF KeysOf
    <3> QED BY <1>1, <3>2, <3>3
  <2>2. CASE base # <<>>
    <3> DEFINE ts == Split(Tail(base))
               us == Append(ts, e)
               keys == [i \in DOMAIN ts |-> Unescape(ts[i])]
               more == [i \in DOMAIN us |-> Unescape(us[i])]
    <3>1. ts \in Seq(Text)
      <4>1. Tail(base) \in Text
        BY <1>2, <2>2 DEF Text
      <4> QED BY <4>1, SplitJoined
    <3>2. KeysOf(base) = keys
      BY <2>2 DEF KeysOf
    <3>3. KeysOf(pointer) = more
      BY <1>4, <2>2 DEF KeysOf
    <3> HIDE DEF ts
    <3>4. more = Append(keys, Unescape(e))
      BY <3>1
    <3> QED BY <1>1, <3>2, <3>3, <3>4
  <2> QED BY <2>1, <2>2
<1>6. WellFormed(pointer) /\ pointer # <<>>
  BY <1>4 DEF WellFormed
<1> QED BY <1>5, <1>6 DEF pointer

(* joinPointer and getJSONPointer agree: a pointer with one more token     *)
(* leads to the child of that name of what the pointer led to.             *)
THEOREM JoinedPointerFinds ==
  ASSUME NEW doc, NEW base, WellFormed(base), NEW key \in Text
  PROVE  GetJSONPointer(doc, JoinPointer(base, key))
           = Child(GetJSONPointer(doc, base), key)
<1> DEFINE joined == JoinPointer(base, key)
<1>1. WellFormed(joined) /\ KeysOf(joined) = Append(KeysOf(base), key)
  BY KeysOfJoined
<1> HIDE DEF joined
<1>2. KeysOf(base) \in Seq(Text)
      /\ GetJSONPointer(doc, base) = Follow(doc, KeysOf(base))
  BY GetIs
<1>3. GetJSONPointer(doc, joined) = Follow(doc, KeysOf(joined))
  BY <1>1, GetIs
<1>4. Follow(doc, Append(KeysOf(base), key))
        = Child(Follow(doc, KeysOf(base)), key)
  BY <1>2, FollowNext
<1>5. GetJSONPointer(doc, joined) = Child(GetJSONPointer(doc, base), key)
  BY <1>1, <1>2, <1>3, <1>4
<1> QED BY <1>5 DEF joined

LEMMA PointerToIs ==
  /\ PointerTo(<<>>) = <<>>
  /\ \A path \in Seq(Text), key \in Text :
       /\ PointerTo(path) \in Text
       /\ PointerTo(Append(path, key)) = JoinPointer(PointerTo(path), key)
<1> DEFINE Piece(key) == JoinPointer(<<>>, key)
           Pieces(path) == [i \in DOMAIN path |-> Piece(path[i])]
<1>1. \A path : PointerTo(path) = FlattenSeq(Pieces(path))
  BY DEF PointerTo
<1>2. ASSUME NEW key \in Text
      PROVE  /\ Escape(key) \in Text /\ Piece(key) \in Text
             /\ Piece(key) = <<"/">> \o Escape(key)
  <2>1. <<"/">> \in Text /\ <<>> \in Text /\ Escape(key) \in Text
    BY CharFacts, UnescapeEscape
  <2>2. <<>> \o <<"/">> = <<"/">>
    BY <2>1, TextFacts
  <2> QED BY <2>1, <2>2, TextFacts DEF JoinPointer
<1> HIDE DEF Piece
<1>3. ASSUME NEW path \in Seq(Text)
      PROVE  Pieces(path) \in Seq(Text) /\ Len(Pieces(path)) = Len(path)
  <2>1. /\ DOMAIN path = 1 .. Len(path) /\ Len(path) \in Nat
        /\ \A i \in 1 .. Len(path) : path[i] \in Text
    OBVIOUS
  <2>2. \A i \in 1 .. Len(path) : Piece(path[i]) \in Text
    BY <1>2, <2>1
  <2>3. Pieces(path) \in [1 .. Len(path) -> Text]
    BY <2>1, <2>2
  <2> HIDE DEF Pieces
  <2> QED BY <2>1, <2>3
<1>4. PointerTo(<<>>) = <<>>
  <2>1. Pieces(<<>>) = <<>>
    OBVIOUS
  <2> QED BY <1>1, <2>1, FlattenSmall
<1>5. ASSUME NEW path \in Seq(Text) PROVE PointerTo(path) \in Text
  <2> HIDE DEF Pieces
  <2> QED BY <1>1, <1>3, FlattenConcat
<1>6. ASSUME NEW path \in Seq(Text), NEW key \in Text
      PROVE  PointerTo(Append(path, key)) = JoinPointer(PointerTo(path), key)
  <2>1. Pieces(Append(path, key)) = Append(Pieces(path), Piece(key))
    OBVIOUS
  <2> HIDE DEF Pieces
  <2>2. Append(Pieces(path), Piece(key)) = Pieces(path) \o <<Piece(key)>>
    BY <1>2, <1>3, AppendIsConcat
  <2>3. <<Piece(key)>> \in Seq(Text) /\ FlattenSeq(<<Piece(key)>>) = Piece(key)
    BY <1>2, FlattenSmall
  <2>4. PointerTo(Append(path, key)) = PointerTo(path) \o Piece(key)
    <3> DEFINE ps == Pieces(path)
               one == <<Piece(key)>>
    <3>1. ps \in Seq(Text) /\ one \in Seq(Text)
      BY <1>3, <2>3
    <3>2. PointerTo(path) = FlattenSeq(ps) /\ FlattenSeq(one) = Piece(key)
      BY <1>1, <2>3
    <3>3. PointerTo(Append(path, key)) = FlattenSeq(ps \o one)
      <4>1. PointerTo(Append(path, key))
              = FlattenSeq(Pieces(Append(path, key)))
        BY <1>1
      <4> QED BY <2>1, <2>2, <4>1
    <3> HIDE DEF ps, one
    <3>4. FlattenSeq(ps \o one) = FlattenSeq(ps) \o FlattenSeq(one)
      BY <3>1, FlattenConcat
    <3> QED BY <3>2, <3>3, <3>4
  <2>5. PointerTo(path) \o (<<"/">> \o Escape(key))
          = (PointerTo(path) \o <<"/">>) \o Escape(key)
    <3>1. /\ PointerTo(path) \in Text /\ <<"/">> \in Text
          /\ Escape(key) \in Text
      BY <1>2, <1>5, CharFacts
    <3> QED BY <3>1, TextAssociative
  <2> QED BY <1>2, <2>4, <2>5 DEF JoinPointer
<1> QED BY <1>4, <1>5, <1>6

(* The pointer joined of a path of keys leads where the path leads: for a  *)
(* path of any length, keys of any characters and any value.               *)
THEOREM PathAddressable ==
  \A doc, path : path \in Seq(Text) =>
    GetJSONPointer(doc, PointerTo(path)) = Follow(doc, path)
<1> DEFINE good == {path \in Seq(Text) : /\ WellFormed(PointerTo(path))
                                         /\ KeysOf(PointerTo(path)) = path}
<1>1. <<>> \in good
  BY PointerToIs, CharFacts DEF WellFormed, KeysOf
<1>2. ASSUME NEW path \in Seq(Text), NEW key \in Text, path \in good
      PROVE  Append(path, key) \in good
  <2> DEFINE pointer == PointerTo(path)
  <2>1. WellFormed(pointer) /\ KeysOf(pointer) = path
    BY <1>2
  <2>2. PointerTo(Append(path, key)) = JoinPointer(pointer, key)
    BY PointerToIs
  <2> HIDE DEF pointer
  <2>3. /\ WellFormed(JoinPointer(pointer, key))
        /\ KeysOf(JoinPointer(pointer, key)) = Append(path, key)
    BY <2>1, KeysOfJoined
  <2>4. Append(path, key) \in Seq(Text)
    OBVIOUS
  <2> QED BY <2>2, <2>3, <2>4
<1>3. \A path \in Seq(Text) : path \in good
  <2> HIDE DEF good
  <2> QED BY <1>1, <1>2, SeqInduction
<1> QED BY <1>3, GetIs

-----------------------------------------------------------------------------
(* Numerals *)

LEMMA LastDigit ==
  ASSUME NEW n \in Nat
  PROVE  /\ n \div 10 \in Nat /\ n % 10 \in 0 .. 9
         /\ n = 10 * (n \div 10) + (n % 10)
         /\ n >= 10 => n \div 10 < n
         /\ n < 10 => n \div 10 = 0 /\ n % 10 = n
OBVIOUS

LEMMA DigitIs ==
  /\ \A d \in 0 .. 9 : /\ Digits[d + 1] \in ToSet(Digits)
                       /\ DigitValue(Digits[d + 1]) = d
  /\ ToSet(Digits) \subseteq Char
  /\ "+" \notin ToSet(Digits) /\ "-" \notin ToSet(Digits)
<1>1. ASSUME NEW d \in 0 .. 9 PROVE Digits[d + 1] \in ToSet(Digits)
  <2>1. DOMAIN Digits = 1 .. 10 /\ d + 1 \in 1 .. 10
    BY DEF Digits
  <2> QED BY <2>1 DEF ToSet
<1>2. ASSUME NEW d \in 0 .. 9 PROVE DigitValue(Digits[d + 1]) = d
  BY DEF DigitValue, Digits
<1>3. "+" \notin ToSet(Digits) /\ "-" \notin ToSet(Digits)
  <2>1. \A i \in DOMAIN Digits : Digits[i] # "+" /\ Digits[i] # "-"
    BY DEF Digits
  <2> QED BY <2>1 DEF ToSet
<1> QED BY <1>1, <1>2, <1>3, CharAssumption

(* What Itoa's function is up to n.                                        *)
Numerals(f, n) ==
  \A i \in 0 .. n : f[i] = IF i < 10 THEN <<Digits[i + 1]>>
                           ELSE Append(f[i \div 10], Digits[(i % 10) + 1])

LEMMA ItoaIs ==
  ASSUME NEW k \in Nat
  PROVE  \E f : Numerals(f, k) /\ Itoa(k) = f[k]
<1> DEFINE Upto(f, n) ==
             f = [i \in 0 .. n |->
                    IF i < 10 THEN <<Digits[i + 1]>>
                    ELSE Append(f[i \div 10], Digits[(i % 10) + 1])]
           defined == {n \in Nat : \E f : Upto(f, n)}
<1>1. 0 \in defined
  <2> DEFINE g == [i \in 0 .. 0 |-> <<Digits[i + 1]>>]
  <2>1. g = [i \in 0 .. 0 |-> <<Digits[i + 1]>>]
    OBVIOUS
  <2> HIDE DEF g
  <2>2. [i \in 0 .. 0 |-> <<Digits[i + 1]>>]
          = [i \in 0 .. 0 |->
               IF i < 10 THEN <<Digits[i + 1]>>
               ELSE Append(g[i \div 10], Digits[(i % 10) + 1])]
    OBVIOUS
  <2>3. Upto(g, 0)
    BY <2>1, <2>2
  <2> HIDE DEF Upto
  <2> QED BY <2>3
<1>2. ASSUME NEW n \in Nat, n \in defined PROVE n + 1 \in defined
  <2>1. PICK f : Upto(f, n)
    BY <1>2
  <2> DEFINE g == [i \in 0 .. n + 1 |->
                     IF i < 10 THEN <<Digits[i + 1]>>
                     ELSE Append(f[i \div 10], Digits[(i % 10) + 1])]
  <2>2. ASSUME NEW i \in 0 .. n + 1, ~(i < 10)
        PROVE  g[i \div 10] = f[i \div 10]
    <3>1. i \div 10 \in 0 .. n /\ i \div 10 \in 0 .. n + 1
      BY <2>2, LastDigit
    <3>2. ASSUME NEW j \in 0 .. n PROVE g[j] = f[j]
      <4>1. j \in 0 .. n + 1
        OBVIOUS
      <4>2. f[j] = IF j < 10 THEN <<Digits[j + 1]>>
                   ELSE Append(f[j \div 10], Digits[(j % 10) + 1])
        BY <2>1
      <4> QED BY <4>1, <4>2
    <3> HIDE DEF g
    <3> QED BY <3>1, <3>2
  <2>3. Upto(g, n + 1)
    <3>1. g = [i \in 0 .. n + 1 |->
                 IF i < 10 THEN <<Digits[i + 1]>>
                 ELSE Append(f[i \div 10], Digits[(i % 10) + 1])]
      OBVIOUS
    <3> HIDE DEF g
    <3>2. [i \in 0 .. n + 1 |->
             IF i < 10 THEN <<Digits[i + 1]>>
             ELSE Append(f[i \div 10], Digits[(i % 10) + 1])]
            = [i \in 0 .. n + 1 |->
                 IF i < 10 THEN <<Digits[i + 1]>>
                 ELSE Append(g[i \div 10], Digits[(i % 10) + 1])]
      BY <2>2
    <3> QED BY <3>1, <3>2
  <2> HIDE DEF g, Upto
  <2> QED BY <2>3
<1>3. k \in defined
  <2> HIDE DEF defined
  <2> QED BY <1>1, <1>2, Induction
<1> DEFINE numeral == CHOOSE f : Upto(f, k)
<1>4. Upto(numeral, k)
  BY <1>3
<1>5. Itoa(k) = numeral[k]
  BY DEF Itoa
<1> HIDE DEF numeral
<1>6. Numerals(numeral, k)
  BY <1>4 DEF Numerals
<1> QED BY <1>5, <1>6

LEMMA ItoaNext ==
  ASSUME NEW n \in Nat
  PROVE  Itoa(n) = IF n < 10 THEN <<Digits[n + 1]>>
                   ELSE Append(Itoa(n \div 10), Digits[(n % 10) + 1])
<1>1. PICK f : Numerals(f, n) /\ Itoa(n) = f[n]
  BY ItoaIs
<1>2. f[n] = IF n < 10 THEN <<Digits[n + 1]>>
             ELSE Append(f[n \div 10], Digits[(n % 10) + 1])
  <2>1. n \in 0 .. n
    OBVIOUS
  <2> QED BY <1>1, <2>1 DEF Numerals
<1>3. CASE n < 10
  BY <1>1, <1>2, <1>3
<1>4. CASE ~(n < 10)
  <2> DEFINE k == n \div 10
  <2>1. k \in Nat /\ k < n
    BY <1>4, LastDigit
  <2> HIDE DEF k
  <2>2. PICK g : Numerals(g, k) /\ Itoa(k) = g[k]
    BY <2>1, ItoaIs
  <2> DEFINE same == {i \in Nat : \A j \in 0 .. i : j <= k => g[j] = f[j]}
  <2>3. 0 \in same
    <3>1. 0 \in 0 .. k /\ 0 \in 0 .. n /\ 0 < 10
      BY <2>1
    <3>2. f[0] = <<Digits[0 + 1]>>
      BY <1>1, <3>1, Zenon DEF Numerals
    <3>3. g[0] = <<Digits[0 + 1]>>
      BY <2>2, <3>1, Zenon DEF Numerals
    <3>4. \A j \in 0 .. 0 : j = 0
      OBVIOUS
    <3> QED BY <3>2, <3>3, <3>4
  <2>4. ASSUME NEW i \in Nat, i \in same PROVE i + 1 \in same
    <3>1. ASSUME i + 1 <= k PROVE g[i + 1] = f[i + 1]
      <4> DEFINE h == (i + 1) \div 10
      <4>1. i + 1 \in 0 .. k /\ i + 1 \in 0 .. n
        BY <2>1, <3>1
      <4>2. h \in 0 .. i
        <5>1. i + 1 \in Nat
          OBVIOUS
        <5> QED BY <5>1, LastDigit
      <4>3. h <= k
        BY <2>1, <3>1, <4>2
      <4>4. g[h] = f[h]
        <5> HIDE DEF h
        <5> QED BY <2>4, <4>2, <4>3
      <4>5. g[i + 1] = IF i + 1 < 10 THEN <<Digits[(i + 1) + 1]>>
                       ELSE Append(g[h], Digits[((i + 1) % 10) + 1])
        BY <2>2, <4>1 DEF Numerals
      <4>6. f[i + 1] = IF i + 1 < 10 THEN <<Digits[(i + 1) + 1]>>
                       ELSE Append(f[h], Digits[((i + 1) % 10) + 1])
        BY <1>1, <4>1 DEF Numerals
      <4> HIDE DEF h
      <4> QED BY <4>4, <4>5, <4>6
    <3>2. ASSUME NEW j \in 0 .. i + 1, j <= k PROVE g[j] = f[j]
      <4>1. j \in 0 .. i \/ j = i + 1
        OBVIOUS
      <4> QED BY <2>4, <3>1, <3>2, <4>1
    <3>3. i + 1 \in Nat
      OBVIOUS
    <3> QED BY <3>2, <3>3, Zenon
  <2>5. k \in same
    <3> HIDE DEF same
    <3> QED BY <2>1, <2>3, <2>4, Induction
  <2>6. g[k] = f[k]
    BY <2>1, <2>5
  <2> QED BY <1>1, <1>2, <1>4, <2>2, <2>6 DEF k
<1> QED BY <1>3, <1>4

(* What Decimal's function is up to n.                                     *)
Values(f, ds, n) ==
  f[0] = 0 /\ \A i \in 1 .. n : f[i] = 10 * f[i - 1] + DigitValue(ds[i])

LEMMA DecimalIs ==
  ASSUME NEW ds \in Text
  PROVE  \E f : Values(f, ds, Len(ds)) /\ Decimal(ds) = f[Len(ds)]
<1> DEFINE Upto(f, n) ==
             f = [i \in 0 .. n |->
                    IF i = 0 THEN 0 ELSE 10 * f[i - 1] + DigitValue(ds[i])]
           defined == {n \in Nat : \E f : Upto(f, n)}
<1>1. 0 \in defined
  <2> DEFINE g == [i \in 0 .. 0 |-> 0]
  <2>1. g = [i \in 0 .. 0 |-> 0]
    OBVIOUS
  <2> HIDE DEF g
  <2>2. [i \in 0 .. 0 |-> 0]
          = [i \in 0 .. 0 |->
               IF i = 0 THEN 0 ELSE 10 * g[i - 1] + DigitValue(ds[i])]
    OBVIOUS
  <2>3. Upto(g, 0)
    BY <2>1, <2>2
  <2> HIDE DEF Upto
  <2> QED BY <2>3
<1>2. ASSUME NEW n \in Nat, n \in defined PROVE n + 1 \in defined
  <2>1. PICK f : Upto(f, n)
    BY <1>2
  <2> DEFINE g == [i \in 0 .. n + 1 |->
                     IF i = 0 THEN 0 ELSE 10 * f[i - 1] + DigitValue(ds[i])]
  <2>2. ASSUME NEW i \in 0 .. n + 1, i # 0 PROVE g[i - 1] = f[i - 1]
    <3>1. i - 1 \in 0 .. n /\ i - 1 \in 0 .. n + 1
      BY <2>2
    <3>2. f[i - 1] = IF i - 1 = 0 THEN 0
                     ELSE 10 * f[(i - 1) - 1] + DigitValue(ds[i - 1])
      BY <2>1, <3>1
    <3> QED BY <3>1, <3>2
  <2>3. Upto(g, n + 1)
    <3>1. g = [i \in 0 .. n + 1 |->
                 IF i = 0 THEN 0 ELSE 10 * f[i - 1] + DigitValue(ds[i])]
      OBVIOUS
    <3> HIDE DEF g
    <3>2. [i \in 0 .. n + 1 |->
             IF i = 0 THEN 0 ELSE 10 * f[i - 1] + DigitValue(ds[i])]
            = [i \in 0 .. n + 1 |->
                 IF i = 0 THEN 0 ELSE 10 * g[i - 1] + DigitValue(ds[i])]
      BY <2>2
    <3> QED BY <3>1, <3>2
  <2> HIDE DEF g, Upto
  <2> QED BY <2>3
<1>3. Len(ds) \in Nat
  BY DEF Text
<1>4. Len(ds) \in defined
  <2> HIDE DEF defined
  <2> QED BY <1>1, <1>2, <1>3, Induction
<1> DEFINE value == CHOOSE f : Upto(f, Len(ds))
<1>5. Upto(value, Len(ds))
  BY <1>4
<1>6. Decimal(ds) = value[Len(ds)]
  BY DEF Decimal
<1> HIDE DEF value
<1>7. Values(value, ds, Len(ds))
  BY <1>3, <1>5 DEF Values
<1> QED BY <1>6, <1>7

LEMMA DecimalNext ==
  /\ Decimal(<<>>) = 0
  /\ \A s \in Text, c \in Char :
       Decimal(Append(s, c)) = 10 * Decimal(s) + DigitValue(c)
<1>1. Decimal(<<>>) = 0
  <2>1. PICK f : Values(f, <<>>, Len(<<>>)) /\ Decimal(<<>>) = f[Len(<<>>)]
    BY DecimalIs, CharFacts
  <2> QED BY <2>1, CharFacts DEF Values
<1>2. ASSUME NEW s \in Text, NEW c \in Char
      PROVE  Decimal(Append(s, c)) = 10 * Decimal(s) + DigitValue(c)
  <2> DEFINE t == Append(s, c)
             k == Len(s)
  <2>1. /\ t \in Text /\ Len(t) = k + 1 /\ k \in Nat
        /\ \A i \in 1 .. k : t[i] = s[i]
        /\ t[k + 1] = c
    BY DEF Text
  <2> HIDE DEF t, k
  <2>2. PICK f : Values(f, s, k) /\ Decimal(s) = f[k]
    BY DecimalIs DEF k
  <2>3. PICK g : Values(g, t, k + 1) /\ Decimal(t) = g[k + 1]
    BY <2>1, DecimalIs
  <2> DEFINE same == {i \in Nat : i <= k => g[i] = f[i]}
  <2>4. 0 \in same
    BY <2>2, <2>3 DEF Values
  <2>5. ASSUME NEW i \in Nat, i \in same PROVE i + 1 \in same
    <3> SUFFICES ASSUME i + 1 <= k PROVE g[i + 1] = f[i + 1]
      OBVIOUS
    <3>1. /\ i + 1 \in 1 .. k /\ i + 1 \in 1 .. k + 1 /\ (i + 1) - 1 = i
          /\ i <= k
      BY <2>1
    <3>2. f[i + 1] = 10 * f[i] + DigitValue(s[i + 1])
      BY <2>2, <3>1 DEF Values
    <3>3. g[i + 1] = 10 * g[i] + DigitValue(t[i + 1])
      BY <2>3, <3>1 DEF Values
    <3>4. g[i] = f[i] /\ t[i + 1] = s[i + 1]
      BY <2>1, <2>5, <3>1
    <3> QED BY <3>2, <3>3, <3>4
  <2>6. \A i \in Nat : i \in same
    <3> HIDE DEF same
    <3> QED BY <2>4, <2>5, Induction
  <2>7. g[k] = f[k]
    BY <2>1, <2>6
  <2>8. g[k + 1] = 10 * g[k] + DigitValue(t[k + 1])
    <3>1. k + 1 \in 1 .. k + 1 /\ (k + 1) - 1 = k
      BY <2>1
    <3> QED BY <2>3, <3>1 DEF Values
  <2>9. Decimal(t) = 10 * Decimal(s) + DigitValue(c)
    BY <2>1, <2>2, <2>3, <2>7, <2>8
  <2> QED BY <2>9 DEF t
<1> QED BY <1>1, <1>2

(* An index written into a selector is read back as that index, however    *)
(* many digits it takes (strconv.Itoa against strconv.Atoi).               *)
THEOREM AtoiItoa ==
  \A n \in Nat : Itoa(n) \in Text /\ Atoi(Itoa(n)) = n
<1> DEFINE Numeral(s, n) == /\ s \in Seq(ToSet(Digits)) /\ s # <<>>
                            /\ Decimal(s) = n
           good == {n \in Nat : \A k \in 0 .. n : Numeral(Itoa(k), k)}
<1>1. \A s \in Seq(ToSet(Digits)) : s \in Text
  BY DigitIs DEF Text
<1>2. ASSUME NEW n \in Nat, n < 10 PROVE Numeral(Itoa(n), n)
  <2>1. Itoa(n) = Append(<<>>, Digits[n + 1]) /\ n \in 0 .. 9
    BY <1>2, ItoaNext
  <2>2. Digits[n + 1] \in ToSet(Digits) /\ Digits[n + 1] \in Char
        /\ DigitValue(Digits[n + 1]) = n
    BY <2>1, DigitIs
  <2>3. Decimal(Append(<<>>, Digits[n + 1])) = 10 * 0 + n
    BY <2>2, DecimalNext, CharFacts
  <2> QED BY <1>2, <2>1, <2>2, <2>3
<1>3. ASSUME NEW n \in Nat, ~(n < 10), Numeral(Itoa(n \div 10), n \div 10)
      PROVE  Numeral(Itoa(n), n)
  <2> DEFINE k == n \div 10
             d == n % 10
             s == Itoa(k)
  <2>1. k \in Nat /\ d \in 0 .. 9 /\ n = 10 * k + d
    BY LastDigit
  <2>2. Itoa(n) = Append(s, Digits[d + 1])
    BY <1>3, ItoaNext
  <2>3. s \in Seq(ToSet(Digits)) /\ s \in Text /\ Decimal(s) = k
    BY <1>1, <1>3
  <2> HIDE DEF k, d, s
  <2>4. Digits[d + 1] \in ToSet(Digits) /\ Digits[d + 1] \in Char
        /\ DigitValue(Digits[d + 1]) = d
    BY <2>1, DigitIs
  <2>5. Decimal(Itoa(n)) = n
    BY <2>1, <2>2, <2>3, <2>4, DecimalNext
  <2>6. Itoa(n) \in Seq(ToSet(Digits)) /\ Itoa(n) # <<>>
    BY <2>2, <2>3, <2>4
  <2> QED BY <2>5, <2>6
<1> HIDE DEF Numeral
<1>4. 0 \in good
  <2>1. \A k \in 0 .. 0 : k \in Nat /\ k < 10
    OBVIOUS
  <2> QED BY <1>2, <2>1
<1>5. ASSUME NEW n \in Nat, n \in good PROVE n + 1 \in good
  <2>1. Numeral(Itoa(n + 1), n + 1)
    <3>1. n + 1 \in Nat
      OBVIOUS
    <3>2. CASE n + 1 < 10
      BY <1>2, <3>1, <3>2
    <3>3. CASE ~(n + 1 < 10)
      <4>1. (n + 1) \div 10 \in 0 .. n
        BY <3>1, <3>3, LastDigit
      <4> QED BY <1>3, <1>5, <3>1, <3>3, <4>1
    <3> QED BY <3>2, <3>3
  <2>2. ASSUME NEW k \in 0 .. n + 1 PROVE Numeral(Itoa(k), k)
    <3>1. k \in 0 .. n \/ k = n + 1
      OBVIOUS
    <3> QED BY <1>5, <2>1, <3>1
  <2>3. n + 1 \in Nat
    OBVIOUS
  <2> QED BY <2>2, <2>3, Zenon
<1>6. ASSUME NEW n \in Nat PROVE Numeral(Itoa(n), n)
  <2>1. n \in good
    <3> HIDE DEF good
    <3> QED BY <1>4, <1>5, Induction
  <2>2. n \in 0 .. n
    OBVIOUS
  <2> QED BY <2>1, <2>2
<1>7. ASSUME NEW n \in Nat PROVE Itoa(n) \in Text /\ Atoi(Itoa(n)) = n
  <2> DEFINE s == Itoa(n)
  <2>1. s \in Seq(ToSet(Digits)) /\ s # <<>> /\ Decimal(s) = n
    BY <1>6 DEF Numeral
  <2> HIDE DEF s
  <2>2. Head(s) \in ToSet(Digits) /\ ToSet(s) \subseteq ToSet(Digits)
    <3>1. /\ Head(s) \in ToSet(Digits)
          /\ \A i \in DOMAIN s : s[i] \in ToSet(Digits)
      BY <2>1
    <3>2. ToSet(s) = {s[i] : i \in DOMAIN s}
      BY DEF ToSet
    <3> QED BY <3>1, <3>2
  <2>3. Head(s) # "+" /\ Head(s) # "-"
    BY <2>2, DigitIs
  <2>4. Atoi(s) = n
    BY <2>1, <2>2, <2>3 DEF Atoi
  <2> QED BY <1>1, <2>1, <2>4 DEF s
<1> QED BY <1>7

-----------------------------------------------------------------------------
(* Values *)

(* What a path leads to is a value or nothing.                             *)
LEMMA FollowType ==
  \A doc \in Value, keys \in Seq(Text) :
    Follow(doc, keys) \in Value \cup {NotFound}
<1> TAKE doc \in Value
<1> DEFINE good == {keys \in Seq(Text) :
                      Follow(doc, keys) \in Value \cup {NotFound}}
<1>1. <<>> \in good
  BY FollowNext
<1>2. ASSUME NEW v \in Value \cup {NotFound}, NEW key
      PROVE  Child(v, key) \in Value \cup {NotFound}
  <2>1. CASE IsObject(v) /\ key \in DOMAIN v.members
    BY <2>1, ValueAssumption DEF Child, IsObject
  <2>2. CASE ~(IsObject(v) /\ key \in DOMAIN v.members) /\ IsArray(v)
             /\ Atoi(key) # NotFound /\ Atoi(key) \in 0 .. Len(v.elements) - 1
    <3>1. v \in Value /\ v.elements \in Seq(Value)
      BY <2>2, ValueAssumption DEF IsArray
    <3>2. Atoi(key) + 1 \in 1 .. Len(v.elements)
      BY <2>2, <3>1
    <3>3. Child(v, key) = v.elements[Atoi(key) + 1]
      BY <2>2 DEF Child
    <3> QED BY <3>1, <3>2, <3>3
  <2>3. CASE /\ ~(IsObject(v) /\ key \in DOMAIN v.members)
             /\ ~(IsArray(v) /\ Atoi(key) # NotFound
                    /\ Atoi(key) \in 0 .. Len(v.elements) - 1)
    BY <2>3 DEF Child
  <2> QED BY <2>1, <2>2, <2>3
<1>3. ASSUME NEW keys \in Seq(Text), NEW key \in Text, keys \in good
      PROVE  Append(keys, key) \in good
  <2>1. Follow(doc, Append(keys, key)) = Child(Follow(doc, keys), key)
    BY FollowNext
  <2>2. Append(keys, key) \in Seq(Text)
    OBVIOUS
  <2> QED BY <1>2, <1>3, <2>1, <2>2
<1>4. \A keys \in Seq(Text) : keys \in good
  <2> HIDE DEF good
  <2> QED BY <1>1, <1>3, SeqInduction
<1> QED BY <1>4

LEMMA GetType ==
  ASSUME NEW doc \in Value, NEW pointer \in Text
  PROVE  /\ GetJSONPointer(doc, pointer) \in Value \cup {NotFound}
         /\ GetJSONPointer(doc, pointer) # NotFound => WellFormed(pointer)
<1>1. CASE WellFormed(pointer)
  BY <1>1, GetIs, FollowType
<1>2. CASE ~WellFormed(pointer)
  BY <1>2 DEF WellFormed, GetJSONPointer
<1> QED BY <1>1, <1>2

-----------------------------------------------------------------------------
(* The claims of a call *)

(* The claim of the i-th item. *)
ClaimOf(i) == [selector |-> Selector(i),
               ownerId |-> PointerString(Items[i], m.ownerPtr),
               dataResource |-> ResourceOf(Items[i])]

(* The inductive invariant: while a call walks its items, there are items, *)
(* and the claims built so far are those of the first of them, in order.   *)
ClaimsOfItems ==
  /\ pc # "idle" => m \in Matchers /\ decoded \in Bodies
  /\ pc \notin {"claiming", "answered"} => claims = <<>>
  /\ pc \in {"claiming", "answered"} =>
       /\ Root # NotFound
       /\ m.itemsIsArray => IsArray(Root)
       /\ claims \in Seq({ClaimOf(i) : i \in DOMAIN Items})
       /\ Len(claims) <= Len(Items)
       /\ \A i \in DOMAIN claims : claims[i] = ClaimOf(i)

(* There are items to walk, each a value; there is one where no array is   *)
(* configured.                                                             *)
LEMMA ItemsAre ==
  ASSUME m \in Matchers, decoded \in Bodies, Root # NotFound,
         m.itemsIsArray => IsArray(Root)
  PROVE  /\ WellFormed(m.items) /\ Root \in Value
         /\ Items \in Seq(Value)
         /\ ~m.itemsIsArray => Items = <<Root>>
<1>1. decoded \in Value /\ m.items \in Text
  BY InputAssumption
<1>2. Root \in Value /\ WellFormed(m.items)
  BY <1>1, GetType DEF Root
<1>3. CASE m.itemsIsArray
  BY <1>2, <1>3, ValueAssumption DEF Items
<1>4. CASE ~m.itemsIsArray
  BY <1>2, <1>4 DEF Items
<1> QED BY <1>2, <1>3, <1>4

LEMMA SameCall ==
  ASSUME UNCHANGED <<m, decoded>>
  PROVE  /\ Root' = Root /\ Items' = Items
         /\ \A i : ClaimOf(i)' = ClaimOf(i)
BY DEF Root, Items, ClaimOf, Selector, ResourceOf

THEOREM ClaimsOfItemsInvariant == Spec => []ClaimsOfItems
<1>1. Init => ClaimsOfItems
  BY DEF Init, ClaimsOfItems
<1>2. ASSUME ClaimsOfItems, [Next]_vars PROVE ClaimsOfItems'
  <2>1. ASSUME NEW matcher \in Matchers, NEW body \in Bodies,
               Call(matcher, body)
        PROVE  ClaimsOfItems'
    BY <1>2, <2>1 DEF Call, ClaimsOfItems
  <2>2. CASE NoItems
    BY <1>2, <2>2 DEF NoItems, ClaimsOfItems
  <2>3. CASE Walk
    <3>1. /\ Root' = Root /\ Items' = Items /\ claims' = <<>>
          /\ pc' = "claiming" /\ m' = m /\ decoded' = decoded
          /\ m \in Matchers /\ decoded \in Bodies
      BY <1>2, <2>3, SameCall DEF Walk, ClaimsOfItems
    <3>2. Root # NotFound /\ (m.itemsIsArray => IsArray(Root))
      BY <2>3 DEF Walk
    <3>3. Len(Items) \in Nat
      BY <3>1, <3>2, ItemsAre
    <3>4. \A S : <<>> \in Seq(S) /\ Len(<<>>) = 0 /\ DOMAIN <<>> = {}
      OBVIOUS
    <3>5. /\ claims' \in Seq({ClaimOf(i)' : i \in DOMAIN Items'})
          /\ Len(claims') <= Len(Items')
          /\ \A i \in DOMAIN claims' : claims'[i] = ClaimOf(i)'
      BY <3>1, <3>3, <3>4
    <3>6. IsArray(Root)' = IsArray(Root)
      BY <3>1 DEF IsArray
    <3> QED BY <3>1, <3>2, <3>5, <3>6 DEF ClaimsOfItems
  <2>4. CASE ClaimForItem
    <3> DEFINE n == NextItem
               S == {ClaimOf(i) : i \in DOMAIN Items}
    <3>1. /\ Root' = Root /\ Items' = Items /\ \A i : ClaimOf(i)' = ClaimOf(i)
          /\ pc' = "claiming" /\ m' = m /\ decoded' = decoded
          /\ m \in Matchers /\ decoded \in Bodies
      BY <1>2, <2>4, SameCall DEF ClaimForItem, ClaimsOfItems
    <3>2. /\ Root # NotFound /\ (m.itemsIsArray => IsArray(Root))
          /\ claims \in Seq(S)
          /\ \A i \in DOMAIN claims : claims[i] = ClaimOf(i)
          /\ n \in DOMAIN Items /\ n = Len(claims) + 1
      BY <1>2, <2>4 DEF ClaimForItem, ClaimsOfItems, NextItem
    <3>3. claims' = Append(claims, ClaimOf(n)) /\ ClaimOf(n) \in S
      BY <2>4, <3>2 DEF ClaimForItem, ClaimOf, Item
    <3>4. Items \in Seq(Value)
      BY <3>1, <3>2, ItemsAre
    <3> HIDE DEF S, n
    <3>5. /\ claims' \in Seq(S) /\ Len(claims') = n
          /\ \A i \in DOMAIN claims' : i \in DOMAIN claims \/ i = n
          /\ \A i \in DOMAIN claims : claims'[i] = claims[i]
          /\ claims'[n] = ClaimOf(n)
      BY <3>2, <3>3
    <3>6. Len(claims') <= Len(Items)
      BY <3>2, <3>4, <3>5
    <3>7. ASSUME NEW i \in DOMAIN claims' PROVE claims'[i] = ClaimOf(i)
      <4>1. CASE i = n
        BY <3>5, <4>1
      <4>2. CASE i \in DOMAIN claims
        BY <3>2, <3>5, <4>2, Zenon
      <4> QED BY <3>5, <4>1, <4>2, Zenon
    <3>8. /\ claims' \in Seq({ClaimOf(i)' : i \in DOMAIN Items'})
          /\ Len(claims') <= Len(Items')
          /\ \A i \in DOMAIN claims' : claims'[i] = ClaimOf(i)'
      BY <3>1, <3>5, <3>6, <3>7 DEF S
    <3>9. IsArray(Root)' = IsArray(Root)
      BY <3>1 DEF IsArray
    <3> QED BY <3>1, <3>2, <3>8, <3>9 DEF ClaimsOfItems
  <2>5. CASE Unclaimable
    BY <1>2, <2>5 DEF Unclaimable, ClaimsOfItems
  <2>6. CASE Answer
    <3>1. /\ Root' = Root /\ Items' = Items /\ \A i : ClaimOf(i)' = ClaimOf(i)
          /\ pc' = "answered" /\ UNCHANGED <<m, decoded, claims>>
          /\ pc = "claiming"
      BY <2>6, SameCall DEF Answer
    <3>2. IsArray(Root)' = IsArray(Root)
      BY <3>1 DEF IsArray
    <3> QED BY <1>2, <3>1, <3>2 DEF ClaimsOfItems
  <2>7. CASE Return
    BY <1>2, <2>7 DEF Return, ClaimsOfItems
  <2>8. CASE UNCHANGED vars
    <3>1. /\ Root' = Root /\ Items' = Items /\ \A i : ClaimOf(i)' = ClaimOf(i)
          /\ UNCHANGED <<pc, m, decoded, claims>>
      BY <2>8, SameCall DEF vars
    <3>2. IsArray(Root)' = IsArray(Root)
      BY <3>1 DEF IsArray
    <3> QED BY <1>2, <3>1, <3>2 DEF ClaimsOfItems
  <2> QED BY <1>2, <2>1, <2>2, <2>3, <2>4, <2>5, <2>6, <2>7, <2>8 DEF Next
<1> QED BY <1>1, <1>2, PTL DEF Spec

(* The pointer of an item finds it in the body, and no other has it.       *)
LEMMA SelectorFinds ==
  ASSUME m \in Matchers, decoded \in Bodies, Root # NotFound,
         m.itemsIsArray => IsArray(Root), NEW i \in DOMAIN Items
  PROVE  /\ GetJSONPointer(decoded, Selector(i)) = Items[i]
         /\ Items[i] # NotFound
         /\ \A j \in DOMAIN Items : Selector(i) = Selector(j) => i = j
<1>1. /\ WellFormed(m.items) /\ Root \in Value
      /\ Items \in Seq(Value)
      /\ ~m.itemsIsArray => Items = <<Root>>
  BY ItemsAre
<1>2. Items[i] # NotFound
  BY <1>1, ValueAssumption
<1>3. CASE m.itemsIsArray
  <2>1. /\ IsArray(Root) /\ ~IsObject(Root) /\ Items = Root.elements
        /\ \A j : Selector(j) = JoinPointer(m.items, Itoa(j - 1))
    BY <1>3 DEF IsArray, IsObject, Items, Selector
  <2>2. \A j \in DOMAIN Items : /\ j \in Nat /\ j - 1 \in Nat
                                /\ j - 1 \in 0 .. Len(Items) - 1
                                /\ (j - 1) + 1 = j
    BY <1>1
  <2>3. \A j \in DOMAIN Items : /\ Itoa(j - 1) \in Text
                                /\ Atoi(Itoa(j - 1)) = j - 1
                                /\ Atoi(Itoa(j - 1)) # NotFound
    BY <2>2, AtoiItoa, NumberAssumption
  <2>4. GetJSONPointer(decoded, Selector(i)) = Child(Root, Itoa(i - 1))
    BY <1>1, <2>1, <2>3, JoinedPointerFinds DEF Root
  <2>5. Child(Root, Itoa(i - 1)) = Items[i]
    BY <2>1, <2>2, <2>3 DEF Child
  <2>6. ASSUME NEW j \in DOMAIN Items, Selector(i) = Selector(j) PROVE i = j
    <3> DEFINE keys == KeysOf(m.items)
               a == Itoa(i - 1)
               b == Itoa(j - 1)
    <3>1. a \in Text /\ b \in Text
      BY <2>3
    <3>2. keys \in Seq(Text)
      BY <1>1, GetIs
    <3>3. JoinPointer(m.items, a) = JoinPointer(m.items, b)
      BY <2>1, <2>6
    <3> HIDE DEF a, b
    <3>4. /\ KeysOf(JoinPointer(m.items, a)) = Append(keys, a)
          /\ KeysOf(JoinPointer(m.items, b)) = Append(keys, b)
      BY <1>1, <3>1, KeysOfJoined
    <3> HIDE DEF keys
    <3>5. a = b
      <4>1. Append(keys, a)[Len(keys) + 1] = a
            /\ Append(keys, b)[Len(keys) + 1] = b
        BY <3>1, <3>2
      <4> QED BY <3>3, <3>4, <4>1
    <3>6. i - 1 = j - 1
      BY <2>3, <3>5 DEF a, b
    <3> QED BY <2>2, <3>6
  <2> QED BY <1>2, <2>4, <2>5, <2>6
<1>4. CASE ~m.itemsIsArray
  <2>1. Items = <<Root>> /\ \A j \in DOMAIN Items : j = 1
    BY <1>1, <1>4
  <2>2. Selector(i) = m.items
    BY <1>4 DEF Selector
  <2> QED BY <1>2, <2>1, <2>2 DEF Root
<1> QED BY <1>3, <1>4

(* A claim's selector finds, in the whole body, the item the claim was     *)
(* made from, and two claims select different items: for every body,       *)
(* matcher, number of items and character in a key.                        *)
THEOREM SelectorPointsBackInvariant == Spec => []SelectorPointsBack
<1>1. ClaimsOfItems => SelectorPointsBack
  <2> SUFFICES ASSUME ClaimsOfItems, NEW i \in DOMAIN claims
               PROVE  LET claim == claims[i]
                          item == GetJSONPointer(decoded, claim.selector)
                      IN  /\ item # NotFound
                          /\ claim.ownerId = PointerString(item, m.ownerPtr)
                          /\ claim.dataResource = ResourceOf(item)
                          /\ \A j \in DOMAIN claims \ {i} :
                               claims[j].selector # claim.selector
    BY DEF SelectorPointsBack, ResourceOf
  <2>1. pc \in {"claiming", "answered"}
    BY DEF ClaimsOfItems
  <2>2. /\ m \in Matchers /\ decoded \in Bodies
        /\ Root # NotFound /\ (m.itemsIsArray => IsArray(Root))
        /\ claims \in Seq({ClaimOf(k) : k \in DOMAIN Items})
        /\ Len(claims) <= Len(Items)
        /\ \A k \in DOMAIN claims : claims[k] = ClaimOf(k)
    BY <2>1 DEF ClaimsOfItems
  <2>3. Items \in Seq(Value)
    BY <2>2, ItemsAre
  <2>4. \A k \in DOMAIN claims : k \in DOMAIN Items
    BY <2>2, <2>3
  <2>5. \A k \in DOMAIN claims : claims[k].selector = Selector(k)
    BY <2>2 DEF ClaimOf
  <2>6. /\ claims[i].ownerId = PointerString(Items[i], m.ownerPtr)
        /\ claims[i].dataResource = ResourceOf(Items[i])
    BY <2>2 DEF ClaimOf
  <2>7. /\ GetJSONPointer(decoded, Selector(i)) = Items[i]
        /\ Items[i] # NotFound
        /\ \A j \in DOMAIN Items : Selector(i) = Selector(j) => i = j
    BY <2>2, <2>4, SelectorFinds
  <2> QED BY <2>4, <2>5, <2>6, <2>7
<1> QED BY <1>1, ClaimsOfItemsInvariant, PTL

(* What has become of the items: each claimed so far has an owner and a    *)
(* resource, an answer has left none out, and a failure had a reason.      *)
Accounted ==
  /\ \A i \in DOMAIN claims : Claimable(Items[i])
  /\ pc = "answered" => Len(claims) = Len(Items)
  /\ pc = "failed" => \/ Root = NotFound
                      \/ m.itemsIsArray /\ ~IsArray(Root)
                      \/ \E i \in DOMAIN Items : ~Claimable(Items[i])

(* The walk accounts for every item: it only answers past the last one.    *)
LEMMA AccountedStep ==
  ClaimsOfItems /\ Accounted /\ [Next]_vars => Accounted'
<1> SUFFICES ASSUME ClaimsOfItems, Accounted, [Next]_vars PROVE Accounted'
  OBVIOUS
<1>0. ASSUME UNCHANGED <<m, decoded>>
      PROVE  /\ Root' = Root /\ Items' = Items /\ m' = m
             /\ IsArray(Root)' = IsArray(Root)
             /\ \A i : Claimable(Items[i])' = Claimable(Items[i])
  BY <1>0, SameCall DEF IsArray, Claimable, ResourceOf
<1>1. ASSUME pc = "claiming"
      PROVE  /\ Items \in Seq(Value)
             /\ claims \in Seq({ClaimOf(i) : i \in DOMAIN Items})
             /\ Len(claims) <= Len(Items)
             /\ NextItem = Len(claims) + 1
  BY <1>1, ItemsAre DEF ClaimsOfItems, NextItem
<1>2. ASSUME claims' = <<>>, pc' \notin {"answered", "failed"}
      PROVE  Accounted'
  BY <1>2 DEF Accounted
<1>3. ASSUME NEW matcher \in Matchers, NEW body \in Bodies,
             Call(matcher, body)
      PROVE  Accounted'
  BY <1>2, <1>3 DEF Call, ClaimsOfItems
<1>4. CASE NoItems
  <2>1. claims' = <<>> /\ pc' = "failed" /\ UNCHANGED <<m, decoded>>
    BY <1>4 DEF NoItems, ClaimsOfItems
  <2> QED BY <1>0, <1>4, <2>1 DEF NoItems, Accounted
<1>5. CASE Walk
  BY <1>2, <1>5 DEF Walk, ClaimsOfItems
<1>6. CASE ClaimForItem
  <2>1. /\ pc = "claiming" /\ pc' = "claiming" /\ UNCHANGED <<m, decoded>>
        /\ Claimable(Items[NextItem])
        /\ DOMAIN claims' = DOMAIN claims \cup {NextItem}
    <3>1. \E claim : claims' = Append(claims, claim)
      BY <1>6 DEF ClaimForItem
    <3>2. DOMAIN claims' = DOMAIN claims \cup {NextItem}
      BY <1>1, <1>6, <3>1 DEF ClaimForItem
    <3> QED BY <1>6, <3>2 DEF ClaimForItem, Item
  <2>2. \A i \in DOMAIN claims' : Claimable(Items[i])
    BY <2>1 DEF Accounted
  <2> QED BY <1>0, <2>1, <2>2 DEF Accounted
<1>7. CASE Unclaimable
  <2>1. /\ claims' = <<>> /\ pc' = "failed" /\ UNCHANGED <<m, decoded>>
        /\ \E i \in DOMAIN Items : ~Claimable(Items[i])
    BY <1>7 DEF Unclaimable, Item
  <2> QED BY <1>0, <2>1 DEF Accounted
<1>8. CASE Answer
  <2>1. /\ pc = "claiming" /\ NextItem \notin DOMAIN Items
        /\ pc' = "answered" /\ UNCHANGED <<m, decoded, claims>>
    BY <1>8 DEF Answer
  <2>2. Len(claims) = Len(Items)
    BY <1>1, <2>1
  <2> QED BY <1>0, <2>1, <2>2 DEF Accounted
<1>9. CASE Return
  BY <1>2, <1>9 DEF Return
<1>10. CASE UNCHANGED vars
  <2>1. UNCHANGED <<pc, m, decoded, claims>>
    BY <1>10 DEF vars
  <2> QED BY <1>0, <2>1 DEF Accounted
<1> QED BY <1>3, <1>4, <1>5, <1>6, <1>7, <1>8, <1>9, <1>10 DEF Next

(* The owners are answered for all items or for none: an answer has one    *)
(* claim for each item, in order, whose selector finds that item in the    *)
(* body, and no call fails without an item to blame.                       *)
THEOREM EveryItemClaimedInvariant == Spec => []EveryItemClaimed
<1>1. Init => Accounted
  BY DEF Init, Accounted
<1>2. ClaimsOfItems /\ Accounted => EveryItemClaimed
  <2> SUFFICES ASSUME ClaimsOfItems, Accounted PROVE EveryItemClaimed
    OBVIOUS
  <2>1. ASSUME pc = "answered", NEW i \in DOMAIN Items
        PROVE  /\ GetJSONPointer(decoded, claims[i].selector) = Items[i]
               /\ claims[i].ownerId # NotFound
               /\ claims[i].dataResource # NotFound
    <3>1. /\ m \in Matchers /\ decoded \in Bodies
          /\ Root # NotFound /\ (m.itemsIsArray => IsArray(Root))
          /\ claims \in Seq({ClaimOf(k) : k \in DOMAIN Items})
          /\ \A k \in DOMAIN claims : claims[k] = ClaimOf(k)
      BY <2>1 DEF ClaimsOfItems
    <3>2. Items \in Seq(Value) /\ Len(claims) = Len(Items)
      BY <2>1, <3>1, ItemsAre DEF Accounted
    <3>3. i \in DOMAIN claims
      BY <3>1, <3>2
    <3>4. Claimable(Items[i]) /\ claims[i] = ClaimOf(i)
      BY <3>1, <3>3 DEF Accounted
    <3>5. GetJSONPointer(decoded, Selector(i)) = Items[i]
      BY <3>1, SelectorFinds
    <3> QED BY <3>4, <3>5 DEF Claimable, ClaimOf
  <2> QED BY <2>1 DEF Accounted, EveryItemClaimed
<1> QED
  BY <1>1, <1>2, AccountedStep, ClaimsOfItemsInvariant, PTL DEF Spec

(* Every key there is in a body can be addressed, whatever characters it   *)
(* holds.                                                                  *)
THEOREM KeysAddressableInvariant == Spec => []KeysAddressable
<1>1. ASSUME decoded \in Value, NEW paths, paths \subseteq Seq(Text)
      PROVE  Deeper(paths) \subseteq Seq(Text)
  <2>1. ASSUME NEW path \in paths, NEW key \in Keys(Follow(decoded, path))
        PROVE  Append(path, key) \in Seq(Text)
    <3> DEFINE v == Follow(decoded, path)
    <3>1. v \in Value \cup {NotFound}
      BY <1>1, FollowType
    <3> HIDE DEF v
    <3>2. ASSUME NEW k \in Keys(v) PROVE k \in Text
      <4>1. CASE IsObject(v)
        <5>1. v \in Value
          BY <3>1, <4>1 DEF IsObject
        <5> QED BY <3>2, <4>1, <5>1, ValueAssumption DEF Keys
      <4>2. CASE ~IsObject(v) /\ IsArray(v)
        <5>1. v \in Value /\ v.elements \in Seq(Value)
          BY <3>1, <4>2, ValueAssumption DEF IsArray
        <5>2. PICK j \in DOMAIN v.elements : k = Itoa(j - 1)
          BY <3>2, <4>2 DEF Keys
        <5>3. j - 1 \in Nat
          BY <5>1, <5>2
        <5> QED BY <5>2, <5>3, AtoiItoa
      <4>3. CASE ~IsObject(v) /\ ~IsArray(v)
        BY <3>2, <4>3 DEF Keys
      <4> QED BY <4>1, <4>2, <4>3
    <3>3. key \in Text
      BY <2>1, <3>2 DEF v
    <3> QED BY <1>1, <2>1, <3>3
  <2> QED BY <1>1, <2>1 DEF Deeper
<1>2. ASSUME ClaimsOfItems, pc = "called" PROVE Paths \subseteq Seq(Text)
  <2>1. decoded \in Value
    BY <1>2, InputAssumption DEF ClaimsOfItems
  <2>2. {<<>>} \subseteq Seq(Text)
    OBVIOUS
  <2> QED BY <1>1, <2>1, <2>2 DEF Paths
<1>3. ClaimsOfItems => KeysAddressable
  BY <1>2, PathAddressable DEF KeysAddressable
<1> QED BY <1>3, ClaimsOfItemsInvariant, PTL
=============================================================================
