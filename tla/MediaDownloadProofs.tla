------------------------- MODULE MediaDownloadProofs -------------------------
(***************************************************************************)
(* A media ID comes back as what it was made from, or not at all, for any  *)
(* number and widths of fields; invariants of MediaDownload, and that its  *)
(* slots are a Limiter, for any number of requests, any limit and sizes.   *)
(*                                                                         *)
(* FlattenSeq and Before are recursive functions.  Induction is on sets of *)
(* numbers (NatSetInduction): first that the functions exist, then how far *)
(* they agree.                                                             *)
(***************************************************************************)
EXTENDS MediaDownload, SequenceTheorems, FiniteSetTheorems, WellFoundedInduction, TLAPS

LEMMA NatSetInduction ==
    ASSUME NEW S \in SUBSET Nat, 0 \in S, \A n \in S : n + 1 \in S
    PROVE  S = Nat
<1>. SUFFICES ASSUME Nat \ S # {} PROVE FALSE
  OBVIOUS
<1>1. PICK m \in Nat \ S : \A n \in Nat \ S : <<n, m>> \notin OpToRel(<, Nat)
  BY NatLessThanWellFounded, WFMin, Nat \ S \subseteq Nat
<1>2. \A n \in Nat \ S : ~(n < m)
  BY <1>1 DEF OpToRel
<1>3. m # 0 /\ m - 1 \in Nat
  OBVIOUS
<1>. QED
  BY <1>2, <1>3, (m - 1) + 1 = m

-----------------------------------------------------------------------------
(* The recursive functions. *)

IsFlatten(f, seqs, n) ==
    f = [i \in 1..n |-> IF i = 1 THEN seqs[i] ELSE f[i - 1] \o seqs[i]]

LEMMA FlattenExists ==
    ASSUME NEW seqs
    PROVE  \A n \in Nat : \E f : IsFlatten(f, seqs, n)
<1>. DEFINE S == {n \in Nat : \E f : IsFlatten(f, seqs, n)}
<1>1. 0 \in S
  <2>. DEFINE f == [i \in 1..0 |-> i]
  <2>1. f = [i \in 1..0 |-> IF i = 1 THEN seqs[i] ELSE f[i - 1] \o seqs[i]]
    OBVIOUS
  <2>2. IsFlatten(f, seqs, 0)
    BY <2>1 DEF IsFlatten
  <2>. QED
    BY <2>2
<1>2. ASSUME NEW n \in S PROVE n + 1 \in S
  <2>0. n \in Nat
    OBVIOUS
  <2>1. PICK f : IsFlatten(f, seqs, n)
    OBVIOUS
  <2>. DEFINE g == [i \in 1..(n + 1) |-> IF i = n + 1
                      THEN IF i = 1 THEN seqs[i] ELSE f[n] \o seqs[i] ELSE f[i]]
  <2>2. ASSUME NEW i \in 1..(n + 1)
        PROVE  g[i] = IF i = 1 THEN seqs[i] ELSE g[i - 1] \o seqs[i]
    <3>1. CASE i = 1 /\ i = n + 1
      BY <3>1
    <3>2. CASE i = 1 /\ i # n + 1
      <4>1. g[i] = f[i] /\ i \in 1..n
        BY <3>2
      <4>. QED
        BY <2>1, <3>2, <4>1 DEF IsFlatten
    <3>3. CASE i # 1 /\ i = n + 1
      <4>1. i - 1 = n /\ i - 1 \in 1..(n + 1) /\ i - 1 # n + 1
        BY <2>0, <3>3
      <4>0. g[i] = f[n] \o seqs[i]
        BY <3>3
      <4>2. g[i - 1] = f[n]
        BY <4>1
      <4>. QED
        BY <3>3, <4>0, <4>2
    <3>4. CASE i # 1 /\ i # n + 1
      <4>1. i \in 1..n /\ i - 1 \in 1..n /\ i - 1 # n + 1
        BY <3>4
      <4>2. f[i] = f[i - 1] \o seqs[i]
        BY <2>1, <3>4, <4>1 DEF IsFlatten
      <4>3. g[i] = f[i] /\ g[i - 1] = f[i - 1]
        BY <3>4, <4>1
      <4>. QED
        BY <3>4, <4>2, <4>3
    <3>. QED
      BY <3>1, <3>2, <3>3, <3>4
  <2>3. g = [i \in 1..(n + 1) |-> IF i = 1 THEN seqs[i] ELSE g[i - 1] \o seqs[i]]
    <3>1. g = [i \in 1..(n + 1) |-> g[i]]
      OBVIOUS
    <3>. HIDE DEF g
    <3>. QED
      BY <2>2, <3>1
  <2>4. IsFlatten(g, seqs, n + 1)
    BY <2>3 DEF IsFlatten
  <2>. HIDE DEF g
  <2>. QED
    BY <2>0, <2>4
<1>3. S = Nat
  <2>. HIDE DEF S
  <2>1. S \in SUBSET Nat
    BY DEF S
  <2>. QED
    BY <1>1, <1>2, <2>1, NatSetInduction
<1>. QED
  BY <1>3

LEMMA FlattenIs ==
    ASSUME NEW seqs, Len(seqs) \in Nat \ {0}
    PROVE  \E f : IsFlatten(f, seqs, Len(seqs)) /\ FlattenSeq(seqs) = f[Len(seqs)]
<1>. DEFINE f == CHOOSE f : f = [i \in 1..Len(seqs) |-> IF i = 1 THEN seqs[i] ELSE f[i - 1] \o seqs[i]]
<1>1. IsFlatten(f, seqs, Len(seqs))
  BY FlattenExists DEF IsFlatten
<1>2. FlattenSeq(seqs) = f[Len(seqs)]
  BY DEF FlattenSeq
<1>. QED
  BY <1>1, <1>2

IsUpTo(f, id, n) ==
    f = [k \in 0..n |-> IF k = 0 THEN HeaderLen ELSE f[k - 1] + id[k + 1]]

LEMMA UpToExists ==
    ASSUME NEW id
    PROVE  \A n \in Nat : \E f : IsUpTo(f, id, n)
<1>. DEFINE S == {n \in Nat : \E f : IsUpTo(f, id, n)}
<1>1. 0 \in S
  <2>. DEFINE f == [k \in 0..0 |-> HeaderLen]
  <2>1. f = [k \in 0..0 |-> IF k = 0 THEN HeaderLen ELSE f[k - 1] + id[k + 1]]
    OBVIOUS
  <2>2. IsUpTo(f, id, 0)
    BY <2>1 DEF IsUpTo
  <2>. QED
    BY <2>2
<1>2. ASSUME NEW n \in S PROVE n + 1 \in S
  <2>0. n \in Nat
    OBVIOUS
  <2>1. PICK f : IsUpTo(f, id, n)
    OBVIOUS
  <2>. DEFINE g == [k \in 0..(n + 1) |-> IF k = n + 1 THEN f[n] + id[k + 1] ELSE f[k]]
  <2>2. ASSUME NEW k \in 0..(n + 1)
        PROVE  g[k] = IF k = 0 THEN HeaderLen ELSE g[k - 1] + id[k + 1]
    <3>1. CASE k = 0
      BY <2>1, <3>1 DEF IsUpTo
    <3>2. CASE k = n + 1
      <4>1. g[k] = f[n] + id[k + 1] /\ k - 1 = n /\ k - 1 \in 0..(n + 1) /\ k - 1 # n + 1 /\ k # 0
        BY <3>2
      <4>2. g[k - 1] = f[n]
        BY <4>1
      <4>. QED
        BY <4>1, <4>2
    <3>3. CASE k # 0 /\ k # n + 1
      <4>1. k \in 0..n /\ k - 1 \in 0..n /\ k - 1 # n + 1
        BY <3>3
      <4>2. f[k] = f[k - 1] + id[k + 1]
        BY <2>1, <3>3, <4>1 DEF IsUpTo
      <4>3. g[k] = f[k] /\ g[k - 1] = f[k - 1]
        BY <3>3, <4>1
      <4>. QED
        BY <3>3, <4>2, <4>3
    <3>. QED
      BY <3>1, <3>2, <3>3
  <2>3. g = [k \in 0..(n + 1) |-> IF k = 0 THEN HeaderLen ELSE g[k - 1] + id[k + 1]]
    <3>1. g = [k \in 0..(n + 1) |-> g[k]]
      OBVIOUS
    <3>. HIDE DEF g
    <3>. QED
      BY <2>2, <3>1
  <2>4. IsUpTo(g, id, n + 1)
    BY <2>3 DEF IsUpTo
  <2>. HIDE DEF g
  <2>. QED
    BY <2>0, <2>4
<1>3. S = Nat
  <2>. HIDE DEF S
  <2>1. S \in SUBSET Nat
    BY DEF S
  <2>. QED
    BY <1>1, <1>2, <2>1, NatSetInduction
<1>. QED
  BY <1>3

LEMMA BeforeIs ==
    ASSUME NEW id
    PROVE  \E f : IsUpTo(f, id, NumFields) /\ \A i : Before(id, i) = f[i - 1]
<1>. DEFINE f == CHOOSE f : f = [k \in 0..NumFields |->
                   IF k = 0 THEN HeaderLen ELSE f[k - 1] + id[k + 1]]
<1>1. NumFields \in Nat
  BY MaxLenAssumption DEF NumFields
<1>2. IsUpTo(f, id, NumFields)
  BY <1>1, UpToExists DEF IsUpTo
<1>3. \A i : Before(id, i) = f[i - 1]
  BY DEF Before
<1>. QED
  BY <1>2, <1>3

-----------------------------------------------------------------------------
(* The layout of an ID. *)

\* The first k fields of flat and what the header id says of them.
Laid(fields, flat, upTo, k) ==
    /\ upTo[k] \in Nat /\ upTo[k] >= HeaderLen
    /\ k > 0 => flat[k] \in Seq(Nat) /\ Len(flat[k]) = upTo[k] - HeaderLen
    /\ \A j \in 1..k :
         /\ upTo[j - 1] \in Nat /\ upTo[j] \in Nat
         /\ HeaderLen <= upTo[j - 1] /\ upTo[j] = upTo[j - 1] + Len(fields[j]) /\ upTo[j] <= upTo[k]
         /\ \A p \in 1..Len(fields[j]) : flat[k][upTo[j - 1] - HeaderLen + p] = fields[j][p]

LEMMA Sizes == NumFields \in Nat \ {0} /\ HeaderLen \in Nat /\ HeaderLen = NumFields + 2
BY MaxLenAssumption DEF NumFields, HeaderLen

LEMMA Offsets ==
    ASSUME NEW a \in Nat, NEW b \in Nat, NEW h \in Nat, NEW l \in Nat, NEW p \in 1..l,
           h <= a, a + l <= b
    PROVE  /\ a - h + p \in 1..(b - h)
           /\ a + p \in 1..(a + l) /\ ~(a + p <= a) /\ (a + p) - a = p
OBVIOUS

LEMMA LaidNext ==
    ASSUME NEW fields \in [1..NumFields -> Seq(Nat)], NEW id,
           NEW flat, IsFlatten(flat, fields, NumFields),
           NEW upTo, IsUpTo(upTo, id, NumFields),
           NEW k \in 0..(NumFields - 1), Laid(fields, flat, upTo, k),
           id[k + 2] = Len(fields[k + 1])
    PROVE  Laid(fields, flat, upTo, k + 1)
<1>. DEFINE old == flat[k]  new == flat[k + 1]  field == fields[k + 1]
<1>1. k \in Nat /\ k + 1 \in 1..NumFields /\ k + 1 \in 0..NumFields /\ k + 1 # 0 /\ (k + 1) - 1 = k
  BY Sizes
<1>2. field \in Seq(Nat) /\ Len(field) \in Nat
  BY <1>1, LenProperties
<1>3. upTo[k + 1] = upTo[k] + Len(field)
  <2>1. upTo[k + 1] = upTo[(k + 1) - 1] + id[(k + 1) + 1]
    BY <1>1 DEF IsUpTo
  <2>. QED
    BY <1>1, <2>1, (k + 1) + 1 = k + 2
<1>4. upTo[k] \in Nat /\ upTo[k] >= HeaderLen
  BY DEF Laid
<1>5. k = 0 => upTo[k] = HeaderLen
  BY Sizes DEF IsUpTo
<1>6. /\ new \in Seq(Nat) /\ Len(new) = upTo[k + 1] - HeaderLen
      /\ \A p \in 1..Len(field) : new[upTo[k] - HeaderLen + p] = field[p]
      /\ k > 0 => \A p \in 1..(upTo[k] - HeaderLen) : new[p] = old[p]
  <2>1. CASE k = 0
    <3>1. new = field
      BY <1>1, <2>1 DEF IsFlatten
    <3>2. \A p \in 1..Len(field) : upTo[k] - HeaderLen + p = p
      BY <1>2, <1>4, <1>5, <2>1, Sizes
    <3>. QED
      BY <1>2, <1>3, <1>4, <1>5, <2>1, <3>1, <3>2, Sizes
  <2>2. CASE k > 0
    <3>1. new = old \o field
      <4>1. k + 1 # 1
        BY <1>1, <2>2
      <4>. QED
        BY <1>1, <4>1 DEF IsFlatten
    <3>2. old \in Seq(Nat) /\ Len(old) = upTo[k] - HeaderLen
      BY <2>2 DEF Laid
    <3>. HIDE DEF old, new, field
    <3>3. /\ new \in Seq(Nat) /\ Len(new) = Len(old) + Len(field)
          /\ \A i \in 1..(Len(old) + Len(field)) : new[i] = IF i <= Len(old) THEN old[i] ELSE field[i - Len(old)]
      BY <1>2, <3>1, <3>2, ConcatProperties
    <3>6. Len(old) \in Nat /\ Len(old) + Len(field) \in Nat
      BY <1>2, <1>4, <3>2, Sizes
    <3>4. ASSUME NEW p \in 1..Len(field) PROVE new[upTo[k] - HeaderLen + p] = field[p]
      <4>1. Len(old) + p \in 1..(Len(old) + Len(field)) /\ ~(Len(old) + p <= Len(old))
            /\ (Len(old) + p) - Len(old) = p
        BY <1>2, <3>6, Offsets, 0 \in Nat, 0 <= Len(old), Len(old) + Len(field) <= Len(old) + Len(field)
      <4>. QED
        BY <3>2, <3>3, <4>1
    <3>5. ASSUME NEW p \in 1..(upTo[k] - HeaderLen) PROVE new[p] = old[p]
      BY <1>2, <1>4, <3>2, <3>3, Sizes
    <3>. QED
      BY <1>2, <1>3, <1>4, <3>2, <3>3, <3>4, <3>5, Sizes
  <2>3. k = 0 \/ k > 0
    OBVIOUS
  <2>. HIDE DEF old, new, field
  <2>. QED
    BY <2>1, <2>2, <2>3
<1>. HIDE DEF old, new, field
<1>7. ASSUME NEW j \in 1..(k + 1)
      PROVE  /\ upTo[j - 1] \in Nat /\ upTo[j] \in Nat
             /\ HeaderLen <= upTo[j - 1] /\ upTo[j] = upTo[j - 1] + Len(fields[j]) /\ upTo[j] <= upTo[k + 1]
             /\ \A p \in 1..Len(fields[j]) : new[upTo[j - 1] - HeaderLen + p] = fields[j][p]
  <2>1. CASE j = k + 1
    BY <1>1, <1>2, <1>3, <1>4, <1>6, <2>1, Sizes DEF field
  <2>2. CASE j # k + 1
    <3>1. j \in 1..k /\ k > 0
      BY <1>1, <2>2
    <3>2. /\ upTo[j - 1] \in Nat /\ upTo[j] \in Nat
          /\ HeaderLen <= upTo[j - 1] /\ upTo[j] = upTo[j - 1] + Len(fields[j]) /\ upTo[j] <= upTo[k]
          /\ \A p \in 1..Len(fields[j]) : old[upTo[j - 1] - HeaderLen + p] = fields[j][p]
      BY <3>1 DEF Laid, old
    <3>3. upTo[j] <= upTo[k + 1]
      BY <1>2, <1>3, <1>4, <3>2
    <3>4. Len(fields[j]) \in Nat
      BY <1>1, <3>1, LenProperties
    <3>5. ASSUME NEW p \in 1..Len(fields[j])
          PROVE  new[upTo[j - 1] - HeaderLen + p] = fields[j][p]
      <4>1. upTo[j - 1] \in Nat /\ HeaderLen <= upTo[j - 1]
            /\ upTo[j - 1] + Len(fields[j]) <= upTo[k]
        BY <3>2
      <4>2. \A a, b, h, l \in Nat : \A q \in 1..l :
              h <= a /\ a + l <= b => a - h + q \in 1..(b - h)
        BY Offsets
      <4>3. upTo[j - 1] - HeaderLen + p \in 1..(upTo[k] - HeaderLen)
        BY <1>4, <3>4, <4>1, <4>2, Sizes
      <4>. QED
        BY <1>6, <3>1, <3>2, <4>3
    <3>. QED
      BY <3>2, <3>3, <3>5
  <2>. QED
    BY <2>1, <2>2
<1>8. upTo[k + 1] \in Nat /\ upTo[k + 1] >= HeaderLen
  BY <1>2, <1>3, <1>4, Sizes
<1>. QED
  BY <1>6, <1>7, <1>8 DEF Laid, new

LEMMA AllLaid ==
    ASSUME NEW fields \in [1..NumFields -> Seq(Nat)], NEW id,
           \A k \in 1..NumFields : id[k + 1] = Len(fields[k]),
           NEW flat, IsFlatten(flat, fields, NumFields),
           NEW upTo, IsUpTo(upTo, id, NumFields)
    PROVE  Laid(fields, flat, upTo, NumFields)
<1>. DEFINE S == {k \in Nat : k <= NumFields => Laid(fields, flat, upTo, k)}
<1>1. 0 \in S
  <2>1. upTo[0] = HeaderLen
    BY Sizes DEF IsUpTo
  <2>2. Laid(fields, flat, upTo, 0)
    BY <2>1, Sizes DEF Laid
  <2>. QED
    BY <2>2
<1>2. ASSUME NEW k \in S PROVE k + 1 \in S
  <2>1. k \in Nat
    OBVIOUS
  <2>2. ASSUME k + 1 <= NumFields PROVE Laid(fields, flat, upTo, k + 1)
    <3>1. k \in 0..(NumFields - 1) /\ k <= NumFields
      BY <2>1, <2>2, Sizes
    <3>2. Laid(fields, flat, upTo, k)
      BY <3>1
    <3>3. id[k + 2] = Len(fields[k + 1])
      <4>1. k + 1 \in 1..NumFields /\ (k + 1) + 1 = k + 2
        BY <3>1, Sizes
      <4>. QED
        BY <4>1
    <3>. HIDE DEF S
    <3>. QED
      BY <3>1, <3>2, <3>3, LaidNext
  <2>. QED
    BY <2>1, <2>2
<1>3. S = Nat
  <2>. HIDE DEF S
  <2>1. S \in SUBSET Nat
    BY DEF S
  <2>. QED
    BY <1>1, <1>2, <2>1, NatSetInduction
<1>4. NumFields \in S /\ NumFields <= NumFields
  BY <1>3, Sizes
<1>. QED
  BY <1>4

-----------------------------------------------------------------------------
(* The round trip. *)

\* What there is in an ID: the lengths in their places, the length of the
\* file, and from there on the fields.
LEMMA IdParts ==
    ASSUME NEW info \in Info, ~TooLong(info),
           NEW flat \in Seq(Nat), flat = FlattenSeq(info.fields)
    PROVE  LET id == EncodeMediaID(info)
           IN  /\ id \in Seq(Nat) /\ Len(id) = HeaderLen + Len(flat)
               /\ id[1] = Version /\ id[HeaderLen] = info.fileLength
               /\ \A k \in 1..NumFields : id[k + 1] = Len(info.fields[k])
               /\ \A p \in 1..Len(flat) : id[HeaderLen + p] = flat[p]
<1>. DEFINE widths == [i \in 1..NumFields |-> Len(info.fields[i]) % (MaxLen[i] + 1)]
            start == <<Version>> \o widths
            length == <<info.fileLength>>
            header == start \o length
            id == header \o flat
<1>1. \A i \in 1..NumFields : info.fields[i] \in Seq(Nat) /\ Len(info.fields[i]) \in Nat
  BY LenProperties DEF Info
<1>2. \A i \in 1..NumFields : MaxLen[i] \in Nat
  BY MaxLenAssumption DEF NumFields
<1>3. \A i \in 1..NumFields : Len(info.fields[i]) % (MaxLen[i] + 1) = Len(info.fields[i])
  <2>1. ASSUME NEW i \in 1..NumFields
        PROVE  Len(info.fields[i]) % (MaxLen[i] + 1) = Len(info.fields[i])
    <3>1. Len(info.fields[i]) <= MaxLen[i]
      BY <1>1, <1>2 DEF TooLong
    <3>2. \A a, b \in Nat : a <= b => a % (b + 1) = a
      OBVIOUS
    <3>. QED
      BY <1>1, <1>2, <3>1, <3>2
  <2>. QED
    BY <2>1
<1>4. /\ widths \in Seq(Nat) /\ Len(widths) = NumFields
      /\ \A i \in 1..NumFields : widths[i] = Len(info.fields[i])
  BY <1>1, <1>3, Sizes
<1>5. <<Version>> \in Seq(Nat) /\ Len(<<Version>>) = 1 /\ <<Version>>[1] = Version
  BY DEF Version
<1>6. length \in Seq(Nat) /\ Len(length) = 1 /\ length[1] = info.fileLength
  BY DEF Info
<1>7. EncodeMediaID(info) = id
  BY DEF EncodeMediaID, Header
<1>. HIDE DEF widths, length
<1>8. /\ start \in Seq(Nat) /\ Len(start) = NumFields + 1 /\ start[1] = Version
      /\ \A k \in 1..NumFields : start[k + 1] = Len(info.fields[k])
  <2>1. /\ start \in Seq(Nat) /\ Len(start) = 1 + NumFields
        /\ \A i \in 1..(1 + NumFields) : start[i] = IF i <= 1 THEN <<Version>>[i] ELSE widths[i - 1]
    BY <1>4, <1>5, ConcatProperties
  <2>. HIDE DEF start
  <2>2. ASSUME NEW k \in 1..NumFields PROVE start[k + 1] = Len(info.fields[k])
    <3>1. k + 1 \in 1..(1 + NumFields) /\ ~(k + 1 <= 1) /\ (k + 1) - 1 = k
      BY Sizes
    <3>. QED
      BY <1>4, <2>1, <3>1
  <2>. QED
    BY <1>5, <2>1, <2>2, Sizes
<1>. HIDE DEF start
<1>9. /\ header \in Seq(Nat) /\ Len(header) = HeaderLen /\ header[HeaderLen] = info.fileLength
      /\ \A i \in 1..(NumFields + 1) : header[i] = start[i]
  <2>1. /\ header \in Seq(Nat) /\ Len(header) = (NumFields + 1) + 1
        /\ \A i \in 1..((NumFields + 1) + 1) : header[i] =
             IF i <= NumFields + 1 THEN start[i] ELSE length[i - (NumFields + 1)]
    <3>1. /\ header \in Seq(Nat) /\ Len(header) = Len(start) + Len(length)
          /\ \A i \in 1..(Len(start) + Len(length)) : header[i] =
               IF i <= Len(start) THEN start[i] ELSE length[i - Len(start)]
      BY <1>6, <1>8, ConcatProperties
    <3>. HIDE DEF header
    <3>2. Len(start) = NumFields + 1 /\ Len(length) = 1
      BY <1>6, <1>8
    <3>. QED
      BY <3>1, <3>2
  <2>. HIDE DEF header
  <2>2. HeaderLen \in 1..((NumFields + 1) + 1) /\ ~(HeaderLen <= NumFields + 1)
        /\ HeaderLen - (NumFields + 1) = 1 /\ (NumFields + 1) + 1 = HeaderLen
    BY Sizes
  <2>3. header[HeaderLen] = info.fileLength
    BY <1>6, <2>1, <2>2
  <2>4. \A i \in 1..(NumFields + 1) : header[i] = start[i]
    BY <2>1, Sizes
  <2>. QED
    BY <2>1, <2>2, <2>3, <2>4
<1>. HIDE DEF header
<1>10. /\ id \in Seq(Nat) /\ Len(id) = HeaderLen + Len(flat)
       /\ \A i \in 1..(HeaderLen + Len(flat)) : id[i] =
            IF i <= HeaderLen THEN header[i] ELSE flat[i - HeaderLen]
  BY <1>9, ConcatProperties
<1>. HIDE DEF id
<1>11. Len(flat) \in Nat
  BY LenProperties
<1>12. \A i \in 1..HeaderLen : id[i] = header[i]
  BY <1>10, <1>11, Sizes
<1>13. id[1] = Version /\ id[HeaderLen] = info.fileLength
  <2>1. 1 \in 1..HeaderLen /\ HeaderLen \in 1..HeaderLen /\ 1 \in 1..(NumFields + 1)
    BY Sizes
  <2>. QED
    BY <1>8, <1>9, <1>12, <2>1
<1>14. ASSUME NEW k \in 1..NumFields PROVE id[k + 1] = Len(info.fields[k])
  <2>1. k + 1 \in 1..(NumFields + 1) /\ k + 1 \in 1..HeaderLen
    BY Sizes
  <2>. QED
    BY <1>8, <1>9, <1>12, <2>1
<1>15. ASSUME NEW p \in 1..Len(flat) PROVE id[HeaderLen + p] = flat[p]
  <2>1. HeaderLen + p \in 1..(HeaderLen + Len(flat)) /\ ~(HeaderLen + p <= HeaderLen)
        /\ (HeaderLen + p) - HeaderLen = p
    BY <1>11, Sizes, Offsets
  <2>. QED
    BY <1>10, <2>1
<1>. QED
  BY <1>7, <1>10, <1>13, <1>14, <1>15

\* An ID decodes to what it was made from, and one that has lost its end, or
\* that could not be made, to nothing (media_id.go: EncodeMediaID,
\* DecodeMediaID).
THEOREM MediaIdRoundTrip ==
    ASSUME NEW info \in Info, NEW n \in 0..Len(EncodeMediaID(info))
    PROVE  DecodeMediaID(SubSeq(EncodeMediaID(info), 1, n)) =
             IF ~TooLong(info) /\ n = Len(EncodeMediaID(info)) THEN info ELSE NoInfo
<1>. DEFINE id == EncodeMediaID(info)
            read == SubSeq(id, 1, n)
<1>1. CASE TooLong(info)
  <2>1. id = <<>> /\ n = 0
    BY <1>1 DEF EncodeMediaID, NoId
  <2>2. Len(read) = 0
    BY <2>1
  <2>. HIDE DEF read
  <2>. QED
    BY <1>1, <2>2, Sizes DEF DecodeMediaID, read, id
<1>2. CASE ~TooLong(info)
  <2>. DEFINE fields == info.fields
  <2>1. fields \in [1..NumFields -> Seq(Nat)] /\ info.fileLength \in Nat
        /\ info = [fields |-> fields, fileLength |-> info.fileLength]
    BY DEF Info
  <2>2. Len(fields) = NumFields
    BY <2>1, Sizes
  <2>3. PICK flatten : IsFlatten(flatten, fields, NumFields) /\ FlattenSeq(fields) = flatten[NumFields]
    BY <2>2, FlattenIs, Sizes
  <2>4. PICK upTo : IsUpTo(upTo, read, NumFields) /\ \A i : Before(read, i) = upTo[i - 1]
    BY BeforeIs
  <2>5. \A f : f = FlattenSeq(fields) /\ f \in Seq(Nat) =>
          /\ id \in Seq(Nat) /\ Len(id) = HeaderLen + Len(f)
          /\ id[1] = Version /\ id[HeaderLen] = info.fileLength
          /\ \A k \in 1..NumFields : id[k + 1] = Len(fields[k])
          /\ \A p \in 1..Len(f) : id[HeaderLen + p] = f[p]
    BY <1>2, IdParts
  <2>6. FlattenSeq(fields) \in Seq(Nat)
    <3>1. PICK up : IsUpTo(up, [k \in 1..(NumFields + 1) |-> Len(fields[k - 1])], NumFields)
      BY UpToExists, Sizes
    <3>2. \A k \in 1..NumFields :
            [j \in 1..(NumFields + 1) |-> Len(fields[j - 1])][k + 1] = Len(fields[k])
      <4>1. ASSUME NEW k \in 1..NumFields
            PROVE  [j \in 1..(NumFields + 1) |-> Len(fields[j - 1])][k + 1] = Len(fields[k])
        <5>1. k + 1 \in 1..(NumFields + 1) /\ (k + 1) - 1 = k
          BY Sizes
        <5>. QED
          BY <5>1
      <4>. QED
        BY <4>1
    <3>3. Laid(fields, flatten, up, NumFields)
      BY <2>1, <2>3, <3>1, <3>2, AllLaid
    <3>. QED
      BY <2>3, <3>3, Sizes DEF Laid
  <2>. DEFINE flat == FlattenSeq(fields)
  <2>. HIDE DEF fields, flat, id
  <2>7. /\ id \in Seq(Nat) /\ Len(id) = HeaderLen + Len(flat) /\ Len(flat) \in Nat
        /\ id[1] = Version /\ id[HeaderLen] = info.fileLength
        /\ \A k \in 1..NumFields : id[k + 1] = Len(fields[k])
        /\ \A p \in 1..Len(flat) : id[HeaderLen + p] = flat[p]
    BY <2>5, <2>6, LenProperties DEF flat
  <2>8. /\ n \in Nat /\ n <= Len(id) /\ Len(id) \in Nat
        /\ read \in Seq(Nat) /\ Len(read) = n /\ \A i \in 1..n : read[i] = id[i]
    <3>1. n \in 0..Len(id) /\ Len(id) \in Nat
      BY <2>7, LenProperties DEF id
    <3>2. \A i \in 1..n : id[i] \in Nat
      BY <2>7, <3>1, LenProperties
    <3>. QED
      BY <3>1, <3>2, SubSeqProperties
  <2>. HIDE DEF read
  <2>9. DecodeMediaID(read) = IF n = Len(id) THEN info ELSE NoInfo
    <3>1. CASE n < HeaderLen
      <4>1. n # Len(id)
        BY <2>7, <2>8, <3>1, Sizes
      <4>. QED
        BY <2>8, <3>1, <4>1 DEF DecodeMediaID
    <3>2. CASE n >= HeaderLen
      <4>1. \A k \in 1..NumFields : read[k + 1] = Len(fields[k])
        BY <2>7, <2>8, <3>2, Sizes
      <4>2. read[1] = Version /\ read[HeaderLen] = info.fileLength
        BY <2>7, <2>8, <3>2, Sizes
      <4>3. Laid(fields, flatten, upTo, NumFields)
        BY <2>1, <2>3, <2>4, <4>1, AllLaid
      <4>4. upTo[NumFields] = Len(id) /\ Before(read, NumFields + 1) = Len(id)
        <5>1. Before(read, NumFields + 1) = upTo[(NumFields + 1) - 1] /\ (NumFields + 1) - 1 = NumFields
          BY <2>4, Sizes
        <5>2. Len(flat) = upTo[NumFields] - HeaderLen /\ upTo[NumFields] \in Nat
          BY <2>3, <4>3, Sizes DEF Laid, flat
        <5>. DEFINE end == upTo[NumFields]  size == Len(flat)  whole == Len(id)
        <5>3. /\ size = end - HeaderLen /\ end \in Nat /\ HeaderLen \in Nat
              /\ whole = HeaderLen + size
          BY <2>7, <5>2, Sizes
        <5>4. Before(read, NumFields + 1) = end
          BY <5>1
        <5>. HIDE DEF end, size, whole
        <5>5. end = whole
          BY <5>3
        <5>. QED
          BY <5>4, <5>5 DEF end, whole
      <4>5. CASE n < Len(id)
        BY <2>8, <4>4, <4>5 DEF DecodeMediaID
      <4>6. CASE n = Len(id)
        <5>1. ASSUME NEW i \in 1..NumFields
              PROVE  SubSeq(read, Before(read, i) + 1, Before(read, i + 1)) = fields[i]
          <6>. DEFINE from == upTo[i - 1]  to == upTo[i]  field == fields[i]
          <6>1. /\ from \in Nat /\ to \in Nat /\ HeaderLen <= from
                /\ to = from + Len(field) /\ to <= Len(id)
                /\ \A p \in 1..Len(field) : flat[from - HeaderLen + p] = field[p]
            BY <2>3, <4>3, <4>4, Sizes DEF Laid, flat
          <6>2. Before(read, i) = from /\ Before(read, i + 1) = to
            BY <2>4, (i + 1) - 1 = i
          <6>3. field \in Seq(Nat) /\ Len(field) \in Nat
            BY <2>1, LenProperties
          <6>. HIDE DEF from, to, field
          <6>4. ASSUME NEW p \in 1..Len(field) PROVE read[from + p] = field[p]
            <7>1. from - HeaderLen + p \in 1..Len(flat)
                  /\ HeaderLen + (from - HeaderLen + p) = from + p
                  /\ from + p \in 1..n
              BY <2>7, <2>8, <4>6, <6>1, <6>3, Sizes
            <7>2. id[HeaderLen + (from - HeaderLen + p)] = flat[from - HeaderLen + p]
              BY <2>7, <7>1
            <7>. QED
              BY <2>8, <6>1, <7>1, <7>2
          <6>. DEFINE cut == SubSeq(read, from + 1, to)
          <6>5. \A j \in (from + 1)..to : read[j] \in Nat
            BY <2>8, <4>6, <6>1, LenProperties
          <6>6. /\ cut \in Seq(Nat) /\ Len(cut) = IF from + 1 <= to THEN to - (from + 1) + 1 ELSE 0
                /\ \A p \in 1..(to - (from + 1) + 1) : cut[p] = read[from + 1 + p - 1]
            BY <6>1, <6>5, SubSeqProperties
          <6>. HIDE DEF cut
          <6>7. Len(cut) = Len(field) /\ to - (from + 1) + 1 = Len(field)
            BY <6>1, <6>3, <6>6
          <6>8. ASSUME NEW p \in 1..Len(field) PROVE cut[p] = field[p]
            <7>1. from + 1 + p - 1 = from + p
              BY <6>1, <6>3
            <7>. QED
              BY <6>4, <6>6, <6>7, <7>1
          <6>9. cut = field
            BY <6>3, <6>6, <6>7, <6>8, SeqEqual
          <6>. QED
            BY <6>2, <6>9 DEF cut, field
        <5>2. [i \in 1..NumFields |-> SubSeq(read, Before(read, i) + 1, Before(read, i + 1))] = fields
          BY <2>1, <5>1
        <5>3. Head(read) = Version
          BY <2>8, <3>2, <4>2, Sizes
        <5>4. ~(Len(read) < HeaderLen) /\ ~(Len(read) < Before(read, NumFields + 1))
          <6>1. Len(read) = n /\ n \in Nat /\ Before(read, NumFields + 1) = n
            BY <2>8, <4>4, <4>6
          <6>. QED
            BY <3>2, <6>1, Sizes
        <5>5. DecodeMediaID(read) = [fields |-> fields, fileLength |-> read[HeaderLen]]
          BY <5>2, <5>3, <5>4 DEF DecodeMediaID
        <5>. QED
          BY <2>1, <4>2, <4>6, <5>5
      <4>. QED
        BY <2>8, <4>5, <4>6
    <3>. QED
      BY <2>8, <3>1, <3>2, Sizes
  <2>. QED
    BY <1>2, <2>9 DEF read, id
<1>. QED
  BY <1>1, <1>2

-----------------------------------------------------------------------------
(* The requests and their slots. *)

Places == {"idle", "select", "wait", "download", "spill", "stream", "error"}
Busy   == At("download") \cup At("spill")

\* Only what the queue and the slots depend on.
TypeInv ==
    /\ cap \in Nat /\ slots \in Nat
    /\ queue \in Seq(Requests)
    /\ DOMAIN request = Requests
    /\ \A r \in Requests : "at" \in DOMAIN request[r] /\ request[r].at \in Places

\* The senders of the channel are the requests that wait, each of them once,
\* and there are some only while the channel is full.
Queued ==
    /\ \A i, j \in DOMAIN queue : queue[i] = queue[j] => i = j
    /\ \A i \in DOMAIN queue : request[queue[i]].at = "wait"
    /\ \A r \in Requests : request[r].at = "wait" => \E i \in DOMAIN queue : queue[i] = r
    /\ queue # <<>> => cap > 0 /\ slots = cap

\* The channel holds an item for each download.
Counted ==
    /\ slots <= cap
    /\ cap > 0 => slots = Cardinality(Busy)

MediaInv == TypeInv /\ Queued /\ Counted

-----------------------------------------------------------------------------
(* Sets of downloads. *)

LEMMA BusyFinite == IsFiniteSet(Busy) /\ Cardinality(Busy) \in Nat
<1>1. Busy \in SUBSET Requests
  BY DEF Busy, At
<1>. QED
  BY <1>1, MediaAssumption, FS_Subset, FS_CardinalityType

LEMMA Grows ==
    ASSUME NEW r \in Requests, r \notin Busy
    PROVE  Cardinality(Busy \cup {r}) = Cardinality(Busy) + 1
BY BusyFinite, FS_AddElement

LEMMA Shrinks ==
    ASSUME NEW r \in Requests, r \in Busy
    PROVE  /\ Cardinality(Busy \ {r}) = Cardinality(Busy) - 1
           /\ Cardinality(Busy) > 0
<1>1. Cardinality(Busy \ {r}) = Cardinality(Busy) - 1
  BY BusyFinite, FS_RemoveElement
<1>2. IsFiniteSet(Busy \ {r}) /\ Cardinality(Busy \ {r}) \in Nat
  BY BusyFinite, FS_RemoveElement, FS_CardinalityType
<1>. QED
  BY <1>1, <1>2, BusyFinite

LEMMA Swaps ==
    ASSUME NEW r \in Requests, NEW q \in Requests, r \in Busy, q \notin Busy
    PROVE  Cardinality((Busy \ {r}) \cup {q}) = Cardinality(Busy)
<1>1. IsFiniteSet(Busy \ {r}) /\ Cardinality(Busy \ {r}) = Cardinality(Busy) - 1
  BY BusyFinite, FS_RemoveElement
<1>2. Cardinality((Busy \ {r}) \cup {q}) = Cardinality(Busy \ {r}) + 1
  BY <1>1, FS_AddElement
<1>. QED
  BY <1>1, <1>2, BusyFinite

-----------------------------------------------------------------------------
(* The queue. *)

\* Where the elements of a queue are once one of them has left.
LEMMA WithoutOne ==
    ASSUME NEW S, NEW q \in Seq(S), NEW i \in DOMAIN q
    PROVE  LET p == RemoveAt(q, i)
           IN  /\ p \in Seq(S) /\ Len(p) = Len(q) - 1
               /\ \A j \in 1..Len(p) : p[j] = IF j < i THEN q[j] ELSE q[j + 1]
<1>. DEFINE left == SubSeq(q, 1, i - 1)
            right == SubSeq(q, i + 1, Len(q))
<1>1. i \in 1..Len(q)
  BY LenProperties
<1>2. left \in Seq(S) /\ Len(left) = i - 1 /\ \A j \in 1..(i - 1) : left[j] = q[j]
  BY <1>1, SubSeqProperties
<1>3. /\ right \in Seq(S) /\ Len(right) = Len(q) - i
      /\ \A j \in 1..(Len(q) - i) : right[j] = q[i + j]
  BY <1>1, SubSeqProperties
<1>4. RemoveAt(q, i) = left \o right
  BY DEF RemoveAt
<1>. HIDE DEF left, right
<1>5. DOMAIN q = 1..Len(q) /\ Len(q) \in Nat /\ i \in Int
  BY <1>1, LenProperties
<1>6. /\ left \o right \in Seq(S) /\ Len(left \o right) = Len(left) + Len(right)
      /\ \A j \in 1..(Len(left) + Len(right)) : (left \o right)[j] =
           IF j <= Len(left) THEN left[j] ELSE right[j - Len(left)]
  BY <1>2, <1>3, ConcatProperties
<1>7. Len(left \o right) = Len(q) - 1
  BY <1>1, <1>2, <1>3, <1>5, <1>6
<1>8. ASSUME NEW j \in 1..(Len(q) - 1)
      PROVE  (left \o right)[j] = IF j < i THEN q[j] ELSE q[j + 1]
  <2>1. CASE j < i
    BY <1>1, <1>2, <1>3, <1>5, <1>6, <2>1
  <2>2. CASE j >= i
    <3>1. j - Len(left) \in 1..(Len(q) - i) /\ i + (j - Len(left)) = j + 1
      BY <1>1, <1>2, <1>5, <2>2
    <3>2. (left \o right)[j] = right[j - Len(left)]
      BY <1>1, <1>2, <1>3, <1>5, <1>6, <2>2
    <3>3. right[j - Len(left)] = q[i + (j - Len(left))]
      BY <1>3, <3>1
    <3>4. (left \o right)[j] = q[j + 1]
      BY <3>1, <3>2, <3>3
    <3>. QED
      BY <1>5, <2>2, <3>4
  <2>3. j < i \/ j >= i
    BY <1>5
  <2>. QED
    BY <2>1, <2>2, <2>3
<1>. QED
  BY <1>4, <1>6, <1>7, <1>8

LEMMA Remaining ==
    ASSUME TypeInv, Queued, NEW i \in DOMAIN queue, NEW p, p = RemoveAt(queue, i)
    PROVE  /\ p \in Seq(Requests)
           /\ \A j, k \in DOMAIN p : p[j] = p[k] => j = k
           /\ \A j \in DOMAIN p : p[j] # queue[i] /\ \E k \in DOMAIN queue : p[j] = queue[k]
           /\ \A k \in DOMAIN queue : k # i => \E j \in DOMAIN p : p[j] = queue[k]
           /\ p # <<>> => queue # <<>>
<1>1. /\ p \in Seq(Requests) /\ Len(p) = Len(queue) - 1
      /\ \A j \in 1..Len(p) : p[j] = IF j < i THEN queue[j] ELSE queue[j + 1]
  BY WithoutOne DEF TypeInv
<1>2. DOMAIN queue = 1..Len(queue) /\ Len(queue) \in Nat /\ DOMAIN p = 1..Len(p) /\ Len(p) \in Nat
  BY <1>1, LenProperties DEF TypeInv
<1>. DEFINE Was(j) == IF j < i THEN j ELSE j + 1
<1>3. \A j \in DOMAIN p : Was(j) \in DOMAIN queue /\ p[j] = queue[Was(j)]
  BY <1>1, <1>2
<1>4. \A j, k \in DOMAIN p : Was(j) = Was(k) => j = k
  BY <1>2
<1>5. \A j, k \in DOMAIN p : p[j] = p[k] => j = k
  <2>. HIDE DEF Was
  <2>. QED
    BY <1>3, <1>4 DEF Queued
<1>6. \A j \in DOMAIN p : p[j] # queue[i] /\ \E k \in DOMAIN queue : p[j] = queue[k]
  BY <1>1, <1>2 DEF Queued
<1>7. ASSUME NEW k \in DOMAIN queue, k # i PROVE \E j \in DOMAIN p : p[j] = queue[k]
  <2>1. CASE k < i
    BY <1>1, <1>2, <2>1
  <2>2. CASE k > i
    <3>1. k - 1 \in DOMAIN p /\ ~(k - 1 < i) /\ p[k - 1] = queue[(k - 1) + 1]
      BY <1>1, <1>2, <2>2
    <3>. QED
      BY <1>2, <3>1
  <2>. QED
    BY <1>2, <1>7, <2>1, <2>2
<1>. QED
  BY <1>1, <1>2, <1>5, <1>6, <1>7

\* The same for the first.
LEMMA AfterFirst ==
    ASSUME TypeInv, Queued, queue # <<>>
    PROVE  /\ Head(queue) \in Requests /\ request[Head(queue)].at = "wait"
           /\ Tail(queue) \in Seq(Requests)
           /\ \A j, k \in DOMAIN Tail(queue) : Tail(queue)[j] = Tail(queue)[k] => j = k
           /\ \A j \in DOMAIN Tail(queue) :
                Tail(queue)[j] # Head(queue) /\ \E k \in DOMAIN queue : Tail(queue)[j] = queue[k]
           /\ \A k \in DOMAIN queue : queue[k] # Head(queue) =>
                \E j \in DOMAIN Tail(queue) : Tail(queue)[j] = queue[k]
<1>. DEFINE p == Tail(queue)
<1>1. /\ queue \in Seq(Requests) /\ Len(queue) \in Nat /\ Len(queue) > 0
      /\ DOMAIN queue = 1..Len(queue)
  BY LenProperties, EmptySeq DEF TypeInv
<1>2. Head(queue) = queue[1] /\ 1 \in DOMAIN queue
  BY <1>1
<1>3. /\ p \in Seq(Requests) /\ DOMAIN p = 1..(Len(queue) - 1)
      /\ \A j \in DOMAIN p : p[j] = queue[j + 1] /\ j + 1 \in DOMAIN queue
  BY <1>1
<1>. HIDE DEF p
<1>4. \A j, k \in DOMAIN p : p[j] = p[k] => j = k
  BY <1>1, <1>3 DEF Queued
<1>5. \A j \in DOMAIN p : p[j] # Head(queue) /\ \E k \in DOMAIN queue : p[j] = queue[k]
  BY <1>1, <1>2, <1>3 DEF Queued
<1>6. ASSUME NEW k \in DOMAIN queue, queue[k] # Head(queue)
      PROVE  \E j \in DOMAIN p : p[j] = queue[k]
  <2>1. k - 1 \in DOMAIN p /\ p[k - 1] = queue[(k - 1) + 1]
    BY <1>1, <1>2, <1>3, <1>6
  <2>. QED
    BY <1>1, <2>1
<1>7. Head(queue) \in Requests /\ request[Head(queue)].at = "wait"
  BY <1>1, <1>2 DEF Queued
<1>. QED
  BY <1>3, <1>4, <1>5, <1>6, <1>7 DEF p

-----------------------------------------------------------------------------
(* Steps.  The limiter's variables change like the queue and the set of    *)
(* downloads.                                                              *)

Promise == [limiter!Next]_limiter!limiterVars

LEMMA WaitingIs ==
    ASSUME MediaInv
    PROVE  /\ limiter!Waiting = At("wait")
           /\ limiter!Full <=> cap > 0 /\ slots = cap
<1>1. limiter!Waiting = At("wait")
  <2>1. \A i \in DOMAIN queue : queue[i] \in Requests
    BY DEF MediaInv, TypeInv
  <2>. QED
    BY <2>1 DEF limiter!Waiting, At, MediaInv, Queued
<1>2. limiter!Full <=> cap # 0 /\ Cardinality(Busy) >= cap
  BY DEF limiter!Full, Busy, limiter!Cardinality, Cardinality, limiter!IsFiniteSet, IsFiniteSet
<1>3. cap \in Nat /\ slots \in Nat /\ slots <= cap /\ (cap > 0 => slots = Cardinality(Busy))
  BY DEF MediaInv, Counted, TypeInv
<1>. QED
  BY <1>1, <1>2, <1>3

\* A step that leaves the queue and the downloads alone.
LEMMA StepAside ==
    ASSUME MediaInv, UNCHANGED <<cap, slots, queue>>,
           DOMAIN request' = Requests,
           \A r \in Requests : "at" \in DOMAIN request'[r] /\ request'[r].at \in Places,
           At("wait")' = At("wait"), Busy' = Busy
    PROVE  MediaInv' /\ Promise
<1>1. TypeInv'
  BY DEF MediaInv, TypeInv
<1>2. Queued'
  <2>1. \A i \in DOMAIN queue : queue[i] \in Requests
    BY DEF MediaInv, TypeInv
  <2>2. \A r \in Requests : request'[r].at = "wait" <=> request[r].at = "wait"
    BY DEF At
  <2>. QED
    BY <2>1, <2>2 DEF MediaInv, Queued
<1>3. Counted'
  BY DEF MediaInv, Counted
<1>. QED
  BY <1>1, <1>2, <1>3 DEF MediaInv, Promise, limiter!limiterVars, Busy

LEMMA StepReceive ==
    ASSUME MediaInv, NEW r \in Requests, Receive(r) \/ Respond(r) \/ Downloaded(r) \/ HangUp(r)
    PROVE  MediaInv' /\ Promise
<1>1. UNCHANGED <<cap, slots, queue>>
  BY DEF Receive, Respond, Downloaded, HangUp
<1>2. /\ DOMAIN request' = Requests
      /\ \A q \in Requests \ {r} : request'[q] = request[q]
      /\ "at" \in DOMAIN request'[r]
      /\ \/ request'[r].at = request[r].at
         \/ /\ request[r].at \in {"idle", "error", "stream"}
            /\ request'[r].at \in {"idle", "select", "error"}
         \/ request[r].at = "download" /\ request'[r].at = "spill"
  <2>0. DOMAIN request = Requests /\ "at" \in DOMAIN request[r]
    BY DEF MediaInv, TypeInv
  <2>1. CASE Receive(r)
    <3>1. PICK entry : request' = [request EXCEPT ![r] = entry] /\ "at" \in DOMAIN entry
                       /\ entry.at \in {"select", "error"}
      BY <2>1, <2>0 DEF Receive, Failed, Idle
    <3>. QED
      BY <2>0, <2>1, <3>1 DEF Receive
  <2>2. CASE Respond(r)
    BY <2>0, <2>2 DEF Respond, Idle
  <2>3. CASE Downloaded(r)
    <3>1. PICK n \in FileSizes : request' = [request EXCEPT ![r].at = "spill", ![r].size = n]
      BY <2>3 DEF Downloaded
    <3>2. request' = [request EXCEPT ![r] = [[request[r] EXCEPT !.at = "spill"] EXCEPT !.size = n]]
      BY <2>0, <3>1
    <3>. QED
      BY <2>0, <2>3, <3>2 DEF Downloaded
  <2>4. CASE HangUp(r)
    BY <2>0, <2>4 DEF HangUp
  <2>. QED
    BY <2>1, <2>2, <2>3, <2>4
<1>3. \A q \in Requests : "at" \in DOMAIN request'[q] /\ request'[q].at \in Places
  BY <1>2 DEF MediaInv, TypeInv, Places
<1>4. At("wait")' = At("wait") /\ Busy' = Busy
  BY <1>2 DEF At, Busy
<1>. QED
  BY <1>1, <1>2, <1>3, <1>4, StepAside

LEMMA StepEnter ==
    ASSUME MediaInv, NEW r \in Requests, Enter(r)
    PROVE  MediaInv' /\ Promise
<1>1. /\ DOMAIN request' = Requests
      /\ \A q \in Requests \ {r} : request'[q] = request[q]
      /\ "at" \in DOMAIN request'[r] /\ request'[r].at = "download"
      /\ request[r].at = "select"
  BY DEF Enter, MediaInv, TypeInv
<1>2. Busy' = Busy \cup {r} /\ r \notin Busy
  BY <1>1 DEF At, Busy
<1>3. TypeInv'
  BY <1>1 DEF Enter, MediaInv, TypeInv, Places
<1>4. queue = <<>> \/ cap = 0
  BY DEF Enter, MediaInv, TypeInv, Queued
<1>5. queue = <<>>
  BY <1>4 DEF MediaInv, TypeInv, Queued
<1>6. Queued'
  BY <1>1, <1>5 DEF Enter, MediaInv, TypeInv, Queued
<1>7. Counted'
  BY <1>2, Grows DEF Enter, MediaInv, TypeInv, Counted
<1>8. limiter!Enter(r)
  <2>1. r \notin At("download") \cup At("spill") \cup limiter!Waiting
    BY <1>1, WaitingIs DEF At
  <2>2. ~limiter!Full
    BY WaitingIs DEF Enter, MediaInv, TypeInv
  <2>. QED
    BY <1>2, <2>1, <2>2 DEF limiter!Enter, Enter, Busy
<1>. QED
  BY <1>3, <1>6, <1>7, <1>8 DEF MediaInv, Promise, limiter!Next

LEMMA StepBlock ==
    ASSUME MediaInv, NEW r \in Requests, Block(r)
    PROVE  MediaInv' /\ Promise
<1>1. /\ DOMAIN request' = Requests
      /\ \A q \in Requests \ {r} : request'[q] = request[q]
      /\ "at" \in DOMAIN request'[r] /\ request'[r].at = "wait"
      /\ request[r].at = "select"
  BY DEF Block, MediaInv, TypeInv
<1>2. Busy' = Busy /\ r \notin Busy /\ UNCHANGED <<cap, slots>> /\ cap > 0 /\ slots = cap
  BY <1>1 DEF At, Busy, Block
<1>3. /\ queue' \in Seq(Requests) /\ Len(queue) \in Nat
      /\ DOMAIN queue = 1..Len(queue) /\ DOMAIN queue' = 1..(Len(queue) + 1)
      /\ queue'[Len(queue) + 1] = r
      /\ \A i \in DOMAIN queue : queue'[i] = queue[i] /\ queue[i] \in Requests \ {r}
  <2>1. \A i \in DOMAIN queue : queue[i] \in Requests \ {r}
    BY <1>1 DEF MediaInv, TypeInv, Queued
  <2>. QED
    BY <2>1, AppendProperties, LenProperties DEF Block, MediaInv, TypeInv
<1>4. TypeInv'
  BY <1>1, <1>2, <1>3 DEF MediaInv, TypeInv, Places
<1>5. Queued'
  <2>1. \A i, j \in DOMAIN queue' : queue'[i] = queue'[j] => i = j
    BY <1>3 DEF MediaInv, Queued
  <2>2. \A i \in DOMAIN queue' : request'[queue'[i]].at = "wait"
    BY <1>1, <1>3 DEF MediaInv, Queued
  <2>3. \A q \in Requests : request'[q].at = "wait" => \E i \in DOMAIN queue' : queue'[i] = q
    BY <1>1, <1>3 DEF MediaInv, Queued
  <2>. QED
    BY <1>2, <2>1, <2>2, <2>3 DEF Queued, MediaInv, TypeInv
<1>6. Counted'
  BY <1>2 DEF MediaInv, Counted
<1>7. limiter!Wait(r)
  <2>1. r \notin At("download") \cup At("spill") \cup limiter!Waiting
    BY <1>1, WaitingIs DEF At
  <2>2. limiter!Full
    BY <1>2, WaitingIs
  <2>. QED
    BY <1>2, <2>1, <2>2 DEF limiter!Wait, Block, Busy
<1>. QED
  BY <1>4, <1>5, <1>6, <1>7 DEF MediaInv, Promise, limiter!Next

LEMMA StepCancelled ==
    ASSUME MediaInv, NEW r \in Requests, Cancelled(r)
    PROVE  MediaInv' /\ Promise
<1>1. /\ DOMAIN request' = Requests
      /\ \A q \in Requests \ {r} : request'[q] = request[q]
      /\ "at" \in DOMAIN request'[r] /\ request'[r].at = "error"
      /\ request[r].at \in {"select", "wait"} /\ UNCHANGED <<cap, slots>>
  BY DEF Cancelled, Failed, Idle, MediaInv, TypeInv
<1>2. Busy' = Busy /\ \A q \in Requests : "at" \in DOMAIN request'[q] /\ request'[q].at \in Places
  BY <1>1 DEF At, Busy, MediaInv, TypeInv, Places
<1>3. CASE request[r].at = "select" /\ queue' = queue
  <2>1. At("wait")' = At("wait")
    BY <1>1, <1>3 DEF At
  <2>. QED
    BY <1>1, <1>2, <1>3, <2>1, StepAside
<1>4. ASSUME request[r].at = "wait", NEW i \in DOMAIN queue, queue[i] = r, queue' = RemoveAt(queue, i)
      PROVE  MediaInv' /\ Promise
  <2>1. /\ queue' \in Seq(Requests)
        /\ \A j, k \in DOMAIN queue' : queue'[j] = queue'[k] => j = k
        /\ \A j \in DOMAIN queue' : queue'[j] # r /\ \E k \in DOMAIN queue : queue'[j] = queue[k]
        /\ \A k \in DOMAIN queue : k # i => \E j \in DOMAIN queue' : queue'[j] = queue[k]
        /\ queue' # <<>> => queue # <<>>
    <3>1. \A p : p = RemoveAt(queue, i) =>
            /\ p \in Seq(Requests)
            /\ \A j, k \in DOMAIN p : p[j] = p[k] => j = k
            /\ \A j \in DOMAIN p : p[j] # queue[i] /\ \E k \in DOMAIN queue : p[j] = queue[k]
            /\ \A k \in DOMAIN queue : k # i => \E j \in DOMAIN p : p[j] = queue[k]
            /\ p # <<>> => queue # <<>>
      BY Remaining DEF MediaInv
    <3>. QED
      BY <1>4, <3>1
  <2>2. TypeInv'
    BY <1>1, <1>2, <2>1 DEF MediaInv, TypeInv
  <2>3. \A k \in DOMAIN queue : queue[k] \in Requests
    BY DEF MediaInv, TypeInv
  <2>4. \A j \in DOMAIN queue' : request'[queue'[j]].at = "wait"
    BY <1>1, <2>1, <2>3 DEF MediaInv, Queued
  <2>5. ASSUME NEW q \in Requests, request'[q].at = "wait" PROVE \E j \in DOMAIN queue' : queue'[j] = q
    <3>1. q # r /\ request[q].at = "wait"
      BY <1>1, <2>5
    <3>2. PICK k \in DOMAIN queue : queue[k] = q
      BY <3>1 DEF MediaInv, Queued
    <3>. QED
      BY <1>4, <2>1, <3>1, <3>2
  <2>6. Queued'
    BY <1>1, <2>1, <2>4, <2>5 DEF MediaInv, Queued
  <2>7. Counted'
    BY <1>1, <1>2 DEF MediaInv, Counted
  <2>8. limiter!GiveUp(r)
    BY <1>1, <1>2, <1>4 DEF limiter!GiveUp, RemoveAt, Busy
  <2>. QED
    BY <2>2, <2>6, <2>7, <2>8 DEF MediaInv, Promise, limiter!Next
<1>. QED
  BY <1>3, <1>4 DEF Cancelled

\* Whoever leaves hands its item to the first that waits.
LEMMA StepRelease ==
    ASSUME MediaInv, NEW r \in Requests, request[r].at \in {"download", "spill"},
           NEW after, DOMAIN after = Requests,
           \A q \in Requests \ {r} : after[q] = request[q],
           "at" \in DOMAIN after[r], after[r].at \in {"error", "stream"},
           Release(after)
    PROVE  MediaInv' /\ Promise
<1>1. r \in Busy
  BY DEF Busy, At
<1>2. CASE cap > 0 /\ queue # <<>>
  <2>. DEFINE first == Head(queue)
  <2>1. /\ first \in Requests /\ request[first].at = "wait"
        /\ queue' \in Seq(Requests)
        /\ \A j, k \in DOMAIN queue' : queue'[j] = queue'[k] => j = k
        /\ \A j \in DOMAIN queue' :
             queue'[j] # first /\ \E k \in DOMAIN queue : queue'[j] = queue[k]
        /\ \A k \in DOMAIN queue : queue[k] # first =>
             \E j \in DOMAIN queue' : queue'[j] = queue[k]
    <3>1. queue' = Tail(queue)
      BY <1>2 DEF Release
    <3>. QED
      BY <1>2, <3>1, AfterFirst DEF MediaInv
  <2>2. /\ request' = [after EXCEPT ![first].at = "download"]
        /\ UNCHANGED <<cap, slots>> /\ queue' = Tail(queue)
    BY <1>2 DEF Release
  <2>. HIDE DEF first
  <2>3. first # r
    BY <2>1
  <2>4. /\ DOMAIN request' = Requests
        /\ \A q \in Requests \ {r, first} : request'[q] = request[q]
        /\ "at" \in DOMAIN request'[first] /\ request'[first].at = "download"
        /\ request'[r] = after[r]
    BY <2>1, <2>2, <2>3 DEF MediaInv, TypeInv
  <2>5. Busy' = (Busy \ {r}) \cup {first} /\ first \notin Busy
    BY <2>1, <2>3, <2>4 DEF At, Busy
  <2>6. TypeInv'
    BY <2>1, <2>2, <2>3, <2>4 DEF MediaInv, TypeInv, Places
  <2>7. \A k \in DOMAIN queue : queue[k] \in Requests
    BY DEF MediaInv, TypeInv
  <2>8. \A j \in DOMAIN queue' : request'[queue'[j]].at = "wait"
    BY <2>1, <2>4, <2>7 DEF MediaInv, Queued
  <2>9. ASSUME NEW q \in Requests, request'[q].at = "wait" PROVE \E j \in DOMAIN queue' : queue'[j] = q
    <3>1. q # first /\ request[q].at = "wait"
      BY <2>4, <2>9
    <3>2. PICK k \in DOMAIN queue : queue[k] = q
      BY <3>1 DEF MediaInv, Queued
    <3>. QED
      BY <2>1, <3>1, <3>2
  <2>10. Queued'
    BY <1>2, <2>1, <2>2, <2>8, <2>9 DEF MediaInv, Queued
  <2>11. Counted'
    BY <1>1, <2>1, <2>2, <2>5, Swaps DEF MediaInv, Counted
  <2>12. limiter!Leave(r)
    BY <1>1, <1>2, <2>2, <2>5 DEF limiter!Leave, Busy, first
  <2>. QED
    BY <2>6, <2>10, <2>11, <2>12 DEF MediaInv, Promise, limiter!Next
<1>3. CASE ~(cap > 0 /\ queue # <<>>)
  <2>1. /\ request' = after /\ UNCHANGED <<cap, queue>>
        /\ slots' = IF cap = 0 THEN 0 ELSE slots - 1
        /\ queue = <<>>
    BY <1>3 DEF Release, MediaInv, TypeInv, Queued
  <2>2. Busy' = Busy \ {r}
    BY <2>1 DEF At, Busy
  <2>3. cap > 0 => slots > 0
    BY <1>1, Shrinks DEF MediaInv, Counted
  <2>4. TypeInv'
    BY <2>1, <2>3 DEF MediaInv, TypeInv, Places
  <2>5. Queued'
    BY <2>1 DEF MediaInv, Queued
  <2>6. Counted'
    BY <1>1, <2>1, <2>2, Shrinks DEF MediaInv, TypeInv, Counted
  <2>7. limiter!Leave(r)
    BY <1>1, <2>1, <2>2 DEF limiter!Leave, Busy
  <2>. QED
    BY <2>4, <2>5, <2>6, <2>7 DEF MediaInv, Promise, limiter!Next
<1>. QED
  BY <1>2, <1>3

LEMMA InitMediaInv == Init => MediaInv /\ limiter!Init
<1>. SUFFICES ASSUME Init PROVE MediaInv /\ limiter!Init
  OBVIOUS
<1>1. At("download") = {} /\ At("spill") = {}
  BY DEF Init, At, Idle
<1>2. TypeInv
  BY MediaAssumption DEF Init, TypeInv, Idle, Places
<1>3. Queued
  BY DEF Init, Queued, Idle
<1>4. Counted
  BY <1>1, <1>2, FS_EmptySet DEF Init, Counted, Busy, TypeInv
<1>5. limiter!Init
  BY <1>1, MediaAssumption DEF Init, limiter!Init
<1>. QED
  BY <1>2, <1>3, <1>4, <1>5 DEF MediaInv

LEMMA StepMediaInv == MediaInv /\ [Next]_vars => MediaInv' /\ Promise
<1>. SUFFICES ASSUME MediaInv, [Next]_vars PROVE MediaInv' /\ Promise
  OBVIOUS
<1>1. CASE UNCHANGED vars
  <2>1. At("wait")' = At("wait") /\ Busy' = Busy
    BY <1>1 DEF vars, At, Busy
  <2>. QED
    BY <1>1, <2>1, StepAside DEF vars, MediaInv, TypeInv
<1>2. ASSUME NEW r \in Requests, DownloadFails(r) \/ Spill(r) \/ SpillFails(r)
      PROVE  MediaInv' /\ Promise
  <2>1. DOMAIN request = Requests /\ "at" \in DOMAIN request[r]
    BY DEF MediaInv, TypeInv
  <2>2. PICK after :
          /\ DOMAIN after = Requests /\ \A q \in Requests \ {r} : after[q] = request[q]
          /\ "at" \in DOMAIN after[r] /\ after[r].at \in {"error", "stream"}
          /\ Release(after)
    <3>1. ASSUME NEW status
          PROVE  /\ DOMAIN Failed(r, status) = Requests
                 /\ \A q \in Requests \ {r} : Failed(r, status)[q] = request[q]
                 /\ "at" \in DOMAIN Failed(r, status)[r] /\ Failed(r, status)[r].at = "error"
      BY <2>1 DEF Failed, Idle
    <3>. DEFINE streams == [request EXCEPT ![r].at = "stream", ![r].status = 200]
    <3>2. streams = [request EXCEPT ![r] = [[request[r] EXCEPT !.at = "stream"] EXCEPT !.status = 200]]
      BY <2>1
    <3>3. /\ DOMAIN streams = Requests /\ \A q \in Requests \ {r} : streams[q] = request[q]
          /\ "at" \in DOMAIN streams[r] /\ streams[r].at = "stream"
      BY <2>1, <3>2
    <3>4. CASE DownloadFails(r)
      <4>1. Release(Failed(r, WrappedStatus))
        BY <3>4 DEF DownloadFails
      <4>. QED
        BY <3>1, <4>1
    <3>5. CASE Spill(r)
      <4>1. CASE OverLimit(request[r].size)
        <5>1. Release(Failed(r, 413))
          BY <3>5, <4>1 DEF Spill
        <5>. QED
          BY <3>1, <5>1
      <4>2. CASE ~OverLimit(request[r].size)
        <5>1. Release(streams)
          BY <3>5, <4>2 DEF Spill
        <5>. HIDE DEF streams
        <5>. QED
          BY <3>3, <5>1
      <4>. QED
        BY <4>1, <4>2
    <3>6. CASE SpillFails(r)
      <4>1. Release(Failed(r, 400))
        BY <3>6 DEF SpillFails
      <4>. QED
        BY <3>1, <4>1
    <3>. QED
      BY <1>2, <3>4, <3>5, <3>6
  <2>3. request[r].at \in {"download", "spill"}
    BY <1>2 DEF DownloadFails, Spill, SpillFails
  <2>. QED
    BY <2>2, <2>3, StepRelease
<1>. QED
  BY <1>1, <1>2, StepReceive, StepEnter, StepBlock, StepCancelled DEF Next, DownloadByID

LEMMA SpecMediaInv == Spec => []MediaInv
BY InitMediaInv, StepMediaInv, PTL DEF Spec

\* The slots are a limiter, with any limit and any number of callers: no
\* step of DownloadByID is anything but a step of the limiter or invisible
\* to it.
THEOREM SpecIsLimiter == Spec => IsLimiter
<1>1. MediaInv /\ [Next]_vars => [limiter!Next]_limiter!limiterVars
  BY StepMediaInv DEF Promise
<1>2. Init => limiter!Init
  BY InitMediaInv
<1>. QED
  BY <1>1, <1>2, SpecMediaInv, PTL DEF Spec, IsLimiter, limiter!Spec

-----------------------------------------------------------------------------
(* What requests work on. *)

Statuses == {0, 200, 400, 413, 499}
Entry == [at: Places, from: Infos \cup {NoInfo}, info: Infos \cup {NoInfo},
          size: FileSizes \cup {0}, status: Statuses]

\* Each request has what its message event had.
Works ==
    /\ request \in [Requests -> Entry]
    /\ \A r \in Requests : request[r].info = request[r].from
    /\ gone \subseteq Requests

LEMMA FailedWorks ==
    ASSUME Works, NEW r \in Requests, NEW status \in Statuses
    PROVE  /\ Failed(r, status) \in [Requests -> Entry]
           /\ \A q \in Requests : Failed(r, status)[q].info = Failed(r, status)[q].from
<1>1. [Idle EXCEPT !.at = "error", !.status = status] \in Entry
  BY DEF Idle, Entry, Places
<1>. QED
  BY <1>1 DEF Works, Failed, Idle

\* One in which some fields changed that say nothing of the message.
LEMMA ChangedWorks ==
    ASSUME Works, NEW r \in Requests, NEW entry \in Entry,
           entry.info = request[r].info, entry.from = request[r].from,
           NEW table, table = [request EXCEPT ![r] = entry]
    PROVE  table \in [Requests -> Entry] /\ \A q \in Requests : table[q].info = table[q].from
BY DEF Works

LEMMA ReleaseWorks ==
    ASSUME MediaInv, Works, NEW after \in [Requests -> Entry],
           \A q \in Requests : after[q].info = after[q].from, Release(after), gone' = gone
    PROVE  Works'
<1>1. CASE cap > 0 /\ queue # <<>>
  <2>1. Head(queue) \in Requests
    BY <1>1, AfterFirst DEF MediaInv
  <2>2. request' = [after EXCEPT ![Head(queue)].at = "download"]
    BY <1>1 DEF Release
  <2>. QED
    BY <2>1, <2>2 DEF Works, Entry, Places
<1>2. CASE ~(cap > 0 /\ queue # <<>>)
  BY <1>2 DEF Release, Works
<1>. QED
  BY <1>1, <1>2

LEMMA InitWorks == Init => Works
BY DEF Init, Works, Idle, Entry, Places, Statuses

LEMMA StepWorks == MediaInv /\ Works /\ [Next]_vars => Works'
<1>. SUFFICES ASSUME MediaInv, Works, [Next]_vars PROVE Works'
  OBVIOUS
<1>1. CASE UNCHANGED vars
  BY <1>1 DEF vars, Works
<1>2. ASSUME NEW r \in Requests, Receive(r) PROVE Works'
  <2>. DEFINE Took(from, n) ==
          LET info == DecodeMediaID(SubSeq(EncodeMediaID(from), 1, n))
          IN IF Refusal(info) = 0
             THEN request' = [request EXCEPT ![r] =
                    [Idle EXCEPT !.at = "select", !.from = from, !.info = info]]
             ELSE request' = Failed(r, Refusal(info))
  <2>0. PICK from \in Infos : \E n \in 0..Len(EncodeMediaID(from)) : Took(from, n)
    BY <1>2 DEF Receive
  <2>1. PICK n \in 0..Len(EncodeMediaID(from)) : Took(from, n)
    BY <2>0
  <2>. DEFINE info == DecodeMediaID(SubSeq(EncodeMediaID(from), 1, n))
  <2>2. from \in Info
    BY MediaAssumption
  <2>3. info \in {from, NoInfo}
    BY <2>2, MediaIdRoundTrip
  <2>4. IF Refusal(info) = 0
        THEN request' = [request EXCEPT ![r] =
               [Idle EXCEPT !.at = "select", !.from = from, !.info = info]]
        ELSE request' = Failed(r, Refusal(info))
    BY <2>1
  <2>. HIDE DEF info
  <2>5. CASE Refusal(info) = 0
    <3>1. info = from
      BY <2>3, <2>5 DEF Refusal
    <3>2. [Idle EXCEPT !.at = "select", !.from = from, !.info = info] \in Entry
      BY <3>1 DEF Idle, Entry, Places, Statuses
    <3>. DEFINE entry == [Idle EXCEPT !.at = "select", !.from = from, !.info = info]
    <3>3. entry.info = entry.from
      BY <3>1 DEF Idle
    <3>4. request' = [request EXCEPT ![r] = entry] /\ gone' = gone
      BY <1>2, <2>4, <2>5 DEF Receive
    <3>5. entry \in Entry
      BY <3>2
    <3>. HIDE DEF entry
    <3>. QED
      BY <3>3, <3>4, <3>5 DEF Works
  <2>6. CASE Refusal(info) # 0
    <3>1. Refusal(info) \in Statuses
      BY DEF Refusal, Statuses
    <3>2. request' = Failed(r, Refusal(info)) /\ gone' = gone
      BY <1>2, <2>4, <2>6 DEF Receive
    <3>3. /\ request' \in [Requests -> Entry]
          /\ \A q \in Requests : request'[q].info = request'[q].from
      BY <3>1, <3>2, FailedWorks
    <3>. QED
      BY <3>2, <3>3 DEF Works
  <2>. QED
    BY <2>5, <2>6
<1>3. ASSUME NEW r \in Requests, Enter(r) \/ Block(r) PROVE Works'
  BY <1>3 DEF Enter, Block, Works, Entry, Places
<1>4. ASSUME NEW r \in Requests, Cancelled(r) PROVE Works'
  <2>1. request' = Failed(r, 499) /\ gone' = gone
    BY <1>4 DEF Cancelled
  <2>. QED
    BY <2>1, FailedWorks DEF Works, Statuses
<1>5. ASSUME NEW r \in Requests, Downloaded(r) PROVE Works'
  <2>1. PICK n \in FileSizes : request' = [request EXCEPT ![r].at = "spill", ![r].size = n]
    BY <1>5 DEF Downloaded
  <2>. DEFINE entry == [[request[r] EXCEPT !.at = "spill"] EXCEPT !.size = n]
  <2>2. request[r] \in Entry
    BY DEF Works
  <2>3. entry \in Entry /\ entry.info = request[r].info /\ entry.from = request[r].from
    BY <2>2 DEF Entry, Places
  <2>4. request' = [request EXCEPT ![r] = entry]
    BY <2>1 DEF Works
  <2>. HIDE DEF entry
  <2>5. /\ request' \in [Requests -> Entry]
        /\ \A q \in Requests : request'[q].info = request'[q].from
    BY <2>3, <2>4, ChangedWorks
  <2>. QED
    BY <1>5, <2>5 DEF Downloaded, Works
<1>6. ASSUME NEW r \in Requests, DownloadFails(r) PROVE Works'
  <2>1. Release(Failed(r, 400)) /\ gone' = gone /\ 400 \in Statuses
    BY <1>6 DEF DownloadFails, WrappedStatus, Statuses
  <2>. QED
    BY <2>1, FailedWorks, ReleaseWorks
<1>7. ASSUME NEW r \in Requests, Spill(r) PROVE Works'
  <2>1. CASE OverLimit(request[r].size)
    BY <1>7, <2>1, FailedWorks, ReleaseWorks DEF Spill, Statuses
  <2>2. CASE ~OverLimit(request[r].size)
    <3>. DEFINE streams == [request EXCEPT ![r].at = "stream", ![r].status = 200]
    <3>1. Release(streams) /\ gone' = gone
      BY <1>7, <2>2 DEF Spill
    <3>. DEFINE entry == [[request[r] EXCEPT !.at = "stream"] EXCEPT !.status = 200]
    <3>2. request[r] \in Entry
      BY DEF Works
    <3>3. entry \in Entry /\ entry.info = request[r].info /\ entry.from = request[r].from
      <4>1. [request[r] EXCEPT !.at = "stream"] \in Entry
        BY <3>2 DEF Entry, Places
      <4>2. 200 \in Statuses
        BY DEF Statuses
      <4>. QED
        BY <3>2, <4>1, <4>2 DEF Entry
    <3>4. streams = [request EXCEPT ![r] = entry]
      BY DEF Works
    <3>. HIDE DEF entry
    <3>5. streams \in [Requests -> Entry] /\ \A q \in Requests : streams[q].info = streams[q].from
      BY <3>3, <3>4, ChangedWorks
    <3>. HIDE DEF streams
    <3>. QED
      BY <3>1, <3>5, ReleaseWorks
  <2>. QED
    BY <2>1, <2>2
<1>8. ASSUME NEW r \in Requests, SpillFails(r) PROVE Works'
  <2>1. Release(Failed(r, 400)) /\ gone' = gone /\ 400 \in Statuses
    BY <1>8 DEF SpillFails, Statuses
  <2>. QED
    BY <2>1, FailedWorks, ReleaseWorks
<1>9. ASSUME NEW r \in Requests, Respond(r) \/ HangUp(r) PROVE Works'
  BY <1>9 DEF Respond, HangUp, Works, Idle, Entry, Places, Statuses
<1>. QED
  BY <1>1, <1>2, <1>3, <1>4, <1>5, <1>6, <1>7, <1>8, <1>9 DEF Next, DownloadByID

LEMMA SpecWorks == Spec => []Works
BY InitWorks, StepWorks, SpecMediaInv, PTL DEF Spec

\* A request works on what its message event was about, whatever end of its
\* ID the caller has lost.
THEOREM SpecWorksOnWhatWasSent == Spec => []WorksOnWhatWasSent
<1>1. Works => WorksOnWhatWasSent
  BY DEF Works, WorksOnWhatWasSent
<1>. QED
  BY <1>1, SpecWorks, PTL

\* The limit of a process does not change.
LEMMA SpecCap == Spec => [](cap \in Caps)
<1>1. Init => cap \in Caps
  BY DEF Init
<1>2. cap \in Caps /\ [Next]_vars => (cap \in Caps)'
  BY DEF Next, vars, Receive, DownloadByID, Enter, Block, Cancelled, Downloaded, DownloadFails,
         Spill, SpillFails, Release, Respond, HangUp
<1>. QED
  BY <1>1, <1>2, PTL DEF Spec

\* A slot is taken exactly for each download in progress, on every way
\* through DownloadByID.
THEOREM SpecSlotPerDownload == Spec => []SlotPerDownload
<1>1. MediaInv /\ Works /\ cap \in Caps => SlotPerDownload
  <2>. SUFFICES ASSUME MediaInv, Works, cap \in Caps PROVE SlotPerDownload
    OBVIOUS
  <2>1. slots \in 0..cap
    BY DEF MediaInv, TypeInv, Counted
  <2>2. \A i \in Infos \cup {NoInfo} : i.fileLength \in Nat
    BY MediaAssumption DEF Info, NoInfo
  <2>3. \A r \in Requests :
          /\ request[r].at \in Places
          /\ request[r].from \in Infos \cup {NoInfo}
          /\ request[r].info.fileLength \in Nat
          /\ request[r].size \in FileSizes \cup {0}
          /\ request[r].status \in Statuses
    BY <2>2 DEF Works, Entry
  <2>4. TypeOK
    BY <2>1, <2>3 DEF TypeOK, MediaInv, TypeInv, Works, Places, Statuses
  <2>. QED
    BY <2>4 DEF SlotPerDownload, MediaInv, Counted, Busy
<1>. QED
  BY <1>1, SpecMediaInv, SpecWorks, SpecCap, PTL
=============================================================================
