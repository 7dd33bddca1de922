-------------------------- MODULE HistorySyncProofs --------------------------
(***************************************************************************)
(* What holds of HistorySync for any histories, scenarios, flushes and     *)
(* chunk size.  Picked and FlattenSeq are defined by recursion; what they  *)
(* return is found by induction over the positions of their argument.      *)
(*                                                                         *)
(*   Typed    the types, and where the event handler and a flush can be    *)
(*   Flagged  the flag stands as long as the event may come again          *)
(*   Chunked  what a flush has published and what is left of its chat      *)
(*   Kept     what has come is in the table, published or with a flush     *)
(***************************************************************************)
EXTENDS HistorySync, SequenceTheorems, WellFoundedInduction, TLAPS

-----------------------------------------------------------------------------
(* Recursive functions over the positions of a sequence. *)

LEMMA SetInduction ==
    ASSUME NEW S \in SUBSET Nat, 0 \in S, \A n \in S : n + 1 \in S
    PROVE  S = Nat
<1>. SUFFICES ASSUME Nat \ S # {} PROVE FALSE
  OBVIOUS
<1>1. PICK m \in Nat \ S : \A n \in Nat \ S : <<n, m>> \notin OpToRel(<, Nat)
  BY NatLessThanWellFounded, WFMin, Nat \ S \subseteq Nat
<1>2. \A n \in Nat \ S : ~(n < m)
  BY <1>1 DEF OpToRel
<1>3. m # 0 /\ m - 1 \in Nat
  OBVIOUS
<1>. QED
  BY <1>2, <1>3, (m - 1) + 1 = m

\* What step by step follows from its predecessor holds up to any length.
LEMMA UpTo ==
    ASSUME NEW N \in Nat, NEW S, 0 \in S,
           \A n \in 1..N : n - 1 \in S => n \in S
    PROVE  0..N \subseteq S
<1>. DEFINE I == {n \in Nat : n <= N => n \in S}
<1>1. 0 \in I
  OBVIOUS
<1>2. ASSUME NEW n \in I PROVE n + 1 \in I
  <2>1. CASE n + 1 <= N
    <3>1. n \in S /\ n + 1 \in 1..N /\ (n + 1) - 1 = n
      BY <2>1
    <3>2. n + 1 \in S
      BY <3>1
    <3>. QED
      BY <3>2
  <2>. QED
    BY <2>1
<1>3. I = Nat
  <2>. HIDE DEF I
  <2>1. I \in SUBSET Nat
    BY DEF I
  <2>. QED
    BY <1>1, <1>2, <2>1, SetInduction
<1>4. ASSUME NEW n \in 0..N PROVE n \in S
  <2>1. n \in I
    BY <1>3
  <2>. QED
    BY <2>1
<1>. QED
  BY <1>4

\* The values of a recursive function, each made from the one before.
Steps(f, N, T, base, step) ==
    /\ f \in [0..N -> T]
    /\ f[0] = base
    /\ \A n \in 1..N : f[n] = step[<<n, f[n - 1]>>]

LEMMA StepsExist ==
    ASSUME NEW T, NEW base \in T, NEW step \in [(Nat \ {0}) \X T -> T], NEW N \in Nat
    PROVE  \E f : Steps(f, N, T, base, step)
<1>. DEFINE S == {n \in Nat : \E f : Steps(f, n, T, base, step)}
<1>1. 0 \in S
  <2>. DEFINE f == [n \in 0..0 |-> base]
  <2>1. Steps(f, 0, T, base, step)
    BY DEF Steps
  <2>. QED
    BY <2>1
<1>2. ASSUME NEW n \in S PROVE n + 1 \in S
  <2>1. PICK f : Steps(f, n, T, base, step)
    OBVIOUS
  <2>2. n \in Nat
    OBVIOUS
  <2>. DEFINE g == [k \in 0..(n + 1) |-> IF k = n + 1 THEN step[<<n + 1, f[n]>>] ELSE f[k]]
  <2>3. f[n] \in T /\ <<n + 1, f[n]>> \in (Nat \ {0}) \X T
    BY <2>1, <2>2 DEF Steps
  <2>4. \A k \in 0..n : k \in 0..(n + 1) /\ k # n + 1 /\ g[k] = f[k] /\ f[k] \in T
    BY <2>1, <2>2 DEF Steps
  <2>5. g[n + 1] = step[<<n + 1, f[n]>>]
    BY <2>2
  <2>6. g \in [0..(n + 1) -> T]
    <3>1. ASSUME NEW k \in 0..(n + 1)
          PROVE  (IF k = n + 1 THEN step[<<n + 1, f[n]>>] ELSE f[k]) \in T
      <4>1. CASE k = n + 1
        BY <2>3, <4>1
      <4>2. CASE k # n + 1
        <5>1. k \in 0..n
          BY <2>2, <4>2
        <5>. QED
          BY <2>4, <4>2, <5>1
      <4>. QED
        BY <4>1, <4>2
    <3>. QED
      BY <3>1
  <2>. HIDE DEF g
  <2>7. ASSUME NEW k \in 1..(n + 1) PROVE g[k] = step[<<k, g[k - 1]>>]
    <3>1. CASE k = n + 1
      <4>1. k - 1 = n /\ n \in 0..n
        BY <2>2, <3>1
      <4>. QED
        BY <2>4, <2>5, <3>1, <4>1
    <3>2. CASE k # n + 1
      <4>1. k \in 1..n /\ k \in 0..n /\ k - 1 \in 0..n
        BY <2>2, <3>2
      <4>. QED
        BY <2>1, <2>4, <4>1 DEF Steps
    <3>. QED
      BY <3>1, <3>2
  <2>8. g[0] = base
    BY <2>1, <2>2, <2>4 DEF Steps
  <2>9. Steps(g, n + 1, T, base, step)
    BY <2>6, <2>7, <2>8 DEF Steps
  <2>. QED
    BY <2>2, <2>9
<1>3. S = Nat
  <2>. HIDE DEF S
  <2>1. S \in SUBSET Nat
    BY DEF S
  <2>. QED
    BY <1>1, <1>2, <2>1, SetInduction
<1>4. N \in S
  BY <1>3
<1>. QED
  BY <1>4

\* Two functions that begin alike and go on alike are alike.
LEMMA StepsAgree ==
    ASSUME NEW N \in Nat, NEW f, NEW g, f[0] = g[0],
           \A n \in 1..N : f[n - 1] = g[n - 1] => f[n] = g[n]
    PROVE  \A n \in 0..N : f[n] = g[n]
<1>. DEFINE S == {n \in 0..N : f[n] = g[n]}
<1>1. 0 \in S
  OBVIOUS
<1>2. ASSUME NEW n \in 1..N, n - 1 \in S PROVE n \in S
  BY <1>2
<1>3. 0..N \subseteq S
  <2>. HIDE DEF S
  <2>. QED
    BY <1>1, <1>2, UpTo
<1>. QED
  BY <1>3

-----------------------------------------------------------------------------
(* Picked and FlattenSeq. *)

\* How Picked comes to its value.
Picks(f, S, seq, positions) ==
    /\ f \in [0..Len(seq) -> Seq(S)]
    /\ f[0] = <<>>
    /\ \A n \in 1..Len(seq) :
         f[n] = IF n \in positions THEN Append(f[n - 1], seq[n]) ELSE f[n - 1]
    /\ Picked(seq, positions) = f[Len(seq)]

LEMMA PickedIs ==
    ASSUME NEW S, NEW seq \in Seq(S), NEW positions
    PROVE  \E f : Picks(f, S, seq, positions)
<1>. DEFINE N == Len(seq)
            Taken(f) == f = [n \in 0..N |->
                               IF n = 0 THEN <<>>
                               ELSE IF n \in positions THEN Append(f[n - 1], seq[n])
                                    ELSE f[n - 1]]
            step == [p \in (Nat \ {0}) \X Seq(S) |->
                       IF p[1] \in positions /\ p[1] \in 1..N
                       THEN Append(p[2], seq[p[1]]) ELSE p[2]]
<1>0. N \in Nat /\ <<>> \in Seq(S) /\ \A n \in 1..N : seq[n] \in S
  OBVIOUS
<1>1. step \in [(Nat \ {0}) \X Seq(S) -> Seq(S)]
  OBVIOUS
<1>2. PICK f : Steps(f, N, Seq(S), <<>>, step)
  <2>. HIDE DEF step
  <2>. QED
    BY <1>0, <1>1, StepsExist
<1>3. f \in [0..N -> Seq(S)] /\ f[0] = <<>>
  BY <1>2 DEF Steps
<1>4. ASSUME NEW n \in 1..N
      PROVE  f[n] = IF n \in positions THEN Append(f[n - 1], seq[n]) ELSE f[n - 1]
  <2>1. n - 1 \in 0..N /\ n \in Nat \ {0}
    BY <1>0
  <2>2. f[n - 1] \in Seq(S)
    BY <1>3, <2>1
  <2>3. f[n] = step[<<n, f[n - 1]>>]
    BY <1>2 DEF Steps
  <2>4. <<n, f[n - 1]>> \in (Nat \ {0}) \X Seq(S)
    BY <2>1, <2>2
  <2>. QED
    BY <2>3, <2>4
<1>5. Taken(f)
  <2>1. f = [n \in 0..N |-> f[n]]
    BY <1>3
  <2>2. ASSUME NEW n \in 0..N
        PROVE  f[n] = IF n = 0 THEN <<>>
                      ELSE IF n \in positions THEN Append(f[n - 1], seq[n]) ELSE f[n - 1]
    <3>1. CASE n = 0
      BY <1>3, <3>1
    <3>2. CASE n # 0
      BY <1>0, <1>4, <3>2
    <3>. QED
      BY <3>1, <3>2
  <2>. QED
    BY <2>1, <2>2
<1>. DEFINE g == CHOOSE g : Taken(g)
<1>6. Taken(g)
  <2>. HIDE DEF Taken
  <2>. QED
    BY <1>5
<1>7. Picked(seq, positions) = g[N]
  BY DEF Picked
<1>8. g[N] = f[N]
  <2>. HIDE DEF g
  <2>1. g[0] = f[0]
    BY <1>0, <1>3, <1>6
  <2>2. ASSUME NEW n \in 1..N, g[n - 1] = f[n - 1] PROVE g[n] = f[n]
    <3>1. n \in 0..N /\ n # 0
      BY <1>0
    <3>2. g[n] = IF n \in positions THEN Append(g[n - 1], seq[n]) ELSE g[n - 1]
      BY <1>6, <3>1
    <3>. QED
      BY <1>4, <2>2, <3>2
  <2>3. \A n \in 0..N : g[n] = f[n]
    <3>. HIDE DEF Taken
    <3>. QED
      BY <1>0, <2>1, <2>2, StepsAgree
  <2>. QED
    BY <1>0, <2>3
<1>9. Picks(f, S, seq, positions)
  <2>. HIDE DEF g, Taken, step
  <2>. QED
    BY <1>3, <1>4, <1>7, <1>8 DEF Picks
<1>. QED
  BY <1>9

\* Where the elements of what was picked stood.
StoodAt(p, at, seq, positions, n) ==
    /\ at \in [DOMAIN p -> {i \in positions : i \in 1..n}]
    /\ \A k \in DOMAIN p : p[k] = seq[at[k]]
    /\ \A k, l \in DOMAIN p : at[k] = at[l] => k = l
    /\ \A i \in 1..n : i \in positions => \E k \in DOMAIN p : at[k] = i

LEMMA AppendStood ==
    ASSUME NEW S, NEW seq \in Seq(S), NEW positions, NEW n \in 1..Len(seq),
           NEW p \in Seq(S), NEW at, StoodAt(p, at, seq, positions, n - 1)
    PROVE  /\ n \in positions => \E b : StoodAt(Append(p, seq[n]), b, seq, positions, n)
           /\ n \notin positions => StoodAt(p, at, seq, positions, n)
<1>0. /\ n \in Nat /\ n - 1 \in Nat /\ n \notin 1..(n - 1)
      /\ 1..n = (1..(n - 1)) \cup {n} /\ Len(p) \in Nat /\ DOMAIN p = 1..Len(p)
      /\ seq[n] \in S
  OBVIOUS
<1>1. ASSUME n \notin positions PROVE StoodAt(p, at, seq, positions, n)
  BY <1>0, <1>1 DEF StoodAt
<1>2. ASSUME n \in positions PROVE \E b : StoodAt(Append(p, seq[n]), b, seq, positions, n)
  <2>. DEFINE q == Append(p, seq[n])
              L == Len(p)
              b == [k \in 1..(L + 1) |-> IF k = L + 1 THEN n ELSE at[k]]
  <2>1. /\ DOMAIN q = 1..(L + 1) /\ q[L + 1] = seq[n]
        /\ \A k \in 1..L : q[k] = p[k]
    BY <1>0
  <2>2. L + 1 \in 1..(L + 1) /\ L + 1 \notin 1..L /\ 1..(L + 1) = (1..L) \cup {L + 1}
    BY <1>0
  <2>3. b[L + 1] = n /\ \A k \in 1..L : b[k] = at[k]
    BY <2>2
  <2>4. b \in [1..(L + 1) -> {i \in positions : i \in 1..n}]
    <3>1. \A k \in 1..L : at[k] \in {i \in positions : i \in 1..n}
      BY <1>0 DEF StoodAt
    <3>2. n \in {i \in positions : i \in 1..n}
      BY <1>0, <1>2
    <3>3. \A k \in 1..(L + 1) : (IF k = L + 1 THEN n ELSE at[k]) \in {i \in positions : i \in 1..n}
      BY <2>2, <3>1, <3>2
    <3>. QED
      BY <3>3
  <2>5. \A k \in 1..L : at[k] # n
    BY <1>0 DEF StoodAt
  <2>. HIDE DEF q, b, L
  <2>6. \A k \in 1..(L + 1) : q[k] = seq[b[k]]
    BY <1>0, <2>1, <2>2, <2>3 DEF StoodAt, L
  <2>7. \A k, l \in 1..(L + 1) : b[k] = b[l] => k = l
    BY <1>0, <2>2, <2>3, <2>5 DEF StoodAt, L
  <2>8. \A i \in 1..n : i \in positions => \E k \in 1..(L + 1) : b[k] = i
    BY <1>0, <2>2, <2>3 DEF StoodAt, L
  <2>9. StoodAt(q, b, seq, positions, n)
    BY <2>1, <2>4, <2>6, <2>7, <2>8 DEF StoodAt
  <2>. QED
    BY <2>9 DEF q
<1>. QED
  BY <1>1, <1>2

LEMMA PickedAt ==
    ASSUME NEW S, NEW seq \in Seq(S), NEW positions
    PROVE  /\ Picked(seq, positions) \in Seq(S)
           /\ \E at : StoodAt(Picked(seq, positions), at, seq, positions, Len(seq))
<1>1. PICK f : Picks(f, S, seq, positions)
  BY PickedIs
<1>. DEFINE I == {n \in 0..Len(seq) : \E at : StoodAt(f[n], at, seq, positions, n)}
<1>0. Len(seq) \in Nat
  OBVIOUS
<1>2. 0 \in I
  <2>1. StoodAt(f[0], <<>>, seq, positions, 0)
    BY <1>1 DEF StoodAt, Picks
  <2>. QED
    BY <1>0, <2>1
<1>3. ASSUME NEW n \in 1..Len(seq), n - 1 \in I PROVE n \in I
  <2>1. PICK at : StoodAt(f[n - 1], at, seq, positions, n - 1)
    BY <1>3
  <2>2. f[n - 1] \in Seq(S)
    BY <1>0, <1>1 DEF Picks
  <2>3. \E b : StoodAt(f[n], b, seq, positions, n)
    <3>1. CASE n \in positions
      BY <1>1, <2>1, <2>2, <3>1, AppendStood DEF Picks
    <3>2. CASE n \notin positions
      BY <1>1, <2>1, <2>2, <3>2, AppendStood DEF Picks
    <3>. QED
      BY <3>1, <3>2
  <2>. QED
    BY <1>0, <2>3
<1>4. 0..Len(seq) \subseteq I
  <2>. HIDE DEF I
  <2>. QED
    BY <1>0, <1>2, <1>3, UpTo
<1>5. Len(seq) \in I
  BY <1>0, <1>4
<1>. QED
  BY <1>0, <1>1, <1>5 DEF Picks

LEMMA PickedElements ==
    ASSUME NEW S, NEW seq \in Seq(S), NEW positions
    PROVE  /\ Picked(seq, positions) \in Seq(S)
           /\ ToSet(Picked(seq, positions)) = {seq[i] : i \in {n \in DOMAIN seq : n \in positions}}
           /\ (\A i, j \in DOMAIN seq : i \in positions /\ j \in positions /\ seq[i] = seq[j] => i = j)
              => IsInjective(Picked(seq, positions))
<1>. DEFINE p == Picked(seq, positions)
            P == {n \in DOMAIN seq : n \in positions}
<1>1. p \in Seq(S)
  BY PickedAt
<1>2. PICK at : StoodAt(p, at, seq, positions, Len(seq))
  BY PickedAt
<1>. HIDE DEF p
<1>3. \A k \in DOMAIN p : at[k] \in P /\ p[k] = seq[at[k]]
  BY <1>2 DEF StoodAt
<1>4. \A i \in P : \E k \in DOMAIN p : at[k] = i
  BY <1>2 DEF StoodAt
<1>5. ToSet(p) = {seq[i] : i \in P}
  BY <1>3, <1>4 DEF ToSet
<1>6. ASSUME \A i, j \in DOMAIN seq : i \in positions /\ j \in positions /\ seq[i] = seq[j] => i = j
      PROVE  IsInjective(p)
  BY <1>2, <1>3, <1>6 DEF IsInjective, StoodAt
<1>. QED
  BY <1>1, <1>5, <1>6 DEF p

\* How FlattenSeq comes to its value.
Flattens(f, S, seqs) ==
    /\ f \in [0..Len(seqs) -> Seq(S)]
    /\ f[0] = <<>>
    /\ \A n \in 1..Len(seqs) : f[n] = f[n - 1] \o seqs[n]
    /\ FlattenSeq(seqs) = f[Len(seqs)]

LEMMA FlattenIs ==
    ASSUME NEW S, NEW seqs \in Seq(Seq(S))
    PROVE  \E f : Flattens(f, S, seqs)
<1>. DEFINE N == Len(seqs)
            Flat(f) == f = [i \in 1..N |-> IF i = 1 THEN seqs[i] ELSE f[i - 1] \o seqs[i]]
            step == [p \in (Nat \ {0}) \X Seq(S) |->
                       IF p[1] \in 1..N THEN p[2] \o seqs[p[1]] ELSE p[2]]
<1>0. N \in Nat /\ <<>> \in Seq(S) /\ \A n \in 1..N : seqs[n] \in Seq(S)
  OBVIOUS
<1>1. step \in [(Nat \ {0}) \X Seq(S) -> Seq(S)]
  <2>1. ASSUME NEW p \in (Nat \ {0}) \X Seq(S)
        PROVE  (IF p[1] \in 1..N THEN p[2] \o seqs[p[1]] ELSE p[2]) \in Seq(S)
    <3>1. p[2] \in Seq(S)
      OBVIOUS
    <3>2. CASE p[1] \in 1..N
      <4>1. seqs[p[1]] \in Seq(S)
        BY <1>0, <3>2
      <4>. QED
        BY <3>1, <3>2, <4>1
    <3>. QED
      BY <3>1, <3>2
  <2>. QED
    BY <2>1
<1>2. PICK f : Steps(f, N, Seq(S), <<>>, step)
  <2>. HIDE DEF step
  <2>. QED
    BY <1>0, <1>1, StepsExist
<1>3. f \in [0..N -> Seq(S)] /\ f[0] = <<>>
  BY <1>2 DEF Steps
<1>4. ASSUME NEW n \in 1..N PROVE f[n] = f[n - 1] \o seqs[n]
  <2>1. n - 1 \in 0..N /\ n \in Nat \ {0}
    BY <1>0
  <2>2. f[n - 1] \in Seq(S)
    BY <1>3, <2>1
  <2>3. f[n] = step[<<n, f[n - 1]>>]
    BY <1>2 DEF Steps
  <2>4. <<n, f[n - 1]>> \in (Nat \ {0}) \X Seq(S)
    BY <2>1, <2>2
  <2>. QED
    BY <2>3, <2>4
<1>5. CASE N = 0
  <2>1. seqs = <<>> /\ FlattenSeq(seqs) = <<>>
    BY <1>5 DEF FlattenSeq
  <2>. QED
    BY <1>3, <1>4, <1>5, <2>1 DEF Flattens
<1>6. CASE N # 0
  <2>. DEFINE h == [i \in 1..N |-> f[i]]
  <2>1. ASSUME NEW i \in 1..N
        PROVE  h[i] = IF i = 1 THEN seqs[i] ELSE h[i - 1] \o seqs[i]
    <3>1. CASE i = 1
      <4>0. 1 \in 1..N /\ 1 - 1 = 0
        BY <1>0, <1>6
      <4>1. f[1] = <<>> \o seqs[1] /\ seqs[1] \in Seq(S)
        BY <1>0, <1>3, <1>4, <4>0
      <4>. QED
        BY <3>1, <4>1
    <3>2. CASE i # 1
      <4>1. i - 1 \in 1..N
        BY <1>0, <3>2
      <4>2. h[i - 1] = f[i - 1]
        BY <4>1
      <4>. QED
        BY <1>4, <3>2, <4>2
    <3>. QED
      BY <3>1, <3>2
  <2>2. Flat(h)
    <3>1. h = [i \in 1..N |-> h[i]]
      OBVIOUS
    <3>. HIDE DEF h
    <3>. QED
      BY <2>1, <3>1
  <2>. DEFINE g == CHOOSE g : Flat(g)
  <2>3. Flat(g)
    <3>. HIDE DEF Flat, h
    <3>. QED
      BY <2>2
  <2>4. FlattenSeq(seqs) = g[N]
    BY <1>6 DEF FlattenSeq
  <2>5. g[N] = f[N]
    <3>. HIDE DEF g
    <3>. DEFINE k == [n \in 0..N |-> IF n = 0 THEN <<>> ELSE g[n]]
    <3>1. k[0] = f[0]
      BY <1>0, <1>3
    <3>2. ASSUME NEW n \in 1..N, k[n - 1] = f[n - 1] PROVE k[n] = f[n]
      <4>1. k[n] = g[n]
        BY <1>0
      <4>2. CASE n = 1
        <5>1. g[1] = seqs[1] /\ seqs[1] \in Seq(S)
          BY <1>0, <2>3, <4>2
        <5>0. 1 \in 1..N /\ 1 - 1 = 0
          BY <1>0, <1>6
        <5>2. f[1] = <<>> \o seqs[1]
          BY <1>3, <1>4, <5>0
        <5>. QED
          BY <4>1, <4>2, <5>1, <5>2
      <4>3. CASE n # 1
        <5>1. n - 1 \in 1..N /\ n - 1 \in 0..N /\ n - 1 # 0
          BY <1>0, <4>3
        <5>2. k[n - 1] = g[n - 1]
          BY <5>1
        <5>3. g[n] = g[n - 1] \o seqs[n]
          BY <2>3, <4>3
        <5>. QED
          BY <1>4, <3>2, <4>1, <5>2, <5>3
      <4>. QED
        BY <4>2, <4>3
    <3>3. \A n \in 0..N : k[n] = f[n]
      <4>. HIDE DEF k, Flat
      <4>. QED
        BY <1>0, <3>1, <3>2, StepsAgree
    <3>4. k[N] = g[N] /\ N \in 0..N
      BY <1>0, <1>6
    <3>. QED
      BY <3>3, <3>4
  <2>. HIDE DEF g, h, Flat
  <2>. QED
    BY <1>3, <1>4, <2>4, <2>5 DEF Flattens
<1>. QED
  BY <1>5, <1>6

LEMMA FlattenAppend ==
    ASSUME NEW S, NEW seqs \in Seq(Seq(S)), NEW s \in Seq(S)
    PROVE  /\ FlattenSeq(seqs) \in Seq(S)
           /\ FlattenSeq(Append(seqs, s)) = FlattenSeq(seqs) \o s
<1>. DEFINE all == Append(seqs, s)
            N == Len(seqs)
<1>0. /\ N \in Nat /\ all \in Seq(Seq(S)) /\ Len(all) = N + 1 /\ all[N + 1] = s
      /\ \A n \in 1..N : all[n] = seqs[n]
  OBVIOUS
<1>1. PICK f : Flattens(f, S, seqs)
  BY FlattenIs
<1>2. PICK g : Flattens(g, S, all)
  BY <1>0, FlattenIs
<1>. HIDE DEF all
<1>3. f[0] = g[0]
  BY <1>1, <1>2 DEF Flattens
<1>4. ASSUME NEW n \in 1..N, f[n - 1] = g[n - 1] PROVE f[n] = g[n]
  <2>1. n \in 1..(N + 1)
    BY <1>0
  <2>. QED
    BY <1>0, <1>1, <1>2, <1>4, <2>1 DEF Flattens
<1>5. \A n \in 0..N : f[n] = g[n]
  <2>. DEFINE I == {n \in 0..N : f[n] = g[n]}
  <2>1. 0 \in I
    BY <1>0, <1>3
  <2>2. ASSUME NEW n \in 1..N, n - 1 \in I PROVE n \in I
    BY <1>0, <1>4, <2>2
  <2>3. 0..N \subseteq I
    <3>. HIDE DEF I
    <3>. QED
      BY <1>0, <2>1, <2>2, UpTo
  <2>. QED
    BY <2>3
<1>6. N + 1 \in 1..(N + 1) /\ (N + 1) - 1 = N /\ N \in 0..N
  BY <1>0
<1>7. g[N + 1] = g[N] \o s
  BY <1>0, <1>2, <1>6 DEF Flattens
<1>8. FlattenSeq(all) = g[N + 1] /\ FlattenSeq(seqs) = f[N] /\ f[N] \in Seq(S)
  BY <1>0, <1>1, <1>2, <1>6 DEF Flattens
<1>. QED
  BY <1>5, <1>6, <1>7, <1>8 DEF all

LEMMA ConcatElements ==
    ASSUME NEW S, NEW a \in Seq(S), NEW b \in Seq(S)
    PROVE  ToSet(a \o b) = ToSet(a) \cup ToSet(b)
<1>1. /\ DOMAIN a = 1..Len(a) /\ DOMAIN b = 1..Len(b) /\ Len(a) \in Nat /\ Len(b) \in Nat
      /\ DOMAIN (a \o b) = 1..(Len(a) + Len(b))
      /\ \A i \in 1..(Len(a) + Len(b)) :
           (a \o b)[i] = IF i <= Len(a) THEN a[i] ELSE b[i - Len(a)]
  OBVIOUS
<1>2. ToSet(a) \subseteq ToSet(a \o b)
  BY <1>1 DEF ToSet
<1>3. ASSUME NEW j \in DOMAIN b PROVE b[j] \in ToSet(a \o b)
  <2>1. /\ Len(a) + j \in 1..(Len(a) + Len(b)) /\ ~(Len(a) + j <= Len(a))
        /\ (Len(a) + j) - Len(a) = j
    BY <1>1
  <2>2. (a \o b)[Len(a) + j] = b[j]
    BY <1>1, <2>1
  <2>. QED
    BY <1>1, <2>1, <2>2 DEF ToSet
<1>4. ASSUME NEW i \in 1..(Len(a) + Len(b)) PROVE (a \o b)[i] \in ToSet(a) \cup ToSet(b)
  <2>1. CASE i <= Len(a)
    <3>1. i \in DOMAIN a
      BY <1>1, <2>1
    <3>2. (a \o b)[i] = a[i]
      BY <1>1, <2>1
    <3>3. a[i] \in ToSet(a)
      BY <3>1 DEF ToSet
    <3>. QED
      BY <3>2, <3>3
  <2>2. CASE ~(i <= Len(a))
    <3>1. i - Len(a) \in DOMAIN b
      BY <1>1, <2>2
    <3>2. (a \o b)[i] = b[i - Len(a)]
      BY <1>1, <2>2
    <3>3. b[i - Len(a)] \in ToSet(b)
      BY <3>1 DEF ToSet
    <3>. QED
      BY <3>2, <3>3
  <2>. QED
    BY <2>1, <2>2
<1>5. ToSet(a \o b) = ToSet(a) \cup ToSet(b)
  <2>1. ToSet(b) \subseteq ToSet(a \o b)
    BY <1>3 DEF ToSet
  <2>2. ToSet(a \o b) \subseteq ToSet(a) \cup ToSet(b)
    BY <1>1, <1>4 DEF ToSet
  <2>. QED
    BY <1>2, <2>1, <2>2
<1>. QED
  BY <1>5

LEMMA FlattenElements ==
    ASSUME NEW S, NEW seqs \in Seq(Seq(S))
    PROVE  /\ FlattenSeq(seqs) \in Seq(S)
           /\ ToSet(FlattenSeq(seqs)) = UNION {ToSet(seqs[i]) : i \in DOMAIN seqs}
<1>. DEFINE N == Len(seqs)
            Before(n) == UNION {ToSet(seqs[i]) : i \in 1..n}
<1>0. N \in Nat /\ DOMAIN seqs = 1..N
  OBVIOUS
<1>1. PICK f : Flattens(f, S, seqs)
  BY FlattenIs
<1>. DEFINE I == {n \in 0..N : ToSet(f[n]) = Before(n)}
<1>2. 0 \in I
  BY <1>0, <1>1 DEF Flattens, ToSet
<1>3. ASSUME NEW n \in 1..N, n - 1 \in I PROVE n \in I
  <2>1. f[n - 1] \in Seq(S) /\ seqs[n] \in Seq(S) /\ f[n] = f[n - 1] \o seqs[n]
    <3>1. n - 1 \in 0..N
      BY <1>0
    <3>2. f \in [0..N -> Seq(S)]
      BY <1>1 DEF Flattens
    <3>3. f[n - 1] \in Seq(S)
      BY <3>1, <3>2
    <3>4. f[n] = f[n - 1] \o seqs[n]
      BY <1>1 DEF Flattens
    <3>. QED
      BY <1>0, <3>3, <3>4
  <2>2. ToSet(f[n - 1] \o seqs[n]) = ToSet(f[n - 1]) \cup ToSet(seqs[n])
    BY <2>1, ConcatElements
  <2>3. 1..n = (1..(n - 1)) \cup {n} /\ n \in 0..N
    BY <1>0
  <2>4. ToSet(f[n - 1]) = Before(n - 1)
    BY <1>3
  <2>5. Before(n) = Before(n - 1) \cup ToSet(seqs[n])
    BY <2>3
  <2>. QED
    BY <2>1, <2>2, <2>3, <2>4, <2>5
<1>4. 0..N \subseteq I
  <2>. HIDE DEF I
  <2>. QED
    BY <1>0, <1>2, <1>3, UpTo
<1>5. N \in I /\ N \in 0..N
  <2>1. N \in 0..N
    BY <1>0
  <2>. HIDE DEF I, N
  <2>. QED
    BY <1>4, <2>1
<1>6. f[N] \in Seq(S) /\ FlattenSeq(seqs) = f[N]
  BY <1>0, <1>1, <1>5 DEF Flattens
<1>. QED
  BY <1>0, <1>5, <1>6
-----------------------------------------------------------------------------
(* What the model is built from. *)

LEMMA SeqOfElements ==
    ASSUME NEW S, NEW T, NEW seq \in Seq(S), ToSet(seq) \subseteq T
    PROVE  seq \in Seq(T)
<1>1. seq \in [1..Len(seq) -> S] /\ Len(seq) \in Nat /\ DOMAIN seq = 1..Len(seq)
  OBVIOUS
<1>2. \A i \in 1..Len(seq) : seq[i] \in T
  BY <1>1 DEF ToSet
<1>3. seq \in [1..Len(seq) -> T]
  BY <1>1, <1>2
<1>. QED
  BY <1>1, <1>3, SeqDef

LEMMA ProjectedIs ==
    ASSUME NEW msgs \in Seq(Messages)
    PROVE  /\ Projected(msgs) \in Seq(Messages \ Unprojectable)
           /\ ToSet(Projected(msgs)) = ToSet(msgs) \ Unprojectable
<1>. DEFINE P == {n \in DOMAIN msgs : msgs[n] \notin Unprojectable}
<1>1. /\ Picked(msgs, P) \in Seq(Messages)
      /\ ToSet(Picked(msgs, P)) = {msgs[i] : i \in {n \in DOMAIN msgs : n \in P}}
  <2>. HIDE DEF P
  <2>. QED
    BY PickedElements
<1>2. {msgs[i] : i \in {n \in DOMAIN msgs : n \in P}} = ToSet(msgs) \ Unprojectable
  BY DEF ToSet
<1>3. ToSet(msgs) \ Unprojectable \subseteq Messages \ Unprojectable
  BY DEF ToSet
<1>4. Projected(msgs) = Picked(msgs, P)
  BY DEF Projected
<1>. HIDE DEF P
<1>. QED
  BY <1>1, <1>2, <1>3, <1>4, SeqOfElements

LEMMA FreshIs ==
    ASSUME NEW table \in Seq(CacheRow)
    PROVE  /\ Fresh(table) \in Seq(CacheRow)
           /\ ToSet(Fresh(table)) = {row \in ToSet(table) : row.batch > expired}
<1>. DEFINE P == {n \in DOMAIN table : table[n].batch > expired}
<1>1. /\ Picked(table, P) \in Seq(CacheRow)
      /\ ToSet(Picked(table, P)) = {table[i] : i \in {n \in DOMAIN table : n \in P}}
  <2>. HIDE DEF P
  <2>. QED
    BY PickedElements
<1>2. {table[i] : i \in {n \in DOMAIN table : n \in P}} = {row \in ToSet(table) : row.batch > expired}
  BY DEF ToSet
<1>3. Fresh(table) = Picked(table, P)
  BY DEF Fresh
<1>. HIDE DEF P
<1>. QED
  BY <1>1, <1>2, <1>3

\* The messages cached for a chat.
In(chat) == UNION {ToSet(row.msgs) : row \in {r \in ToSet(rows) : r.batch > expired /\ r.chat = chat}}

LEMMA ArraysIs ==
    ASSUME rows \in Seq(CacheRow), NEW chat
    PROVE  /\ ArraysOf(chat) \in Seq(Seq(Messages))
           /\ FlattenSeq(ArraysOf(chat)) \in Seq(Messages)
           /\ ToSet(FlattenSeq(ArraysOf(chat))) = In(chat)
<1>. DEFINE P == {n \in DOMAIN rows : rows[n].batch > expired /\ rows[n].chat = chat}
            here == Picked(rows, P)
            arrays == [i \in DOMAIN here |-> here[i].msgs]
<1>1. /\ here \in Seq(CacheRow)
      /\ ToSet(here) = {rows[i] : i \in {n \in DOMAIN rows : n \in P}}
  <2>. HIDE DEF P
  <2>. QED
    BY PickedElements
<1>2. ToSet(here) = {r \in ToSet(rows) : r.batch > expired /\ r.chat = chat}
  <2>1. {rows[i] : i \in {n \in DOMAIN rows : n \in P}}
        = {r \in ToSet(rows) : r.batch > expired /\ r.chat = chat}
    BY DEF ToSet
  <2>. HIDE DEF P
  <2>. QED
    BY <1>1, <2>1
<1>3. ArraysOf(chat) = arrays
  BY DEF ArraysOf
<1>. HIDE DEF here, P
<1>4. \A r \in CacheRow : r.msgs \in Seq(Messages)
  <2>1. ASSUME NEW q \in Seq(Messages \ Unprojectable) PROVE q \in Seq(Messages)
    <3>1. ToSet(q) \subseteq Messages
      BY DEF ToSet
    <3>. QED
      BY <3>1, SeqOfElements
  <2>. QED
    BY <2>1 DEF CacheRow
<1>5. /\ Len(here) \in Nat /\ DOMAIN here = 1..Len(here)
      /\ \A i \in 1..Len(here) : here[i] \in CacheRow
  BY <1>1
<1>6. arrays \in Seq(Seq(Messages)) /\ DOMAIN arrays = DOMAIN here
  <2>1. arrays \in [1..Len(here) -> Seq(Messages)]
    BY <1>4, <1>5
  <2>. QED
    BY <1>5, <2>1, SeqDef
<1>7. \A i \in DOMAIN arrays : arrays[i] = here[i].msgs
  OBVIOUS
<1>8. UNION {ToSet(arrays[i]) : i \in DOMAIN arrays} = In(chat)
  <2>1. UNION {ToSet(arrays[i]) : i \in DOMAIN arrays} = UNION {ToSet(row.msgs) : row \in ToSet(here)}
    <3>. HIDE DEF arrays
    <3>1. ToSet(here) = {here[i] : i \in DOMAIN here}
      BY DEF ToSet
    <3>2. {ToSet(arrays[i]) : i \in DOMAIN arrays} = {ToSet(row.msgs) : row \in ToSet(here)}
      BY <1>6, <1>7, <3>1
    <3>. QED
      BY <3>2
  <2>. QED
    BY <1>2, <2>1 DEF In
<1>. HIDE DEF arrays
<1>9. FlattenSeq(arrays) \in Seq(Messages)
  BY <1>6, FlattenElements
<1>10. ToSet(FlattenSeq(arrays)) = UNION {ToSet(arrays[i]) : i \in DOMAIN arrays}
  BY <1>6, FlattenElements
<1>. QED
  BY <1>3, <1>6, <1>8, <1>9, <1>10

LEMMA DistinctIs ==
    ASSUME NEW S, NEW seq \in Seq(S)
    PROVE  /\ Distinct(seq) \in Seq(S)
           /\ ToSet(Distinct(seq)) = ToSet(seq)
           /\ IsInjective(Distinct(seq))
<1>. DEFINE First(n) == \A j \in 1..(n - 1) : seq[j] # seq[n]
            P == {n \in DOMAIN seq : First(n)}
            N == Len(seq)
<1>0. N \in Nat /\ DOMAIN seq = 1..N
  OBVIOUS
<1>1. \A i, j \in DOMAIN seq : i \in P /\ j \in P /\ seq[i] = seq[j] => i = j
  <2>1. ASSUME NEW i \in P, NEW j \in P, seq[i] = seq[j], i < j PROVE FALSE
    <3>1. i \in 1..(j - 1)
      BY <1>0, <2>1
    <3>. QED
      BY <2>1, <3>1
  <2>2. ASSUME NEW i \in P, NEW j \in P, seq[i] = seq[j] PROVE i = j
    <3>1. i \in Nat /\ j \in Nat
      BY <1>0
    <3>. QED
      BY <2>1, <2>2, <3>1
  <2>. HIDE DEF P
  <2>. QED
    BY <2>2
<1>2. /\ Picked(seq, P) \in Seq(S)
      /\ ToSet(Picked(seq, P)) = {seq[i] : i \in {n \in DOMAIN seq : n \in P}}
      /\ IsInjective(Picked(seq, P))
  <2>. HIDE DEF P
  <2>. QED
    BY <1>1, PickedElements
<1>3. Distinct(seq) = Picked(seq, P)
  BY DEF Distinct
<1>. DEFINE I == {n \in 0..N : \A i \in 1..n : \E k \in P : seq[k] = seq[i]}
<1>4. 0 \in I
  BY <1>0
<1>5. ASSUME NEW n \in 1..N, n - 1 \in I PROVE n \in I
  <2>1. \E k \in P : seq[k] = seq[n]
    <3>1. CASE First(n)
      BY <1>0, <3>1
    <3>2. CASE ~First(n)
      <4>1. PICK j \in 1..(n - 1) : seq[j] = seq[n]
        BY <3>2
      <4>2. PICK k \in P : seq[k] = seq[j]
        BY <1>5
      <4>. QED
        BY <4>1, <4>2
    <3>. QED
      BY <3>1, <3>2
  <2>2. 1..n = (1..(n - 1)) \cup {n} /\ n \in 0..N
    BY <1>0
  <2>. HIDE DEF P
  <2>. QED
    BY <1>5, <2>1, <2>2
<1>6. N \in I
  <2>1. 0..N \subseteq I
    <3>. HIDE DEF I
    <3>. QED
      BY <1>0, <1>4, <1>5, UpTo
  <2>2. N \in 0..N
    BY <1>0
  <2>. QED
    BY <2>1, <2>2
<1>7. {seq[i] : i \in {n \in DOMAIN seq : n \in P}} = ToSet(seq)
  <2>1. \A i \in DOMAIN seq : \E k \in P : seq[k] = seq[i]
    BY <1>0, <1>6
  <2>2. P \subseteq DOMAIN seq
    OBVIOUS
  <2>. HIDE DEF P
  <2>. QED
    BY <2>1, <2>2 DEF ToSet
<1>. HIDE DEF P
<1>. QED
  BY <1>2, <1>3, <1>7

\* A chunk is full unless it is the last one.
LEMMA ChunkIs ==
    ASSUME NEW left \in Seq(Messages), left # <<>>, NEW chunk, chunk = NextChunk(left),
           NEW rest, rest = SubSeq(left, Len(chunk) + 1, Len(left))
    PROVE  /\ chunk \in Seq(Messages) /\ rest \in Seq(Messages)
           /\ Len(chunk) \in 1..ChunkSize
           /\ rest # <<>> => Len(chunk) = ChunkSize
           /\ chunk \o rest = left
<1>. DEFINE L == Len(left)
            k == IF ChunkSize <= L THEN ChunkSize ELSE L
<1>0. L \in Nat /\ L # 0 /\ ChunkSize \in Nat /\ ChunkSize # 0
  BY HistoryAssumption
<1>1. Min({ChunkSize, L}) = k
  <2>1. k \in {ChunkSize, L} /\ \A y \in {ChunkSize, L} : k <= y
    BY <1>0
  <2>2. \A x \in {ChunkSize, L} : (\A y \in {ChunkSize, L} : x <= y) => x = k
    BY <1>0, <2>1
  <2>. HIDE DEF k
  <2>. QED
    BY <2>1, <2>2 DEF Min
<1>2. k \in 1..L /\ k <= ChunkSize /\ (k # ChunkSize => k = L)
  BY <1>0
<1>3. chunk = SubSeq(left, 1, k)
  BY <1>1 DEF NextChunk
<1>. HIDE DEF k
<1>4. chunk \in Seq(Messages) /\ Len(chunk) = k
  BY <1>0, <1>2, <1>3
<1>5. rest = SubSeq(left, k + 1, L)
  BY <1>4
<1>6. rest \in Seq(Messages) /\ Len(rest) = L - k
  <2>1. /\ k + 1 \in Int /\ L \in Int
        /\ IF k + 1 <= L THEN L - (k + 1) + 1 = L - k ELSE L - k = 0
    BY <1>0, <1>2
  <2>2. \A i \in (k + 1)..L : left[i] \in Messages
    BY <1>0, <1>2
  <2>3. /\ SubSeq(left, k + 1, L) \in Seq(Messages)
        /\ Len(SubSeq(left, k + 1, L)) = IF k + 1 <= L THEN L - (k + 1) + 1 ELSE 0
    BY <2>1, <2>2, SubSeqProperties
  <2>. QED
    BY <1>5, <2>1, <2>3
<1>7. chunk \o rest = left
  <2>1. chunk \o rest \in Seq(Messages) /\ Len(chunk \o rest) = L
    <3>1. k + (L - k) = L
      BY <1>0, <1>2
    <3>. HIDE DEF L
    <3>. QED
      BY <1>4, <1>6, <3>1
  <2>2. ASSUME NEW i \in 1..L PROVE (chunk \o rest)[i] = left[i]
    <3>1. CASE i <= k
      BY <1>0, <1>2, <1>3, <1>4, <1>6, <3>1
    <3>2. CASE ~(i <= k)
      <4>1. i - k \in 1..Len(rest) /\ (k + 1) + (i - k) - 1 = i
        BY <1>0, <1>2, <1>6, <3>2
      <4>2. (chunk \o rest)[i] = rest[i - k]
        BY <1>0, <1>2, <1>4, <1>6, <3>2
      <4>3. rest[i - k] = left[(k + 1) + (i - k) - 1]
        BY <1>0, <1>2, <1>5, <1>6, <4>1
      <4>. QED
        BY <4>1, <4>2, <4>3
    <3>. QED
      BY <3>1, <3>2
  <2>. QED
    BY <2>1, <2>2, SeqEqual
<1>8. rest # <<>> => Len(chunk) = ChunkSize
  <2>1. CASE rest # <<>>
    <3>1. Len(rest) # 0
      BY <1>6, <2>1
    <3>. QED
      BY <1>0, <1>2, <1>4, <1>6, <3>1
  <2>. QED
    BY <2>1
<1>9. Len(chunk) \in 1..ChunkSize
  BY <1>0, <1>2, <1>4
<1>. QED
  BY <1>4, <1>6, <1>7, <1>8, <1>9
-----------------------------------------------------------------------------
(* Types. *)

FlushState == [pc: FlushPC, late: BOOLEAN, todo: SUBSET Chats, chat: Chats \cup {NoChat},
               left: Seq(Messages), out: Seq(Seq(Messages))]

Flushing ==
    /\ flush \in [Flushes -> FlushState]
    /\ \A f \in Flushes : flush[f].pc = "publish" => flush[f].chat \in Chats

\* Where the event handler is, and that nothing happens before the pairing.
Handling ==
    /\ sync.pc = "cache" =>
         /\ sync.batch \in DOMAIN History
         /\ sync.conv \in 1..(Len(History[sync.batch].convs) + 1)
         /\ Tracked(History[sync.batch])
    /\ device = "blank" => sync = Idle /\ \A f \in Flushes : flush[f].pc = "idle"

Typed == TypeOK /\ Flushing /\ Handling

LEMMA ScenarioParts ==
    ASSUME scenario \in DOMAIN Scenarios
    PROVE  /\ History \in Seq(Batch) /\ Len(History) \in Nat /\ DOMAIN History = 1..Len(History)
           /\ \A n \in DOMAIN History :
                /\ History[n].convs \in Seq(Conversation)
                /\ Len(History[n].convs) \in Nat
                /\ DOMAIN History[n].convs = 1..Len(History[n].convs)
                /\ \A i \in DOMAIN History[n].convs :
                     /\ History[n].convs[i].chat \in Chats
                     /\ History[n].convs[i].msgs \in Seq(Messages)
           /\ Scenarios[scenario].flushes \subseteq Flushes
<1>1. Scenarios[scenario] \in Scenario
  BY HistoryAssumption
<1>2. History \in Seq(Batch) /\ Scenarios[scenario].flushes \subseteq Flushes
  BY <1>1 DEF Scenario, History
<1>3. ASSUME NEW b \in Batch
      PROVE  /\ b.convs \in Seq(Conversation)
             /\ Len(b.convs) \in Nat
             /\ DOMAIN b.convs = 1..Len(b.convs)
             /\ \A i \in DOMAIN b.convs :
                  b.convs[i].chat \in Chats /\ b.convs[i].msgs \in Seq(Messages)
  <2>1. b.convs \in Seq(Conversation)
    BY DEF Batch
  <2>2. /\ Len(b.convs) \in Nat /\ DOMAIN b.convs = 1..Len(b.convs)
        /\ \A i \in DOMAIN b.convs : b.convs[i] \in Conversation
    BY <2>1
  <2>. QED
    BY <2>1, <2>2 DEF Conversation
<1>4. \A n \in DOMAIN History : History[n] \in Batch
  BY <1>2
<1>5. Len(History) \in Nat /\ DOMAIN History = 1..Len(History)
  BY <1>2
<1>. QED
  BY <1>2, <1>3, <1>4, <1>5

LEMMA CachedRow ==
    ASSUME NEW conv, conv.chat \in Chats, conv.msgs \in Seq(Messages), WorthCaching(conv),
           NEW n \in Nat
    PROVE  [chat |-> conv.chat, msgs |-> Projected(conv.msgs), batch |-> n] \in CacheRow
BY ProjectedIs DEF WorthCaching, CacheRow

LEMMA InsertType ==
    ASSUME rows \in Seq(CacheRow), NEW row \in CacheRow, Insert(row)
    PROVE  rows' \in Seq(CacheRow)
<1>1. Fresh(rows) \in Seq(CacheRow)
  BY FreshIs
<1>2. Append(Fresh(rows), row) \in Seq(CacheRow) /\ Append(rows, row) \in Seq(CacheRow)
  BY <1>1
<1>3. rows' \in {rows, Fresh(rows), Append(rows, row), Append(Fresh(rows), row)}
  BY DEF Insert
<1>. QED
  BY <1>1, <1>2, <1>3

LEMMA FlushMoves ==
    ASSUME Flushing, NEW f \in Flushes, NEW r \in FlushState, r.pc = "publish" => r.chat \in Chats,
           flush' = [flush EXCEPT ![f] = r]
    PROVE  Flushing'
BY DEF Flushing

LEMMA FlushTypes ==
    ASSUME NEW all \in [Flushes -> FlushState]
    PROVE  \A f \in Flushes :
             /\ all[f].pc \in FlushPC /\ all[f].late \in BOOLEAN
             /\ all[f].todo \subseteq Chats /\ all[f].chat \in Chats \cup {NoChat}
             /\ all[f].left \in Seq(Messages) /\ all[f].out \in Seq(Seq(Messages))
BY DEF FlushState

LEMMA NoFlushType == NoFlush \in FlushState /\ NoFlush.pc = "idle"
BY DEF NoFlush, FlushState, FlushPC

LEMMA InitTyped == Init => Typed
<1>. SUFFICES ASSUME Init PROVE Typed
  OBVIOUS
<1>1. Flushing
  BY NoFlushType DEF Init, Flushing
<1>2. Handling
  BY NoFlushType DEF Init, Handling, Idle
<1>3. TypeOK
  <2>1. Len(History) \in Nat
    BY ScenarioParts DEF Init
  <2>2. 0 \in 0..Len(History)
    BY <2>1
  <2>3. \A f \in Flushes :
             /\ flush[f].pc \in FlushPC /\ flush[f].late \in BOOLEAN
             /\ flush[f].todo \subseteq Chats /\ flush[f].chat \in Chats \cup {NoChat}
             /\ flush[f].left \in Seq(Messages) /\ flush[f].out \in Seq(Seq(Messages))
    BY <1>1, FlushTypes DEF Flushing
  <2>4. rows \in Seq(CacheRow)
    BY DEF Init
  <2>. QED
    BY <2>2, <2>3, <2>4 DEF Init, TypeOK, Idle
<1>. QED
  BY <1>1, <1>2, <1>3 DEF Typed

\* What a step that leaves the event handler and the tables alone must show.
LEMMA SameHandler ==
    ASSUME Typed, Flushing', UNCHANGED <<tables, handler, panicked>>,
           delivered' \subseteq Chats \X Messages,
           device = "blank" => flush' = flush
    PROVE  Typed'
<1>1. Handling'
  BY DEF Typed, Handling, tables, handler, History
<1>2. TypeOK'
  <2>1. \A f \in Flushes :
             /\ flush'[f].pc \in FlushPC /\ flush'[f].late \in BOOLEAN
             /\ flush'[f].todo \subseteq Chats /\ flush'[f].chat \in Chats \cup {NoChat}
             /\ flush'[f].left \in Seq(Messages) /\ flush'[f].out \in Seq(Seq(Messages))
    BY FlushTypes DEF Flushing
  <2>. QED
    BY <2>1 DEF Typed, TypeOK, tables, handler, History
<1>. QED
  BY <1>1, <1>2 DEF Typed

LEMMA TypedHandler ==
    ASSUME Typed, Handler
    PROVE  Typed'
<1>0. scenario \in DOMAIN Scenarios /\ sync \in [pc: {"idle", "cache"}, batch: 0..Len(History), conv: Nat]
  BY DEF Typed, TypeOK
<1>1. ASSUME UNCHANGED <<scenario, device, expired, flush, panicked>>,
             rows' \in Seq(CacheRow), chats' \subseteq Chats \ Untracked,
             sync' \in [pc: {"idle", "cache"}, batch: 0..Len(History), conv: Nat],
             once' \in BOOLEAN, finished' \in Nat, delivered' \subseteq Chats \X Messages,
             device # "blank",
             sync'.pc = "cache" =>
               /\ sync'.batch \in DOMAIN History
               /\ sync'.conv \in 1..(Len(History[sync'.batch].convs) + 1)
               /\ Tracked(History[sync'.batch])
      PROVE  Typed'
  <2>1. Handling'
    BY <1>1 DEF Handling, History
  <2>2. Flushing'
    BY <1>1 DEF Typed, Flushing
  <2>3. TypeOK'
    BY <1>1 DEF Typed, TypeOK, History
  <2>. QED
    BY <2>1, <2>2, <2>3 DEF Typed
<1>2. /\ rows \in Seq(CacheRow) /\ chats \subseteq Chats \ Untracked
      /\ once \in BOOLEAN /\ finished \in Nat /\ delivered \subseteq Chats \X Messages
  BY DEF Typed, TypeOK
<1>3. sync.pc = "cache" => device # "blank"
  BY DEF Typed, Handling, Idle
<1>4. sync.pc = "idle" /\ sync.batch < Len(History) => sync.batch + 1 \in DOMAIN History
  BY <1>0, ScenarioParts
<1>5. CASE HistorySyncBegin
  <2>. DEFINE n == sync.batch + 1
  <2>0. n \in DOMAIN History /\ n \in 0..Len(History)
    BY <1>0, <1>4, <1>5, ScenarioParts DEF HistorySyncBegin
  <2>1. sync' = [pc |-> "cache", batch |-> n, conv |-> 1]
    BY <1>5 DEF HistorySyncBegin
  <2>2. Len(History[n].convs) \in Nat /\ \A i \in DOMAIN History[n].convs : History[n].convs[i].chat \in Chats
    BY <1>0, <2>0, ScenarioParts
  <2>3. chats' \subseteq Chats \ Untracked
    BY <1>2, <1>5, <2>2 DEF HistorySyncBegin
  <2>4. 1 \in 1..(Len(History[n].convs) + 1)
    BY <2>2
  <2>. QED
    BY <1>1, <1>2, <1>5, <2>0, <2>1, <2>3, <2>4 DEF HistorySyncBegin
<1>6. CASE HistorySyncProjected
  <2>. DEFINE n == sync.batch + 1
  <2>0. n \in DOMAIN History /\ n \in 0..Len(History)
    BY <1>0, <1>4, <1>6, ScenarioParts DEF HistorySyncProjected
  <2>1. sync' = [sync EXCEPT !.batch = n]
    BY <1>6 DEF HistorySyncProjected
  <2>2. sync'.pc = "idle" /\ sync' \in [pc: {"idle", "cache"}, batch: 0..Len(History), conv: Nat]
    BY <1>0, <1>6, <2>0, <2>1 DEF HistorySyncProjected
  <2>3. ASSUME NEW i \in DOMAIN History[n].convs
        PROVE  {History[n].convs[i].chat} \X ToSet(Projected(History[n].convs[i].msgs))
               \subseteq Chats \X Messages
    <3>1. History[n].convs[i].chat \in Chats /\ History[n].convs[i].msgs \in Seq(Messages)
      BY <1>0, <2>0, ScenarioParts
    <3>2. ToSet(Projected(History[n].convs[i].msgs)) \subseteq Messages
      BY <3>1, ProjectedIs DEF ToSet
    <3>. QED
      BY <3>1, <3>2
  <2>4. delivered' \subseteq Chats \X Messages
    <3>1. \/ delivered' = delivered
          \/ delivered' = delivered \cup
                 UNION {{History[n].convs[i].chat} \X ToSet(Projected(History[n].convs[i].msgs)) :
                         i \in DOMAIN History[n].convs}
      BY <1>6 DEF HistorySyncProjected
    <3>. QED
      BY <1>2, <2>3, <3>1
  <2>5. device # "blank" /\ UNCHANGED <<scenario, device, expired, flush, panicked, rows, chats, once, finished>>
    BY <1>6 DEF HistorySyncProjected, tables
  <2>. QED
    BY <1>1, <1>2, <2>2, <2>4, <2>5
<1>7. CASE CacheConversation
  <2>. DEFINE convs == History[sync.batch].convs
              conv == convs[sync.conv]
  <2>0. /\ sync.batch \in DOMAIN History /\ sync.conv \in 1..(Len(convs) + 1)
        /\ Tracked(History[sync.batch]) /\ sync.pc = "cache" /\ sync.conv <= Len(convs)
    BY <1>7 DEF CacheConversation, Typed, Handling
  <2>1. Len(convs) \in Nat /\ DOMAIN convs = 1..Len(convs)
    BY <1>0, <2>0, ScenarioParts
  <2>2. sync.conv \in DOMAIN convs /\ sync.conv + 1 \in 1..(Len(convs) + 1) /\ sync.conv + 1 \in Nat
    BY <2>0, <2>1
  <2>3. conv.chat \in Chats /\ conv.msgs \in Seq(Messages)
    BY <1>0, <2>0, <2>2, ScenarioParts
  <2>4. rows' \in Seq(CacheRow)
    <3>1. CASE WorthCaching(conv)
      <4>. DEFINE row == [chat |-> conv.chat, msgs |-> Projected(conv.msgs), batch |-> sync.batch]
      <4>1. row \in CacheRow
        BY <1>0, <2>3, <3>1, CachedRow
      <4>2. Insert(row)
        BY <1>7, <3>1 DEF CacheConversation
      <4>. HIDE DEF row
      <4>. QED
        BY <1>2, <4>1, <4>2, InsertType
    <3>2. CASE ~WorthCaching(conv)
      BY <1>2, <1>7, <3>2 DEF CacheConversation
    <3>. QED
      BY <3>1, <3>2
  <2>5. sync' = [sync EXCEPT !.conv = sync.conv + 1]
    BY <1>7 DEF CacheConversation
  <2>6. /\ sync' \in [pc: {"idle", "cache"}, batch: 0..Len(History), conv: Nat]
        /\ sync'.batch = sync.batch /\ sync'.conv = sync.conv + 1
    BY <1>0, <2>2, <2>5
  <2>7. UNCHANGED <<scenario, device, expired, flush, panicked, chats, once, finished, delivered>>
    BY <1>7 DEF CacheConversation
  <2>. QED
    BY <1>1, <1>2, <1>3, <2>0, <2>2, <2>4, <2>6, <2>7
<1>8. CASE HistorySyncEnd
  <2>1. sync' = [sync EXCEPT !.pc = "idle"] /\ sync.pc = "cache"
    BY <1>8 DEF HistorySyncEnd
  <2>2. sync'.pc = "idle" /\ sync' \in [pc: {"idle", "cache"}, batch: 0..Len(History), conv: Nat]
    BY <1>0, <2>1
  <2>3. UNCHANGED <<scenario, device, expired, flush, panicked, rows, chats, delivered>>
    BY <1>8 DEF HistorySyncEnd, tables
  <2>4. once' \in BOOLEAN /\ finished' \in Nat
    <3>1. finished + 1 \in Nat
      BY <1>2
    <3>2. once' \in {once, TRUE} /\ finished' \in {finished, finished + 1}
      BY <1>8 DEF HistorySyncEnd
    <3>. QED
      BY <1>2, <3>1, <3>2
  <2>. QED
    BY <1>1, <1>2, <1>3, <2>1, <2>2, <2>3, <2>4
<1>. QED
  BY <1>5, <1>6, <1>7, <1>8 DEF Handler
\* The fields of a flush, and of one that differs in some of them.
LEMMA FlushFields ==
    ASSUME NEW r \in FlushState, NEW pc \in FlushPC, NEW late \in BOOLEAN,
           NEW todo \in SUBSET Chats, NEW chat \in Chats \cup {NoChat},
           NEW left \in Seq(Messages), NEW out \in Seq(Seq(Messages))
    PROVE  /\ [r EXCEPT !.pc = pc] \in FlushState
           /\ [r EXCEPT !.late = late] \in FlushState
           /\ [r EXCEPT !.todo = todo] \in FlushState
           /\ [r EXCEPT !.pc = pc, !.todo = todo] \in FlushState
           /\ [r EXCEPT !.left = left, !.out = out, !.pc = pc] \in FlushState
           /\ [r EXCEPT !.todo = todo, !.chat = chat, !.left = left, !.out = out, !.pc = pc] \in FlushState
           /\ r.pc \in FlushPC /\ r.late \in BOOLEAN /\ r.todo \subseteq Chats
           /\ r.left \in Seq(Messages) /\ r.out \in Seq(Seq(Messages))
BY DEF FlushState

\* The buffer that FlushGet fills.
LEMMA FetchedIs ==
    ASSUME Typed, NEW chat, NEW arrays, arrays = ArraysOf(chat)
    PROVE  /\ Deduplicated(arrays) \in Seq(Messages)
           /\ ToSet(Deduplicated(arrays)) = In(chat)
           /\ IsInjective(Deduplicated(arrays))
<1>1. rows \in Seq(CacheRow)
  BY DEF Typed, TypeOK
<1>2. FlattenSeq(arrays) \in Seq(Messages) /\ ToSet(FlattenSeq(arrays)) = In(chat)
  BY <1>1, ArraysIs
<1>. QED
  BY <1>2, DistinctIs DEF Deduplicated

LEMMA TypedGet ==
    ASSUME Typed, NEW f \in Flushes, FlushGet(f)
    PROVE  Flushing'
<1>0. flush[f] \in FlushState
  BY DEF Typed, Flushing
<1>1. PICK chat \in flush[f].todo :
        \/ flush' = [flush EXCEPT ![f] = [flush[f] EXCEPT
                     !.todo = @ \ {chat}, !.chat = chat, !.left = Deduplicated(ArraysOf(chat)),
                     !.out = <<>>,
                     !.pc = IF Deduplicated(ArraysOf(chat)) = <<>> THEN "chat" ELSE "publish"]]
        \/ flush' = [flush EXCEPT ![f].todo = @ \ {chat}]
  BY DEF FlushGet
<1>. DEFINE left == Deduplicated(ArraysOf(chat))
            todo == flush[f].todo \ {chat}
            pc == IF left = <<>> THEN "chat" ELSE "publish"
            r == [flush[f] EXCEPT !.todo = todo, !.chat = chat, !.left = left, !.out = <<>>, !.pc = pc]
            q == [flush[f] EXCEPT !.todo = todo]
<1>2. chat \in Chats /\ todo \in SUBSET Chats
  BY <1>0 DEF FlushState
<1>3. left \in Seq(Messages)
  BY FetchedIs
<1>4. pc \in FlushPC
  BY DEF FlushPC
<1>5. <<>> \in Seq(Seq(Messages))
  OBVIOUS
<1>9. flush' = [flush EXCEPT ![f] = r] \/ flush' = [flush EXCEPT ![f] = q]
  BY <1>1
<1>. HIDE DEF left, todo, pc
<1>6. r \in FlushState /\ r.chat = chat
  <2>1. r \in FlushState
    BY <1>0, <1>2, <1>3, <1>4, <1>5, FlushFields
  <2>2. r.chat = chat
    BY <1>0 DEF FlushState
  <2>. QED
    BY <2>1, <2>2
<1>7. q \in FlushState /\ q.pc = flush[f].pc
  <2>1. q \in FlushState
    BY <1>0, <1>2 DEF FlushState
  <2>2. q.pc = flush[f].pc
    BY <1>0 DEF FlushState
  <2>. QED
    BY <2>1, <2>2
<1>8. flush[f].pc = "chat"
  BY DEF FlushGet
<1>. HIDE DEF r, q
<1>. QED
  BY <1>2, <1>6, <1>7, <1>8, <1>9, FlushMoves DEF Typed

LEMMA TypedPublish ==
    ASSUME Typed, NEW f \in Flushes, FlushPublish(f)
    PROVE  Flushing' /\ delivered' \subseteq Chats \X Messages
<1>0. flush[f] \in FlushState /\ flush[f].chat \in Chats /\ flush[f].left \in Seq(Messages)
      /\ flush[f].out \in Seq(Seq(Messages))
  BY FlushTypes DEF Typed, Flushing, FlushPublish
<1>. DEFINE chunk == NextChunk(flush[f].left)
            rest == SubSeq(flush[f].left, Len(chunk) + 1, Len(flush[f].left))
            out == Append(flush[f].out, chunk)
            pc == IF rest = <<>> THEN "chat" ELSE "publish"
            r == [flush[f] EXCEPT !.left = rest, !.out = out, !.pc = pc]
<1>1. chunk \in Seq(Messages) /\ rest \in Seq(Messages)
  <2>1. CASE flush[f].left = <<>>
    <3>1. Len(flush[f].left) = 0 /\ ChunkSize \in Nat
      BY <2>1, HistoryAssumption
    <3>2. Min({ChunkSize, 0}) = 0
      <4>1. 0 \in {ChunkSize, 0} /\ \A y \in {ChunkSize, 0} : 0 <= y
        BY <3>1
      <4>2. \A x \in {ChunkSize, 0} : (\A y \in {ChunkSize, 0} : x <= y) => x = 0
        BY <3>1
      <4>. QED
        BY <4>1, <4>2 DEF Min
    <3>3. chunk = SubSeq(<<>>, 1, 0)
      BY <2>1, <3>1, <3>2 DEF NextChunk
    <3>4. chunk = <<>>
      BY <3>3
    <3>5. rest = SubSeq(<<>>, 1, 0)
      BY <2>1, <3>1, <3>4
    <3>. QED
      BY <3>4, <3>5
  <2>2. CASE flush[f].left # <<>>
    <3>1. chunk = NextChunk(flush[f].left) /\ rest = SubSeq(flush[f].left, Len(chunk) + 1, Len(flush[f].left))
      OBVIOUS
    <3>. HIDE DEF chunk, rest
    <3>. QED
      BY <1>0, <2>2, <3>1, ChunkIs
  <2>. QED
    BY <2>1, <2>2
<1>2. pc \in FlushPC /\ out \in Seq(Seq(Messages))
  BY <1>0, <1>1 DEF FlushPC
<1>3. flush' = [flush EXCEPT ![f] = r]
  BY DEF FlushPublish
<1>4. delivered' = delivered \/ delivered' = delivered \cup ({flush[f].chat} \X ToSet(chunk))
  BY DEF FlushPublish
<1>5. ToSet(chunk) \subseteq Messages
  BY <1>1 DEF ToSet
<1>6. delivered \subseteq Chats \X Messages
  BY DEF Typed, TypeOK
<1>. HIDE DEF chunk, rest, out, pc
<1>7. r \in FlushState
  BY <1>0, <1>1, <1>2, FlushFields
<1>8. r.chat = flush[f].chat
  BY <1>0 DEF FlushState
<1>. HIDE DEF r
<1>9. Flushing'
  BY <1>0, <1>3, <1>7, <1>8, FlushMoves DEF Typed
<1>. QED
  BY <1>0, <1>4, <1>5, <1>6, <1>9

LEMMA TypedFlush ==
    ASSUME Typed, NEW f \in Flushes, FlushRequest(f) \/ Flush(f) \/ ContextExpires(f)
    PROVE  Typed'
<1>0. flush[f] \in FlushState /\ flush \in [Flushes -> FlushState]
  BY DEF Typed, Flushing
<1>1. ASSUME NEW r \in FlushState, flush' = [flush EXCEPT ![f] = r], r.pc # "publish"
      PROVE  Flushing'
  BY <1>1, FlushMoves DEF Typed
<1>2. device = "blank" => flush[f].pc = "idle"
  BY DEF Typed, Handling
<1>3. delivered \subseteq Chats \X Messages
  BY DEF Typed, TypeOK
<1>4. CASE FlushRequest(f)
  <2>. DEFINE r == [NoFlush EXCEPT !.pc = "check"]
  <2>1. r \in FlushState /\ r.pc = "check"
    <3>1. "check" \in FlushPC
      BY DEF FlushPC
    <3>2. r \in FlushState
      BY <3>1, NoFlushType DEF FlushState
    <3>. QED
      BY <3>2 DEF NoFlush
  <2>2. flush' = [flush EXCEPT ![f] = r]
    BY <1>4 DEF FlushRequest
  <2>. HIDE DEF r
  <2>3. Flushing'
    BY <1>1, <2>1, <2>2
  <2>. QED
    BY <1>3, <1>4, <2>3, SameHandler DEF FlushRequest
<1>5. CASE FlushCheck(f)
  <2>. DEFINE r == IF device = "paired" THEN [flush[f] EXCEPT !.pc = "device"] ELSE NoFlush
  <2>1. r \in FlushState /\ r.pc # "publish"
    <3>1. "device" \in FlushPC
      BY DEF FlushPC
    <3>2. [flush[f] EXCEPT !.pc = "device"] \in FlushState
      BY <1>0, <3>1 DEF FlushState
    <3>3. [flush[f] EXCEPT !.pc = "device"].pc = "device"
      BY <1>0 DEF FlushState
    <3>. QED
      BY <3>2, <3>3, NoFlushType
  <2>2. flush' = [flush EXCEPT ![f] = r]
    BY <1>5 DEF FlushCheck
  <2>. HIDE DEF r
  <2>3. Flushing'
    BY <1>1, <2>1, <2>2
  <2>. QED
    BY <1>2, <1>3, <1>5, <2>3, SameHandler DEF FlushCheck
<1>6. CASE FlushDevice(f)
  <2>1. CASE device = "paired"
    <3>. DEFINE r == [flush[f] EXCEPT !.pc = "list"]
    <3>1. r \in FlushState /\ r.pc = "list"
      BY <1>0 DEF FlushState, FlushPC
    <3>2. flush' = [flush EXCEPT ![f] = r]
      BY <1>6, <2>1 DEF FlushDevice
    <3>. HIDE DEF r
    <3>3. Flushing'
      BY <1>1, <3>1, <3>2
    <3>. QED
      BY <1>3, <1>6, <2>1, <3>3, SameHandler DEF FlushDevice
  <2>2. CASE device # "paired"
    <3>1. /\ flush' = [g \in Flushes |-> NoFlush] /\ sync' = [sync EXCEPT !.pc = "idle"]
          /\ once' = FALSE /\ panicked' = TRUE
          /\ UNCHANGED <<tables, finished, delivered>>
      BY <1>6, <2>2 DEF FlushDevice
    <3>2. Flushing'
      BY <3>1, NoFlushType DEF Flushing
    <3>3. device # "blank"
      BY <1>2, <1>6 DEF FlushDevice
    <3>4. /\ sync' \in [pc: {"idle", "cache"}, batch: 0..Len(History), conv: Nat]
          /\ sync'.pc = "idle"
      BY <3>1 DEF Typed, TypeOK
    <3>5. Handling'
      BY <3>1, <3>3, <3>4 DEF Handling, tables
    <3>6. TypeOK'
      <4>1. \A g \in Flushes :
             /\ flush'[g].pc \in FlushPC /\ flush'[g].late \in BOOLEAN
             /\ flush'[g].todo \subseteq Chats /\ flush'[g].chat \in Chats \cup {NoChat}
             /\ flush'[g].left \in Seq(Messages) /\ flush'[g].out \in Seq(Seq(Messages))
        BY <3>2, FlushTypes DEF Flushing
      <4>. QED
        BY <3>1, <3>4, <4>1 DEF Typed, TypeOK, tables, History
    <3>. QED
      BY <3>2, <3>5, <3>6 DEF Typed
  <2>. QED
    BY <2>1, <2>2
<1>7. CASE FlushList(f)
  <2>. DEFINE cached == {row.chat : row \in {r \in ToSet(rows) : r.batch > expired}}
              q == [flush[f] EXCEPT !.pc = "chat", !.todo = cached]
  <2>1. cached \in SUBSET Chats
    <3>1. \A row \in ToSet(rows) : row \in CacheRow
      BY DEF ToSet, Typed, TypeOK
    <3>. QED
      BY <3>1 DEF CacheRow
  <2>2. flush' = [flush EXCEPT ![f] = q] \/ flush' = [flush EXCEPT ![f] = NoFlush]
    BY <1>7 DEF FlushList
  <2>. HIDE DEF cached
  <2>3. q \in FlushState /\ q.pc = "chat"
    BY <1>0, <2>1 DEF FlushState, FlushPC
  <2>. HIDE DEF q
  <2>4. Flushing'
    BY <1>1, <2>2, <2>3, NoFlushType
  <2>. QED
    BY <1>2, <1>3, <1>7, <2>4, SameHandler DEF FlushList
<1>8. CASE FlushGet(f)
  <2>1. Flushing'
    BY <1>8, TypedGet
  <2>. QED
    BY <1>2, <1>3, <1>8, <2>1, SameHandler DEF FlushGet
<1>9. CASE FlushPublish(f)
  <2>1. Flushing' /\ delivered' \subseteq Chats \X Messages
    BY <1>9, TypedPublish
  <2>. QED
    BY <1>2, <1>9, <2>1, SameHandler DEF FlushPublish
<1>10. CASE FlushDelete(f)
  <2>1. Flushing'
    BY <1>1, <1>10, NoFlushType DEF FlushDelete
  <2>2. rows' \in Seq(CacheRow)
    <3>1. rows' = <<>> \/ rows' = rows
      BY <1>10 DEF FlushDelete
    <3>2. <<>> \in Seq(CacheRow) /\ rows \in Seq(CacheRow)
      BY DEF Typed, TypeOK
    <3>. QED
      BY <3>1, <3>2
  <2>3. UNCHANGED <<scenario, device, expired, chats, sync, once, finished, delivered, panicked>>
    BY <1>10 DEF FlushDelete, handler
  <2>4. device # "blank"
    BY <1>2, <1>10 DEF FlushDelete
  <2>5. Handling'
    BY <2>3, <2>4 DEF Typed, Handling, History
  <2>6. TypeOK'
    <3>1. \A g \in Flushes :
             /\ flush'[g].pc \in FlushPC /\ flush'[g].late \in BOOLEAN
             /\ flush'[g].todo \subseteq Chats /\ flush'[g].chat \in Chats \cup {NoChat}
             /\ flush'[g].left \in Seq(Messages) /\ flush'[g].out \in Seq(Seq(Messages))
      BY <2>1, FlushTypes DEF Flushing
    <3>. QED
      BY <2>2, <2>3, <3>1 DEF Typed, TypeOK, History
  <2>. QED
    BY <2>1, <2>5, <2>6 DEF Typed
<1>11. CASE ContextExpires(f)
  <2>. DEFINE q == [flush[f] EXCEPT !.late = TRUE]
  <2>1. flush' = [flush EXCEPT ![f] = q]
    BY <1>11 DEF ContextExpires
  <2>2. q \in FlushState /\ q.pc = flush[f].pc /\ q.chat = flush[f].chat
    BY <1>0 DEF FlushState
  <2>3. flush[f].pc = "publish" => flush[f].chat \in Chats
    BY DEF Typed, Flushing
  <2>. HIDE DEF q
  <2>4. Flushing'
    BY <2>1, <2>2, <2>3, FlushMoves DEF Typed
  <2>. QED
    BY <1>2, <1>3, <1>11, <2>4, SameHandler DEF ContextExpires
<1>. QED
  BY <1>4, <1>5, <1>6, <1>7, <1>8, <1>9, <1>10, <1>11 DEF Flush

LEMMA TypedWorld ==
    ASSUME Typed, PairSuccess \/ RowsExpire \/ DeviceDeleted \/ Restart
    PROVE  Typed'
<1>0. /\ scenario \in DOMAIN Scenarios
      /\ sync \in [pc: {"idle", "cache"}, batch: 0..Len(History), conv: Nat]
      /\ Len(History) \in Nat
  BY ScenarioParts DEF Typed, TypeOK
<1>1. CASE PairSuccess
  <2>1. UNCHANGED <<scenario, rows, expired, chats, sync, flush, delivered, panicked>>
        /\ device' = "paired" /\ once' = FALSE /\ finished' = 0
    BY <1>1 DEF PairSuccess
  <2>. QED
    BY <2>1 DEF Typed, TypeOK, Flushing, Handling, History
<1>2. CASE RowsExpire
  <2>1. UNCHANGED <<scenario, device, rows, chats, sync, once, finished, flush, delivered, panicked>>
    BY <1>2 DEF RowsExpire, handler
  <2>2. expired' \in 0..Len(History)
    BY <1>0, <1>2 DEF RowsExpire, Typed, TypeOK
  <2>. QED
    BY <2>1, <2>2 DEF Typed, TypeOK, Flushing, Handling, History
<1>3. CASE DeviceDeleted
  <2>1. UNCHANGED <<scenario, expired, sync, once, finished, flush, delivered, panicked>>
        /\ device' = "deleted" /\ rows' = <<>> /\ chats' = {}
    BY <1>3 DEF DeviceDeleted, handler
  <2>2. rows' \in Seq(CacheRow)
    BY <2>1
  <2>. QED
    BY <2>1, <2>2 DEF Typed, TypeOK, Flushing, Handling, History
<1>4. CASE Restart
  <2>1. /\ flush' = [f \in Flushes |-> NoFlush] /\ sync' = [sync EXCEPT !.pc = "idle"]
        /\ once' = FALSE /\ UNCHANGED <<scenario, device, rows, expired, chats, finished, delivered, panicked>>
    BY <1>4 DEF Restart, tables
  <2>2. /\ sync' \in [pc: {"idle", "cache"}, batch: 0..Len(History), conv: Nat]
        /\ sync'.pc = "idle"
    BY <1>0, <2>1
  <2>3. Flushing'
    BY <2>1, NoFlushType DEF Flushing
  <2>4. Handling'
    <3>1. device = "blank" => sync' = Idle
      BY <2>1 DEF Typed, Handling, Idle
    <3>. QED
      BY <2>1, <2>2, <3>1, NoFlushType DEF Handling
  <2>5. TypeOK'
    <3>1. \A g \in Flushes :
             /\ flush'[g].pc \in FlushPC /\ flush'[g].late \in BOOLEAN
             /\ flush'[g].todo \subseteq Chats /\ flush'[g].chat \in Chats \cup {NoChat}
             /\ flush'[g].left \in Seq(Messages) /\ flush'[g].out \in Seq(Seq(Messages))
      BY <2>3, FlushTypes DEF Flushing
    <3>. QED
      BY <2>1, <2>2, <3>1 DEF Typed, TypeOK, History
  <2>. QED
    BY <2>3, <2>4, <2>5 DEF Typed
<1>. QED
  BY <1>1, <1>2, <1>3, <1>4

LEMMA StepTyped == Typed /\ [Next]_vars => Typed'
<1>. SUFFICES ASSUME Typed, [Next]_vars PROVE Typed'
  OBVIOUS
<1>1. CASE UNCHANGED vars
  BY <1>1 DEF vars, tables, handler, Typed, TypeOK, Flushing, Handling, History
<1>. QED
  BY <1>1, TypedHandler, TypedFlush, TypedWorld DEF Next

LEMMA SpecTyped == Spec => []Typed
BY InitTyped, StepTyped, PTL DEF Spec
-----------------------------------------------------------------------------
(* initial_sync_finished. *)

\* Once the event is out, the flag is set for as long as batches may come.
Flagged ==
    ~May("restart") =>
        /\ finished <= 1
        /\ finished > 0 => once \/ (device = "deleted" /\ sync.pc = "idle")

LEMMA StepFlagged == Typed /\ Flagged /\ [Next]_vars => Flagged'
<1>. SUFFICES ASSUME Typed, Flagged, [Next]_vars PROVE Flagged'
  OBVIOUS
<1>0. finished \in Nat /\ once \in BOOLEAN /\ device \in {"blank", "paired", "deleted"}
  BY DEF Typed, TypeOK
<1>1. ASSUME UNCHANGED <<scenario, device, sync, once, finished>> PROVE Flagged'
  BY <1>1 DEF Flagged, May
<1>2. CASE PairSuccess
  BY <1>2 DEF PairSuccess, Flagged, May
<1>3. CASE HistorySyncBegin
  BY <1>3 DEF HistorySyncBegin, Flagged, May
<1>4. CASE HistorySyncProjected
  BY <1>4 DEF HistorySyncProjected, Flagged, May, tables
<1>5. CASE CacheConversation
  <2>1. sync.pc = "cache" /\ UNCHANGED <<scenario, device, once, finished>>
    BY <1>5 DEF CacheConversation
  <2>2. finished > 0 /\ ~May("restart") => once
    BY <2>1 DEF Flagged
  <2>. QED
    BY <2>1, <2>2 DEF Flagged, May
<1>6. CASE HistorySyncEnd
  <2>1. sync.pc = "cache" /\ UNCHANGED <<scenario, device>>
    BY <1>6 DEF HistorySyncEnd, tables
  <2>2. finished > 0 /\ ~May("restart") => once
    BY <2>1 DEF Flagged
  <2>3. CASE once' = once /\ finished' = finished
    BY <2>1, <2>2, <2>3 DEF Flagged, May
  <2>4. CASE ~once /\ once' = TRUE /\ finished' \in {finished, finished + 1}
    <3>1. ~May("restart") => finished = 0
      BY <1>0, <2>2, <2>4
    <3>. QED
      BY <1>0, <2>1, <2>4, <3>1 DEF Flagged, May
  <2>. QED
    BY <1>6, <2>3, <2>4 DEF HistorySyncEnd
<1>7. CASE RowsExpire \/ DeviceDeleted
  BY <1>7 DEF RowsExpire, DeviceDeleted, Flagged, May, handler
<1>8. CASE Restart
  BY <1>8 DEF Restart, Flagged, May, tables
<1>9. ASSUME NEW f \in Flushes, FlushRequest(f) \/ Flush(f) \/ ContextExpires(f) PROVE Flagged'
  <2>1. CASE FlushDevice(f) /\ device # "paired"
    <3>1. device = "deleted"
      BY <1>0, <2>1 DEF Typed, Handling, FlushDevice
    <3>2. sync' = [sync EXCEPT !.pc = "idle"] /\ UNCHANGED <<scenario, device, finished>>
      BY <2>1 DEF FlushDevice, tables
    <3>3. sync'.pc = "idle"
      BY <3>2 DEF Typed, TypeOK
    <3>. QED
      BY <3>1, <3>2, <3>3 DEF Flagged, May
  <2>2. CASE FlushDevice(f) /\ device = "paired"
    BY <1>1, <2>2 DEF FlushDevice, tables, handler
  <2>3. CASE ~FlushDevice(f)
    BY <1>1, <1>9, <2>3 DEF FlushRequest, Flush, FlushCheck, FlushList, FlushGet, FlushPublish,
                            FlushDelete, ContextExpires, tables, handler
  <2>. QED
    BY <2>1, <2>2, <2>3
<1>10. CASE UNCHANGED vars
  BY <1>1, <1>10 DEF vars, tables, handler
<1>. QED
  BY <1>2, <1>3, <1>4, <1>5, <1>6, <1>7, <1>8, <1>9, <1>10 DEF Next, Handler

\* initial_sync_finished is published once per pairing, however many batches
\* say that they are complete and whatever is logged out or runs out of time,
\* unless the process starts again.
THEOREM SpecFinishedOncePerPairing == Spec => []FinishedOncePerPairing
<1>1. Init => Flagged
  BY DEF Init, Flagged
<1>2. Flagged => FinishedOncePerPairing
  BY DEF Flagged, FinishedOncePerPairing
<1>. QED
  BY <1>1, <1>2, SpecTyped, StepFlagged, PTL DEF Spec

-----------------------------------------------------------------------------
(* Chunks. *)

\* What a flush has published of a chat and what is left of it have no
\* message in common, and only the last chunk is not full.
ChunksOf(r) ==
    /\ IsInjective(FlattenSeq(r.out) \o r.left)
    /\ \A i \in DOMAIN r.out :
         /\ Len(r.out[i]) \in 1..ChunkSize
         /\ i < Len(r.out) \/ r.pc = "publish" => Len(r.out[i]) = ChunkSize
    /\ r.pc = "publish" => r.left # <<>>

Chunked == \A f \in Flushes : ChunksOf(flush[f])

LEMMA NoChunks ==
    ASSUME NEW r, r.out = <<>>, IsInjective(r.left), r.left \in Seq(Messages),
           r.pc = "publish" => r.left # <<>>
    PROVE  ChunksOf(r)
<1>1. FlattenSeq(r.out) = <<>>
  BY DEF FlattenSeq
<1>2. FlattenSeq(r.out) \o r.left = r.left
  BY <1>1
<1>3. DOMAIN r.out = {}
  OBVIOUS
<1>. HIDE DEF IsInjective
<1>4. IsInjective(FlattenSeq(r.out) \o r.left)
  BY <1>2
<1>. QED
  BY <1>3, <1>4 DEF ChunksOf

LEMMA SameChunks ==
    ASSUME NEW r, NEW q, ChunksOf(r), q.out = r.out, q.left = r.left, r.pc = "publish" \/ q.pc # "publish"
    PROVE  ChunksOf(q)
BY DEF ChunksOf

LEMMA NextChunked ==
    ASSUME Flushing, Chunked, NEW f \in Flushes, NEW r, ChunksOf(r), flush' = [flush EXCEPT ![f] = r]
    PROVE  Chunked'
<1>1. \A g \in Flushes : flush'[g] = r \/ flush'[g] = flush[g]
  BY DEF Flushing
<1>. QED
  BY <1>1 DEF Chunked

LEMMA IdleChunks == ChunksOf(NoFlush)
<1>1. NoFlush.out = <<>> /\ NoFlush.left = <<>> /\ NoFlush.pc = "idle"
  BY DEF NoFlush
<1>2. IsInjective(NoFlush.left) /\ NoFlush.left \in Seq(Messages)
  BY <1>1 DEF IsInjective
<1>. QED
  BY <1>1, <1>2, NoChunks

LEMMA PublishChunks ==
    ASSUME Typed, NEW f \in Flushes, ChunksOf(flush[f]), FlushPublish(f), Chunked
    PROVE  Chunked'
<1>0. flush[f] \in FlushState /\ flush[f].left \in Seq(Messages) /\ flush[f].out \in Seq(Seq(Messages))
  BY FlushTypes DEF Typed, Flushing
<1>. DEFINE left == flush[f].left
            chunk == NextChunk(left)
            rest == SubSeq(left, Len(chunk) + 1, Len(left))
            out == flush[f].out
            pc == IF rest = <<>> THEN "chat" ELSE "publish"
            r == [flush[f] EXCEPT !.left = rest, !.out = Append(out, chunk), !.pc = pc]
<1>1. flush' = [flush EXCEPT ![f] = r]
  BY DEF FlushPublish
<1>2. left # <<>> /\ flush[f].pc = "publish"
  BY DEF FlushPublish, ChunksOf
<1>3. /\ chunk \in Seq(Messages) /\ rest \in Seq(Messages)
      /\ Len(chunk) \in 1..ChunkSize
      /\ rest # <<>> => Len(chunk) = ChunkSize
      /\ chunk \o rest = left
  <2>1. chunk = NextChunk(left) /\ rest = SubSeq(left, Len(chunk) + 1, Len(left)) /\ left \in Seq(Messages)
    BY <1>0
  <2>. HIDE DEF chunk, rest, left
  <2>. QED
    BY <1>2, <2>1, ChunkIs
<1>4. pc = "publish" => rest # <<>>
  OBVIOUS
<1>5. out \in Seq(Seq(Messages))
  BY <1>0
<1>6. /\ IsInjective(FlattenSeq(out) \o left)
      /\ \A i \in DOMAIN out : Len(out[i]) = ChunkSize
  BY <1>2 DEF ChunksOf
<1>. HIDE DEF chunk, rest, pc, left, out
<1>7. r.left = rest /\ r.out = Append(out, chunk) /\ r.pc = pc
  BY <1>0 DEF FlushState
<1>. HIDE DEF r
<1>8. FlattenSeq(out) \in Seq(Messages) /\ FlattenSeq(Append(out, chunk)) = FlattenSeq(out) \o chunk
  BY <1>3, <1>5, FlattenAppend
<1>9. FlattenSeq(r.out) \o r.left = FlattenSeq(out) \o left
  <2>. DEFINE flat == FlattenSeq(out)
  <2>1. flat \in Seq(Messages)
    BY <1>8
  <2>2. FlattenSeq(r.out) = flat \o chunk
    BY <1>7, <1>8
  <2>. HIDE DEF flat
  <2>0. chunk \in Seq(Messages) /\ rest \in Seq(Messages)
    BY <1>3
  <2>3. (flat \o chunk) \o rest = flat \o (chunk \o rest)
    BY <2>0, <2>1, ConcatAssociative
  <2>. QED
    BY <1>3, <1>7, <2>2, <2>3 DEF flat
<1>10. ASSUME NEW i \in DOMAIN r.out
       PROVE  /\ Len(r.out[i]) \in 1..ChunkSize
              /\ i < Len(r.out) \/ r.pc = "publish" => Len(r.out[i]) = ChunkSize
  <2>1. /\ Len(out) \in Nat /\ DOMAIN out = 1..Len(out) /\ Len(r.out) = Len(out) + 1
        /\ DOMAIN r.out = 1..(Len(out) + 1)
        /\ r.out[Len(out) + 1] = chunk
        /\ \A k \in 1..Len(out) : r.out[k] = out[k]
    BY <1>3, <1>5, <1>7
  <2>2. CASE i = Len(out) + 1
    BY <1>3, <1>4, <1>7, <2>1, <2>2
  <2>3. CASE i # Len(out) + 1
    <3>1. i \in DOMAIN out
      BY <2>1, <2>3
    <3>2. Len(r.out[i]) = ChunkSize
      BY <1>6, <2>1, <3>1
    <3>. QED
      BY <3>2, HistoryAssumption
  <2>. QED
    BY <2>2, <2>3
<1>11. ChunksOf(r)
  BY <1>4, <1>6, <1>7, <1>9, <1>10 DEF ChunksOf
<1>. QED
  BY <1>1, <1>11, NextChunked DEF Typed

LEMMA StepChunked == Typed /\ Chunked /\ [Next]_vars => Chunked'
<1>. SUFFICES ASSUME Typed, Chunked, [Next]_vars PROVE Chunked'
  OBVIOUS
<1>1. CASE flush' = flush
  BY <1>1 DEF Chunked
<1>2. CASE flush' = [f \in Flushes |-> NoFlush]
  BY <1>2, IdleChunks DEF Chunked
<1>3. ASSUME NEW f \in Flushes, NEW r, flush' = [flush EXCEPT ![f] = r], ChunksOf(r) PROVE Chunked'
  BY <1>3, NextChunked DEF Typed
<1>4. ASSUME NEW f \in Flushes, FlushRequest(f) \/ Flush(f) \/ ContextExpires(f) PROVE Chunked'
  <2>0. flush[f] \in FlushState /\ ChunksOf(flush[f])
    BY DEF Typed, Flushing, Chunked
  <2>1. CASE FlushRequest(f)
    <3>. DEFINE r == [NoFlush EXCEPT !.pc = "check"]
    <3>1. r.out = NoFlush.out /\ r.left = NoFlush.left /\ r.pc = "check"
      BY DEF NoFlush
    <3>2. ChunksOf(r)
      BY <3>1, IdleChunks, SameChunks
    <3>. QED
      BY <1>3, <2>1, <3>2 DEF FlushRequest
  <2>2. ASSUME NEW pc \in FlushPC \ {"publish"}
        PROVE  ChunksOf([flush[f] EXCEPT !.pc = pc])
    <3>. DEFINE r == [flush[f] EXCEPT !.pc = pc]
    <3>1. r.out = flush[f].out /\ r.left = flush[f].left /\ r.pc = pc
      BY <2>0 DEF FlushState
    <3>. HIDE DEF r
    <3>2. ChunksOf(r)
      BY <2>0, <3>1, SameChunks
    <3>. QED
      BY <3>2 DEF r
  <2>3. CASE FlushCheck(f)
    <3>1. flush' = [flush EXCEPT ![f] = [flush[f] EXCEPT !.pc = "device"]] \/ flush' = [flush EXCEPT ![f] = NoFlush]
      BY <2>3 DEF FlushCheck
    <3>2. "device" \in FlushPC \ {"publish"}
      BY DEF FlushPC
    <3>. QED
      BY <1>3, <2>2, <3>1, <3>2, IdleChunks
  <2>4. CASE FlushDevice(f)
    <3>1. \/ flush' = [flush EXCEPT ![f] = [flush[f] EXCEPT !.pc = "list"]]
          \/ flush' = [g \in Flushes |-> NoFlush]
      BY <2>4 DEF FlushDevice
    <3>2. "list" \in FlushPC \ {"publish"}
      BY DEF FlushPC
    <3>. QED
      BY <1>2, <1>3, <2>2, <3>1, <3>2
  <2>5. CASE FlushList(f)
    <3>. DEFINE cached == {row.chat : row \in {r \in ToSet(rows) : r.batch > expired}}
                q == [flush[f] EXCEPT !.pc = "chat", !.todo = cached]
    <3>1. flush' = [flush EXCEPT ![f] = q] \/ flush' = [flush EXCEPT ![f] = NoFlush]
      BY <2>5 DEF FlushList
    <3>2. q.out = flush[f].out /\ q.left = flush[f].left /\ q.pc = "chat"
      BY <2>0 DEF FlushState
    <3>. HIDE DEF q
    <3>3. ChunksOf(q)
      BY <2>0, <3>2, SameChunks
    <3>. QED
      BY <1>3, <3>1, <3>3, IdleChunks
  <2>6. CASE FlushGet(f)
    <3>1. PICK chat \in flush[f].todo :
            \/ flush' = [flush EXCEPT ![f] = [flush[f] EXCEPT
                         !.todo = @ \ {chat}, !.chat = chat, !.left = Deduplicated(ArraysOf(chat)),
                         !.out = <<>>,
                         !.pc = IF Deduplicated(ArraysOf(chat)) = <<>> THEN "chat" ELSE "publish"]]
            \/ flush' = [flush EXCEPT ![f].todo = @ \ {chat}]
      BY <2>6 DEF FlushGet
    <3>. DEFINE left == Deduplicated(ArraysOf(chat))
                todo == flush[f].todo \ {chat}
                pc == IF left = <<>> THEN "chat" ELSE "publish"
                r == [flush[f] EXCEPT !.todo = todo, !.chat = chat, !.left = left, !.out = <<>>, !.pc = pc]
                q == [flush[f] EXCEPT !.todo = todo]
    <3>2. left \in Seq(Messages) /\ IsInjective(left)
      BY FetchedIs
    <3>3. pc = "publish" => left # <<>>
      OBVIOUS
    <3>4. flush' = [flush EXCEPT ![f] = r] \/ flush' = [flush EXCEPT ![f] = q]
      BY <3>1
    <3>. HIDE DEF left, todo, pc
    <3>5. r.out = <<>> /\ r.left = left /\ r.pc = pc
      BY <2>0 DEF FlushState
    <3>6. q.out = flush[f].out /\ q.left = flush[f].left /\ q.pc = flush[f].pc
      BY <2>0 DEF FlushState
    <3>. HIDE DEF r, q
    <3>7. ChunksOf(r)
      BY <3>2, <3>3, <3>5, NoChunks
    <3>8. ChunksOf(q)
      BY <2>0, <3>6, SameChunks
    <3>. QED
      BY <1>3, <3>4, <3>7, <3>8
  <2>7. CASE FlushPublish(f)
    BY <2>0, <2>7, PublishChunks
  <2>8. CASE FlushDelete(f)
    BY <1>3, <2>8, IdleChunks DEF FlushDelete
  <2>9. CASE ContextExpires(f)
    <3>. DEFINE q == [flush[f] EXCEPT !.late = TRUE]
    <3>1. flush' = [flush EXCEPT ![f] = q]
      BY <2>9 DEF ContextExpires
    <3>2. q.out = flush[f].out /\ q.left = flush[f].left /\ q.pc = flush[f].pc
      BY <2>0 DEF FlushState
    <3>. HIDE DEF q
    <3>3. ChunksOf(q)
      BY <2>0, <3>2, SameChunks
    <3>. QED
      BY <1>3, <3>1, <3>3
  <2>. QED
    BY <1>4, <2>1, <2>3, <2>4, <2>5, <2>6, <2>7, <2>8, <2>9 DEF Flush
<1>5. CASE PairSuccess \/ Handler \/ RowsExpire \/ DeviceDeleted
  BY <1>1, <1>5 DEF PairSuccess, Handler, HistorySyncBegin, HistorySyncProjected, CacheConversation,
                    HistorySyncEnd, RowsExpire, DeviceDeleted
<1>6. CASE Restart
  BY <1>2, <1>6 DEF Restart
<1>7. CASE UNCHANGED vars
  BY <1>1, <1>7 DEF vars
<1>. QED
  BY <1>4, <1>5, <1>6, <1>7 DEF Next

\* A flush publishes no message of a chat twice, in no chunk more than
\* historySyncChunkSize and in none but the last one less, for any chunk size
\* and however batches overlap, rows expire or the cache is emptied by
\* another flush.
THEOREM SpecNoMessageTwice == Spec => []NoMessageTwice
<1>1. Init => Chunked
  BY IdleChunks DEF Init, Chunked
<1>2. Typed /\ Chunked => NoMessageTwice
  BY DEF Typed, Chunked, ChunksOf, NoMessageTwice
<1>. QED
  BY <1>1, <1>2, SpecTyped, StepChunked, PTL DEF Spec
-----------------------------------------------------------------------------
(* Nothing is lost. *)

\* As wiki/History-Sync.md tells it, a RECENT batch that says it is complete
\* is the last one with a history to cache.
RecentComesLast ==
    \A s \in DOMAIN Scenarios : Scenarios[s].faults \subseteq {"context", "logout"} =>
        \A i, j \in DOMAIN Scenarios[s].history :
            /\ i < j
            /\ Scenarios[s].history[i].type = "recent" /\ Scenarios[s].history[i].complete
            => ~Tracked(Scenarios[s].history[j])

\* What a conversation brings, and the first ones of a batch.
Of(conv) == IF WorthCaching(conv) THEN {conv.chat} \X ToSet(Projected(conv.msgs)) ELSE {}
Part(batch, k) == UNION {Of(batch.convs[i]) : i \in 1..k}

\* What the first n batches bring.
Whole(history, n) ==
    UNION {Part(history[k], Len(history[k].convs)) : k \in {k \in 1..n : Tracked(history[k])}}

\* What has come of the batches handled and of the one in hand.
Came(history, at) ==
    IF at.pc = "idle" THEN Whole(history, at.batch)
    ELSE Whole(history, at.batch - 1) \cup Part(history[at.batch], at.conv - 1)

\* What a table holds.
HeldIn(table) == UNION {{row.chat} \X ToSet(row.msgs) : row \in ToSet(table)}

\* Whatever is cached a flush in time has published, has in its buffer or has
\* still to ask for.
Serves(r, table, published) ==
    r.pc \in {"chat", "publish"} /\ ~r.late =>
        \A row \in ToSet(table) : \A m \in ToSet(row.msgs) :
            \/ <<row.chat, m>> \in published
            \/ row.chat \in r.todo
            \/ r.pc = "publish" /\ row.chat = r.chat /\ m \in ToSet(r.left)

\* No row is past its time.
AllFresh == expired = 0 /\ \A row \in ToSet(rows) : row.batch > 0

\* After the event no batch adds to the cache, and flushes come only then.
Settled == sync.pc = "idle" /\ \A k \in DOMAIN History : k > sync.batch => ~Tracked(History[k])
InOrder ==
    /\ finished > 0 => Settled
    /\ \A f \in Flushes : flush[f].pc # "idle" => finished > 0

Kept ==
    Documented =>
        /\ AllFresh
        /\ InOrder
        /\ device = "paired" => Came(History, sync) \subseteq HeldIn(rows) \cup delivered
        /\ device = "paired" => \A f \in Flushes : Serves(flush[f], rows, delivered)

LEMMA PartNext ==
    ASSUME NEW batch, NEW i \in Nat
    PROVE  /\ Part(batch, 0) = {}
           /\ Part(batch, i + 1) = Part(batch, i) \cup Of(batch.convs[i + 1])
<1>1. 1..0 = {} /\ 1..(i + 1) = (1..i) \cup {i + 1}
  OBVIOUS
<1>. QED
  BY <1>1 DEF Part

LEMMA WholeNext ==
    ASSUME NEW history, NEW n \in Nat
    PROVE  /\ Whole(history, 0) = {}
           /\ ~Tracked(history[n + 1]) => Whole(history, n + 1) = Whole(history, n)
           /\ Tracked(history[n + 1]) =>
                Whole(history, n + 1) =
                  Whole(history, n) \cup Part(history[n + 1], Len(history[n + 1].convs))
<1>1. 1..0 = {} /\ 1..(n + 1) = (1..n) \cup {n + 1}
  OBVIOUS
<1>2. {k \in 1..(n + 1) : Tracked(history[k])}
      = {k \in 1..n : Tracked(history[k])} \cup
          (IF Tracked(history[n + 1]) THEN {n + 1} ELSE {})
  BY <1>1
<1>. QED
  BY <1>1, <1>2 DEF Whole

LEMMA ExpectedIs ==
    ASSUME scenario \in DOMAIN Scenarios, NEW n \in 0..Len(History)
    PROVE  Expected(n) = Whole(History, n)
<1>1. ASSUME NEW k \in 1..n PROVE Content(k) = Part(History[k], Len(History[k].convs))
  <2>1. DOMAIN History[k].convs = 1..Len(History[k].convs)
    BY ScenarioParts
  <2>. QED
    BY <2>1 DEF Content, Part, Of
<1>. QED
  BY <1>1 DEF Expected, Whole

LEMMA HeldInIs ==
    /\ Cached = HeldIn(rows)
    /\ HeldIn(<<>>) = {}
    /\ \A table, c, m : <<c, m>> \in HeldIn(table) <=>
         \E row \in ToSet(table) : row.chat = c /\ m \in ToSet(row.msgs)
<1>1. ToSet(<<>>) = {}
  BY DEF ToSet
<1>2. HeldIn(<<>>) = {}
  BY <1>1 DEF HeldIn
<1>3. \A table, c, m : <<c, m>> \in HeldIn(table) <=>
         \E row \in ToSet(table) : row.chat = c /\ m \in ToSet(row.msgs)
  BY DEF HeldIn
<1>. QED
  BY <1>2, <1>3 DEF Cached, HeldIn

\* The table after a conversation is cached.
LEMMA InsertIs ==
    ASSUME rows \in Seq(CacheRow), AllFresh, NEW row \in CacheRow
    PROVE  /\ ToSet(Append(Fresh(rows), row)) = ToSet(rows) \cup {row}
           /\ HeldIn(Append(Fresh(rows), row)) = HeldIn(rows) \cup ({row.chat} \X ToSet(row.msgs))
<1>1. Fresh(rows) \in Seq(CacheRow) /\ ToSet(Fresh(rows)) = ToSet(rows)
  BY FreshIs DEF AllFresh
<1>2. ToSet(Append(Fresh(rows), row)) = ToSet(rows) \cup {row}
  <2>. DEFINE s == Fresh(rows)
  <2>1. s \in Seq(CacheRow) /\ <<row>> \in Seq(CacheRow) /\ Append(s, row) = s \o <<row>>
    BY <1>1
  <2>2. ToSet(<<row>>) = {row}
    BY DEF ToSet
  <2>3. ToSet(s) = ToSet(rows)
    BY <1>1
  <2>. HIDE DEF s
  <2>4. ToSet(s \o <<row>>) = ToSet(s) \cup ToSet(<<row>>)
    BY <2>1, ConcatElements
  <2>5. ToSet(Append(s, row)) = ToSet(rows) \cup {row}
    BY <2>1, <2>2, <2>3, <2>4
  <2>. QED
    BY <2>5 DEF s
<1>. QED
  BY <1>2 DEF HeldIn
LEMMA InitKept == Init => Kept
<1>. SUFFICES ASSUME Init PROVE Kept
  OBVIOUS
<1>1. ToSet(rows) = {}
  BY DEF Init, ToSet
<1>2. AllFresh
  BY <1>1 DEF Init, AllFresh
<1>3. InOrder
  BY DEF Init, InOrder, NoFlush
<1>. QED
  BY <1>2, <1>3 DEF Init, Kept

\* What a step of a flush that leaves the tables alone must show.
LEMMA KeptByFlush ==
    ASSUME Typed, Kept, Documented, NEW f \in Flushes, NEW r,
           flush' = [flush EXCEPT ![f] = r],
           UNCHANGED <<tables, handler>>, delivered \subseteq delivered',
           r.pc # "idle" => finished > 0,
           device = "paired" => Serves(r, rows, delivered')
    PROVE  Kept'
<1>1. flush \in [Flushes -> FlushState]
  BY DEF Typed, Flushing
<1>2. AllFresh'
  BY DEF Kept, AllFresh, tables
<1>3. InOrder'
  BY <1>1 DEF Kept, InOrder, Settled, tables, handler, History
<1>4. ASSUME device = "paired" PROVE Came(History', sync') \subseteq HeldIn(rows') \cup delivered'
  <2>1. Came(History, sync) \subseteq HeldIn(rows) \cup delivered
    BY <1>4 DEF Kept
  <2>2. History' = History /\ sync' = sync /\ rows' = rows
    BY DEF History, tables, handler
  <2>. QED
    BY <2>1, <2>2
<1>5. ASSUME device = "paired", NEW g \in Flushes PROVE Serves(flush'[g], rows', delivered')
  <2>1. CASE g = f
    BY <1>1, <1>5, <2>1 DEF tables
  <2>2. CASE g # f
    <3>1. Serves(flush[g], rows, delivered) /\ flush'[g] = flush[g] /\ rows' = rows
      BY <1>1, <1>5, <2>2 DEF Kept, tables
    <3>. QED
      BY <3>1 DEF Serves
  <2>. QED
    BY <2>1, <2>2
<1>6. device' = device
  BY DEF tables
<1>. QED
  BY <1>2, <1>3, <1>4, <1>5, <1>6 DEF Kept

LEMMA KeptGet ==
    ASSUME Typed, Kept, Documented, NEW f \in Flushes, FlushGet(f)
    PROVE  Kept'
<1>0. flush[f] \in FlushState /\ flush[f].pc = "chat" /\ finished > 0
  BY DEF Typed, Flushing, FlushGet, Kept, InOrder
<1>1. UNCHANGED <<tables, handler, delivered>>
  BY DEF FlushGet
<1>2. ~May("store")
  BY DEF Documented, May
<1>3. PICK chat \in flush[f].todo :
         \/ /\ ~flush[f].late
            /\ flush' = [flush EXCEPT ![f] = [flush[f] EXCEPT
                 !.todo = @ \ {chat}, !.chat = chat, !.left = Deduplicated(ArraysOf(chat)), !.out = <<>>,
                 !.pc = IF Deduplicated(ArraysOf(chat)) = <<>> THEN "chat" ELSE "publish"]]
         \/ /\ flush[f].late
            /\ flush' = [flush EXCEPT ![f].todo = @ \ {chat}]
  BY <1>2 DEF FlushGet
<1>. DEFINE left == Deduplicated(ArraysOf(chat))
            pc == IF left = <<>> THEN "chat" ELSE "publish"
            r == [flush[f] EXCEPT !.todo = flush[f].todo \ {chat}, !.chat = chat, !.left = left,
                                  !.out = <<>>, !.pc = pc]
            q == [flush[f] EXCEPT !.todo = flush[f].todo \ {chat}]
<1>4. ToSet(left) = In(chat)
  BY FetchedIs
<1>5. pc \in {"chat", "publish"} /\ (pc = "chat" => ToSet(left) = {})
  BY DEF ToSet
<1>6. CASE flush' = [flush EXCEPT ![f] = r] /\ ~flush[f].late
  <2>. HIDE DEF left, pc
  <2>1. /\ r.todo = flush[f].todo \ {chat} /\ r.chat = chat /\ r.left = left
        /\ r.pc = pc /\ r.late = flush[f].late
    BY <1>0 DEF FlushState
  <2>2. ASSUME device = "paired" PROVE Serves(r, rows, delivered)
    <3>1. Serves(flush[f], rows, delivered) /\ AllFresh
      BY <2>2 DEF Kept
    <3>2. \A row \in ToSet(rows) : \A m \in ToSet(row.msgs) :
            <<row.chat, m>> \in delivered \/ row.chat \in flush[f].todo
      BY <1>0, <1>6, <3>1 DEF Serves
    <3>3. \A row \in ToSet(rows) : \A m \in ToSet(row.msgs) : row.chat = chat => m \in ToSet(left)
      BY <1>4, <3>1 DEF In, AllFresh
    <3>4. ASSUME NEW row \in ToSet(rows), NEW m \in ToSet(row.msgs)
          PROVE  \/ <<row.chat, m>> \in delivered
                 \/ row.chat \in flush[f].todo \ {chat}
                 \/ pc = "publish" /\ row.chat = chat /\ m \in ToSet(left)
      BY <1>5, <3>2, <3>3
    <3>. HIDE DEF r
    <3>. QED
      BY <2>1, <3>4 DEF Serves
  <2>3. r.pc # "idle" => finished > 0
    BY <1>0
  <2>. HIDE DEF r
  <2>. QED
    BY <1>1, <1>6, <2>2, <2>3, KeptByFlush
<1>7. CASE flush' = [flush EXCEPT ![f] = q] /\ flush[f].late
  <2>1. q.late
    BY <1>0, <1>7 DEF FlushState
  <2>. HIDE DEF q
  <2>2. Serves(q, rows, delivered)
    BY <2>1 DEF Serves
  <2>. QED
    BY <1>0, <1>1, <1>7, <2>2, KeptByFlush
<1>. HIDE DEF pc, left
<1>8. \/ flush' = [flush EXCEPT ![f] = r] /\ ~flush[f].late
      \/ flush' = [flush EXCEPT ![f] = q] /\ flush[f].late
  BY <1>3 DEF pc, left
<1>. HIDE DEF r, q
<1>. QED
  BY <1>6, <1>7, <1>8

LEMMA KeptPublish ==
    ASSUME Typed, Kept, Documented, NEW f \in Flushes, FlushPublish(f)
    PROVE  Kept'
<1>0. flush[f] \in FlushState /\ flush[f].pc = "publish" /\ finished > 0
  BY DEF Typed, Flushing, FlushPublish, Kept, InOrder
<1>1. UNCHANGED <<tables, handler>>
  BY DEF FlushPublish
<1>2. ~May("publish")
  BY DEF Documented, May
<1>. DEFINE left == flush[f].left
            chunk == NextChunk(left)
            rest == SubSeq(left, Len(chunk) + 1, Len(left))
            pc == IF rest = <<>> THEN "chat" ELSE "publish"
            r == [flush[f] EXCEPT !.left = rest, !.out = Append(flush[f].out, chunk), !.pc = pc]
<1>3. /\ flush' = [flush EXCEPT ![f] = r]
      /\ \/ ~flush[f].late /\ delivered' = delivered \cup ({flush[f].chat} \X ToSet(chunk))
         \/ flush[f].late /\ delivered' = delivered
  BY <1>2 DEF FlushPublish
<1>4. left \in Seq(Messages)
  BY <1>0 DEF FlushState
<1>5. ToSet(left) \subseteq ToSet(chunk) \cup ToSet(rest)
  <2>1. CASE left = <<>>
    BY <2>1 DEF ToSet
  <2>2. CASE left # <<>>
    <3>1. chunk = NextChunk(left) /\ rest = SubSeq(left, Len(chunk) + 1, Len(left))
      OBVIOUS
    <3>. HIDE DEF chunk, rest, left
    <3>2. chunk \in Seq(Messages) /\ rest \in Seq(Messages) /\ chunk \o rest = left
      BY <1>4, <2>2, <3>1, ChunkIs
    <3>. QED
      BY <3>2, ConcatElements
  <2>. QED
    BY <2>1, <2>2
<1>. HIDE DEF left, chunk, rest
<1>6. pc \in {"chat", "publish"} /\ (pc = "chat" => ToSet(rest) = {})
  BY DEF ToSet
<1>. HIDE DEF pc
<1>7. /\ r.todo = flush[f].todo /\ r.chat = flush[f].chat /\ r.left = rest
      /\ r.pc = pc /\ r.late = flush[f].late
  BY <1>0 DEF FlushState
<1>. HIDE DEF r
<1>8. ASSUME device = "paired" PROVE Serves(r, rows, delivered')
  <2>1. CASE flush[f].late
    BY <1>7, <2>1 DEF Serves
  <2>2. CASE ~flush[f].late
    <3>1. Serves(flush[f], rows, delivered)
      BY <1>8 DEF Kept
    <3>2. delivered' = delivered \cup ({flush[f].chat} \X ToSet(chunk))
      BY <1>3, <2>2
    <3>3. ASSUME NEW row \in ToSet(rows), NEW m \in ToSet(row.msgs)
          PROVE  \/ <<row.chat, m>> \in delivered'
                 \/ row.chat \in flush[f].todo
                 \/ pc = "publish" /\ row.chat = flush[f].chat /\ m \in ToSet(rest)
      <4>1. \/ <<row.chat, m>> \in delivered
            \/ row.chat \in flush[f].todo
            \/ row.chat = flush[f].chat /\ m \in ToSet(left)
        BY <1>0, <2>2, <3>1 DEF Serves, left
      <4>. QED
        BY <1>5, <1>6, <3>2, <4>1
    <3>. QED
      BY <1>7, <3>3 DEF Serves
  <2>. QED
    BY <2>1, <2>2
<1>9. delivered \subseteq delivered'
  BY <1>3
<1>. QED
  BY <1>0, <1>1, <1>3, <1>8, <1>9, KeptByFlush
LEMMA KeptFlush ==
    ASSUME Typed, Kept, Documented, NEW f \in Flushes,
           FlushRequest(f) \/ Flush(f) \/ ContextExpires(f)
    PROVE  Kept'
<1>0. flush[f] \in FlushState /\ flush \in [Flushes -> FlushState]
  BY DEF Typed, Flushing
<1>1. ASSUME NEW r, flush' = [flush EXCEPT ![f] = r], r.pc \notin {"chat", "publish"},
             r.pc # "idle" => finished > 0, UNCHANGED <<tables, handler, delivered>>
      PROVE  Kept'
  <2>1. Serves(r, rows, delivered)
    BY <1>1 DEF Serves
  <2>. QED
    BY <1>1, <2>1, KeptByFlush
<1>2. flush[f].pc # "idle" => finished > 0
  BY DEF Kept, InOrder
<1>3. NoFlush.pc = "idle"
  BY NoFlushType
<1>4. ~May("early") /\ ~May("store")
  BY DEF Documented, May
<1>5. CASE FlushRequest(f)
  <2>. DEFINE r == [NoFlush EXCEPT !.pc = "check"]
  <2>1. r.pc = "check"
    BY DEF NoFlush
  <2>2. flush' = [flush EXCEPT ![f] = r] /\ finished > 0 /\ UNCHANGED <<tables, handler, delivered>>
    BY <1>4, <1>5 DEF FlushRequest
  <2>. HIDE DEF r
  <2>. QED
    BY <1>1, <2>1, <2>2
<1>6. CASE FlushCheck(f)
  <2>. DEFINE r == IF device = "paired" THEN [flush[f] EXCEPT !.pc = "device"] ELSE NoFlush
  <2>1. r.pc \in {"device", "idle"}
    BY <1>0, <1>3 DEF FlushState
  <2>2. /\ flush' = [flush EXCEPT ![f] = r] /\ flush[f].pc = "check"
        /\ UNCHANGED <<tables, handler, delivered>>
    BY <1>6 DEF FlushCheck
  <2>. HIDE DEF r
  <2>. QED
    BY <1>1, <1>2, <2>1, <2>2
<1>7. CASE FlushDevice(f)
  <2>1. CASE device = "paired"
    <3>. DEFINE r == [flush[f] EXCEPT !.pc = "list"]
    <3>1. r.pc = "list"
      BY <1>0 DEF FlushState
    <3>2. /\ flush' = [flush EXCEPT ![f] = r] /\ flush[f].pc = "device"
          /\ UNCHANGED <<tables, handler, delivered>>
      BY <1>7, <2>1 DEF FlushDevice
    <3>. HIDE DEF r
    <3>. QED
      BY <1>1, <1>2, <3>1, <3>2
  <2>2. CASE device # "paired"
    <3>1. /\ flush' = [g \in Flushes |-> NoFlush] /\ sync' = [sync EXCEPT !.pc = "idle"]
          /\ UNCHANGED <<tables, finished, delivered>>
      BY <1>7, <2>2 DEF FlushDevice
    <3>2. sync'.pc = "idle" /\ sync'.batch = sync.batch
      BY <3>1 DEF Typed, TypeOK
    <3>3. InOrder'
      BY <1>3, <3>1, <3>2 DEF Kept, InOrder, Settled, tables, History
    <3>4. AllFresh' /\ device' # "paired"
      BY <2>2, <3>1 DEF Kept, AllFresh, tables
    <3>. QED
      BY <3>3, <3>4 DEF Kept
  <2>. QED
    BY <2>1, <2>2
<1>8. CASE FlushList(f)
  <2>. DEFINE cached == {row.chat : row \in {r \in ToSet(rows) : r.batch > expired}}
              q == [flush[f] EXCEPT !.pc = "chat", !.todo = cached]
  <2>1. flush' = [flush EXCEPT ![f] = q] \/ flush' = [flush EXCEPT ![f] = NoFlush]
    BY <1>8 DEF FlushList
  <2>2. flush[f].pc = "list" /\ UNCHANGED <<tables, handler, delivered>>
    BY <1>8 DEF FlushList
  <2>3. \A row \in ToSet(rows) : row.chat \in cached
    BY DEF Kept, AllFresh
  <2>. HIDE DEF cached
  <2>4. q.todo = cached /\ q.pc = "chat"
    BY <1>0 DEF FlushState
  <2>5. Serves(q, rows, delivered)
    BY <2>3, <2>4 DEF Serves
  <2>. HIDE DEF q
  <2>6. CASE flush' = [flush EXCEPT ![f] = q]
    BY <1>2, <2>2, <2>5, <2>6, KeptByFlush
  <2>7. CASE flush' = [flush EXCEPT ![f] = NoFlush]
    BY <1>1, <1>3, <2>2, <2>7
  <2>. QED
    BY <2>1, <2>6, <2>7
<1>9. CASE FlushGet(f)
  BY <1>9, KeptGet
<1>10. CASE FlushPublish(f)
  BY <1>10, KeptPublish
<1>11. CASE FlushDelete(f)
  <2>1. /\ flush[f].pc = "chat" /\ flush[f].todo = {} /\ flush' = [flush EXCEPT ![f] = NoFlush]
        /\ UNCHANGED <<scenario, device, expired, chats, handler, delivered>>
    BY <1>11 DEF FlushDelete
  <2>2. CASE rows' = rows
    BY <1>1, <1>3, <2>1, <2>2 DEF tables
  <2>3. CASE ~flush[f].late /\ rows' = <<>>
    <3>1. ToSet(rows') = {} /\ HeldIn(rows') = {}
      BY <2>3, HeldInIs DEF ToSet
    <3>2. AllFresh'
      BY <2>1, <3>1 DEF Kept, AllFresh
    <3>3. InOrder'
      BY <1>0, <1>3, <2>1 DEF Kept, InOrder, Settled, handler, History
    <3>4. \A g \in Flushes : Serves(flush'[g], rows', delivered')
      BY <3>1 DEF Serves
    <3>5. ASSUME device = "paired" PROVE Came(History', sync') \subseteq HeldIn(rows') \cup delivered'
      <4>1. Serves(flush[f], rows, delivered) /\ Came(History, sync) \subseteq HeldIn(rows) \cup delivered
        BY <3>5 DEF Kept
      <4>2. \A row \in ToSet(rows) : \A m \in ToSet(row.msgs) : <<row.chat, m>> \in delivered
        BY <2>1, <2>3, <4>1 DEF Serves
      <4>3. HeldIn(rows) \subseteq delivered
        BY <4>2 DEF HeldIn
      <4>4. History' = History /\ sync' = sync /\ delivered' = delivered
        BY <2>1 DEF History, handler
      <4>. QED
        BY <4>1, <4>3, <4>4
    <3>6. device' = device
      BY <2>1
    <3>. QED
      BY <3>2, <3>3, <3>4, <3>5, <3>6 DEF Kept
  <2>. QED
    BY <1>4, <1>11, <2>2, <2>3 DEF FlushDelete
<1>12. CASE ContextExpires(f)
  <2>. DEFINE r == [flush[f] EXCEPT !.late = TRUE]
  <2>1. r.late /\ r.pc = flush[f].pc
    BY <1>0 DEF FlushState
  <2>2. flush' = [flush EXCEPT ![f] = r] /\ UNCHANGED <<tables, handler, delivered>>
    BY <1>12 DEF ContextExpires
  <2>. HIDE DEF r
  <2>3. Serves(r, rows, delivered)
    BY <2>1 DEF Serves
  <2>. QED
    BY <1>2, <2>1, <2>2, <2>3, KeptByFlush
<1>. QED
  BY <1>5, <1>6, <1>7, <1>8, <1>9, <1>10, <1>11, <1>12 DEF Flush

\* A step of the event handler, before the event, while no flush runs.
LEMMA KeptHandler ==
    ASSUME RecentComesLast, Typed, Kept, Documented, Handler
    PROVE  Kept'
<1>0. /\ scenario \in DOMAIN Scenarios
      /\ sync \in [pc: {"idle", "cache"}, batch: 0..Len(History), conv: Nat]
      /\ rows \in Seq(CacheRow) /\ finished \in Nat
  BY DEF Typed, TypeOK
<1>1. /\ Len(History) \in Nat /\ DOMAIN History = 1..Len(History) /\ sync.batch \in Nat
      /\ UNCHANGED <<scenario, device, expired, flush>> /\ History' = History
  <2>1. UNCHANGED <<scenario, device, expired, flush>>
    BY DEF Handler, HistorySyncBegin, HistorySyncProjected, CacheConversation, HistorySyncEnd, tables
  <2>2. Len(History) \in Nat /\ DOMAIN History = 1..Len(History)
    BY <1>0, ScenarioParts
  <2>3. sync.batch \in Nat
    BY <1>0, <2>2
  <2>. QED
    BY <2>1, <2>2, <2>3 DEF History
<1>2. AllFresh /\ InOrder
  BY DEF Kept
<1>3. device = "paired" =>
        /\ Came(History, sync) \subseteq HeldIn(rows) \cup delivered
        /\ \A f \in Flushes : Serves(flush[f], rows, delivered)
  BY DEF Kept
<1>4. finished = 0 => \A f \in Flushes : flush[f].pc = "idle"
  BY <1>0, <1>2 DEF InOrder
<1>5. finished # 0 => Settled
  BY <1>0, <1>2 DEF InOrder
<1>6. ASSUME AllFresh', InOrder', Came(History, sync') \subseteq HeldIn(rows') \cup delivered',
             \A f \in Flushes : Serves(flush[f], rows', delivered')
      PROVE  Kept'
  BY <1>1, <1>6 DEF Kept
<1>7. ASSUME finished = 0, NEW table, NEW published
      PROVE  \A f \in Flushes : Serves(flush[f], table, published)
  BY <1>4, <1>7 DEF Serves
<1>8. CASE HistorySyncBegin
  <2>. DEFINE n == sync.batch + 1
  <2>1. /\ sync.pc = "idle" /\ sync.batch < Len(History) /\ Tracked(History[n]) /\ device = "paired"
        /\ sync' = [pc |-> "cache", batch |-> n, conv |-> 1]
        /\ UNCHANGED <<rows, finished, delivered>>
    BY <1>8 DEF HistorySyncBegin
  <2>2. n \in DOMAIN History /\ n > sync.batch /\ n - 1 = sync.batch
    BY <1>1, <2>1
  <2>3. finished = 0
    BY <1>5, <2>1, <2>2 DEF Settled
  <2>4. AllFresh'
    BY <1>1, <1>2, <2>1 DEF AllFresh
  <2>5. InOrder'
    BY <1>1, <1>4, <2>1, <2>3 DEF InOrder
  <2>6. Came(History, sync') = Came(History, sync)
    <3>1. sync'.pc # "idle" /\ sync'.batch = n /\ sync'.conv = 1
      BY <2>1
    <3>2. Part(History[n], 0) = {}
      BY PartNext
    <3>3. sync'.batch - 1 = sync.batch /\ sync'.conv - 1 = 0
      BY <2>2, <3>1
    <3>. HIDE DEF n
    <3>. QED
      BY <2>1, <3>1, <3>2, <3>3 DEF Came
  <2>. QED
    BY <1>3, <1>6, <1>7, <2>1, <2>3, <2>4, <2>5, <2>6
<1>9. CASE HistorySyncProjected
  <2>. DEFINE n == sync.batch + 1
  <2>1. /\ sync.pc = "idle" /\ sync.batch < Len(History) /\ ~Tracked(History[n]) /\ device = "paired"
        /\ sync' = [sync EXCEPT !.batch = n]
        /\ UNCHANGED <<rows, finished>> /\ delivered \subseteq delivered'
    BY <1>9 DEF HistorySyncProjected, tables
  <2>2. sync'.pc = "idle" /\ sync'.batch = n /\ sync'.batch = sync.batch + 1
    BY <1>0, <2>1
  <2>3. AllFresh'
    BY <1>1, <1>2, <2>1 DEF AllFresh
  <2>4. InOrder'
    <3>1. \A k \in DOMAIN History : k > sync.batch + 1 => k > sync.batch
      BY <1>1
    <3>2. Settled => Settled'
      BY <1>1, <2>2, <3>1 DEF Settled
    <3>. QED
      BY <1>1, <1>2, <2>1, <3>2 DEF InOrder
  <2>5. Came(History, sync') = Came(History, sync)
    BY <1>1, <2>1, <2>2, WholeNext DEF Came
  <2>6. \A f \in Flushes : Serves(flush[f], rows', delivered')
    BY <1>3, <2>1 DEF Serves
  <2>. QED
    BY <1>3, <1>6, <2>1, <2>3, <2>4, <2>5, <2>6
<1>10. CASE CacheConversation
  <2>. DEFINE b == sync.batch
              c == sync.conv
              conv == History[b].convs[c]
              row == [chat |-> conv.chat, msgs |-> Projected(conv.msgs), batch |-> b]
  <2>1. /\ sync.pc = "cache" /\ c <= Len(History[b].convs)
        /\ sync' = [sync EXCEPT !.conv = c + 1]
        /\ UNCHANGED <<finished, delivered>>
        /\ IF WorthCaching(conv) THEN Insert(row) ELSE rows' = rows
    BY <1>10 DEF CacheConversation
  <2>2. b \in DOMAIN History /\ c \in 1..(Len(History[b].convs) + 1)
    BY <2>1 DEF Typed, Handling
  <2>3. /\ Len(History[b].convs) \in Nat /\ c \in DOMAIN History[b].convs
        /\ conv.chat \in Chats /\ conv.msgs \in Seq(Messages)
    <3>1. Len(History[b].convs) \in Nat /\ DOMAIN History[b].convs = 1..Len(History[b].convs)
      BY <1>0, <2>2, ScenarioParts
    <3>2. c \in DOMAIN History[b].convs
      BY <2>1, <2>2, <3>1
    <3>. QED
      BY <1>0, <2>2, <3>1, <3>2, ScenarioParts
  <2>4. finished = 0
    BY <1>5, <2>1 DEF Settled
  <2>5. InOrder'
    BY <1>1, <1>4, <2>1, <2>4 DEF InOrder
  <2>6. ~May("store")
    BY DEF Documented, May
  <2>7. Came(History, sync') = Came(History, sync) \cup Of(conv)
    <3>1. /\ sync'.pc # "idle" /\ sync'.batch = b /\ sync'.conv = c + 1
      BY <1>0, <2>1
    <3>2. c - 1 \in Nat /\ (c + 1) - 1 = (c - 1) + 1 /\ (c - 1) + 1 = c
      BY <2>2, <2>3
    <3>3. Part(History[b], (c - 1) + 1) = Part(History[b], c - 1) \cup Of(History[b].convs[(c - 1) + 1])
      BY <3>2, PartNext
    <3>4. Part(History[b], (c + 1) - 1) = Part(History[b], c - 1) \cup Of(conv)
      BY <3>2, <3>3
    <3>5. Came(History, sync') = Whole(History, b - 1) \cup Part(History[b], (c + 1) - 1)
      BY <3>1 DEF Came
    <3>6. Came(History, sync) = Whole(History, b - 1) \cup Part(History[b], c - 1)
      BY <2>1 DEF Came
    <3>. QED
      BY <3>4, <3>5, <3>6
  <2>. HIDE DEF b, c, conv
  <2>8. CASE WorthCaching(conv) /\ device = "paired"
    <3>1. rows' = Append(Fresh(rows), row)
      BY <2>1, <2>6, <2>8 DEF Insert
    <3>2. row \in CacheRow
      BY <1>1, <2>3, <2>8, CachedRow DEF b
    <3>3. row.batch > 0 /\ row.chat = conv.chat /\ row.msgs = Projected(conv.msgs)
      BY <1>1, <2>2
    <3>. HIDE DEF row
    <3>4. /\ ToSet(rows') = ToSet(rows) \cup {row}
          /\ HeldIn(rows') = HeldIn(rows) \cup ({row.chat} \X ToSet(row.msgs))
      BY <1>0, <1>2, <3>1, <3>2, InsertIs
    <3>5. AllFresh'
      BY <1>1, <1>2, <3>3, <3>4 DEF AllFresh
    <3>6. Of(conv) = {row.chat} \X ToSet(row.msgs)
      BY <2>8, <3>3 DEF Of
    <3>. QED
      BY <1>3, <1>6, <1>7, <2>1, <2>4, <2>5, <2>7, <2>8, <3>4, <3>5, <3>6
  <2>9. CASE ~WorthCaching(conv) \/ device # "paired"
    <3>1. rows' = rows
      BY <2>1, <2>6, <2>9 DEF Insert
    <3>2. AllFresh'
      BY <1>1, <1>2, <3>1 DEF AllFresh
    <3>3. device = "paired" => Of(conv) = {}
      BY <2>9 DEF Of
    <3>4. device = "paired" => Came(History, sync') \subseteq HeldIn(rows') \cup delivered'
      BY <1>3, <2>1, <2>7, <3>1, <3>3
    <3>5. \A f \in Flushes : Serves(flush[f], rows', delivered')
      BY <1>7, <2>4
    <3>. QED
      BY <1>1, <2>5, <3>2, <3>4, <3>5 DEF Kept
  <2>. QED
    BY <2>8, <2>9
<1>11. CASE HistorySyncEnd
  <2>. DEFINE b == sync.batch
  <2>1. /\ sync.pc = "cache" /\ sync.conv > Len(History[b].convs)
        /\ sync' = [sync EXCEPT !.pc = "idle"] /\ UNCHANGED <<rows, delivered>>
        /\ \/ finished' = finished
           \/ finished' = finished + 1 /\ History[b].type = "recent" /\ History[b].complete
    BY <1>11 DEF HistorySyncEnd, tables
  <2>2. /\ b \in DOMAIN History /\ sync.conv \in 1..(Len(History[b].convs) + 1)
        /\ Tracked(History[b])
    BY <2>1 DEF Typed, Handling
  <2>3. sync'.pc = "idle" /\ sync'.batch = b
    BY <1>0, <2>1
  <2>4. finished = 0
    BY <1>5, <2>1 DEF Settled
  <2>5. AllFresh'
    BY <1>1, <1>2, <2>1 DEF AllFresh
  <2>6. Came(History, sync') = Came(History, sync)
    <3>1. sync.conv - 1 = Len(History[b].convs)
      <4>1. Len(History[b].convs) \in Nat
        BY <1>0, <2>2, ScenarioParts
      <4>. QED
        BY <2>1, <2>2, <4>1
    <3>2. b - 1 \in Nat /\ (b - 1) + 1 = b
      BY <1>1, <2>2
    <3>. DEFINE m == b - 1
    <3>3. m \in Nat /\ m + 1 = b
      BY <3>2
    <3>. HIDE DEF m
    <3>4. Tracked(History[m + 1])
      BY <2>2, <3>3
    <3>5. Whole(History, m + 1) = Whole(History, m) \cup Part(History[m + 1], Len(History[m + 1].convs))
      BY <3>3, <3>4, WholeNext
    <3>6. Whole(History, b) = Whole(History, b - 1) \cup Part(History[b], Len(History[b].convs))
      BY <3>3, <3>5 DEF m
    <3>7. Came(History, sync') = Whole(History, b)
      BY <2>3 DEF Came
    <3>8. Came(History, sync) = Whole(History, b - 1) \cup Part(History[b], sync.conv - 1)
      BY <2>1 DEF Came
    <3>. QED
      BY <3>1, <3>6, <3>7, <3>8
  <2>7. InOrder'
    <3>1. CASE finished' = finished
      BY <1>1, <1>4, <2>4, <3>1 DEF InOrder
    <3>2. CASE finished' = finished + 1 /\ History[b].type = "recent" /\ History[b].complete
      <4>1. \A k \in DOMAIN History : b < k => ~Tracked(History[k])
        BY <1>0, <2>2, <3>2 DEF RecentComesLast, Documented, History
      <4>2. \A k \in DOMAIN History : k > b <=> b < k
        BY <1>1, <2>2
      <4>3. Settled'
        BY <1>1, <2>3, <4>1, <4>2 DEF Settled
      <4>. QED
        BY <1>1, <1>4, <2>4, <4>3 DEF InOrder
    <3>. QED
      BY <2>1, <3>1, <3>2
  <2>8. \A f \in Flushes : Serves(flush[f], rows', delivered')
    BY <1>7, <2>4
  <2>9. device = "paired" => Came(History, sync') \subseteq HeldIn(rows') \cup delivered'
    BY <1>3, <2>1, <2>6
  <2>. QED
    BY <1>1, <2>5, <2>7, <2>8, <2>9 DEF Kept
<1>. QED
  BY <1>8, <1>9, <1>10, <1>11 DEF Handler
\* Only pairing and logout come in such a scenario; neither time nor restart.
LEMMA KeptWorld ==
    ASSUME Typed, Kept, Documented, PairSuccess \/ RowsExpire \/ DeviceDeleted \/ Restart
    PROVE  Kept'
<1>1. ~May("expiry") /\ ~May("restart")
  BY DEF Documented, May
<1>2. AllFresh /\ InOrder
  BY DEF Kept
<1>3. CASE PairSuccess
  <2>1. /\ device = "blank" /\ finished' = 0
        /\ UNCHANGED <<scenario, rows, expired, sync, flush, delivered>>
    BY <1>3 DEF PairSuccess
  <2>2. sync = Idle /\ \A f \in Flushes : flush[f].pc = "idle"
    BY <2>1 DEF Typed, Handling
  <2>3. AllFresh' /\ InOrder'
    BY <1>2, <2>1, <2>2 DEF AllFresh, InOrder
  <2>4. Came(History', sync') = {}
    <3>1. sync'.pc = "idle" /\ sync'.batch = 0
      BY <2>1, <2>2 DEF Idle
    <3>2. Whole(History', 0) = {}
      BY WholeNext
    <3>. QED
      BY <3>1, <3>2 DEF Came
  <2>5. \A f \in Flushes : Serves(flush'[f], rows', delivered')
    BY <2>1, <2>2 DEF Serves
  <2>. QED
    BY <2>3, <2>4, <2>5 DEF Kept
<1>4. CASE DeviceDeleted
  <2>1. /\ device' = "deleted" /\ rows' = <<>>
        /\ UNCHANGED <<scenario, expired, sync, flush, finished, delivered>>
    BY <1>4 DEF DeviceDeleted, handler
  <2>2. ToSet(rows') = {}
    BY <2>1 DEF ToSet
  <2>3. AllFresh' /\ InOrder'
    BY <1>2, <2>1, <2>2 DEF AllFresh, InOrder, Settled, History
  <2>. QED
    BY <2>1, <2>3 DEF Kept
<1>. QED
  BY <1>1, <1>3, <1>4 DEF RowsExpire, Restart

LEMMA StepKept == ASSUME RecentComesLast PROVE Typed /\ Kept /\ [Next]_vars => Kept'
<1>. SUFFICES ASSUME Typed, Kept, [Next]_vars PROVE Kept'
  OBVIOUS
<1>1. CASE UNCHANGED vars
  BY <1>1 DEF vars, tables, handler, Kept, Documented, AllFresh, InOrder, Settled, History
<1>2. CASE Next
  <2>1. scenario' = scenario
    BY <1>2 DEF Next, Handler, Flush, PairSuccess, HistorySyncBegin, HistorySyncProjected,
                CacheConversation, HistorySyncEnd, RowsExpire, DeviceDeleted, Restart, FlushRequest,
                FlushCheck, FlushDevice, FlushList, FlushGet, FlushPublish, FlushDelete,
                ContextExpires, tables
  <2>2. CASE Documented
    BY <1>2, <2>2, KeptHandler, KeptFlush, KeptWorld DEF Next
  <2>3. CASE ~Documented
    BY <2>1, <2>3 DEF Kept, Documented
  <2>. QED
    BY <2>2, <2>3
<1>. QED
  BY <1>1, <1>2

\* A message that came with a handled batch is in the cache until a flush has
\* published it, however many flushes run, run out of time and clear the
\* cache over one another, as long as no tracked batch follows the RECENT one
\* that is complete.
THEOREM SpecNothingLost == ASSUME RecentComesLast PROVE Spec => []NothingLost
<1>1. Typed /\ Kept => NothingLost
  <2>. SUFFICES ASSUME Typed, Kept, Documented, device = "paired"
                PROVE  Expected(Handled) \subseteq Cached \cup delivered
    BY DEF NothingLost
  <2>1. scenario \in DOMAIN Scenarios /\ sync.pc \in {"idle", "cache"} /\ sync.batch \in 0..Len(History)
    BY DEF Typed, TypeOK
  <2>2. sync.pc = "cache" => sync.batch \in DOMAIN History
    BY DEF Typed, Handling
  <2>3. Handled \in 0..Len(History)
    BY <2>1, <2>2, ScenarioParts DEF Handled
  <2>4. Expected(Handled) = Whole(History, Handled)
    BY <2>1, <2>3, ExpectedIs
  <2>5. Whole(History, Handled) \subseteq Came(History, sync)
    BY <2>1 DEF Handled, Came
  <2>. QED
    BY <2>4, <2>5, HeldInIs DEF Kept
<1>. QED
  BY <1>1, InitKept, StepKept, SpecTyped, PTL DEF Spec

\* When initial_sync_finished is published, all that the phone has sent for
\* the cache is in it or delivered, under the same condition.
THEOREM SpecReadyToFlush == ASSUME RecentComesLast PROVE Spec => ReadyToFlush
<1>. DEFINE Ready == Documented /\ finished' > finished /\ device = "paired"
                     => Expected(sync.batch) \subseteq Cached' \cup delivered'
<1>1. Typed /\ Kept /\ Typed' /\ Kept' /\ [Next]_vars => [Ready]_vars
  <2>. SUFFICES ASSUME Typed, Kept, Typed', Kept', Next, Documented, finished' > finished,
                       device = "paired"
                PROVE  Expected(sync.batch) \subseteq Cached' \cup delivered'
    OBVIOUS
  <2>1. finished \in Nat /\ scenario \in DOMAIN Scenarios /\ sync.batch \in 0..Len(History)
    BY DEF Typed, TypeOK
  <2>2. ~(finished > finished) /\ ~(0 > finished)
    BY <2>1
  <2>3. HistorySyncEnd
    BY <2>2 DEF Next, Handler, Flush, PairSuccess, HistorySyncBegin, HistorySyncProjected,
                CacheConversation, RowsExpire, DeviceDeleted, Restart, FlushRequest,
                FlushCheck, FlushDevice, FlushList, FlushGet, FlushPublish, FlushDelete,
                ContextExpires, handler
  <2>4. scenario' = scenario /\ device' = device /\ sync' = [sync EXCEPT !.pc = "idle"]
    BY <2>3 DEF HistorySyncEnd, tables
  <2>5. sync'.pc = "idle" /\ sync'.batch = sync.batch
    BY <2>4 DEF Typed, TypeOK
  <2>6. Came(History', sync') = Whole(History, sync.batch)
    BY <2>4, <2>5 DEF Came, History
  <2>7. Came(History', sync') \subseteq HeldIn(rows') \cup delivered'
    BY <2>4 DEF Kept, Documented
  <2>8. Expected(sync.batch) = Whole(History, sync.batch)
    BY <2>1, ExpectedIs
  <2>9. Cached' = HeldIn(rows')
    BY DEF Cached, HeldIn
  <2>. QED
    BY <2>6, <2>7, <2>8, <2>9
<1>. QED
  BY <1>1, InitKept, StepKept, SpecTyped, PTL DEF Spec, ReadyToFlush
=============================================================================
