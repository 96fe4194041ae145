-------------------------- MODULE MqttWire_proofs --------------------------
(***************************************************************************)
(* Lemmas about the formats of MQTT and the functions of coreMQTT that     *)
(* read them, whatever the state: numbers and sequences, the remaining     *)
(* length, what a received packet is taken for, and topics.                *)
(*                                                                         *)
(* Formats are computed by recursive functions, so much of this is         *)
(* induction over data: over the natural numbers (NatInduct), downwards    *)
(* (BackInduct), over the length of a sequence (SeqInduct) or from the     *)
(* least counterexample (LeastOf), with a set in the place of the          *)
(* predicate.                                                              *)
(*                                                                         *)
(* MQTT_MatchTopic compares two characters at a time, its definition       *)
(* compares levels.  FoundFrom says what the levels from two places on     *)
(* tell; each kind of step of matchTopicFilter (both "/", both the same,   *)
(* different, "+", "#") keeps it (StepSlash, StepSame, StepStop, StepPlus, *)
(* StepHash), so the function that the code computes is FoundFrom, from    *)
(* the last place backwards (MatchIs).                                     *)
(***************************************************************************)
EXTENDS MqttStream, SequenceTheorems, FiniteSetTheorems, WellFoundedInduction, TLAPS

-----------------------------------------------------------------------------
(* Induction over numbers                                                  *)

LEMMA LeastOf ==
  ASSUME NEW n \in Nat, NEW S \in SUBSET (0 .. n), S # {}
  PROVE  \E x \in S : \A y \in S : x <= y
<1> DEFINE upto == {0 .. x : x \in S}
           R == StrictSubsetOrdering(0 .. n)
<1>1. IsWellFoundedOn(R, SUBSET (0 .. n))
  <2>1. IsFiniteSet(0 .. n) BY FS_Interval
  <2>2. FiniteSubsetsOf(0 .. n) = SUBSET (0 .. n) BY <2>1, FS_FiniteSubsetsOfFinite
  <2> QED BY <2>2, FS_StrictSubsetOrderingWellFounded
<1>2. \A x \in S : 0 .. x \in SUBSET (0 .. n) BY SMT
<1>3. upto \subseteq SUBSET (0 .. n) /\ upto # {} BY <1>2
<1>4. PICK b \in upto : \A c \in upto : ~(<<c, b>> \in R)
  <2> HIDE DEF upto, R
  <2> QED BY <1>1, <1>3, WFMin
<1>5. PICK x \in S : b = 0 .. x OBVIOUS
<1>6. ASSUME NEW y \in S, y < x PROVE FALSE
  <2>1. ~(<<0 .. y, 0 .. x>> \in R) BY <1>4, <1>5
  <2>2. 0 .. y \subseteq 0 .. x /\ x \in 0 .. x /\ x \notin 0 .. y BY <1>6
  <2> QED BY <1>2, <2>1, <2>2 DEF StrictSubsetOrdering
<1> QED BY <1>6

\* Induction, with a set in the place of the predicate.
LEMMA NatInduct ==
  ASSUME NEW S, 0 \in S, \A n \in Nat : n \in S => n + 1 \in S
  PROVE  Nat \subseteq S
<1> SUFFICES ASSUME NEW n \in Nat, n \notin S PROVE FALSE OBVIOUS
<1> DEFINE T == {k \in 0 .. n : k \notin S}
<1>1. PICK x \in T : \A y \in T : x <= y
  <2>1. n \in 0 .. n BY SMT
  <2>2. T \in SUBSET (0 .. n) /\ T # {} BY <2>1
  <2> HIDE DEF T
  <2> QED BY <2>2, LeastOf
<1>2. x # 0 /\ x - 1 \in Nat /\ x - 1 \in 0 .. n BY <1>1
<1>3. x - 1 \in S BY <1>1, <1>2
<1> QED BY <1>1, <1>2, <1>3

LEMMA ConcatIs ==
  ASSUME NEW S, NEW s \in Seq(S), NEW t \in Seq(S)
  PROVE  /\ s \o t \in Seq(S) /\ Len(s \o t) = Len(s) + Len(t)
         /\ \A i \in 1 .. Len(s) : (s \o t)[i] = s[i]
         /\ \A i \in 1 .. Len(t) : (s \o t)[Len(s) + i] = t[i]
  OBVIOUS

-----------------------------------------------------------------------------
(* Numbers                                                                 *)

LEMMA ByteIs ==
  ASSUME NEW b PROVE b \in Byte <=> b \in Nat /\ b < 256
  BY SMT DEF Byte

LEMMA WordIs ==
  ASSUME NEW w PROVE w \in Word <=> w \in Nat /\ w < 65536
  BY SMT DEF Word

LEMMA MaxRemainingIs == MaxRemaining = 268435455
  BY SMT DEF MaxRemaining

-----------------------------------------------------------------------------
(* Sequences                                                               *)

LEMMA ASequence ==
  ASSUME NEW S, NEW n \in Nat, NEW f, DOMAIN f = 1 .. n, f = [i \in 1 .. n |-> f[i]], \A i \in 1 .. n : f[i] \in S
  PROVE  f \in Seq(S) /\ Len(f) = n
  OBVIOUS

LEMMA FlatEmpty == FlattenSeq(<<>>) = <<>>
  BY DEF FlattenSeq

LEMMA FlatIs ==
  ASSUME NEW S, NEW ss \in Seq(Seq(S)), ss # <<>>
  PROVE  LET f == CHOOSE f : f = [i \in 1 .. Len(ss) |-> IF i = 1 THEN ss[i] ELSE f[i - 1] \o ss[i]]
         IN FlattenSeq(ss) = f[Len(ss)]
<1>1. Len(ss) # 0 OBVIOUS
<1> QED BY <1>1 DEF FlattenSeq

\* The recursive function of FlattenSeq exists, and goes on where it ended.
LEMMA FlatExists ==
  ASSUME NEW S
  PROVE  \A n \in Nat : \A ss \in Seq(Seq(S)) : Len(ss) = n =>
           \E f : f = [i \in 1 .. n |-> IF i = 1 THEN ss[i] ELSE f[i - 1] \o ss[i]]
<1> DEFINE P(n) == \A ss \in Seq(Seq(S)) : Len(ss) = n =>
                      \E f : f = [i \in 1 .. n |-> IF i = 1 THEN ss[i] ELSE f[i - 1] \o ss[i]]
           T == {n \in Nat : P(n)}
<1>1. P(0)
  <2> SUFFICES ASSUME NEW ss \in Seq(Seq(S)), Len(ss) = 0
               PROVE  \E f : f = [i \in 1 .. 0 |-> IF i = 1 THEN ss[i] ELSE f[i - 1] \o ss[i]]
    OBVIOUS
  <2> DEFINE f == [i \in 1 .. 0 |-> i]
  <2>1. f = [i \in 1 .. 0 |-> IF i = 1 THEN ss[i] ELSE f[i - 1] \o ss[i]] OBVIOUS
  <2> QED BY <2>1
<1>2. ASSUME NEW n \in Nat, P(n) PROVE P(n + 1)
  <2> SUFFICES ASSUME NEW ss \in Seq(Seq(S)), Len(ss) = n + 1
               PROVE  \E f : f = [i \in 1 .. n + 1 |-> IF i = 1 THEN ss[i] ELSE f[i - 1] \o ss[i]]
    OBVIOUS
  <2> DEFINE tt == SubSeq(ss, 1, n)
  <2>1. tt \in Seq(Seq(S)) /\ Len(tt) = n /\ \A i \in 1 .. n : tt[i] = ss[i] OBVIOUS
  <2>2. PICK g : g = [i \in 1 .. n |-> IF i = 1 THEN tt[i] ELSE g[i - 1] \o tt[i]] BY <1>2, <2>1
  <2> HIDE DEF tt
  <2> DEFINE f == [i \in 1 .. n + 1 |-> IF i \in 1 .. n THEN g[i] ELSE IF i = 1 THEN ss[i] ELSE g[i - 1] \o ss[i]]
  <2>3. ASSUME NEW i \in 1 .. n + 1 PROVE f[i] = IF i = 1 THEN ss[i] ELSE f[i - 1] \o ss[i]
    <3>1. CASE i = 1 /\ i \in 1 .. n BY <2>1, <2>2, <3>1
    <3>2. CASE i # 1 /\ i \in 1 .. n
      <4>1. i - 1 \in 1 .. n BY <3>2
      <4>2. g[i] = g[i - 1] \o tt[i] BY <2>2, <3>2
      <4>3. f[i - 1] = g[i - 1] BY <4>1
      <4> QED BY <2>1, <3>2, <4>2, <4>3
    <3>3. CASE i = n + 1 /\ i = 1 BY <3>3
    <3>4. CASE i = n + 1 /\ i # 1
      <4>1. i - 1 \in 1 .. n /\ i \notin 1 .. n /\ i \in 1 .. n + 1 BY <3>4
      <4>2. f[i - 1] = g[i - 1] BY <4>1
      <4>3. f[i] = g[i - 1] \o ss[i] BY <3>4, <4>1
      <4> QED BY <3>4, <4>2, <4>3
    <3> QED BY <3>1, <3>2, <3>3, <3>4
  <2>4. f = [i \in 1 .. n + 1 |-> IF i = 1 THEN ss[i] ELSE f[i - 1] \o ss[i]]
    <3>1. f = [i \in 1 .. n + 1 |-> f[i]] OBVIOUS
    <3> HIDE DEF f
    <3> QED BY <2>3, <3>1
  <2> QED BY <2>4
<1>3. Nat \subseteq T
  <2> HIDE DEF P
  <2>1. 0 \in T BY <1>1
  <2>2. \A n \in Nat : n \in T => n + 1 \in T BY <1>2
  <2> HIDE DEF T
  <2> QED BY <2>1, <2>2, NatInduct
<1> QED BY <1>3

\* What such a recursion is, up to n.
Flattens(f, ss, n) == f = [i \in 1 .. n |-> IF i = 1 THEN ss[i] ELSE f[i - 1] \o ss[i]]

LEMMA FlatStep ==
  ASSUME NEW n, NEW ss, NEW f, Flattens(f, ss, n), NEW i \in 1 .. n
  PROVE  f[i] = IF i = 1 THEN ss[i] ELSE f[i - 1] \o ss[i]
  BY DEF Flattens

Agree(f, g, n) == \A i \in 1 .. n : f[i] = g[i]

LEMMA FlatUnique ==
  ASSUME NEW n \in Nat, NEW ss, NEW tt, Agree(ss, tt, n),
         NEW m \in Nat, m >= n, NEW f, NEW g, Flattens(f, ss, n), Flattens(g, tt, m)
  PROVE  Agree(f, g, n)
<1> USE DEF Agree
<1> SUFFICES ASSUME NEW z \in 1 .. n, f[z] # g[z] PROVE FALSE OBVIOUS
<1> DEFINE T == {i \in 1 .. n : f[i] # g[i]}
<1>1. PICK x \in T : \A y \in T : x <= y
  <2>1. T \in SUBSET (0 .. n) /\ T # {} OBVIOUS
  <2> HIDE DEF T
  <2> QED BY <2>1, LeastOf
<1>2. x \in 1 .. n /\ x \in 1 .. m /\ f[x] # g[x] /\ ss[x] = tt[x] OBVIOUS
<1>3. f[x] = (IF x = 1 THEN ss[x] ELSE f[x - 1] \o ss[x]) BY <1>2 DEF Flattens
<1>4. g[x] = (IF x = 1 THEN tt[x] ELSE g[x - 1] \o tt[x]) BY <1>2 DEF Flattens
<1>5. x # 1 BY <1>2, <1>3, <1>4
<1>6. x - 1 \in 1 .. n BY <1>2, <1>5
<1>7. f[x - 1] = g[x - 1] BY <1>1, <1>6
<1> QED BY <1>2, <1>3, <1>4, <1>7

LEMMA FlatSome ==
  ASSUME NEW S, NEW ss \in Seq(Seq(S)), ss # <<>>
  PROVE  \E f : Flattens(f, ss, Len(ss)) /\ FlattenSeq(ss) = f[Len(ss)]
<1> DEFINE f == CHOOSE f : f = [i \in 1 .. Len(ss) |-> IF i = 1 THEN ss[i] ELSE f[i - 1] \o ss[i]]
<1>1. FlattenSeq(ss) = f[Len(ss)] BY FlatIs
<1>2. f = [i \in 1 .. Len(ss) |-> IF i = 1 THEN ss[i] ELSE f[i - 1] \o ss[i]]
  <2>1. Len(ss) \in Nat OBVIOUS
  <2>2. \E g : g = [i \in 1 .. Len(ss) |-> IF i = 1 THEN ss[i] ELSE g[i - 1] \o ss[i]] BY <2>1, FlatExists
  <2> QED BY <2>2
<1> HIDE DEF f
<1> QED BY <1>1, <1>2 DEF Flattens

LEMMA FlatAppend ==
  ASSUME NEW S, NEW ss \in Seq(Seq(S)), NEW s \in Seq(S)
  PROVE  FlattenSeq(Append(ss, s)) = FlattenSeq(ss) \o s
<1> DEFINE uu == Append(ss, s)
           n == Len(ss)
<1>1. uu \in Seq(Seq(S)) /\ uu # <<>> /\ Len(uu) = n + 1 /\ uu[n + 1] = s /\ n \in Nat
      /\ \A i \in 1 .. n : ss[i] = uu[i]
  <2>1. uu \in Seq(Seq(S)) /\ Len(uu) = n + 1 /\ uu[n + 1] = s /\ n \in Nat BY AppendProperties
  <2>2. \A i \in 1 .. n : ss[i] = uu[i] BY AppendProperties
  <2>3. uu # <<>>
    <3> HIDE DEF uu
    <3> QED BY <2>1
  <2> QED BY <2>1, <2>2, <2>3
<1> HIDE DEF uu
<1>2. PICK g : Flattens(g, uu, n + 1) /\ FlattenSeq(uu) = g[n + 1] BY <1>1, FlatSome
<1>3. g[n + 1] = (IF n + 1 = 1 THEN s ELSE g[n + 1 - 1] \o s)
  <2>1. n + 1 \in 1 .. n + 1 BY <1>1
  <2>2. g[n + 1] = (IF n + 1 = 1 THEN uu[n + 1] ELSE g[n + 1 - 1] \o uu[n + 1])
    BY <1>2, <2>1, FlatStep
  <2> QED BY <1>1, <2>2
<1>4. CASE n = 0
  <2>1. ss = <<>> BY <1>4
  <2>2. <<>> \o s = s OBVIOUS
  <2> QED BY <1>2, <1>3, <1>4, <2>1, <2>2, FlatEmpty DEF uu
<1>5. CASE n # 0
  <2>1. ss # <<>> BY <1>5
  <2>2. PICK f : Flattens(f, ss, n) /\ FlattenSeq(ss) = f[n] BY <2>1, FlatSome
  <2>3. \A i \in 1 .. n : f[i] = g[i]
    <3>2. Agree(ss, uu, n) BY <1>1 DEF Agree
    <3> DEFINE m == n + 1
    <3>1. m \in Nat /\ m >= n /\ Flattens(g, uu, m) BY <1>1, <1>2
    <3> HIDE DEF m, n
    <3>3. Agree(f, g, n) BY <1>1, <2>2, <3>1, <3>2, FlatUnique
    <3> QED BY <3>3 DEF Agree
  <2>4. n \in 1 .. n /\ n + 1 - 1 = n /\ n + 1 # 1 BY <1>1, <1>5
  <2>5. f[n] = g[n] BY <2>3, <2>4
  <2>6. FlattenSeq(uu) = g[n] \o s BY <1>2, <1>3, <2>4
  <2> QED BY <2>2, <2>5, <2>6 DEF uu
<1> QED BY <1>4, <1>5

\* Induction on the length of a sequence.
LEMMA SeqInduct ==
  ASSUME NEW A, NEW T, <<>> \in T, \A ss \in Seq(A), s \in A : ss \in T => Append(ss, s) \in T
  PROVE  Seq(A) \subseteq T
<1> DEFINE N == {n \in Nat : \A ss \in Seq(A) : Len(ss) = n => ss \in T}
<1>1. 0 \in N
  <2>1. \A ss \in Seq(A) : Len(ss) = 0 => ss = <<>> OBVIOUS
  <2> QED BY <2>1
<1>2. ASSUME NEW n \in Nat, n \in N PROVE n + 1 \in N
  <2> SUFFICES ASSUME NEW ss \in Seq(A), Len(ss) = n + 1 PROVE ss \in T OBVIOUS
  <2> DEFINE tt == SubSeq(ss, 1, n)
  <2>1. tt \in Seq(A) /\ Len(tt) = n /\ ss[n + 1] \in A OBVIOUS
  <2>2. ss = Append(tt, ss[n + 1]) OBVIOUS
  <2> QED BY <1>2, <2>1, <2>2
<1>3. Nat \subseteq N
  <2> HIDE DEF N
  <2> QED BY <1>1, <1>2, NatInduct
<1> QED
  <2> SUFFICES ASSUME NEW ss \in Seq(A) PROVE ss \in T OBVIOUS
  <2>1. Len(ss) \in N BY <1>3
  <2> QED BY <2>1

LEMMA FlatType ==
  ASSUME NEW S
  PROVE  \A ss \in Seq(Seq(S)) : FlattenSeq(ss) \in Seq(S)
<1> DEFINE T == {ss \in Seq(Seq(S)) : FlattenSeq(ss) \in Seq(S)}
<1>1. <<>> \in T
  <2>1. <<>> \in Seq(S) /\ <<>> \in Seq(Seq(S)) OBVIOUS
  <2> QED BY <2>1, FlatEmpty
<1>2. \A ss \in Seq(Seq(S)), s \in Seq(S) : ss \in T => Append(ss, s) \in T
  <2> SUFFICES ASSUME NEW ss \in Seq(Seq(S)), NEW s \in Seq(S), FlattenSeq(ss) \in Seq(S)
               PROVE  Append(ss, s) \in Seq(Seq(S)) /\ FlattenSeq(Append(ss, s)) \in Seq(S)
    OBVIOUS
  <2>1. FlattenSeq(Append(ss, s)) = FlattenSeq(ss) \o s BY FlatAppend
  <2>2. FlattenSeq(ss) \o s \in Seq(S) OBVIOUS
  <2>3. Append(ss, s) \in Seq(Seq(S)) OBVIOUS
  <2> QED BY <2>1, <2>2, <2>3
<1>3. Seq(Seq(S)) \subseteq T
  <2> HIDE DEF T
  <2> QED BY <1>1, <1>2, SeqInduct
<1> QED BY <1>3

LEMMA FlatConcat ==
  ASSUME NEW S, NEW ss \in Seq(Seq(S))
  PROVE  \A tt \in Seq(Seq(S)) : FlattenSeq(ss \o tt) = FlattenSeq(ss) \o FlattenSeq(tt)
<1> DEFINE T == {tt \in Seq(Seq(S)) : FlattenSeq(ss \o tt) = FlattenSeq(ss) \o FlattenSeq(tt)}
<1>0. FlattenSeq(ss) \in Seq(S) BY FlatType
<1>1. <<>> \in T
  <2>1. ss \o <<>> = ss /\ <<>> \in Seq(Seq(S)) OBVIOUS
  <2>2. FlattenSeq(ss) \o <<>> = FlattenSeq(ss) BY <1>0
  <2> QED BY <2>1, <2>2, FlatEmpty
<1>2. \A tt \in Seq(Seq(S)), s \in Seq(S) : tt \in T => Append(tt, s) \in T
  <2> SUFFICES ASSUME NEW tt \in Seq(Seq(S)), NEW s \in Seq(S),
                      FlattenSeq(ss \o tt) = FlattenSeq(ss) \o FlattenSeq(tt)
               PROVE  /\ Append(tt, s) \in Seq(Seq(S))
                      /\ FlattenSeq(ss \o Append(tt, s)) = FlattenSeq(ss) \o FlattenSeq(Append(tt, s))
    OBVIOUS
  <2>1. Append(tt, s) \in Seq(Seq(S)) /\ ss \o Append(tt, s) = Append(ss \o tt, s) /\ ss \o tt \in Seq(Seq(S)) OBVIOUS
  <2>2. FlattenSeq(Append(tt, s)) = FlattenSeq(tt) \o s BY FlatAppend
  <2>3. FlattenSeq(Append(ss \o tt, s)) = FlattenSeq(ss \o tt) \o s BY <2>1, FlatAppend
  <2>4. FlattenSeq(tt) \in Seq(S) BY FlatType
  <2>5. (FlattenSeq(ss) \o FlattenSeq(tt)) \o s = FlattenSeq(ss) \o (FlattenSeq(tt) \o s)
    BY <1>0, <2>4, ConcatAssociative, SMTT(60)
  <2> QED BY <2>1, <2>2, <2>3, <2>5
<1>3. Seq(Seq(S)) \subseteq T
  <2> HIDE DEF T
  <2> QED BY <1>1, <1>2, SeqInduct
<1> QED BY <1>3

LEMMA FlatOne ==
  ASSUME NEW S, NEW s \in Seq(S)
  PROVE  FlattenSeq(<<s>>) = s
<1>1. <<s>> = Append(<<>>, s) /\ <<>> \in Seq(Seq(S)) /\ <<>> \o s = s OBVIOUS
<1> QED BY <1>1, FlatAppend, FlatEmpty

LEMMA FlatCons ==
  ASSUME NEW S, NEW ss \in Seq(Seq(S)), NEW s \in Seq(S)
  PROVE  FlattenSeq(<<s>> \o ss) = s \o FlattenSeq(ss)
<1>1. <<s>> \in Seq(Seq(S)) OBVIOUS
<1>2. FlattenSeq(<<s>> \o ss) = FlattenSeq(<<s>>) \o FlattenSeq(ss) BY <1>1, FlatConcat
<1> QED BY <1>2, FlatOne

LEMMA SecondHalf ==
  ASSUME NEW S, NEW s \in Seq(S), NEW t \in Seq(S)
  PROVE  SubSeq(s \o t, Len(s) + 1, Len(s) + Len(t)) = t
<1> DEFINE u == s \o t
           m == Len(s)
           n == Len(t)
<1>1. /\ u \in Seq(S) /\ Len(u) = m + n /\ m \in Nat /\ n \in Nat
      /\ \A i \in 1 .. n : u[m + i] = t[i]
  <2>1. u \in Seq(S) /\ Len(u) = m + n /\ m \in Nat /\ n \in Nat OBVIOUS
  <2>2. \A i \in 1 .. n : u[m + i] = t[i] OBVIOUS
  <2> QED BY <2>1, <2>2
<1>2. t = [i \in 1 .. n |-> t[i]] OBVIOUS
<1> HIDE DEF u
<1>3. SubSeq(u, m + 1, m + n) = [i \in 1 .. (m + n) - (m + 1) + 1 |-> u[(m + 1) + i - 1]]
  BY <1>1
<1>4. (m + n) - (m + 1) + 1 = n BY <1>1
<1>5. \A i \in 1 .. n : (m + 1) + i - 1 = m + i BY <1>1
<1>6. SubSeq(u, m + 1, m + n) = [i \in 1 .. n |-> t[i]] BY <1>1, <1>3, <1>4, <1>5
<1> QED BY <1>2, <1>6 DEF u

-----------------------------------------------------------------------------
(* The remaining length                                                    *)

LEMMA Powers == 128^0 = 1 /\ 128^1 = 128 /\ 128^2 = 16384 /\ 128^3 = 2097152 /\ 128^4 = 268435456
<1>1. 128^0 = 1 BY SMT
<1>2. 128^1 = 128 BY SMT
<1>3. 128^2 = 16384 BY SMT
<1>4. 128^3 = 2097152 BY SMT
<1>5. 128^4 = 268435456 BY SMT
<1> QED BY <1>1, <1>2, <1>3, <1>4, <1>5

LEMMA FlagIs ==
  ASSUME NEW b \in Byte
  PROVE  Flag(b, 7) <=> b >= 128
<1>1. b \in Nat /\ b < 256 BY ByteIs
<1>2. 2^7 = 128 BY SMT
<1>3. (b \div 128) % 2 = 1 <=> b >= 128 BY <1>1, SMT
<1> QED BY <1>2, <1>3 DEF Flag

\* What a length of k bytes behind b[1] says.
Announced(b, k) ==
  (b[2] % 128) + (IF k > 1 THEN 128 * (b[3] % 128) ELSE 0)
    + (IF k > 2 THEN 16384 * (b[4] % 128) ELSE 0) + (IF k > 3 THEN 2097152 * b[5] ELSE 0)

\* A length of k bytes ends where the bytes without the upper bit begin.
Ends(b, k) == k \in 1 .. 4 /\ k < Len(b) /\ b[k + 1] < 128 /\ \A j \in 2 .. k : b[j] >= 128

HeaderOf(b, k) == Ends(b, k) /\ (k > 1 => b[k + 1] # 0)

LEMMA EndsOnce ==
  ASSUME NEW b \in Seq(Byte), NEW k, NEW l, Ends(b, k), Ends(b, l)
  PROVE  k = l
<1>1. k \in 1 .. 4 /\ l \in 1 .. 4 /\ k < Len(b) /\ l < Len(b) BY DEF Ends
<1>2. CASE k < l
  <2>1. k + 1 \in 2 .. l BY <1>1, <1>2
  <2>2. b[k + 1] \in Nat BY <1>1, ByteIs
  <2> QED BY <2>1, <2>2 DEF Ends
<1>3. CASE l < k
  <2>1. l + 1 \in 2 .. k BY <1>1, <1>3
  <2>2. b[l + 1] \in Nat BY <1>1, ByteIs
  <2> QED BY <2>1, <2>2 DEF Ends
<1> QED BY <1>1, <1>2, <1>3

LEMMA LengthEndIs ==
  ASSUME NEW b \in Seq(Byte)
  PROVE  /\ \A k : Ends(b, k) => LengthEnd(b) = k
         /\ (\A k : ~Ends(b, k)) => LengthEnd(b) = IF Len(b) >= 5 THEN -1 ELSE 0
<1> DEFINE ends == {k \in 1 .. 4 : k < Len(b) /\ ~Flag(b[k + 1], 7) /\ \A j \in 1 .. k - 1 : Flag(b[j + 1], 7)}
<1>1. ASSUME NEW k PROVE k \in ends <=> Ends(b, k)
  <2>1. CASE k \in 1 .. 4 /\ k < Len(b)
    <3>1. b[k + 1] \in Byte BY <2>1
    <3>2. ~Flag(b[k + 1], 7) <=> b[k + 1] < 128 BY <3>1, FlagIs, ByteIs
    <3>3. ASSUME NEW j \in 1 .. k - 1 PROVE b[j + 1] \in Byte /\ j + 1 \in 2 .. k /\ (Flag(b[j + 1], 7) <=> b[j + 1] >= 128)
      <4>1. b[j + 1] \in Byte BY <2>1
      <4> QED BY <2>1, <4>1, FlagIs
    <3>4. ASSUME NEW j \in 2 .. k PROVE j - 1 \in 1 .. k - 1 /\ (j - 1) + 1 = j BY <2>1
    <3>5. (\A j \in 1 .. k - 1 : Flag(b[j + 1], 7)) => \A j \in 2 .. k : b[j] >= 128
      <4> SUFFICES ASSUME \A j \in 1 .. k - 1 : Flag(b[j + 1], 7), NEW j \in 2 .. k PROVE b[j] >= 128 OBVIOUS
      <4>1. Flag(b[(j - 1) + 1], 7) /\ (Flag(b[(j - 1) + 1], 7) <=> b[(j - 1) + 1] >= 128) BY <3>3, <3>4
      <4> QED BY <3>4, <4>1
    <3>6. (\A j \in 2 .. k : b[j] >= 128) => \A j \in 1 .. k - 1 : Flag(b[j + 1], 7) BY <3>3
    <3> QED BY <2>1, <3>2, <3>5, <3>6 DEF Ends
  <2> QED BY <2>1 DEF Ends
<1>2. LengthEnd(b) = IF ends # {} THEN CHOOSE k \in ends : TRUE ELSE IF Len(b) >= 5 THEN -1 ELSE 0
  BY DEF LengthEnd
<1> HIDE DEF ends
<1>3. ASSUME NEW k, Ends(b, k) PROVE LengthEnd(b) = k
  <2>1. k \in ends BY <1>1, <1>3
  <2>2. (CHOOSE i \in ends : TRUE) \in ends BY <2>1
  <2>3. LengthEnd(b) = CHOOSE i \in ends : TRUE BY <1>2, <2>1
  <2>4. LengthEnd(b) \in ends BY <2>2, <2>3
  <2> QED BY <1>1, <1>3, <2>4, EndsOnce
<1>4. (\A k : ~Ends(b, k)) => ends = {} BY <1>1
<1> QED BY <1>2, <1>3, <1>4

LEMMA Sizes ==
  ASSUME NEW n \in Nat
  PROVE  /\ RemainingLengthEncodedSize(n) \in 1 .. 4
         /\ RemainingLengthEncodedSize(n) = 1 <=> n < 128
         /\ RemainingLengthEncodedSize(n) = 2 <=> n >= 128 /\ n < 16384
         /\ RemainingLengthEncodedSize(n) = 3 <=> n >= 16384 /\ n < 2097152
         /\ RemainingLengthEncodedSize(n) = 4 <=> n >= 2097152
  BY SMT DEF RemainingLengthEncodedSize

LEMMA Low7 ==
  ASSUME NEW x \in Nat
  PROVE  x % 128 \in Nat /\ x % 128 < 128 /\ (x < 128 => x % 128 = x)
  OBVIOUS

LEMMA Lin3 ==
  ASSUME NEW x \in Nat, NEW y \in Nat, NEW z \in Nat, x < 128, y < 128, z < 128
  PROVE  /\ x + 128 * y + 16384 * z \in Nat
         /\ x + 128 * y + 16384 * z < 2097152
         /\ x + 128 * y + 16384 * z >= 16384 <=> z # 0
  BY SMT

LEMMA Lin4 ==
  ASSUME NEW x \in Nat, NEW y \in Nat, NEW z \in Nat, NEW w \in Nat, x < 128, y < 128, z < 128, w < 128
  PROVE  /\ x + 128 * y + 16384 * z + 2097152 * w \in Nat
         /\ x + 128 * y + 16384 * z + 2097152 * w < 268435456
         /\ x + 128 * y + 16384 * z + 2097152 * w >= 2097152 <=> w # 0
  BY SMT

LEMMA AnnouncedBound ==
  ASSUME NEW b \in Seq(Byte), NEW k, Ends(b, k)
  PROVE  /\ Announced(b, k) \in Nat /\ Announced(b, k) <= MaxRemaining
         /\ RemainingLengthEncodedSize(Announced(b, k)) \in 1 .. 4
         /\ RemainingLengthEncodedSize(Announced(b, k)) = k <=> (k > 1 => b[k + 1] # 0)
<1>1. k \in 1 .. 4 /\ k < Len(b) /\ b[k + 1] < 128 BY DEF Ends
<1>2. \A i \in 2 .. k + 1 : b[i] \in Nat /\ b[i] < 256 BY <1>1, ByteIs
<1>3. CASE k = 1
  <2>1. b[2] \in Nat /\ b[2] < 128 BY <1>1, <1>2, <1>3
  <2>2. Announced(b, k) = b[2] % 128 BY <1>3, <2>1 DEF Announced
  <2>3. Announced(b, k) \in Nat /\ Announced(b, k) < 128 BY <2>1, <2>2
  <2> QED BY <1>3, <2>3, Sizes, MaxRemainingIs, SMT
<1>4. CASE k = 2
  <2>1. b[2] \in Nat /\ b[3] \in Nat /\ b[3] < 128 BY <1>1, <1>2, <1>4
  <2>2. Announced(b, k) = (b[2] % 128) + 128 * (b[3] % 128) BY <1>4, <2>1 DEF Announced
  <2>3. /\ Announced(b, k) \in Nat /\ Announced(b, k) < 16384
        /\ Announced(b, k) >= 128 <=> b[3] # 0
    BY <2>1, <2>2, Low7
  <2> QED BY <1>4, <2>3, Sizes, MaxRemainingIs, SMT
<1>5. CASE k = 3
  <2> DEFINE x == b[2] % 128
             y == b[3] % 128
             z == b[4]
  <2>1. x \in Nat /\ x < 128 /\ y \in Nat /\ y < 128 /\ z \in Nat /\ z < 128 /\ b[4] % 128 = z
    BY <1>1, <1>2, <1>5, Low7
  <2>2. Announced(b, k) = x + 128 * y + 16384 * z + 0 BY <1>5, <2>1 DEF Announced
  <2>3. b[k + 1] = z BY <1>5
  <2> HIDE DEF x, y, z
  <2>4. x + 128 * y + 16384 * z \in Nat /\ x + 128 * y + 16384 * z < 2097152
        /\ (x + 128 * y + 16384 * z >= 16384 <=> z # 0)
    BY <2>1, Lin3
  <2>5. Announced(b, k) = x + 128 * y + 16384 * z BY <2>2, <2>4
  <2> QED BY <1>5, <2>3, <2>4, <2>5, Sizes, MaxRemainingIs, SMT
<1>6. CASE k = 4
  <2> DEFINE x == b[2] % 128
             y == b[3] % 128
             z == b[4] % 128
             w == b[5]
  <2>1. /\ x \in Nat /\ x < 128 /\ y \in Nat /\ y < 128 /\ z \in Nat /\ z < 128
        /\ w \in Nat /\ w < 128
    <3>1. b[2] \in Nat /\ b[3] \in Nat /\ b[4] \in Nat /\ b[5] \in Nat /\ b[5] < 128 BY <1>1, <1>2, <1>6
    <3> QED BY <3>1, Low7
  <2>2. Announced(b, k) = x + 128 * y + 16384 * z + 2097152 * w BY <1>6, SMT DEF Announced
  <2>3. b[k + 1] = w BY <1>6
  <2> HIDE DEF x, y, z, w
  <2>4. /\ x + 128 * y + 16384 * z + 2097152 * w \in Nat
        /\ x + 128 * y + 16384 * z + 2097152 * w <= MaxRemaining
        /\ x + 128 * y + 16384 * z + 2097152 * w >= 2097152 <=> w # 0
    BY <2>1, Lin4, MaxRemainingIs, SMT
  <2> QED BY <1>6, <2>2, <2>3, <2>4, Sizes, MaxRemainingIs, SMT
<1> QED BY <1>1, <1>3, <1>4, <1>5, <1>6
LEMMA LengthValueIs ==
  ASSUME NEW b \in Seq(Byte), NEW k, Ends(b, k)
  PROVE  LengthValue(b, k) = Announced(b, k)
<1>1. k \in 1 .. 4 /\ k < Len(b) /\ b[k + 1] < 128 BY DEF Ends
<1>2. \A i \in 2 .. k + 1 : b[i] \in Nat BY <1>1, ByteIs
<1> DEFINE d == [i \in 1 .. 4 |-> (b[i + 1] % 128) * 128^(i - 1)]
           s1 == 0 + d[1]
           s2 == s1 + d[2]
           s3 == s2 + d[3]
           s4 == s3 + d[4]
           g == [i \in 0 .. k |-> IF i = 0 THEN 0 ELSE IF i = 1 THEN s1 ELSE IF i = 2 THEN s2 ELSE IF i = 3 THEN s3 ELSE s4]
           v == CHOOSE v : v = [i \in 0 .. k |-> IF i = 0 THEN 0 ELSE v[i - 1] + (b[i + 1] % 128) * 128^(i - 1)]
<1>3. \A i \in 1 .. 4 : d[i] = (b[i + 1] % 128) * 128^(i - 1) OBVIOUS
<1> HIDE DEF d
<1>4. g = [i \in 0 .. k |-> IF i = 0 THEN 0 ELSE g[i - 1] + (b[i + 1] % 128) * 128^(i - 1)]
  <2>1. ASSUME NEW i \in 0 .. k PROVE g[i] = IF i = 0 THEN 0 ELSE g[i - 1] + d[i]
    <3>1. i \in 0 .. 4 BY <1>1
    <3>2. i # 0 => i - 1 \in 0 .. k
      <4>1. k \in Nat BY <1>1
      <4> QED BY <4>1
    <3>3. CASE i = 0 BY <3>3
    <3>4. CASE i = 1 BY <3>2, <3>4
    <3>5. CASE i = 2 BY <3>2, <3>5
    <3>6. CASE i = 3 BY <3>2, <3>6
    <3>7. CASE i = 4 BY <3>2, <3>7
    <3> QED BY <3>1, <3>3, <3>4, <3>5, <3>6, <3>7
  <2>2. ASSUME NEW i \in 0 .. k, i # 0 PROVE d[i] = (b[i + 1] % 128) * 128^(i - 1)
    <3>1. i \in 1 .. 4 BY <1>1, <2>2
    <3> QED BY <1>3, <3>1
  <2>3. g = [i \in 0 .. k |-> g[i]] OBVIOUS
  <2> HIDE DEF g
  <2>4. ASSUME NEW i \in 0 .. k PROVE g[i] = IF i = 0 THEN 0 ELSE g[i - 1] + (b[i + 1] % 128) * 128^(i - 1)
    BY <2>1, <2>2
  <2> QED BY <2>3, <2>4
<1>5. v = [i \in 0 .. k |-> IF i = 0 THEN 0 ELSE v[i - 1] + (b[i + 1] % 128) * 128^(i - 1)]
  <2> HIDE DEF g
  <2> QED BY <1>4
<1>6. LengthValue(b, k) = v[k] BY DEF LengthValue
<1> HIDE DEF v, g
<1>7. ASSUME NEW i \in 0 .. k PROVE v[i] = IF i = 0 THEN 0 ELSE v[i - 1] + d[i]
  <2>1. v[i] = IF i = 0 THEN 0 ELSE v[i - 1] + (b[i + 1] % 128) * 128^(i - 1) BY <1>5
  <2>2. i # 0 => i \in 1 .. 4 BY <1>1
  <2> QED BY <1>3, <2>1, <2>2
<1>8. /\ d[1] = (b[2] % 128) * 128^0 /\ d[2] = (b[3] % 128) * 128^1
      /\ d[3] = (b[4] % 128) * 128^2 /\ d[4] = (b[5] % 128) * 128^3
  BY <1>3
<1>9. /\ b[2] \in Nat /\ (k > 1 => b[3] \in Nat) /\ (k > 2 => b[4] \in Nat) /\ (k > 3 => b[5] \in Nat)
  BY <1>1, <1>2
<1>10. /\ d[1] = b[2] % 128 /\ d[1] \in Nat
       /\ k > 1 => d[2] = 128 * (b[3] % 128) /\ d[2] \in Nat
       /\ k > 2 => d[3] = 16384 * (b[4] % 128) /\ d[3] \in Nat
       /\ k > 3 => d[4] = 2097152 * b[5] /\ d[4] \in Nat
  <2>1. d[1] = b[2] % 128 /\ d[1] \in Nat BY <1>8, <1>9, Powers, Low7, SMT
  <2>2. k > 1 => d[2] = 128 * (b[3] % 128) /\ d[2] \in Nat BY <1>8, <1>9, Powers, Low7, SMT
  <2>3. k > 2 => d[3] = 16384 * (b[4] % 128) /\ d[3] \in Nat BY <1>8, <1>9, Powers, Low7, SMT
  <2>4. k > 3 => d[4] = 2097152 * b[5] /\ d[4] \in Nat
    <3> SUFFICES ASSUME k > 3 PROVE d[4] = 2097152 * b[5] /\ d[4] \in Nat OBVIOUS
    <3>1. b[5] \in Nat /\ b[5] < 128 BY <1>1, <1>9
    <3>2. b[5] % 128 = b[5] BY <3>1, Low7
    <3> QED BY <1>8, <3>1, <3>2, Powers, SMT
  <2> QED BY <2>1, <2>2, <2>3, <2>4
<1>11. /\ 0 \in 0 .. k /\ 1 \in 0 .. k /\ (k > 1 => 2 \in 0 .. k) /\ (k > 2 => 3 \in 0 .. k)
       /\ (k > 3 => 4 \in 0 .. k)
  BY <1>1
<1>12. v[0] = 0 /\ v[1] = v[0] + d[1] /\ (k > 1 => v[2] = v[1] + d[2]) /\ (k > 2 => v[3] = v[2] + d[3])
       /\ (k > 3 => v[4] = v[3] + d[4])
  <2>1. v[0] = 0 BY <1>7, <1>11
  <2>2. v[1] = v[1 - 1] + d[1] BY <1>7, <1>11
  <2>3. k > 1 => v[2] = v[2 - 1] + d[2] BY <1>7, <1>11
  <2>4. k > 2 => v[3] = v[3 - 1] + d[3] BY <1>7, <1>11
  <2>5. k > 3 => v[4] = v[4 - 1] + d[4] BY <1>7, <1>11
  <2> QED BY <2>1, <2>2, <2>3, <2>4, <2>5
<1> QED
  <2>1. CASE k = 1 BY <1>6, <1>10, <1>12, <2>1 DEF Announced
  <2>2. CASE k = 2
    <3>1. LengthValue(b, k) = d[1] + d[2] BY <1>6, <1>10, <1>12, <2>2
    <3>2. Announced(b, k) = d[1] + d[2] + 0 + 0 BY <1>10, <2>2 DEF Announced
    <3> QED BY <1>10, <2>2, <3>1, <3>2
  <2>3. CASE k = 3
    <3>1. LengthValue(b, k) = d[1] + d[2] + d[3] BY <1>6, <1>10, <1>12, <2>3
    <3>2. Announced(b, k) = d[1] + d[2] + d[3] + 0 BY <1>10, <2>3 DEF Announced
    <3> QED BY <1>10, <2>3, <3>1, <3>2
  <2>4. CASE k = 4
    <3>1. LengthValue(b, k) = d[1] + d[2] + d[3] + d[4] BY <1>6, <1>10, <1>12, <2>4
    <3>2. Announced(b, k) = d[1] + d[2] + d[3] + d[4] BY <1>10, <2>4, SMT DEF Announced
    <3> QED BY <3>1, <3>2
  <2> QED BY <1>1, <2>1, <2>2, <2>3, <2>4

LEMMA HeaderIs ==
  ASSUME NEW b \in Seq(Byte)
  PROVE  /\ \A k : HeaderOf(b, k) => Header(b) = [size |-> k + 1, n |-> Announced(b, k)]
         /\ (\A k : ~HeaderOf(b, k)) => Header(b) = [size |-> 0, n |-> 0]
<1> DEFINE ok == {k \in 1 .. 4 : /\ k < Len(b) /\ b[k + 1] < 128 /\ \A j \in 2 .. k : b[j] >= 128
                                 /\ k > 1 => b[k + 1] # 0}
           k0 == CHOOSE i \in ok : TRUE
<1>1. \A k : k \in ok <=> HeaderOf(b, k) BY DEF HeaderOf, Ends
<1>2. Header(b) = IF ok = {} THEN [size |-> 0, n |-> 0] ELSE [size |-> k0 + 1, n |-> Announced(b, k0)]
  BY SMT DEF Header, Announced
<1> HIDE DEF ok
<1>3. ASSUME NEW k, HeaderOf(b, k) PROVE Header(b) = [size |-> k + 1, n |-> Announced(b, k)]
  <2>1. ok # {} BY <1>1, <1>3
  <2>2. k0 \in ok BY <2>1
  <2> HIDE DEF k0
  <2>3. HeaderOf(b, k0) BY <1>1, <2>2
  <2>4. k0 = k BY <1>3, <2>3, EndsOnce DEF HeaderOf
  <2> QED BY <1>2, <2>1, <2>4
<1>4. (\A k : ~HeaderOf(b, k)) => ok = {} BY <1>1
<1> QED BY <1>2, <1>3, <1>4

LEMMA RemainingIs ==
  ASSUME NEW b \in Seq(Byte)
  PROVE  /\ \A k : HeaderOf(b, k) =>
              /\ ProcessRemainingLength(b) = [status |-> "Success", remaining |-> Announced(b, k), header |-> k + 1]
              /\ GetRemainingLength(b) = [valid |-> TRUE, n |-> Announced(b, k), used |-> k + 1]
         /\ (\A k : ~HeaderOf(b, k)) =>
              /\ ProcessRemainingLength(b) =
                   [status |-> IF Len(b) < 5 /\ \A k : ~Ends(b, k) THEN "NeedMoreBytes" ELSE "BadResponse",
                    remaining |-> 0, header |-> 0]
              /\ GetRemainingLength(b) = [valid |-> FALSE, n |-> 0, used |-> Len(b)]
<1> DEFINE e == LengthEnd(b)
           n == LengthValue(b, e)
           bad == RemainingLengthEncodedSize(n) # e
<1>1. ProcessRemainingLength(b) =
        IF e = 0 THEN [status |-> "NeedMoreBytes", remaining |-> 0, header |-> 0]
        ELSE IF e = -1 \/ bad THEN [status |-> "BadResponse", remaining |-> 0, header |-> 0]
        ELSE [status |-> "Success", remaining |-> n, header |-> e + 1]
  BY DEF ProcessRemainingLength
<1>2. GetRemainingLength(b) =
        IF e <= 0 \/ bad THEN [valid |-> FALSE, n |-> 0, used |-> Len(b)]
        ELSE [valid |-> TRUE, n |-> n, used |-> e + 1]
  BY DEF GetRemainingLength
<1> HIDE DEF e, n, bad
<1>3. ASSUME NEW k, Ends(b, k) PROVE e = k /\ k \in 1 .. 4 /\ n = Announced(b, k) /\ (bad <=> ~HeaderOf(b, k))
  <2>1. e = k BY <1>3, LengthEndIs DEF e
  <2>2. n = Announced(b, k) BY <1>3, <2>1, LengthValueIs DEF n
  <2>3. RemainingLengthEncodedSize(n) = k <=> (k > 1 => b[k + 1] # 0) BY <1>3, <2>2, AnnouncedBound
  <2>4. k \in 1 .. 4 BY <1>3 DEF Ends
  <2> QED BY <1>3, <2>1, <2>2, <2>3, <2>4 DEF bad, HeaderOf
<1>4. ASSUME NEW k, HeaderOf(b, k)
      PROVE  /\ ProcessRemainingLength(b) = [status |-> "Success", remaining |-> Announced(b, k), header |-> k + 1]
             /\ GetRemainingLength(b) = [valid |-> TRUE, n |-> Announced(b, k), used |-> k + 1]
  <2>1. Ends(b, k) BY <1>4 DEF HeaderOf
  <2>2. e = k /\ k \in 1 .. 4 /\ n = Announced(b, k) /\ ~bad BY <1>3, <1>4, <2>1
  <2> QED BY <1>1, <1>2, <2>2
<1>5. ASSUME \A k : ~HeaderOf(b, k)
      PROVE  /\ ProcessRemainingLength(b) =
                  [status |-> IF Len(b) < 5 /\ \A k : ~Ends(b, k) THEN "NeedMoreBytes" ELSE "BadResponse",
                   remaining |-> 0, header |-> 0]
             /\ GetRemainingLength(b) = [valid |-> FALSE, n |-> 0, used |-> Len(b)]
  <2>1. CASE \E k : Ends(b, k)
    <3>1. PICK k : Ends(b, k) BY <2>1
    <3>2. e = k /\ k \in 1 .. 4 /\ bad BY <1>3, <1>5, <3>1
    <3> QED BY <1>1, <1>2, <3>1, <3>2
  <2>2. CASE \A k : ~Ends(b, k)
    <3>1. e = IF Len(b) >= 5 THEN -1 ELSE 0 BY <2>2, LengthEndIs DEF e
    <3> QED BY <1>1, <1>2, <2>2, <3>1
  <2> QED BY <2>1, <2>2
<1> QED BY <1>4, <1>5

LEMMA EncodeIs ==
  ASSUME NEW n \in Nat, n <= MaxRemaining
  PROVE  LET size == RemainingLengthEncodedSize(n)
         IN /\ size \in 1 .. 4
            /\ EncodeRemainingLength(n) = [i \in 1 .. size |-> ((n \div 128^(i - 1)) % 128) + Bit(i < size, 7)]
<1> DEFINE size == RemainingLengthEncodedSize(n)
           Is(k) == n < 128^k /\ \A j \in 1 .. k - 1 : n >= 128^j
           c == CHOOSE k \in 1 .. 4 : Is(k)
<1>1. size \in 1 .. 4 BY Sizes
<1>2. /\ Is(1) <=> n < 128
      /\ Is(2) <=> n >= 128 /\ n < 16384
      /\ Is(3) <=> n >= 16384 /\ n < 2097152
      /\ Is(4) <=> n >= 2097152
  <2>1. Is(1) <=> n < 128 BY Powers, SMT
  <2>2. Is(2) <=> n >= 128 /\ n < 16384
    <3>1. \A j : j \in 1 .. 2 - 1 <=> j = 1 OBVIOUS
    <3> QED BY <3>1, Powers, SMT
  <2>3. Is(3) <=> n >= 16384 /\ n < 2097152
    <3>1. \A j : j \in 1 .. 3 - 1 <=> j = 1 \/ j = 2 OBVIOUS
    <3> QED BY <3>1, Powers, SMT
  <2>4. Is(4) <=> n >= 2097152
    <3>1. \A j : j \in 1 .. 4 - 1 <=> j = 1 \/ j = 2 \/ j = 3 OBVIOUS
    <3> QED BY <3>1, Powers, MaxRemainingIs, SMT
  <2> QED BY <2>1, <2>2, <2>3, <2>4
<1> HIDE DEF Is
<1>3. \A k \in 1 .. 4 : Is(k) <=> k = size
  <2>1. \A k \in 1 .. 4 : k = 1 \/ k = 2 \/ k = 3 \/ k = 4 OBVIOUS
  <2>2. size = 1 <=> Is(1) BY <1>2, Sizes
  <2>3. size = 2 <=> Is(2) BY <1>2, Sizes
  <2>4. size = 3 <=> Is(3) BY <1>2, Sizes
  <2>5. size = 4 <=> Is(4) BY <1>2, Sizes
  <2> HIDE DEF size
  <2> QED BY <2>1, <2>2, <2>3, <2>4, <2>5
<1>4. c = size
  <2> HIDE DEF size
  <2>1. \E k \in 1 .. 4 : Is(k) BY <1>1, <1>3
  <2>2. c \in 1 .. 4 /\ Is(c) BY <2>1
  <2> QED BY <1>3, <2>2
<1>5. EncodeRemainingLength(n) = [i \in 1 .. c |-> ((n \div 128^(i - 1)) % 128) + Bit(i < c, 7)]
  BY DEF EncodeRemainingLength, Is
<1> HIDE DEF size, c
<1> QED BY <1>1, <1>4, <1>5 DEF size

\* The four digits of a number below 128^4.
LEMMA Digits ==
  ASSUME NEW n \in Nat, n <= MaxRemaining
  PROVE  LET d1 == n % 128
             d2 == (n \div 128) % 128
             d3 == (n \div 16384) % 128
             d4 == (n \div 2097152) % 128
         IN /\ d1 \in Nat /\ d1 < 128 /\ d2 \in Nat /\ d2 < 128
            /\ d3 \in Nat /\ d3 < 128 /\ d4 \in Nat /\ d4 < 128
            /\ n = d1 + 128 * d2 + 16384 * d3 + 2097152 * d4
<1> DEFINE q1 == n \div 128
           q2 == n \div 16384
           q3 == n \div 2097152
<1>1. q1 \in Nat /\ n = 128 * q1 + (n % 128) /\ n % 128 \in Nat /\ n % 128 < 128 BY SMT
<1>2. q2 \in Nat /\ q2 = q1 \div 128 BY SMT
<1>3. q3 \in Nat /\ q3 = q2 \div 128 /\ q3 < 128 BY MaxRemainingIs, SMT
<1> HIDE DEF q1, q2, q3
<1>4. q1 = 128 * q2 + (q1 % 128) /\ q1 % 128 \in Nat /\ q1 % 128 < 128 BY <1>1, <1>2, SMT
<1>5. q2 = 128 * q3 + (q2 % 128) /\ q2 % 128 \in Nat /\ q2 % 128 < 128 BY <1>2, <1>3, SMT
<1>6. q3 % 128 = q3 BY <1>3, Low7
<1>7. n = (n % 128) + 128 * (q1 % 128) + 16384 * (q2 % 128) + 2097152 * (q3 % 128)
  <2> DEFINE a == n % 128
             b == q1 % 128
             c == q2 % 128
  <2> HIDE DEF a, b, c
  <2>1. a \in Nat /\ b \in Nat /\ c \in Nat /\ n = 128 * q1 + a /\ q1 = 128 * q2 + b /\ q2 = 128 * q3 + c
    BY <1>1, <1>4, <1>5 DEF a, b, c
  <2>2. n = a + 128 * b + 16384 * c + 2097152 * q3 BY <1>1, <1>2, <1>3, <2>1, SMT
  <2> QED BY <1>6, <2>2 DEF a, b, c
<1> QED BY <1>1, <1>3, <1>4, <1>5, <1>6, <1>7 DEF q1, q2, q3

LEMMA EncodedBytes ==
  ASSUME NEW n \in Nat, n <= MaxRemaining
  PROVE  LET e == EncodeRemainingLength(n)
             k == RemainingLengthEncodedSize(n)
         IN /\ e \in Seq(Byte) /\ Len(e) = k /\ k \in 1 .. 4
            /\ e[1] = (n % 128) + Bit(1 < k, 7)
            /\ k > 1 => e[2] = ((n \div 128) % 128) + Bit(2 < k, 7)
            /\ k > 2 => e[3] = ((n \div 16384) % 128) + Bit(3 < k, 7)
            /\ k > 3 => e[4] = ((n \div 2097152) % 128) + Bit(4 < k, 7)
<1> DEFINE e == EncodeRemainingLength(n)
           k == RemainingLengthEncodedSize(n)
<1>1. k \in 1 .. 4 /\ e = [i \in 1 .. k |-> ((n \div 128^(i - 1)) % 128) + Bit(i < k, 7)] BY EncodeIs
<1> HIDE DEF e, k
<1>2. \A i \in 1 .. k : e[i] = ((n \div 128^(i - 1)) % 128) + Bit(i < k, 7) BY <1>1
<1>3. 1 \in 1 .. k /\ (k > 1 => 2 \in 1 .. k) /\ (k > 2 => 3 \in 1 .. k) /\ (k > 3 => 4 \in 1 .. k) BY <1>1
<1>4. n \div 1 = n BY SMT
<1>5. e[1] = (n % 128) + Bit(1 < k, 7)
  <2>1. ASSUME NEW i \in 1 .. k, i = 1 PROVE e[i] = (n % 128) + Bit(i < k, 7)
    <3>1. i - 1 = 0 BY <2>1
    <3>2. 128^(i - 1) = 1 BY <3>1, Powers, SMT
    <3>3. e[i] = ((n \div 128^(i - 1)) % 128) + Bit(i < k, 7) BY <1>2
    <3> QED BY <1>4, <3>2, <3>3, SMT
  <2> QED BY <1>3, <2>1, SMT
<1>6. k > 1 => e[2] = ((n \div 128) % 128) + Bit(2 < k, 7)
  <2>1. ASSUME NEW i \in 1 .. k, i = 2 PROVE e[i] = ((n \div 128) % 128) + Bit(i < k, 7)
    <3>1. i - 1 = 1 BY <2>1
    <3>2. 128^(i - 1) = 128 BY <3>1, Powers, SMT
    <3>3. e[i] = ((n \div 128^(i - 1)) % 128) + Bit(i < k, 7) BY <1>2
    <3> QED BY <1>4, <3>2, <3>3, SMT
  <2> QED BY <1>3, <2>1, SMT
<1>7. k > 2 => e[3] = ((n \div 16384) % 128) + Bit(3 < k, 7)
  <2>1. ASSUME NEW i \in 1 .. k, i = 3 PROVE e[i] = ((n \div 16384) % 128) + Bit(i < k, 7)
    <3>1. i - 1 = 2 BY <2>1
    <3>2. 128^(i - 1) = 16384 BY <3>1, Powers, SMT
    <3>3. e[i] = ((n \div 128^(i - 1)) % 128) + Bit(i < k, 7) BY <1>2
    <3> QED BY <1>4, <3>2, <3>3, SMT
  <2> QED BY <1>3, <2>1, SMT
<1>8. k > 3 => e[4] = ((n \div 2097152) % 128) + Bit(4 < k, 7)
  <2>1. ASSUME NEW i \in 1 .. k, i = 4 PROVE e[i] = ((n \div 2097152) % 128) + Bit(i < k, 7)
    <3>1. i - 1 = 3 BY <2>1
    <3>2. 128^(i - 1) = 2097152 BY <3>1, Powers, SMT
    <3>3. e[i] = ((n \div 128^(i - 1)) % 128) + Bit(i < k, 7) BY <1>2
    <3> QED BY <1>4, <3>2, <3>3, SMT
  <2> QED BY <1>3, <2>1, SMT
<1>9. \A i \in 1 .. k : e[i] \in Byte
  <2>1. \A on : Bit(on, 7) \in {0, 128}
    <3>1. 2^7 = 128 BY SMT
    <3> QED BY <3>1 DEF Bit
  <2>2. \A d \in Nat : d < 128 => \A on : d + Bit(on, 7) \in Byte BY <2>1, ByteIs
  <2>4. e[1] \in Byte BY <1>5, <2>2, Digits
  <2>5. k > 1 => e[2] \in Byte BY <1>6, <2>2, Digits
  <2>6. k > 2 => e[3] \in Byte
    <3>1. (n \div 16384) % 128 \in Nat /\ (n \div 16384) % 128 < 128 BY Digits, SMT
    <3> QED BY <1>7, <2>2, <3>1
  <2>7. k > 3 => e[4] \in Byte
    <3> DEFINE d == (n \div 2097152) % 128
    <3>1. d \in Nat /\ d < 128 BY Digits, SMT
    <3>2. k > 3 => e[4] = d + Bit(4 < k, 7) BY <1>8, SMT
    <3> HIDE DEF d
    <3> QED BY <2>2, <3>1, <3>2
  <2>8. \A i \in 1 .. k : i = 1 \/ (i = 2 /\ k > 1) \/ (i = 3 /\ k > 2) \/ (i = 4 /\ k > 3) BY <1>1
  <2> QED BY <2>4, <2>5, <2>6, <2>7, <2>8
<1>10. e \in Seq(Byte) /\ Len(e) = k
  <2>1. k \in Nat BY <1>1
  <2> QED BY <1>1, <1>9, <2>1, ASequence
<1> QED BY <1>1, <1>5, <1>6, <1>7, <1>8, <1>10, SMT DEF e, k

\* Wherever an encoded length stands behind a byte, it is read back.
LEMMA EncodedHeader ==
  ASSUME NEW n \in Nat, n <= MaxRemaining, NEW b \in Seq(Byte), Len(b) > RemainingLengthEncodedSize(n),
         \A i \in 1 .. RemainingLengthEncodedSize(n) : b[i + 1] = EncodeRemainingLength(n)[i]
  PROVE  HeaderOf(b, RemainingLengthEncodedSize(n)) /\ Announced(b, RemainingLengthEncodedSize(n)) = n
<1> DEFINE e == EncodeRemainingLength(n)
           k == RemainingLengthEncodedSize(n)
           d1 == n % 128
           d2 == (n \div 128) % 128
           d3 == (n \div 16384) % 128
           d4 == (n \div 2097152) % 128
<1>1. /\ k \in 1 .. 4
      /\ e[1] = d1 + Bit(1 < k, 7)
      /\ k > 1 => e[2] = d2 + Bit(2 < k, 7)
      /\ k > 2 => e[3] = d3 + Bit(3 < k, 7)
      /\ k > 3 => e[4] = d4 + Bit(4 < k, 7)
  BY EncodedBytes, SMT
<1>2. /\ d1 \in Nat /\ d1 < 128 /\ d2 \in Nat /\ d2 < 128
      /\ d3 \in Nat /\ d3 < 128 /\ d4 \in Nat /\ d4 < 128
      /\ n = d1 + 128 * d2 + 16384 * d3 + 2097152 * d4
  BY Digits, SMT
<1>3. /\ k = 1 <=> n < 128
      /\ k = 2 <=> n >= 128 /\ n < 16384
      /\ k = 3 <=> n >= 16384 /\ n < 2097152
      /\ k = 4 <=> n >= 2097152
  BY Sizes, SMT
<1>4. /\ Len(b) > k /\ b[2] = e[1] /\ (k > 1 => b[3] = e[2]) /\ (k > 2 => b[4] = e[3]) /\ (k > 3 => b[5] = e[4])
  <2>1. \A i \in 1 .. k : b[i + 1] = e[i] OBVIOUS
  <2> HIDE DEF e, k
  <2>2. b[1 + 1] = e[1] BY <1>1, <2>1
  <2>3. k > 1 => b[2 + 1] = e[2] BY <1>1, <2>1
  <2>4. k > 2 => b[3 + 1] = e[3] BY <1>1, <2>1
  <2>5. k > 3 => b[4 + 1] = e[4] BY <1>1, <2>1
  <2> QED BY <2>2, <2>3, <2>4, <2>5 DEF k
<1> SUFFICES HeaderOf(b, k) /\ Announced(b, k) = n OBVIOUS
<1> HIDE DEF e, k, d1, d2, d3, d4
<1>5. /\ Bit(1 < k, 7) = IF 1 < k THEN 128 ELSE 0
      /\ Bit(2 < k, 7) = IF 2 < k THEN 128 ELSE 0
      /\ Bit(3 < k, 7) = IF 3 < k THEN 128 ELSE 0
      /\ Bit(4 < k, 7) = IF 4 < k THEN 128 ELSE 0
  <2>1. 2^7 = 128 BY SMT
  <2> QED BY <2>1, SMT DEF Bit
<1>6. \A d \in Nat : d < 128 => d % 128 = d /\ (d + 128) % 128 = d OBVIOUS
<1>7. Ends(b, k) <=> k < Len(b) /\ b[k + 1] < 128 /\ \A j \in 2 .. k : b[j] >= 128 BY <1>1 DEF Ends
<1>8. CASE k = 1
  <2>1. b[2] = d1
    <3>1. e[1] = d1 + 0 BY <1>1, <1>5, <1>8, SMT
    <3> QED BY <1>2, <1>4, <3>1
  <2>2. n = d1 BY <1>2, <1>3, <1>8, SMT
  <2>3. Ends(b, k) BY <1>2, <1>4, <1>7, <1>8, <2>1
  <2>4. Announced(b, k) = n BY <1>2, <1>6, <1>8, <2>1, <2>2 DEF Announced
  <2>5. k > 1 => b[k + 1] # 0 BY <1>8
  <2>6. HeaderOf(b, k) BY <2>3, <2>5 DEF HeaderOf
  <2> QED BY <2>4, <2>6, SMT
<1>9. CASE k = 2
  <2>1. b[2] = d1 + 128 /\ b[3] = d2 BY <1>1, <1>4, <1>5, <1>9, <1>2, SMT
  <2>2. n = d1 + 128 * d2 /\ d2 # 0 BY <1>2, <1>3, <1>9, SMT
  <2>3. Ends(b, k)
    <3>1. \A j \in 2 .. k : j = 2 BY <1>9
    <3> QED BY <1>2, <1>4, <1>7, <1>9, <2>1, <3>1
  <2>4. Announced(b, k) = n
    <3>1. b[2] % 128 = d1 /\ b[3] % 128 = d2 BY <1>2, <1>6, <2>1
    <3> QED BY <1>2, <1>9, <2>2, <3>1 DEF Announced
  <2>5. b[k + 1] # 0 BY <1>9, <2>1, <2>2
  <2> QED BY <1>9, <2>3, <2>4, <2>5 DEF HeaderOf
<1>10. CASE k = 3
  <2>1. b[2] = d1 + 128 /\ b[3] = d2 + 128 /\ b[4] = d3 BY <1>1, <1>4, <1>5, <1>10, <1>2, SMT
  <2>2. n = d1 + 128 * d2 + 16384 * d3 /\ d3 # 0 BY <1>2, <1>3, <1>10, SMT
  <2>3. Ends(b, k)
    <3>1. \A j \in 2 .. k : j = 2 \/ j = 3 BY <1>10
    <3> QED BY <1>2, <1>4, <1>7, <1>10, <2>1, <3>1
  <2>4. Announced(b, k) = n
    <3>1. b[2] % 128 = d1 /\ b[3] % 128 = d2 /\ b[4] % 128 = d3 BY <1>2, <1>6, <2>1
    <3>2. Announced(b, k) = d1 + 128 * d2 + 16384 * d3 + 0 BY <1>10, <3>1, SMT DEF Announced
    <3> QED BY <1>2, <2>2, <3>2, SMT
  <2>5. b[k + 1] # 0 BY <1>10, <2>1, <2>2
  <2> QED BY <1>10, <2>3, <2>4, <2>5 DEF HeaderOf
<1>11. CASE k = 4
  <2>1. b[2] = d1 + 128 /\ b[3] = d2 + 128 /\ b[4] = d3 + 128 /\ b[5] = d4 BY <1>1, <1>4, <1>5, <1>11, <1>2, SMT
  <2>2. d4 # 0 BY <1>2, <1>3, <1>11, SMT
  <2>3. Ends(b, k)
    <3>1. \A j \in 2 .. k : j = 2 \/ j = 3 \/ j = 4 BY <1>11
    <3> QED BY <1>2, <1>4, <1>7, <1>11, <2>1, <3>1
  <2>4. Announced(b, k) = n
    <3>1. b[2] % 128 = d1 /\ b[3] % 128 = d2 /\ b[4] % 128 = d3 /\ b[5] = d4 BY <1>2, <1>6, <2>1
    <3>2. Announced(b, k) = d1 + 128 * d2 + 16384 * d3 + 2097152 * d4 BY <1>11, <3>1, SMT DEF Announced
    <3> QED BY <1>2, <3>2, SMT
  <2>5. b[k + 1] # 0 BY <1>11, <2>1, <2>2
  <2> QED BY <1>11, <2>3, <2>4, <2>5 DEF HeaderOf
<1>12. k = 1 \/ k = 2 \/ k = 3 \/ k = 4 BY <1>1
<1> QED BY <1>8, <1>9, <1>10, <1>11, <1>12, SMT

LEMMA ValidFirst ==
  ASSUME NEW t, t \in {CONNACK, PUBLISH, PUBACK, PUBREC, PUBREL, PUBCOMP, SUBACK, UNSUBACK, PINGRESP}
  PROVE  t \in Byte /\ IncomingPacketValid(t)
<1> USE DEF CONNACK, PUBLISH, PUBACK, PUBREC, PUBREL, PUBCOMP, SUBACK, UNSUBACK, PINGRESP
<1>1. t \in Byte BY ByteIs
<1>2. CASE t = PUBREL
  <2>1. Kind(t) = 96 BY <1>2 DEF Kind
  <2>2. 2^1 = 2 BY SMT
  <2>3. Flag(t, 1) BY <1>2, <2>2 DEF Flag
  <2> QED BY <1>1, <2>1, <2>3 DEF IncomingPacketValid
<1>3. CASE t # PUBREL
  <2>1. Kind(t) = t BY <1>3 DEF Kind
  <2> QED BY <1>1, <1>3, <2>1 DEF IncomingPacketValid
<1> QED BY <1>2, <1>3

\* No front of an encoded length is a length.
LEMMA EncodedWhole ==
  ASSUME NEW n \in Nat, n <= MaxRemaining, NEW b \in Seq(Byte), Len(b) <= RemainingLengthEncodedSize(n), b # <<>>,
         \A i \in 1 .. Len(b) - 1 : b[i + 1] = EncodeRemainingLength(n)[i]
  PROVE  /\ \A k : ~Ends(b, k)
         /\ ProcessRemainingLength(b).status = "NeedMoreBytes"
<1> DEFINE e == EncodeRemainingLength(n)
           k == RemainingLengthEncodedSize(n)
<1>1. /\ k \in 1 .. 4 /\ e \in Seq(Byte) /\ Len(e) = k
      /\ e[1] = (n % 128) + Bit(1 < k, 7)
      /\ k > 1 => e[2] = ((n \div 128) % 128) + Bit(2 < k, 7)
      /\ k > 2 => e[3] = ((n \div 16384) % 128) + Bit(3 < k, 7)
  BY EncodedBytes, SMT
<1>2. \A j \in 1 .. k - 1 : e[j] >= 128
  <2>1. /\ 1 < k => Bit(1 < k, 7) = 128
        /\ 2 < k => Bit(2 < k, 7) = 128
        /\ 3 < k => Bit(3 < k, 7) = 128
    <3>1. 2^7 = 128 BY SMT
    <3> QED BY <3>1, SMT DEF Bit
  <2>2. n % 128 \in Nat /\ (n \div 128) % 128 \in Nat /\ (n \div 16384) % 128 \in Nat BY Digits, SMT
  <2>3. \A j \in 1 .. k - 1 : (j = 1 /\ 1 < k) \/ (j = 2 /\ 2 < k) \/ (j = 3 /\ 3 < k) BY <1>1
  <2> HIDE DEF e, k
  <2>4. 1 < k => e[1] >= 128 BY <1>1, <2>1, <2>2, SMT
  <2>5. 2 < k => e[2] >= 128 BY <1>1, <2>1, <2>2, SMT
  <2>6. 3 < k => e[3] >= 128 BY <1>1, <2>1, <2>2, SMT
  <2> QED BY <2>3, <2>4, <2>5, <2>6
<1>3. Len(b) <= k /\ Len(b) \in Nat /\ \A i \in 1 .. Len(b) - 1 : b[i + 1] = e[i] OBVIOUS
<1> HIDE DEF e, k
<1>4. ASSUME NEW j, Ends(b, j) PROVE FALSE
  <2>1. j \in 1 .. 4 /\ j < Len(b) /\ b[j + 1] < 128 BY <1>4 DEF Ends
  <2>2. j \in 1 .. Len(b) - 1 /\ j \in 1 .. k - 1 BY <1>1, <1>3, <2>1
  <2>3. b[j + 1] = e[j] /\ e[j] >= 128 BY <1>2, <1>3, <2>2
  <2>4. e[j] \in Byte BY <1>1, <2>2
  <2>5. e[j] \in Nat BY <2>4, ByteIs
  <2> QED BY <2>1, <2>3, <2>5
<1>5. \A j : ~HeaderOf(b, j) BY <1>4 DEF HeaderOf
<1>6. Len(b) < 5 BY <1>1, <1>3
<1> QED BY <1>4, <1>5, <1>6, RemainingIs

LEMMA PublishSizes ==
  ASSUME NEW n \in Nat, n <= MaxRemaining, NEW q \in 0 .. 2
  PROVE  LET size == GetPublishPacketSize(5, n, q)
         IN /\ size.status = "Success" => size.size <= MaxRemaining + 5 /\ size.remaining <= MaxRemaining
            /\ n < MaxRemaining - 20 => size.status = "Success"
<1> DEFINE h == 7 + IF q > 0 THEN 2 ELSE 0
           limit == MaxRemaining - h - 1
           r == h + n
           s == RemainingLengthEncodedSize(r)
           refused == 5 = 0 \/ n > limit \/ n > limit - s
<1>1. h = 5 + 2 + (IF q > 0 THEN 2 ELSE 0) /\ h \in 7 .. 9 OBVIOUS
<1>2. GetPublishPacketSize(5, n, q) =
        IF refused THEN [status |-> "BadParameter", remaining |-> 0, size |-> 0]
        ELSE [status |-> "Success", remaining |-> r, size |-> r + 1 + s]
  BY <1>1, Zenon DEF GetPublishPacketSize
<1> HIDE DEF h
<1>3. s \in 1 .. 4 BY <1>1, Sizes
<1> HIDE DEF s
<1>4. n < MaxRemaining - 20 => ~refused BY <1>1, <1>3, MaxRemainingIs
<1>5. ~refused => r + 1 + s <= MaxRemaining + 5 /\ r <= MaxRemaining BY <1>1, <1>3, MaxRemainingIs
<1> HIDE DEF refused, r
<1> QED BY <1>2, <1>4, <1>5

LEMMA ConsBytes ==
  ASSUME NEW t \in Byte, NEW e \in Seq(Byte)
  PROVE  LET b == <<t>> \o e
         IN /\ b \in Seq(Byte) /\ Len(b) = 1 + Len(e) /\ b[1] = t
            /\ \A i \in 1 .. Len(e) : b[i + 1] = e[i]
  OBVIOUS

LEMMA LengthHolds ==
  ASSUME NEW n \in Nat, n <= MaxRemaining, NEW q \in 0 .. 2
  PROVE  LET e == EncodeRemainingLength(n)
             b == <<PUBLISH>> \o e
             size == GetPublishPacketSize(5, n, q)
         IN /\ Len(e) = RemainingLengthEncodedSize(n)
            /\ Header(b) = [size |-> Len(b), n |-> n]
            /\ ProcessIncoming(b) = [status |-> "Success", remaining |-> n, header |-> Len(b)]
            /\ GetIncoming(b, TRUE) = [status |-> "Success", n |-> n, used |-> Len(b)]
            /\ \A k \in 1 .. Len(b) - 1 : ProcessIncoming(SubSeq(b, 1, k)).status = "NeedMoreBytes"
            /\ size.status = "Success" => size.size <= MaxRemaining + 5 /\ size.remaining <= MaxRemaining
            /\ n < MaxRemaining - 20 => size.status = "Success"
<1> DEFINE e == EncodeRemainingLength(n)
           b == <<PUBLISH>> \o e
           size == GetPublishPacketSize(5, n, q)
           s == RemainingLengthEncodedSize(n)
<1>1. n <= MaxRemaining OBVIOUS
<1>2. e \in Seq(Byte) /\ Len(e) = s /\ s \in 1 .. 4 BY <1>1, EncodedBytes, SMT
<1>3. PUBLISH \in Byte /\ IncomingPacketValid(PUBLISH) BY ValidFirst
<1>4. b \in Seq(Byte) /\ Len(b) = 1 + s /\ b[1] = PUBLISH /\ b # <<>> /\ \A i \in 1 .. s : b[i + 1] = e[i]
  BY <1>2, <1>3, ConsBytes
<1> HIDE DEF b
<1>5. HeaderOf(b, s) /\ Announced(b, s) = n
  <2>1. Len(b) > s BY <1>2, <1>4
  <2> QED BY <1>1, <1>4, <2>1, EncodedHeader, SMT
<1>6. Header(b) = [size |-> Len(b), n |-> n] BY <1>2, <1>4, <1>5, HeaderIs
<1>7. ProcessIncoming(b) = [status |-> "Success", remaining |-> n, header |-> Len(b)]
  <2>1. ProcessRemainingLength(b) = [status |-> "Success", remaining |-> n, header |-> Len(b)]
    BY <1>2, <1>4, <1>5, RemainingIs
  <2> QED BY <1>3, <1>4, <2>1 DEF ProcessIncoming
<1>8. GetIncoming(b, TRUE) = [status |-> "Success", n |-> n, used |-> Len(b)]
  <2>1. GetRemainingLength(b) = [valid |-> TRUE, n |-> n, used |-> Len(b)]
    BY <1>2, <1>4, <1>5, RemainingIs
  <2> QED BY <1>3, <1>4, <2>1 DEF GetIncoming
<1>9. ASSUME NEW k \in 1 .. Len(b) - 1 PROVE ProcessIncoming(SubSeq(b, 1, k)).status = "NeedMoreBytes"
  <2> DEFINE c == SubSeq(b, 1, k)
  <2>1. c \in Seq(Byte) /\ Len(c) = k /\ c # <<>> /\ c[1] = PUBLISH /\ Len(c) <= s
        /\ \A i \in 1 .. Len(c) - 1 : c[i + 1] = e[i]
    <3>1. c \in Seq(Byte) /\ Len(c) = k /\ \A i \in 1 .. k : c[i] = b[i] BY <1>4
    <3>2. c # <<>> BY <1>4
    <3> HIDE DEF c
    <3>3. k \in 1 .. s BY <1>2, <1>4
    <3>4. c[1] = PUBLISH BY <1>4, <3>1, <3>3
    <3>5. \A i \in 1 .. k - 1 : i + 1 \in 1 .. k /\ i \in 1 .. s BY <1>2, <3>3
    <3>6. \A i \in 1 .. k - 1 : c[i + 1] = e[i] BY <1>4, <3>1, <3>5
    <3> QED BY <3>1, <3>2, <3>3, <3>4, <3>6
  <2> HIDE DEF c
  <2>2. ProcessRemainingLength(c).status = "NeedMoreBytes" BY <1>1, <2>1, EncodedWhole, SMT
  <2>3. ProcessIncoming(c) = ProcessRemainingLength(c) BY <1>3, <2>1 DEF ProcessIncoming
  <2> QED BY <2>2, <2>3 DEF c
<1>10. /\ size.status = "Success" => size.size <= MaxRemaining + 5 /\ size.remaining <= MaxRemaining
       /\ n < MaxRemaining - 20 => size.status = "Success"
  BY PublishSizes
<1> HIDE DEF e, s, size
<1>11. Len(e) = s BY <1>2
<1> QED BY <1>6, <1>7, <1>8, <1>9, <1>10, <1>11 DEF e, b, s, size

-----------------------------------------------------------------------------
(* What is accepted                                                        *)

LEMMA Decode16Is ==
  ASSUME NEW d \in Seq(Byte), NEW i \in Nat, i >= 1, i + 1 <= Len(d)
  PROVE  Decode16(d, i) = d[i] * 256 + d[i + 1] /\ Decode16(d, i) \in Nat /\ Decode16(d, i) < 65536
<1>1. d[i] \in Nat /\ d[i] < 256 /\ d[i + 1] \in Nat /\ d[i + 1] < 256 BY ByteIs
<1> QED BY <1>1, SMT DEF Decode16

LEMMA KindPublish ==
  ASSUME NEW t \in Byte
  PROVE  /\ Kind(t) = PUBLISH <=> t \in PUBLISH .. PUBLISH + 15
         /\ Kind(t) = PUBLISH <=> t \in 48 .. 63
<1>1. t \in Nat /\ t < 256 BY ByteIs
<1>2. t - (t % 16) = 48 <=> t >= 48 /\ t <= 63 BY <1>1
<1> QED BY <1>1, <1>2 DEF Kind, PUBLISH

LEMMA PublishFlagsAre ==
  ASSUME NEW t \in 48 .. 63
  PROVE  LET qos == (t \div 2) % 4
         IN /\ qos \in 0 .. 3
            /\ ProcessPublishFlags(t % 16) = IF qos = 3 THEN Bad
                 ELSE [status |-> "Success", qos |-> qos, retain |-> Flag(t, 0), dup |-> Flag(t, 3)]
            /\ Flag(t, 3) <=> t >= 56
<1>1. 2^0 = 1 /\ 2^1 = 2 /\ 2^2 = 4 /\ 2^3 = 8 BY SMT
<1> DEFINE f == t % 16
           qos == (t \div 2) % 4
<1>2. f = t - 48 /\ f \in 0 .. 15 BY SMT
<1>3. (f \div 1) % 2 = 1 <=> (t \div 1) % 2 = 1 BY SMT
<1>4. (f \div 8) % 2 = 1 <=> (t \div 8) % 2 = 1 BY SMT
<1>5. (t \div 8) % 2 = 1 <=> t >= 56 BY SMT
<1>6. qos \in 0 .. 3 BY SMT
<1>7. (f \div 4) % 2 = 1 <=> qos \in {2, 3} BY SMT
<1>8. (f \div 2) % 2 = 1 <=> qos \in {1, 3} BY SMT
<1>9. (Flag(f, 0) <=> Flag(t, 0)) /\ (Flag(f, 3) <=> Flag(t, 3)) BY <1>1, <1>3, <1>4 DEF Flag
<1>10. (Flag(f, 2) <=> qos \in {2, 3}) /\ (Flag(f, 1) <=> qos \in {1, 3}) BY <1>1, <1>7, <1>8 DEF Flag
<1>11. Flag(t, 3) <=> t >= 56 BY <1>1, <1>5 DEF Flag
<1>12. Flag(f, 0) \in BOOLEAN /\ Flag(f, 3) \in BOOLEAN /\ Flag(t, 0) \in BOOLEAN /\ Flag(t, 3) \in BOOLEAN BY DEF Flag
<1>13. ProcessPublishFlags(f) =
         IF Flag(f, 2) /\ Flag(f, 1) THEN Bad
         ELSE [status |-> "Success", qos |-> IF Flag(f, 2) THEN 2 ELSE IF Flag(f, 1) THEN 1 ELSE 0,
               retain |-> Flag(f, 0), dup |-> Flag(f, 3)]
  BY DEF ProcessPublishFlags
<1>14. Flag(f, 0) = Flag(t, 0) /\ Flag(f, 3) = Flag(t, 3) BY <1>9, <1>12
<1> HIDE DEF f, qos
<1>15. qos # 3 => (IF Flag(f, 2) THEN 2 ELSE IF Flag(f, 1) THEN 1 ELSE 0) = qos BY <1>6, <1>10
<1> QED BY <1>6, <1>10, <1>11, <1>13, <1>14, <1>15, Zenon DEF f, qos

\* What MQTT_DeserializePublish takes, said without its flags.
PublishOK(t, d) ==
  LET qos == (t \div 2) % 4
      x == IF qos = 0 THEN 0 ELSE 2
      T == Decode16(d, 1)
  IN /\ qos # 3 /\ Len(d) >= 3 + x /\ Len(d) >= T + 2 + x
     /\ qos > 0 => Decode16(d, T + 3) # 0

LEMMA PublishRead ==
  ASSUME NEW t \in 48 .. 63, NEW d \in Seq(Byte)
  PROVE  LET qos == (t \div 2) % 4
             x == IF qos = 0 THEN 0 ELSE 2
             T == Decode16(d, 1)
         IN DeserializePublish(t, d) =
              IF PublishOK(t, d)
              THEN [status |-> "Success", id |-> IF qos = 0 THEN 0 ELSE Decode16(d, T + 3),
                    p |-> [qos |-> qos, dup |-> Flag(t, 3), retain |-> Flag(t, 0), topic |-> SubSeq(d, 3, T + 2),
                           payload |-> SubSeq(d, T + 2 + x + 1, Len(d)), noPayload |-> Len(d) = T + 2 + x]]
              ELSE Bad
<1> DEFINE qos == (t \div 2) % 4
           x == IF qos = 0 THEN 0 ELSE 2
           T == Decode16(d, 1)
           f == ProcessPublishFlags(t % 16)
           id == IF f.qos = 0 THEN 0 ELSE Decode16(d, T + 3)
           rest == T + 2 + IF f.qos = 0 THEN 0 ELSE 2
<1>1. /\ qos \in 0 .. 3
      /\ f = IF qos = 3 THEN Bad ELSE [status |-> "Success", qos |-> qos, retain |-> Flag(t, 0), dup |-> Flag(t, 3)]
  BY PublishFlagsAre
<1>2. DeserializePublish(t, d) =
        IF f.status # "Success" \/ ~CheckPublishRemainingLength(Len(d), f.qos, 3) THEN Bad
        ELSE IF ~CheckPublishRemainingLength(Len(d), f.qos, T + 2) THEN Bad
        ELSE IF f.qos > 0 /\ id = 0 THEN Bad
        ELSE [status |-> "Success", id |-> id,
              p |-> [qos |-> f.qos, dup |-> f.dup, retain |-> f.retain, topic |-> SubSeq(d, 3, T + 2),
                     payload |-> SubSeq(d, rest + 1, Len(d)), noPayload |-> Len(d) = rest]]
  BY DEF DeserializePublish
<1>3. PublishOK(t, d) <=> qos # 3 /\ Len(d) >= 3 + x /\ Len(d) >= T + 2 + x /\ (qos > 0 => Decode16(d, T + 3) # 0)
  BY DEF PublishOK
<1> HIDE DEF qos, f
<1>4. CASE qos = 3
  <2>1. f.status # "Success" BY <1>1, <1>4 DEF Bad
  <2> QED BY <1>2, <1>3, <1>4, <2>1 DEF qos
<1>5. CASE qos # 3
  <2>1. f = [status |-> "Success", qos |-> qos, retain |-> Flag(t, 0), dup |-> Flag(t, 3)] BY <1>1, <1>5
  <2>2. f.status = "Success" /\ f.qos = qos /\ f.retain = Flag(t, 0) /\ f.dup = Flag(t, 3) BY <2>1
  <2>3. CheckPublishRemainingLength(Len(d), f.qos, 3) <=> Len(d) >= 3 + x BY <2>2 DEF CheckPublishRemainingLength
  <2>4. CheckPublishRemainingLength(Len(d), f.qos, T + 2) <=> Len(d) >= T + 2 + x
    BY <2>2 DEF CheckPublishRemainingLength
  <2>5. id = (IF qos = 0 THEN 0 ELSE Decode16(d, T + 3)) /\ rest = T + 2 + x BY <2>2
  <2>6. (f.qos > 0 /\ id = 0) <=> ~(qos > 0 => Decode16(d, T + 3) # 0) BY <1>1, <2>2
  <2> HIDE DEF id, rest, x, T
  <2>7. CASE PublishOK(t, d)
    <3>1. DeserializePublish(t, d) =
            [status |-> "Success", id |-> id,
              p |-> [qos |-> f.qos, dup |-> f.dup, retain |-> f.retain, topic |-> SubSeq(d, 3, T + 2),
                     payload |-> SubSeq(d, rest + 1, Len(d)), noPayload |-> Len(d) = rest]]
      BY <1>2, <1>3, <2>2, <2>3, <2>4, <2>6, <2>7
    <3> QED BY <2>2, <2>5, <2>7, <3>1 DEF qos, T, x
  <2>8. CASE ~PublishOK(t, d)
    <3>1. DeserializePublish(t, d) = Bad BY <1>2, <1>3, <1>5, <2>2, <2>3, <2>4, <2>6, <2>8
    <3> QED BY <2>8, <3>1
  <2> QED BY <2>7, <2>8
<1> QED BY <1>4, <1>5

LEMMA PublishStatus ==
  ASSUME NEW t \in 48 .. 63, NEW d \in Seq(Byte)
  PROVE  DeserializePublish(t, d).status = IF PublishOK(t, d) THEN "Success" ELSE "BadResponse"
<1>1. Bad.status = "BadResponse" BY DEF Bad
<1>2. CASE ~PublishOK(t, d)
  <2>1. DeserializePublish(t, d) = Bad BY <1>2, PublishRead
  <2> QED BY <1>1, <1>2, <2>1
<1>3. CASE PublishOK(t, d)
  <2>1. \E id, p : DeserializePublish(t, d) = [status |-> "Success", id |-> id, p |-> p] BY <1>3, PublishRead, Zenon
  <2> QED BY <1>3, <2>1
<1> QED BY <1>2, <1>3

LEMMA PublishAccepted ==
  ASSUME NEW t \in 48 .. 63, NEW d \in Seq(Byte)
  PROVE  PublishOK(t, d) <=> Accepted(t, d)
<1> DEFINE qos == (t \div 2) % 4
           x == IF qos = 0 THEN 0 ELSE 2
           T == Decode16(d, 1)
<1>1. qos \in 0 .. 3 BY PublishFlagsAre
<1>2. WellFormed(t, d) <=>
        /\ qos # 3 /\ (qos = 0 => t < 56)
        /\ Len(d) >= 3 /\ 2 + T > 2 /\ 2 + T + x <= Len(d)
        /\ qos > 0 => Decode16(d, 2 + T + 1) # 0
  <2>1. /\ t # SUBACK /\ t \notin {PUBACK, PUBREC, PUBREL, PUBCOMP, UNSUBACK} /\ t # PINGRESP
        /\ t \in PUBLISH .. PUBLISH + 15 /\ PUBLISH + 8 = 56
    BY DEF SUBACK, PUBACK, PUBREC, PUBREL, PUBCOMP, UNSUBACK, PINGRESP, PUBLISH
  <2> QED BY <2>1, Zenon DEF WellFormed
<1>3. Tolerated(t, d) <=>
        /\ qos # 3 /\ Len(d) >= (IF qos = 0 THEN 3 ELSE 5)
        /\ T = 0 \/ (qos = 0 /\ t >= 56)
        /\ 2 + T + x <= Len(d)
        /\ qos > 0 => Decode16(d, 3) # 0
  <2>1. t \in PUBLISH .. PUBLISH + 15 /\ PUBLISH + 8 = 56 BY DEF PUBLISH
  <2> QED BY <2>1, Zenon DEF Tolerated
<1>4. PublishOK(t, d) <=> qos # 3 /\ Len(d) >= 3 + x /\ Len(d) >= T + 2 + x /\ (qos > 0 => Decode16(d, T + 3) # 0)
  BY DEF PublishOK
<1>5. Len(d) >= 2 => T \in Nat /\ T + 3 = 2 + T + 1
  <2> SUFFICES ASSUME Len(d) >= 2 PROVE T \in Nat /\ T + 3 = 2 + T + 1 OBVIOUS
  <2>1. T \in Nat BY Decode16Is
  <2> HIDE DEF T
  <2> QED BY <2>1
<1> HIDE DEF qos, T
<1>6. CASE Len(d) < 3
  <2>1. Len(d) \in Nat /\ x \in {0, 2} /\ ~(Len(d) >= 3 + x) /\ ~(Len(d) >= 3) BY <1>6
  <2>2. ~PublishOK(t, d) BY <1>4, <2>1
  <2>3. ~WellFormed(t, d) BY <1>2, <2>1
  <2>4. ~(Len(d) >= (IF qos = 0 THEN 3 ELSE 5)) BY <1>6, <2>1
  <2>5. ~Tolerated(t, d) BY <1>3, <2>4
  <2> QED BY <2>2, <2>3, <2>5 DEF Accepted
<1>7. CASE Len(d) >= 3
  <2>1. T \in Nat /\ Decode16(d, T + 3) = Decode16(d, 2 + T + 1) /\ (T = 0 => T + 3 = 3) BY <1>5, <1>7
  <2> DEFINE far == Decode16(d, T + 3) # 0
             near == Decode16(d, 3) # 0
  <2>2. T = 0 => (far <=> near) BY <2>1
  <2>3. WellFormed(t, d) <=>
          /\ qos # 3 /\ (qos = 0 => t < 56)
          /\ Len(d) >= 3 /\ 2 + T > 2 /\ 2 + T + x <= Len(d)
          /\ qos > 0 => far
    BY <1>2, <2>1
  <2> HIDE DEF far, near
  <2>4. PublishOK(t, d) <=> qos # 3 /\ Len(d) >= 3 + x /\ Len(d) >= T + 2 + x /\ (qos > 0 => far)
    BY <1>4 DEF far
  <2>5. Tolerated(t, d) <=>
        /\ qos # 3 /\ Len(d) >= (IF qos = 0 THEN 3 ELSE 5)
        /\ T = 0 \/ (qos = 0 /\ t >= 56)
        /\ 2 + T + x <= Len(d)
        /\ qos > 0 => near
    BY <1>3 DEF near
  <2> DEFINE L == Len(d)
  <2>6. L \in Nat OBVIOUS
  <2> HIDE DEF L
  <2> QED BY <1>1, <1>7, <2>1, <2>2, <2>3, <2>4, <2>5, <2>6 DEF Accepted, L
<1>8. Len(d) < 3 \/ Len(d) >= 3 OBVIOUS
<1> QED BY <1>6, <1>7, <1>8

\* The acknowledgements and their formats.
LEMMA AckRead ==
  ASSUME NEW t \in Byte, NEW d \in Seq(Byte), ~(t \in 48 .. 63), t # CONNACK
  PROVE  LET r == DeserializeAck(t, d)
         IN /\ r.status \in {"Success", "ServerRefused", "BadResponse"}
            /\ r.status = "ServerRefused" => t = SUBACK
            /\ r.status # "BadResponse" <=> WellFormed(t, d)
<1> DEFINE r == DeserializeAck(t, d)
<1>1. ~(t \in PUBLISH .. PUBLISH + 15) BY DEF PUBLISH
<1>2. Bad.status = "BadResponse" BY DEF Bad
<1>3. CASE t = SUBACK
  <2>0. t # PINGRESP /\ t \notin {PUBACK, PUBREC, PUBREL, PUBCOMP, UNSUBACK}
        /\ t \notin {UNSUBACK, PUBACK, PUBREC, PUBREL, PUBCOMP}
    BY <1>3 DEF SUBACK, PUBACK, PUBREC, PUBREL, PUBCOMP, UNSUBACK, PINGRESP
  <2>1. r = DeserializeSuback(d) BY <1>3, <2>0, Zenon DEF DeserializeAck
  <2>2. WellFormed(t, d) <=> Len(d) >= 3 /\ Decode16(d, 1) # 0 /\ \A i \in 3 .. Len(d) : d[i] \in {0, 1, 2, 128}
    BY <1>1, <1>3, <2>0, Zenon DEF WellFormed
  <2>3. CASE Len(d) < 3 \/ Decode16(d, 1) = 0
    <3>1. r = Bad BY <2>1, <2>3 DEF DeserializeSuback
    <3> QED BY <1>2, <1>3, <2>2, <2>3, <3>1 DEF SUBACK, PUBREL
  <2>4. CASE Len(d) >= 3 /\ Decode16(d, 1) # 0
    <3> DEFINE codes == SubSeq(d, 3, Len(d))
    <3>1. r.status = ReadSubackStatus(codes) BY <2>1, <2>4 DEF DeserializeSuback
    <3>2. Len(codes) = Len(d) - 2 /\ DOMAIN codes = 1 .. Len(d) - 2 /\ \A i \in 1 .. Len(d) - 2 : codes[i] = d[i + 2]
      BY <2>4
    <3>3. (\E i \in DOMAIN codes : codes[i] \notin {0, 1, 2, 128}) <=> ~\A i \in 3 .. Len(d) : d[i] \in {0, 1, 2, 128}
      <4>1. \A i \in 3 .. Len(d) : i - 2 \in 1 .. Len(d) - 2 /\ codes[i - 2] = d[(i - 2) + 2] /\ (i - 2) + 2 = i
        BY <2>4, <3>2
      <4>2. \A i \in 1 .. Len(d) - 2 : i + 2 \in 3 .. Len(d) BY <2>4
      <4> HIDE DEF codes
      <4>3. ASSUME \E i \in DOMAIN codes : codes[i] \notin {0, 1, 2, 128}
            PROVE  ~\A i \in 3 .. Len(d) : d[i] \in {0, 1, 2, 128}
        <5>1. PICK i \in 1 .. Len(d) - 2 : codes[i] \notin {0, 1, 2, 128} BY <3>2, <4>3
        <5>2. d[i + 2] \notin {0, 1, 2, 128} /\ i + 2 \in 3 .. Len(d) BY <3>2, <4>2, <5>1
        <5> QED BY <5>2
      <4>4. ASSUME NEW i \in 3 .. Len(d), d[i] \notin {0, 1, 2, 128}
            PROVE  \E j \in DOMAIN codes : codes[j] \notin {0, 1, 2, 128}
        BY <3>2, <4>1, <4>4, ZenonT(60)
      <4> QED BY <4>3, <4>4
    <3> HIDE DEF codes, r
    <3>4. ReadSubackStatus(codes) =
            IF \E i \in DOMAIN codes : codes[i] \notin {0, 1, 2, 128} THEN "BadResponse"
            ELSE IF 128 \in ToSet(codes) THEN "ServerRefused" ELSE "Success"
      BY DEF ReadSubackStatus
    <3>5. t # PUBREL BY <1>3 DEF SUBACK, PUBREL
    <3> QED BY <1>3, <2>2, <2>4, <3>1, <3>3, <3>4, <3>5 DEF r
  <2>5. Len(d) < 3 \/ Len(d) >= 3 OBVIOUS
  <2> QED BY <2>3, <2>4, <2>5
<1>4. CASE t \in {PUBACK, PUBREC, PUBREL, PUBCOMP, UNSUBACK}
  <2>1. r = DeserializeSimpleAck(d)
    <3>1. t # PINGRESP /\ t # SUBACK /\ t \in {UNSUBACK, PUBACK, PUBREC, PUBREL, PUBCOMP}
      BY <1>4 DEF SUBACK, PINGRESP, PUBACK, PUBREC, PUBREL, PUBCOMP, UNSUBACK
    <3> QED BY <3>1, Zenon DEF DeserializeAck
  <2>2. t # SUBACK /\ t # PINGRESP BY <1>4 DEF SUBACK, PINGRESP, PUBACK, PUBREC, PUBREL, PUBCOMP, UNSUBACK
  <2>3. WellFormed(t, d) <=> Len(d) = 2 /\ Decode16(d, 1) # 0
    BY <1>1, <1>4, <2>2, Zenon DEF WellFormed
  <2>4. r.status = IF Len(d) # 2 \/ Decode16(d, 1) = 0 THEN "BadResponse" ELSE "Success"
    BY <1>2, <2>1 DEF DeserializeSimpleAck
  <2> HIDE DEF r
  <2> QED BY <2>3, <2>4 DEF r
<1>5. CASE t = PINGRESP
  <2>1. r = DeserializePingresp(d)
    <3>1. t # SUBACK /\ t \notin {UNSUBACK, PUBACK, PUBREC, PUBREL, PUBCOMP}
      BY <1>5 DEF SUBACK, PINGRESP, PUBACK, PUBREC, PUBREL, PUBCOMP, UNSUBACK
    <3> QED BY <1>5, <3>1, Zenon DEF DeserializeAck
  <2>2. t \notin {PUBACK, PUBREC, PUBREL, PUBCOMP, UNSUBACK} /\ t # SUBACK /\ t # PUBREL
    BY <1>5 DEF SUBACK, PUBACK, PUBREC, PUBREL, PUBCOMP, UNSUBACK, PINGRESP
  <2>3. WellFormed(t, d) <=> d = <<>> BY <1>1, <1>5, <2>2, Zenon DEF WellFormed
  <2>4. r.status = IF d # <<>> THEN "BadResponse" ELSE "Success" BY <1>2, <2>1 DEF DeserializePingresp
  <2> HIDE DEF r
  <2> QED BY <2>2, <2>3, <2>4 DEF r
<1>6. CASE t \notin {SUBACK, PINGRESP, PUBACK, PUBREC, PUBREL, PUBCOMP, UNSUBACK}
  <2>1. r = Bad BY <1>6, Zenon DEF DeserializeAck
  <2>2. ~WellFormed(t, d) BY <1>1, <1>6, Zenon DEF WellFormed
  <2> QED BY <1>2, <1>6, <2>1, <2>2
<1> QED BY <1>3, <1>4, <1>5, <1>6

\* The verdict of handleIncomingPublish and handleIncomingAck.
LEMMA Verdict ==
  ASSUME NEW t \in Byte, NEW d \in Seq(Byte)
  PROVE  LET v == Handle(t, d)
         IN /\ v.handled \in BOOLEAN
            /\ v.handled <=> Accepted(t, d)
            /\ v.status = IF v.handled THEN "Success" ELSE "BadResponse"
            /\ Accepted(t, d) => IncomingPacketValid(t) /\ t # CONNACK
<1> DEFINE r == IF Kind(t) = PUBLISH THEN DeserializePublish(t, d) ELSE DeserializeAck(t, d)
           ok == r.status = "Success" \/ (r.status = "ServerRefused" /\ t = SUBACK)
<1>1. Handle(t, d) = [handled |-> ok /\ t # CONNACK,
                      status |-> IF t = CONNACK THEN "BadResponse" ELSE IF ok THEN "Success" ELSE r.status]
  BY DEF Handle
<1>2. ok \in BOOLEAN OBVIOUS
<1>3. Kind(t) = PUBLISH <=> t \in 48 .. 63 BY KindPublish
<1>4. CASE t \in 48 .. 63
  <2>1. r = DeserializePublish(t, d) BY <1>3, <1>4
  <2>2. r.status = IF PublishOK(t, d) THEN "Success" ELSE "BadResponse" BY <1>4, <2>1, PublishStatus
  <2>4. t # CONNACK /\ t # SUBACK BY <1>4 DEF CONNACK, SUBACK
  <2>5. PublishOK(t, d) <=> Accepted(t, d) BY <1>4, PublishAccepted
  <2>6. IncomingPacketValid(t) BY <1>3, <1>4 DEF IncomingPacketValid
  <2> HIDE DEF r
  <2>7. ok <=> PublishOK(t, d) BY <2>2, <2>4
  <2>8. ~ok => r.status = "BadResponse" BY <2>2, <2>7
  <2> HIDE DEF ok
  <2> QED BY <1>1, <1>2, <2>4, <2>5, <2>6, <2>7, <2>8
<1>5. CASE t = CONNACK
  <2>1. ~(t \in PUBLISH .. PUBLISH + 15) /\ t \notin {SUBACK, PUBACK, PUBREC, PUBREL, PUBCOMP, UNSUBACK, PINGRESP}
    BY <1>5 DEF CONNACK, SUBACK, PUBACK, PUBREC, PUBREL, PUBCOMP, UNSUBACK, PINGRESP, PUBLISH
  <2>2. ~WellFormed(t, d) BY <2>1, Zenon DEF WellFormed
  <2>3. ~Tolerated(t, d) BY <2>1 DEF Tolerated
  <2> HIDE DEF ok
  <2>4. (ok /\ t # CONNACK) = FALSE BY <1>5
  <2>6. Handle(t, d) = [handled |-> FALSE, status |-> "BadResponse"]
    <3> HIDE DEF r
    <3> QED BY <1>1, <1>5, <2>4, Zenon
  <2>5. Handle(t, d).handled = FALSE /\ Handle(t, d).status = "BadResponse" BY <2>6
  <2> QED BY <2>2, <2>3, <2>5 DEF Accepted
<1>6. CASE ~(t \in 48 .. 63) /\ t # CONNACK
  <2>1. ~(t \in PUBLISH .. PUBLISH + 15) BY <1>6 DEF PUBLISH
  <2>2. ~Tolerated(t, d) BY <2>1 DEF Tolerated
  <2>3. r = DeserializeAck(t, d) BY <1>3, <1>6
  <2> HIDE DEF r
  <2>4. ok <=> r.status # "BadResponse" BY <1>6, <2>3, AckRead
  <2>5. ok <=> WellFormed(t, d) BY <1>6, <2>3, <2>4, AckRead
  <2>6. WellFormed(t, d) => t \in {SUBACK, PUBACK, PUBREC, PUBREL, PUBCOMP, UNSUBACK, PINGRESP}
    BY <2>1, Zenon DEF WellFormed
  <2>7. WellFormed(t, d) => IncomingPacketValid(t) BY <2>6, ValidFirst
  <2> HIDE DEF ok
  <2> QED BY <1>1, <1>2, <1>6, <2>2, <2>4, <2>5, <2>7 DEF Accepted
<1> QED BY <1>4, <1>5, <1>6

\* What a server reads in a publish is what the application is given.
LEMMA PublishSays ==
  ASSUME NEW t \in 48 .. 63, NEW d \in Seq(Byte), Len(d) <= MaxRemaining, WellFormed(t, d)
  PROVE  LET r == DeserializePublish(t, d)
         IN <<48, r.p.dup, r.p.qos, r.p.retain, r.p.topic, r.id, r.p.payload>>
              = Says("publish", <<t>> \o EncodeRemainingLength(Len(d)) \o d)
<1> DEFINE qos == (t \div 2) % 4
           x == IF qos = 0 THEN 0 ELSE 2
           T == Decode16(d, 1)
           e == EncodeRemainingLength(Len(d))
           k == RemainingLengthEncodedSize(Len(d))
           b == <<t>> \o e \o d
           r == DeserializePublish(t, d)
<1>1. PublishOK(t, d) BY PublishAccepted DEF Accepted
<1>2. r = [status |-> "Success", id |-> IF qos = 0 THEN 0 ELSE Decode16(d, T + 3),
           p |-> [qos |-> qos, dup |-> Flag(t, 3), retain |-> Flag(t, 0), topic |-> SubSeq(d, 3, T + 2),
                  payload |-> SubSeq(d, T + 2 + x + 1, Len(d)), noPayload |-> Len(d) = T + 2 + x]]
  BY <1>1, PublishRead
<1>3. t \in Byte BY ByteIs
<1>4. e \in Seq(Byte) /\ Len(e) = k /\ k \in 1 .. 4 /\ Len(d) \in Nat BY EncodedBytes
<1> HIDE DEF e
<1>5. /\ b \in Seq(Byte) /\ Len(b) = 1 + k + Len(d) /\ b[1] = t
      /\ \A i \in 1 .. k : b[i + 1] = e[i]
      /\ SubSeq(b, k + 2, Len(b)) = d
  <2>1. DEFINE h == <<t>> \o e
  <2>2. h \in Seq(Byte) /\ Len(h) = 1 + k /\ h[1] = t /\ \A i \in 1 .. k : h[i + 1] = e[i] BY <1>3, <1>4, ConsBytes
  <2> HIDE DEF h
  <2>3. h \o d \in Seq(Byte) /\ Len(h \o d) = 1 + k + Len(d) /\ \A i \in 1 .. 1 + k : (h \o d)[i] = h[i] BY <1>4, <2>2
  <2>4. SubSeq(h \o d, k + 2, Len(h \o d)) = d
    <3>1. SubSeq(h \o d, Len(h) + 1, Len(h) + Len(d)) = d BY <2>2, SecondHalf
    <3>2. Len(h) + 1 = k + 2 /\ Len(h) + Len(d) = Len(h \o d) BY <1>4, <2>2, <2>3
    <3> QED BY <3>1, <3>2
  <2>5. 1 \in 1 .. 1 + k /\ \A i \in 1 .. k : i + 1 \in 1 .. 1 + k BY <1>4
  <2> QED BY <2>2, <2>3, <2>4, <2>5 DEF h
<1> HIDE DEF b
<1>6. Header(b) = [size |-> k + 1, n |-> Len(d)]
  <2>1. Len(b) > k BY <1>4, <1>5
  <2>2. HeaderOf(b, k) /\ Announced(b, k) = Len(d) BY <1>4, <1>5, <2>1, EncodedHeader DEF e
  <2> QED BY <1>5, <2>2, HeaderIs
<1>7. (Len(d) >= 3) /\ T \in Nat
  <2>1. Len(d) >= 3 BY <1>1, <1>4 DEF PublishOK
  <2> QED BY <2>1, Decode16Is
<1> HIDE DEF T, k
<1>8. Says("publish", b) =
        <<Kind(t), Flag(t, 3), qos, Flag(t, 0), Str(d, 1),
          IF qos = 0 THEN 0 ELSE Decode16(d, Skip(d, 1)), SubSeq(d, Skip(d, 1) + x, Len(d))>>
  <2> DEFINE h == Header(b)
             dd == SubSeq(b, h.size + 1, Len(b))
  <2>1. dd = d /\ h.n = Len(d) BY <1>4, <1>5, <1>6
  <2> HIDE DEF h
  <2>2. Says("publish", b) =
        <<Kind(b[1]), Flag(b[1], 3), (b[1] \div 2) % 4, Flag(b[1], 0), Str(dd, 1),
          IF (b[1] \div 2) % 4 = 0 THEN 0 ELSE Decode16(dd, Skip(dd, 1)),
          SubSeq(dd, Skip(dd, 1) + (IF (b[1] \div 2) % 4 = 0 THEN 0 ELSE 2), Len(dd))>>
    <3>1. Len(dd) = h.n BY <2>1
    <3>2. "publish" # "connect" /\ "publish" # "subscribe" /\ "publish" # "unsubscribe" /\ "publish" # "ack" OBVIOUS
    <3> QED BY <3>1, <3>2, Zenon DEF Says, h
  <2> HIDE DEF dd
  <2> QED BY <1>5, <2>1, <2>2
<1>9. Str(d, 1) = SubSeq(d, 3, T + 2)
  <2>1. 1 + 2 = 3 /\ 1 + 1 + T = T + 2 BY <1>7
  <2> QED BY <2>1 DEF Str, T
<1>10. Skip(d, 1) = T + 3 BY <1>7 DEF Skip, T
<1>11. Kind(t) = 48 BY <1>3, KindPublish DEF PUBLISH
<1>12. Skip(d, 1) + x = T + 2 + x + 1 BY <1>7, <1>10
<1> HIDE DEF qos, x, r
<1>13. /\ r.p.dup = Flag(t, 3) /\ r.p.qos = qos /\ r.p.retain = Flag(t, 0) /\ r.p.topic = SubSeq(d, 3, T + 2)
       /\ r.id = (IF qos = 0 THEN 0 ELSE Decode16(d, T + 3)) /\ r.p.payload = SubSeq(d, T + 2 + x + 1, Len(d))
  BY <1>2
<1>14. <<48, r.p.dup, r.p.qos, r.p.retain, r.p.topic, r.id, r.p.payload>> = Says("publish", b)
  BY <1>8, <1>9, <1>10, <1>11, <1>12, <1>13
<1> QED BY <1>14 DEF b, e, r

-----------------------------------------------------------------------------
(* The levels of a topic                                                   *)

\* What goes backwards: from every number on to the ones below.
LEMMA BackInduct ==
  ASSUME NEW hi \in Nat, NEW S, hi \in S, \A i \in 1 .. hi : i \in S => i - 1 \in S
  PROVE  0 .. hi \subseteq S
<1> DEFINE T == {m \in Nat : m <= hi => hi - m \in S}
<1>1. 0 \in T OBVIOUS
<1>2. ASSUME NEW m \in Nat, m \in T PROVE m + 1 \in T
  <2> SUFFICES ASSUME m + 1 <= hi PROVE hi - (m + 1) \in S OBVIOUS
  <2>1. hi - m \in S /\ hi - m \in 1 .. hi /\ (hi - m) - 1 = hi - (m + 1) BY <1>2
  <2> QED BY <2>1
<1>3. Nat \subseteq T
  <2> HIDE DEF T
  <2> QED BY <1>1, <1>2, NatInduct
<1>4. ASSUME NEW i \in 0 .. hi PROVE i \in S
  <2>1. hi - i \in Nat /\ hi - i <= hi /\ hi - (hi - i) = i OBVIOUS
  <2> QED BY <1>3, <2>1
<1> QED BY <1>4

\* A function that is defined from the last place backwards.
Backwards(f, hi, V, base, step) ==
  /\ f \in [1 .. hi + 1 -> V]
  /\ f[hi + 1] = base
  /\ \A i \in 1 .. hi : f[i] = step[i][f[i + 1]]

LEMMA BackExists ==
  ASSUME NEW hi \in Nat, NEW V, NEW base \in V, NEW step, \A i \in 1 .. hi, v \in V : step[i][v] \in V
  PROVE  \E f : Backwards(f, hi, V, base, step)
<1> DEFINE P(m) == \E f \in [1 .. hi + 1 -> V] :
                     f[hi + 1] = base /\ \A i \in 1 .. hi : i > m => f[i] = step[i][f[i + 1]]
           S == {m \in 0 .. hi : P(m)}
<1>1. P(hi)
  <2> DEFINE f == [i \in 1 .. hi + 1 |-> base]
  <2>1. f \in [1 .. hi + 1 -> V] /\ f[hi + 1] = base OBVIOUS
  <2>2. \A i \in 1 .. hi : ~(i > hi) OBVIOUS
  <2> HIDE DEF f
  <2> QED BY <2>1, <2>2
<1>2. ASSUME NEW m \in 1 .. hi, P(m) PROVE P(m - 1)
  <2>1. PICK g \in [1 .. hi + 1 -> V] : g[hi + 1] = base /\ \A i \in 1 .. hi : i > m => g[i] = step[i][g[i + 1]] BY <1>2
  <2> DEFINE f == [g EXCEPT ![m] = step[m][g[m + 1]]]
  <2>2. step[m][g[m + 1]] \in V
    <3>1. m + 1 \in 1 .. hi + 1 OBVIOUS
    <3> QED BY <2>1, <3>1
  <2>3. f \in [1 .. hi + 1 -> V] /\ f[m] = step[m][g[m + 1]] /\ \A i \in 1 .. hi + 1 : i > m => f[i] = g[i] BY <2>2
  <2> HIDE DEF f
  <2>4. f[hi + 1] = base BY <2>1, <2>3
  <2>5. ASSUME NEW i \in 1 .. hi, i > m - 1 PROVE f[i] = step[i][f[i + 1]]
    <3>1. i + 1 \in 1 .. hi + 1 /\ i + 1 > m /\ (i = m \/ i > m) BY <2>5
    <3>2. f[i + 1] = g[i + 1] BY <2>3, <3>1
    <3> QED BY <2>1, <2>3, <3>1, <3>2
  <2> QED BY <2>3, <2>4, <2>5
<1>3. 0 .. hi \subseteq S
  <2> HIDE DEF P
  <2>1. hi \in S BY <1>1
  <2>2. \A i \in 1 .. hi : i \in S => i - 1 \in S BY <1>2
  <2> HIDE DEF S
  <2> QED BY <2>1, <2>2, BackInduct
<1>4. P(0)
  <2>1. 0 \in 0 .. hi OBVIOUS
  <2> QED BY <1>3, <2>1
<1>5. PICK f \in [1 .. hi + 1 -> V] : f[hi + 1] = base /\ \A i \in 1 .. hi : i > 0 => f[i] = step[i][f[i + 1]] BY <1>4
<1>6. Backwards(f, hi, V, base, step) BY <1>5 DEF Backwards
<1> QED BY <1>6

\* One level or more.
SomeLevels(C) == {v \in Seq(Seq(C)) : v # <<>>}
\* What a character in front of the levels v makes of them.
Before(c, v) == IF c = "/" THEN << <<>> >> \o v ELSE << <<c>> \o Head(v) >> \o Tail(v)

Extends(c, v, L) ==
  /\ c = "/" => Len(L) = Len(v) + 1 /\ L[1] = <<>> /\ \A k \in 1 .. Len(v) : L[k + 1] = v[k]
  /\ c # "/" => Len(L) = Len(v) /\ L[1] = <<c>> \o v[1] /\ \A k \in 2 .. Len(v) : L[k] = v[k]

LEMMA BeforeIs ==
  ASSUME NEW C, NEW c \in C, NEW v \in SomeLevels(C)
  PROVE  Before(c, v) \in SomeLevels(C) /\ Extends(c, v, Before(c, v))
<1> DEFINE S == Seq(C)
<1>1. v \in Seq(S) /\ v # <<>> /\ Len(v) >= 1 /\ v[1] \in S BY DEF SomeLevels
<1>2. <<>> \in S /\ <<c>> \in S OBVIOUS
<1>3. <<c>> \o v[1] \in S BY <1>1, <1>2
<1> DEFINE e == <<>>
           d == <<c>> \o v[1]
<1>4. Before(c, v) = IF c = "/" THEN <<e>> \o v ELSE <<d>> \o Tail(v) BY <1>1 DEF Before
<1>5. e \in S /\ d \in S /\ e = <<>> /\ d = <<c>> \o v[1] BY <1>2, <1>3
<1>6. Before(c, v) \in SomeLevels(C) <=> Before(c, v) \in Seq(S) /\ Before(c, v) # <<>> BY DEF SomeLevels
<1> HIDE DEF S, e, d
<1>7. Tail(v) \in Seq(S) /\ Len(Tail(v)) = Len(v) - 1 /\ \A k \in 1 .. Len(v) - 1 : Tail(v)[k] = v[k + 1] BY <1>1
<1>8. /\ <<e>> \o v \in Seq(S) /\ <<e>> \o v # <<>> /\ Len(<<e>> \o v) = Len(v) + 1 /\ (<<e>> \o v)[1] = e
      /\ \A k \in 1 .. Len(v) : (<<e>> \o v)[k + 1] = v[k]
  BY <1>1, <1>5
<1>9. /\ <<d>> \o Tail(v) \in Seq(S) /\ <<d>> \o Tail(v) # <<>> /\ Len(<<d>> \o Tail(v)) = Len(v) /\ (<<d>> \o Tail(v))[1] = d
      /\ \A k \in 2 .. Len(v) : (<<d>> \o Tail(v))[k] = v[k]
  <2>1. Len(<<d>> \o Tail(v)) = Len(v) /\ <<d>> \o Tail(v) \in Seq(S) /\ (<<d>> \o Tail(v))[1] = d BY <1>1, <1>5, <1>7
  <2>2. ASSUME NEW k \in 2 .. Len(v) PROVE (<<d>> \o Tail(v))[k] = v[k]
    <3>1. k - 1 \in 1 .. Len(v) - 1 /\ (k - 1) + 1 = k BY <1>1
    <3>2. (<<d>> \o Tail(v))[k] = Tail(v)[k - 1] BY <1>1, <1>5, <1>7, <3>1
    <3> QED BY <1>7, <3>1, <3>2
  <2> QED BY <1>1, <2>1, <2>2
<1>10. CASE c = "/" BY <1>4, <1>5, <1>6, <1>8, <1>10 DEF Extends
<1>11. CASE c # "/" BY <1>4, <1>5, <1>6, <1>9, <1>11 DEF Extends
<1> QED BY <1>10, <1>11

LEMMA LevelsIs ==
  ASSUME NEW C, NEW s \in Seq(C)
  PROVE  /\ \A i \in 1 .. Len(s) + 1 : LevelsFrom(s)[i] \in SomeLevels(C)
         /\ LevelsFrom(s)[Len(s) + 1] = << <<>> >>
         /\ \A i \in 1 .. Len(s) : LevelsFrom(s)[i] = Before(s[i], LevelsFrom(s)[i + 1])
<1> DEFINE hi == Len(s)
           F == LevelsFrom(s)
           V == SomeLevels(C)
           body(f, i) == IF i > Len(s) THEN << <<>> >>
                         ELSE IF s[i] = "/" THEN << <<>> >> \o f[i + 1]
                         ELSE << <<s[i]>> \o Head(f[i + 1]) >> \o Tail(f[i + 1])
           step == [i \in 1 .. hi |-> [v \in V |-> Before(s[i], v)]]
           base == << <<>> >>
<1>1. F = CHOOSE f : f = [i \in 1 .. Len(s) + 1 |-> body(f, i)] BY Zenon DEF LevelsFrom
<1>2. hi \in Nat /\ hi = Len(s) /\ \A i \in 1 .. hi : s[i] \in C OBVIOUS
<1>3. base \in V
  <2>1. <<>> \in Seq(C) OBVIOUS
  <2> QED BY <2>1 DEF SomeLevels
<1>4. \A i \in 1 .. hi, v \in V : step[i][v] = Before(s[i], v) /\ step[i][v] \in V
  <2>1. ASSUME NEW i \in 1 .. hi, NEW v \in V PROVE Before(s[i], v) \in V BY <1>2, BeforeIs
  <2> HIDE DEF V
  <2> QED BY <2>1
<1>5. \A f, i : i \in 1 .. hi => body(f, i) = Before(s[i], f[i + 1])
  <2> SUFFICES ASSUME NEW f, NEW i \in 1 .. hi PROVE body(f, i) = Before(s[i], f[i + 1]) OBVIOUS
  <2>1. ~(i > Len(s)) BY <1>2
  <2> QED BY <2>1, Zenon DEF Before
<1>6. \A f, i : i \in {hi + 1} => body(f, i) = base
  <2>1. hi + 1 > Len(s) BY <1>2
  <2> QED BY <2>1
<1>7. \A i \in 1 .. hi + 1 : i \in 1 .. hi \/ i = hi + 1 BY <1>2
<1>8. hi + 1 \in 1 .. hi + 1 /\ \A i \in 1 .. hi : i \in 1 .. hi + 1 /\ i + 1 \in 1 .. hi + 1 BY <1>2
<1>9. PICK g : Backwards(g, hi, V, base, step)
  <2> HIDE DEF hi, V, base, step
  <2>1. hi \in Nat /\ \A i \in 1 .. hi, v \in V : step[i][v] \in V BY <1>2, <1>4
  <2> QED BY <2>1, <1>3, BackExists
<1>10. \A i \in 1 .. hi : g[i] = Before(s[i], g[i + 1])
  <2> HIDE DEF V, hi, step
  <2> QED BY <1>4, <1>8, <1>9 DEF Backwards
<1> HIDE DEF body, base, step, V, hi
<1>11. \E f : f = [i \in 1 .. hi + 1 |-> body(f, i)]
  <2>1. \A i \in 1 .. hi + 1 : g[i] = body(g, i) BY <1>5, <1>6, <1>7, <1>9, <1>10 DEF Backwards
  <2>2. g = [i \in 1 .. hi + 1 |-> g[i]] BY <1>9 DEF Backwards
  <2>3. g = [i \in 1 .. hi + 1 |-> body(g, i)] BY <2>1, <2>2
  <2> QED BY <2>3
<1>12. F = [i \in 1 .. hi + 1 |-> body(F, i)]
  <2> HIDE DEF F
  <2>1. F = CHOOSE f : f = [i \in 1 .. hi + 1 |-> body(f, i)] BY <1>1 DEF hi
  <2> QED BY <1>11, <2>1
<1> HIDE DEF F
<1>13. F[hi + 1] = base BY <1>6, <1>8, <1>12
<1>14. \A i \in 1 .. hi : F[i] = Before(s[i], F[i + 1]) BY <1>5, <1>8, <1>12
<1> DEFINE S == {i \in 0 .. hi : F[i + 1] \in V}
<1>15. 0 .. hi \subseteq S
  <2>1. hi \in S BY <1>2, <1>3, <1>13
  <2>2. ASSUME NEW i \in 1 .. hi, i \in S PROVE i - 1 \in S
    <3>1. F[i + 1] \in V /\ s[i] \in C BY <1>2, <2>2
    <3>2. Before(s[i], F[i + 1]) \in V BY <3>1, BeforeIs DEF V
    <3>3. F[(i - 1) + 1] = F[i] /\ i - 1 \in 0 .. hi BY <1>2
    <3> QED BY <1>14, <3>2, <3>3
  <2> HIDE DEF S
  <2> QED BY <1>2, <2>1, <2>2, BackInduct
<1>16. \A i \in 1 .. hi + 1 : F[i] \in V
  <2>1. ASSUME NEW i \in 1 .. hi + 1 PROVE F[i] \in V
    <3>1. i - 1 \in 0 .. hi /\ (i - 1) + 1 = i BY <1>2
    <3> QED BY <1>15, <3>1
  <2> QED BY <2>1
<1> QED BY <1>13, <1>14, <1>16 DEF F, V, hi, base

LEMMA LevelsAt ==
  ASSUME NEW C, NEW s \in Seq(C), NEW i \in 1 .. Len(s)
  PROVE  Extends(s[i], LevelsFrom(s)[i + 1], LevelsFrom(s)[i])
<1>1. s[i] \in C /\ i + 1 \in 1 .. Len(s) + 1 OBVIOUS
<1>2. LevelsFrom(s)[i + 1] \in SomeLevels(C) /\ LevelsFrom(s)[i] = Before(s[i], LevelsFrom(s)[i + 1]) BY <1>1, LevelsIs
<1> QED BY <1>1, <1>2, BeforeIs

LEMMA LastPlace ==
  ASSUME NEW C, NEW s \in Seq(C), NEW i \in 1 .. Len(s) + 1, Len(LevelsFrom(s)[i]) = 1, LevelsFrom(s)[i][1] = <<>>
  PROVE  i = Len(s) + 1
<1> SUFFICES ASSUME i \in 1 .. Len(s) PROVE FALSE OBVIOUS
<1> DEFINE L == LevelsFrom(s)[i]
           M == LevelsFrom(s)[i + 1]
<1>1. i + 1 \in 1 .. Len(s) + 1 /\ s[i] \in C OBVIOUS
<1>2. M \in SomeLevels(C) /\ Extends(s[i], M, L) BY <1>1, LevelsIs, LevelsAt
<1>3. M \in Seq(Seq(C)) /\ M # <<>> BY <1>2 DEF SomeLevels
<1> HIDE DEF L, M
<1>4. Len(M) >= 1 /\ M[1] \in Seq(C) BY <1>3
<1>5. s[i] # "/" BY <1>2, <1>4 DEF Extends, L
<1>6. L[1] = <<s[i]>> \o M[1] BY <1>2, <1>5 DEF Extends
<1>7. <<s[i]>> \o M[1] # <<>> BY <1>1, <1>4
<1> QED BY <1>6, <1>7 DEF L

\* L without its first level is M.
Drops(L, M) == Len(L) = Len(M) + 1 /\ \A k \in 1 .. Len(M) : L[k + 1] = M[k]

LEMMA NextLevel ==
  ASSUME NEW C, NEW s \in Seq(C), NEW i \in 1 .. Len(s), NEW k \in i .. Len(s), s[k] = "/",
         \A l \in i .. k - 1 : s[l] # "/"
  PROVE  Drops(LevelsFrom(s)[i], LevelsFrom(s)[k + 1])
<1> DEFINE F(l) == LevelsFrom(s)[l]
           S == {l \in 0 .. k : l >= i => Drops(F(l), F(k + 1))}
<1>1. k \in 1 .. Len(s) /\ k \in Nat /\ i \in 0 .. k /\ i >= i OBVIOUS
<1>2. k \in S
  <2>1. Extends(s[k], F(k + 1), F(k)) BY <1>1, LevelsAt
  <2> QED BY <1>1, <2>1 DEF Extends, Drops
<1>3. ASSUME NEW l \in 1 .. k, l \in S, l - 1 >= i PROVE Drops(F(l - 1), F(k + 1))
  <2>1. l - 1 \in 1 .. Len(s) /\ l - 1 \in i .. k - 1 /\ (l - 1) + 1 = l /\ l >= i /\ l \in 1 .. Len(s) + 1 BY <1>1, <1>3
  <2>2. s[l - 1] # "/" BY <2>1
  <2>3. Extends(s[l - 1], F(l), F(l - 1)) BY <2>1, LevelsAt
  <2>4. Drops(F(l), F(k + 1)) BY <1>3, <2>1
  <2>5. F(k + 1) \in SomeLevels(C) BY <1>1, LevelsIs
  <2> HIDE DEF F
  <2>6. Len(F(k + 1)) \in Nat BY <2>5 DEF SomeLevels
  <2>7. Len(F(l - 1)) = Len(F(l)) /\ \A m \in 2 .. Len(F(l)) : F(l - 1)[m] = F(l)[m] BY <2>2, <2>3 DEF Extends
  <2>8. \A m \in 1 .. Len(F(k + 1)) : m + 1 \in 2 .. Len(F(l)) BY <2>4, <2>6 DEF Drops
  <2> QED BY <2>4, <2>7, <2>8 DEF Drops
<1>4. 0 .. k \subseteq S
  <2>1. ASSUME NEW l \in 1 .. k, l \in S PROVE l - 1 \in S
    <3>1. l - 1 \in 0 .. k BY <1>1
    <3> HIDE DEF F
    <3> QED BY <1>3, <2>1, <3>1
  <2> HIDE DEF S
  <2> QED BY <1>1, <1>2, <2>1, BackInduct
<1> HIDE DEF F
<1>5. Drops(F(i), F(k + 1)) BY <1>1, <1>4
<1> QED BY <1>5 DEF F

LEMMA LastLevel ==
  ASSUME NEW C, NEW s \in Seq(C), NEW i \in 1 .. Len(s) + 1, \A l \in i .. Len(s) : s[l] # "/"
  PROVE  Len(LevelsFrom(s)[i]) = 1
<1> DEFINE F(l) == LevelsFrom(s)[l]
           hi == Len(s) + 1
           S == {l \in 0 .. hi : l >= i => Len(F(l)) = 1}
<1>1. hi \in Nat /\ hi = Len(s) + 1 /\ i \in 0 .. hi /\ i >= i OBVIOUS
<1>2. hi \in S
  <2>1. F(hi) = << <<>> >> BY LevelsIs
  <2> HIDE DEF F, hi
  <2> QED BY <1>1, <2>1
<1>3. ASSUME NEW l \in 1 .. hi, l \in S, l - 1 >= i PROVE Len(F(l - 1)) = 1
  <2>1. l - 1 \in 1 .. Len(s) /\ l - 1 \in i .. Len(s) /\ (l - 1) + 1 = l /\ l >= i BY <1>1, <1>3
  <2>2. s[l - 1] # "/" BY <2>1
  <2>3. Extends(s[l - 1], F(l), F(l - 1)) BY <2>1, LevelsAt
  <2> HIDE DEF F
  <2> QED BY <1>3, <2>1, <2>2, <2>3 DEF Extends
<1>4. 0 .. hi \subseteq S
  <2>1. ASSUME NEW l \in 1 .. hi, l \in S PROVE l - 1 \in S
    <3>1. l - 1 \in 0 .. hi BY <1>1
    <3> HIDE DEF F
    <3> QED BY <1>3, <2>1, <3>1
  <2> HIDE DEF S, hi
  <2> QED BY <1>1, <1>2, <2>1, BackInduct
<1> HIDE DEF F, hi
<1>5. Len(F(i)) = 1 BY <1>1, <1>4
<1> QED BY <1>5 DEF F

Wildcards == {"+", "#"}
Begins(f, j) == j = 1 \/ f[j - 1] = "/"

LEMMA ToSetCons ==
  ASSUME NEW C, NEW x \in C, NEW h \in Seq(C)
  PROVE  /\ \A e : e \in ToSet(<<x>> \o h) <=> e = x \/ e \in ToSet(h)
         /\ <<x>> \o h = <<x>> => h = <<>>
         /\ \A e : <<x>> \o h = <<e>> => x = e /\ h = <<>>
         /\ \A e : e \notin ToSet(<<>>)
<1> DEFINE w == <<x>> \o h
<1>1. /\ w \in Seq(C) /\ Len(w) = Len(h) + 1 /\ w[1] = x
      /\ \A k \in 1 .. Len(h) : w[k + 1] = h[k]
  OBVIOUS
<1> HIDE DEF w
<1>2. ASSUME NEW c, c \in ToSet(w) PROVE c = x \/ c \in ToSet(h)
  <2>1. PICK k \in 1 .. Len(w) : c = w[k] BY <1>1, <1>2 DEF ToSet
  <2>2. CASE k = 1 BY <1>1, <2>1, <2>2
  <2>3. CASE k # 1
    <3>1. k - 1 \in 1 .. Len(h) /\ (k - 1) + 1 = k BY <1>1, <2>1, <2>3
    <3>2. w[k] = h[k - 1] BY <1>1, <3>1
    <3> QED BY <2>1, <3>1, <3>2 DEF ToSet
  <2> QED BY <2>2, <2>3
<1>3. x \in ToSet(w)
  <2>1. 1 \in DOMAIN w BY <1>1
  <2> QED BY <1>1, <2>1 DEF ToSet
<1>4. ASSUME NEW c, c \in ToSet(h) PROVE c \in ToSet(w)
  <2>1. PICK k \in 1 .. Len(h) : c = h[k] BY <1>4 DEF ToSet
  <2>2. k + 1 \in DOMAIN w BY <1>1
  <2> QED BY <1>1, <2>1, <2>2 DEF ToSet
<1>5. ASSUME NEW c, w = <<c>> PROVE x = c /\ h = <<>>
  <2>1. Len(h) = 0 /\ x = c BY <1>1, <1>5
  <2> QED BY <2>1
<1>6. \A c : c \notin ToSet(<<>>) BY DEF ToSet
<1> QED BY <1>2, <1>3, <1>4, <1>5, <1>6 DEF w

\* Of the levels at a place, one with a wildcard is this wildcard, and the rest
\* of a level that has begun has none.
Proper(f, i) ==
  LET L == LevelsFrom(f)[i]
  IN \A k \in 1 .. Len(L), c \in Wildcards : c \in ToSet(L[k]) =>
       (k = 1 => Begins(f, i)) /\ L[k] = <<c>> /\ (c = "#" => k = Len(L))

LEMMA ProperNext ==
  ASSUME NEW C, NEW f \in Seq(C), NEW i \in 1 .. Len(f), Proper(f, i)
  PROVE  Proper(f, i + 1)
<1> DEFINE L == LevelsFrom(f)[i]
           M == LevelsFrom(f)[i + 1]
<1>1. i + 1 \in 1 .. Len(f) + 1 /\ f[i] \in C /\ (i + 1) - 1 = i /\ i + 1 # 1 OBVIOUS
<1>2. M \in SomeLevels(C) /\ Extends(f[i], M, L) BY <1>1, LevelsIs, LevelsAt
<1>3. M \in Seq(Seq(C)) /\ M # <<>> BY <1>2 DEF SomeLevels
<1>4. \A k \in 1 .. Len(L), c \in Wildcards : c \in ToSet(L[k]) =>
        (k = 1 => Begins(f, i)) /\ L[k] = <<c>> /\ (c = "#" => k = Len(L))
  BY DEF Proper
<1> SUFFICES ASSUME NEW k \in 1 .. Len(M), NEW c \in Wildcards, c \in ToSet(M[k])
             PROVE  (k = 1 => Begins(f, i + 1)) /\ M[k] = <<c>> /\ (c = "#" => k = Len(M))
  BY DEF Proper
<1> HIDE DEF L, M
<1>5. Len(M) \in Nat /\ Len(M) >= 1 /\ M[1] \in Seq(C) BY <1>3
<1>6. CASE f[i] = "/"
  <2>1. Len(L) = Len(M) + 1 /\ L[k + 1] = M[k] BY <1>2, <1>6 DEF Extends
  <2>2. k + 1 \in 1 .. Len(L) BY <1>5, <2>1
  <2>3. M[k] = <<c>> /\ (c = "#" => k + 1 = Len(L)) BY <1>4, <2>1, <2>2
  <2>4. Begins(f, i + 1) BY <1>1, <1>6 DEF Begins
  <2> QED BY <1>5, <2>1, <2>3, <2>4
<1>7. CASE f[i] # "/"
  <2>1. Len(L) = Len(M) /\ L[1] = <<f[i]>> \o M[1] BY <1>2, <1>7 DEF Extends
  <2>2. CASE k = 1
    <3>1. c \in ToSet(L[1]) BY <1>1, <1>5, <2>1, <2>2, ToSetCons
    <3>4. 1 \in 1 .. Len(L) BY <1>5, <2>1
    <3>2. L[1] = <<c>> BY <1>4, <3>1, <3>4, Zenon
    <3>3. M[1] = <<>> BY <1>1, <1>5, <2>1, <3>2, ToSetCons
    <3> QED BY <1>1, <1>5, <2>2, <3>3, ToSetCons
  <2>3. CASE k # 1
    <3>1. k \in 2 .. Len(M) /\ k \in 1 .. Len(L) BY <1>5, <2>1, <2>3
    <3>2. L[k] = M[k] BY <1>2, <1>7, <3>1 DEF Extends
    <3> QED BY <1>4, <2>1, <2>3, <3>1, <3>2
  <2> QED BY <2>2, <2>3
<1> QED BY <1>6, <1>7

LEMMA AllProper ==
  ASSUME NEW C, NEW f \in Seq(C), ValidFilter(f)
  PROVE  \A i \in 1 .. Len(f) + 1 : Proper(f, i)
<1> DEFINE S == {n \in Nat : n <= Len(f) => Proper(f, n + 1)}
<1>1. Proper(f, 1)
  <2> DEFINE L == LevelsFrom(f)[1]
  <2>1. \A k \in DOMAIN L : \A c \in {"+", "#"} : c \in ToSet(L[k]) => L[k] = <<c>> /\ (c = "#" => k = Len(L))
    BY DEF ValidFilter, Levels
  <2>2. 1 \in 1 .. Len(f) + 1 OBVIOUS
  <2>3. L \in SomeLevels(C) BY <2>2, LevelsIs
  <2>4. DOMAIN L = 1 .. Len(L) BY <2>3 DEF SomeLevels
  <2> QED BY <2>1, <2>4, Zenon DEF Proper, Wildcards, Begins
<1>2. Nat \subseteq S
  <2>1. 0 \in S BY <1>1
  <2>2. ASSUME NEW n \in Nat, n \in S PROVE n + 1 \in S
    <3> SUFFICES ASSUME n + 1 <= Len(f) PROVE Proper(f, (n + 1) + 1) OBVIOUS
    <3>1. n <= Len(f) /\ n + 1 \in 1 .. Len(f) OBVIOUS
    <3> QED BY <2>2, <3>1, ProperNext
  <2>3. \A n \in Nat : n \in S => n + 1 \in S BY <2>2
  <2> HIDE DEF S
  <2> QED BY <2>1, <2>3, NatInduct
<1>3. ASSUME NEW i \in 1 .. Len(f) + 1 PROVE Proper(f, i)
  <2>1. i - 1 \in Nat /\ i - 1 <= Len(f) /\ (i - 1) + 1 = i OBVIOUS
  <2> QED BY <1>2, <2>1
<1> QED BY <1>3

\* A wildcard in a valid filter is a level by itself, "#" the last.
LEMMA WildcardAlone ==
  ASSUME NEW C, NEW f \in Seq(C), ValidFilter(f), NEW j \in 1 .. Len(f), f[j] \in Wildcards
  PROVE  /\ Begins(f, j) /\ LevelsFrom(f)[j][1] = <<f[j]>>
         /\ j < Len(f) => f[j + 1] = "/"
         /\ f[j] = "#" => j = Len(f) /\ Len(LevelsFrom(f)[j]) = 1
<1> DEFINE L == LevelsFrom(f)[j]
           M == LevelsFrom(f)[j + 1]
<1>1. j + 1 \in 1 .. Len(f) + 1 /\ j \in 1 .. Len(f) + 1 /\ f[j] \in C OBVIOUS
<1>2. M \in SomeLevels(C) /\ Extends(f[j], M, L) BY <1>1, LevelsIs, LevelsAt
<1>3. \A k \in 1 .. Len(L), c \in Wildcards : c \in ToSet(L[k]) =>
        (k = 1 => Begins(f, j)) /\ L[k] = <<c>> /\ (c = "#" => k = Len(L))
  BY <1>1, AllProper DEF Proper
<1> HIDE DEF L, M
<1>4. Len(M) \in Nat /\ Len(M) >= 1 /\ M[1] \in Seq(C) BY <1>2 DEF SomeLevels
<1>5. Len(L) = Len(M) /\ L[1] = <<f[j]>> \o M[1] BY <1>2 DEF Extends, Wildcards
<1>6. f[j] \in ToSet(L[1]) BY <1>1, <1>4, <1>5, ToSetCons
<1>7. 1 \in 1 .. Len(L) BY <1>4, <1>5
<1>8. Begins(f, j) /\ L[1] = <<f[j]>> /\ (f[j] = "#" => Len(L) = 1) BY <1>3, <1>6, <1>7
<1>9. M[1] = <<>> BY <1>1, <1>4, <1>5, <1>8, ToSetCons
<1>10. f[j] = "#" => j = Len(f)
  <2>1. f[j] = "#" => j + 1 = Len(f) + 1 BY <1>1, <1>5, <1>8, <1>9, LastPlace DEF M
  <2> QED BY <2>1
<1>11. ASSUME j < Len(f), f[j + 1] # "/" PROVE FALSE
  <2> DEFINE N == LevelsFrom(f)[j + 2]
  <2>1. j + 1 \in 1 .. Len(f) /\ (j + 1) + 1 = j + 2 /\ j + 2 \in 1 .. Len(f) + 1 BY <1>11
  <2>2. N \in SomeLevels(C) BY <2>1, LevelsIs
  <2>3. Extends(f[j + 1], N, M) BY <2>1, LevelsAt DEF M
  <2> HIDE DEF N
  <2>4. N[1] \in Seq(C) /\ f[j + 1] \in C BY <2>1, <2>2 DEF SomeLevels
  <2>5. M[1] = <<f[j + 1]>> \o N[1] BY <1>11, <2>3 DEF Extends
  <2>6. <<f[j + 1]>> \o N[1] # <<>> BY <2>4
  <2> QED BY <1>9, <2>5, <2>6
<1> QED BY <1>8, <1>10, <1>11 DEF L

-----------------------------------------------------------------------------
(* Levels that match                                                       *)

Plus == <<"+">>
Hash == <<"#">>

MatchLevels(N, F) ==
  IF F[Len(F)] = Hash THEN Len(N) >= Len(F) - 1 /\ \A k \in 1 .. Len(F) - 1 : F[k] \in {N[k], Plus}
  ELSE Len(N) = Len(F) /\ \A k \in 1 .. Len(F) : F[k] \in {N[k], Plus}
MissedLevels(N, F) ==
  \/ Len(F) = Len(N) + 1 /\ F[Len(N)] = Plus /\ F[Len(N) + 1] = Hash
  \/ /\ Len(N) >= 2 /\ N[Len(N)] = <<>> /\ Len(F) >= Len(N) /\ F[Len(N) - 1] = Plus
     /\ F[Len(N)] # <<>> \/ Len(F) > Len(N)
Found(N, F) == MatchLevels(N, F) /\ ~MissedLevels(N, F)

LEMMA SpecialLevels == Plus # Hash /\ Plus # <<>> /\ Hash # <<>>
<1>1. Plus[1] = "+" /\ Hash[1] = "#" /\ Len(Plus) = 1 /\ Len(Hash) = 1 BY DEF Plus, Hash
<1>2. "+" # "#" OBVIOUS
<1>3. Len(<<>>) = 0 OBVIOUS
<1> QED BY <1>1, <1>2, <1>3

LEMMA FoundOne ==
  ASSUME NEW V, NEW N \in Seq(V), NEW F \in Seq(V), Len(N) = 1, F # <<>>, N[1] # Plus
  PROVE  Found(N, F) <=> \/ Len(F) = 1 /\ F[1] \in {N[1], Plus, Hash}
                         \/ Len(F) = 2 /\ F[2] = Hash /\ F[1] = N[1]
<1>1. Len(F) \in Nat /\ Len(F) >= 1 OBVIOUS
<1>2. CASE Len(F) = 1
  <2>1. MatchLevels(N, F) <=> F[1] \in {N[1], Plus, Hash} BY <1>2 DEF MatchLevels
  <2>2. ~MissedLevels(N, F) BY <1>2 DEF MissedLevels
  <2> QED BY <1>2, <2>1, <2>2 DEF Found
<1>3. CASE Len(F) = 2
  <2>1. MatchLevels(N, F) <=> F[2] = Hash /\ F[1] \in {N[1], Plus} BY <1>3 DEF MatchLevels
  <2>2. MissedLevels(N, F) <=> F[1] = Plus /\ F[2] = Hash BY <1>3 DEF MissedLevels
  <2> QED BY <1>3, <2>1, <2>2 DEF Found
<1>4. CASE Len(F) >= 3
  <2>1. ~MatchLevels(N, F) BY <1>4 DEF MatchLevels
  <2>3. \A m \in Nat : m >= 3 => m # 1 /\ m # 2 OBVIOUS
  <2>2. Len(F) # 1 /\ Len(F) # 2 BY <1>1, <1>4, <2>3, Zenon
  <2> QED BY <2>1, <2>2 DEF Found
<1>5. Len(F) = 1 \/ Len(F) = 2 \/ Len(F) >= 3
  <2>1. \A m \in Nat : m >= 1 => m = 1 \/ m = 2 \/ m >= 3 OBVIOUS
  <2> QED BY <1>1, <2>1, Zenon
<1> QED BY <1>2, <1>3, <1>4, <1>5, Zenon

LEMMA FoundEnd ==
  ASSUME NEW V, NEW N \in Seq(V), NEW F \in Seq(V), Len(N) >= 2, Len(F) = 1
  PROVE  Found(N, F) <=> F[1] = Hash
<1>0. Len(N) \in Nat /\ Len(N) # 1 /\ Len(N) >= 1 - 1 /\ \A k \in 1 .. 1 - 1 : FALSE OBVIOUS
<1>1. MatchLevels(N, F) <=> F[1] = Hash BY <1>0 DEF MatchLevels
<1>2. ~MissedLevels(N, F) BY DEF MissedLevels
<1> QED BY <1>1, <1>2 DEF Found

LEMMA FoundNot ==
  ASSUME NEW V, NEW N \in Seq(V), NEW F \in Seq(V), F # <<>>, F[1] \notin {N[1], Plus, Hash}
  PROVE  ~Found(N, F)
<1>1. Len(F) \in Nat /\ Len(F) >= 1 OBVIOUS
<1>2. CASE Len(F) = 1 BY <1>2 DEF Found, MatchLevels
<1>3. CASE Len(F) >= 2
  <2>1. 1 \in 1 .. Len(F) - 1 /\ 1 \in 1 .. Len(F) BY <1>1, <1>3
  <2> QED BY <2>1 DEF Found, MatchLevels
<1>4. Len(F) = 1 \/ Len(F) >= 2
  <2>1. \A m \in Nat : m >= 1 => m = 1 \/ m >= 2 OBVIOUS
  <2> QED BY <1>1, <2>1, Zenon
<1> QED BY <1>2, <1>3, <1>4, Zenon

\* The first levels fit: what is behind them decides, unless the name ends in
\* an empty level now.
LEMMA FoundNext ==
  ASSUME NEW V, NEW N \in Seq(V), NEW F \in Seq(V), NEW N2 \in Seq(V), NEW F2 \in Seq(V),
         N2 # <<>>, F2 # <<>>, Drops(N, N2), Drops(F, F2), F[1] \in {N[1], Plus}
  PROVE  Found(N, F) <=> /\ Found(N2, F2)
                         /\ F[1] = Plus /\ Len(N2) = 1 /\ N2[1] = <<>> => Len(F2) = 1 /\ F2[1] = <<>>
<1> DEFINE n == Len(N2)
           m == Len(F2)
<1>1. /\ n \in Nat /\ n >= 1 /\ m \in Nat /\ m >= 1 /\ Len(N) = n + 1 /\ Len(F) = m + 1
      /\ \A k \in 1 .. n : N[k + 1] = N2[k]
      /\ \A k \in 1 .. m : F[k + 1] = F2[k]
  BY DEF Drops
<1> HIDE DEF n, m
<1>2. F[m + 1] = F2[m] /\ N[n + 1] = N2[n] BY <1>1
<1>3. ASSUME NEW a \in Nat, a <= m, a <= n
      PROVE  (\A k \in 1 .. a + 1 : F[k] \in {N[k], Plus}) <=> (\A k \in 1 .. a : F2[k] \in {N2[k], Plus})
  <2>1. ASSUME NEW k \in 1 .. a PROVE k \in 1 .. m /\ k \in 1 .. n /\ k + 1 \in 1 .. a + 1 BY <1>1, <1>3
  <2>2. ASSUME NEW k \in 1 .. a + 1, k # 1 PROVE k - 1 \in 1 .. a /\ (k - 1) + 1 = k BY <1>3, <2>2
  <2>3. \A k \in 1 .. a : F[k + 1] = F2[k] /\ N[k + 1] = N2[k] BY <1>1, <2>1
  <2>4. ASSUME \A k \in 1 .. a : F2[k] \in {N2[k], Plus}, NEW k \in 1 .. a + 1 PROVE F[k] \in {N[k], Plus}
    <3>1. CASE k = 1 BY <3>1
    <3>2. CASE k # 1
      <4>1. F[k] = F2[k - 1] /\ N[k] = N2[k - 1] BY <2>2, <2>3, <3>2
      <4> QED BY <2>2, <2>4, <3>2, <4>1
    <3> QED BY <3>1, <3>2
  <2>5. ASSUME \A k \in 1 .. a + 1 : F[k] \in {N[k], Plus}, NEW k \in 1 .. a PROVE F2[k] \in {N2[k], Plus}
    <3>1. k + 1 \in 1 .. a + 1 BY <2>1
    <3>2. F[k + 1] \in {N[k + 1], Plus} BY <2>5, <3>1
    <3> QED BY <2>3, <3>2
  <2> QED BY <2>4, <2>5
<1>4. MatchLevels(N, F) <=> MatchLevels(N2, F2)
  <2>1. Len(F) - 1 = (m - 1) + 1 /\ m - 1 \in Nat /\ (m - 1 <= n <=> n + 1 >= (m + 1) - 1) BY <1>1
  <2>2. CASE F2[m] = Hash
    <3>1. MatchLevels(N, F) <=> m - 1 <= n /\ \A k \in 1 .. (m - 1) + 1 : F[k] \in {N[k], Plus}
      BY <1>1, <1>2, <2>1, <2>2 DEF MatchLevels
    <3>2. MatchLevels(N2, F2) <=> m - 1 <= n /\ \A k \in 1 .. m - 1 : F2[k] \in {N2[k], Plus}
      BY <1>1, <2>2 DEF MatchLevels, n, m
    <3>3. m - 1 <= m BY <1>1
    <3> QED BY <1>3, <2>1, <3>1, <3>2, <3>3
  <2>3. CASE F2[m] # Hash
    <3>1. MatchLevels(N, F) <=> n = m /\ \A k \in 1 .. m + 1 : F[k] \in {N[k], Plus}
      BY <1>1, <1>2, <2>3 DEF MatchLevels
    <3>2. MatchLevels(N2, F2) <=> n = m /\ \A k \in 1 .. m : F2[k] \in {N2[k], Plus}
      BY <1>1, <2>3 DEF MatchLevels, n, m
    <3>3. m <= m BY <1>1
    <3>4. n = m => ((\A k \in 1 .. m + 1 : F[k] \in {N[k], Plus}) <=> (\A k \in 1 .. m : F2[k] \in {N2[k], Plus}))
      BY <1>1, <1>3, <3>3
    <3> QED BY <3>1, <3>2, <3>4
  <2> QED BY <2>2, <2>3
<1>5. CASE n >= 2
  <2>1. /\ Len(N) >= 2 /\ (Len(F) = Len(N) + 1 <=> m = n + 1) /\ (Len(F) >= Len(N) <=> m >= n) /\ (Len(F) > Len(N) <=> m > n)
        /\ Len(N) - 1 = n /\ n - 1 \in 1 .. n /\ (n - 1) + 1 = n /\ n # 1
    BY <1>1, <1>5
  <2>2. m >= n => F[n + 1] = F2[n] /\ F[n] = F2[n - 1]
    <3>1. m >= n => n \in 1 .. m /\ n - 1 \in 1 .. m BY <1>1, <1>5
    <3> QED BY <1>1, <2>1, <3>1
  <2>3. m = n + 1 => F[(n + 1) + 1] = F2[n + 1] /\ m >= n
    <3>1. m = n + 1 => n + 1 \in 1 .. m /\ m >= n BY <1>1
    <3> QED BY <1>1, <3>1
  <2>4. m > n => m >= n BY <1>1
  <2>5. MissedLevels(N, F) <=> MissedLevels(N2, F2)
    <3>1. MissedLevels(N, F) <=>
            \/ m = n + 1 /\ F[n + 1] = Plus /\ F[(n + 1) + 1] = Hash
            \/ N[n + 1] = <<>> /\ m >= n /\ F[n] = Plus /\ (F[n + 1] # <<>> \/ m > n)
      BY <1>1, <2>1 DEF MissedLevels
    <3>2. MissedLevels(N2, F2) <=>
            \/ m = n + 1 /\ F2[n] = Plus /\ F2[n + 1] = Hash
            \/ N2[n] = <<>> /\ m >= n /\ F2[n - 1] = Plus /\ (F2[n] # <<>> \/ m > n)
      BY <1>5 DEF MissedLevels, n, m
    <3> QED BY <1>2, <2>2, <2>3, <2>4, <3>1, <3>2, Zenon
  <2> QED BY <1>4, <2>1, <2>5 DEF Found, n
<1>6. CASE n = 1
  <2>1. Len(N) = 2 /\ (Len(F) = 3 <=> m = 2) /\ Len(F) >= 2 /\ (Len(F) > 2 <=> m # 1) /\ F[2] = F2[1] /\ N[2] = N2[1]
    BY <1>1, <1>2, <1>6
  <2>2. m = 2 => F[3] = F2[2] BY <1>1
  <2>3. MissedLevels(N, F) <=> \/ m = 2 /\ F[2] = Plus /\ F[3] = Hash
                               \/ N[2] = <<>> /\ F[1] = Plus /\ (F[2] # <<>> \/ m # 1)
    BY <2>1 DEF MissedLevels
  <2>4. MissedLevels(N2, F2) <=> m = 2 /\ F2[1] = Plus /\ F2[2] = Hash BY <1>6 DEF MissedLevels, n, m
  <2>5. MissedLevels(N, F) <=> MissedLevels(N2, F2) \/ (N2[1] = <<>> /\ F[1] = Plus /\ ~(m = 1 /\ F2[1] = <<>>))
    BY <2>1, <2>2, <2>3, <2>4
  <2> QED BY <1>4, <1>6, <2>5 DEF Found, n, m
<1> QED BY <1>1, <1>5, <1>6

-----------------------------------------------------------------------------
(* What the characters tell of the levels                                  *)

LEMMA FirstIn ==
  ASSUME NEW S, NEW t \in Seq(S), Len(t) = 1
  PROVE  t[1] \in S
  OBVIOUS

LEMMA LevelIn ==
  ASSUME NEW S, NEW t \in Seq(S), t # <<>>
  PROVE  t[1] \in S
  OBVIOUS

LEMMA LevelsType ==
  ASSUME NEW C, NEW s \in Seq(C), NEW i \in 1 .. Len(s) + 1
  PROVE  LevelsFrom(s)[i] \in Seq(Seq(C)) /\ LevelsFrom(s)[i] # <<>> /\ Len(LevelsFrom(s)[i]) \in Nat /\ Len(LevelsFrom(s)[i]) >= 1
<1> DEFINE L == LevelsFrom(s)[i]
<1>1. L \in SomeLevels(C) BY LevelsIs
<1> HIDE DEF L
<1>2. L \in Seq(Seq(C)) /\ L # <<>> BY <1>1 DEF SomeLevels
<1>3. Len(L) \in Nat /\ Len(L) >= 1 BY <1>2
<1> QED BY <1>2, <1>3 DEF L

\* The level at a place, by the character there.
LEMMA LevelHead ==
  ASSUME NEW C, NEW s \in Seq(C), NEW i \in 1 .. Len(s)
  PROVE  /\ s[i] = "/" => LevelsFrom(s)[i][1] = <<>> /\ Drops(LevelsFrom(s)[i], LevelsFrom(s)[i + 1])
         /\ s[i] # "/" => /\ LevelsFrom(s)[i][1] # <<>> /\ LevelsFrom(s)[i][1][1] = s[i]
                          /\ Len(LevelsFrom(s)[i]) = Len(LevelsFrom(s)[i + 1])
                          /\ \A c : LevelsFrom(s)[i][1] = <<c>> <=> c = s[i] /\ LevelsFrom(s)[i + 1][1] = <<>>
<1> DEFINE L == LevelsFrom(s)[i]
           M == LevelsFrom(s)[i + 1]
<1>1. i + 1 \in 1 .. Len(s) + 1 /\ s[i] \in C OBVIOUS
<1>2. Extends(s[i], M, L) BY LevelsAt
<1>3. M \in Seq(Seq(C)) /\ Len(M) \in Nat /\ Len(M) >= 1 BY <1>1, LevelsType
<1> HIDE DEF L, M
<1>4. M[1] \in Seq(C) BY <1>3
<1>5. s[i] = "/" => L[1] = <<>> /\ Drops(L, M) BY <1>2 DEF Extends, Drops
<1>6. s[i] # "/" => Len(L) = Len(M) /\ L[1] = <<s[i]>> \o M[1] BY <1>2 DEF Extends
<1> DEFINE d == <<s[i]>> \o M[1]
<1>7. d # <<>> /\ d[1] = s[i] /\ Len(d) = Len(M[1]) + 1 BY <1>1, <1>4
<1>8. \A c : d = <<c>> => c = s[i] /\ M[1] = <<>> BY <1>1, <1>4, ToSetCons
<1>9. M[1] = <<>> => d = <<s[i]>> BY <1>1
<1> HIDE DEF d
<1>10. s[i] # "/" => L[1] = d BY <1>6 DEF d
<1>11. s[i] # "/" => /\ L[1] # <<>> /\ L[1][1] = s[i] /\ Len(L) = Len(M)
                     /\ \A c : L[1] = <<c>> <=> c = s[i] /\ M[1] = <<>>
  BY <1>6, <1>7, <1>8, <1>9, <1>10
<1> QED BY <1>5, <1>11, Zenon DEF L, M

LEMMA EmptyFrom ==
  ASSUME NEW C, NEW s \in Seq(C), NEW i \in 1 .. Len(s) + 1
  PROVE  Len(LevelsFrom(s)[i]) = 1 /\ LevelsFrom(s)[i][1] = <<>> <=> i > Len(s)
<1>1. Len(LevelsFrom(s)[i]) = 1 /\ LevelsFrom(s)[i][1] = <<>> => i > Len(s) BY LastPlace
<1>2. ASSUME i > Len(s) PROVE Len(LevelsFrom(s)[i]) = 1 /\ LevelsFrom(s)[i][1] = <<>>
  <2>1. i = Len(s) + 1 BY <1>2
  <2>2. LevelsFrom(s)[i] = << <<>> >> BY <2>1, LevelsIs
  <2>3. Len(<< <<>> >>) = 1 /\ << <<>> >>[1] = <<>> OBVIOUS
  <2> QED BY <2>2, <2>3
<1> QED BY <1>1, <1>2

LEMMA OneFrom ==
  ASSUME NEW C, NEW s \in Seq(C), NEW i \in 1 .. Len(s) + 1, NEW c \in Wildcards
  PROVE  Len(LevelsFrom(s)[i]) = 1 /\ LevelsFrom(s)[i][1] = <<c>> <=> i = Len(s) /\ s[i] = c
<1>0. c # "/" /\ <<c>> # <<>> BY DEF Wildcards
<1>1. CASE i > Len(s)
  <2>1. LevelsFrom(s)[i][1] = <<>> /\ i # Len(s) BY <1>1, EmptyFrom
  <2> QED BY <1>0, <2>1
<1>2. CASE i <= Len(s)
  <2>1. i \in 1 .. Len(s) /\ i + 1 \in 1 .. Len(s) + 1 /\ (i + 1 > Len(s) <=> i = Len(s)) BY <1>2
  <2>2. Len(LevelsFrom(s)[i + 1]) >= 1 /\ Len(LevelsFrom(s)[i + 1]) \in Nat BY <2>1, LevelsType
  <2>3. CASE s[i] = "/"
    <3>1. LevelsFrom(s)[i][1] = <<>> BY <2>1, <2>3, LevelHead
    <3> QED BY <1>0, <2>3, <3>1
  <2>4. CASE s[i] # "/"
    <3>1. LevelsFrom(s)[i][1] = <<c>> <=> c = s[i] /\ LevelsFrom(s)[i + 1][1] = <<>> BY <2>1, <2>4, LevelHead, Zenon
    <3>2. Len(LevelsFrom(s)[i]) = Len(LevelsFrom(s)[i + 1]) BY <2>1, <2>4, LevelHead, Zenon
    <3>3. Len(LevelsFrom(s)[i + 1]) = 1 /\ LevelsFrom(s)[i + 1][1] = <<>> <=> i + 1 > Len(s) BY <2>1, EmptyFrom, Zenon
    <3> QED BY <2>1, <3>1, <3>2, <3>3, Zenon
  <2> QED BY <2>3, <2>4
<1> QED BY <1>1, <1>2

LEMMA SlashHashFrom ==
  ASSUME NEW C, NEW s \in Seq(C), NEW i \in 1 .. Len(s) + 1
  PROVE  Len(LevelsFrom(s)[i]) = 2 /\ LevelsFrom(s)[i][1] = <<>> /\ LevelsFrom(s)[i][2] = Hash
           <=> i = Len(s) - 1 /\ s[i] = "/" /\ s[i + 1] = "#"
<1>1. CASE i > Len(s)
  <2>1. Len(LevelsFrom(s)[i]) = 1 /\ i # Len(s) - 1 BY <1>1, EmptyFrom
  <2> QED BY <2>1
<1>2. CASE i <= Len(s)
  <2>1. i \in 1 .. Len(s) /\ i + 1 \in 1 .. Len(s) + 1 /\ (i + 1 = Len(s) <=> i = Len(s) - 1) BY <1>2
  <2>2. CASE s[i] = "/"
    <3> DEFINE L == LevelsFrom(s)[i]
               M == LevelsFrom(s)[i + 1]
    <3>1. L[1] = <<>> /\ Drops(L, M) BY <2>1, <2>2, LevelHead, Zenon
    <3>2. Len(M) \in Nat /\ Len(M) >= 1 BY <2>1, LevelsType
    <3>3. Len(M) = 1 /\ M[1] = <<"#">> <=> i + 1 = Len(s) /\ s[i + 1] = "#" BY <2>1, OneFrom, Zenon DEF Wildcards
    <3> HIDE DEF L, M
    <3>7. \A m \in Nat : m >= 1 => 1 \in 1 .. m /\ 1 + 1 = 2 /\ (m + 1 = 2 <=> m = 1) OBVIOUS
    <3>4. 1 \in 1 .. Len(M) /\ 1 + 1 = 2 /\ (Len(M) + 1 = 2 <=> Len(M) = 1) BY <3>2, <3>7, Zenon
    <3>6. L[2] = M[1] /\ Len(L) = Len(M) + 1 BY <3>1, <3>4 DEF Drops
    <3>5. Len(L) = 2 /\ L[1] = <<>> /\ L[2] = Hash <=> Len(M) = 1 /\ M[1] = <<"#">> BY <3>1, <3>4, <3>6, Zenon DEF Hash
    <3> QED BY <2>1, <2>2, <3>3, <3>5, Zenon DEF L, M
  <2>3. CASE s[i] # "/"
    <3>1. LevelsFrom(s)[i][1] # <<>> BY <2>1, <2>3, LevelHead, Zenon
    <3> QED BY <2>3, <3>1
  <2> QED BY <2>2, <2>3
<1> QED BY <1>1, <1>2

\* No level of a name is a wildcard.
LEMMA NameLevels ==
  ASSUME NEW C, NEW s \in Seq(C \ Wildcards), NEW i \in 1 .. Len(s) + 1
  PROVE  \A k \in 1 .. Len(LevelsFrom(s)[i]) : LevelsFrom(s)[i][k] # Plus /\ LevelsFrom(s)[i][k] # Hash
<1> DEFINE L == LevelsFrom(s)[i]
<1>1. L \in Seq(Seq(C \ Wildcards)) BY LevelsType
<1> HIDE DEF L
<1>2. ASSUME NEW k \in 1 .. Len(L) PROVE L[k] # Plus /\ L[k] # Hash
  <2>1. L[k] \in Seq(C \ Wildcards) BY <1>1
  <2>2. ASSUME NEW t \in Seq(C \ Wildcards), Len(t) = 1 PROVE t[1] \notin Wildcards
    <3>1. t[1] \in C \ Wildcards BY <2>2, FirstIn, Zenon
    <3> QED BY <3>1
  <2>3. Len(Plus) = 1 /\ Len(Hash) = 1 /\ Plus[1] \in Wildcards /\ Hash[1] \in Wildcards BY DEF Plus, Hash, Wildcards
  <2> QED BY <2>1, <2>2, <2>3
<1> QED BY <1>2 DEF L

-----------------------------------------------------------------------------
(* One step of matchTopicFilter                                            *)

FoundFrom(name, filter, i, j) ==
  IF i > Len(name) THEN j > Len(filter) ELSE Found(LevelsFrom(name)[i], LevelsFrom(filter)[j])

LEMMA Small ==
  /\ \A m \in Nat : m >= 1 => 1 \in 1 .. m /\ (m = 1 \/ m >= 2)
  /\ 1 + 1 = 2 /\ 2 + 1 = 3 /\ 1 # 2
  OBVIOUS

\* Both characters are "/".
LEMMA StepSlash ==
  ASSUME NEW C, NEW name \in Seq(C \ Wildcards), NEW filter \in Seq(C), NEW i \in 1 .. Len(name), NEW j \in 1 .. Len(filter),
         name[i] = "/", filter[j] = "/"
  PROVE  FoundFrom(name, filter, i, j) <=>
           (i = Len(name) /\ MatchEndWildcards(filter, j)) \/ FoundFrom(name, filter, i + 1, j + 1)
<1> DEFINE N == LevelsFrom(name)[i]
           F == LevelsFrom(filter)[j]
           N2 == LevelsFrom(name)[i + 1]
           F2 == LevelsFrom(filter)[j + 1]
           V == Seq(C)
<1>1. /\ name \in Seq(C) /\ i \in 1 .. Len(name) + 1 /\ i + 1 \in 1 .. Len(name) + 1 /\ i <= Len(name)
      /\ j \in 1 .. Len(filter) + 1 /\ j + 1 \in 1 .. Len(filter) + 1
      /\ (i + 1 > Len(name) <=> i = Len(name)) /\ ~(i > Len(name))
  OBVIOUS
<1>2. /\ N \in Seq(V) /\ F \in Seq(V) /\ N2 \in Seq(V) /\ F2 \in Seq(V) /\ N2 # <<>> /\ F2 # <<>>
      /\ Len(N2) \in Nat /\ Len(N2) >= 1 /\ Len(F2) \in Nat /\ Len(F2) >= 1
  BY <1>1, LevelsType, Zenon
<1>3. N[1] = <<>> /\ Drops(N, N2) /\ F[1] = <<>> /\ Drops(F, F2) BY LevelHead, <1>1, Zenon
<1>4. /\ Len(F2) = 1 /\ F2[1] = <<>> <=> j + 1 > Len(filter)
      /\ Len(F2) = 1 /\ F2[1] = Plus <=> j + 1 = Len(filter) /\ filter[j + 1] = "+"
      /\ Len(F2) = 1 /\ F2[1] = Hash <=> j + 1 = Len(filter) /\ filter[j + 1] = "#"
      /\ Len(F2) = 2 /\ F2[1] = <<>> /\ F2[2] = Hash <=>
           j + 1 = Len(filter) - 1 /\ filter[j + 1] = "/" /\ filter[j + 1 + 1] = "#"
  <2>1. "+" \in Wildcards /\ "#" \in Wildcards BY DEF Wildcards
  <2>2. Len(F2) = 1 /\ F2[1] = <<>> <=> j + 1 > Len(filter) BY <1>1, EmptyFrom, Zenon
  <2>3. Len(F2) = 1 /\ F2[1] = Plus <=> j + 1 = Len(filter) /\ filter[j + 1] = "+" BY <1>1, <2>1, OneFrom DEF Plus
  <2>4. Len(F2) = 1 /\ F2[1] = Hash <=> j + 1 = Len(filter) /\ filter[j + 1] = "#" BY <1>1, <2>1, OneFrom DEF Hash
  <2>5. Len(F2) = 2 /\ F2[1] = <<>> /\ F2[2] = Hash <=>
           j + 1 = Len(filter) - 1 /\ filter[j + 1] = "/" /\ filter[j + 1 + 1] = "#"
    BY <1>1, SlashHashFrom
  <2> QED BY <2>2, <2>3, <2>4, <2>5, Zenon
<1>5. /\ N2[1] # Plus /\ N2[1] # Hash
      /\ Len(N2) = 1 /\ N2[1] = <<>> <=> i + 1 > Len(name)
  <2>1. 1 \in 1 .. Len(N2) BY <1>2, Small, Zenon
  <2>2. Len(N2) = 1 /\ N2[1] = <<>> <=> i + 1 > Len(name) BY <1>1, EmptyFrom, Zenon
  <2> QED BY <1>1, <2>1, <2>2, NameLevels, Zenon
<1>6. j + 1 + 1 = j + 2 /\ (j + 1 = Len(filter) - 1 <=> j = Len(filter) - 2) /\ (j + 1 = Len(filter) <=> j = Len(filter) - 1) OBVIOUS
<1>7. FoundFrom(name, filter, i, j) <=> Found(N, F) BY <1>1, Zenon DEF FoundFrom
<1>8. FoundFrom(name, filter, i + 1, j + 1) <=> IF i = Len(name) THEN j + 1 > Len(filter) ELSE Found(N2, F2)
  BY <1>1, Zenon DEF FoundFrom
<1> HIDE DEF N, F, N2, F2, V
<1>9. Found(N, F) <=> Found(N2, F2)
  <2>1. F[1] \in {N[1], Plus} /\ F[1] # Plus BY <1>3, SpecialLevels
  <2> QED BY <1>2, <1>3, <2>1, FoundNext, Zenon
<1>10. CASE i = Len(name)
  <2>1. Len(N2) = 1 /\ N2[1] = <<>> BY <1>1, <1>5, <1>10
  <2>2. Found(N2, F2) <=> \/ Len(F2) = 1 /\ F2[1] \in {N2[1], Plus, Hash}
                          \/ Len(F2) = 2 /\ F2[2] = Hash /\ F2[1] = N2[1]
    BY <1>2, <1>5, <2>1, FoundOne, Zenon
  <2>3. MatchEndWildcards(filter, j) <=> \/ j + 1 = Len(filter) - 1 /\ filter[j + 1] = "/" /\ filter[j + 1 + 1] = "#"
                                         \/ j + 1 = Len(filter) /\ filter[j + 1] \in {"+", "#"}
    BY <1>6, Zenon DEF MatchEndWildcards
  <2> QED BY <1>4, <1>7, <1>8, <1>9, <1>10, <2>1, <2>2, <2>3, Zenon
<1>11. CASE i # Len(name) BY <1>7, <1>8, <1>9, <1>11, Zenon
<1> QED BY <1>10, <1>11

LEMMA FoundSame ==
  ASSUME NEW V, NEW N \in Seq(V), NEW F \in Seq(V), NEW N2 \in Seq(V), NEW F2 \in Seq(V), N # <<>>, F # <<>>,
         Len(N) = Len(N2), Len(F) = Len(F2), \A k \in 2 .. Len(N) : N[k] = N2[k], \A k \in 2 .. Len(F) : F[k] = F2[k],
         F[1] \notin {Plus, Hash}, F2[1] \notin {Plus, Hash}, F[1] = N[1] <=> F2[1] = N2[1]
  PROVE  Found(N, F) <=> Found(N2, F2)
<1> DEFINE n == Len(N)
           m == Len(F)
<1>1. n \in Nat /\ n >= 1 /\ m \in Nat /\ m >= 1 OBVIOUS
<1>2. n = Len(N) /\ n = Len(N2) /\ m = Len(F) /\ m = Len(F2) OBVIOUS
<1>3. /\ \A k \in 2 .. n : N[k] = N2[k]
      /\ \A k \in 2 .. m : F[k] = F2[k]
  OBVIOUS
<1> HIDE DEF n, m
<1>4. \A k \in 1 .. m : (F[k] = Hash <=> F2[k] = Hash) /\ (F[k] = Plus <=> F2[k] = Plus)
  <2>1. \A k \in 1 .. m : k = 1 \/ k \in 2 .. m BY <1>1
  <2> QED BY <1>3, <2>1, Zenon
<1>5. \A k \in 1 .. m : k <= n => (F[k] \in {N[k], Plus} <=> F2[k] \in {N2[k], Plus})
  <2>1. \A k \in 1 .. m : k <= n => k = 1 \/ (k \in 2 .. m /\ k \in 2 .. n) BY <1>1
  <2>2. F[1] \in {N[1], Plus} <=> F2[1] \in {N2[1], Plus} OBVIOUS
  <2>3. \A k : k \in 2 .. m /\ k \in 2 .. n => F[k] = F2[k] /\ N[k] = N2[k] BY <1>3
  <2> QED BY <2>1, <2>2, <2>3
<1>6. MatchLevels(N, F) <=> MatchLevels(N2, F2)
  <2>1. m \in 1 .. m /\ (\A k \in 1 .. m - 1 : k \in 1 .. m) /\ (n >= m - 1 => \A k \in 1 .. m - 1 : k <= n)
        /\ (n = m => \A k \in 1 .. m : k <= n)
    BY <1>1
  <2>2. F[m] = Hash <=> F2[m] = Hash BY <1>4, <2>1, Zenon
  <2>3. n >= m - 1 => \A k \in 1 .. m - 1 : F[k] \in {N[k], Plus} <=> F2[k] \in {N2[k], Plus} BY <1>5, <2>1, Zenon
  <2>4. n = m => \A k \in 1 .. m : F[k] \in {N[k], Plus} <=> F2[k] \in {N2[k], Plus} BY <1>5, <2>1, Zenon
  <2>5. MatchLevels(N, F) <=>
          IF F[m] = Hash THEN n >= m - 1 /\ \A k \in 1 .. m - 1 : F[k] \in {N[k], Plus}
          ELSE n = m /\ \A k \in 1 .. m : F[k] \in {N[k], Plus}
    BY <1>2, Zenon DEF MatchLevels
  <2>6. MatchLevels(N2, F2) <=>
          IF F2[m] = Hash THEN n >= m - 1 /\ \A k \in 1 .. m - 1 : F2[k] \in {N2[k], Plus}
          ELSE n = m /\ \A k \in 1 .. m : F2[k] \in {N2[k], Plus}
    BY <1>2, Zenon DEF MatchLevels
  <2> HIDE DEF MatchLevels
  <2>7. CASE F[m] = Hash BY <2>2, <2>3, <2>5, <2>6, <2>7, Zenon
  <2>8. CASE F[m] # Hash BY <2>2, <2>4, <2>5, <2>6, <2>8, Zenon
  <2> QED BY <2>7, <2>8
<1>7. MissedLevels(N, F) <=> MissedLevels(N2, F2)
  <2>1. /\ m = n + 1 => n \in 1 .. m /\ n + 1 \in 1 .. m
        /\ n >= 2 /\ m >= n => n \in 2 .. n /\ n \in 2 .. m /\ n - 1 \in 1 .. m
    BY <1>1
  <2>2. MissedLevels(N, F) <=>
          \/ m = n + 1 /\ F[n] = Plus /\ F[n + 1] = Hash
          \/ n >= 2 /\ N[n] = <<>> /\ m >= n /\ F[n - 1] = Plus /\ (F[n] # <<>> \/ m > n)
    BY <1>2, Zenon DEF MissedLevels
  <2>3. MissedLevels(N2, F2) <=>
          \/ m = n + 1 /\ F2[n] = Plus /\ F2[n + 1] = Hash
          \/ n >= 2 /\ N2[n] = <<>> /\ m >= n /\ F2[n - 1] = Plus /\ (F2[n] # <<>> \/ m > n)
    BY <1>2, Zenon DEF MissedLevels
  <2>4. m = n + 1 => (F[n] = Plus <=> F2[n] = Plus) /\ (F[n + 1] = Hash <=> F2[n + 1] = Hash) BY <1>4, <2>1, Zenon
  <2>5. n >= 2 /\ m >= n => N[n] = N2[n] /\ F[n] = F2[n] /\ (F[n - 1] = Plus <=> F2[n - 1] = Plus) BY <1>3, <1>4, <2>1, Zenon
  <2> QED BY <2>2, <2>3, <2>4, <2>5, Zenon
<1> QED BY <1>6, <1>7 DEF Found

LEMMA ConsOne ==
  ASSUME NEW C, NEW W, NEW c \in C, c \notin W
  PROVE  \A x \in Seq(C), d \in W : <<c>> \o x # <<d>>
<1> SUFFICES ASSUME NEW x \in Seq(C), NEW d \in W, <<c>> \o x = <<d>> PROVE FALSE OBVIOUS
<1>1. (<<c>> \o x)[1] = c OBVIOUS
<1>2. <<d>>[1] = d OBVIOUS
<1> QED BY <1>1, <1>2, Zenon

\* Both characters are the same, and not "/".
LEMMA StepSame ==
  ASSUME NEW C, NEW name \in Seq(C \ Wildcards), NEW filter \in Seq(C), NEW i \in 1 .. Len(name), NEW j \in 1 .. Len(filter),
         ValidFilter(filter), name[i] = filter[j], name[i] # "/"
  PROVE  FoundFrom(name, filter, i, j) <=>
           (i = Len(name) /\ MatchEndWildcards(filter, j)) \/ FoundFrom(name, filter, i + 1, j + 1)
<1> DEFINE N == LevelsFrom(name)[i]
           F == LevelsFrom(filter)[j]
           N2 == LevelsFrom(name)[i + 1]
           F2 == LevelsFrom(filter)[j + 1]
           V == Seq(C)
           c == name[i]
<1>1. /\ name \in Seq(C) /\ i \in 1 .. Len(name) + 1 /\ i + 1 \in 1 .. Len(name) + 1 /\ i <= Len(name)
      /\ j \in 1 .. Len(filter) + 1 /\ j + 1 \in 1 .. Len(filter) + 1
      /\ (i + 1 > Len(name) <=> i = Len(name)) /\ ~(i > Len(name))
      /\ name[i] \in C \ Wildcards
  OBVIOUS
<1>2. /\ N \in Seq(V) /\ F \in Seq(V) /\ N2 \in Seq(V) /\ F2 \in Seq(V) /\ N # <<>> /\ F # <<>> /\ N2 # <<>> /\ F2 # <<>>
      /\ Len(N2) \in Nat /\ Len(N2) >= 1 /\ Len(F2) \in Nat /\ Len(F2) >= 1
  BY <1>1, LevelsType, Zenon
<1>3. /\ Len(N) = Len(N2) /\ N[1] = <<c>> \o N2[1] /\ \A k \in 2 .. Len(N2) : N[k] = N2[k]
      /\ Len(F) = Len(F2) /\ F[1] = <<c>> \o F2[1] /\ \A k \in 2 .. Len(F2) : F[k] = F2[k]
  <2>1. Extends(name[i], N2, N) /\ Extends(filter[j], F2, F) BY <1>1, LevelsAt, Zenon
  <2> HIDE DEF N, F, N2, F2
  <2> QED BY <2>1 DEF Extends
<1>4. /\ Len(F2) = 1 /\ F2[1] = <<>> <=> j + 1 > Len(filter)
      /\ Len(F) = 2 /\ F2[1] = <<>> /\ F[2] = Hash <=> j + 1 = Len(filter) - 1 /\ filter[j + 1] = "/" /\ filter[j + 1 + 1] = "#"
  <2>1. Len(F2) = 1 /\ F2[1] = <<>> <=> j + 1 > Len(filter) BY <1>1, EmptyFrom, Zenon
  <2>2. Len(F2) = 2 /\ F2[1] = <<>> /\ F2[2] = Hash <=>
           j + 1 = Len(filter) - 1 /\ filter[j + 1] = "/" /\ filter[j + 1 + 1] = "#"
    BY <1>1, SlashHashFrom
  <2> HIDE DEF N, F, N2, F2
  <2>3. Len(F2) = 2 => F[2] = F2[2]
    <3>1. Len(F2) = 2 => 2 \in 2 .. Len(F2) OBVIOUS
    <3> QED BY <1>3, <3>1, Zenon
  <2> QED BY <1>3, <2>1, <2>2, <2>3, Zenon
<1>5. Len(N2) = 1 /\ N2[1] = <<>> <=> i + 1 > Len(name) BY <1>1, EmptyFrom, Zenon
<1>6. F2[1] \notin {Plus, Hash}
  <2>1. CASE j + 1 > Len(filter) BY <1>4, <2>1, SpecialLevels, Zenon
  <2>2. CASE ~(j + 1 > Len(filter))
    <3>1. j + 1 \in 1 .. Len(filter) /\ (j + 1) - 1 = j /\ j + 1 # 1 BY <1>1, <2>2
    <3>2. filter[j + 1] \notin Wildcards BY <3>1, WildcardAlone DEF Begins
    <3>3. CASE filter[j + 1] = "/"
      <4>1. F2[1] = <<>> BY <3>1, <3>3, LevelHead, Zenon
      <4> QED BY <4>1, SpecialLevels, Zenon
    <3>4. CASE filter[j + 1] # "/"
      <4>1. F2[1][1] = filter[j + 1] BY <3>1, <3>4, LevelHead, Zenon
      <4>2. Plus[1] \in Wildcards /\ Hash[1] \in Wildcards BY DEF Plus, Hash, Wildcards
      <4> QED BY <3>2, <4>1, <4>2, Zenon
    <3> QED BY <3>3, <3>4
  <2> QED BY <2>1, <2>2
<1>7. F[1] # Plus /\ F[1] # Hash /\ (F[1] = N[1] <=> F2[1] = N2[1]) /\ (F[1] = <<c>> <=> F2[1] = <<>>) /\ (N[1] = <<c>> <=> N2[1] = <<>>)
  <2> HIDE DEF N, F, N2, F2, c
  <2>1. F2[1] \in V /\ N2[1] \in V BY <1>2, LevelIn, Zenon
  <2>2. c \in C /\ c \notin Wildcards BY <1>1 DEF c
  <2>3. Plus = <<"+">> /\ Hash = <<"#">> /\ "+" \in Wildcards /\ "#" \in Wildcards BY DEF Plus, Hash, Wildcards
  <2>4. \A x, y \in Seq(C) : <<c>> \o x = <<c>> \o y => x = y
    <3> SUFFICES ASSUME NEW x \in Seq(C), NEW y \in Seq(C), <<c>> \o x = <<c>> \o y PROVE x = y OBVIOUS
    <3>1. Tail(<<c>> \o x) = x /\ Tail(<<c>> \o y) = y BY <2>2
    <3> QED BY <3>1
  <2>5. \A x \in Seq(C), d \in Wildcards : <<c>> \o x # <<d>> BY <2>2, ConsOne, Zenon
  <2>6. \A x \in Seq(C) : <<c>> \o x = <<c>> <=> x = <<>>
    <3> SUFFICES ASSUME NEW x \in Seq(C) PROVE <<c>> \o x = <<c>> <=> x = <<>> OBVIOUS
    <3>1. <<c>> \o x = <<c>> => x = <<>> BY <2>2, ToSetCons, Zenon
    <3>2. <<c>> \o <<>> = <<c>> BY <2>2
    <3> QED BY <3>1, <3>2
  <2> HIDE DEF V
  <2>7. F2[1] \in Seq(C) /\ N2[1] \in Seq(C) BY <2>1 DEF V
  <2>8. N[1] = <<c>> \o N2[1] /\ F[1] = <<c>> \o F2[1] BY <1>3, Zenon DEF c
  <2>9. F[1] # Plus BY <2>3, <2>5, <2>7, <2>8, Zenon
  <2>10. F[1] # Hash BY <2>3, <2>5, <2>7, <2>8, Zenon
  <2>11. F[1] = N[1] <=> F2[1] = N2[1] BY <2>4, <2>7, <2>8, Zenon
  <2>12. (F[1] = <<c>> <=> F2[1] = <<>>) /\ (N[1] = <<c>> <=> N2[1] = <<>>) BY <2>6, <2>7, <2>8, Zenon
  <2> QED BY <2>9, <2>10, <2>11, <2>12, Zenon
<1>8. j + 1 + 1 = j + 2 /\ (j + 1 = Len(filter) - 1 <=> j = Len(filter) - 2) OBVIOUS
<1>9. FoundFrom(name, filter, i, j) <=> Found(N, F) BY <1>1, Zenon DEF FoundFrom
<1>10. FoundFrom(name, filter, i + 1, j + 1) <=> IF i = Len(name) THEN j + 1 > Len(filter) ELSE Found(N2, F2)
  BY <1>1, Zenon DEF FoundFrom
<1>n. \A k \in 1 .. Len(N) : N[k] # Plus /\ N[k] # Hash BY <1>1, NameLevels, Zenon
<1> HIDE DEF N, F, N2, F2, V
<1>11. CASE i = Len(name)
  <2>1. Len(N2) = 1 /\ N2[1] = <<>> BY <1>1, <1>5, <1>11
  <2>2. Len(N) = 1 /\ 1 \in 1 .. Len(N) BY <1>3, <2>1
  <2>3. N[1] # Plus BY <1>n, <2>2, Zenon
  <2>4. Found(N, F) <=> \/ Len(F) = 1 /\ F[1] \in {N[1], Plus, Hash}
                        \/ Len(F) = 2 /\ F[2] = Hash /\ F[1] = N[1]
    BY <1>2, <2>2, <2>3, FoundOne, Zenon
  <2>5. F[1] = N[1] <=> F2[1] = <<>> BY <1>7, <2>1, Zenon
  <2>6. MatchEndWildcards(filter, j) <=> j + 1 = Len(filter) - 1 /\ filter[j + 1] = "/" /\ filter[j + 1 + 1] = "#"
    BY <1>8, Zenon DEF MatchEndWildcards
  <2> QED BY <1>3, <1>4, <1>7, <1>9, <1>10, <1>11, <2>4, <2>5, <2>6, Zenon
<1>12. CASE i # Len(name)
  <2>1. Found(N, F) <=> Found(N2, F2)
    <3>1. /\ \A k \in 2 .. Len(N) : N[k] = N2[k]
          /\ \A k \in 2 .. Len(F) : F[k] = F2[k]
          /\ F[1] \notin {Plus, Hash}
      BY <1>3, <1>7, Zenon
    <3> QED BY <1>2, <1>3, <1>6, <1>7, <3>1, FoundSame, Zenon
  <2> QED BY <1>9, <1>10, <1>12, <2>1, Zenon
<1> QED BY <1>11, <1>12

\* The filter has ended and the name has not, or they differ.
LEMMA StepStop ==
  ASSUME NEW C, NEW name \in Seq(C \ Wildcards), NEW filter \in Seq(C), NEW i \in 1 .. Len(name), NEW j \in 1 .. Len(filter) + 1,
         ValidFilter(filter), j <= Len(filter) => filter[j] # name[i] /\ filter[j] \notin Wildcards
  PROVE  ~FoundFrom(name, filter, i, j)
<1> DEFINE N == LevelsFrom(name)[i]
           F == LevelsFrom(filter)[j]
<1>1. name \in Seq(C) /\ i \in 1 .. Len(name) + 1 /\ ~(i > Len(name)) OBVIOUS
<1>2. /\ N \in Seq(Seq(C)) /\ F \in Seq(Seq(C)) /\ N # <<>> /\ F # <<>> /\ Len(N) \in Nat /\ Len(N) >= 1
  BY <1>1, LevelsType, Zenon
<1>3. FoundFrom(name, filter, i, j) <=> Found(N, F) BY <1>1, Zenon DEF FoundFrom
<1>4. ~(Len(N) = 1 /\ N[1] = <<>>) BY <1>1, EmptyFrom, Zenon
<1>5. Plus[1] \in Wildcards /\ Hash[1] \in Wildcards BY DEF Plus, Hash, Wildcards
<1>n. \A k \in 1 .. Len(N) : N[k] # Plus /\ N[k] # Hash BY <1>1, NameLevels, Zenon
<1>6. CASE j > Len(filter)
  <2>1. Len(F) = 1 /\ F[1] = <<>> BY <1>6, EmptyFrom, Zenon
  <2> HIDE DEF N, F
  <2>2. CASE Len(N) = 1
    <3>1. N[1] # <<>> /\ N[1] # Plus BY <1>4, <1>n, <1>2, <2>2, Small, Zenon
    <3> QED BY <1>2, <1>3, <2>1, <2>2, <3>1, FoundOne, SpecialLevels
  <2>3. CASE Len(N) >= 2 BY <1>2, <1>3, <2>1, <2>3, FoundEnd, SpecialLevels
  <2> QED BY <1>2, <2>2, <2>3, Small, Zenon
<1>7. CASE ~(j > Len(filter))
  <2>1. j \in 1 .. Len(filter) /\ filter[j] # name[i] /\ filter[j] \notin Wildcards BY <1>7
  <2>2. F[1] # N[1]
    <3>1. filter[j] = "/" => F[1] = <<>> BY <2>1, LevelHead, Zenon
    <3>2. filter[j] # "/" => F[1] # <<>> /\ F[1][1] = filter[j] BY <2>1, LevelHead, Zenon
    <3>3. name[i] = "/" => N[1] = <<>> BY <1>1, LevelHead, Zenon
    <3>4. name[i] # "/" => N[1] # <<>> /\ N[1][1] = name[i] BY <1>1, LevelHead, Zenon
    <3> QED BY <2>1, <3>1, <3>2, <3>3, <3>4, Zenon
  <2>3. F[1] # Plus /\ F[1] # Hash
    <3>1. filter[j] = "/" => F[1] = <<>> BY <2>1, LevelHead, Zenon
    <3>2. filter[j] # "/" => F[1][1] = filter[j] BY <2>1, LevelHead, Zenon
    <3> QED BY <1>5, <2>1, <3>1, <3>2, SpecialLevels, Zenon
  <2> HIDE DEF N, F
  <2> QED BY <1>2, <1>3, <2>2, <2>3, FoundNot
<1> QED BY <1>6, <1>7

\* The filter is at "#".
LEMMA StepHash ==
  ASSUME NEW C, NEW name \in Seq(C \ Wildcards), NEW filter \in Seq(C), NEW i \in 1 .. Len(name), NEW j \in 1 .. Len(filter),
         ValidFilter(filter), filter[j] = "#"
  PROVE  FoundFrom(name, filter, i, j)
<1> DEFINE N == LevelsFrom(name)[i]
           F == LevelsFrom(filter)[j]
<1>1. name \in Seq(C) /\ i \in 1 .. Len(name) + 1 /\ ~(i > Len(name)) /\ j \in 1 .. Len(filter) + 1 OBVIOUS
<1>2. /\ N \in Seq(Seq(C)) /\ F \in Seq(Seq(C)) /\ N # <<>> /\ F # <<>> /\ Len(N) \in Nat /\ Len(N) >= 1
  BY <1>1, LevelsType, Zenon
<1>3. FoundFrom(name, filter, i, j) <=> Found(N, F) BY <1>1, Zenon DEF FoundFrom
<1>4. filter[j] \in Wildcards BY DEF Wildcards
<1>5. Len(F) = 1 /\ F[1] = Hash BY <1>4, WildcardAlone DEF Hash
<1>n. \A k \in 1 .. Len(N) : N[k] # Plus /\ N[k] # Hash BY <1>1, NameLevels, Zenon
<1> HIDE DEF N, F
<1>6. CASE Len(N) = 1
  <2>1. N[1] # Plus BY <1>n, <1>2, <1>6, Small, Zenon
  <2> QED BY <1>2, <1>3, <1>5, <1>6, <2>1, FoundOne
<1>7. CASE Len(N) >= 2 BY <1>2, <1>3, <1>5, <1>7, FoundEnd
<1> QED BY <1>2, <1>6, <1>7, Small, Zenon

\* The slashes of a name from a place on, and the first of them.
SlashesFrom(name, i) == {k \in i .. Len(name) : name[k] = "/"}
FirstSlash(name, i) == CHOOSE k \in SlashesFrom(name, i) : \A l \in SlashesFrom(name, i) : k <= l

LEMMA FirstSlashIs ==
  ASSUME NEW C, NEW name \in Seq(C), NEW i \in 1 .. Len(name), SlashesFrom(name, i) # {}
  PROVE  LET k == FirstSlash(name, i)
         IN k \in i .. Len(name) /\ name[k] = "/" /\ \A l \in i .. k - 1 : name[l] # "/"
<1> DEFINE S == SlashesFrom(name, i)
           k == FirstSlash(name, i)
<1>1. S \in SUBSET (0 .. Len(name)) /\ Len(name) \in Nat BY DEF SlashesFrom
<1>2. \E x \in S : \A y \in S : x <= y BY <1>1, LeastOf
<1>3. k \in S /\ \A y \in S : k <= y
  <2> HIDE DEF S
  <2>1. k = CHOOSE x \in S : \A y \in S : x <= y BY DEF FirstSlash, S
  <2> HIDE DEF k
  <2> QED BY <1>2, <2>1, Zenon
<1> HIDE DEF k
<1>4. k \in i .. Len(name) /\ name[k] = "/" BY <1>3 DEF SlashesFrom
<1>5. ASSUME NEW l \in i .. k - 1 PROVE name[l] # "/"
  <2>1. l \in i .. Len(name) /\ ~(k <= l) BY <1>4
  <2>2. l \notin S BY <1>3, <2>1
  <2> QED BY <2>1, <2>2 DEF SlashesFrom
<1> QED BY <1>4, <1>5 DEF k

\* The filter is at "+".
LEMMA StepPlus ==
  ASSUME NEW C, NEW name \in Seq(C \ Wildcards), NEW filter \in Seq(C), NEW i \in 1 .. Len(name), NEW j \in 1 .. Len(filter),
         ValidFilter(filter), filter[j] = "+"
  PROVE  FoundFrom(name, filter, i, j) <=>
           IF SlashesFrom(name, i) = {} THEN FoundFrom(name, filter, Len(name) + 1, j + 1)
           ELSE j < Len(filter) /\ filter[j + 1] = "/" /\ FoundFrom(name, filter, FirstSlash(name, i) + 1, j + 2)
<1> DEFINE N == LevelsFrom(name)[i]
           F == LevelsFrom(filter)[j]
           V == Seq(C)
<1>1. /\ name \in Seq(C) /\ i \in 1 .. Len(name) + 1 /\ ~(i > Len(name)) /\ j \in 1 .. Len(filter) + 1
      /\ (j + 1 > Len(filter) <=> j = Len(filter)) /\ Len(name) + 1 > Len(name)
  OBVIOUS
<1>2. /\ N \in Seq(V) /\ F \in Seq(V) /\ N # <<>> /\ F # <<>> /\ Len(N) \in Nat /\ Len(N) >= 1
  BY <1>1, LevelsType, Zenon
<1>3. FoundFrom(name, filter, i, j) <=> Found(N, F) BY <1>1, Zenon DEF FoundFrom
<1>4. filter[j] \in Wildcards /\ "+" \in Wildcards /\ filter[j] # "/" BY DEF Wildcards
<1>5. F[1] = Plus /\ (j < Len(filter) => filter[j + 1] = "/") BY <1>4, WildcardAlone DEF Plus
<1>6. Len(F) = 1 <=> j = Len(filter)
  <2>1. Len(F) = 1 /\ F[1] = <<"+">> <=> j = Len(filter) /\ filter[j] = "+" BY <1>1, <1>4, OneFrom
  <2> QED BY <1>5, <2>1, Zenon DEF Plus
<1>n. N[1] # Plus
  <2>1. 1 \in 1 .. Len(N) BY <1>2, Small, Zenon
  <2> QED BY <1>1, <2>1, NameLevels, Zenon
<1>7. CASE SlashesFrom(name, i) = {}
  <2>1. \A l \in i .. Len(name) : name[l] # "/" BY <1>7 DEF SlashesFrom
  <2>2. Len(N) = 1 BY <1>1, <2>1, LastLevel
  <2>3. FoundFrom(name, filter, Len(name) + 1, j + 1) <=> j = Len(filter) BY <1>1, Zenon DEF FoundFrom
  <2> HIDE DEF N, F, V
  <2>4. Found(N, F) <=> \/ Len(F) = 1 /\ F[1] \in {N[1], Plus, Hash}
                        \/ Len(F) = 2 /\ F[2] = Hash /\ F[1] = N[1]
    BY <1>2, <1>n, <2>2, FoundOne, Zenon
  <2> QED BY <1>3, <1>5, <1>6, <1>7, <1>n, <2>3, <2>4, Zenon
<1>8. CASE SlashesFrom(name, i) # {}
  <2> DEFINE k == FirstSlash(name, i)
             N2 == LevelsFrom(name)[k + 1]
             F2 == LevelsFrom(filter)[j + 2]
  <2>1. k \in i .. Len(name) /\ name[k] = "/" /\ \A l \in i .. k - 1 : name[l] # "/" BY <1>1, <1>8, FirstSlashIs, Zenon
  <2> HIDE DEF k
  <2>2. k + 1 \in 1 .. Len(name) + 1 /\ (k + 1 > Len(name) <=> k = Len(name)) BY <2>1
  <2>3. N2 \in Seq(V) /\ N2 # <<>> /\ Len(N2) \in Nat /\ Len(N2) >= 1 BY <1>1, <2>2, LevelsType, Zenon
  <2>4. Drops(N, N2) BY <1>1, <2>1, NextLevel
  <2>5. CASE j = Len(filter)
    <3> HIDE DEF N, F, V, N2, F2
    <3>1. Len(N) >= 2 BY <2>3, <2>4 DEF Drops
    <3>2. Len(F) = 1 BY <1>6, <2>5, Zenon
    <3>3. ~Found(N, F) BY <1>2, <1>5, <3>1, <3>2, FoundEnd, SpecialLevels, Zenon
    <3>4. ~(j < Len(filter)) BY <2>5
    <3> QED BY <1>3, <1>8, <3>3, <3>4, Zenon
  <2>6. CASE j < Len(filter)
    <3>1. /\ j + 1 \in j .. Len(filter) /\ j + 1 + 1 = j + 2 /\ j + 2 \in 1 .. Len(filter) + 1
          /\ \A l \in j .. (j + 1) - 1 : l = j
      BY <2>6
    <3>2. filter[j + 1] = "/" BY <1>5, <2>6
    <3>3. Drops(F, F2)
      <4>1. \A l \in j .. (j + 1) - 1 : filter[l] # "/" BY <1>4, <3>1, Zenon
      <4>2. Drops(F, LevelsFrom(filter)[j + 1 + 1]) BY <3>1, <3>2, <4>1, NextLevel, Zenon
      <4> QED BY <3>1, <4>2, Zenon
    <3>4. F2 \in Seq(V) /\ F2 # <<>> /\ Len(F2) \in Nat /\ Len(F2) >= 1 BY <3>1, LevelsType, Zenon
    <3>5. Len(N2) = 1 /\ N2[1] = <<>> <=> k + 1 > Len(name) BY <1>1, <2>2, EmptyFrom, Zenon
    <3>6. Len(F2) = 1 /\ F2[1] = <<>> <=> j + 2 > Len(filter) BY <3>1, EmptyFrom, Zenon
    <3>7. FoundFrom(name, filter, k + 1, j + 2) <=> IF k + 1 > Len(name) THEN j + 2 > Len(filter) ELSE Found(N2, F2)
      BY Zenon DEF FoundFrom
    <3> HIDE DEF N, F, V, N2, F2
    <3>8. Found(N, F) <=> Found(N2, F2) /\ (F[1] = Plus /\ Len(N2) = 1 /\ N2[1] = <<>> => Len(F2) = 1 /\ F2[1] = <<>>)
      <4>1. F[1] \in {N[1], Plus} BY <1>5
      <4> QED BY <1>2, <2>3, <2>4, <3>3, <3>4, <4>1, FoundNext, Zenon
    <3>9. Len(N2) = 1 /\ N2[1] = <<>> /\ Len(F2) = 1 /\ F2[1] = <<>> => Found(N2, F2)
      <4> SUFFICES ASSUME Len(N2) = 1, N2[1] = <<>>, Len(F2) = 1, F2[1] = <<>> PROVE Found(N2, F2) OBVIOUS
      <4>1. N2[1] # Plus /\ F2[1] \in {N2[1], Plus, Hash} BY SpecialLevels
      <4> QED BY <2>3, <3>4, <4>1, FoundOne, Zenon
    <3>10. FoundFrom(name, filter, k + 1, j + 2) <=> Found(N, F) BY <1>5, <3>5, <3>6, <3>7, <3>8, <3>9, Zenon
    <3> QED BY <1>3, <1>8, <2>6, <3>2, <3>10, Zenon DEF k
  <2> QED BY <2>5, <2>6
<1> QED BY <1>7, <1>8

-----------------------------------------------------------------------------
(* matchTopicFilter                                                        *)

\* What matchWildcards answers, by the character of the filter.
Tells(w, name, i, filter, j) ==
  LET goesOn == j < Len(filter) /\ filter[j + 1] = "/"
  IN /\ filter[j] \notin Wildcards => w.stop = TRUE /\ w.found = FALSE
     /\ filter[j] = "#" => w.stop = TRUE /\ w.found = TRUE
     /\ filter[j] = "+" =>
          /\ SlashesFrom(name, i) = {} => w.stop = FALSE /\ w.i = Len(name) /\ w.j = j
          /\ SlashesFrom(name, i) # {} /\ goesOn => w.stop = FALSE /\ w.i = FirstSlash(name, i) /\ w.j = j + 1
          /\ SlashesFrom(name, i) # {} /\ ~goesOn => w.stop = TRUE /\ w.found = FALSE

LEMMA WildcardSteps ==
  ASSUME NEW C, NEW name \in Seq(C), NEW filter \in Seq(C), NEW i \in 1 .. Len(name), NEW j \in 1 .. Len(filter),
         ValidFilter(filter)
  PROVE  Tells(MatchWildcards(name, i, filter, j), name, i, filter, j)
<1> DEFINE w == MatchWildcards(name, i, filter, j)
           begins == j = 1 \/ filter[j - 1] = "/"
           goesOn == j < Len(filter) /\ filter[j + 1] = "/"
           stop(found) == [stop |-> TRUE, found |-> found, i |-> i, j |-> j]
           plus == begins /\ filter[j] = "+"
           hash == begins /\ filter[j] = "#"
           S == SlashesFrom(name, i)
           slash == CHOOSE k \in S : \A l \in S : k <= l
           at(found, a, b) == [stop |-> FALSE, found |-> found, i |-> a, j |-> b]
<1>1. w = CASE plus -> IF S = {} THEN at(FALSE, Len(name), j)
                       ELSE IF goesOn THEN at(FALSE, slash, j + 1)
                       ELSE stop(FALSE)
            [] hash -> stop(j = Len(filter))
            [] OTHER -> stop(FALSE)
  BY Zenon DEF MatchWildcards, SlashesFrom
<1>2. slash = FirstSlash(name, i) BY Zenon DEF FirstSlash
<1>3. filter[j] \in Wildcards => begins BY WildcardAlone DEF Begins
<1>4. filter[j] = "#" => j = Len(filter)
  <2>1. "#" \in Wildcards BY DEF Wildcards
  <2> QED BY <2>1, WildcardAlone
<1>5. \A x : x \in Wildcards <=> x = "+" \/ x = "#" BY DEF Wildcards
<1>6. /\ \A found : stop(found).stop = TRUE /\ stop(found).found = found
      /\ at(FALSE, Len(name), j).stop = FALSE /\ at(FALSE, Len(name), j).i = Len(name) /\ at(FALSE, Len(name), j).j = j
      /\ at(FALSE, slash, j + 1).stop = FALSE /\ at(FALSE, slash, j + 1).i = slash /\ at(FALSE, slash, j + 1).j = j + 1
  OBVIOUS
<1> HIDE DEF w, begins, goesOn, stop, S, slash, at
<1>7. CASE filter[j] \notin Wildcards
  <2>1. ~plus /\ ~hash BY <1>5, <1>7, Zenon
  <2> HIDE DEF plus, hash
  <2>2. w = stop(FALSE) BY <1>1, <2>1, Zenon
  <2>3. filter[j] # "#" /\ filter[j] # "+" BY <1>5, <1>7, Zenon
  <2> QED BY <1>6, <1>7, <2>2, <2>3, Zenon DEF w, Tells
<1>8. CASE filter[j] = "#"
  <2>1. hash /\ ~plus /\ filter[j] # "+" /\ filter[j] \in Wildcards BY <1>3, <1>5, <1>8
  <2> HIDE DEF plus, hash
  <2>2. w = stop(j = Len(filter)) BY <1>1, <2>1
  <2>3. (j = Len(filter)) = TRUE BY <1>4, <1>8
  <2>4. w = stop(TRUE) BY <2>2, <2>3
  <2> QED BY <1>6, <2>1, <2>4, Zenon DEF w, Tells
<1>9. CASE filter[j] = "+"
  <2>1. plus /\ ~hash /\ filter[j] # "#" /\ filter[j] \in Wildcards BY <1>3, <1>5, <1>9
  <2> HIDE DEF plus, hash
  <2>2. w = IF S = {} THEN at(FALSE, Len(name), j) ELSE IF goesOn THEN at(FALSE, slash, j + 1) ELSE stop(FALSE) BY <1>1, <2>1
  <2>3. S = {} => w = at(FALSE, Len(name), j) BY <2>2
  <2>4. S # {} /\ goesOn => w = at(FALSE, slash, j + 1) BY <2>2
  <2>5. S # {} /\ ~goesOn => w = stop(FALSE) BY <2>2
  <2>6. S = {} => w.stop = FALSE /\ w.i = Len(name) /\ w.j = j BY <1>6, <2>3, Zenon
  <2>7. S # {} /\ goesOn => w.stop = FALSE /\ w.i = slash /\ w.j = j + 1 BY <1>6, <2>4, Zenon
  <2>8. S # {} /\ ~goesOn => w.stop = TRUE /\ w.found = FALSE BY <1>6, <2>5, Zenon
  <2> QED BY <1>2, <2>1, <2>6, <2>7, <2>8, Zenon DEF w, S, goesOn, Tells
<1> QED BY <1>5, <1>7, <1>8, <1>9, Zenon

\* The value of matchTopicFilter at two places, by what f has of later ones.
MatchBody(f, name, filter, i, j) ==
  LET w == MatchWildcards(name, i, filter, j)
  IN IF i > Len(name) \/ j > Len(filter) THEN i > Len(name) /\ j > Len(filter)
     ELSE IF name[i] = filter[j]
          THEN (i = Len(name) /\ MatchEndWildcards(filter, j)) \/ f[i + 1][j + 1]
     ELSE IF w.stop THEN w.found ELSE f[w.i + 1][w.j + 1]

LEMMA FoundBoolean ==
  ASSUME NEW name, NEW filter, NEW i, NEW j
  PROVE  FoundFrom(name, filter, i, j) \in BOOLEAN
<1>1. (j > Len(filter)) \in BOOLEAN OBVIOUS
<1>2. Found(LevelsFrom(name)[i], LevelsFrom(filter)[j]) \in BOOLEAN BY DEF Found
<1> QED BY <1>1, <1>2, Zenon DEF FoundFrom

LEMMA MatchStep ==
  ASSUME NEW C, NEW name \in Seq(C \ Wildcards), NEW filter \in Seq(C), ValidFilter(filter),
         NEW i \in 1 .. Len(name) + 1, NEW j \in 1 .. Len(filter) + 1, NEW f,
         \A i2 \in i + 1 .. Len(name) + 1, j2 \in 1 .. Len(filter) + 1 : f[i2][j2] = FoundFrom(name, filter, i2, j2)
  PROVE  MatchBody(f, name, filter, i, j) = FoundFrom(name, filter, i, j)
<1> DEFINE w == MatchWildcards(name, i, filter, j)
           body == MatchBody(f, name, filter, i, j)
           here == FoundFrom(name, filter, i, j)
           FF(a, b) == FoundFrom(name, filter, a, b)
<1>1. name \in Seq(C) /\ here \in BOOLEAN /\ \A a, b : FF(a, b) \in BOOLEAN BY FoundBoolean
<1>t. i \in 1 .. Len(name) /\ j \in 1 .. Len(filter) => Tells(w, name, i, filter, j) BY <1>1, WildcardSteps, Zenon
<1>2. CASE i > Len(name)
  <2>1. here = (j > Len(filter)) BY <1>2, Zenon DEF FoundFrom
  <2>2. body = (i > Len(name) /\ j > Len(filter)) BY <1>2, Zenon DEF MatchBody
  <2> QED BY <1>2, <2>1, <2>2
<1>3. CASE ~(i > Len(name)) /\ j > Len(filter)
  <2>1. i \in 1 .. Len(name) /\ ~(j <= Len(filter)) BY <1>3
  <2>2. ~here BY <2>1, StepStop
  <2>3. body = (i > Len(name) /\ j > Len(filter)) BY <1>3, Zenon DEF MatchBody
  <2> QED BY <1>1, <1>3, <2>2, <2>3
<1>4. CASE ~(i > Len(name)) /\ ~(j > Len(filter))
  <2>1. /\ i \in 1 .. Len(name) /\ j \in 1 .. Len(filter) /\ i + 1 \in i + 1 .. Len(name) + 1 /\ j + 1 \in 1 .. Len(filter) + 1
        /\ Len(name) + 1 \in i + 1 .. Len(name) + 1 /\ name[i] \in C \ Wildcards
    BY <1>4
  <2>2. CASE name[i] = filter[j]
    <3>1. body = ((i = Len(name) /\ MatchEndWildcards(filter, j)) \/ f[i + 1][j + 1]) BY <1>4, <2>2, Zenon DEF MatchBody
    <3>2. f[i + 1][j + 1] = FF(i + 1, j + 1) BY <2>1
    <3>3. here <=> (i = Len(name) /\ MatchEndWildcards(filter, j)) \/ FF(i + 1, j + 1)
      <4>1. CASE name[i] = "/"
        <5>1. filter[j] = "/" BY <2>2, <4>1
        <5> QED BY <2>1, <4>1, <5>1, StepSlash, Zenon
      <4>2. CASE name[i] # "/" BY <2>1, <2>2, <4>2, StepSame, Zenon
      <4> QED BY <4>1, <4>2
    <3> HIDE DEF body, here, FF
    <3>4. body = ((i = Len(name) /\ MatchEndWildcards(filter, j)) \/ FF(i + 1, j + 1)) BY <3>1, <3>2
    <3>5. body \in BOOLEAN /\ (body <=> here) BY <3>3, <3>4
    <3>6. \A x, y \in BOOLEAN : (x <=> y) => x = y OBVIOUS
    <3>7. body = here BY <1>1, <3>5, <3>6, Zenon
    <3> QED BY <3>7 DEF body, here
  <2>3. CASE name[i] # filter[j]
    <3>1. body = IF w.stop THEN w.found ELSE f[w.i + 1][w.j + 1] BY <1>4, <2>3, Zenon DEF MatchBody
    <3>2. CASE filter[j] \notin Wildcards
      <4>1. w.stop = TRUE /\ w.found = FALSE BY <1>t, <2>1, <3>2, Zenon DEF Tells
      <4>2. ~here
        <5>1. filter[j] # name[i] BY <2>3
        <5>2. j \in 1 .. Len(filter) + 1 OBVIOUS
        <5> QED BY <2>1, <3>2, <5>1, <5>2, StepStop, Zenon
      <4> HIDE DEF body, here, w
      <4>3. body = FALSE BY <3>1, <4>1
      <4> QED BY <1>1, <4>2, <4>3 DEF body, here
    <3>3. CASE filter[j] = "#"
      <4>1. w.stop = TRUE /\ w.found = TRUE BY <1>t, <2>1, <3>3, Zenon DEF Tells
      <4>2. here BY <2>1, <3>3, StepHash
      <4> HIDE DEF body, here, w
      <4>3. body = TRUE BY <3>1, <4>1
      <4> QED BY <1>1, <4>2, <4>3 DEF body, here
    <3>4. CASE filter[j] = "+"
      <4> DEFINE none == SlashesFrom(name, i) = {}
                 goesOn == j < Len(filter) /\ filter[j + 1] = "/"
                 slash == FirstSlash(name, i)
      <4>1. /\ none => w.stop = FALSE /\ w.i = Len(name) /\ w.j = j
            /\ ~none /\ goesOn => w.stop = FALSE /\ w.i = slash /\ w.j = j + 1
            /\ ~none /\ ~goesOn => w.stop = TRUE /\ w.found = FALSE
        BY <1>t, <2>1, <3>4, Zenon DEF Tells
      <4>2. here <=> IF none THEN FF(Len(name) + 1, j + 1) ELSE goesOn /\ FF(slash + 1, j + 2)
        BY <2>1, <3>4, StepPlus
      <4>3. CASE none
        <5>1. f[Len(name) + 1][j + 1] = FF(Len(name) + 1, j + 1) BY <2>1
        <5> HIDE DEF body, here, w, none, goesOn, slash, FF
        <5>2. body = FF(Len(name) + 1, j + 1) BY <3>1, <4>1, <4>3, <5>1
        <5>3. here <=> FF(Len(name) + 1, j + 1) BY <4>2, <4>3
        <5> QED BY <1>1, <5>2, <5>3, Zenon DEF body, here
      <4>4. CASE ~none /\ goesOn
        <5>1. slash \in i .. Len(name) BY <1>1, <2>1, <4>4, FirstSlashIs, Zenon
        <5> HIDE DEF slash
        <5>2. slash + 1 \in i + 1 .. Len(name) + 1 /\ j + 1 + 1 = j + 2 /\ j + 2 \in 1 .. Len(filter) + 1 BY <2>1, <4>4, <5>1
        <5>3. f[slash + 1][j + 2] = FF(slash + 1, j + 2) BY <5>2
        <5> HIDE DEF body, here, w, none, goesOn, FF
        <5>4. body = FF(slash + 1, j + 2) BY <3>1, <4>1, <4>4, <5>2, <5>3
        <5>5. here <=> FF(slash + 1, j + 2) BY <4>2, <4>4
        <5> QED BY <1>1, <5>4, <5>5, Zenon DEF body, here
      <4>5. CASE ~none /\ ~goesOn
        <5> HIDE DEF body, here, w, none, goesOn, slash, FF
        <5>1. body = FALSE BY <3>1, <4>1, <4>5
        <5>2. ~here BY <4>2, <4>5
        <5> QED BY <1>1, <5>1, <5>2 DEF body, here
      <4> QED BY <4>3, <4>4, <4>5
    <3>5. filter[j] \in Wildcards => filter[j] = "#" \/ filter[j] = "+" BY DEF Wildcards
    <3> QED BY <3>2, <3>3, <3>4, <3>5
  <2> QED BY <2>2, <2>3
<1> QED BY <1>2, <1>3, <1>4

\* matchTopicFilter finds what the levels tell.
LEMMA MatchIs ==
  ASSUME NEW C, NEW name \in Seq(C \ Wildcards), NEW filter \in Seq(C), ValidFilter(filter)
  PROVE  MatchTopicFilter(name, filter) = FoundFrom(name, filter, 1, 1)
<1> DEFINE n == Len(name)
           I == 1 .. n + 1
           J == 1 .. Len(filter) + 1
           FF(i, j) == FoundFrom(name, filter, i, j)
           body(f, i, j) == MatchBody(f, name, filter, i, j)
           M == CHOOSE f : f = [i \in I |-> [j \in J |-> body(f, i, j)]]
           g == [i \in I |-> [j \in J |-> FF(i, j)]]
<1>1. MatchTopicFilter(name, filter) = M[1][1] BY Zenon DEF MatchTopicFilter, MatchBody
<1>2. n \in Nat /\ Len(filter) \in Nat OBVIOUS
<1>3. ASSUME NEW f, NEW i \in I, NEW j \in J, \A i2 \in i + 1 .. n + 1, j2 \in J : f[i2][j2] = FF(i2, j2)
      PROVE  body(f, i, j) = FF(i, j)
  BY <1>3, MatchStep
<1>4. \A i \in I : i + 1 .. n + 1 \subseteq I BY <1>2
<1> HIDE DEF I, J, FF, body, M, n
<1>5. g = [i \in I |-> [j \in J |-> body(g, i, j)]]
  <2>1. \A i \in I, j \in J : g[i][j] = FF(i, j) OBVIOUS
  <2>2. \A i \in I, j \in J : body(g, i, j) = FF(i, j)
    <3> SUFFICES ASSUME NEW i \in I, NEW j \in J PROVE body(g, i, j) = FF(i, j) OBVIOUS
    <3>1. \A i2 \in i + 1 .. n + 1, j2 \in J : g[i2][j2] = FF(i2, j2) BY <1>4, <2>1
    <3> HIDE DEF g
    <3> QED BY <1>3, <3>1
  <2> DEFINE h == [i \in I |-> [j \in J |-> body(g, i, j)]]
  <2>3. \A i \in I : [j \in J |-> body(g, i, j)] = [j \in J |-> FF(i, j)] BY <2>2
  <2> QED BY <2>3
<1> HIDE DEF g
<1>6. M = [i \in I |-> [j \in J |-> body(M, i, j)]]
  <2>1. M = CHOOSE f : f = [i \in I |-> [j \in J |-> body(f, i, j)]] BY DEF M
  <2> QED BY <1>5, <2>1
<1>7. \A i \in I, j \in J : M[i][j] = body(M, i, j) BY <1>6
<1> DEFINE S == {i \in 0 .. n : \A i2 \in i + 1 .. n + 1, j \in J : M[i2][j] = FF(i2, j)}
<1>8. ASSUME NEW i \in 0 .. n, \A i2 \in (i + 1) + 1 .. n + 1, j \in J : M[i2][j] = FF(i2, j)
      PROVE  i \in S
  <2>1. i + 1 \in I /\ \A i2 \in i + 1 .. n + 1 : i2 = i + 1 \/ i2 \in (i + 1) + 1 .. n + 1 BY <1>2 DEF I
  <2>2. ASSUME NEW j \in J PROVE M[i + 1][j] = FF(i + 1, j)
    <3>1. body(M, i + 1, j) = FF(i + 1, j) BY <1>3, <1>8, <2>1
    <3> QED BY <1>7, <2>1, <3>1
  <2>3. \A i2 \in i + 1 .. n + 1, j \in J : M[i2][j] = FF(i2, j) BY <1>8, <2>1, <2>2, Zenon
  <2> QED BY <2>3
<1>9. 0 .. n \subseteq S
  <2>1. n \in S
    <3>1. n \in 0 .. n /\ (n + 1) + 1 .. n + 1 = {} BY <1>2
    <3> QED BY <1>8, <3>1, Zenon
  <2>2. ASSUME NEW i \in 1 .. n, i \in S PROVE i - 1 \in S
    <3>1. i - 1 \in 0 .. n /\ ((i - 1) + 1) + 1 = i + 1 BY <1>2
    <3>2. \A i2 \in i + 1 .. n + 1, j \in J : M[i2][j] = FF(i2, j) BY <2>2
    <3> QED BY <1>8, <3>1, <3>2, Zenon
  <2> HIDE DEF S
  <2> QED BY <1>2, <2>1, <2>2, BackInduct
<1>10. 0 \in S /\ 1 \in 0 + 1 .. n + 1 /\ 1 \in J
  <2>1. 0 \in 0 .. n /\ 1 \in 0 + 1 .. n + 1 /\ 1 \in J BY <1>2 DEF J
  <2> HIDE DEF S
  <2> QED BY <1>9, <2>1
<1>11. M[1][1] = FF(1, 1) BY <1>10
<1> QED BY <1>1, <1>11 DEF FF

-----------------------------------------------------------------------------
(* MQTT_MatchTopic                                                         *)

\* A valid name matches a valid filter just when their levels do, but for the
\* matches that Missed lists (MQTT_MatchTopic, matchTopicFilter,
\* matchWildcards, matchEndWildcardsSpecialCases).
THEOREM MatchTopicIs ==
  ASSUME NEW C, NEW name \in Seq(C), NEW filter \in Seq(C), ValidName(name), ValidFilter(filter)
  PROVE  MatchTopic(name, filter) <=> Matches(name, filter) /\ ~Missed(name, filter)
<1> DEFINE N == Levels(name)
           F == Levels(filter)
           V == Seq(C)
           special == name[1] = "$" /\ filter[1] \in {"+", "#"}
<1>1. name # <<>> /\ filter # <<>> /\ \A k \in 1 .. Len(name) : name[k] \notin Wildcards
  <2>1. ToSet(name) \cap {"+", "#"} = {} /\ name # <<>> BY DEF ValidName
  <2>2. \A k \in 1 .. Len(name) : name[k] \in ToSet(name) BY DEF ToSet
  <2>3. filter # <<>> BY Zenon DEF ValidFilter
  <2> QED BY <2>1, <2>2, <2>3 DEF Wildcards
<1>2. name \in Seq(C \ Wildcards)
  <2>1. \A k \in 1 .. Len(name) : name[k] \in C \ Wildcards BY <1>1
  <2>2. name = [k \in 1 .. Len(name) |-> name[k]] /\ Len(name) \in Nat OBVIOUS
  <2> QED BY <2>1, <2>2
<1>3. N = LevelsFrom(name)[1] /\ F = LevelsFrom(filter)[1] BY DEF Levels
<1>4. 1 \in 1 .. Len(name) /\ 1 \in 1 .. Len(filter) /\ 1 \in 1 .. Len(name) + 1 /\ 1 \in 1 .. Len(filter) + 1
      /\ ~(1 > Len(name))
  BY <1>1
<1>5. N \in Seq(V) /\ F \in Seq(V) /\ N # <<>> /\ F # <<>> /\ Len(N) \in Nat /\ Len(F) \in Nat
  BY <1>3, <1>4, LevelsType, Zenon
<1>6. Matches(name, filter) <=> ~special /\ MatchLevels(N, F)
  <2>1. DOMAIN F = 1 .. Len(F) BY <1>5
  <2>2. Matches(name, filter) <=>
           /\ ~special
           /\ IF F[Len(F)] = <<"#">> THEN Len(N) >= Len(F) - 1 /\ \A k \in 1 .. Len(F) - 1 : F[k] \in {N[k], <<"+">>}
              ELSE Len(N) = Len(F) /\ \A k \in DOMAIN F : F[k] \in {N[k], <<"+">>}
    BY Zenon DEF Matches
  <2> HIDE DEF N, F, special
  <2> QED BY <2>1, <2>2, Zenon DEF MatchLevels, Plus, Hash
<1>7. Missed(name, filter) <=> MissedLevels(N, F) BY Zenon DEF Missed, MissedLevels, Plus, Hash
<1>8. MatchTopicFilter(name, filter) <=> Found(N, F)
  <2>1. MatchTopicFilter(name, filter) = FoundFrom(name, filter, 1, 1) BY <1>2, MatchIs
  <2>2. FoundFrom(name, filter, 1, 1) <=> Found(N, F) BY <1>3, <1>4, Zenon DEF FoundFrom
  <2> QED BY <2>1, <2>2
<1>n. \A k \in 1 .. Len(N) : N[k] # Plus /\ N[k] # Hash BY <1>2, <1>3, <1>4, NameLevels, Zenon
<1>9. name = filter => ~special /\ Found(N, F)
  <2> SUFFICES ASSUME name = filter PROVE ~special /\ Found(N, F) OBVIOUS
  <2>1. ~special BY <1>1, <1>4 DEF Wildcards
  <2>2. F = N OBVIOUS
  <2> HIDE DEF N, F, special
  <2>3. Len(N) \in 1 .. Len(N) BY <1>5
  <2>4. F[Len(F)] # Hash BY <1>n, <2>2, <2>3, Zenon
  <2>5. MatchLevels(N, F) BY <2>2, <2>4, Zenon DEF MatchLevels
  <2>6. ~MissedLevels(N, F)
    <3>1. Len(F) # Len(N) + 1 BY <1>5, <2>2
    <3>2. Len(N) >= 2 => Len(N) - 1 \in 1 .. Len(N) BY <1>5
    <3>3. Len(N) >= 2 => F[Len(N) - 1] # Plus BY <1>n, <2>2, <3>2, Zenon
    <3> QED BY <3>1, <3>3, Zenon DEF MissedLevels
  <2> QED BY <2>1, <2>5, <2>6, Zenon DEF Found
<1>10. MatchTopic(name, filter) <=> name = filter \/ (~special /\ MatchTopicFilter(name, filter)) BY Zenon DEF MatchTopic
<1> HIDE DEF N, F, special
<1> QED BY <1>6, <1>7, <1>8, <1>9, <1>10, Zenon DEF Found
=============================================================================
