-------------------------- MODULE PipeStreamProofs ---------------------------
(***************************************************************************)
(* A pipe is a stream of bytes, for any sizes of pages and ring and any    *)
(* number of processes: Pipe implements ByteStream.                        *)
(*                                                                         *)
(* The inductive invariant has three parts: where everyone is, with the    *)
(* mutex and waiting_writers to match; what each call has left to do; and  *)
(* how the ring lies, the used buffers in a row from curbuf on.  The       *)
(* contents of the pipe are Flat of the used buffers.  Each step that      *)
(* copies changes the first or the last of them, and Flat with it.         *)
(***************************************************************************)
EXTENDS Pipe, FiniteSetTheorems, SequenceTheorems, WellFoundedInduction, TLAPS

USE ZenonT(10)

-----------------------------------------------------------------------------
(* A set of natural numbers has a least element.                           *)
LEMMA LeastNatural ==
  ASSUME NEW S \in SUBSET Nat, S # {}
  PROVE  \E k \in S : \A j \in S : k <= j
<1> DEFINE R == {ss \in Nat \X Nat : ss[1] < ss[2]}
<1>1. IsWellFoundedOn(R, Nat)
  BY NatLessThanWellFounded DEF OpToRel
<1>2. \A i, j \in Nat : <<i, j>> \in R <=> i < j
  OBVIOUS
<1> HIDE DEF R
<1>3. PICK k \in S : \A j \in S : ~ (<<j, k>> \in R)
  BY <1>1, WFMin
<1>4. ASSUME NEW j \in S PROVE k <= j
  <2>1. ~ (<<j, k>> \in R)
    BY <1>3
  <2>2. j \in Nat /\ k \in Nat
    OBVIOUS
  <2>3. ~ (j < k)
    BY <1>2, <2>1, <2>2
  <2>4. QED
    BY <2>2, <2>3, SMT
<1>5. QED
  BY <1>4

(* f[n] is the first n pages of s, one after another.                      *)
Prefixes(s, f) ==
  /\ f \in [0 .. Len(s) -> Seq(Nat)] /\ f[0] = <<>>
  /\ \A n \in 1 .. Len(s) : f[n] = f[n - 1] \o s[n]

(* There is such a function for every sequence of pages: otherwise take    *)
(* the first prefix for which there is none.                               *)
LEMMA PrefixesExist ==
  ASSUME NEW s \in Seq(Seq(Nat))
  PROVE  \E f : Prefixes(s, f)
<1> DEFINE Upto(m, f) == /\ f \in [0 .. m -> Seq(Nat)] /\ f[0] = <<>>
                         /\ \A n \in 1 .. m : f[n] = f[n - 1] \o s[n]
           Bad == {m \in 0 .. Len(s) : ~ \E f : Upto(m, f)}
<1>1. Len(s) \in Nat
  BY LenProperties
<1>0. Len(s) \in 0 .. Len(s) /\ 0 .. Len(s) \subseteq Nat
  BY <1>1, SMT
<1>2. SUFFICES ASSUME Bad # {} PROVE FALSE
  BY <1>0 DEF Prefixes
<1>3. Bad \in SUBSET Nat
  BY <1>0
<1>4. PICK m \in Bad : \A j \in Bad : m <= j
  BY <1>2, <1>3, LeastNatural
<1>5. m \in 0 .. Len(s) /\ ~ \E f : Upto(m, f)
  BY <1>4
<1>6. CASE m = 0
  <2>1. Upto(0, [n \in 0 .. 0 |-> <<>>])
    BY EmptySeq, SMT
  <2>2. QED
    BY <1>5, <1>6, <2>1
<1>7. CASE m # 0
  <2>1. m - 1 \in 0 .. Len(s) /\ ~ (m <= m - 1) /\ m \in Nat
    BY <1>1, <1>5, <1>7, SMT
  <2>2. PICK f : Upto(m - 1, f)
    BY <1>4, <2>1
  <2> DEFINE g == [n \in 0 .. m |-> IF n = m THEN f[m - 1] \o s[m] ELSE f[n]]
  <2>3. s[m] \in Seq(Nat) /\ f[m - 1] \in Seq(Nat)
    <3>1. m \in 1 .. Len(s) /\ m - 1 \in 0 .. m - 1
      BY <1>1, <1>5, <1>7, SMT
    <3>2. QED
      BY <2>2, <3>1, ElementOfSeq
  <2>4. f[m - 1] \o s[m] \in Seq(Nat)
    BY <2>3, ConcatProperties
  <2>5. g \in [0 .. m -> Seq(Nat)]
    BY <2>1, <2>2, <2>4, SMT
  <2>6. g[0] = <<>>
    BY <1>7, <2>1, <2>2, SMT
  <2>7. ASSUME NEW n \in 1 .. m PROVE g[n] = g[n - 1] \o s[n]
    <3>1. n \in 0 .. m /\ n - 1 \in 0 .. m /\ n - 1 # m
      BY <2>1, SMT
    <3>2. g[n - 1] = f[n - 1]
      BY <3>1
    <3>3. CASE n = m
      BY <3>1, <3>2, <3>3
    <3>4. CASE n # m
      <4>1. n \in 1 .. m - 1
        BY <2>1, <3>4, SMT
      <4>2. g[n] = f[n]
        BY <3>1, <3>4
      <4>3. f[n] = f[n - 1] \o s[n]
        BY <2>2, <4>1
      <4>4. QED
        BY <3>2, <4>2, <4>3
    <3>5. QED
      BY <3>3, <3>4
  <2>8. Upto(m, g)
    BY <2>5, <2>6, <2>7
  <2>9. QED
    BY <1>5, <2>8
<1>8. QED
  BY <1>6, <1>7

(* And only one.                                                           *)
LEMMA PrefixesUnique ==
  ASSUME NEW s \in Seq(Seq(Nat)), NEW f, Prefixes(s, f), NEW g,
         DOMAIN g = 0 .. Len(s), g[0] = <<>>,
         \A n \in 1 .. Len(s) : g[n] = g[n - 1] \o s[n]
  PROVE  \A n \in 0 .. Len(s) : g[n] = f[n]
<1> DEFINE Bad == {n \in 0 .. Len(s) : g[n] # f[n]}
<1>1. Len(s) \in Nat
  BY LenProperties
<1>2. SUFFICES ASSUME Bad # {} PROVE FALSE
  OBVIOUS
<1>3. Bad \in SUBSET Nat
  BY <1>1, SMT
<1>4. PICK m \in Bad : \A j \in Bad : m <= j
  BY <1>2, <1>3, LeastNatural
<1>5. m \in 0 .. Len(s) /\ g[m] # f[m] /\ m # 0
  BY <1>4 DEF Prefixes
<1>6. m \in 1 .. Len(s) /\ m - 1 \in 0 .. Len(s) /\ ~ (m <= m - 1)
  BY <1>1, <1>5, SMT
<1>7. g[m - 1] = f[m - 1]
  BY <1>4, <1>6
<1>8. QED
  BY <1>5, <1>6, <1>7 DEF Prefixes

LEMMA FlatIs ==
  ASSUME NEW s \in Seq(Seq(Nat)), NEW f, Prefixes(s, f)
  PROVE  Flat(s) = f[Len(s)] /\ Flat(s) \in Seq(Nat)
<1> DEFINE Rec(g) == g = [n \in 0 .. Len(s) |-> IF n = 0 THEN <<>> ELSE g[n - 1] \o s[n]]
           u == CHOOSE g : Rec(g)
<1>1. Len(s) \in Nat /\ 0 \in 0 .. Len(s) /\ Len(s) \in 0 .. Len(s)
  <2>1. Len(s) \in Nat
    BY LenProperties
  <2>2. QED
    BY <2>1, SMT
<1>2. \A n \in 0 .. Len(s) : n # 0 => n \in 1 .. Len(s)
  BY <1>1, SMT
<1>3. Rec(f)
  <2>1. f \in [0 .. Len(s) -> Seq(Nat)]
    BY DEF Prefixes
  <2>2. \A n \in 0 .. Len(s) : f[n] = IF n = 0 THEN <<>> ELSE f[n - 1] \o s[n]
    BY <1>2 DEF Prefixes
  <2>3. QED
    BY <2>1, <2>2
<1>4. Rec(u)
  BY <1>3
<1>5. DOMAIN u = 0 .. Len(s) /\ u[0] = <<>>
  BY <1>1, <1>4
<1>6. \A n \in 1 .. Len(s) : u[n] = u[n - 1] \o s[n]
  <2>1. \A n \in 1 .. Len(s) : n \in 0 .. Len(s) /\ n # 0
    BY <1>1, SMT
  <2>2. QED
    BY <1>4, <2>1
<1>7. Flat(s) = u[Len(s)]
  BY DEF Flat
<1> HIDE DEF u
<1>8. \A n \in 0 .. Len(s) : u[n] = f[n]
  BY <1>5, <1>6, PrefixesUnique
<1>9. QED
  BY <1>1, <1>7, <1>8 DEF Prefixes

LEMMA CatAssoc == \A a, b, c \in Seq(Nat) : (a \o b) \o c = a \o (b \o c)
<1>1. ASSUME NEW a \in Seq(Nat), NEW b \in Seq(Nat), NEW c \in Seq(Nat)
      PROVE  (a \o b) \o c = a \o (b \o c)
  BY ConcatAssociative, SMT
<1>2. QED
  BY <1>1

(* One more page; more bytes in the last page; the first page by itself.   *)
LEMMA FlatAppend ==
  ASSUME NEW s \in Seq(Seq(Nat)), NEW x \in Seq(Nat)
  PROVE  Flat(Append(s, x)) = Flat(s) \o x /\ Flat(s) \in Seq(Nat)
<1> DEFINE t == Append(s, x)
<1>1. PICK f : Prefixes(s, f)
  BY PrefixesExist
<1>2. Flat(s) = f[Len(s)] /\ Flat(s) \in Seq(Nat)
  BY <1>1, FlatIs
<1>3. /\ Len(s) \in Nat /\ t \in Seq(Seq(Nat)) /\ Len(t) = Len(s) + 1
      /\ \A i \in 1 .. Len(s) : t[i] = s[i]
      /\ t[Len(s) + 1] = x
  <2>1. Len(s) \in Nat
    BY LenProperties
  <2>2. /\ Append(s, x) \in Seq(Seq(Nat)) /\ Len(Append(s, x)) = Len(s) + 1
        /\ \A i \in 1 .. Len(s) : Append(s, x)[i] = s[i]
        /\ Append(s, x)[Len(s) + 1] = x
    BY AppendProperties, SMT
  <2>3. QED
    BY <2>1, <2>2
<1> DEFINE g == [n \in 0 .. Len(t) |-> IF n = Len(t) THEN f[Len(s)] \o x ELSE f[n]]
<1> HIDE DEF t
<1>4. f[Len(s)] \o x \in Seq(Nat)
  BY <1>2, ConcatProperties
<1>5. \A n \in 0 .. Len(t) : n # Len(t) => n \in 0 .. Len(s)
  BY <1>3, SMT
<1>6. g \in [0 .. Len(t) -> Seq(Nat)]
  BY <1>1, <1>4, <1>5 DEF Prefixes
<1>7. g[0] = <<>>
  <2>1. 0 \in 0 .. Len(t) /\ 0 # Len(t)
    BY <1>3, SMT
  <2>2. QED
    BY <1>1, <2>1 DEF Prefixes
<1>8. ASSUME NEW n \in 1 .. Len(t) PROVE g[n] = g[n - 1] \o t[n]
  <2>1. n \in 0 .. Len(t) /\ n - 1 \in 0 .. Len(t) /\ n - 1 # Len(t)
    BY <1>3, SMT
  <2>2. g[n - 1] = f[n - 1]
    BY <2>1
  <2>3. CASE n = Len(t)
    <3>1. n - 1 = Len(s) /\ t[n] = x
      BY <1>3, <2>3, SMT
    <3>2. QED
      BY <2>1, <2>2, <2>3, <3>1
  <2>4. CASE n # Len(t)
    <3>1. n \in 1 .. Len(s)
      BY <1>3, <2>4, SMT
    <3>2. g[n] = f[n] /\ t[n] = s[n] /\ f[n] = f[n - 1] \o s[n]
      BY <1>1, <1>3, <2>1, <2>4, <3>1 DEF Prefixes
    <3>3. QED
      BY <2>2, <3>2
  <2>5. QED
    BY <2>3, <2>4
<1>9. Prefixes(t, g)
  BY <1>6, <1>7, <1>8 DEF Prefixes
<1>10. Flat(t) = g[Len(t)]
  BY <1>3, <1>9, FlatIs
<1>11. Len(t) \in 0 .. Len(t)
  BY <1>3, SMT
<1>12. QED
  BY <1>2, <1>10, <1>11 DEF t

LEMMA FlatTail ==
  ASSUME NEW s \in Seq(Seq(Nat)), s # <<>>
  PROVE  Flat(s) = s[1] \o Flat(Tail(s)) /\ s[1] \in Seq(Nat) /\ Flat(Tail(s)) \in Seq(Nat)
<1> DEFINE t == Tail(s)
<1>1. /\ t \in Seq(Seq(Nat)) /\ Len(t) = Len(s) - 1 /\ Len(s) \in Nat \ {0}
      /\ \A i \in 1 .. Len(t) : t[i] = s[i + 1]
  <2>1. Len(s) \in Nat /\ Len(s) # 0
    BY EmptySeq, LenProperties
  <2>2. QED
    BY <2>1, HeadTailProperties
<1> HIDE DEF t
<1>2. PICK f : Prefixes(t, f)
  BY <1>1, PrefixesExist
<1>3. Flat(t) = f[Len(t)] /\ Flat(t) \in Seq(Nat)
  BY <1>1, <1>2, FlatIs
<1>4. s[1] \in Seq(Nat)
  <2>1. 1 \in 1 .. Len(s)
    BY <1>1, SMT
  <2>2. QED
    BY <2>1, ElementOfSeq
<1> DEFINE g == [n \in 0 .. Len(s) |-> IF n = 0 THEN <<>> ELSE s[1] \o f[n - 1]]
<1>5. \A n \in 0 .. Len(s) : n # 0 => n - 1 \in 0 .. Len(t) /\ f[n - 1] \in Seq(Nat)
  <2>1. \A n \in 0 .. Len(s) : n # 0 => n - 1 \in 0 .. Len(t)
    BY <1>1, SMT
  <2>2. QED
    BY <1>2, <2>1 DEF Prefixes
<1>6. g \in [0 .. Len(s) -> Seq(Nat)]
  <2>1. \A n \in 0 .. Len(s) : n # 0 => s[1] \o f[n - 1] \in Seq(Nat)
    BY <1>4, <1>5, ConcatProperties
  <2>2. QED
    BY <2>1, EmptySeq
<1>7. 0 \in 0 .. Len(s) /\ Len(s) \in 0 .. Len(s) /\ Len(s) # 0 /\ Len(t) = Len(s) - 1
  BY <1>1, SMT
<1>8. ASSUME NEW n \in 1 .. Len(s) PROVE g[n] = g[n - 1] \o s[n]
  <2>1. n \in 0 .. Len(s) /\ n # 0 /\ n - 1 \in 0 .. Len(s)
    BY <1>1, SMT
  <2>2. g[n] = s[1] \o f[n - 1]
    BY <2>1
  <2>3. CASE n = 1
    <3>1. g[n - 1] = <<>> /\ f[n - 1] = <<>>
      <4>1. n - 1 = 0
        BY <2>3, SMT
      <4>2. QED
        BY <1>2, <1>7, <4>1 DEF Prefixes
    <3>2. QED
      BY <1>4, <2>2, <2>3, <3>1, ConcatEmptySeq
  <2>4. CASE n # 1
    <3>1. /\ n - 1 \in 1 .. Len(t) /\ n - 1 # 0 /\ (n - 1) + 1 = n
          /\ (n - 1) - 1 \in 0 .. Len(t)
      BY <1>1, <2>1, <2>4, SMT
    <3>2. f[n - 1] = f[(n - 1) - 1] \o s[n]
      BY <1>1, <1>2, <3>1 DEF Prefixes
    <3>3. g[n - 1] = s[1] \o f[(n - 1) - 1]
      BY <2>1, <3>1
    <3>4. f[(n - 1) - 1] \in Seq(Nat) /\ s[n] \in Seq(Nat)
      <4>1. s[n] \in Seq(Nat)
        BY ElementOfSeq
      <4>2. QED
        BY <1>2, <3>1, <4>1 DEF Prefixes
    <3>5. s[1] \o (f[(n - 1) - 1] \o s[n]) = (s[1] \o f[(n - 1) - 1]) \o s[n]
      BY <1>4, <3>4, CatAssoc
    <3>6. QED
      BY <2>2, <3>2, <3>3, <3>5
  <2>5. QED
    BY <2>3, <2>4
<1>9. Prefixes(s, g)
  BY <1>6, <1>7, <1>8 DEF Prefixes
<1>10. Flat(s) = g[Len(s)]
  BY <1>9, FlatIs
<1>11. QED
  BY <1>3, <1>4, <1>7, <1>10 DEF t

(* Sequences cut in two.                                                   *)
LEMMA Cut ==
  ASSUME NEW s \in Seq(Nat), NEW k \in 0 .. Len(s)
  PROVE  /\ SubSeq(s, 1, k) \in Seq(Nat) /\ Len(SubSeq(s, 1, k)) = k
         /\ SubSeq(s, k + 1, Len(s)) \in Seq(Nat) /\ Len(SubSeq(s, k + 1, Len(s))) = Len(s) - k
         /\ \A i \in 1 .. k : SubSeq(s, 1, k)[i] = s[i]
         /\ \A i \in 1 .. Len(s) - k : SubSeq(s, k + 1, Len(s))[i] = s[k + i]
<1>1. Len(s) \in Nat
  BY LenProperties
<1>2. \A i \in 1 .. Len(s) : s[i] \in Nat
  BY ElementOfSeq
<1>3. k \in Int /\ 1 \in Int /\ k + 1 \in Int /\ Len(s) \in Int
  BY <1>1, SMT
<1>4. (\A i \in 1 .. k : s[i] \in Nat) /\ (\A i \in k + 1 .. Len(s) : s[i] \in Nat)
  BY <1>1, <1>2, SMT
<1>5. /\ SubSeq(s, 1, k) \in Seq(Nat)
      /\ Len(SubSeq(s, 1, k)) = IF 1 <= k THEN k - 1 + 1 ELSE 0
      /\ \A i \in 1 .. k - 1 + 1 : SubSeq(s, 1, k)[i] = s[1 + i - 1]
  BY <1>3, <1>4, SubSeqProperties, SMT
<1>6. /\ SubSeq(s, k + 1, Len(s)) \in Seq(Nat)
      /\ Len(SubSeq(s, k + 1, Len(s))) = IF k + 1 <= Len(s) THEN Len(s) - (k + 1) + 1 ELSE 0
      /\ \A i \in 1 .. Len(s) - (k + 1) + 1 : SubSeq(s, k + 1, Len(s))[i] = s[k + 1 + i - 1]
  BY <1>3, <1>4, SubSeqProperties, SMT
<1>7. QED
  BY <1>1, <1>5, <1>6, SMT

LEMMA CutOfCat ==
  ASSUME NEW s \in Seq(Nat), NEW t \in Seq(Nat), NEW k \in 0 .. Len(s)
  PROVE  /\ SubSeq(s \o t, 1, k) = SubSeq(s, 1, k)
         /\ SubSeq(s \o t, k + 1, Len(s \o t)) = SubSeq(s, k + 1, Len(s)) \o t
<1> DEFINE c == s \o t
           r == SubSeq(s, k + 1, Len(s))
<1>1. Len(s) \in Nat /\ Len(t) \in Nat
  BY LenProperties
<1>2. /\ c \in Seq(Nat) /\ Len(c) = Len(s) + Len(t)
      /\ \A i \in 1 .. Len(s) + Len(t) : c[i] = IF i <= Len(s) THEN s[i] ELSE t[i - Len(s)]
  BY ConcatProperties, SMT
<1>3. /\ r \in Seq(Nat) /\ Len(r) = Len(s) - k
      /\ \A i \in 1 .. Len(s) - k : r[i] = s[k + i]
  BY Cut
<1> HIDE DEF c, r
<1>4. k \in 0 .. Len(c)
  BY <1>1, <1>2, SMT
<1>5. SubSeq(c, 1, k) = SubSeq(s, 1, k)
  <2>1. /\ SubSeq(s, 1, k) \in Seq(Nat) /\ Len(SubSeq(s, 1, k)) = k
        /\ \A i \in 1 .. k : SubSeq(s, 1, k)[i] = s[i]
    BY Cut
  <2>2. /\ SubSeq(c, 1, k) \in Seq(Nat) /\ Len(SubSeq(c, 1, k)) = k
        /\ \A i \in 1 .. k : SubSeq(c, 1, k)[i] = c[i]
    BY <1>2, <1>4, Cut
  <2>3. \A i \in 1 .. k : c[i] = s[i]
    <3> SUFFICES ASSUME NEW i \in 1 .. k PROVE c[i] = s[i]
      OBVIOUS
    <3>1. i \in 1 .. Len(s) + Len(t) /\ i <= Len(s)
      BY <1>1, SMT
    <3>2. QED
      BY <1>2, <3>1
  <2>4. QED
    BY <2>1, <2>2, <2>3, SeqEqual
<1>6. SubSeq(c, k + 1, Len(c)) = r \o t
  <2>1. /\ r \o t \in Seq(Nat) /\ Len(r \o t) = Len(r) + Len(t)
        /\ \A i \in 1 .. Len(r) + Len(t) :
             (r \o t)[i] = IF i <= Len(r) THEN r[i] ELSE t[i - Len(r)]
    <3>1. r \in Seq(Nat)
      BY <1>3
    <3>2. QED
      BY <3>1, ConcatProperties, SMT
  <2>2. /\ SubSeq(c, k + 1, Len(c)) \in Seq(Nat)
        /\ Len(SubSeq(c, k + 1, Len(c))) = Len(c) - k
        /\ \A i \in 1 .. Len(c) - k : SubSeq(c, k + 1, Len(c))[i] = c[k + i]
    BY <1>2, <1>4, Cut
  <2>3. Len(r) + Len(t) = Len(c) - k
    BY <1>1, <1>2, <1>3, SMT
  <2>4. ASSUME NEW i \in 1 .. Len(c) - k PROVE c[k + i] = (r \o t)[i]
    <3>1. k + i \in 1 .. Len(s) + Len(t) /\ i \in 1 .. Len(r) + Len(t)
      BY <1>1, <1>2, <1>3, SMT
    <3>2. CASE i <= Len(r)
      <4>1. k + i <= Len(s) /\ i \in 1 .. Len(s) - k
        BY <1>1, <1>3, <3>1, <3>2, SMT
      <4>2. QED
        BY <1>2, <1>3, <2>1, <3>1, <3>2, <4>1
    <3>3. CASE ~ (i <= Len(r))
      <4>1. ~ (k + i <= Len(s)) /\ (k + i) - Len(s) = i - Len(r)
        BY <1>1, <1>3, <3>1, <3>3, SMT
      <4>2. c[k + i] = t[(k + i) - Len(s)]
        BY <1>2, <3>1, <4>1
      <4>3. (r \o t)[i] = t[i - Len(r)]
        BY <2>1, <3>1, <3>3
      <4>4. QED
        BY <4>1, <4>2, <4>3
    <3>4. QED
      BY <3>2, <3>3
  <2>5. QED
    BY <2>1, <2>2, <2>3, <2>4, SeqEqual
<1>7. QED
  BY <1>5, <1>6 DEF c, r

(* The first page is replaced; the last page grows.                        *)
LEMMA FlatFirst ==
  ASSUME NEW s \in Seq(Seq(Nat)), s # <<>>, NEW x \in Seq(Nat)
  PROVE  Flat([s EXCEPT ![1] = x]) = x \o Flat(Tail(s))
<1> DEFINE u == [s EXCEPT ![1] = x]
<1>1. Len(s) \in Nat /\ Len(s) # 0 /\ DOMAIN s = 1 .. Len(s)
  BY EmptySeq, LenProperties
<1>2. u \in Seq(Seq(Nat)) /\ Len(u) = Len(s) /\ u # <<>>
  BY <1>1, SMT
<1>3. u[1] = x /\ \A i \in 1 .. Len(s) : i # 1 => u[i] = s[i]
  BY <1>1, SMT
<1>4. Tail(u) = Tail(s)
  <2>1. /\ Tail(s) \in Seq(Seq(Nat)) /\ Len(Tail(s)) = Len(s) - 1
        /\ \A i \in 1 .. Len(Tail(s)) : Tail(s)[i] = s[i + 1]
    BY HeadTailProperties
  <2> HIDE DEF u
  <2>2. /\ Tail(u) \in Seq(Seq(Nat)) /\ Len(Tail(u)) = Len(u) - 1
        /\ \A i \in 1 .. Len(Tail(u)) : Tail(u)[i] = u[i + 1]
    BY <1>2, HeadTailProperties
  <2>0. \A i \in 1 .. Len(s) - 1 : i + 1 \in 1 .. Len(s) /\ i + 1 # 1
    BY <1>1, SMT
  <2>3. \A i \in 1 .. Len(s) - 1 : u[i + 1] = s[i + 1]
    BY <1>3, <2>0
  <2>4. Len(Tail(u)) = Len(Tail(s)) /\ Len(Tail(u)) = Len(s) - 1
    BY <1>2, <2>1, <2>2
  <2>5. \A i \in 1 .. Len(Tail(u)) : Tail(u)[i] = Tail(s)[i]
    BY <2>1, <2>2, <2>3, <2>4
  <2>6. QED
    BY <2>1, <2>2, <2>4, <2>5, SeqEqual
<1> HIDE DEF u
<1>5. Flat(u) = u[1] \o Flat(Tail(u))
  BY <1>2, FlatTail
<1>6. QED
  BY <1>3, <1>4, <1>5 DEF u

LEMMA FlatLast ==
  ASSUME NEW s \in Seq(Seq(Nat)), s # <<>>, NEW x \in Seq(Nat)
  PROVE  Flat([s EXCEPT ![Len(s)] = @ \o x]) = Flat(s) \o x
<1> DEFINE n == Len(s)
           f == SubSeq(s, 1, n - 1)
           u == [s EXCEPT ![n] = s[n] \o x]
<1>1. n \in Nat /\ n # 0 /\ DOMAIN s = 1 .. n
  BY EmptySeq, LenProperties
<1> HIDE DEF n
<1>2. /\ n \in 1 .. n /\ n - 1 \in Nat /\ n - 1 + 1 = n
      /\ \A i \in 1 .. n : i # n => i \in 1 .. n - 1
      /\ \A i \in 1 .. n - 1 : i \in 1 .. n /\ i # n
  <2>1. n \in Nat /\ n # 0
    BY <1>1
  <2>2. QED
    BY <2>1, SMT
<1>3. s[n] \in Seq(Nat)
  BY <1>2, ElementOfSeq DEF n
<1>4. s[n] \o x \in Seq(Nat)
  BY <1>3, ConcatProperties
<1>5. f \in Seq(Seq(Nat)) /\ Len(f) = n - 1 /\ \A i \in 1 .. n - 1 : f[i] = s[i]
  <2>1. \A i \in 1 .. n - 1 : s[i] \in Seq(Nat)
    BY <1>2, ElementOfSeq DEF n
  <2>2. n - 1 \in Nat /\ n - 1 \in Int /\ 1 \in Int
    BY <1>2, SMT
  <2>3. /\ f \in Seq(Seq(Nat)) /\ Len(f) = IF 1 <= n - 1 THEN n - 1 - 1 + 1 ELSE 0
        /\ \A i \in 1 .. n - 1 - 1 + 1 : f[i] = s[1 + i - 1]
    BY <2>1, <2>2, SubSeqProperties, SMT
  <2> HIDE DEF f
  <2>4. QED
    BY <2>2, <2>3, SMT
<1> HIDE DEF f
<1>6. s = Append(f, s[n])
  <2>1. /\ Append(f, s[n]) \in Seq(Seq(Nat)) /\ Len(Append(f, s[n])) = n - 1 + 1
        /\ \A i \in 1 .. n - 1 : Append(f, s[n])[i] = f[i]
        /\ Append(f, s[n])[n - 1 + 1] = s[n]
    BY <1>3, <1>5, AppendProperties, SMT
  <2>2. \A i \in 1 .. n : s[i] = Append(f, s[n])[i]
    BY <1>2, <1>5, <2>1
  <2>3. Len(s) = n /\ Len(Append(f, s[n])) = n
    BY <1>2, <2>1 DEF n
  <2>4. QED
    BY <2>1, <2>2, <2>3, SeqEqual
<1>7. u = Append(f, s[n] \o x)
  <2>1. /\ Append(f, s[n] \o x) \in Seq(Seq(Nat)) /\ Len(Append(f, s[n] \o x)) = n - 1 + 1
        /\ \A i \in 1 .. n - 1 : Append(f, s[n] \o x)[i] = f[i]
        /\ Append(f, s[n] \o x)[n - 1 + 1] = s[n] \o x
    <3>1. s[n] \o x \in Seq(Nat) /\ f \in Seq(Seq(Nat)) /\ Len(f) = n - 1
      BY <1>4, <1>5
    <3>2. QED
      BY <3>1, AppendProperties, SMT
  <2>2. u \in Seq(Seq(Nat)) /\ Len(u) = n
    BY <1>1, <1>4, SMT DEF n
  <2>3. u[n] = s[n] \o x /\ \A i \in 1 .. n - 1 : u[i] = s[i]
    BY <1>1, <1>2
  <2> HIDE DEF u
  <2>4. \A i \in 1 .. n : u[i] = Append(f, s[n] \o x)[i]
    BY <1>2, <1>5, <2>1, <2>3
  <2>5. Len(Append(f, s[n] \o x)) = n
    BY <1>2, <2>1
  <2>6. QED
    BY <2>1, <2>2, <2>4, <2>5, SeqEqual
<1>8. Flat(s) = Flat(f) \o s[n] /\ Flat(f) \in Seq(Nat)
  BY <1>3, <1>5, <1>6, FlatAppend
<1>9. Flat(u) = Flat(f) \o (s[n] \o x)
  BY <1>4, <1>5, <1>7, FlatAppend
<1>10. (Flat(f) \o s[n]) \o x = Flat(f) \o (s[n] \o x)
  BY <1>3, <1>8, CatAssoc
<1>11. QED
  BY <1>8, <1>9, <1>10 DEF n

(* Who is who.                                                             *)
LEMMA Sides ==
  /\ Caller \subseteq Proc /\ Poller \subseteq Proc /\ Source \subseteq Caller
  /\ Sink \subseteq Caller /\ Splicer \subseteq Source /\ Unsplicer \subseteq Sink
  /\ Reader \subseteq Sink /\ Writer \subseteq Source
  /\ Source \cap Sink = {} /\ Caller \cap Poller = {}
  /\ Sink \subseteq FMODE_READ /\ Source \cap FMODE_READ = {}
  /\ ReadPoll \subseteq FMODE_READ /\ WritePoll \cap FMODE_READ = {}
  /\ FMODE_READ \subseteq Proc /\ None \notin Proc /\ IsFiniteSet(Proc)
  BY PipeAssumption DEF Proc, Caller, Poller, Source, Sink, FMODE_READ

-----------------------------------------------------------------------------
Napping == {"wait", "relock"}
Sending == {"lock", "merge", "loop", "wait", "relock"}
Receiving == {"lock", "next", "loop", "wait", "relock"}

(* Where everyone is, who has the mutex, and how many writers sleep.       *)
Nappers == {p \in Source : pc[p] \in Napping}
PlacesOK ==
  /\ pc \in [Proc -> Label]
  /\ \A p \in Proc : pc[p] \in Holding <=> mutex = p
  /\ waiting_writers = Cardinality(Nappers)

(* What a call has left to do.                                             *)
CallOK(p) ==
  /\ p \notin Source => from[p] = <<>>
  /\ p \notin Sink => to[p] = <<>>
  /\ p \in Source /\ pc[p] \in {"out", "closed"} => total_len[p] = 0
  /\ p \in Source /\ pc[p] \in {"lock", "merge"} => Len(from[p]) = total_len[p]
  /\ p \in Source /\ pc[p] \in Sending =>
       /\ from[p] # <<>>
       /\ p \in Writer /\ total_len[p] <= Page => Len(from[p]) = total_len[p]
  /\ p \in Sink /\ pc[p] \in Receiving => total_len[p] # 0
CallsOK ==
  /\ total_len \in [Proc -> Nat] /\ from \in [Proc -> Seq(Nat)] /\ to \in [Proc -> Seq(Nat)]
  /\ \A p \in Proc : CallOK(p)

(* The used buffers are nrbufs in a row from curbuf on, around the ring.   *)
Buffer ==
  {b \in [off : Nat, data : Seq(Nat), anon : BOOLEAN] : b.off + Len(b.data) <= Page}
Slot(k) == (curbuf + k) % buffers
RingOK ==
  /\ buffers \in Sizes /\ nrbufs \in 0 .. buffers /\ curbuf \in 0 .. buffers - 1
  /\ bufs \in [0 .. buffers - 1 -> Buffer]
  /\ \A k \in 0 .. buffers - 1 : bufs[Slot(k)].data # <<>> <=> k < nrbufs

PipeInv == PlacesOK /\ CallsOK /\ RingOK

-----------------------------------------------------------------------------
(* A step of p to label l, as far as pc, the mutex and waiting_writers go. *)
Move(p, l) ==
  /\ l \in Label /\ pc' = [pc EXCEPT ![p] = l]
  /\ l \in Holding <=> mutex' = p
  /\ mutex' = mutex \/ (mutex = p /\ mutex' = None) \/ (mutex = None /\ mutex' = p)
  /\ \/ /\ waiting_writers' = waiting_writers
        /\ p \in Source => (l \in Napping <=> pc[p] \in Napping)
     \/ /\ waiting_writers' = waiting_writers + 1
        /\ p \in Source /\ l \in Napping /\ pc[p] \notin Napping
     \/ /\ waiting_writers' = waiting_writers - 1
        /\ p \in Source /\ l \notin Napping /\ pc[p] \in Napping

LEMMA MoveFrame ==
  ASSUME PlacesOK, NEW p \in Proc, NEW l, Move(p, l)
  PROVE  pc'[p] = l /\ \A q \in Proc \ {p} : pc'[q] = pc[q]
  BY DEF PlacesOK, Move

LEMMA MoveKeepsPlaces ==
  ASSUME PlacesOK, NEW p \in Proc, NEW l, Move(p, l)
  PROVE  PlacesOK'
<1>1. pc'[p] = l /\ \A q \in Proc \ {p} : pc'[q] = pc[q]
  BY MoveFrame
<1>2. pc' \in [Proc -> Label]
  BY DEF PlacesOK, Move
<1>3. \A q \in Proc : pc'[q] \in Holding <=> mutex' = q
  <2>1. pc'[p] \in Holding <=> mutex' = p
    BY <1>1 DEF Move
  <2>2. ASSUME NEW q \in Proc \ {p} PROVE pc'[q] \in Holding <=> mutex' = q
    <3>1. pc'[q] \in Holding <=> mutex = q
      BY <1>1 DEF PlacesOK
    <3>2. q # None
      BY Sides
    <3>3. mutex' = q <=> mutex = q
      BY <3>2 DEF Move
    <3>4. QED
      BY <3>1, <3>3
  <2>3. QED
    BY <2>1, <2>2, SMT
<1>4. IsFiniteSet(Nappers)
  BY Sides, FS_Subset DEF Nappers
<1>5. waiting_writers' = Cardinality(Nappers')
  <2>0. Source \subseteq Proc
    BY Sides
  <2>1. CASE /\ waiting_writers' = waiting_writers
             /\ p \in Source => (l \in Napping <=> pc[p] \in Napping)
    <3>1. Nappers' = Nappers
      BY <1>1, <2>0, <2>1, SMT DEF Nappers
    <3>2. QED
      BY <2>1, <3>1 DEF PlacesOK
  <2>2. CASE /\ waiting_writers' = waiting_writers + 1
             /\ p \in Source /\ l \in Napping /\ pc[p] \notin Napping
    <3>1. Nappers' = Nappers \cup {p} /\ p \notin Nappers
      BY <1>1, <2>0, <2>2, SMT DEF Nappers
    <3>2. QED
      BY <1>4, <2>2, <3>1, FS_AddElement DEF PlacesOK
  <2>3. CASE /\ waiting_writers' = waiting_writers - 1
             /\ p \in Source /\ l \notin Napping /\ pc[p] \in Napping
    <3>1. Nappers' = Nappers \ {p} /\ p \in Nappers
      BY <1>1, <2>0, <2>3, SMT DEF Nappers
    <3>2. QED
      BY <1>4, <2>3, <3>1, FS_RemoveElement DEF PlacesOK
  <2>4. QED
    BY <2>1, <2>2, <2>3 DEF Move
<1>6. QED
  BY <1>2, <1>3, <1>5 DEF PlacesOK

(* The step leaves the call of p with n, f and t, as it should at l.       *)
CallMove(p, l, n, f, t) ==
  /\ n \in Nat /\ f \in Seq(Nat) /\ t \in Seq(Nat)
  /\ total_len' = [total_len EXCEPT ![p] = n]
  /\ from' = [from EXCEPT ![p] = f] /\ to' = [to EXCEPT ![p] = t]
  /\ p \notin Source => f = <<>>
  /\ p \notin Sink => t = <<>>
  /\ p \in Source /\ l \in {"out", "closed"} => n = 0
  /\ p \in Source /\ l \in {"lock", "merge"} => Len(f) = n
  /\ p \in Source /\ l \in Sending => f # <<>> /\ (p \in Writer /\ n <= Page => Len(f) = n)
  /\ p \in Sink /\ l \in Receiving => n # 0

LEMMA MoveKeepsCalls ==
  ASSUME PlacesOK, CallsOK, NEW p \in Proc, NEW l, Move(p, l),
         NEW n, NEW f, NEW t, CallMove(p, l, n, f, t)
  PROVE  CallsOK'
<1>1. pc'[p] = l /\ \A q \in Proc \ {p} : pc'[q] = pc[q]
  BY MoveFrame
<1>2. /\ total_len' \in [Proc -> Nat] /\ from' \in [Proc -> Seq(Nat)]
      /\ to' \in [Proc -> Seq(Nat)]
  BY DEF CallsOK, CallMove
<1>3. total_len'[p] = n /\ from'[p] = f /\ to'[p] = t
  BY DEF CallsOK, CallMove
<1>4. CallOK(p)'
  BY <1>1, <1>3 DEF CallOK, CallMove
<1>5. ASSUME NEW q \in Proc, q # p PROVE CallOK(q)'
  <2>1. total_len'[q] = total_len[q] /\ from'[q] = from[q] /\ to'[q] = to[q] /\ pc'[q] = pc[q]
    BY <1>1, <1>5 DEF CallsOK, CallMove
  <2>2. CallOK(q)
    BY DEF CallsOK
  <2>3. QED
    BY <2>1, <2>2 DEF CallOK
<1>6. QED
  BY <1>2, <1>4, <1>5 DEF CallsOK

(* A step that copies nothing.                                             *)
QuietMove(p, l) ==
  /\ Move(p, l)
  /\ UNCHANGED <<bufs, curbuf, nrbufs, buffers, total_len, from, to>>
  /\ p \in Source => /\ l \in {"out", "closed"} => pc[p] = "out"
                     /\ l \in {"lock", "merge"} => pc[p] = "lock"
                     /\ l \in Sending => pc[p] \in Sending
  /\ p \in Sink /\ l \in Receiving => pc[p] \in Receiving

LEMMA QuietMoveKeeps ==
  ASSUME PipeInv, NEW p \in Proc, NEW l, QuietMove(p, l)
  PROVE  PipeInv'
<1>1. PlacesOK /\ CallsOK /\ CallOK(p) /\ Move(p, l)
  BY DEF PipeInv, CallsOK, QuietMove
<1>2. PlacesOK'
  BY <1>1, MoveKeepsPlaces
<1>3. RingOK'
  BY DEF PipeInv, RingOK, Slot, QuietMove
<1>4. CallsOK'
  <2>1. /\ total_len[p] \in Nat /\ from[p] \in Seq(Nat) /\ to[p] \in Seq(Nat)
        /\ total_len' = [total_len EXCEPT ![p] = total_len[p]]
        /\ from' = [from EXCEPT ![p] = from[p]] /\ to' = [to EXCEPT ![p] = to[p]]
    BY <1>1 DEF CallsOK, QuietMove
  <2>2. CallMove(p, l, total_len[p], from[p], to[p])
    BY <1>1, <2>1 DEF CallMove, CallOK, QuietMove
  <2>3. QED
    BY <1>1, <2>2, MoveKeepsCalls
<1>5. QED
  BY <1>2, <1>3, <1>4 DEF PipeInv

-----------------------------------------------------------------------------
(* What the labels say of one another.                                     *)
LEMMA Places ==
  ASSUME PipeInv, NEW p \in Proc
  PROVE  /\ pc[p] \in Label /\ (mutex = p <=> pc[p] \in Holding)
         /\ p # None /\ waiting_writers \in Nat
<1>1. IsFiniteSet(Nappers)
  BY Sides, FS_Subset DEF Nappers
<1>2. QED
  BY <1>1, Sides, FS_CardinalityType DEF PipeInv, PlacesOK

(* Steps of a call that keep the mutex, or never had it.                   *)
LEMMA PlainMove ==
  ASSUME PipeInv, NEW p \in Caller, NEW l, pc' = [pc EXCEPT ![p] = l],
         UNCHANGED <<bufs, curbuf, nrbufs, buffers, total_len, from, to>>,
         UNCHANGED <<mutex, waiting_writers>>,
         p \in Source => pc[p] # "next", p \in Sink => pc[p] # "merge",
         \/ pc[p] \in {"merge", "next", "loop"} /\ l \in {"loop", "unlock"}
         \/ pc[p] = "wait" /\ l = "relock"
  PROVE  \E m : QuietMove(p, m)
<1>1. p \in Proc
  BY Sides
<1>2. /\ l \in Label
      /\ l \in Holding <=> pc[p] \in Holding
      /\ l \in Napping <=> pc[p] \in Napping
  BY DEF Label, Holding, Napping
<1>3. /\ l \notin {"out", "closed", "lock", "merge"}
      /\ p \in Sink => (l \in Receiving => pc[p] \in Receiving)
      /\ p \in Source => (l \in Sending => pc[p] \in Sending)
  BY DEF Sending, Receiving
<1>4. Move(p, l)
  BY <1>1, <1>2, Places DEF Move
<1>5. QED
  BY <1>3, <1>4 DEF QuietMove

LEMMA LockMoves ==
  ASSUME PipeInv, NEW p \in Caller, Lock(p)
  PROVE  \E l : QuietMove(p, l)
<1>1. p \in Proc
  BY Sides
<1>2. PICK l \in {"merge", "next", "loop"} :
        /\ pc' = [pc EXCEPT ![p] = l]
        /\ l = "merge" => p \in Writer /\ pc[p] = "lock"
        /\ l = "next" => p \in Unsplicer
  BY DEF Lock, Goto
<1>3. /\ pc[p] \in {"lock", "relock"} /\ mutex = None /\ mutex' = p
      /\ UNCHANGED <<bufs, curbuf, nrbufs, buffers, total_len, from, to>>
  BY DEF Lock, ring, call
<1>4. l \in Label /\ l \in Holding /\ l \notin Napping /\ l \notin {"out", "closed", "lock"}
  BY DEF Label, Holding, Napping
<1>5. /\ pc[p] \in Sending /\ pc[p] \in Receiving
      /\ pc[p] \in Napping <=> pc[p] = "relock"
  BY <1>3 DEF Sending, Receiving, Napping
<1>6. waiting_writers' = IF pc[p] = "relock" /\ p \in Source
                         THEN waiting_writers - 1 ELSE waiting_writers
  BY DEF Lock
<1>7. Move(p, l)
  BY <1>1, <1>2, <1>3, <1>4, <1>5, <1>6 DEF Move
<1>8. QED
  BY <1>2, <1>3, <1>4, <1>5, <1>7 DEF QuietMove

LEMMA ResumeMoves ==
  ASSUME PipeInv, NEW p \in Caller, Resume(p)
  PROVE  \E l : QuietMove(p, l)
<1>1. /\ pc[p] = "wait" /\ pc' = [pc EXCEPT ![p] = "relock"]
      /\ UNCHANGED <<bufs, curbuf, nrbufs, buffers, total_len, from, to>>
      /\ UNCHANGED <<mutex, waiting_writers>>
  BY DEF Resume, Goto, ring, call
<1>2. QED
  BY <1>1, PlainMove

LEMMA UnlockFirstMoves ==
  ASSUME PipeInv, NEW p \in Caller, UnlockFirst(p)
  PROVE  \E l : QuietMove(p, l)
<1>1. p \in Proc
  BY Sides
<1>2. /\ pc[p] = "unlock" /\ pc' = [pc EXCEPT ![p] = "wake"] /\ mutex' = None
      /\ UNCHANGED <<bufs, curbuf, nrbufs, buffers, total_len, from, to, waiting_writers>>
  BY DEF UnlockFirst, Goto, ring, call
<1>3. /\ "wake" \in Label /\ "wake" \notin Holding /\ "wake" \notin Napping
      /\ "wake" \notin Sending /\ "wake" \notin Receiving
      /\ "unlock" \in Holding /\ "unlock" \notin Napping
  BY DEF Label, Holding, Napping, Sending, Receiving
<1>4. Move(p, "wake")
  BY <1>1, <1>2, <1>3, Places DEF Move
<1>5. QED
  BY <1>2, <1>3, <1>4 DEF QuietMove

LEMMA BreakMoves ==
  ASSUME PipeInv, NEW p \in Caller, Break(p) \/ LeaveUntold(p),
         pc[p] = "loop" \/ (p \in Writer /\ pc[p] = "merge")
  PROVE  \E l : QuietMove(p, l)
<1>1. /\ pc' = [pc EXCEPT ![p] = "unlock"]
      /\ UNCHANGED <<bufs, curbuf, nrbufs, buffers, total_len, from, to>>
      /\ UNCHANGED <<mutex, waiting_writers>>
  BY DEF Break, LeaveUntold, Goto, ring, call
<1>2. p \in Sink => pc[p] # "merge"
  BY Sides
<1>3. QED
  BY <1>1, <1>2, PlainMove

LEMMA UnspliceNextMoves ==
  ASSUME PipeInv, NEW p \in Unsplicer, UnspliceNext(p)
  PROVE  \E l : QuietMove(p, l)
<1>1. PICK l \in {"unlock", "loop"} : pc' = [pc EXCEPT ![p] = l]
  BY DEF UnspliceNext, Goto
<1>2. /\ pc[p] = "next"
      /\ UNCHANGED <<bufs, curbuf, nrbufs, buffers, total_len, from, to>>
      /\ UNCHANGED <<mutex, waiting_writers>>
  BY DEF UnspliceNext, ring, call
<1>3. p \in Caller /\ p \notin Source
  BY Sides
<1>4. QED
  BY <1>1, <1>2, <1>3, PlainMove

LEMMA NoMergeMoves ==
  ASSUME PipeInv, NEW p \in Writer, NoMerge(p)
  PROVE  \E l : QuietMove(p, l)
<1>1. /\ pc[p] = "merge" /\ pc' = [pc EXCEPT ![p] = "loop"]
      /\ UNCHANGED <<bufs, curbuf, nrbufs, buffers, total_len, from, to>>
      /\ UNCHANGED <<mutex, waiting_writers>>
  BY DEF NoMerge, Goto, ring, call
<1>2. p \in Caller /\ p \notin Sink
  BY Sides
<1>3. QED
  BY <1>1, <1>2, PlainMove

LEMMA WriteFaultMoves ==
  ASSUME PipeInv, NEW p \in Writer, WriteFault(p)
  PROVE  \E l : QuietMove(p, l)
<1>1. /\ pc[p] = "loop" /\ pc' = [pc EXCEPT ![p] = "unlock"]
      /\ UNCHANGED <<bufs, curbuf, nrbufs, buffers, total_len, from, to>>
      /\ UNCHANGED <<mutex, waiting_writers>>
  BY DEF WriteFault, Goto
<1>2. p \in Caller
  BY Sides
<1>3. QED
  BY <1>1, <1>2, PlainMove

(* Those who fall asleep give up the mutex; writers are counted.           *)
LEMMA SleepMoves ==
  ASSUME PipeInv, NEW p \in Caller, pc[p] = "loop",
         \/ ReadWait(p) /\ p \notin Source
         \/ UnspliceWait(p) /\ p \notin Source
         \/ WriteWait(p) /\ p \in Source
         \/ SpliceWait(p) /\ p \in Source
  PROVE  \E l : QuietMove(p, l)
<1>1. p \in Proc
  BY Sides
<1>2. /\ pc' = [pc EXCEPT ![p] = "wait"] /\ mutex' = None
      /\ UNCHANGED <<bufs, curbuf, nrbufs, buffers, total_len, from, to>>
  BY DEF ReadWait, UnspliceWait, WriteWait, SpliceWait, Sleep, Goto, ring, call
<1>3. \/ waiting_writers' = waiting_writers /\ p \notin Source
      \/ waiting_writers' = waiting_writers + 1 /\ p \in Source
  BY DEF ReadWait, UnspliceWait, WriteWait, SpliceWait
<1>4. /\ "wait" \in Label /\ "wait" \notin Holding /\ "wait" \in Napping
      /\ "loop" \in Sending /\ "loop" \in Receiving
      /\ "loop" \in Holding /\ "loop" \notin Napping
  BY DEF Label, Holding, Napping, Sending, Receiving
<1>5. Move(p, "wait")
  BY <1>1, <1>2, <1>3, <1>4, Places DEF Move
<1>6. QED
  BY <1>2, <1>4, <1>5 DEF QuietMove

LEMMA PollMoves ==
  ASSUME PipeInv, NEW p \in Poller, Poll(p) \/ PollFound(p) \/ PollWait(p)
  PROVE  \E l : QuietMove(p, l)
<1>1. p \in Proc /\ p \notin Source /\ p \notin Sink
  BY Sides
<1>2. PICK l \in {"poll", "out", "poll_wait"} : pc' = [pc EXCEPT ![p] = l]
  BY DEF Poll, PollFound, PollWait, Goto
<1>3. /\ pc[p] \in {"out", "poll", "poll_wait"}
      /\ UNCHANGED <<bufs, curbuf, nrbufs, buffers, total_len, from, to>>
      /\ UNCHANGED <<mutex, waiting_writers>>
  BY DEF Poll, PollFound, PollWait, ring, call
<1>4. l \in Label /\ l \notin Holding /\ pc[p] \notin Holding
  BY <1>3 DEF Label, Holding
<1>5. Move(p, l)
  BY <1>1, <1>2, <1>3, <1>4, Places DEF Move
<1>6. QED
  BY <1>1, <1>3, <1>5 DEF QuietMove

LEMMA CloseMoves ==
  ASSUME PipeInv, NEW p \in Proc, Close(p)
  PROVE  \E l : QuietMove(p, l)
<1>1. /\ pc[p] = "out" /\ mutex = None /\ pc' = [pc EXCEPT ![p] = "closed"]
      /\ UNCHANGED <<bufs, curbuf, nrbufs, buffers, total_len, from, to>>
      /\ UNCHANGED <<mutex, waiting_writers>>
  BY DEF Close, Goto, ring, call
<1>2. /\ "closed" \in Label /\ "closed" \notin Holding /\ "closed" \notin Napping
      /\ "closed" \notin Sending /\ "closed" \notin Receiving /\ "out" \notin Napping
  BY DEF Label, Holding, Napping, Sending, Receiving
<1>3. Move(p, "closed")
  BY <1>1, <1>2, Places DEF Move
<1>4. QED
  BY <1>1, <1>2, <1>3 DEF QuietMove

-----------------------------------------------------------------------------
Count == [p \in Proc |-> IF p \in Source THEN total_len[p] ELSE 0]

(* Calls that begin and end; the ring stays as it is.                      *)
SameRing == UNCHANGED <<bufs, curbuf, nrbufs, buffers>>
LEMMA SameRingBytes ==
  ASSUME SameRing
  PROVE  Bytes' = Bytes /\ (RingOK => RingOK')
<1>1. Pages' = Pages
  BY DEF SameRing, Pages
<1>2. QED
  BY <1>1 DEF Bytes, SameRing, RingOK, Slot

LEMMA MoveKeeps ==
  ASSUME PipeInv, NEW p \in Proc, NEW l, Move(p, l),
         NEW n, NEW f, NEW t, CallMove(p, l, n, f, t), RingOK'
  PROVE  PipeInv'
  BY MoveKeepsPlaces, MoveKeepsCalls DEF PipeInv

(* What the stream sees of the sizes.                                      *)
LEMMA CountMove ==
  ASSUME CallsOK, NEW p \in Proc, NEW n, total_len' = [total_len EXCEPT ![p] = n]
  PROVE  /\ p \in Source => Count' = [Count EXCEPT ![p] = n]
         /\ p \notin Source => Count' = Count
<1>1. total_len'[p] = n /\ \A q \in Proc : q # p => total_len'[q] = total_len[q]
  BY DEF CallsOK
<1>2. CASE p \in Source
  <2>1. \A q \in Proc : Count'[q] = [Count EXCEPT ![p] = n][q]
    BY <1>1, <1>2 DEF Count
  <2>2. DOMAIN Count' = Proc /\ DOMAIN [Count EXCEPT ![p] = n] = Proc
    BY DEF Count
  <2>3. QED
    BY <1>2, <2>1, <2>2 DEF Count
<1>3. CASE p \notin Source
  BY <1>1, <1>3 DEF Count
<1>4. QED
  BY <1>2, <1>3

LEMMA ReadMaps ==
  ASSUME PipeInv, NEW p \in Sink, Read(p)
  PROVE  PipeInv' /\ UNCHANGED <<Bytes, Count, from, to>>
<1>1. p \in Proc /\ p \notin Source
  BY Sides
<1>2. PICK n \in Want : total_len' = [total_len EXCEPT ![p] = n]
  BY DEF Read
<1>3. /\ pc[p] = "out" /\ pc' = [pc EXCEPT ![p] = "lock"] /\ SameRing
      /\ UNCHANGED <<from, to, mutex, waiting_writers>>
  BY DEF Read, Goto, SameRing, ring
<1>4. n \in Nat /\ n # 0
  BY PipeAssumption
<1>5. /\ "lock" \in Label /\ "lock" \notin Holding /\ "out" \notin Holding
  BY DEF Label, Holding
<1>6. Move(p, "lock")
  BY <1>1, <1>3, <1>5, Places DEF Move
<1>7. CallMove(p, "lock", n, from[p], to[p])
  <2>1. /\ from[p] \in Seq(Nat) /\ to[p] \in Seq(Nat) /\ from[p] = <<>>
        /\ from' = [from EXCEPT ![p] = from[p]] /\ to' = [to EXCEPT ![p] = to[p]]
    BY <1>1, <1>3 DEF PipeInv, CallsOK, CallOK
  <2>2. QED
    BY <1>1, <1>2, <1>4, <2>1 DEF CallMove
<1>8. PipeInv'
  BY <1>1, <1>3, <1>6, <1>7, SameRingBytes, MoveKeeps DEF PipeInv
<1>9. Count' = Count
  BY <1>1, <1>2, CountMove DEF PipeInv
<1>10. QED
  BY <1>3, <1>8, <1>9, SameRingBytes

LEMMA WriteMaps ==
  ASSUME PipeInv, NEW p \in Source, Write(p)
  PROVE  PipeInv' /\ Stream!Begin(p)
<1>1. p \in Proc /\ p \notin Sink
  BY Sides
<1>2. PICK s \in Data[p] : /\ from' = [from EXCEPT ![p] = s]
                           /\ total_len' = [total_len EXCEPT ![p] = Len(s)]
  BY DEF Write
<1>3. /\ pc[p] = "out" /\ pc' = [pc EXCEPT ![p] = "lock"] /\ SameRing
      /\ UNCHANGED <<to, mutex, waiting_writers>>
  BY DEF Write, Goto, SameRing, ring
<1>4. s \in Seq(Nat) /\ s # <<>> /\ Len(s) \in Nat /\ p \in DOMAIN Data
  BY PipeAssumption, LenProperties
<1>5. /\ "lock" \in Label /\ "lock" \notin Holding /\ "out" \notin Holding
      /\ "lock" \notin Napping /\ "out" \notin Napping /\ "lock" \notin {"out", "closed"}
  BY DEF Label, Holding, Napping
<1>6. Move(p, "lock")
  BY <1>1, <1>3, <1>5, Places DEF Move
<1>7. CallMove(p, "lock", Len(s), s, to[p])
  <2>1. to[p] \in Seq(Nat) /\ to[p] = <<>> /\ to' = [to EXCEPT ![p] = to[p]]
    BY <1>1, <1>3 DEF PipeInv, CallsOK, CallOK
  <2>2. QED
    BY <1>1, <1>2, <1>4, <1>5, <2>1 DEF CallMove
<1>8. PipeInv'
  BY <1>1, <1>3, <1>6, <1>7, SameRingBytes, MoveKeeps DEF PipeInv
<1>9. Count' = [Count EXCEPT ![p] = Len(s)] /\ Bytes' = Bytes
  BY <1>1, <1>2, <1>3, CountMove, SameRingBytes DEF PipeInv
<1>10. Count[p] = 0
  BY <1>1, <1>3 DEF PipeInv, CallsOK, CallOK, Count
<1>11. Stream!Begin(p)
  BY <1>2, <1>3, <1>4, <1>9, <1>10 DEF Stream!Begin, Count
<1>12. QED
  BY <1>8, <1>11

(* The end of a call, from where it holds the mutex or no longer does.     *)
LEMMA ReturnMaps ==
  ASSUME PipeInv, NEW p \in Caller, Unlock(p) \/ WakeUp(p)
  PROVE  PipeInv' /\ (Stream!End(p) \/ Stream!Return(p))
<1>1. p \in Proc /\ (p \in Source \/ p \in Sink) /\ (p \in Source => p \notin Sink)
  BY Sides DEF Caller
<1>2. /\ pc' = [pc EXCEPT ![p] = "out"] /\ SameRing /\ waiting_writers' = waiting_writers
      /\ total_len' = [total_len EXCEPT ![p] = 0] /\ from' = [from EXCEPT ![p] = <<>>]
      /\ to' = [to EXCEPT ![p] = <<>>]
  BY DEF Unlock, WakeUp, Return, Goto, SameRing, ring
<1>3. \/ pc[p] = "unlock" /\ mutex' = None
      \/ pc[p] = "wake" /\ mutex' = mutex
  BY DEF Unlock, WakeUp
<1>4. /\ "out" \in Label /\ "out" \notin Holding /\ "out" \notin Napping
      /\ "out" \notin Sending /\ "out" \notin Receiving
      /\ "unlock" \in Holding /\ "wake" \notin Holding
      /\ "unlock" \notin Napping /\ "wake" \notin Napping
  BY DEF Label, Holding, Napping, Sending, Receiving
<1>5. Move(p, "out")
  BY <1>1, <1>2, <1>3, <1>4, Places DEF Move
<1>6. <<>> \in Seq(Nat) /\ 0 \in Nat
  BY EmptySeq
<1>7. CallMove(p, "out", 0, <<>>, <<>>)
  BY <1>2, <1>4, <1>6 DEF CallMove
<1>8. PipeInv'
  BY <1>1, <1>2, <1>5, <1>7, SameRingBytes, MoveKeeps DEF PipeInv
<1>9. Bytes' = Bytes
  BY <1>2, SameRingBytes
<1>10. CASE p \in Source
  <2>1. to' = to /\ Count' = [Count EXCEPT ![p] = 0]
    BY <1>1, <1>2, <1>10, CountMove DEF PipeInv, CallsOK, CallOK
  <2>2. Stream!End(p)
    BY <1>2, <1>9, <2>1 DEF Stream!End, Count
  <2>3. QED
    BY <1>8, <2>2
<1>11. CASE p \in Sink
  <2>1. from' = from /\ Count' = Count
    BY <1>1, <1>2, <1>11, CountMove DEF PipeInv, CallsOK, CallOK
  <2>2. Stream!Return(p)
    BY <1>2, <1>9, <2>1 DEF Stream!Return, Count
  <2>3. QED
    BY <1>8, <2>2
<1>12. QED
  BY <1>1, <1>10, <1>11

-----------------------------------------------------------------------------
(* The positions of the ring, once around.                                 *)
LEMMA SlotIs ==
  ASSUME NEW c, NEW b \in Nat \ {0}, c \in 0 .. b - 1, NEW k \in 0 .. b
  PROVE  /\ (c + k) % b = IF c + k < b THEN c + k ELSE c + k - b
         /\ (c + k) % b \in 0 .. b - 1
  BY SMT

LEMMA Slots ==
  ASSUME RingOK
  PROVE  /\ buffers \in Nat \ {0} /\ nrbufs \in Nat /\ curbuf \in Nat
         /\ Slot(0) = curbuf
         /\ \A k \in 0 .. buffers - 1 : Slot(k) \in 0 .. buffers - 1
         /\ \A j, k \in 0 .. buffers - 1 : Slot(j) = Slot(k) => j = k
         /\ \A i \in 0 .. buffers - 1 : \E k \in 0 .. buffers - 1 : i = Slot(k)
<1>1. /\ buffers \in Nat \ {0} /\ nrbufs \in 0 .. buffers /\ curbuf \in 0 .. buffers - 1
  BY PipeAssumption DEF RingOK
<1>2. \A k \in 0 .. buffers : /\ Slot(k) = IF curbuf + k < buffers THEN curbuf + k
                                           ELSE curbuf + k - buffers
                              /\ Slot(k) \in 0 .. buffers - 1
  BY <1>1, SlotIs, SMT DEF Slot
<1>3. Slot(0) = curbuf
  BY <1>1, <1>2, SMT
<1>4. \A j, k \in 0 .. buffers - 1 : Slot(j) = Slot(k) => j = k
  BY <1>1, <1>2, SMT
<1>5. ASSUME NEW i \in 0 .. buffers - 1
      PROVE  \E k \in 0 .. buffers - 1 : i = Slot(k)
  <2>1. CASE i >= curbuf
    <3>1. i - curbuf \in 0 .. buffers - 1 /\ Slot(i - curbuf) = i
      BY <1>1, <1>2, <2>1, SMT
    <3>2. QED
      BY <3>1
  <2>2. CASE i < curbuf
    <3>1. i - curbuf + buffers \in 0 .. buffers - 1 /\ Slot(i - curbuf + buffers) = i
      BY <1>1, <1>2, <2>2, SMT
    <3>2. QED
      BY <3>1
  <2>3. QED
    BY <1>1, <2>1, <2>2, SMT
<1>6. QED
  BY <1>1, <1>2, <1>3, <1>4, <1>5, SMT

(* The used buffers, first to last.                                        *)
LEMMA PagesAre ==
  ASSUME RingOK
  PROVE  /\ Pages \in Seq(Seq(Nat)) /\ Len(Pages) = nrbufs
         /\ \A k \in 1 .. nrbufs : /\ k - 1 \in 0 .. buffers - 1
                                   /\ Pages[k] = bufs[Slot(k - 1)].data
<1>1. /\ buffers \in Nat \ {0} /\ nrbufs \in 0 .. buffers /\ curbuf \in Nat
  BY Slots DEF RingOK
<1>2. \A k \in 1 .. nrbufs : k - 1 \in 0 .. buffers - 1 /\ curbuf + k - 1 = curbuf + (k - 1)
  BY <1>1, SMT
<1>3. \A k \in 1 .. nrbufs : Pages[k] = bufs[Slot(k - 1)].data
  BY <1>2 DEF Pages, Slot
<1>4. \A k \in 1 .. nrbufs : bufs[(curbuf + k - 1) % buffers].data \in Seq(Nat)
  <2>1. ASSUME NEW k \in 1 .. nrbufs PROVE bufs[Slot(k - 1)].data \in Seq(Nat)
    <3>1. Slot(k - 1) \in 0 .. buffers - 1
      BY <1>2, Slots
    <3>2. bufs[Slot(k - 1)] \in Buffer
      BY <3>1 DEF RingOK
    <3>3. QED
      BY <3>2, SMT DEF Buffer
  <2>2. QED
    BY <1>2, <2>1 DEF Slot
<1>5. Pages \in Seq(Seq(Nat)) /\ Len(Pages) = nrbufs
  <2>1. nrbufs \in Nat
    BY <1>1, SMT
  <2>2. QED
    BY <1>4, <2>1, SMT DEF Pages
<1>6. QED
  BY <1>2, <1>3, <1>5

(* So they are after a step.                                               *)
Lined ==
  /\ Pages \in Seq(Seq(Nat)) /\ Len(Pages) = nrbufs
  /\ \A k \in 1 .. nrbufs : /\ k - 1 \in 0 .. buffers - 1
                            /\ Pages[k] = bufs[Slot(k - 1)].data
LEMMA PagesLined == RingOK => Lined
  BY PagesAre DEF Lined
LEMMA PagesWillBe == RingOK' => Lined'
  BY PagesLined, PTL

(* TypeOK says the same of the ring.                                       *)
LEMMA TypeFollows ==
  ASSUME PipeInv
  PROVE  TypeOK
<1>1. RingOK
  BY DEF PipeInv
<1>2. ASSUME NEW i \in 0 .. buffers - 1
      PROVE  /\ bufs[i].off + Len(bufs[i].data) <= Page
             /\ bufs[i].data # <<>> <=> \E k \in 0 .. nrbufs - 1 : i = (curbuf + k) % buffers
  <2>1. bufs[i].off + Len(bufs[i].data) <= Page
    BY <1>1 DEF RingOK, Buffer
  <2>2. PICK k \in 0 .. buffers - 1 : i = Slot(k)
    BY <1>1, Slots
  <2>3. bufs[i].data # <<>> <=> k < nrbufs
    BY <1>1, <2>2 DEF RingOK
  <2>4. buffers \in Nat \ {0} /\ nrbufs \in 0 .. buffers
    BY <1>1, Slots DEF RingOK
  <2>5. k < nrbufs => k \in 0 .. nrbufs - 1
    BY <2>4, SMT
  <2>6. ASSUME NEW j \in 0 .. nrbufs - 1, i = Slot(j) PROVE k < nrbufs
    <3>1. j \in 0 .. buffers - 1 /\ j < nrbufs
      BY <2>4, SMT
    <3>2. j = k
      BY <1>1, <2>2, <2>6, <3>1, Slots
    <3>3. QED
      BY <3>1, <3>2
  <2>7. QED
    BY <2>1, <2>2, <2>3, <2>5, <2>6 DEF Slot
<1>3. DOMAIN bufs = 0 .. buffers - 1
  BY <1>1 DEF RingOK
<1>4. QED
  BY <1>1, <1>2, <1>3 DEF TypeOK, RingOK, PipeInv, PlacesOK, Nappers, Napping

-----------------------------------------------------------------------------
(* A used buffer gets other contents.                                      *)
LEMMA BufferChanges ==
  ASSUME RingOK, NEW k \in 0 .. nrbufs - 1, NEW b \in Buffer, b.data # <<>>,
         bufs' = [bufs EXCEPT ![Slot(k)] = b], UNCHANGED <<curbuf, nrbufs, buffers>>
  PROVE  RingOK' /\ Pages' = [Pages EXCEPT ![k + 1] = b.data]
<1>1. /\ buffers \in Nat \ {0} /\ nrbufs \in 0 .. buffers
      /\ bufs \in [0 .. buffers - 1 -> Buffer]
  BY Slots DEF RingOK
<1>2. k \in 0 .. buffers - 1 /\ k < nrbufs /\ k + 1 \in 1 .. nrbufs
  BY <1>1, SMT
<1>3. Slot(k) \in 0 .. buffers - 1
  BY <1>2, Slots
<1>4. bufs' \in [0 .. buffers - 1 -> Buffer] /\ bufs'[Slot(k)] = b
  BY <1>1, <1>3
<1>5. \A j \in 0 .. buffers - 1 :
        Slot(j) \in 0 .. buffers - 1 /\ (j # k => bufs'[Slot(j)] = bufs[Slot(j)])
  BY <1>1, <1>2, Slots
<1>6. \A j : Slot(j)' = Slot(j)
  BY DEF Slot
<1>7. \A j \in 0 .. buffers - 1 : bufs'[Slot(j)].data # <<>> <=> j < nrbufs
  BY <1>2, <1>4, <1>5 DEF RingOK
<1>8. RingOK'
  BY <1>4, <1>6, <1>7 DEF RingOK
<1>9. ASSUME NEW i \in 1 .. nrbufs PROVE Pages'[i] = [Pages EXCEPT ![k + 1] = b.data][i]
  <2>1. i - 1 \in 0 .. buffers - 1 /\ Pages'[i] = bufs'[Slot(i - 1)].data
    BY <1>6, <1>8, PagesWillBe DEF Lined
  <2>2. DOMAIN Pages = 1 .. nrbufs /\ Pages[i] = bufs[Slot(i - 1)].data
    BY PagesAre DEF Pages
  <2>3. i = k + 1 <=> i - 1 = k
    BY <1>1, <1>2, SMT
  <2>4. CASE i = k + 1
    BY <1>4, <2>1, <2>2, <2>3, <2>4
  <2>5. CASE i # k + 1
    BY <1>5, <2>1, <2>2, <2>3, <2>5
  <2>6. QED
    BY <2>4, <2>5
<1>10. Pages' = [Pages EXCEPT ![k + 1] = b.data]
  BY <1>9 DEF Pages
<1>11. QED
  BY <1>8, <1>10

(* The first buffer is released.                                           *)
LEMMA BufferReleased ==
  ASSUME RingOK, nrbufs > 0, bufs' = [bufs EXCEPT ![curbuf] = Free],
         curbuf' = (curbuf + 1) % buffers, nrbufs' = nrbufs - 1, buffers' = buffers
  PROVE  RingOK' /\ Pages' = Tail(Pages)
<1>1. /\ buffers \in Nat \ {0} /\ nrbufs \in 1 .. buffers /\ curbuf \in 0 .. buffers - 1
      /\ bufs \in [0 .. buffers - 1 -> Buffer] /\ Slot(0) = curbuf
  <2>1. /\ buffers \in Nat \ {0} /\ nrbufs \in 0 .. buffers /\ curbuf \in 0 .. buffers - 1
        /\ bufs \in [0 .. buffers - 1 -> Buffer] /\ Slot(0) = curbuf
    BY Slots DEF RingOK
  <2>2. nrbufs \in 1 .. buffers
    BY <2>1, SMT
  <2>3. QED
    BY <2>1, <2>2
<1>2. Free \in Buffer /\ Free.data = <<>>
  BY PipeAssumption, SMT DEF Free, Buffer
<1>3. bufs' \in [0 .. buffers - 1 -> Buffer] /\ bufs'[curbuf] = Free
  BY <1>1, <1>2
<1>4. curbuf' \in 0 .. buffers - 1 /\ nrbufs' \in 0 .. buffers /\ 0 \in 0 .. buffers - 1
  BY <1>1, SlotIs, SMT
<1>5. ASSUME NEW k \in 0 .. buffers - 1, k + 1 < buffers
      PROVE  k + 1 \in 0 .. buffers - 1 /\ Slot(k)' = Slot(k + 1)
  <2>1. curbuf' = IF curbuf + 1 < buffers THEN curbuf + 1 ELSE 0
    BY <1>1, SMT
  <2>2. Slot(k)' = IF curbuf' + k < buffers THEN curbuf' + k ELSE curbuf' + k - buffers
    BY <1>1, <1>4, SlotIs, SMT DEF Slot
  <2>3. k + 1 \in 0 .. buffers - 1 /\ k + 1 \in 0 .. buffers
    BY <1>1, <1>5, SMT
  <2>4. Slot(k + 1) = IF curbuf + (k + 1) < buffers THEN curbuf + (k + 1)
                      ELSE curbuf + (k + 1) - buffers
    BY <1>1, <2>3, SlotIs DEF Slot
  <2>5. QED
    BY <1>1, <1>5, <2>1, <2>2, <2>3, <2>4, SMT
<1>6. Slot(buffers - 1)' = curbuf
  <2>1. curbuf' = IF curbuf + 1 < buffers THEN curbuf + 1 ELSE 0
    BY <1>1, SMT
  <2> DEFINE k == buffers - 1
  <2>2. k \in 0 .. buffers
    BY <1>1, SMT
  <2> HIDE DEF k
  <2>3. (curbuf' + k) % buffers = IF curbuf' + k < buffers THEN curbuf' + k
                                  ELSE curbuf' + k - buffers
    BY <1>1, <1>4, <2>2, SlotIs
  <2>4. (curbuf' + k) % buffers = curbuf
    BY <1>1, <2>1, <2>3, SMT DEF k
  <2>5. QED
    BY <2>4 DEF Slot, k
<1>7. \A j \in 0 .. buffers - 1 : j # 0 => bufs'[Slot(j)] = bufs[Slot(j)]
  BY <1>1, <1>4, Slots
<1>8. ASSUME NEW k \in 0 .. buffers - 1
      PROVE  bufs'[Slot(k)'].data # <<>> <=> k < nrbufs'
  <2>1. CASE k + 1 < buffers
    <3>1. k + 1 \in 0 .. buffers - 1 /\ Slot(k)' = Slot(k + 1)
      BY <1>5, <2>1
    <3>2. k + 1 # 0 /\ (k < nrbufs' <=> k + 1 < nrbufs)
      BY <1>1, SMT
    <3>3. QED
      BY <1>7, <3>1, <3>2 DEF RingOK
  <2>2. CASE ~ (k + 1 < buffers)
    <3>1. k = buffers - 1 /\ ~ (k < nrbufs')
      BY <1>1, <2>2, SMT
    <3>2. QED
      BY <1>2, <1>3, <1>6, <3>1
  <2>3. QED
    BY <2>1, <2>2
<1>9. RingOK'
  BY <1>3, <1>4, <1>8 DEF RingOK
<1>10. /\ Pages' \in Seq(Seq(Nat)) /\ Len(Pages') = nrbufs'
       /\ \A k \in 1 .. nrbufs' : Pages'[k] = bufs'[Slot(k - 1)'].data
  BY <1>9, PagesWillBe DEF Lined
<1>11. /\ Pages \in Seq(Seq(Nat)) /\ Len(Pages) = nrbufs
       /\ \A k \in 1 .. nrbufs : Pages[k] = bufs[Slot(k - 1)].data
  BY PagesAre
<1>12. Pages # <<>>
  BY <1>1, <1>11, EmptySeq, SMT
<1>13. /\ Tail(Pages) \in Seq(Seq(Nat)) /\ Len(Tail(Pages)) = Len(Pages) - 1
       /\ \A i \in 1 .. Len(Tail(Pages)) : Tail(Pages)[i] = Pages[i + 1]
  BY <1>11, <1>12, HeadTailProperties
<1>14. Len(Pages') = Len(Tail(Pages)) /\ Len(Pages') = nrbufs'
  BY <1>10, <1>11, <1>13
<1>15. ASSUME NEW i \in 1 .. Len(Pages') PROVE Pages'[i] = Tail(Pages)[i]
  <2>1. i \in 1 .. nrbufs - 1
    BY <1>14
  <2>2. /\ i - 1 \in 0 .. buffers - 1 /\ (i - 1) + 1 = i /\ i < buffers /\ i # 0
        /\ i \in 0 .. buffers - 1 /\ i + 1 \in 1 .. nrbufs /\ (i + 1) - 1 = i
    BY <1>1, <2>1, SMT
  <2>3. Slot(i - 1)' = Slot(i)
    BY <1>5, <2>2
  <2>4. Pages'[i] = bufs[Slot(i)].data
    BY <1>7, <1>10, <1>14, <2>2, <2>3
  <2>5. Pages[i + 1] = bufs[Slot(i)].data
    BY <1>11, <2>2
  <2>6. QED
    BY <1>13, <1>14, <2>4, <2>5
<1>16. Pages' = Tail(Pages)
  BY <1>10, <1>13, <1>14, <1>15, SeqEqual
<1>17. QED
  BY <1>9, <1>16

(* A buffer is added.                                                      *)
LEMMA BufferAdded ==
  ASSUME RingOK, nrbufs < buffers, NEW b \in Buffer, b.data # <<>>,
         bufs' = [bufs EXCEPT ![(curbuf + nrbufs) % buffers] = b], nrbufs' = nrbufs + 1,
         UNCHANGED <<curbuf, buffers>>
  PROVE  RingOK' /\ Pages' = Append(Pages, b.data)
<1>1. /\ buffers \in Nat \ {0} /\ nrbufs \in 0 .. buffers - 1
      /\ bufs \in [0 .. buffers - 1 -> Buffer]
  <2>1. /\ buffers \in Nat \ {0} /\ nrbufs \in 0 .. buffers
        /\ bufs \in [0 .. buffers - 1 -> Buffer]
    BY Slots DEF RingOK
  <2>2. nrbufs \in 0 .. buffers - 1
    BY <2>1, SMT
  <2>3. QED
    BY <2>1, <2>2
<1>2. Slot(nrbufs) \in 0 .. buffers - 1 /\ Slot(nrbufs) = (curbuf + nrbufs) % buffers
  BY <1>1, Slots DEF Slot
<1>3. bufs' \in [0 .. buffers - 1 -> Buffer] /\ bufs'[Slot(nrbufs)] = b
  BY <1>1, <1>2
<1>4. \A j \in 0 .. buffers - 1 :
        Slot(j) \in 0 .. buffers - 1 /\ (j # nrbufs => bufs'[Slot(j)] = bufs[Slot(j)])
  BY <1>1, <1>2, Slots
<1>5. \A j : Slot(j)' = Slot(j)
  BY DEF Slot
<1>6. /\ nrbufs' \in 0 .. buffers
      /\ \A j \in 0 .. buffers - 1 : j < nrbufs' <=> j < nrbufs \/ j = nrbufs
  BY <1>1, SMT
<1>7. \A j \in 0 .. buffers - 1 : bufs'[Slot(j)].data # <<>> <=> j < nrbufs'
  BY <1>3, <1>4, <1>6 DEF RingOK
<1>8. RingOK'
  BY <1>3, <1>5, <1>6, <1>7 DEF RingOK
<1>9. /\ Pages' \in Seq(Seq(Nat)) /\ Len(Pages') = nrbufs + 1
      /\ \A k \in 1 .. nrbufs + 1 : /\ k - 1 \in 0 .. buffers - 1
                                    /\ Pages'[k] = bufs'[Slot(k - 1)].data
  BY <1>5, <1>8, PagesWillBe DEF Lined
<1>10. /\ Pages \in Seq(Seq(Nat)) /\ Len(Pages) = nrbufs
       /\ \A k \in 1 .. nrbufs : Pages[k] = bufs[Slot(k - 1)].data
  BY PagesAre
<1>11. b.data \in Seq(Nat)
  BY SMT DEF Buffer
<1>12. /\ Append(Pages, b.data) \in Seq(Seq(Nat)) /\ Len(Append(Pages, b.data)) = nrbufs + 1
       /\ \A i \in 1 .. nrbufs : Append(Pages, b.data)[i] = Pages[i]
       /\ Append(Pages, b.data)[nrbufs + 1] = b.data
  BY <1>10, <1>11, AppendProperties, SMT
<1>13. ASSUME NEW i \in 1 .. nrbufs + 1 PROVE Pages'[i] = Append(Pages, b.data)[i]
  <2>1. CASE i = nrbufs + 1
    <3>1. i - 1 = nrbufs
      BY <1>1, <2>1, SMT
    <3>2. QED
      BY <1>3, <1>9, <1>12, <2>1, <3>1
  <2>2. CASE i # nrbufs + 1
    <3>1. i \in 1 .. nrbufs /\ i - 1 # nrbufs
      BY <1>1, <2>2, SMT
    <3>2. QED
      BY <1>4, <1>9, <1>10, <1>12, <3>1
  <2>3. QED
    BY <2>1, <2>2
<1>14. Pages' = Append(Pages, b.data)
  BY <1>9, <1>12, <1>13, SeqEqual
<1>15. QED
  BY <1>8, <1>14

(* The ring is copied to the start of another array.                       *)
LEMMA RingCopied ==
  ASSUME RingOK, NEW p, SetSize(p)
  PROVE  RingOK' /\ Pages' = Pages
<1> DEFINE end  == curbuf + nrbufs
           tail == IF end < buffers THEN 0 ELSE end % buffers
           head == nrbufs - tail
<1>1. PICK n \in Sizes :
        /\ n >= nrbufs /\ buffers' = n
        /\ bufs' = [i \in 0 .. n - 1 |-> IF i < head THEN bufs[curbuf + i]
                                         ELSE IF i < nrbufs THEN bufs[i - head] ELSE Free]
  BY DEF SetSize
<1>2. curbuf' = 0 /\ nrbufs' = nrbufs
  BY DEF SetSize
<1>3. /\ buffers \in Nat \ {0} /\ nrbufs \in 0 .. buffers /\ curbuf \in 0 .. buffers - 1
      /\ bufs \in [0 .. buffers - 1 -> Buffer] /\ n \in Nat \ {0}
  BY Slots, PipeAssumption DEF RingOK
<1>4. tail = IF curbuf + nrbufs < buffers THEN 0 ELSE curbuf + nrbufs - buffers
  BY <1>3, SlotIs
<1> HIDE DEF tail
<1>5. \A i \in 0 .. nrbufs - 1 :
        /\ i \in 0 .. buffers - 1
        /\ i < head => Slot(i) = curbuf + i
        /\ ~ (i < head) => Slot(i) = i - head
  BY <1>3, <1>4, SMT DEF Slot
<1>6. \A i \in 0 .. n - 1 : i < nrbufs => i \in 0 .. nrbufs - 1
  BY <1>3, SMT
<1>7. \A i \in 0 .. n - 1 : ~ (i < nrbufs) => ~ (i < head)
  BY <1>3, <1>4, SMT
<1> HIDE DEF head
<1>8. \A i \in 0 .. n - 1 : bufs'[i] = IF i < nrbufs THEN bufs[Slot(i)] ELSE Free
  BY <1>1, <1>5, <1>6, <1>7
<1>9. Free \in Buffer /\ Free.data = <<>>
  BY PipeAssumption, SMT DEF Free, Buffer
<1>10. bufs' \in [0 .. n - 1 -> Buffer]
  <2>1. \A i \in 0 .. n - 1 : bufs'[i] \in Buffer
    BY <1>3, <1>5, <1>6, <1>8, <1>9, Slots
  <2>2. QED
    BY <1>1, <2>1
<1>11. \A k \in 0 .. n - 1 : Slot(k)' = k
  BY <1>1, <1>2, <1>3, SMT DEF Slot
<1>12. \A k \in 0 .. n - 1 : bufs'[k].data # <<>> <=> k < nrbufs
  BY <1>5, <1>6, <1>8, <1>9 DEF RingOK
<1>13. nrbufs \in 0 .. n /\ 0 \in 0 .. n - 1
  BY <1>1, <1>3, SMT
<1>14. RingOK'
  BY <1>1, <1>2, <1>10, <1>11, <1>12, <1>13 DEF RingOK
<1>15. \A k \in 1 .. nrbufs : Pages'[k] = Pages[k]
  <2>1. ASSUME NEW k \in 1 .. nrbufs PROVE Pages'[k] = Pages[k]
    <3>1. k - 1 \in 0 .. n - 1 /\ k - 1 < nrbufs
      BY <1>1, <1>3, SMT
    <3>2. Pages'[k] = bufs'[Slot(k - 1)'].data
      BY <1>2, <1>14, PagesWillBe DEF Lined
    <3>3. Pages[k] = bufs[Slot(k - 1)].data
      BY PagesAre
    <3>4. QED
      BY <1>8, <1>11, <3>1, <3>2, <3>3
  <2>2. QED
    BY <2>1
<1>16. Pages' = Pages
  BY <1>2, <1>15 DEF Pages
<1>17. QED
  BY <1>14, <1>16

-----------------------------------------------------------------------------
(* A buffer with other contents.                                           *)
LEMMA BufferWith ==
  ASSUME NEW b \in Buffer, NEW o \in Nat, NEW d \in Seq(Nat), o + Len(d) <= Page
  PROVE  /\ [b EXCEPT !.off = o, !.data = d] \in Buffer
         /\ [b EXCEPT !.off = o, !.data = d].data = d
<1> DEFINE c == [b EXCEPT !.off = o, !.data = d]
<1>1. b \in [off : Nat, data : Seq(Nat), anon : BOOLEAN]
  BY DEF Buffer
<1>2. c \in [off : Nat, data : Seq(Nat), anon : BOOLEAN] /\ c.off = o /\ c.data = d
  BY <1>1
<1>3. QED
  BY <1>2 DEF Buffer

(* The steps that copy bytes.                                              *)
LEMMA ReadBufferMaps ==
  ASSUME PipeInv, NEW p \in Sink, ReadBuffer(p)
  PROVE  PipeInv' /\ Stream!Receive(p)
<1> DEFINE b     == bufs[curbuf]
           len   == Len(b.data)
           chars == IF len > total_len[p] THEN total_len[p] ELSE len
           left  == [b EXCEPT !.off = @ + chars, !.data = SubSeq(@, chars + 1, Len(@))]
           got   == SubSeq(b.data, 1, chars)
           rest  == SubSeq(b.data, chars + 1, len)
           more  == Flat(Tail(Pages))
<1>1. p \in Proc /\ p \notin Source /\ p \in Caller /\ PlacesOK /\ CallsOK /\ RingOK
  BY Sides DEF PipeInv
<1>2. /\ pc[p] = "loop" /\ nrbufs > 0 /\ to' = [to EXCEPT ![p] = @ \o got]
      /\ total_len' = [total_len EXCEPT ![p] = @ - chars]
      /\ bufs' = [bufs EXCEPT ![curbuf] = IF chars = len THEN Free ELSE left]
      /\ curbuf' = IF chars = len THEN (curbuf + 1) % buffers ELSE curbuf
      /\ nrbufs' = IF chars = len THEN nrbufs - 1 ELSE nrbufs
      /\ UNCHANGED <<buffers, from, mutex, waiting_writers>>
  BY DEF ReadBuffer
<1>3. PICK l \in {"unlock", "next", "loop"} :
        pc' = [pc EXCEPT ![p] = l] /\ (l # "unlock" => total_len[p] # chars)
  BY DEF ReadBuffer, Goto
<1>4. /\ b \in Buffer /\ b.data # <<>> /\ 0 \in 0 .. nrbufs - 1 /\ Slot(0) = curbuf
      /\ Pages # <<>> /\ Pages \in Seq(Seq(Nat)) /\ Pages[1] = b.data
  <2>1. nrbufs \in 0 .. buffers /\ curbuf \in 0 .. buffers - 1 /\ buffers \in Nat \ {0}
    BY <1>1, Slots DEF RingOK
  <2>2. 0 \in 0 .. nrbufs - 1 /\ 0 \in 0 .. buffers - 1 /\ 0 < nrbufs /\ 1 \in 1 .. nrbufs
    BY <1>2, <2>1, SMT
  <2>3. b \in Buffer /\ b.data # <<>> /\ Slot(0) = curbuf
    BY <1>1, <2>1, <2>2, Slots DEF RingOK
  <2>4. Pages \in Seq(Seq(Nat)) /\ Len(Pages) = nrbufs /\ Pages[1] = bufs[Slot(1 - 1)].data
    BY <1>1, <2>2, PagesAre
  <2>5. Pages # <<>>
    BY <1>2, <2>1, <2>4, EmptySeq, SMT
  <2>6. Pages[1] = b.data
    BY <2>3, <2>4, SMT
  <2>7. QED
    BY <2>2, <2>3, <2>4, <2>5, <2>6
<1>5. b.data \in Seq(Nat) /\ b.off \in Nat /\ b.anon \in BOOLEAN /\ b.off + len <= Page
  BY <1>4, SMT DEF Buffer
<1>6. len \in Nat /\ len # 0
  BY <1>4, <1>5, EmptySeq, LenProperties
<1>7. total_len[p] \in Nat /\ total_len[p] # 0
  <2>1. "loop" \in Receiving
    BY DEF Receiving
  <2>2. QED
    BY <1>1, <1>2, <2>1 DEF CallsOK, CallOK
<1> HIDE DEF len, b
<1>8. /\ chars \in 1 .. len /\ chars \in 0 .. len /\ total_len[p] - chars \in Nat
      /\ total_len[p] # chars => total_len[p] - chars # 0
  BY <1>6, <1>7, SMT
<1> HIDE DEF chars
<1>9. /\ got \in Seq(Nat) /\ Len(got) = chars
      /\ rest \in Seq(Nat) /\ Len(rest) = len - chars
  BY <1>5, <1>8, Cut DEF len
<1>10. Bytes = b.data \o more /\ more \in Seq(Nat)
  BY <1>4, FlatTail DEF Bytes
<1> HIDE DEF got, rest, more
<1>11. RingOK' /\ Bytes' = rest \o more
  <2>1. CASE chars = len
    <3>1. RingOK' /\ Pages' = Tail(Pages)
      BY <1>1, <1>2, <2>1, BufferReleased
    <3>2. rest = <<>>
      BY <1>6, <1>9, <2>1, EmptySeq, SMT
    <3>3. Bytes' = more
      BY <3>1 DEF Bytes, more
    <3>4. QED
      BY <1>10, <3>1, <3>2, <3>3, ConcatEmptySeq
  <2>2. CASE chars # len
    <3>1. left = [b EXCEPT !.off = b.off + chars, !.data = rest]
      BY DEF rest, len
    <3> HIDE DEF left
    <3>2. left \in Buffer /\ left.data = rest /\ rest # <<>>
      <4>1. PICK o \in Nat : o = b.off /\ o + len <= Page
        BY <1>5
      <4>2. o + chars \in Nat /\ (o + chars) + Len(rest) <= Page /\ Len(rest) # 0
        <5>1. Len(rest) = len - chars /\ Page \in Nat
          BY <1>9, PipeAssumption
        <5>2. QED
          BY <1>6, <1>8, <2>2, <4>1, <5>1, SMT
      <4>3. rest # <<>>
        BY <4>2, EmptySeq
      <4>4. /\ [b EXCEPT !.off = o + chars, !.data = rest] \in Buffer
            /\ [b EXCEPT !.off = o + chars, !.data = rest].data = rest
        <5>1. PICK m \in Nat : m = o + chars /\ m + Len(rest) <= Page
          BY <4>2
        <5>2. b \in Buffer /\ rest \in Seq(Nat)
          BY <1>4, <1>9
        <5>3. [b EXCEPT !.off = m, !.data = rest] \in Buffer
          BY <5>1, <5>2, BufferWith
        <5>4. [b EXCEPT !.off = m, !.data = rest].data = rest
          BY <5>2 DEF Buffer
        <5>5. QED
          BY <5>1, <5>3, <5>4
      <4>5. QED
        BY <3>1, <4>1, <4>3, <4>4
    <3>3. /\ bufs' = [bufs EXCEPT ![Slot(0)] = left]
          /\ UNCHANGED <<curbuf, nrbufs, buffers>>
      BY <1>2, <1>4, <2>2
    <3>4. RingOK' /\ Pages' = [Pages EXCEPT ![0 + 1] = rest]
      BY <1>1, <1>4, <3>2, <3>3, BufferChanges
    <3>5. Pages' = [Pages EXCEPT ![1] = rest]
      BY <3>4, SMT
    <3>6. Bytes' = rest \o more
      BY <1>4, <1>9, <3>5, FlatFirst DEF Bytes, more
    <3>7. QED
      BY <3>4, <3>6
  <2>3. QED
    BY <2>1, <2>2
<1>12. Move(p, l)
  <2>1. /\ l \in Label /\ l \in Holding /\ "loop" \in Holding
    BY DEF Label, Holding
  <2>2. QED
    BY <1>1, <1>2, <1>3, <2>1, Places DEF Move
<1>13. CallMove(p, l, total_len[p] - chars, from[p], to[p] \o got)
  <2>1. /\ to[p] \in Seq(Nat) /\ from[p] \in Seq(Nat) /\ from[p] = <<>>
        /\ from' = [from EXCEPT ![p] = from[p]]
        /\ total_len' = [total_len EXCEPT ![p] = total_len[p] - chars]
        /\ to' = [to EXCEPT ![p] = to[p] \o got]
    BY <1>1, <1>2 DEF CallsOK, CallOK
  <2>2. to[p] \o got \in Seq(Nat)
    BY <1>9, <2>1, ConcatProperties
  <2>3. "unlock" \notin Receiving
    BY DEF Receiving
  <2>4. QED
    BY <1>1, <1>3, <1>8, <2>1, <2>2, <2>3 DEF CallMove
<1>14. PipeInv'
  BY <1>1, <1>11, <1>12, <1>13, MoveKeeps
<1>15. Count' = Count
  BY <1>1, <1>2, CountMove
<1>16. Stream!Receive(p)
  <2>1. /\ SubSeq(Bytes, 1, chars) = got
        /\ SubSeq(Bytes, chars + 1, Len(Bytes)) = rest \o more
    BY <1>5, <1>8, <1>10, CutOfCat DEF got, rest, len
  <2>2. chars \in 1 .. Len(Bytes)
    <3>1. Len(Bytes) = len + Len(more) /\ Len(more) \in Nat
      BY <1>5, <1>10, ConcatProperties, LenProperties DEF len
    <3>2. QED
      BY <1>6, <1>8, <3>1, SMT
  <2>3. QED
    BY <1>2, <1>11, <1>15, <2>1, <2>2 DEF Stream!Receive, Count
<1>17. QED
  BY <1>14, <1>16


(* n bytes of the write of p go to the end of the pipe.                    *)
Sends(p, n, l) ==
  /\ l \in {"loop", "unlock"} /\ pc' = [pc EXCEPT ![p] = l]
  /\ n \in 1 .. Len(from[p]) /\ (p \in Writer /\ total_len[p] <= Page => n = total_len[p])
  /\ l = "loop" => n # Len(from[p])
  /\ from' = [from EXCEPT ![p] = Rest(from[p], n)]
  /\ Bytes' = Bytes \o SubSeq(from[p], 1, n)
  /\ UNCHANGED <<total_len, to, mutex, waiting_writers>>

LEMMA SendMaps ==
  ASSUME PipeInv, RingOK', NEW p \in Source, NEW n, NEW l, Sends(p, n, l),
         pc[p] \in {"merge", "loop"}
  PROVE  PipeInv' /\ Stream!Send(p)
<1>1. p \in Proc /\ p \notin Sink /\ CallsOK /\ CallOK(p)
  BY Sides DEF PipeInv, CallsOK
<1>2. /\ from[p] \in Seq(Nat) /\ total_len[p] \in Nat /\ Len(from[p]) \in Nat
      /\ n \in 0 .. Len(from[p])
  <2>1. from[p] \in Seq(Nat) /\ total_len[p] \in Nat
    BY <1>1 DEF CallsOK
  <2>2. Len(from[p]) \in Nat
    BY <2>1, LenProperties
  <2>3. n \in 1 .. Len(from[p])
    BY DEF Sends
  <2>4. QED
    BY <2>1, <2>2, <2>3, SMT
<1>3. Rest(from[p], n) \in Seq(Nat) /\ Len(Rest(from[p], n)) = Len(from[p]) - n
  BY <1>2, Cut DEF Rest
<1>4. pc[p] \in Sending /\ pc[p] \in Holding /\ pc[p] \notin Napping
  BY DEF Sending, Holding, Napping
<1>5. /\ l \in Label /\ l \in Holding /\ l \notin Napping
      /\ l \notin {"out", "closed", "lock", "merge"} /\ (l \in Sending => l = "loop")
  BY DEF Sends, Label, Holding, Napping, Sending
<1>6. Move(p, l)
  BY <1>1, <1>4, <1>5, Places DEF Move, Sends
<1>7. l = "loop" => Rest(from[p], n) # <<>> /\ ~ (p \in Writer /\ total_len[p] <= Page)
  <2>1. p \in Writer /\ total_len[p] <= Page => Len(from[p]) = total_len[p]
    BY <1>1, <1>4 DEF CallOK
  <2>2. l = "loop" => ~ (p \in Writer /\ total_len[p] <= Page)
    BY <2>1 DEF Sends
  <2>3. n # Len(from[p]) => Len(Rest(from[p], n)) # 0
    BY <1>2, <1>3, SMT
  <2>4. QED
    BY <2>2, <2>3, EmptySeq DEF Sends
<1>8. CallMove(p, l, total_len[p], Rest(from[p], n), to[p])
  <2>1. /\ to[p] \in Seq(Nat) /\ to[p] = <<>> /\ to' = [to EXCEPT ![p] = to[p]]
        /\ total_len' = [total_len EXCEPT ![p] = total_len[p]]
    BY <1>1 DEF CallsOK, CallOK, Sends
  <2>2. from' = [from EXCEPT ![p] = Rest(from[p], n)]
    BY DEF Sends
  <2>3. QED
    BY <1>1, <1>2, <1>3, <1>5, <1>7, <2>1, <2>2 DEF CallMove
<1>9. PipeInv'
  BY <1>1, <1>6, <1>8, MoveKeeps
<1>10. Stream!Send(p)
  <2>1. Count[p] = total_len[p] /\ Count' = Count
    BY <1>1 DEF Count, Sends
  <2>2. from' = [from EXCEPT ![p] = SubSeq(@, n + 1, Len(@))]
    BY DEF Sends, Rest
  <2>3. QED
    BY <2>1, <2>2 DEF Stream!Send, Count, Sends
<1>11. QED
  BY <1>9, <1>10

(* What is beyond full pages.                                              *)
LEMMA BeyondPages ==
  ASSUME NEW a \in Nat, NEW q \in Nat \ {0}, a % q # 0
  PROVE  a % q \in 1 .. a /\ (a <= q => a % q = a)
<1>1. a % q \in 0 .. q - 1
  BY SMT
<1>2. CASE a < q
  <2>1. a % q = a
    BY <1>2, SMT
  <2>2. QED
    BY <1>2, <2>1, SMT
<1>3. CASE a = q
  BY <1>3, SMT
<1>4. CASE a > q
  BY <1>1, <1>4, SMT
<1>5. QED
  BY <1>2, <1>3, <1>4, SMT

LEMMA MergeMaps ==
  ASSUME PipeInv, NEW p \in Writer, Merge(p)
  PROVE  PipeInv' /\ Stream!Send(p)
<1> DEFINE n == Chars(p)
           b == bufs[LastBuf]
           c == SubSeq(from[p], 1, n)
<1>1. p \in Proc /\ p \in Source /\ RingOK /\ CallsOK /\ CallOK(p)
  BY Sides DEF PipeInv, CallsOK
<1>2. /\ pc[p] = "merge" /\ nrbufs > 0 /\ n # 0 /\ b.off + Len(b.data) + n <= Page
      /\ bufs' = [bufs EXCEPT ![LastBuf].data = @ \o c]
      /\ from' = [from EXCEPT ![p] = Rest(@, n)]
      /\ pc' = [pc EXCEPT ![p] = IF Len(from[p]) = n THEN "unlock" ELSE "loop"]
      /\ UNCHANGED <<curbuf, nrbufs, buffers, total_len, to, mutex, waiting_writers>>
  BY DEF Merge, CanMerge, Goto
<1>3. /\ from[p] \in Seq(Nat) /\ total_len[p] \in Nat /\ Len(from[p]) = total_len[p]
      /\ Page \in Nat \ {0}
  BY <1>1, <1>2, PipeAssumption DEF CallsOK, CallOK
<1>4. n \in 1 .. Len(from[p]) /\ (total_len[p] <= Page => n = total_len[p])
  BY <1>2, <1>3, BeyondPages DEF Chars
<1>5. n \in 0 .. Len(from[p])
  BY <1>3, <1>4, SMT
<1> HIDE DEF n
<1>6. c \in Seq(Nat) /\ Len(c) = n
  BY <1>3, <1>5, Cut
<1> HIDE DEF c
<1>7. /\ nrbufs \in 1 .. buffers /\ buffers \in Nat \ {0}
      /\ nrbufs - 1 \in 0 .. nrbufs - 1 /\ nrbufs - 1 \in 0 .. buffers - 1
      /\ nrbufs - 1 < nrbufs /\ (nrbufs - 1) + 1 = nrbufs
  <2>1. nrbufs \in 0 .. buffers /\ buffers \in Nat \ {0}
    BY <1>1, Slots DEF RingOK
  <2>2. QED
    BY <1>2, <2>1, SMT
<1>8. LastBuf = Slot(nrbufs - 1) /\ LastBuf \in 0 .. buffers - 1
  BY <1>1, <1>7, Slots DEF LastBuf, Slot
<1>9. b \in Buffer /\ b.data # <<>>
  BY <1>1, <1>7, <1>8 DEF RingOK
<1>10. b.data \in Seq(Nat) /\ b.off \in Nat
  BY <1>9, SMT DEF Buffer
<1> DEFINE d == b.data \o c
<1>11. d \in Seq(Nat) /\ Len(d) = Len(b.data) + n /\ Len(b.data) \in Nat
  BY <1>6, <1>10, ConcatProperties, LenProperties
<1>12. d # <<>>
  <2>1. Len(d) # 0
    BY <1>3, <1>4, <1>11, SMT
  <2>2. QED
    BY <2>1, EmptySeq
<1>13. bufs' = [bufs EXCEPT ![Slot(nrbufs - 1)] = [b EXCEPT !.off = b.off, !.data = d]]
  <2>1. b = [b EXCEPT !.off = b.off]
    BY <1>9 DEF Buffer
  <2>2. [b EXCEPT !.data = d] = [b EXCEPT !.off = b.off, !.data = d]
    BY <1>9 DEF Buffer
  <2>3. bufs' = [bufs EXCEPT ![LastBuf] = [b EXCEPT !.data = d]]
    BY <1>2
  <2>4. QED
    BY <1>8, <2>2, <2>3
<1>14. /\ [b EXCEPT !.off = b.off, !.data = d] \in Buffer
       /\ [b EXCEPT !.off = b.off, !.data = d].data = d
  <2>1. PICK o \in Nat : o = b.off /\ o + Len(d) <= Page
    <3>1. b.off + Len(d) <= Page
      BY <1>2, <1>3, <1>4, <1>10, <1>11, SMT
    <3>2. QED
      BY <1>10, <3>1
  <2> HIDE DEF d, b
  <2>2. b \in Buffer /\ d \in Seq(Nat)
    BY <1>9, <1>11
  <2>3. [b EXCEPT !.off = o, !.data = d] \in Buffer
    BY <2>1, <2>2, BufferWith
  <2>4. [b EXCEPT !.off = o, !.data = d].data = d
    BY <2>2 DEF Buffer
  <2>5. QED
    BY <2>1, <2>3, <2>4
<1>15. RingOK' /\ Pages' = [Pages EXCEPT ![nrbufs] = d]
  <2> DEFINE e == [b EXCEPT !.off = b.off, !.data = d]
  <2>1. e \in Buffer /\ e.data = d /\ e.data # <<>> /\ bufs' = [bufs EXCEPT ![Slot(nrbufs - 1)] = e]
    BY <1>12, <1>13, <1>14
  <2> HIDE DEF e, d, b
  <2>2. RingOK' /\ Pages' = [Pages EXCEPT ![(nrbufs - 1) + 1] = e.data]
    BY <1>1, <1>2, <1>7, <2>1, BufferChanges
  <2>3. QED
    BY <1>7, <2>1, <2>2
<1>16. /\ Pages \in Seq(Seq(Nat)) /\ Len(Pages) = nrbufs /\ Pages # <<>>
       /\ Pages[nrbufs] = b.data
  <2>1. /\ Pages \in Seq(Seq(Nat)) /\ Len(Pages) = nrbufs
        /\ Pages[nrbufs] = bufs[Slot(nrbufs - 1)].data
    <3>1. nrbufs \in 1 .. nrbufs
      BY <1>7, SMT
    <3>2. QED
      BY <1>1, <3>1, PagesAre
  <2>2. Pages # <<>>
    BY <1>7, <2>1, EmptySeq, SMT
  <2>3. QED
    BY <1>8, <2>1, <2>2
<1>17. Bytes' = Bytes \o c
  <2>1. Pages' = [Pages EXCEPT ![Len(Pages)] = @ \o c]
    BY <1>15, <1>16
  <2>2. QED
    BY <1>6, <1>16, <2>1, FlatLast DEF Bytes
<1>18. \E l : Sends(p, n, l)
  BY <1>2, <1>4, <1>17 DEF Sends, c
<1>19. QED
  BY <1>1, <1>2, <1>15, <1>18, SendMaps

LEMMA InsertMaps ==
  ASSUME PipeInv, NEW p \in Source, NEW n \in 1 .. Copied(p), NEW o \in 0 .. Page - n,
         NEW a \in BOOLEAN, InsertPage(p, n, o, a), p \in Writer => n = Copied(p),
         NEW l \in {"loop", "unlock"}, pc' = [pc EXCEPT ![p] = l],
         l = "loop" => Len(from[p]) # n
  PROVE  PipeInv' /\ Stream!Send(p)
<1> DEFINE c == SubSeq(from[p], 1, n)
           b == [off |-> o, data |-> c, anon |-> a]
<1>1. p \in Proc /\ RingOK /\ CallsOK /\ CallOK(p)
  BY Sides DEF PipeInv, CallsOK
<1>2. /\ pc[p] = "loop" /\ nrbufs < buffers
      /\ bufs' = [bufs EXCEPT ![(curbuf + nrbufs) % buffers] = b] /\ nrbufs' = nrbufs + 1
      /\ from' = [from EXCEPT ![p] = Rest(from[p], n)]
      /\ UNCHANGED <<curbuf, buffers, total_len, to, mutex, waiting_writers>>
  BY DEF InsertPage, HasRoom
<1>3. /\ from[p] \in Seq(Nat) /\ total_len[p] \in Nat /\ from[p] # <<>>
      /\ p \in Writer /\ total_len[p] <= Page => Len(from[p]) = total_len[p]
  <2>1. "loop" \in Sending
    BY DEF Sending
  <2>2. QED
    BY <1>1, <1>2, <2>1 DEF CallsOK, CallOK
<1>4. Len(from[p]) \in Nat /\ Len(from[p]) # 0 /\ Page \in Nat \ {0}
  BY <1>3, EmptySeq, LenProperties, PipeAssumption
<1>5. /\ n \in Nat /\ n \in 1 .. Len(from[p]) /\ n \in 0 .. Len(from[p])
      /\ n <= Page /\ n # 0 /\ o \in Nat /\ o + n <= Page
  BY <1>4, SMT DEF Copied
<1>6. p \in Writer /\ total_len[p] <= Page => n = total_len[p]
  <2>1. Len(from[p]) <= Page => Copied(p) = Len(from[p])
    BY <1>4, SMT DEF Copied
  <2>2. QED
    BY <1>3, <2>1
<1>7. c \in Seq(Nat) /\ Len(c) = n
  BY <1>3, <1>5, Cut
<1> HIDE DEF c
<1>8. b \in Buffer /\ b.data = c /\ c # <<>>
  <2>1. c # <<>>
    BY <1>5, <1>7, EmptySeq
  <2>2. b \in [off : Nat, data : Seq(Nat), anon : BOOLEAN] /\ b.off = o /\ b.data = c
    BY <1>5, <1>7
  <2>3. o + Len(c) <= Page
    BY <1>5, <1>7
  <2>4. QED
    BY <2>1, <2>2, <2>3 DEF Buffer
<1> HIDE DEF b
<1>9. RingOK' /\ Pages' = Append(Pages, c)
  BY <1>1, <1>2, <1>8, BufferAdded
<1>10. Bytes' = Bytes \o c
  BY <1>1, <1>7, <1>9, PagesAre, FlatAppend DEF Bytes
<1>11. Sends(p, n, l)
  BY <1>2, <1>5, <1>6, <1>10 DEF Sends, c
<1>12. QED
  BY <1>2, <1>9, <1>11, SendMaps

LEMMA WritePageMaps ==
  ASSUME PipeInv, NEW p \in Writer, WritePage(p)
  PROVE  PipeInv' /\ Stream!Send(p)
<1>1. p \in Source /\ InsertPage(p, Copied(p), 0, TRUE)
  BY Sides DEF WritePage
<1>2. PICK l \in {"loop", "unlock"} :
        pc' = [pc EXCEPT ![p] = l] /\ (l = "loop" => Len(from[p]) # Copied(p))
  BY DEF WritePage, Goto
<1>3. Copied(p) \in 1 .. Copied(p) /\ 0 \in 0 .. Page - Copied(p)
  <2>1. from[p] \in Seq(Nat) /\ from[p] # <<>>
    <3>1. p \in Proc /\ pc[p] = "loop" /\ "loop" \in Sending /\ CallsOK /\ CallOK(p)
      BY <1>1, Sides DEF InsertPage, HasRoom, Sending, PipeInv, CallsOK
    <3>2. QED
      BY <1>1, <3>1 DEF CallsOK, CallOK
  <2>2. Len(from[p]) \in Nat /\ Len(from[p]) # 0 /\ Page \in Nat \ {0}
    BY <2>1, EmptySeq, LenProperties, PipeAssumption
  <2>3. QED
    BY <2>2, SMT DEF Copied
<1>4. QED
  BY <1>1, <1>2, <1>3, InsertMaps

LEMMA SplicePageMaps ==
  ASSUME PipeInv, NEW p \in Splicer, SplicePage(p)
  PROVE  PipeInv' /\ Stream!Send(p)
<1>1. p \in Source /\ p \notin Writer
  BY Sides, PipeAssumption
<1>2. PICK n \in 1 .. Copied(p) :
        /\ \E o \in 0 .. Page - n : InsertPage(p, n, o, FALSE)
        /\ Goto(p, IF Len(from[p]) = n \/ nrbufs + 1 = buffers THEN "unlock" ELSE "loop")
  BY DEF SplicePage
<1>3. PICK o \in 0 .. Page - n : InsertPage(p, n, o, FALSE)
  BY <1>2
<1>4. PICK l \in {"loop", "unlock"} :
        pc' = [pc EXCEPT ![p] = l] /\ (l = "loop" => Len(from[p]) # n)
  BY <1>2 DEF Goto
<1>5. QED
  BY <1>1, <1>3, <1>4, InsertMaps

LEMMA SetSizeMaps ==
  ASSUME PipeInv, NEW p \in Proc, SetSize(p)
  PROVE  PipeInv' /\ UNCHANGED <<Bytes, Count, from, to>>
<1>1. UNCHANGED <<pc, mutex, waiting_writers, total_len, from, to>>
  BY DEF SetSize, call
<1>2. PlacesOK' /\ CallsOK'
  BY <1>1 DEF PipeInv, PlacesOK, Nappers, CallsOK, CallOK
<1>3. RingOK' /\ Pages' = Pages
  BY RingCopied DEF PipeInv
<1>4. QED
  BY <1>1, <1>2, <1>3 DEF PipeInv, Bytes, Count

(* Everything else the stream does not see.                                *)
Unseen == UNCHANGED <<bufs, curbuf, nrbufs, buffers, total_len, from, to>>
LEMMA UnseenMaps ==
  ASSUME Unseen
  PROVE  UNCHANGED <<Bytes, Count, from, to>>
  BY SameRingBytes DEF Unseen, SameRing, Count

LEMMA StillKeeps ==
  ASSUME PipeInv, Unseen, UNCHANGED <<pc, mutex, waiting_writers>>
  PROVE  PipeInv'
<1>1. PlacesOK' /\ CallsOK'
  BY DEF PipeInv, PlacesOK, Nappers, CallsOK, CallOK, Unseen
<1>2. RingOK'
  BY DEF PipeInv, RingOK, Slot, Unseen
<1>3. QED
  BY <1>1, <1>2 DEF PipeInv

(* A step of the stream, or none.                                          *)
StreamStep(p) ==
  \/ Stream!Begin(p) \/ Stream!Send(p) \/ Stream!End(p) \/ Stream!Receive(p)
  \/ Stream!Return(p)
  \/ UNCHANGED <<Bytes, Count, from, to>>

LEMMA QuietMaps ==
  ASSUME PipeInv, NEW p \in Proc, \E l : QuietMove(p, l)
  PROVE  PipeInv' /\ StreamStep(p)
<1>1. PICK l : QuietMove(p, l)
  OBVIOUS
<1>2. PipeInv'
  BY <1>1, QuietMoveKeeps
<1>3. Unseen
  BY <1>1 DEF QuietMove, Unseen
<1>4. QED
  BY <1>2, <1>3, UnseenMaps DEF StreamStep

LEMMA ProceedMaps ==
  ASSUME PipeInv, NEW p \in Caller, Proceed(p)
  PROVE  PipeInv' /\ StreamStep(p)
<1>1. /\ p \in Proc /\ (p \in Reader => p \in Sink) /\ (p \in Unsplicer => p \in Sink)
      /\ (p \in Writer => p \in Source) /\ (p \in Splicer => p \in Source)
      /\ (p \in Sink => p \notin Source)
  BY Sides
<1>2. CASE Resume(p) \/ UnlockFirst(p)
  BY <1>1, <1>2, ResumeMoves, UnlockFirstMoves, QuietMaps
<1>3. CASE Unlock(p) \/ WakeUp(p)
  BY <1>3, ReturnMaps DEF StreamStep
<1>4. CASE p \in Sink /\ ReadBuffer(p)
  BY <1>4, ReadBufferMaps DEF StreamStep
<1>5. CASE ReadFault(p) \/ ReadEnds(p) \/ UnspliceEnds(p) \/ WriteFails(p)
  <2>1. pc[p] = "loop" /\ Break(p)
    BY <1>5 DEF ReadFault, ReadEnds, UnspliceEnds, WriteFails
  <2>2. QED
    BY <1>1, <2>1, BreakMoves, QuietMaps
<1>6. CASE WriteNoMemory(p) \/ SpliceFault(p)
  <2>1. pc[p] = "loop" /\ LeaveUntold(p)
    BY <1>6 DEF WriteNoMemory, SpliceFault
  <2>2. QED
    BY <1>1, <2>1, BreakMoves, QuietMaps
<1>7. CASE p \in Writer /\ MergeFails(p)
  <2>1. pc[p] = "merge" /\ Break(p)
    BY <1>7 DEF MergeFails
  <2>2. QED
    BY <1>1, <1>7, <2>1, BreakMoves, QuietMaps
<1>8. CASE \/ p \in Sink /\ (ReadWait(p) \/ UnspliceWait(p))
           \/ p \in Source /\ (WriteWait(p) \/ SpliceWait(p))
  <2>1. pc[p] = "loop"
    BY <1>8 DEF ReadWait, UnspliceWait, WriteWait, SpliceWait
  <2>2. QED
    BY <1>1, <1>8, <2>1, SleepMoves, QuietMaps
<1>9. CASE p \in Unsplicer /\ UnspliceNext(p)
  BY <1>1, <1>9, UnspliceNextMoves, QuietMaps
<1>10. CASE p \in Writer /\ (NoMerge(p) \/ WriteFault(p))
  BY <1>1, <1>10, NoMergeMoves, WriteFaultMoves, QuietMaps
<1>11. CASE p \in Writer /\ Merge(p)
  BY <1>11, MergeMaps DEF StreamStep
<1>12. CASE p \in Writer /\ WritePage(p)
  BY <1>12, WritePageMaps DEF StreamStep
<1>13. CASE p \in Splicer /\ SplicePage(p)
  BY <1>13, SplicePageMaps DEF StreamStep
<1>14. QED
  BY <1>1, <1>2, <1>3, <1>4, <1>5, <1>6, <1>7, <1>8, <1>9, <1>10, <1>11, <1>12, <1>13
     DEF Proceed

LEMMA NextMaps ==
  ASSUME PipeInv, Next
  PROVE  PipeInv' /\ \E p \in Proc : StreamStep(p)
<1>1. Caller \subseteq Proc /\ Sink \subseteq Proc /\ Source \subseteq Proc /\ Poller \subseteq Proc
  BY Sides
<1>2. ASSUME NEW p \in Caller, Lock(p) \/ Proceed(p) \/ Signal(p)
      PROVE  PipeInv' /\ \E q \in Proc : StreamStep(q)
  <2>1. CASE Lock(p)
    BY <1>1, <2>1, LockMoves, QuietMaps
  <2>2. CASE Proceed(p)
    BY <1>1, <2>2, ProceedMaps
  <2>3. CASE Signal(p)
    <3>1. Unseen /\ UNCHANGED <<pc, mutex, waiting_writers>>
      BY <2>3 DEF Signal, Unseen, ring, call
    <3>2. QED
      BY <1>1, <3>1, UnseenMaps, StillKeeps DEF StreamStep
  <2>4. QED
    BY <1>2, <2>1, <2>2, <2>3
<1>3. ASSUME NEW p \in Sink, Read(p) PROVE PipeInv' /\ \E q \in Proc : StreamStep(q)
  BY <1>1, <1>3, ReadMaps DEF StreamStep
<1>4. ASSUME NEW p \in Source, Write(p) PROVE PipeInv' /\ \E q \in Proc : StreamStep(q)
  BY <1>1, <1>4, WriteMaps DEF StreamStep
<1>5. ASSUME NEW p \in Poller, Poll(p) \/ PollFound(p) \/ PollWait(p)
      PROVE  PipeInv' /\ \E q \in Proc : StreamStep(q)
  BY <1>1, <1>5, PollMoves, QuietMaps
<1>6. ASSUME NEW p \in Proc, Close(p) \/ SetSize(p)
      PROVE  PipeInv' /\ \E q \in Proc : StreamStep(q)
  BY <1>6, CloseMoves, QuietMaps, SetSizeMaps DEF StreamStep
<1>7. QED
  BY <1>2, <1>3, <1>4, <1>5, <1>6 DEF Next

LEMMA PipeInit ==
  ASSUME Init
  PROVE  PipeInv
<1>1. PlacesOK
  <2>1. "out" \in Label /\ "out" \notin Holding /\ "out" \notin Napping
    BY DEF Label, Holding, Napping
  <2>2. Nappers = {}
    BY <2>1, Sides DEF Init, Nappers
  <2>3. QED
    BY <2>1, <2>2, Sides, FS_EmptySet DEF Init, PlacesOK
<1>2. CallsOK
  <2>1. "out" \notin Sending /\ "out" \notin Receiving
    BY DEF Sending, Receiving
  <2>2. <<>> \in Seq(Nat)
    BY EmptySeq
  <2>3. QED
    BY <2>1, <2>2 DEF Init, CallsOK, CallOK
<1>3. RingOK
  <2>1. Free \in Buffer /\ Free.data = <<>>
    BY PipeAssumption, SMT DEF Free, Buffer
  <2>2. DefBuffers \in Nat \ {0} /\ DefBuffers \in Sizes
    BY PipeAssumption
  <2>3. /\ 0 \in 0 .. DefBuffers /\ 0 \in 0 .. DefBuffers - 1
        /\ \A k \in 0 .. DefBuffers - 1 : (0 + k) % DefBuffers = k /\ ~ (k < 0)
    BY <2>2, SMT
  <2>4. QED
    BY <2>1, <2>2, <2>3 DEF Init, RingOK, Slot
<1>4. QED
  BY <1>1, <1>2, <1>3 DEF PipeInv

LEMMA StreamInit ==
  ASSUME Init
  PROVE  Stream!Init
<1>1. Pages = <<>>
  BY SMT DEF Init, Pages
<1>2. <<>> \in Seq(Seq(Nat)) /\ Prefixes(<<>>, [n \in 0 .. 0 |-> <<>>])
  BY EmptySeq, SMT DEF Prefixes
<1>3. Bytes = <<>>
  <2>1. Flat(<<>>) = [n \in 0 .. 0 |-> <<>>][Len(<<>>)]
    BY <1>2, FlatIs
  <2>2. Len(<<>>) = 0
    BY EmptySeq
  <2>3. QED
    BY <1>1, <2>1, <2>2, SMT DEF Bytes
<1>4. QED
  BY <1>3 DEF Init, Stream!Init

-----------------------------------------------------------------------------
(* Every step keeps who holds the mutex, what each call has left and how   *)
(* the ring lies: the inductive invariant.                                 *)
THEOREM PipeInvariance == Spec => []PipeInv
<1>1. Init => PipeInv
  BY PipeInit
<1>2. PipeInv /\ [Next]_vars => PipeInv'
  <2>1. CASE Next
    BY <2>1, NextMaps
  <2>2. CASE UNCHANGED vars
    BY <2>2, StillKeeps DEF vars, ring, call, Unseen
  <2>3. QED
    BY <2>1, <2>2
<1>3. QED
  BY <1>1, <1>2, PTL DEF Spec

(* pipe->mutex is held exactly where the code holds it, waiting_writers    *)
(* counts the writers that sleep, the used buffers are the nrbufs from     *)
(* curbuf on, none of them empty, and none goes beyond its page.           *)
THEOREM PipeTypeCorrect == Spec => []TypeOK
<1>1. PipeInv => TypeOK
  BY TypeFollows
<1>2. QED
  BY <1>1, PipeInvariance, PTL

(* Whatever the size of pages and ring and whoever reads, writes,          *)
(* vmsplices and resizes, pipe_read gets the bytes in the order in which   *)
(* pipe_write took them, each once, and no write of at most a page is torn.*)
THEOREM PipeIsAStream == Spec => BytesInOrder
<1>1. Init => Stream!Init
  BY StreamInit
<1>2. PipeInv /\ [Next]_vars => [Stream!Next]_(Stream!svars)
  <2>1. CASE PipeInv /\ Next
    <3>1. PICK p \in Proc : StreamStep(p)
      BY <2>1, NextMaps
    <3>2. QED
      BY <3>1 DEF StreamStep, Stream!Next, Stream!svars, Count
  <2>2. CASE UNCHANGED vars
    <3>1. UNCHANGED <<Bytes, Count, from, to>>
      BY <2>2, UnseenMaps DEF vars, ring, call, Unseen
    <3>2. QED
      BY <3>1 DEF Stream!svars, Count
  <2>3. QED
    BY <2>1, <2>2
<1>3. QED
  BY <1>1, <1>2, PipeInvariance, PTL DEF Spec, BytesInOrder, Stream!Spec
=============================================================================
