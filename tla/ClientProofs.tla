---------------------------- MODULE ClientProofs ----------------------------
(***************************************************************************)
(* What a client may rely on, for any number of rows, users, texts, pages  *)
(* and requests: a search lists what contains the text searched for, a     *)
(* walk through the pages of a list skips no row while none leaves the     *)
(* list (ListPages), and a call the app reports is saved once (AppClient). *)
(***************************************************************************)
EXTENDS ListPages, AppClient, SequenceTheorems, FiniteSetTheorems, WellFoundedInduction, TLAPS

-----------------------------------------------------------------------------
(* Induction *)

(* A set of naturals that is not empty has a least element.                *)
LEMMA LeastNat ==
  ASSUME NEW S \in SUBSET Nat, S # {}
  PROVE  \E k \in S : \A j \in S : k <= j
<1> DEFINE R == {ss \in Nat \X Nat : ss[1] < ss[2]}
<1>1. IsWellFoundedOn(R, Nat)
  BY NatLessThanWellFounded DEF OpToRel
<1>2. \A k, j \in Nat : j < k => <<j, k>> \in R
  OBVIOUS
<1> HIDE DEF R
<1>3. PICK k \in S : \A j \in S : <<j, k>> \notin R
  BY <1>1, WFMin
<1>4. \A j \in S : ~(j < k)
  BY <1>2, <1>3
<1> QED BY <1>4

(* Induction on the naturals, over a set instead of a predicate.           *)
LEMMA NatByInduction ==
  ASSUME NEW T \in SUBSET Nat, 0 \in T, \A n \in T : n + 1 \in T
  PROVE  T = Nat
<1> SUFFICES ASSUME Nat \ T # {} PROVE FALSE
  OBVIOUS
<1>1. PICK n \in Nat \ T : \A m \in Nat \ T : n <= m
  BY LeastNat
<1>2. n # 0 /\ n - 1 \in Nat
  BY <1>1
<1>3. n - 1 \in T
  BY <1>1, <1>2
<1>4. (n - 1) + 1 \in T
  BY <1>3
<1> QED BY <1>1, <1>4

(* Induction on sequences that grow at their end.                          *)
LEMMA SeqByInduction ==
  ASSUME NEW S, NEW T \in SUBSET Seq(S), <<>> \in T,
         \A s \in T, c \in S : Append(s, c) \in T
  PROVE  T = Seq(S)
<1> DEFINE N == {n \in Nat : \A s \in Seq(S) : Len(s) = n => s \in T}
<1>1. 0 \in N
  BY EmptySeq
<1>2. ASSUME NEW n \in N PROVE n + 1 \in N
  <2> SUFFICES ASSUME NEW s \in Seq(S), Len(s) = n + 1 PROVE s \in T
    OBVIOUS
  <2>1. s # <<>> /\ n \in Nat
    OBVIOUS
  <2>2. PICK t \in Seq(S), c \in S : s = Append(t, c)
    BY <2>1, SequenceEmptyOrAppend
  <2>3. Len(t) = n
    BY <2>1, <2>2, AppendProperties
  <2> QED BY <2>2, <2>3
<1>3. N \in SUBSET Nat
  OBVIOUS
<1> HIDE DEF N
<1>4. N = Nat
  BY <1>1, <1>2, <1>3, NatByInduction
<1> QED BY <1>4, LenProperties DEF N
-----------------------------------------------------------------------------
(* Escaping *)

Text == Seq(Characters)

Flattens(f, s) ==
  f = [i \in 1..Len(s) |-> IF i = 1 THEN s[i] ELSE f[i - 1] \o s[i]]

(* Piece by piece, a sequence of texts is flattened in one way ...         *)
LEMMA FlattensPrefix ==
  ASSUME NEW s, Len(s) \in Nat, NEW k \in Nat, k <= Len(s)
  PROVE  \E f : \A i \in 1..k : f[i] = IF i = 1 THEN s[i] ELSE f[i - 1] \o s[i]
<1> DEFINE UpTo(f, j) == \A i \in 1..j : f[i] = IF i = 1 THEN s[i] ELSE f[i - 1] \o s[i]
           T == {j \in Nat : \E f : UpTo(f, j)}
<1>1. 0 \in T
  BY UpTo([i \in {} |-> s], 0)
<1>2. ASSUME NEW j \in T PROVE j + 1 \in T
  <2>1. j \in Nat /\ j + 1 \in Nat
    OBVIOUS
  <2>2. PICK f : UpTo(f, j)
    OBVIOUS
  <2> DEFINE next == IF j = 0 THEN s[1] ELSE f[j] \o s[j + 1]
             g == [i \in 1..(j + 1) |-> IF i = j + 1 THEN next ELSE f[i]]
  <2>3. ASSUME NEW i \in 1..(j + 1)
        PROVE  g[i] = IF i = 1 THEN s[i] ELSE g[i - 1] \o s[i]
    <3>1. CASE i = j + 1
      BY <2>1, <3>1
    <3>2. CASE i # j + 1
      <4>1. i \in 1..j /\ g[i] = f[i] /\ (i # 1 => i - 1 \in 1..j /\ g[i - 1] = f[i - 1])
        BY <2>1, <3>2
      <4> QED BY <2>2, <4>1
    <3> QED BY <3>1, <3>2
  <2> HIDE DEF g
  <2>4. \E h : UpTo(h, j + 1)
    BY <2>3
  <2> QED BY <2>1, <2>4
<1>3. T \in SUBSET Nat
  OBVIOUS
<1> HIDE DEF T
<1>4. T = Nat
  BY <1>1, <1>2, <1>3, NatByInduction
<1> QED BY <1>4 DEF T

LEMMA FlattensSame ==
  ASSUME NEW s, Len(s) \in Nat, NEW f, Flattens(f, s), NEW h, Flattens(h, s)
  PROVE  \A i \in 1..Len(s) : f[i] = h[i]
<1> DEFINE T == {k \in Nat : k \in 1..Len(s) => f[k] = h[k]}
<1>0. \A i \in 1..Len(s) : /\ f[i] = IF i = 1 THEN s[i] ELSE f[i - 1] \o s[i]
                           /\ h[i] = IF i = 1 THEN s[i] ELSE h[i - 1] \o s[i]
  BY DEF Flattens
<1>1. 0 \in T
  OBVIOUS
<1>2. ASSUME NEW k \in T PROVE k + 1 \in T
  <2>1. k \in Nat
    OBVIOUS
  <2>2. ASSUME k + 1 \in 1..Len(s) PROVE f[k + 1] = h[k + 1]
    <3> DEFINE i == k + 1
    <3>1. i \in 1..Len(s) /\ (i # 1 => i - 1 = k /\ k \in 1..Len(s))
      BY <2>1, <2>2
    <3>2. i # 1 => f[i - 1] = h[i - 1]
      BY <3>1
    <3> HIDE DEF i
    <3> QED BY <1>0, <3>1, <3>2 DEF i
  <2> QED BY <2>1, <2>2
<1>3. T \in SUBSET Nat
  OBVIOUS
<1> HIDE DEF T
<1>4. T = Nat
  BY <1>1, <1>2, <1>3, NatByInduction
<1> QED BY <1>4 DEF T

(* ... and that is what FlattenSeq gives.                                  *)
LEMMA FlattenIs ==
  ASSUME NEW s, Len(s) \in Nat, Len(s) # 0, NEW f, Flattens(f, s)
  PROVE  FlattenSeq(s) = f[Len(s)]
<1> DEFINE flatten == CHOOSE h : Flattens(h, s)
<1>1. Flattens(flatten, s)
  OBVIOUS
<1>2. FlattenSeq(s) = flatten[Len(s)]
  BY DEF FlattenSeq, Flattens
<1> HIDE DEF flatten
<1>3. \A i \in 1..Len(s) : f[i] = flatten[i]
  BY <1>1, FlattensSame
<1>4. Len(s) \in 1..Len(s)
  OBVIOUS
<1> QED BY <1>2, <1>3, <1>4

(* Flattening one more piece puts it at the end.                           *)
LEMMA FlattenAppend ==
  ASSUME NEW S, NEW pieces \in Seq(Seq(S)), NEW piece \in Seq(S), FlattenSeq(pieces) \in Seq(S)
  PROVE  FlattenSeq(Append(pieces, piece)) = FlattenSeq(pieces) \o piece
<1> DEFINE more == Append(pieces, piece)
           n == Len(pieces)
<1>0. /\ n \in Nat /\ n + 1 \in Nat /\ more \in Seq(Seq(S)) /\ Len(more) = n + 1
      /\ more[n + 1] = piece /\ \A i \in 1..n : more[i] = pieces[i]
  BY AppendProperties, LenProperties
<1> HIDE DEF more, n
<1> DEFINE m == Len(more)
<1>1. PICK g : \A i \in 1..m : g[i] = IF i = 1 THEN more[i] ELSE g[i - 1] \o more[i]
  <2>1. m \in Nat /\ m <= m
    BY <1>0
  <2> QED BY <2>1, FlattensPrefix
<1> DEFINE F == [i \in 1..m |-> g[i]]
           G == [i \in 1..n |-> g[i]]
<1>2. Flattens(F, more)
  <2>1. \A i \in 1..m : F[i] = IF i = 1 THEN more[i] ELSE F[i - 1] \o more[i]
    BY <1>0, <1>1
  <2> QED BY <2>1 DEF Flattens
<1>3. Flattens(G, pieces)
  <2>1. ASSUME NEW i \in 1..n
        PROVE  G[i] = IF i = 1 THEN pieces[i] ELSE G[i - 1] \o pieces[i]
    <3>1. i \in 1..m /\ G[i] = g[i] /\ more[i] = pieces[i] /\ (i # 1 => G[i - 1] = g[i - 1])
      BY <1>0
    <3>2. g[i] = IF i = 1 THEN more[i] ELSE g[i - 1] \o more[i]
      BY <1>1, <3>1
    <3> QED BY <3>1, <3>2
  <2> QED BY <2>1 DEF Flattens, n
<1>4. m \in Nat /\ m # 0 /\ m = n + 1 /\ m \in 1..m /\ m - 1 = n
  BY <1>0
<1>5. F[m] = g[m] /\ (n # 0 => G[n] = g[n])
  BY <1>0, <1>4
<1>6. FlattenSeq(more) = g[m]
  <2> HIDE DEF F
  <2>1. FlattenSeq(more) = F[m]
    BY <1>2, <1>4, FlattenIs
  <2> QED BY <1>5, <2>1
<1>9. g[m] = IF m = 1 THEN piece ELSE g[n] \o piece
  BY <1>0, <1>1, <1>4
<1> HIDE DEF G, F, m
<1>7. CASE n = 0
  <2>1. pieces = <<>> /\ FlattenSeq(pieces) = <<>>
    BY <1>7, EmptySeq DEF n, FlattenSeq
  <2>2. g[m] = piece
    BY <1>4, <1>9, <1>7
  <2> QED BY <1>6, <2>1, <2>2, ConcatEmptySeq DEF more
<1>8. CASE n # 0
  <2>1. FlattenSeq(pieces) = G[n]
    <3>1. Len(pieces) \in Nat /\ Len(pieces) # 0
      BY <1>0, <1>8 DEF n
    <3> QED BY <1>3, <3>1, FlattenIs DEF n
  <2>2. g[m] = G[n] \o piece
    <3>1. m # 1 /\ G[n] = g[n]
      BY <1>0, <1>4, <1>5, <1>8
    <3> QED BY <1>9, <3>1
  <2> QED BY <1>6, <2>1, <2>2 DEF more
<1> QED BY <1>7, <1>8

Piece(c, char) == IF c = char THEN <<"\\", char>> ELSE <<c>>

(* Short texts.                                                            *)
LEMMA OneIsSeq ==
  ASSUME NEW S, NEW c \in S
  PROVE  <<c>> \in Seq(S)
OBVIOUS

LEMMA PairIsAppend ==
  ASSUME NEW c, NEW d
  PROVE  Append(<<c>>, d) = <<c, d>>
<1> DEFINE s == <<c>>
<1>1. Append(s, d) = [i \in 1..2 |-> IF i = 2 THEN d ELSE s[i]]
  BY Len(s) = 1
<1>2. [i \in 1..2 |-> IF i = 2 THEN d ELSE s[i]] = <<c, d>>
  OBVIOUS
<1> QED BY <1>1, <1>2

LEMMA PairIsConcat ==
  ASSUME NEW S, NEW c \in S, NEW d \in S
  PROVE  <<c>> \in Seq(S) /\ <<c, d>> \in Seq(S) /\ <<c>> \o <<d>> = <<c, d>>
BY OneIsSeq, PairIsAppend, AppendProperties, AppendIsConcat

(* What one character becomes.                                             *)
LEMMA PieceType ==
  ASSUME NEW c \in Characters, NEW char \in Characters
  PROVE  Piece(c, char) \in Text
BY PairIsConcat, ListAssumption DEF Piece, Text

(* replaceAll goes character by character ...                              *)
LEMMA ReplaceEmpty ==
  ASSUME NEW char
  PROVE  replaceAll(<<>>, char) = <<>>
<1> DEFINE pieces == [i \in 1 .. Len(<<>>) |->
                        IF <<>>[i] = char THEN <<"\\", char>> ELSE <<(<<>>)[i]>>]
<1>1. pieces = <<>>
  OBVIOUS
<1> QED BY <1>1, EmptySeq DEF replaceAll, FlattenSeq

(* ... from the front to the end ...                                       *)
LEMMA ReplaceAppend ==
  ASSUME NEW t \in Text, NEW c \in Characters, NEW char \in Characters, replaceAll(t, char) \in Text
  PROVE  replaceAll(Append(t, c), char) = replaceAll(t, char) \o Piece(c, char)
<1> DEFINE P(s) == [i \in 1 .. Len(s) |-> Piece(s[i], char)]
           n == Len(t)
<1>0. /\ n \in Nat /\ Len(Append(t, c)) = n + 1 /\ Append(t, c)[n + 1] = c
      /\ \A i \in 1..n : Append(t, c)[i] = t[i] /\ t[i] \in Characters
  BY AppendProperties, LenProperties, ElementOfSeq DEF Text
<1>1. P(t) \in Seq(Text) /\ Len(P(t)) = n
  <2>1. \A i \in 1..n : Piece(t[i], char) \in Text
    BY <1>0, PieceType
  <2> QED BY <1>0, <2>1, IsASeq
<1>2. P(Append(t, c)) = Append(P(t), Piece(c, char))
  <2> DEFINE u == Append(t, c)
             p == P(t)
             e == Piece(c, char)
  <2>1. Append(p, e) \in Seq(Text) /\ Len(Append(p, e)) = n + 1 /\ Append(p, e)[n + 1] = e
        /\ \A i \in 1..n : Append(p, e)[i] = p[i]
    BY <1>1, PieceType, AppendProperties
  <2>2. Append(p, e) = [i \in 1..(n + 1) |-> Append(p, e)[i]]
    BY <2>1, LenProperties
  <2>3. ASSUME NEW i \in 1..(n + 1) PROVE Append(p, e)[i] = Piece(u[i], char)
    <3>1. CASE i = n + 1
      BY <1>0, <2>1, <3>1
    <3>2. CASE i # n + 1
      <4>1. i \in 1..n
        BY <1>0, <3>2
      <4>2. p[i] = Piece(t[i], char) /\ u[i] = t[i] /\ Append(p, e)[i] = p[i]
        BY <1>0, <2>1, <4>1
      <4> QED BY <4>2
    <3> QED BY <3>1, <3>2
  <2> HIDE DEF u, p, e
  <2>4. Len(u) = n + 1
    BY <1>0 DEF u
  <2> QED BY <2>2, <2>3, <2>4 DEF u, p, e
<1>3. \A s : replaceAll(s, char) = FlattenSeq(P(s))
  BY DEF replaceAll, Piece
<1> HIDE DEF P
<1>4. FlattenSeq(P(t)) \in Seq(Characters)
  BY <1>3 DEF Text
<1> QED BY <1>1, <1>2, <1>3, <1>4, PieceType, FlattenAppend DEF Text

(* ... and gives a text.                                                   *)
LEMMA ReplaceType ==
  ASSUME NEW char \in Characters
  PROVE  \A t \in Text : replaceAll(t, char) \in Text
<1> DEFINE T == {t \in Text : replaceAll(t, char) \in Text}
<1>1. <<>> \in T
  BY ReplaceEmpty, EmptySeq DEF Text
<1>2. ASSUME NEW t \in T, NEW c \in Characters PROVE Append(t, c) \in T
  <2>1. t \in Text /\ replaceAll(t, char) \in Text /\ Append(t, c) \in Text
    BY AppendProperties DEF Text
  <2>2. replaceAll(Append(t, c), char) = replaceAll(t, char) \o Piece(c, char)
    BY <2>1, ReplaceAppend
  <2>3. replaceAll(t, char) \o Piece(c, char) \in Text
    BY <2>1, PieceType, ConcatProperties DEF Text
  <2> QED BY <2>1, <2>2, <2>3
<1>3. T \in SUBSET Seq(Characters)
  BY DEF Text
<1> HIDE DEF T
<1>4. T = Seq(Characters)
  BY <1>1, <1>2, <1>3, SeqByInduction
<1> QED BY <1>4 DEF T, Text

(* One or two more characters: what an earlier replacement put in.         *)
LEMMA ReplaceMore ==
  ASSUME NEW t \in Text, NEW char \in Characters, NEW c \in Characters, NEW d \in Characters
  PROVE  /\ replaceAll(t \o <<c>>, char) = replaceAll(t, char) \o Piece(c, char)
         /\ replaceAll(t \o <<c, d>>, char)
              = replaceAll(t, char) \o (Piece(c, char) \o Piece(d, char))
<1>0. replaceAll(t, char) \in Text /\ Piece(c, char) \in Text /\ Piece(d, char) \in Text
      /\ t \o <<c>> \in Text
  <2>1. <<c>> \in Text
    BY PairIsConcat DEF Text
  <2> QED BY <2>1, ReplaceType, PieceType, ConcatProperties DEF Text
<1>1. replaceAll(t \o <<c>>, char) = replaceAll(t, char) \o Piece(c, char)
  <2>1. t \o <<c>> = Append(t, c)
    BY AppendIsConcat DEF Text
  <2> QED BY <1>0, <2>1, ReplaceAppend
<1>2. t \o <<c, d>> = (t \o <<c>>) \o <<d>>
  <2>1. <<c>> \in Text /\ <<d>> \in Text
    BY PairIsConcat DEF Text
  <2>2. (t \o <<c>>) \o <<d>> = t \o (<<c>> \o <<d>>)
    BY <2>1, ConcatAssociative DEF Text
  <2> QED BY <2>2, PairIsConcat
<1>3. (t \o <<c>>) \o <<d>> = Append(t \o <<c>>, d)
  BY <1>0, AppendIsConcat DEF Text
<1>4. replaceAll(Append(t \o <<c>>, d), char) = replaceAll(t \o <<c>>, char) \o Piece(d, char)
  <2>1. replaceAll(t \o <<c>>, char) \in Text
    BY <1>0, ReplaceType
  <2> QED BY <1>0, <2>1, ReplaceAppend
<1>5. (replaceAll(t, char) \o Piece(c, char)) \o Piece(d, char)
        = replaceAll(t, char) \o (Piece(c, char) \o Piece(d, char))
  BY <1>0, ConcatAssociative DEF Text
<1> QED BY <1>1, <1>2, <1>3, <1>4, <1>5

Special == {"\\", "%", "_"}
Escaped(c) == IF c \in Special THEN <<"\\", c>> ELSE <<c>>

(* Escaping one more character puts it at the end, with a \ before it if   *)
(* it has a meaning of its own: no \ put in by one replacement is escaped  *)
(* by the next one.                                                        *)
LEMMA EscapeAppend ==
  ASSUME NEW s \in Text, NEW c \in Characters
  PROVE  /\ escapeLikeValue(s) \in Text
         /\ escapeLikeValue(Append(s, c)) = escapeLikeValue(s) \o Escaped(c)
<1> DEFINE a == replaceAll(s, "\\")
           b == replaceAll(a, "%")
           e == replaceAll(b, "_")
<1>0. /\ a \in Text /\ b \in Text /\ e \in Text
      /\ "\\" \in Characters /\ "%" \in Characters /\ "_" \in Characters
  BY ReplaceType, ListAssumption
<1>1. Append(s, c) = s \o <<c>>
  BY AppendIsConcat DEF Text
<1>2. escapeLikeValue(s) = e
  BY DEF escapeLikeValue
<1>3. escapeLikeValue(Append(s, c)) = replaceAll(replaceAll(replaceAll(s \o <<c>>, "\\"), "%"), "_")
  BY <1>1 DEF escapeLikeValue
<1>4. replaceAll(s \o <<c>>, "\\") = a \o Piece(c, "\\")
  BY <1>0, ReplaceMore
<1> HIDE DEF a
<1>5. \A d, f \in Characters : /\ replaceAll(a \o <<d>>, "%") = b \o Piece(d, "%")
                           /\ replaceAll(a \o <<d, f>>, "%") = b \o (Piece(d, "%") \o Piece(f, "%"))
  BY <1>0, ReplaceMore
<1> HIDE DEF b
<1>6. \A d, f \in Characters : /\ replaceAll(b \o <<d>>, "_") = e \o Piece(d, "_")
                           /\ replaceAll(b \o <<d, f>>, "_") = e \o (Piece(d, "_") \o Piece(f, "_"))
  BY <1>0, ReplaceMore
<1> HIDE DEF e
<1>7. CASE c = "\\"
  <2>1. Piece(c, "\\") = <<"\\", "\\">> /\ Piece(c, "%") = <<c>> /\ Piece(c, "_") = <<c>>
        /\ Escaped(c) = <<"\\", "\\">>
    BY <1>7 DEF Piece, Escaped, Special
  <2>2. replaceAll(s \o <<c>>, "\\") = a \o <<"\\", "\\">>
    BY <1>4, <2>1
  <2>3. replaceAll(a \o <<"\\", "\\">>, "%") = b \o <<"\\", "\\">>
    BY <1>0, <1>5, <1>7, <2>1, PairIsConcat
  <2>4. replaceAll(b \o <<"\\", "\\">>, "_") = e \o <<"\\", "\\">>
    BY <1>0, <1>6, <1>7, <2>1, PairIsConcat
  <2> QED BY <1>0, <1>2, <1>3, <2>1, <2>2, <2>3, <2>4
<1>8. CASE c = "%"
  <2>1. Piece(c, "\\") = <<c>> /\ Piece(c, "%") = <<"\\", c>> /\ Piece(c, "_") = <<c>>
        /\ Piece("\\", "_") = <<"\\">> /\ Escaped(c) = <<"\\", c>>
    BY <1>8 DEF Piece, Escaped, Special
  <2>2. replaceAll(s \o <<c>>, "\\") = a \o <<c>>
    BY <1>4, <2>1
  <2>3. replaceAll(a \o <<c>>, "%") = b \o <<"\\", c>>
    BY <1>5, <2>1
  <2>4. replaceAll(b \o <<"\\", c>>, "_") = e \o <<"\\", c>>
    BY <1>0, <1>6, <2>1, PairIsConcat
  <2> QED BY <1>0, <1>2, <1>3, <2>1, <2>2, <2>3, <2>4
<1>9. CASE c = "_"
  <2>1. Piece(c, "\\") = <<c>> /\ Piece(c, "%") = <<c>> /\ Piece(c, "_") = <<"\\", c>>
        /\ Escaped(c) = <<"\\", c>>
    BY <1>9 DEF Piece, Escaped, Special
  <2>2. replaceAll(s \o <<c>>, "\\") = a \o <<c>>
    BY <1>4, <2>1
  <2>3. replaceAll(a \o <<c>>, "%") = b \o <<c>>
    BY <1>5, <2>1
  <2>4. replaceAll(b \o <<c>>, "_") = e \o <<"\\", c>>
    BY <1>6, <2>1
  <2> QED BY <1>0, <1>2, <1>3, <2>1, <2>2, <2>3, <2>4
<1>10. CASE c \notin Special
  <2>1. Piece(c, "\\") = <<c>> /\ Piece(c, "%") = <<c>> /\ Piece(c, "_") = <<c>>
        /\ Escaped(c) = <<c>>
    BY <1>10 DEF Piece, Escaped, Special
  <2>2. replaceAll(s \o <<c>>, "\\") = a \o <<c>>
    BY <1>4, <2>1
  <2>3. replaceAll(a \o <<c>>, "%") = b \o <<c>>
    BY <1>5, <2>1
  <2>4. replaceAll(b \o <<c>>, "_") = e \o <<c>>
    BY <1>6, <2>1
  <2> QED BY <1>0, <1>2, <1>3, <2>1, <2>2, <2>3, <2>4
<1> QED BY <1>7, <1>8, <1>9, <1>10 DEF Special
-----------------------------------------------------------------------------
(* LIKE *)

Start == [at |-> {0}, escaped |-> 0]
ScansTo(f, t, p, e, k) ==
  \A j \in 0..k : f[j] = IF j = 0 THEN Start ELSE LikeStep(t, f[j - 1], p[j], e)
Scans(f, t, p, e) ==
  f = [j \in 0 .. Len(p) |-> IF j = 0 THEN Start ELSE LikeStep(t, f[j - 1], p[j], e)]

(* LIKE reads its pattern from the front, in one way ...                   *)
LEMMA ScanPrefix ==
  ASSUME NEW t, NEW p, NEW e, Len(p) \in Nat, NEW k \in Nat, k <= Len(p)
  PROVE  \E f : ScansTo(f, t, p, e, k)
<1> DEFINE Step(f, j) == IF j = 0 THEN Start ELSE LikeStep(t, f[j - 1], p[j], e)
           UpTo(f, j) == \A i \in 0..j : f[i] = Step(f, i)
           T == {j \in Nat : \E f : UpTo(f, j)}
<1>1. 0 \in T
  <2> DEFINE g == [i \in {0} |-> Start]
  <2>1. ASSUME NEW i \in 0..0 PROVE g[i] = Step(g, i)
    <3>1. i = 0
      OBVIOUS
    <3> QED BY <3>1
  <2> HIDE DEF g
  <2>2. \E f : UpTo(f, 0)
    BY <2>1
  <2> QED BY <2>2
<1>2. ASSUME NEW j \in T PROVE j + 1 \in T
  <2>1. j \in Nat /\ j + 1 \in Nat
    OBVIOUS
  <2>2. PICK f : UpTo(f, j)
    OBVIOUS
  <2> DEFINE next == LikeStep(t, f[j], p[j + 1], e)
             g == [i \in 0..(j + 1) |-> IF i = j + 1 THEN next ELSE f[i]]
  <2>3. ASSUME NEW i \in 0..(j + 1)
        PROVE  g[i] = Step(g, i)
    <3>1. CASE i = j + 1
      <4>1. g[i] = next /\ i # 0 /\ i - 1 = j /\ g[i - 1] = f[j]
        BY <2>1, <3>1
      <4> QED BY <3>1, <4>1
    <3>2. CASE i # j + 1
      <4>1. i \in 0..j /\ g[i] = f[i] /\ (i # 0 => i - 1 \in 0..j /\ g[i - 1] = f[i - 1])
        BY <2>1, <3>2
      <4>2. f[i] = Step(f, i)
        BY <2>2, <4>1
      <4> QED BY <4>1, <4>2
    <3> QED BY <3>1, <3>2
  <2> HIDE DEF g, Step
  <2>4. \E h : UpTo(h, j + 1)
    BY <2>3
  <2> QED BY <2>1, <2>4
<1>3. T \in SUBSET Nat
  OBVIOUS
<1> HIDE DEF T
<1>4. T = Nat
  BY <1>1, <1>2, <1>3, NatByInduction
<1> QED BY <1>4 DEF T, ScansTo

LEMMA ScansSame ==
  ASSUME NEW t, NEW p, NEW e, Len(p) \in Nat, NEW f, Scans(f, t, p, e), NEW h, Scans(h, t, p, e)
  PROVE  \A j \in 0..Len(p) : f[j] = h[j]
<1> DEFINE Step(g, j) == IF j = 0 THEN Start ELSE LikeStep(t, g[j - 1], p[j], e)
           T == {k \in Nat : k \in 0..Len(p) => f[k] = h[k]}
<1>0. \A j \in 0..Len(p) : f[j] = Step(f, j) /\ h[j] = Step(h, j)
  BY DEF Scans
<1>1. 0 \in T
  <2>1. 0 \in 0..Len(p) => f[0] = Start /\ h[0] = Start
    BY <1>0
  <2> QED BY <2>1
<1>2. ASSUME NEW k \in T PROVE k + 1 \in T
  <2>1. k \in Nat
    OBVIOUS
  <2>2. ASSUME k + 1 \in 0..Len(p) PROVE f[k + 1] = h[k + 1]
    <3> DEFINE i == k + 1
    <3>1. i \in 0..Len(p) /\ i # 0 /\ i - 1 = k /\ k \in 0..Len(p)
      BY <2>1, <2>2
    <3>2. f[i - 1] = h[i - 1]
      BY <3>1
    <3> HIDE DEF i
    <3> QED BY <1>0, <3>1, <3>2 DEF i
  <2> QED BY <2>1, <2>2
<1>3. T \in SUBSET Nat
  OBVIOUS
<1> HIDE DEF T
<1>4. T = Nat
  BY <1>1, <1>2, <1>3, NatByInduction
<1> QED BY <1>4 DEF T

LEMMA ScanIs ==
  ASSUME NEW t, NEW p, NEW e, Len(p) \in Nat, NEW f, Scans(f, t, p, e)
  PROVE  LikeScan(t, p, e) = f[Len(p)]
<1> DEFINE scan == CHOOSE h : Scans(h, t, p, e)
<1>1. Scans(scan, t, p, e)
  OBVIOUS
<1>2. LikeScan(t, p, e) = scan[Len(p)]
  BY DEF LikeScan, Scans, Start
<1> HIDE DEF scan
<1>3. \A j \in 0..Len(p) : f[j] = scan[j]
  BY <1>1, ScansSame
<1>4. Len(p) \in 0..Len(p)
  OBVIOUS
<1> QED BY <1>2, <1>3, <1>4

(* ... so that one more character is one more step.                        *)
LEMMA ScanAppend ==
  ASSUME NEW t, NEW p \in Text, NEW c \in Characters, NEW e
  PROVE  LikeScan(t, Append(p, c), e) = LikeStep(t, LikeScan(t, p, e), c, e)
<1> DEFINE more == Append(p, c)
           n == Len(p)
<1>0. /\ n \in Nat /\ n + 1 \in Nat /\ Len(more) = n + 1
      /\ more[n + 1] = c /\ \A i \in 1..n : more[i] = p[i]
  BY AppendProperties, LenProperties DEF Text
<1> HIDE DEF more, n
<1> DEFINE m == Len(more)
<1>1. PICK g : \A j \in 0..m : g[j] = IF j = 0 THEN Start ELSE LikeStep(t, g[j - 1], more[j], e)
  <2>1. m \in Nat /\ m <= m
    BY <1>0
  <2>2. \E f : ScansTo(f, t, more, e, m)
    BY <2>1, ScanPrefix
  <2> QED BY <2>2 DEF ScansTo
<1> DEFINE F == [j \in 0..m |-> g[j]]
           G == [j \in 0..n |-> g[j]]
<1>2. Scans(F, t, more, e)
  <2>1. ASSUME NEW j \in 0..m
        PROVE  F[j] = IF j = 0 THEN Start ELSE LikeStep(t, F[j - 1], more[j], e)
    <3>1. F[j] = g[j] /\ (j # 0 => F[j - 1] = g[j - 1])
      BY <1>0
    <3> QED BY <1>1, <3>1
  <2> QED BY <2>1 DEF Scans
<1>3. Scans(G, t, p, e)
  <2>1. ASSUME NEW j \in 0..n
        PROVE  G[j] = IF j = 0 THEN Start ELSE LikeStep(t, G[j - 1], p[j], e)
    <3>1. j \in 0..m /\ G[j] = g[j] /\ (j # 0 => G[j - 1] = g[j - 1] /\ more[j] = p[j])
      BY <1>0
    <3>2. g[j] = IF j = 0 THEN Start ELSE LikeStep(t, g[j - 1], more[j], e)
      BY <1>1, <3>1
    <3> QED BY <3>1, <3>2
  <2> QED BY <2>1 DEF Scans, n
<1>4. m \in 0..m /\ n \in 0..n /\ m # 0 /\ m - 1 = n /\ m \in Nat /\ n \in Nat /\ more[m] = c
  BY <1>0
<1>5. F[m] = g[m] /\ G[n] = g[n]
  BY <1>4
<1>6. g[m] = LikeStep(t, g[n], c, e)
  BY <1>1, <1>4
<1> HIDE DEF F, G
<1>7. LikeScan(t, more, e) = F[m]
  BY <1>2, <1>4, ScanIs
<1>8. LikeScan(t, p, e) = G[n]
  BY <1>3, <1>4, ScanIs DEF n
<1> QED BY <1>5, <1>6, <1>7, <1>8 DEF more

(* An empty pattern leaves LIKE where it starts.                           *)
LEMMA ScanEmpty ==
  ASSUME NEW t, NEW e
  PROVE  LikeScan(t, <<>>, e) = Start
<1> DEFINE f == [j \in 0..0 |-> Start]
<1>1. Len(<<>>) = 0 /\ Len(<<>>) \in Nat
  OBVIOUS
<1>2. \A j \in 0..0 : j = 0
  OBVIOUS
<1>3. Scans(f, t, <<>>, e)
  BY <1>1, <1>2 DEF Scans
<1>4. LikeScan(t, <<>>, e) = f[Len(<<>>)]
  BY <1>1, <1>3, ScanIs
<1> QED BY <1>1, <1>4

-----------------------------------------------------------------------------
(* Searching *)

(* Where in the text an occurrence of s ends.                              *)
EndsOf(text, s) ==
  {i \in 0 .. Len(text) : /\ Len(s) <= i
                          /\ \A m \in 1 .. Len(s) : text[i - Len(s) + m] = s[m]}

At(ends, e) == [at |-> ends, escaped |-> e]

(* An occurrence that is one character longer ends one character later.    *)
LEMMA EndsAppend ==
  ASSUME NEW text \in Text, NEW s \in Text, NEW c \in Characters
  PROVE  EndsOf(text, Append(s, c)) = {i \in 1 .. Len(text) : i - 1 \in EndsOf(text, s) /\ text[i] = c}
<1> DEFINE n == Len(s)
           l == Len(text)
           more == Append(s, c)
<1>0. /\ n \in Nat /\ l \in Nat /\ Len(more) = n + 1 /\ more[n + 1] = c
      /\ \A m \in 1..n : more[m] = s[m]
  BY AppendProperties, LenProperties DEF Text
<1> HIDE DEF more
<1>1. ASSUME NEW i \in EndsOf(text, more)
      PROVE  i \in 1..l /\ i - 1 \in EndsOf(text, s) /\ text[i] = c
  <2>1. i \in 0..l /\ n + 1 <= i /\ \A m \in 1..(n + 1) : text[i - (n + 1) + m] = more[m]
    BY <1>0 DEF EndsOf
  <2>2. i \in 1..l /\ i - 1 \in 0..l /\ n <= i - 1
    BY <1>0, <2>1
  <2>3. text[i] = c
    <3>1. n + 1 \in 1..(n + 1) /\ i - (n + 1) + (n + 1) = i
      BY <1>0, <2>1
    <3>2. text[i - (n + 1) + (n + 1)] = more[n + 1]
      BY <2>1, <3>1
    <3> QED BY <1>0, <3>1, <3>2
  <2>4. ASSUME NEW m \in 1..n PROVE text[i - 1 - n + m] = s[m]
    <3>1. m \in 1..(n + 1) /\ i - (n + 1) + m = i - 1 - n + m
      BY <1>0, <2>1
    <3>2. text[i - (n + 1) + m] = more[m]
      BY <2>1, <3>1
    <3> QED BY <1>0, <3>1, <3>2
  <2> QED BY <2>2, <2>3, <2>4 DEF EndsOf
<1>2. ASSUME NEW i \in 1..l, i - 1 \in EndsOf(text, s), text[i] = c
      PROVE  i \in EndsOf(text, more)
  <2>1. n <= i - 1 /\ \A m \in 1..n : text[i - 1 - n + m] = s[m]
    BY <1>2 DEF EndsOf
  <2>2. i \in 0..l /\ n + 1 <= i
    BY <1>0, <2>1
  <2>3. ASSUME NEW m \in 1..(n + 1) PROVE text[i - (n + 1) + m] = more[m]
    <3>1. CASE m = n + 1
      <4>1. i - (n + 1) + m = i
        BY <1>0, <3>1
      <4> QED BY <1>0, <1>2, <3>1, <4>1
    <3>2. CASE m # n + 1
      <4>1. m \in 1..n /\ i - (n + 1) + m = i - 1 - n + m
        BY <1>0, <3>2
      <4> QED BY <1>0, <2>1, <4>1
    <3> QED BY <3>1, <3>2
  <2> QED BY <1>0, <2>2, <2>3 DEF EndsOf
<1> QED BY <1>1, <1>2 DEF more

(* In lower case a text has the same length, character by character ...    *)
LEMMA LowerCaseType ==
  ASSUME NEW text \in Text
  PROVE  /\ LowerCase(text) \in Text /\ Len(LowerCase(text)) = Len(text)
         /\ \A i \in 1 .. Len(text) : LowerCase(text)[i] = Lower[text[i]]
<1>1. /\ Len(text) \in Nat /\ DOMAIN text = 1 .. Len(text)
      /\ \A i \in 1 .. Len(text) : text[i] \in Characters
  BY LenProperties, ElementOfSeq DEF Text
<1>2. LowerCase(text) = [i \in 1 .. Len(text) |-> Lower[text[i]]]
  BY <1>1 DEF LowerCase
<1>3. \A i \in 1 .. Len(text) : Lower[text[i]] \in Characters
  BY <1>1, ListAssumption
<1>4. LowerCase(text) \in Seq(Characters) /\ Len(LowerCase(text)) = Len(text)
  BY <1>1, <1>2, <1>3, IsASeq
<1> QED BY <1>2, <1>4 DEF Text

(* ... from the front to the end.                                          *)
LEMMA LowerCaseAppend ==
  ASSUME NEW s \in Text, NEW c \in Characters
  PROVE  /\ Lower[c] \in Characters
         /\ LowerCase(Append(s, c)) = Append(LowerCase(s), Lower[c])
<1> DEFINE more == Append(s, c)
           low == LowerCase(s)
           d == Lower[c]
           n == Len(s)
<1>0. d \in Characters
  BY ListAssumption
<1>1. /\ n \in Nat /\ more \in Text /\ Len(more) = n + 1 /\ more[n + 1] = c
      /\ \A i \in 1..n : more[i] = s[i]
  BY AppendProperties, LenProperties DEF Text
<1>2. low \in Text /\ Len(low) = n /\ \A i \in 1..n : low[i] = Lower[s[i]]
  BY LowerCaseType
<1>3. LowerCase(more) \in Text /\ Len(LowerCase(more)) = n + 1
      /\ \A i \in 1..(n + 1) : LowerCase(more)[i] = Lower[more[i]]
  BY <1>1, LowerCaseType
<1> HIDE DEF low, d
<1>4. /\ Append(low, d) \in Seq(Characters) /\ Len(Append(low, d)) = n + 1
      /\ Append(low, d)[n + 1] = d /\ \A i \in 1..n : Append(low, d)[i] = low[i]
  BY <1>0, <1>2, AppendProperties DEF Text
<1> HIDE DEF more, n
<1>5. ASSUME NEW i \in 1..(n + 1) PROVE LowerCase(more)[i] = Append(low, d)[i]
  <2>1. CASE i = n + 1
    BY <1>1, <1>3, <1>4, <2>1 DEF d
  <2>2. CASE i # n + 1
    <3>1. i \in 1..n
      BY <1>1, <2>2
    <3> QED BY <1>1, <1>2, <1>3, <1>4, <3>1
  <2> QED BY <2>1, <2>2
<1>6. LowerCase(more) = Append(low, d)
  <2>1. LowerCase(more) \in Seq(Characters)
    BY <1>3 DEF Text
  <2> QED BY <1>3, <1>4, <1>5, <2>1, SeqEqual
<1> QED BY <1>0, <1>6 DEF more, low, d

(* Where an occurrence of s in either case ends.                           *)
FoundEnds(text, s) == EndsOf(LowerCase(text), LowerCase(s))

(* A character that stands for itself goes on with every occurrence.       *)
LEMMA StepLiteral ==
  ASSUME NEW text \in Text, NEW s \in Text, NEW c \in Characters, NEW e, NEW escaped \in {0, 1},
         escaped = 0 => c \notin Special
  PROVE  LikeStep(text, At(FoundEnds(text, s), escaped), c, e) = At(FoundEnds(text, Append(s, c)), 0)
<1> DEFINE state == At(FoundEnds(text, s), escaped)
           low == LowerCase(text)
<1>1. state.at = FoundEnds(text, s) /\ state.escaped = escaped
  BY DEF At
<1>2. LikeStep(text, state, c, e)
        = At({i \in 1 .. Len(text) : i - 1 \in FoundEnds(text, s) /\ Lower[text[i]] = Lower[c]}, 0)
  <2> HIDE DEF state
  <2>1. CASE escaped = 1
    BY <1>1, <2>1 DEF LikeStep, At
  <2>2. CASE escaped = 0
    BY <1>1, <2>2 DEF LikeStep, Special, At
  <2> QED BY <2>1, <2>2
<1>3. FoundEnds(text, Append(s, c))
        = {i \in 1 .. Len(low) : i - 1 \in FoundEnds(text, s) /\ low[i] = Lower[c]}
  <2>1. low \in Text /\ LowerCase(s) \in Text
    BY LowerCaseType
  <2>2. Lower[c] \in Characters /\ LowerCase(Append(s, c)) = Append(LowerCase(s), Lower[c])
    BY LowerCaseAppend
  <2> HIDE DEF low
  <2>3. EndsOf(low, Append(LowerCase(s), Lower[c]))
          = {i \in 1 .. Len(low) : i - 1 \in EndsOf(low, LowerCase(s)) /\ low[i] = Lower[c]}
    BY <2>1, <2>2, EndsAppend
  <2> QED BY <2>2, <2>3 DEF FoundEnds, low
<1>4. {i \in 1 .. Len(low) : i - 1 \in FoundEnds(text, s) /\ low[i] = Lower[c]}
        = {i \in 1 .. Len(text) : i - 1 \in FoundEnds(text, s) /\ Lower[text[i]] = Lower[c]}
  <2>1. Len(low) = Len(text) /\ \A i \in 1 .. Len(text) : low[i] = Lower[text[i]]
    BY LowerCaseType
  <2> HIDE DEF low
  <2> QED BY <2>1
<1> QED BY <1>2, <1>3, <1>4

(* The escape character only announces the next one.                       *)
LEMMA StepEscape ==
  ASSUME NEW text, NEW ends
  PROVE  LikeStep(text, At(ends, 0), "\\", TRUE) = At(ends, 1)
<1> DEFINE state == At(ends, 0)
<1>1. state.at = ends /\ state.escaped = 0
  BY DEF At
<1> HIDE DEF state
<1>2. LikeStep(text, state, "\\", TRUE) = At(state.at, 1)
  BY <1>1 DEF LikeStep, At
<1> QED BY <1>1, <1>2 DEF state

(* % goes on from everywhere behind what was matched.                      *)
LEMMA StepPercent ==
  ASSUME NEW text, NEW ends, NEW e
  PROVE  LikeStep(text, At(ends, 0), "%", e) = At({i \in 0 .. Len(text) : \E k \in ends : k <= i}, 0)
<1> DEFINE state == At(ends, 0)
<1>1. state.at = ends /\ state.escaped = 0
  BY DEF At
<1> HIDE DEF state
<1>2. LikeStep(text, state, "%", e) = At({i \in 0 .. Len(text) : \E k \in state.at : k <= i}, 0)
  BY <1>1 DEF LikeStep, At
<1> QED BY <1>1, <1>2 DEF state

Plain(s) == \A i \in DOMAIN s : s[i] \notin Special

(* Nothing to escape.                                                      *)
LEMMA EscapeEmpty == escapeLikeValue(<<>>) = <<>>
BY ReplaceEmpty DEF escapeLikeValue

(* After % and the escaped text LIKE stands where an occurrence of the     *)
(* text ends.                                                              *)
LEMMA ScanEscaped ==
  ASSUME NEW text \in Text, NEW e \in BOOLEAN
  PROVE  \A s \in Text : e \/ Plain(s) =>
           LikeScan(text, <<"%">> \o escapeLikeValue(s), e) = At(FoundEnds(text, s), 0)
<1> DEFINE Lead(s) == <<"%">> \o escapeLikeValue(s)
           Scanned(s) == e \/ Plain(s) => LikeScan(text, Lead(s), e) = At(FoundEnds(text, s), 0)
           T == {s \in Text : Scanned(s)}
<1>0. {"%", "_", "\\"} \subseteq Characters /\ <<"%">> \in Text
  BY ListAssumption, OneIsSeq DEF Text
<1>l. \A s \in Text : escapeLikeValue(s) \in Text /\ Lead(s) \in Text
  <2>1. \A s \in Text : escapeLikeValue(s) \in Text
    BY <1>0, EscapeAppend
  <2> QED BY <1>0, <2>1, ConcatProperties DEF Text
<1>1. <<>> \in T
  <2>1. Lead(<<>>) = <<"%">> /\ <<>> \in Text
    <3>1. <<"%">> \o <<>> = <<"%">>
      BY <1>0, ConcatEmptySeq DEF Text
    <3> QED BY <3>1, EscapeEmpty, EmptySeq DEF Text
  <2>2. LikeScan(text, <<"%">>, e) = LikeStep(text, Start, "%", e)
    <3>1. <<"%">> = Append(<<>>, "%")
      OBVIOUS
    <3>2. LikeScan(text, Append(<<>>, "%"), e) = LikeStep(text, LikeScan(text, <<>>, e), "%", e)
      BY <1>0, <2>1, ScanAppend
    <3> QED BY <3>1, <3>2, ScanEmpty
  <2>3. LikeStep(text, Start, "%", e) = At({i \in 0 .. Len(text) : \E k \in {0} : k <= i}, 0)
    <3> DEFINE zero == {0}
    <3>1. Start = At(zero, 0)
      BY DEF Start, At
    <3> HIDE DEF zero
    <3>2. LikeStep(text, At(zero, 0), "%", e) = At({i \in 0 .. Len(text) : \E k \in zero : k <= i}, 0)
      BY StepPercent
    <3> QED BY <3>1, <3>2 DEF zero
  <2>4. {i \in 0 .. Len(text) : \E k \in {0} : k <= i} = FoundEnds(text, <<>>)
    <3>1. LowerCase(<<>>) = <<>> /\ Len(<<>>) = 0
      BY DEF LowerCase
    <3>2. Len(LowerCase(text)) = Len(text)
      BY LowerCaseType
    <3> QED BY <3>1, <3>2 DEF EndsOf, FoundEnds
  <2>5. LikeScan(text, Lead(<<>>), e) = At(FoundEnds(text, <<>>), 0)
    BY <2>1, <2>2, <2>3, <2>4
  <2> QED BY <2>1, <2>5
<1>2. ASSUME NEW s \in T, NEW c \in Characters PROVE Append(s, c) \in T
  <2>1. s \in Text /\ Append(s, c) \in Text /\ Lead(s) \in Text /\ Scanned(s)
    BY <1>l, AppendProperties DEF Text
  <2>2. Lead(Append(s, c)) = Lead(s) \o Escaped(c)
    <3>1. escapeLikeValue(Append(s, c)) = escapeLikeValue(s) \o Escaped(c)
      BY <2>1, EscapeAppend
    <3>2. Escaped(c) \in Text
      <4>1. <<"\\", c>> \in Text /\ <<c>> \in Text
        BY <1>0, PairIsConcat DEF Text
      <4> QED BY <4>1 DEF Escaped
    <3> DEFINE lead == <<"%">>
               esc == escapeLikeValue(s)
               last == Escaped(c)
    <3>3. lead \in Seq(Characters) /\ esc \in Seq(Characters) /\ last \in Seq(Characters)
      BY <1>0, <1>l, <2>1, <3>2 DEF Text
    <3> HIDE DEF lead, esc, last
    <3>4. lead \o (esc \o last) = (lead \o esc) \o last
      BY <3>3, ConcatAssociative
    <3> QED BY <3>1, <3>4 DEF lead, esc, last
  <2>3. ASSUME e \/ Plain(Append(s, c))
        PROVE  LikeScan(text, Lead(s), e) = At(FoundEnds(text, s), 0) /\ (e \/ c \notin Special)
    <3>1. CASE e
      BY <2>1, <3>1
    <3>2. CASE Plain(Append(s, c))
      <4> DEFINE more == Append(s, c)
                 n == Len(s)
      <4>1. /\ DOMAIN more = 1..(n + 1) /\ DOMAIN s = 1..n /\ n \in Nat /\ more[n + 1] = c
            /\ \A i \in 1..n : more[i] = s[i]
        BY <2>1, AppendProperties, LenProperties DEF Text
      <4> HIDE DEF more, n
      <4>2. \A i \in 1..(n + 1) : more[i] \notin Special
        BY <3>2, <4>1 DEF Plain, more
      <4>3. n + 1 \in 1..(n + 1) /\ \A i \in 1..n : i \in 1..(n + 1)
        BY <4>1
      <4>4. Plain(s) /\ c \notin Special
        BY <4>1, <4>2, <4>3 DEF Plain
      <4> QED BY <2>1, <4>4
    <3> QED BY <2>3, <3>1, <3>2
  <2>4. ASSUME e \/ Plain(Append(s, c))
        PROVE  LikeScan(text, Lead(Append(s, c)), e) = At(FoundEnds(text, Append(s, c)), 0)
    <3>0. LikeScan(text, Lead(s), e) = At(FoundEnds(text, s), 0) /\ (e \/ c \notin Special)
      BY <2>3, <2>4
    <3>1. CASE c \notin Special
      <4>1. Lead(Append(s, c)) = Append(Lead(s), c)
        <5>1. Escaped(c) = <<c>>
          BY <3>1 DEF Escaped
        <5> HIDE DEF Lead
        <5> QED BY <2>1, <2>2, <5>1, AppendIsConcat DEF Text
      <4>2. LikeScan(text, Append(Lead(s), c), e) = LikeStep(text, LikeScan(text, Lead(s), e), c, e)
        BY <2>1, ScanAppend
      <4>3. LikeStep(text, At(FoundEnds(text, s), 0), c, e) = At(FoundEnds(text, Append(s, c)), 0)
        BY <2>1, <3>1, StepLiteral
      <4> QED BY <3>0, <4>1, <4>2, <4>3
    <3>2. CASE c \in Special
      <4>0. e = TRUE
        BY <3>0, <3>2
      <4>1. Lead(Append(s, c)) = Append(Append(Lead(s), "\\"), c) /\ Append(Lead(s), "\\") \in Text
        <5> HIDE DEF Lead
        <5>1. /\ Escaped(c) = <<"\\", c>> /\ <<"\\", c>> = <<"\\">> \o <<c>>
              /\ <<"\\">> \in Text /\ <<c>> \in Text
          BY <1>0, <3>2, PairIsConcat DEF Escaped, Text
        <5>2. Lead(s) \o (<<"\\">> \o <<c>>) = (Lead(s) \o <<"\\">>) \o <<c>>
          BY <2>1, <5>1, ConcatAssociative DEF Text
        <5>3. Lead(s) \o <<"\\">> = Append(Lead(s), "\\") /\ Append(Lead(s), "\\") \in Text
          BY <1>0, <2>1, AppendIsConcat, AppendProperties DEF Text
        <5>4. Append(Lead(s), "\\") \o <<c>> = Append(Append(Lead(s), "\\"), c)
          BY <5>3, AppendIsConcat DEF Text
        <5> QED BY <2>2, <5>1, <5>2, <5>3, <5>4
      <4>2. LikeScan(text, Append(Lead(s), "\\"), e) = At(FoundEnds(text, s), 1)
        <5>1. LikeScan(text, Append(Lead(s), "\\"), e) = LikeStep(text, LikeScan(text, Lead(s), e), "\\", e)
          BY <1>0, <2>1, ScanAppend
        <5> HIDE DEF Lead
        <5> QED BY <3>0, <4>0, <5>1, StepEscape
      <4>3. LikeScan(text, Append(Append(Lead(s), "\\"), c), e)
              = LikeStep(text, LikeScan(text, Append(Lead(s), "\\"), e), c, e)
        BY <4>1, ScanAppend
      <4>4. LikeStep(text, At(FoundEnds(text, s), 1), c, e) = At(FoundEnds(text, Append(s, c)), 0)
        BY <2>1, StepLiteral
      <4> QED BY <4>1, <4>2, <4>3, <4>4
    <3> QED BY <3>1, <3>2
  <2> HIDE DEF Lead
  <2> QED BY <2>1, <2>4
<1>3. T \in SUBSET Seq(Characters)
  BY DEF Text
<1> HIDE DEF T
<1>4. T = Seq(Characters)
  BY <1>1, <1>2, <1>3, SeqByInduction
<1> QED BY <1>4 DEF T, Text
(* A text contains another one if that ends somewhere in it.               *)
LEMMA ContainsEnds ==
  ASSUME NEW text \in Text, NEW s \in Text
  PROVE  ContainsText(text, s) <=> EndsOf(text, s) # {}
<1> DEFINE n == Len(s)
           l == Len(text)
<1>0. n \in Nat /\ l \in Nat /\ s = [m \in 1..n |-> s[m]]
  BY LenProperties DEF Text
<1>1. ASSUME NEW i \in 0..l, i + n <= l
      PROVE  SubSeq(text, i + 1, i + n) = [m \in 1..n |-> text[i + m]]
  <2>1. SubSeq(text, i + 1, i + n) = [m \in 1 .. (i + n - (i + 1) + 1) |-> text[i + 1 + m - 1]]
    BY <1>0, <1>1 DEF Text
  <2>2. i + n - (i + 1) + 1 = n /\ \A m \in 1..n : i + 1 + m - 1 = i + m
    BY <1>0
  <2>3. [m \in 1 .. (i + n - (i + 1) + 1) |-> text[i + 1 + m - 1]] = [m \in 1..n |-> text[i + m]]
    BY <2>2
  <2> QED BY <2>1, <2>3
<1>2. ASSUME NEW i \in 0..l, i + n <= l, SubSeq(text, i + 1, i + n) = s
      PROVE  i + n \in EndsOf(text, s)
  <2>1. \A m \in 1..n : s[m] = text[i + m]
    BY <1>1, <1>2
  <2>2. i + n \in 0..l /\ n <= i + n /\ \A m \in 1..n : i + n - n + m = i + m
    BY <1>0, <1>2
  <2> QED BY <2>1, <2>2 DEF EndsOf
<1>3. ASSUME NEW k \in EndsOf(text, s)
      PROVE  k - n \in 0..l /\ k - n + n <= l /\ SubSeq(text, k - n + 1, k - n + n) = s
  <2> DEFINE i == k - n
  <2>1. k \in 0..l /\ n <= k /\ \A m \in 1..n : text[i + m] = s[m]
    BY DEF EndsOf
  <2>2. i \in 0..l /\ i + n <= l
    BY <1>0, <2>1
  <2> HIDE DEF i
  <2>3. SubSeq(text, i + 1, i + n) = [m \in 1..n |-> text[i + m]]
    BY <1>1, <2>2
  <2>4. [m \in 1..n |-> text[i + m]] = [m \in 1..n |-> s[m]]
    BY <2>1
  <2> QED BY <1>0, <2>2, <2>3, <2>4 DEF i
<1>4. ContainsText(text, s) => EndsOf(text, s) # {}
  BY <1>2 DEF ContainsText
<1>5. ASSUME NEW k \in EndsOf(text, s) PROVE ContainsText(text, s)
  <2> DEFINE i == k - n
  <2>1. i \in 0..l /\ i + n <= l /\ SubSeq(text, i + 1, i + n) = s
    BY <1>3
  <2> HIDE DEF i
  <2> QED BY <2>1 DEF ContainsText
<1> QED BY <1>4, <1>5

(* The LIKE of the code finds the texts that contain, in either case, what *)
(* was searched for: with ESCAPE '\' always, without it when nothing had   *)
(* to be escaped.                                                          *)
LEMMA LikeFinds ==
  ASSUME NEW text \in Text, NEW s \in Text, NEW e \in BOOLEAN, e \/ Plain(s)
  PROVE  Like(text, Around(escapeLikeValue(s)), e)
           <=> ContainsText(LowerCase(text), LowerCase(s))
<1> DEFINE lead == <<"%">> \o escapeLikeValue(s)
           ends == FoundEnds(text, s)
           found == {i \in 0 .. Len(text) : \E k \in ends : k <= i}
<1>0. {"%", "_", "\\"} \subseteq Characters /\ <<"%">> \in Text /\ escapeLikeValue(s) \in Text
  BY ListAssumption, OneIsSeq, EscapeAppend DEF Text
<1>1. lead \in Seq(Characters)
  BY <1>0, ConcatProperties DEF Text
<1>2. LikeScan(text, lead, e) = At(ends, 0)
  BY ScanEscaped
<1>3. Around(escapeLikeValue(s)) = lead \o <<"%">>
  BY DEF Around
<1>8. Len(text) \in Nat /\ ends \subseteq 0..Len(text)
  BY LenProperties, LowerCaseType DEF Text, EndsOf, FoundEnds
<1>9. ContainsText(LowerCase(text), LowerCase(s)) <=> ends # {}
  BY LowerCaseType, ContainsEnds DEF FoundEnds
<1> HIDE DEF lead, ends
<1>4. lead \o <<"%">> = Append(lead, "%")
  BY <1>0, <1>1, AppendIsConcat
<1>5. LikeScan(text, Append(lead, "%"), e) = LikeStep(text, LikeScan(text, lead, e), "%", e)
  <2>1. lead \in Text /\ "%" \in Characters
    BY <1>0, <1>1 DEF Text
  <2> QED BY <2>1, ScanAppend
<1>6. LikeStep(text, At(ends, 0), "%", e) = At(found, 0)
  BY StepPercent
<1>7. LikeScan(text, Around(escapeLikeValue(s)), e) = At(found, 0)
  BY <1>2, <1>3, <1>4, <1>5, <1>6
<1>10. Like(text, Around(escapeLikeValue(s)), e) <=> Len(text) \in found
  <2> HIDE DEF found
  <2>1. At(found, 0).at = found /\ At(found, 0).escaped = 0
    BY DEF At
  <2> QED BY <1>7, <2>1 DEF Like
<1>11. Len(text) \in found <=> ends # {}
  <2> DEFINE l == Len(text)
  <2>1. l \in Nat /\ l \in 0..l /\ \A k \in ends : k <= l
    BY <1>8
  <2>2. found = {i \in 0..l : \E k \in ends : k <= i}
    OBVIOUS
  <2> HIDE DEF l, found
  <2>3. l \in found <=> ends # {}
    BY <2>1, <2>2
  <2> QED BY <2>3 DEF l
<1> QED BY <1>9, <1>10, <1>11

(* A search finds the rows whose text contains what was searched for: every *)
(* character taken for itself, letters of ASCII in either case, batches in *)
(* the case that was typed.                                                *)
THEOREM SearchFinds ==
  ASSUME NEW q \in Query, SearchesPlainly(q), NEW text \in Text
  PROVE  MatchesText(q.list, text, q.needle) <=> ContainsNeedle(q.list, text, q.needle)
<1> DEFINE s == q.needle
<1>0. s \in Text /\ q.list \in Lists
  BY ListAssumption DEF Query, Text
<1>1. CASE s = <<>>
  <2>1. ASSUME NEW t \in Text PROVE ContainsText(t, <<>>)
    <3>1. Len(<<>>) = 0 /\ Len(t) \in Nat
      BY LenProperties DEF Text
    <3>2. 0 \in EndsOf(t, <<>>)
      BY <3>1 DEF EndsOf
    <3> QED BY <1>0, <1>1, <3>2, ContainsEnds
  <2>2. LowerCase(<<>>) = <<>> /\ LowerCase(text) \in Text
    BY LowerCaseType DEF LowerCase
  <2>3. ContainsNeedle(q.list, text, <<>>)
    BY <2>1, <2>2 DEF ContainsNeedle
  <2> QED BY <1>1, <2>3 DEF MatchesText
<1>2. CASE s # <<>>
  <2>1. CASE q.list = "batches"
    BY <1>2, <2>1 DEF MatchesText, ContainsNeedle
  <2>2. CASE q.list = "history"
    <3>1. Plain(s)
      BY <2>2 DEF SearchesPlainly, Plain, Special, Wildcards
    <3>2. Like(text, Around(escapeLikeValue(s)), FALSE) <=> ContainsText(LowerCase(text), LowerCase(s))
      BY <1>0, <3>1, LikeFinds
    <3> HIDE DEF s
    <3>3. MatchesText(q.list, text, s) <=> Like(text, Around(escapeLikeValue(s)), FALSE)
      BY <1>2, <2>2 DEF MatchesText
    <3> QED BY <2>2, <3>2, <3>3 DEF s, ContainsNeedle
  <2>3. CASE q.list # "batches" /\ q.list # "history"
    <3>2. Like(text, Around(escapeLikeValue(s)), TRUE) <=> ContainsText(LowerCase(text), LowerCase(s))
      BY <1>0, LikeFinds
    <3> HIDE DEF s
    <3>3. MatchesText(q.list, text, s) <=> Like(text, Around(escapeLikeValue(s)), TRUE)
      BY <1>2, <2>3 DEF MatchesText
    <3> QED BY <2>3, <3>2, <3>3 DEF s, ContainsNeedle
  <2> QED BY <2>1, <2>2, <2>3
<1> QED BY <1>1, <1>2

(* The statement selects the rows that are meant.                          *)
LEMMA WhereIsWanted ==
  ASSUME NEW q \in Query, SearchesPlainly(q), NEW table, \A i \in DOMAIN table : table[i].text \in Text
  PROVE  WhereClause(q, table) = Wanted(q, table)
<1>1. \A i \in DOMAIN table :
        MatchesText(q.list, table[i].text, q.needle) <=> ContainsNeedle(q.list, table[i].text, q.needle)
  BY SearchFinds
<1> QED BY <1>1 DEF WhereClause, Wanted

-----------------------------------------------------------------------------
(* Pages *)

Rank(q, ids, i) == Cardinality(Ahead(q, ids, i))

(* Ranks are naturals.                                                     *)
LEMMA RankType ==
  ASSUME NEW q, NEW ids \in SUBSET Nat, IsFiniteSet(ids), NEW i
  PROVE  IsFiniteSet(Ahead(q, ids, i)) /\ Rank(q, ids, i) \in Nat
<1>1. Ahead(q, ids, i) \in SUBSET ids
  BY DEF Ahead
<1> QED BY <1>1, FS_Subset, FS_CardinalityType DEF Rank

(* The rows of a list are ranked 0, 1, 2, ... by the rows before them.     *)
LEMMA RankBound ==
  ASSUME NEW q, NEW ids \in SUBSET Nat, IsFiniteSet(ids), NEW i \in ids
  PROVE  Rank(q, ids, i) \in 0 .. Cardinality(ids) - 1
<1>1. Ahead(q, ids, i) \in SUBSET ids /\ i \notin Ahead(q, ids, i)
  BY DEF Ahead
<1>2. Cardinality(ids) \in Nat /\ Rank(q, ids, i) \in Nat
  BY RankType, FS_CardinalityType
<1>3. Rank(q, ids, i) <= Cardinality(ids) /\ Rank(q, ids, i) # Cardinality(ids)
  <2>1. /\ Cardinality(Ahead(q, ids, i)) <= Cardinality(ids)
        /\ Cardinality(ids) = Cardinality(Ahead(q, ids, i)) => ids = Ahead(q, ids, i)
    BY <1>1, FS_Subset
  <2> QED BY <1>1, <2>1 DEF Rank
<1> QED BY <1>2, <1>3

(* A row has a higher rank than those before it ...                        *)
LEMMA RankGrows ==
  ASSUME NEW q, NEW ids \in SUBSET Nat, IsFiniteSet(ids), NEW i \in ids, NEW j \in ids,
         i \in Ahead(q, ids, j)
  PROVE  Rank(q, ids, i) < Rank(q, ids, j)
<1>1. /\ Ahead(q, ids, i) \in SUBSET Ahead(q, ids, j)
      /\ i \notin Ahead(q, ids, i)
  <2>0. \A m \in ids : Ahead(q, ids, m) \subseteq ids
    BY DEF Ahead
  <2>1. CASE q.ascending
    <3>1. \A k, m \in ids : k \in Ahead(q, ids, m) <=> k < m
      BY <2>1 DEF Ahead
    <3>2. i < j /\ ~(i < i) /\ \A k \in ids : k < i => k < j
      BY <3>1
    <3>3. i \notin Ahead(q, ids, i)
      BY <3>1, <3>2
    <3>4. ASSUME NEW k \in Ahead(q, ids, i) PROVE k \in Ahead(q, ids, j)
      <4>1. k \in ids
        BY <2>0
      <4> QED BY <3>1, <3>2, <4>1
    <3> QED BY <3>3, <3>4
  <2>2. CASE ~q.ascending
    <3>1. \A k, m \in ids : k \in Ahead(q, ids, m) <=> k > m
      BY <2>2 DEF Ahead
    <3>2. i > j /\ ~(i > i) /\ \A k \in ids : k > i => k > j
      BY <3>1
    <3>3. i \notin Ahead(q, ids, i)
      BY <3>1, <3>2
    <3>4. ASSUME NEW k \in Ahead(q, ids, i) PROVE k \in Ahead(q, ids, j)
      <4>1. k \in ids
        BY <2>0
      <4> QED BY <3>1, <3>2, <4>1
    <3> QED BY <3>3, <3>4
  <2> QED BY <2>1, <2>2
<1>2. IsFiniteSet(Ahead(q, ids, j)) /\ Rank(q, ids, i) \in Nat /\ Rank(q, ids, j) \in Nat
  BY RankType
<1>3. /\ Cardinality(Ahead(q, ids, i)) <= Cardinality(Ahead(q, ids, j))
      /\ Cardinality(Ahead(q, ids, j)) = Cardinality(Ahead(q, ids, i))
           => Ahead(q, ids, j) = Ahead(q, ids, i)
  BY <1>1, <1>2, FS_Subset
<1>4. Cardinality(Ahead(q, ids, j)) # Cardinality(Ahead(q, ids, i))
  BY <1>1, <1>3
<1> QED BY <1>2, <1>3, <1>4 DEF Rank

(* ... so that no two rows have the same rank.                             *)
LEMMA RankDiffers ==
  ASSUME NEW q, NEW ids \in SUBSET Nat, IsFiniteSet(ids), NEW i \in ids, NEW j \in ids, i # j
  PROVE  Rank(q, ids, i) # Rank(q, ids, j)
<1>1. i \in Ahead(q, ids, j) \/ j \in Ahead(q, ids, i)
  BY DEF Ahead
<1>2. Rank(q, ids, i) < Rank(q, ids, j) \/ Rank(q, ids, j) < Rank(q, ids, i)
  BY <1>1, RankGrows
<1>3. Rank(q, ids, i) \in Nat /\ Rank(q, ids, j) \in Nat
  BY RankType
<1> QED BY <1>2, <1>3

(* Every rank below the number of rows is taken.                           *)
LEMMA RankTaken ==
  ASSUME NEW q, NEW ids \in SUBSET Nat, IsFiniteSet(ids), NEW r \in 0 .. Cardinality(ids) - 1
  PROVE  \E i \in ids : Rank(q, ids, i) = r
<1> DEFINE n == Cardinality(ids)
           T == 0 .. n - 1
           f == [i \in ids |-> Rank(q, ids, i)]
<1>1. n \in Nat
  BY FS_CardinalityType
<1>2. f \in [ids -> T]
  BY RankBound
<1>3. \A i, j \in ids : f[i] = f[j] => i = j
  BY RankDiffers
<1>4. IsFiniteSet(T) /\ Cardinality(T) = n
  BY <1>1, FS_Interval
<1>6. \A i \in ids : f[i] = Rank(q, ids, i)
  OBVIOUS
<1>7. r \in T
  OBVIOUS
<1> HIDE DEF f, T
<1>5. f \in Injection(ids, T)
  <2>1. IsInjective(f)
    BY <1>2, <1>3 DEF IsInjective
  <2> QED BY <1>2, <2>1 DEF Injection
<1>8. f \in Surjection(ids, T)
  BY <1>4, <1>5, FS_Injection
<1>9. PICK i \in ids : f[i] = r
  BY <1>7, <1>8 DEF Surjection
<1> QED BY <1>6, <1>9

(* A page that does not reach a row of the list is full.                   *)
LEMMA PageFull ==
  ASSUME NEW q \in Query, NEW p \in Nat, NEW ids \in SUBSET Nat, IsFiniteSet(ids), NEW b \in ids,
         NEW size \in Nat, size = parsePageSize(q.size), NEW off \in Nat, off = Offset(q, p),
         Rank(q, ids, b) >= off + size
  PROVE  Cardinality(Page(q, p, ids)) >= size
<1> DEFINE list == Page(q, p, ids)
           T == off .. off + size - 1
           f == [i \in list |-> Rank(q, ids, i)]
<1>1. /\ list \in SUBSET ids
      /\ \A i \in ids :
           i \in list <=> Rank(q, ids, i) >= off /\ Rank(q, ids, i) < off + size
  BY DEF Page, Rank
<1> HIDE DEF list
<1>2. \A i \in list : Rank(q, ids, i) \in T
  <2>1. \A i \in list : Rank(q, ids, i) \in Nat
    BY RankType
  <2> QED BY <1>1, <2>1
<1>3. ASSUME NEW r \in T PROVE \E i \in list : f[i] = r
  <2>1. Rank(q, ids, b) \in 0 .. Cardinality(ids) - 1 /\ Cardinality(ids) \in Nat
    BY RankBound, FS_CardinalityType
  <2>2. r \in 0 .. Cardinality(ids) - 1
    BY <2>1
  <2>3. PICK i \in ids : Rank(q, ids, i) = r
    BY <2>2, RankTaken
  <2>4. i \in list
    BY <1>1, <2>3
  <2> QED BY <2>3, <2>4
<1>4. f \in [list -> T]
  BY <1>2
<1>5. IsFiniteSet(list) /\ Cardinality(list) \in Nat
  BY <1>1, FS_Subset, FS_CardinalityType
<1>6. IsFiniteSet(T) /\ Cardinality(T) = size
  <2> DEFINE hi == off + size - 1
  <2>1. off \in Int /\ hi \in Int /\ (off > hi => size = 0) /\ hi - off + 1 = size /\ T = off .. hi
    OBVIOUS
  <2> HIDE DEF hi, T
  <2>2. IsFiniteSet(off .. hi) /\ Cardinality(off .. hi) = IF off > hi THEN 0 ELSE hi - off + 1
    BY <2>1, FS_Interval
  <2> QED BY <2>1, <2>2
<1> HIDE DEF f, T
<1>7. f \in Surjection(list, T)
  BY <1>3, <1>4 DEF Surjection
<1>8. Cardinality(T) <= Cardinality(list)
  BY <1>5, <1>7, FS_Surjection
<1> QED BY <1>5, <1>6, <1>8 DEF list

(* Rows that come into the list move no row to the front.                  *)
LEMMA RankKept ==
  ASSUME NEW q, NEW ids \in SUBSET Nat, NEW more \in SUBSET Nat, IsFiniteSet(more),
         ids \subseteq more, NEW i
  PROVE  Rank(q, ids, i) <= Rank(q, more, i)
<1>1. Ahead(q, ids, i) \in SUBSET Ahead(q, more, i)
  BY DEF Ahead
<1>2. IsFiniteSet(Ahead(q, more, i))
  BY RankType
<1> QED BY <1>1, <1>2, FS_Subset DEF Rank

(* Page sizes are naturals ...                                             *)
LEMMA PageSizeType ==
  ASSUME NEW q \in Query
  PROVE  parsePageSize(q.size) \in Nat
BY ListAssumption DEF parsePageSize, Query

(* ... and every page starts where the one before ends.                    *)
LEMMA OffsetStep ==
  ASSUME NEW q \in Query, NEW p \in Nat
  PROVE  Offset(q, p) \in Nat /\ Offset(q, 0) = 0 /\ Offset(q, p + 1) = Offset(q, p) + parsePageSize(q.size)
<1>1. \A s \in Nat : p * s \in Nat /\ 0 * s = 0 /\ (p + 1) * s = p * s + s
  OBVIOUS
<1> QED BY <1>1, PageSizeType DEF Offset

-----------------------------------------------------------------------------
(* The inductive invariant *)

ListTyped ==
  /\ IsFiniteSet(DOMAIN rows) /\ DOMAIN rows \subseteq Ids
  /\ \A i \in DOMAIN rows : rows[i] \in Row
  /\ query \in Query /\ page \in Nat /\ stage \in {"count", "rows", "done"} /\ left \in BOOLEAN

IsShown(b) == \E r \in shown : r.id = b

(* A row of the list the walk began with is still in the list while no row *)
(* has left it, and it was shown unless the pages so far end before it.    *)
WalkInv ==
  ~left /\ SearchesPlainly(query) =>
    /\ began \subseteq Wanted(query, rows)
    /\ \A b \in began : \/ IsShown(b)
                        \/ /\ stage # "done"
                           /\ Rank(query, Wanted(query, rows), b) >= Offset(query, page)

ListInv == ListTyped /\ ListMatchesFilter /\ WalkInv

(* A list is a finite set of ids.                                          *)
LEMMA WantedType ==
  ASSUME NEW q, NEW table, IsFiniteSet(DOMAIN table), DOMAIN table \subseteq Ids
  PROVE  Wanted(q, table) \in SUBSET Nat /\ IsFiniteSet(Wanted(q, table))
<1>1. Wanted(q, table) \in SUBSET DOMAIN table
  BY DEF Wanted
<1> QED BY <1>1, FS_Subset, ListAssumption

(* The rows a walk starts with are rows.                                   *)
LEMMA FirstRowType ==
  ASSUME NEW list \in Lists, NEW text \in Text
  PROVE  FirstRow(list, text) \subseteq Row
<1>1. OwnersIn(list) \subseteq Users \cup {NoUser}
  BY ListAssumption DEF OwnersIn
<1> QED BY <1>1 DEF FirstRow, Row, Text

(* A walk starts with nothing shown and nothing passed.                    *)
LEMMA WalkBegins == InitWalk => ListInv
<1> SUFFICES ASSUME InitWalk PROVE ListInv
  OBVIOUS
<1>1. PICK texts \in FirstTexts :
        /\ rows \in [DOMAIN texts -> UNION {FirstRow(query.list, t) : t \in Range(texts)}]
        /\ \A i \in DOMAIN texts : rows[i].text = texts[i]
  BY DEF InitWalk
<1>2. query \in Query /\ query.list \in Lists /\ page = 0 /\ stage = "count" /\ shown = {}
      /\ began = Wanted(query, rows) /\ left = FALSE
  BY DEF InitWalk, Query
<1>3. DOMAIN rows = DOMAIN texts /\ DOMAIN texts \subseteq Ids /\ IsFiniteSet(DOMAIN texts)
      /\ \A t \in Range(texts) : t \in Text
  <2>1. texts \in Seq(Text) /\ DOMAIN texts \subseteq Ids
    BY ListAssumption DEF Text
  <2>2. DOMAIN texts = 1 .. Len(texts) /\ Len(texts) \in Nat
    BY <2>1, LenProperties
  <2>3. IsFiniteSet(1 .. Len(texts))
    BY <2>2, FS_Interval
  <2>4. \A i \in DOMAIN texts : texts[i] \in Text
    BY <2>1, <2>2, ElementOfSeq
  <2> QED BY <1>1, <2>1, <2>2, <2>3, <2>4 DEF Range
<1>4. \A i \in DOMAIN rows : rows[i] \in Row
  <2>1. \A t \in Range(texts) : FirstRow(query.list, t) \subseteq Row
    BY <1>2, <1>3, FirstRowType
  <2> QED BY <1>1, <1>3, <2>1
<1>5. ListTyped
  BY <1>2, <1>3, <1>4 DEF ListTyped
<1>6. ListMatchesFilter
  BY <1>2 DEF ListMatchesFilter
<1>7. WalkInv
  <2>1. \A b \in began : Rank(query, Wanted(query, rows), b) >= Offset(query, page)
    <3>1. Wanted(query, rows) \in SUBSET Nat /\ IsFiniteSet(Wanted(query, rows))
      BY <1>3, WantedType
    <3>2. \A b : Rank(query, Wanted(query, rows), b) \in Nat
      BY <3>1, RankType
    <3>3. Offset(query, page) = 0
      BY <1>2, OffsetStep
    <3> QED BY <3>2, <3>3
  <2> QED BY <1>2, <2>1 DEF WalkInv
<1> QED BY <1>5, <1>6, <1>7 DEF ListInv

(* Counting moves nothing.                                                 *)
LEMMA CountWalks ==
  ASSUME ListInv, CountRows
  PROVE  ListInv'
<1>1. stage = "count" /\ stage' = "rows" /\ UNCHANGED <<rows, query, page, shown, began, left>>
  BY DEF CountRows
<1>2. ListTyped'
  BY <1>1 DEF ListInv, ListTyped
<1>3. ListMatchesFilter'
  BY <1>1 DEF ListInv, ListMatchesFilter
<1>4. WalkInv'
  BY <1>1 DEF ListInv, WalkInv, IsShown
<1> QED BY <1>2, <1>3, <1>4 DEF ListInv

(* A page shows the rows it is at; when it is not full, none is behind it. *)
LEMMA SelectWalks ==
  ASSUME ListInv, SelectRows
  PROVE  ListInv'
<1> DEFINE wanted == Wanted(query, rows)
           list == Page(query, page, WhereClause(query, rows))
           size == parsePageSize(query.size)
<1>1. /\ stage = "rows" /\ UNCHANGED <<rows, query, began, left>>
      /\ shown' = shown \cup {[id |-> i, text |-> rows[i].text] : i \in list}
      /\ \/ Cardinality(list) < size /\ stage' = "done" /\ page' = page
         \/ ~(Cardinality(list) < size) /\ stage' = "count" /\ page' = page + 1
  BY DEF SelectRows
<1>2. ListTyped
  BY DEF ListInv
<1>3. ListTyped'
  BY <1>1, <1>2 DEF ListTyped
<1>4. wanted \in SUBSET Nat /\ IsFiniteSet(wanted) /\ query \in Query /\ page \in Nat
      /\ size \in Nat /\ Offset(query, page) \in Nat /\ Offset(query, page + 1) = Offset(query, page) + size
  BY <1>2, WantedType, OffsetStep, PageSizeType DEF ListTyped
<1>5. ASSUME SearchesPlainly(query)
      PROVE  WhereClause(query, rows) = wanted
  <2>1. \A i \in DOMAIN rows : rows[i].text \in Text
    BY <1>2 DEF ListTyped, Row, Text
  <2> QED BY <1>4, <1>5, <2>1, WhereIsWanted
<1>6. ListMatchesFilter'
  <2> SUFFICES ASSUME SearchesPlainly(query), NEW r \in shown'
               PROVE  ContainsNeedle(query.list, r.text, query.needle)
    BY <1>1 DEF ListMatchesFilter
  <2>1. CASE r \in shown
    BY <2>1 DEF ListInv, ListMatchesFilter
  <2>2. CASE r \notin shown
    <3>1. PICK i \in list : r = [id |-> i, text |-> rows[i].text]
      BY <1>1, <2>2
    <3>2. i \in wanted
      BY <1>5 DEF Page
    <3> QED BY <3>1, <3>2 DEF Wanted
  <2> QED BY <2>1, <2>2
<1>7. WalkInv'
  <2> SUFFICES ASSUME ~left, SearchesPlainly(query)
               PROVE  /\ began \subseteq wanted
                      /\ \A b \in began : \/ IsShown(b)'
                                          \/ stage' # "done" /\ Rank(query, wanted, b) >= Offset(query, page')
    BY <1>1 DEF WalkInv
  <2>1. /\ began \subseteq wanted
        /\ \A b \in began : IsShown(b) \/ Rank(query, wanted, b) >= Offset(query, page)
    BY DEF ListInv, WalkInv
  <2>2. list = Page(query, page, wanted)
    BY <1>5
  <2>3. ASSUME NEW b \in began, ~IsShown(b)'
        PROVE  stage' # "done" /\ Rank(query, wanted, b) >= Offset(query, page')
    <3>1. b \in wanted /\ Rank(query, wanted, b) \in Nat
      BY <1>4, <2>1, RankType
    <3>2. ~IsShown(b) /\ b \notin list
      <4>1. ~IsShown(b)
        BY <1>1, <2>3 DEF IsShown
      <4>2. ASSUME b \in list PROVE FALSE
        <5> DEFINE r == [id |-> b, text |-> rows[b].text]
        <5>1. r \in shown' /\ r.id = b
          BY <1>1, <4>2
        <5> QED BY <2>3, <5>1 DEF IsShown
      <4> QED BY <4>1, <4>2
    <3>3. Rank(query, wanted, b) >= Offset(query, page)
      BY <2>1, <3>2
    <3>4. Rank(query, wanted, b) >= Offset(query, page) + size
      <4>1. ~(Rank(query, wanted, b) < Offset(query, page) + size)
        BY <2>2, <3>1, <3>2, <3>3 DEF Page, Rank
      <4> QED BY <1>4, <3>1, <4>1
    <3>5. Cardinality(list) >= size
      <4> DEFINE off == Offset(query, page)
      <4>1. off \in Nat /\ off = Offset(query, page) /\ size = parsePageSize(query.size)
            /\ Rank(query, wanted, b) >= off + size
        BY <1>4, <3>4
      <4> HIDE DEF off, size, wanted, list
      <4>2. Cardinality(Page(query, page, wanted)) >= size
        BY <1>4, <3>1, <4>1, PageFull
      <4> QED BY <2>2, <4>2
    <3>6. Cardinality(list) \in Nat
      <4>1. list \in SUBSET wanted
        BY <2>2 DEF Page
      <4> QED BY <1>4, <4>1, FS_Subset, FS_CardinalityType
    <3> HIDE DEF list, size, wanted
    <3>7. ~(Cardinality(list) < size)
      BY <1>4, <3>5, <3>6
    <3> QED BY <1>1, <1>4, <3>4, <3>7
  <2> QED BY <2>1, <2>3
<1> QED BY <1>3, <1>6, <1>7 DEF ListInv

(* What others do: while no row leaves the list, rows only come in.        *)
LEMMA ChangeWalks ==
  ASSUME ListInv, NEW table, ChangeRows(table),
         IsFiniteSet(DOMAIN table), DOMAIN table \subseteq Ids, \A i \in DOMAIN table : table[i] \in Row
  PROVE  ListInv'
<1> DEFINE wanted == Wanted(query, rows)
           new == Wanted(query, table)
<1>1. /\ rows' = table /\ UNCHANGED <<query, page, stage, shown, began>> /\ stage # "done"
      /\ left' = (left \/ ~(wanted \subseteq new))
  BY DEF ChangeRows
<1>2. ListTyped /\ left \in BOOLEAN
  BY DEF ListInv, ListTyped
<1>3. ListTyped'
  <2>1. left' \in BOOLEAN
    BY <1>1, <1>2
  <2> QED BY <1>1, <1>2, <2>1 DEF ListTyped
<1>4. ListMatchesFilter'
  BY <1>1 DEF ListInv, ListMatchesFilter
<1>5. WalkInv'
  <2> SUFFICES ASSUME ~left', SearchesPlainly(query)
               PROVE  /\ began \subseteq new
                      /\ \A b \in began : IsShown(b) \/ Rank(query, new, b) >= Offset(query, page)
    BY <1>1 DEF WalkInv, IsShown
  <2>1. ~left /\ wanted \subseteq new
    BY <1>1
  <2>2. /\ began \subseteq wanted
        /\ \A b \in began : IsShown(b) \/ Rank(query, wanted, b) >= Offset(query, page)
    BY <2>1 DEF ListInv, WalkInv
  <2>3. wanted \in SUBSET Nat /\ IsFiniteSet(wanted) /\ new \in SUBSET Nat /\ IsFiniteSet(new)
        /\ Offset(query, page) \in Nat
    BY <1>2, WantedType, OffsetStep DEF ListTyped
  <2> HIDE DEF wanted, new
  <2>4. \A b : Rank(query, wanted, b) <= Rank(query, new, b)
    BY <2>1, <2>3, RankKept
  <2>5. \A b : Rank(query, wanted, b) \in Nat /\ Rank(query, new, b) \in Nat
    BY <2>3, RankType
  <2> QED BY <2>1, <2>2, <2>3, <2>4, <2>5
<1> QED BY <1>3, <1>4, <1>5 DEF ListInv

(* Every change of the others is such a change of the table.               *)
LEMMA OthersWalk ==
  ASSUME ListInv, Others
  PROVE  ListInv'
<1>1. IsFiniteSet(DOMAIN rows) /\ DOMAIN rows \subseteq Ids /\ (\A i \in DOMAIN rows : rows[i] \in Row)
      /\ query.list \in Lists
  BY DEF ListInv, ListTyped, Query
<1>2. ASSUME NEW i \in DOMAIN rows, NEW u \in Users \cup {NoUser}, Assign(i, u) PROVE ListInv'
  <2> DEFINE table == [rows EXCEPT ![i].owner = u]
  <2>1. DOMAIN table = DOMAIN rows /\ \A j \in DOMAIN table : table[j] \in Row
    BY <1>1 DEF Row
  <2>2. ChangeRows(table)
    BY <1>2 DEF Assign
  <2> HIDE DEF table
  <2> QED BY <1>1, <2>1, <2>2, ChangeWalks
<1>3. ASSUME NEW i \in DOMAIN rows, NEW s \in {0, 1}, SetStatus(i, s) PROVE ListInv'
  <2> DEFINE table == [rows EXCEPT ![i].status = s]
  <2>1. DOMAIN table = DOMAIN rows /\ \A j \in DOMAIN table : table[j] \in Row
    BY <1>1 DEF Row
  <2>2. ChangeRows(table)
    BY <1>3 DEF SetStatus
  <2> HIDE DEF table
  <2> QED BY <1>1, <2>1, <2>2, ChangeWalks
<1>4. ASSUME NEW i \in DOMAIN rows, Delete(i) \/ TakeBack(i) PROVE ListInv'
  <2> DEFINE table == [rows EXCEPT ![i].isDeleted = 1]
  <2>1. DOMAIN table = DOMAIN rows /\ \A j \in DOMAIN table : table[j] \in Row
    BY <1>1 DEF Row
  <2>2. ChangeRows(table)
    BY <1>4 DEF Delete, TakeBack
  <2> HIDE DEF table
  <2> QED BY <1>1, <2>1, <2>2, ChangeWalks
<1>5. ASSUME NEW owner \in OwnersOfNew(query.list), NEW text \in NewTexts,
             Ids \ DOMAIN rows # {}, Insert(owner, text)
      PROVE  ListInv'
  <2> DEFINE next == CHOOSE i \in Ids \ DOMAIN rows : \A j \in Ids \ DOMAIN rows : i <= j
             new == [owner |-> owner, status |-> 0, isDeleted |-> 0, text |-> text]
             table == [i \in DOMAIN rows \cup {next} |-> IF i = next THEN new ELSE rows[i]]
  <2>1. next \in Ids
    <3>1. Ids \ DOMAIN rows \in SUBSET Nat
      BY ListAssumption
    <3>2. \E i \in Ids \ DOMAIN rows : \A j \in Ids \ DOMAIN rows : i <= j
      BY <1>5, <3>1, LeastNat
    <3> QED BY <3>2
  <2>2. new \in Row
    <3>1. owner \in Users \cup {NoUser}
      BY <1>1, ListAssumption DEF OwnersOfNew, OwnersIn
    <3>2. text \in Seq(Characters)
      BY ListAssumption
    <3> QED BY <3>1, <3>2 DEF Row
  <2>3. ChangeRows(table)
    BY <1>5 DEF Insert
  <2> HIDE DEF next, new
  <2>4. DOMAIN table = DOMAIN rows \cup {next} /\ \A j \in DOMAIN table : table[j] \in Row
    BY <1>1, <2>2
  <2>5. IsFiniteSet(DOMAIN rows \cup {next})
    BY <1>1, FS_AddElement
  <2> HIDE DEF table
  <2> QED BY <1>1, <2>1, <2>3, <2>4, <2>5, ChangeWalks
<1> QED BY <1>2, <1>3, <1>4, <1>5 DEF Others

(* No step breaks the invariant.                                           *)
LEMMA WalkGoesOn == ListInv /\ [NextWalk]_walkVars => ListInv'
<1> SUFFICES ASSUME ListInv, [NextWalk]_walkVars PROVE ListInv'
  OBVIOUS
<1>1. CASE CountRows
  BY <1>1, CountWalks
<1>2. CASE SelectRows
  BY <1>2, SelectWalks
<1>3. CASE Others
  BY <1>3, OthersWalk
<1>4. CASE UNCHANGED walkVars
  <2>1. UNCHANGED <<rows, query, page, stage, shown, began, left>>
    BY <1>4 DEF walkVars
  <2>2. ListTyped'
    BY <2>1 DEF ListInv, ListTyped
  <2>3. ListMatchesFilter'
    BY <2>1 DEF ListInv, ListMatchesFilter
  <2>4. WalkInv'
    BY <2>1 DEF ListInv, WalkInv, IsShown
  <2> QED BY <2>2, <2>3, <2>4 DEF ListInv
<1> QED BY <1>1, <1>2, <1>3, <1>4 DEF NextWalk

(* The walk is where its pages so far have brought it, in every state.     *)
THEOREM WalksInvariant == SpecWalk => []ListInv
<1> QED BY WalkBegins, WalkGoesOn, PTL DEF SpecWalk

(* A search shows only rows that contain what was searched for: no %, _ or *)
(* \ of the user's text works as a pattern.                                *)
THEOREM ListsMatch == SpecWalk => []ListMatchesFilter
<1>1. ListInv => ListMatchesFilter
  BY DEF ListInv
<1> QED BY <1>1, WalksInvariant, PTL

(* A walk that ends has shown every row it began with, unless some row     *)
(* left the list meanwhile.                                                *)
THEOREM WalksSkipNothing == SpecWalk => []WalkSkipsNothing
<1>1. ListInv => WalkSkipsNothing
  BY DEF ListInv, WalkInv, IsShown, WalkSkipsNothing
<1> QED BY <1>1, WalksInvariant, PTL

-----------------------------------------------------------------------------
(* The app reporting a call (AppClient) *)

AppLabels ==
  {"free", "auth", "lookup", "customer", "write", "conflict", "get", "user", "delete",
   "answered"}

(* The part of the state the argument speaks of has its type, and the      *)
(* unique index lets one row in.                                           *)
AppTyped ==
  /\ app \in {"report", "refresh"} \cup Ended
  /\ waits \in Slots \cup {None}
  /\ at \in [Slots -> AppLabels]
  /\ status \in [Slots -> {0, 200, 401, 403, 404, 500}]
  /\ logged \in {0, 1}

(* The request the app waits for is the one it sent: its handler is where  *)
(* such a handler can be and answers as such a handler does; and when a    *)
(* report is answered 200, the row is there.                               *)
AtReport == {"free", "auth", "lookup", "customer", "write", "conflict", "answered"}
AtRefresh == {"free", "get", "user", "delete", "answered"}

WaitsForReport ==
  app = "report" /\ waits # None =>
    /\ at[waits] \in AtReport
    /\ at[waits] = "answered" => status[waits] \in {200, 401, 403, 404, 500}
    /\ at[waits] = "answered" /\ status[waits] = 200 => logged = 1

WaitsForRefresh ==
  app = "refresh" /\ waits # None =>
    /\ at[waits] \in AtRefresh
    /\ at[waits] = "answered" => status[waits] \in {200, 403, 500}

(* After the end the app waits for nothing, and saved is saved.            *)
EndIsFinal ==
  /\ app \in Ended => waits = None
  /\ app = "saved" => logged = 1

AppInv == AppTyped /\ WaitsForReport /\ WaitsForRefresh /\ EndIsFinal

(* The app starts with nothing sent.                                       *)
LEMMA InitApp == Init => AppInv
BY ClientAssumption DEF Init, AppInv, AppTyped, WaitsForReport, WaitsForRefresh, EndIsFinal, AppLabels, Ended

(* It sends into a free slot, and waits for that one.                      *)
LEMMA SendApp ==
  ASSUME AppInv, NEW s \in Slots, NEW luck \in BOOLEAN,
         SendReport(s, luck) \/ SendRefresh(s, luck)
  PROVE  AppInv'
<1>1. CASE SendReport(s, luck)
  BY <1>1, ClientAssumption
  DEF SendReport, Send, AppInv, AppTyped, WaitsForReport, WaitsForRefresh, EndIsFinal, AppLabels,
      AtReport, Ended, world
<1>2. CASE SendRefresh(s, luck)
  BY <1>2, ClientAssumption
  DEF SendRefresh, Send, AppInv, AppTyped, WaitsForReport, WaitsForRefresh, EndIsFinal, AppLabels,
      AtRefresh, Ended, world
<1> QED BY <1>1, <1>2

(* It gives up waiting, or logs in again; meanwhile the world changes.     *)
LEMMA TimeOutApp == AppInv /\ TimeOut => AppInv'
BY DEF TimeOut, AppInv, AppTyped, WaitsForReport, WaitsForRefresh, EndIsFinal, Ended, server

LEMMA LogInApp == AppInv /\ LogIn => AppInv'
BY DEF LogIn, AppInv, AppTyped, WaitsForReport, WaitsForRefresh, EndIsFinal, Ended, server

LEMMA ChangeApp == AppInv /\ Change => AppInv'
BY DEF Change, AppInv, AppTyped, WaitsForReport, WaitsForRefresh, EndIsFinal, Ended

(* A step of one slot behind the app's back: the slot is freed, or its     *)
(* handler goes on or answers as the handler of its request does.          *)
SlotStep(s, label, code) ==
  /\ at' = [at EXCEPT ![s] = label] /\ status' = [status EXCEPT ![s] = code]
  /\ app' = app /\ waits' = waits /\ logged' \in {0, 1} /\ logged' >= logged
  /\ \/ label = "free"
     \/ at[s] \in {"auth", "lookup", "customer", "write", "conflict"} /\ label \in AtReport
     \/ at[s] \in {"get", "user", "delete"} /\ label \in AtRefresh
  /\ label = "answered" /\ at[s] \in AtReport =>
       code \in {200, 401, 403, 404, 500} /\ (code = 200 => logged' = 1)
  /\ label = "answered" /\ at[s] \in AtRefresh => code \in {200, 403, 500}

(* Such a step keeps what the app relies on.                               *)
LEMMA SlotStepApp ==
  ASSUME AppInv, NEW s \in Slots, NEW label \in AppLabels, NEW code \in {0, 200, 401, 403, 404, 500},
         SlotStep(s, label, code)
  PROVE  AppInv'
<1> USE DEF SlotStep
<1>1. AppTyped'
  BY DEF AppInv, AppTyped, AppLabels
<1>2. \A t \in Slots : t # s => at'[t] = at[t] /\ status'[t] = status[t]
  BY DEF AppInv, AppTyped
<1>3. at'[s] = label /\ status'[s] = code
  BY DEF AppInv, AppTyped
<1>4. waits # None => waits \in Slots
  BY DEF AppInv, AppTyped
<1>5. WaitsForReport'
  <2>1. CASE waits = s
    BY <1>3, <2>1 DEF AppInv, WaitsForReport, AtReport, AtRefresh
  <2>2. CASE waits # s
    BY <1>2, <1>4, <2>2 DEF AppInv, AppTyped, WaitsForReport
  <2> QED BY <2>1, <2>2
<1>6. WaitsForRefresh'
  <2>1. CASE waits = s
    BY <1>3, <2>1 DEF AppInv, WaitsForRefresh, AtReport, AtRefresh
  <2>2. CASE waits # s
    BY <1>2, <1>4, <2>2 DEF AppInv, AppTyped, WaitsForRefresh
  <2> QED BY <2>1, <2>2
<1>7. EndIsFinal'
  BY DEF AppInv, AppTyped, EndIsFinal, Ended
<1> QED BY <1>1, <1>5, <1>6, <1>7 DEF AppInv

(* An answer reaches the app, or nobody.                                   *)
LEMMA DeliverApp ==
  ASSUME AppInv, NEW s \in Slots, Deliver(s)
  PROVE  AppInv'
<1>1. /\ at' = [at EXCEPT ![s] = "free"] /\ status' = [status EXCEPT ![s] = 0] /\ logged' = logged
      /\ at[s] = "answered" /\ logged \in {0, 1}
  BY DEF Deliver, Free, AppInv, AppTyped
<1>2. CASE waits # s /\ UNCHANGED client
  <2>1. SlotStep(s, "free", 0)
    BY <1>1, <1>2 DEF client, SlotStep
  <2> QED BY <2>1, SlotStepApp DEF AppLabels
<1>3. CASE waits = s /\ waits' = None
           /\ app' = IF app = "report" THEN AfterReport(status[s]) ELSE AfterRefresh(status[s])
  <2>0. s # None
    BY ClientAssumption
  <2>1. app \in {"report", "refresh"}
    BY <1>3, <2>0 DEF AppInv, AppTyped, EndIsFinal
  <2>2. CASE app = "report"
    BY <1>1, <1>3, <2>0, <2>2 DEF AppInv, AppTyped, AppLabels, WaitsForReport, WaitsForRefresh, EndIsFinal,
       AfterReport, Ended
  <2>3. CASE app = "refresh"
    BY <1>1, <1>3, <2>0, <2>3 DEF AppInv, AppTyped, AppLabels, WaitsForReport, WaitsForRefresh, EndIsFinal,
       AfterRefresh, Ended
  <2> QED BY <2>1, <2>2, <2>3
<1> QED BY <1>2, <1>3 DEF Deliver

Before(label) == label \notin {"free", "answered"}

(* A handler that goes on ...                                              *)
LEMMA GotoApp ==
  ASSUME AppInv, NEW s \in Slots, NEW label \in AppLabels, Goto(s, label), logged' = logged,
         Before(at[s]), Before(label), at[s] \in AtReport <=> label \in AtReport
  PROVE  AppInv'
<1>1. /\ status[s] \in {0, 200, 401, 403, 404, 500}
      /\ status' = [status EXCEPT ![s] = status[s]]
      /\ logged \in {0, 1} /\ at[s] \in AppLabels
  BY DEF AppInv, AppTyped, Goto
<1>2. at' = [at EXCEPT ![s] = label] /\ app' = app /\ waits' = waits
  BY DEF Goto, client
<1>3. SlotStep(s, label, status[s])
  BY <1>1, <1>2 DEF SlotStep, Before, AppLabels, AtReport, AtRefresh
<1> QED BY <1>1, <1>3, SlotStepApp

(* ... and one that answers.                                               *)
LEMMA AnswerApp ==
  ASSUME AppInv, NEW s \in Slots, NEW code \in {200, 401, 403, 404, 500}, Answer(s, code),
         Before(at[s]), logged' \in {0, 1}, logged' >= logged,
         at[s] \in AtReport => (code = 200 => logged' = 1),
         at[s] \in AtRefresh => code \in {200, 403, 500}
  PROVE  AppInv'
<1>1. /\ at' = [at EXCEPT ![s] = "answered"] /\ status' = [status EXCEPT ![s] = code]
      /\ app' = app /\ waits' = waits
  BY DEF Answer, client
<1>2. at[s] \in AppLabels /\ at[s] # "free" /\ at[s] # "answered"
  BY DEF AppInv, AppTyped, Before
<1>3. SlotStep(s, "answered", code)
  BY <1>1, <1>2 DEF SlotStep, AppLabels, AtReport, AtRefresh
<1> QED BY <1>3, SlotStepApp DEF AppLabels

(* Every statement of a handler is one of these steps.                     *)
LEMMA HandleApp ==
  ASSUME AppInv, NEW s \in Slots, Handle(s)
  PROVE  AppInv'
<1>0. logged \in {0, 1}
  BY DEF AppInv, AppTyped
<1> USE <1>0, GotoApp, AnswerApp DEF Before, AppLabels, AtReport, AtRefresh
<1>1. CASE Authenticate(s) BY <1>1 DEF Authenticate
<1>2. CASE LookupRequestId(s) BY <1>2 DEF LookupRequestId
<1>3. CASE ReadCustomer(s) BY <1>3 DEF ReadCustomer
<1>4. CASE WriteLog(s) BY <1>4 DEF WriteLog, Conflicts
<1>5. CASE WriteConflict(s) BY <1>5 DEF WriteConflict
<1>6. CASE ResolveConflict(s) BY <1>6 DEF ResolveConflict
<1>7. CASE GetSession(s) BY <1>7 DEF GetSession
<1>8. CASE ReadUser(s) BY <1>8 DEF ReadUser
<1>9. CASE DeleteSession(s) BY <1>9 DEF DeleteSession
<1> QED BY <1>1, <1>2, <1>3, <1>4, <1>5, <1>6, <1>7, <1>8, <1>9 DEF Handle

(* So is a statement that fails, or an answer that is lost.                *)
LEMMA FailApp ==
  ASSUME AppInv, NEW s \in Slots, Fail(s) \/ Lose(s)
  PROVE  AppInv'
<1>0. at[s] \in AppLabels /\ logged \in {0, 1}
  BY DEF AppInv, AppTyped
<1>1. CASE Fail(s)
  BY <1>0, <1>1, AnswerApp DEF Fail, Before
<1>2. CASE Lose(s)
  <2>1. SlotStep(s, "free", 0)
    BY <1>0, <1>2 DEF Lose, Free, client, SlotStep
  <2> QED BY <2>1, SlotStepApp DEF AppLabels
<1> QED BY <1>1, <1>2

(* No step breaks the invariant.                                           *)
LEMMA NextApp == AppInv /\ [Next]_vars => AppInv'
<1> SUFFICES ASSUME AppInv, [Next]_vars PROVE AppInv'
  OBVIOUS
<1>1. CASE AppStep
  BY <1>1, SendApp, TimeOutApp, LogInApp DEF AppStep
<1>2. CASE \E s \in Slots : ServerStep(s)
  BY <1>2, HandleApp, FailApp, DeliverApp DEF ServerStep
<1>3. CASE Change
  BY <1>3, ChangeApp
<1>4. CASE UNCHANGED vars
  BY <1>4 DEF vars, client, server, world, AppInv, AppTyped, WaitsForReport,
     WaitsForRefresh, EndIsFinal
<1> QED BY <1>1, <1>2, <1>3, <1>4 DEF Next

(* However many requests are in flight and however often the world around  *)
(* the call changes, the call is in call_logs once at most, and it is      *)
(* there when the app is told so.                                          *)
THEOREM CallSavedOnce == Spec => []SavedOnce
<1>1. AppInv => SavedOnce
  BY DEF AppInv, AppTyped, EndIsFinal, SavedOnce
<1> QED BY <1>1, InitApp, NextApp, PTL DEF Spec
=============================================================================
